SPECIFICATION Spec
CONSTANTS
    Parse <- ReadTransaction
    LengthPrefix <- LengthBytes
    Sent <- Sendings
    SignatureOf <- Signatures
    Username <- Names
    NoBytes = NoBytes
    NoTransaction = NoTransaction
INVARIANTS
    BrokenIsNeverSigned
    DescriptionIsTrue
    SignedReadsBack
PROPERTIES
    UnaskedSpendsNothing
CHECK_DEADLOCK FALSE
