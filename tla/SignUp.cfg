SPECIFICATION Spec
CONSTANTS
    plain = plain
    composed = composed
    decomposed = decomposed
    e1 = e1
    e2 = e2
    e3 = e3
    own = own
    long = long
    NoText = NoText
    Gibberish = Gibberish
    Random = {e1, e2, e3}
    Own = {own}
    TooLong = {long}
    Text = {NoText, composed, decomposed}
    NFKD <- NFKDOfTexts
    MaxVisits = 2
SYMMETRY RandomSymmetry
INVARIANTS
    AccountsLoadAgain
    SignUpInv
    PhrasesAreNotReused
    EntropyIsOfPhrase
