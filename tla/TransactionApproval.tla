-------------------------- MODULE TransactionApproval --------------------------
(***************************************************************************)
(* The way of one transaction through the identity site.  A host's app     *)
(* sends it to the iframe, which reads it and signs it, or asks for the    *)
(* user's approval, or throws.  The approve page reads it too, describes   *)
(* it, asks a node what it costs and how the accounts in it are called,    *)
(* and signs it when the user allows it, whether or not the node has       *)
(* answered.  Signing cuts the transaction's last byte and appends the     *)
(* signature; what counts is how a node reads the result.                  *)
(***************************************************************************)
EXTENDS Naturals, SequencesExt

CONSTANTS
    Parse(_),         \* Transaction.fromBytes: a value and the rest, or not ok
    LengthPrefix(_),  \* uvarint64ToBuf
    Sent,             \* transactions as sent: what was made, what became of it
    SignatureOf,      \* as bytes, for every account the browser keeps
    Username,         \* the name of every public key that has one
    NoBytes, NoTransaction

None         == 0
ApproveAll   == 2
ApproveLarge == 3
Full         == 4

Account == DOMAIN SignatureOf

ASSUME NameAssumption ==
    \A j, k \in DOMAIN Username : Username[j] = Username[k] => j = k
ASSUME SignatureAssumption ==
    \A k \in Account : SignatureOf[k] \in Seq(Nat)

VARIABLES
    sent,                    \* [made, bytes, damage], from Sent
    credential,              \* the account and level the app sends along
    users,                   \* the accounts logged in at the host
    answer,                  \* the iframe's answer
    window,                  \* the approve page: closed, open, left
    transaction,             \* what the page has read
    transactionDescription,  \* what it shows, as a sequence of words
    transactionDeSoSpent,    \* whether it shows the cost the node told
    calls,                   \* its requests the node has not answered
    signed                   \* what the app got back

pageVars == <<transaction, transactionDescription, transactionDeSoSpent, calls>>
vars == <<sent, credential, users, answer, window, pageVars, signed>>

----------------------------------------------------------------------------
(* Signing *)

\* Faulty variant: the length of the missing signature is left in place.
SignTransactionWhole(account, bytes) ==
    [by    |-> account,
     bytes |-> bytes \o LengthPrefix(Len(SignatureOf[account])) \o SignatureOf[account]]

\* The last byte is taken for the length of an empty signature and replaced.
SignTransaction(account, bytes) ==
    [by    |-> account,
     bytes |-> Front(bytes) \o LengthPrefix(Len(SignatureOf[account])) \o SignatureOf[account]]

RequiredAccessLevel(t) ==
    IF t.metadata.class \in {"Follow", "PrivateMessage", "SubmitPost", "Like"}
    THEN ApproveLarge ELSE Full

\* Faulty variant: only the first output is looked at.
ApproveSpendingFirst(level, t) ==
    level = ApproveLarge /\ t.outputs # <<>> => Head(t.outputs).publicKey = t.publicKey

\* At level ApproveLarge a transaction may pay nobody but its owner.
ApproveSpending(level, t) ==
    level = ApproveLarge =>
        \A i \in DOMAIN t.outputs : t.outputs[i].publicKey = t.publicKey

\* The iframe.  The credential is genuine here; module IdentityVault has the
\* others.  A transaction that cannot be read throws, and there is no answer.
HandleSign ==
    /\ answer = "none"
    /\ LET read == Parse(sent.bytes)
       IN  \/ /\ ~read.ok
              /\ answer' = "threw"
              /\ UNCHANGED signed
           \/ /\ read.ok
              /\ credential.level >= RequiredAccessLevel(read.value)
              /\ ApproveSpending(credential.level, read.value)
              /\ answer' = "signed"
              /\ signed' = SignTransaction(credential.account, sent.bytes)
           \/ /\ read.ok
              /\ \/ credential.level < RequiredAccessLevel(read.value)
                 \/ ~ApproveSpending(credential.level, read.value)
              /\ answer' = "approvalRequired"
              /\ UNCHANGED signed
    /\ UNCHANGED <<sent, credential, users, window, pageVars>>

----------------------------------------------------------------------------
(* The approve page's description *)

Text(t)     == [text |-> t]
Key(k)      == [key |-> k]
User(name)  == [user |-> name]
Amount(n)   == [amount |-> n]

PaysOthers(outputs, owner) == SelectSeq(outputs, LAMBDA o : o.publicKey # owner)

\* A transfer names those it pays other than its owner, the owner only if it
\* pays nobody else, and nobody if it has no outputs.
DescribeTransfer(outputs, owner) ==
    LET others == PaysOthers(outputs, owner)
    IN  IF others = <<>> /\ outputs # <<>>
        THEN <<Text("send"), Key(owner)>>
        ELSE [i \in 1 .. 1 + 2 * Len(others) |->
                 CASE i = 1      -> Text("send")
                   [] i % 2 = 0  -> Amount(others[i \div 2].amountNanos)
                   [] OTHER      -> Key(others[i \div 2].publicKey)]

DescribeCreatorCoin(m) ==
    CASE m.operationType = 0 -> <<Text("buy"), Amount(m.desoToSellNanos), Key(m.profilePublicKey)>>
      [] m.operationType = 1 -> <<Text("sell"), Amount(m.creatorCoinToSellNanos), Key(m.profilePublicKey)>>
      [] m.operationType = 2 -> <<Text("add"), Key(m.profilePublicKey), Amount(m.desoToAddNanos)>>
      [] OTHER -> <<Text("unknown")>>

DescribeDAOCoin(m) ==
    CASE m.operationType = 0 -> <<Text("mint"), Amount(m.coinsToMintNanos), Key(m.profilePublicKey)>>
      [] m.operationType = 1 -> <<Text("burn"), Amount(m.coinsToBurnNanos), Key(m.profilePublicKey)>>
      [] m.operationType = 2 -> <<Text("disable minting"), Key(m.profilePublicKey)>>
      [] m.operationType = 3 -> <<Text("restrict transfers"), Key(m.profilePublicKey)>>
      [] OTHER -> <<Text("unknown")>>

\* Classes described by a fixed text of their own; rewards have none.
Plain == {"BitcoinExchange", "PrivateMessage", "SubmitPost", "UpdateProfile",
          "UpdateBitcoinUSDExchangeRate", "SwapIdentity", "UpdateGlobalParams", "CreateNFT",
          "UpdateNFT", "NFTBid", "AcceptNFTBid", "NFTTransfer", "AcceptNFTTransfer", "BurnNFT"}

GenerateTransactionDescription(t) ==
    LET m == t.metadata
    IN  CASE m.class = "BasicTransfer" -> DescribeTransfer(t.outputs, t.publicKey)
          [] m.class = "Follow" ->
                <<Text(IF m.isUnfollow THEN "unfollow" ELSE "follow"), Key(m.followedPublicKey)>>
          [] m.class = "Like" -> <<Text(IF m.isUnlike THEN "unlike" ELSE "like")>>
          [] m.class = "CreatorCoin" -> DescribeCreatorCoin(m)
          [] m.class = "CreatorCoinTransfer" ->
                <<Text("transfer"), Amount(m.creatorCoinToTransferNanos),
                  Key(m.profilePublicKey), Key(m.receiverPublicKey)>>
          [] m.class = "DAOCoin" -> DescribeDAOCoin(m)
          [] m.class = "TransferDAOCoin" ->
                <<Text("transfer"), Amount(m.daoCoinToTransferNanos),
                  Key(m.profilePublicKey), Key(m.receiverPublicKey)>>
          [] m.class = "MessagingGroup" -> <<Text("register"), Text(m.messagingGroupKeyName)>>
          [] m.class \in Plain -> <<Text(m.class)>>
          [] OTHER -> <<Text("unknown")>>

KeysIn(words) == {w.key : w \in {w \in Range(words) : DOMAIN w = {"key"}}}

\* The public keys whose names the page asks for.
PublicKeys(t) ==
    KeysIn(GenerateTransactionDescription(t))
    \cup (IF t.metadata.class \in {"CreatorCoin", "DAOCoin"}
          THEN {t.metadata.profilePublicKey} ELSE {})

\* Faulty variant: every key gets the name that comes first in the answer.
DescriptionWithFirstName(words, known) ==
    [i \in DOMAIN words |->
        IF known # {} /\ words[i] \in {Key(k) : k \in known}
        THEN User(Username[CHOOSE k \in known : TRUE])
        ELSE words[i]]

\* Every key the node knows a name of is replaced once, where it comes first.
DescriptionWithUsernames(words, known) ==
    [i \in DOMAIN words |->
        IF /\ words[i] \in {Key(k) : k \in known}
           /\ \A j \in 1 .. i - 1 : words[j] # words[i]
        THEN User(Username[words[i].key])
        ELSE words[i]]

----------------------------------------------------------------------------
(* The approve page *)

\* The app opens the page.  The cost is asked for before the transaction is
\* read; if reading it throws, nothing else happens.
NgOnInit ==
    /\ window = "closed"
    /\ window' = "open"
    /\ LET read == Parse(sent.bytes)
       IN  \/ /\ read.ok
              /\ transaction' = read.value
              /\ transactionDescription' = GenerateTransactionDescription(read.value)
              /\ calls' = {"spending"} \cup (IF PublicKeys(read.value) = {} THEN {} ELSE {"users"})
           \/ /\ ~read.ok
              /\ calls' = {"spending"}
              /\ UNCHANGED <<transaction, transactionDescription>>
    /\ UNCHANGED <<sent, credential, users, answer, transactionDeSoSpent, signed>>

\* The cost is shown unless it is zero, which a failed request counts as.
AnswerSpending ==
    /\ window = "open"
    /\ "spending" \in calls
    /\ calls' = calls \ {"spending"}
    /\ transactionDeSoSpent' \in BOOLEAN
    /\ UNCHANGED <<sent, credential, users, answer, window, transaction,
                   transactionDescription, signed>>

\* The node names some of the accounts, or none, or the request fails.
AnswerUsers ==
    /\ window = "open"
    /\ "users" \in calls
    /\ calls' = calls \ {"users"}
    /\ \E known \in SUBSET (PublicKeys(transaction) \cap DOMAIN Username) :
           transactionDescription' =
               DescriptionWithUsernames(GenerateTransactionDescription(transaction), known)
    /\ UNCHANGED <<sent, credential, users, answer, window, transaction,
                   transactionDeSoSpent, signed>>

\* The user allows it.  The account is the one in the transaction; without a
\* transaction, or if that account is not logged in, looking it up throws.
OnSubmit ==
    /\ window = "open"
    /\ transaction # NoTransaction
    /\ transaction.publicKey \in users
    /\ signed' = SignTransaction(transaction.publicKey, sent.bytes)
    /\ window' = "left"
    /\ UNCHANGED <<sent, credential, users, answer, pageVars>>

OnCancel ==
    /\ window = "open"
    /\ window' = "left"
    /\ UNCHANGED <<sent, credential, users, answer, pageVars, signed>>

\* Another window logs an account out of the host.
LogOutElsewhere ==
    /\ \E k \in users : users' = users \ {k}
    /\ UNCHANGED <<sent, credential, answer, window, pageVars, signed>>

Init ==
    /\ sent \in Sent
    /\ credential \in [account : Account, level : {ApproveAll, ApproveLarge, Full}]
    /\ users = Account
    /\ answer = "none"
    /\ window = "closed"
    /\ transaction = NoTransaction
    /\ transactionDescription = <<>>
    /\ transactionDeSoSpent = FALSE
    /\ calls = {}
    /\ signed = NoBytes

Next ==
    \/ HandleSign \/ NgOnInit \/ AnswerSpending \/ AnswerUsers
    \/ OnSubmit \/ OnCancel \/ LogOutElsewhere

Spec == Init /\ [][Next]_vars

----------------------------------------------------------------------------
(* Properties *)

TypeOK ==
    /\ sent \in Sent
    /\ credential \in [account : Account, level : {ApproveAll, ApproveLarge, Full}]
    /\ users \subseteq Account
    /\ answer \in {"none", "threw", "signed", "approvalRequired"}
    /\ window \in {"closed", "open", "left"}
    /\ transactionDeSoSpent \in BOOLEAN
    /\ calls \subseteq {"spending", "users"}
    /\ signed = NoBytes \/ signed.by \in Account

\* A description with the accounts themselves in place of their names.
Resolved(words) ==
    [i \in DOMAIN words |->
        IF \E k \in DOMAIN Username : words[i] = User(Username[k])
        THEN Key(CHOOSE k \in DOMAIN Username : words[i] = User(Username[k]))
        ELSE words[i]]

\* Whichever names the node knows and whenever it answers, the page says of the
\* transaction what a node reads once the page has signed it: the same class,
\* amounts and accounts, in the same order (approve.component.ts, ngOnInit).
DescriptionIsTrue ==
    transaction # NoTransaction /\ transaction.publicKey \in Account =>
        LET node == Parse(SignTransaction(transaction.publicKey, sent.bytes).bytes)
        IN  /\ node.ok
            /\ Resolved(transactionDescription) = GenerateTransactionDescription(node.value)

\* What the iframe signs for a credential of level ApproveLarge pays nobody but
\* its owner, and buys, sells and sends nothing, as a node reads it after the
\* signature is in place (identity.service.ts, approveSpending).
UnaskedSpendsNothing ==
    [][answer # "signed" /\ answer' = "signed" /\ credential.level # Full =>
          LET node == Parse(signed'.bytes)
          IN  /\ node.ok
              /\ RequiredAccessLevel(node.value) # Full
              /\ \A i \in DOMAIN node.value.outputs :
                     node.value.outputs[i].publicKey = node.value.publicKey]_vars

\* A whole transaction that carries no signature reads back with the signer's
\* signature, nothing else changed and nothing left over; signed on the page,
\* it is signed by its owner (signing.service.ts, signTransaction).
SignedReadsBack ==
    signed # NoBytes /\ sent.damage = "none" /\ sent.made.signature = <<>> =>
        /\ Parse(signed.bytes) =
               [ok |-> TRUE, rest |-> <<>>,
                value |-> [sent.made EXCEPT !.signature = SignatureOf[signed.by]]]
        /\ window = "left" /\ answer # "signed" => signed.by = sent.made.publicKey

\* A transaction that ends before its signature, or is of a type without a
\* class, is neither described nor signed, by iframe or page.
BrokenIsNeverSigned ==
    sent.damage \in {"cut", "type"} => transaction = NoTransaction /\ signed = NoBytes

----------------------------------------------------------------------------
(* What the theorems ask of the codec *)

\* What is cut off before its signature, or is of a type without a class,
\* cannot be read.
BrokenThrows ==
    \A s \in Sent : s.damage \in {"cut", "type"} => ~Parse(s.bytes).ok

\* Whoever signs what can be read, the result can be read and has the same
\* owner, outputs and metadata.
SigningKeepsContent ==
    \A s \in Sent : \A k \in Account : Parse(s.bytes).ok =>
        LET node == Parse(SignTransaction(k, s.bytes).bytes)
        IN  /\ node.ok
            /\ node.value.publicKey = Parse(s.bytes).value.publicKey
            /\ node.value.outputs = Parse(s.bytes).value.outputs
            /\ node.value.metadata = Parse(s.bytes).value.metadata

\* A whole transaction is written with its signature last, after the length of it,
\* and reads back as it was made, whichever signature it is given; the length of
\* none is one byte.
CodecReadsBack ==
    /\ LengthPrefix(0) \in Seq(Nat) /\ Len(LengthPrefix(0)) = 1
    /\ \A s \in Sent : s.damage = "none" =>
        /\ {"publicKey", "signature"} \subseteq DOMAIN s.made
        /\ \E body \in Prefixes(s.bytes) :
            /\ body \in Seq(Nat)
            /\ s.bytes = body \o LengthPrefix(Len(s.made.signature)) \o s.made.signature
            /\ \A signature \in {<<>>} \cup {SignatureOf[k] : k \in Account} :
                   Parse(body \o LengthPrefix(Len(signature)) \o signature) =
                       [ok |-> TRUE, rest |-> <<>>,
                        value |-> [s.made EXCEPT !.signature = signature]]
=============================================================================
