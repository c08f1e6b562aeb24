----------------------- MODULE TransactionApprovalProofs -----------------------
(***************************************************************************)
(* What iframe and approve page guarantee of any transactions, accounts,   *)
(* signatures and names, and of any codec under which signing leaves alone *)
(* what it does not replace.                                               *)
(***************************************************************************)
EXTENDS TransactionApproval, SequenceTheorems, TLAPS

\* What the page has read is what was sent.
PageInv ==
    /\ TypeOK
    /\ transaction # NoTransaction =>
           Parse(sent.bytes).ok /\ transaction = Parse(sent.bytes).value

\* Who has signed.
LEMMA SignedBy == \A k, bytes : SignTransaction(k, bytes).by = k
BY DEF SignTransaction

\* Every step keeps the types and what the page has read.
LEMMA PageStep == PageInv /\ [Next]_vars => PageInv'
<1> SUFFICES ASSUME PageInv, [Next]_vars PROVE PageInv'
  OBVIOUS
<1> USE DEF PageInv, TypeOK
<1>1. CASE HandleSign
  BY <1>1, SignedBy DEF HandleSign, pageVars
<1>2. CASE NgOnInit
  BY <1>2 DEF NgOnInit
<1>3. CASE AnswerSpending \/ AnswerUsers
  BY <1>3 DEF AnswerSpending, AnswerUsers
<1>4. CASE OnSubmit
  BY <1>4, SignedBy DEF OnSubmit, pageVars
<1>5. CASE OnCancel \/ LogOutElsewhere
  BY <1>5 DEF OnCancel, LogOutElsewhere, pageVars
<1>6. CASE UNCHANGED vars
  BY <1>6 DEF vars, pageVars
<1> QED
  BY <1>1, <1>2, <1>3, <1>4, <1>5, <1>6 DEF Next

\* Types are kept, and the page describes what the app sent (approve.component.ts).
THEOREM PageReadsWhatWasSent == Spec => []PageInv
<1>1. Init => PageInv
  BY DEF Init, PageInv, TypeOK
<1> QED
  BY <1>1, PageStep, PTL DEF Spec

\* Whatever cannot be read is neither shown nor signed, by iframe or page
\* (identity.service.ts, handleSign; approve.component.ts, onSubmit).
THEOREM BrokenStaysUnsigned == ASSUME BrokenThrows PROVE Spec => []BrokenIsNeverSigned
<1> DEFINE Inv == PageInv /\ BrokenIsNeverSigned
<1>1. Init => Inv
  BY DEF Init, PageInv, TypeOK, BrokenIsNeverSigned
<1>2. Inv /\ [Next]_vars => Inv'
  <2> SUFFICES ASSUME Inv, [Next]_vars PROVE BrokenIsNeverSigned'
    BY PageStep
  <2> SUFFICES ASSUME sent'.damage \in {"cut", "type"}
               PROVE  transaction' = NoTransaction /\ signed' = NoBytes
    BY DEF BrokenIsNeverSigned
  <2>1. sent' = sent
    BY DEF Next, HandleSign, NgOnInit, AnswerSpending, AnswerUsers, OnSubmit, OnCancel,
       LogOutElsewhere, vars
  <2>2. ~Parse(sent.bytes).ok
    BY <2>1 DEF BrokenThrows, PageInv, TypeOK
  <2> QED
    BY <2>1, <2>2 DEF Next, HandleSign, NgOnInit, AnswerSpending, AnswerUsers, OnSubmit,
       OnCancel, LogOutElsewhere, vars, pageVars, BrokenIsNeverSigned
<1>3. Inv => BrokenIsNeverSigned
  OBVIOUS
<1> HIDE DEF Inv
<1> QED
  BY <1>1, <1>2, <1>3, PTL DEF Spec

\* A level below Full signs in the iframe only what pays nobody but its owner
\* (identity.service.ts, approveSpending), under any codec that signing keeps.
THEOREM NothingSpentUnasked == ASSUME SigningKeepsContent PROVE Spec => UnaskedSpendsNothing
<1> DEFINE Frugal ==
        answer # "signed" /\ answer' = "signed" /\ credential.level # Full =>
            LET node == Parse(signed'.bytes)
            IN  /\ node.ok
                /\ RequiredAccessLevel(node.value) # Full
                /\ \A i \in DOMAIN node.value.outputs :
                       node.value.outputs[i].publicKey = node.value.publicKey
<1>1. ASSUME PageInv, [Next]_vars PROVE Frugal
  <2> SUFFICES ASSUME answer # "signed", answer' = "signed", credential.level # Full
               PROVE  Frugal
    OBVIOUS
  <2> DEFINE read == Parse(sent.bytes)
             node == Parse(signed'.bytes)
  <2>1. HandleSign
    BY <1>1 DEF Next, NgOnInit, AnswerSpending, AnswerUsers, OnSubmit, OnCancel,
       LogOutElsewhere, vars
  <2>2. /\ read.ok
        /\ credential.level >= RequiredAccessLevel(read.value)
        /\ ApproveSpending(credential.level, read.value)
        /\ signed' = SignTransaction(credential.account, sent.bytes)
    BY <2>1 DEF HandleSign
  <2>3. /\ node.ok
        /\ node.value.publicKey = read.value.publicKey
        /\ node.value.outputs = read.value.outputs
        /\ node.value.metadata = read.value.metadata
    BY <1>1, <2>2 DEF SigningKeepsContent, PageInv, TypeOK
  <2>4. credential.level \in {ApproveAll, ApproveLarge}
    BY <1>1 DEF PageInv, TypeOK
  <2>5. credential.level = ApproveLarge /\ RequiredAccessLevel(read.value) = ApproveLarge
    BY <2>2, <2>4 DEF RequiredAccessLevel, ApproveAll, ApproveLarge, Full
  <2>6. RequiredAccessLevel(node.value) = ApproveLarge
    BY <2>3, <2>5 DEF RequiredAccessLevel
  <2>7. \A i \in DOMAIN node.value.outputs :
            node.value.outputs[i].publicKey = node.value.publicKey
    BY <2>2, <2>3, <2>5 DEF ApproveSpending
  <2> QED
    BY <2>3, <2>6, <2>7 DEF ApproveLarge, Full
<1>2. PageInv /\ [Next]_vars => [Frugal]_vars
  BY <1>1
<1> HIDE DEF Frugal
<1>3. Spec => [][Frugal]_vars
  BY <1>2, PageReadsWhatWasSent, PTL DEF Spec
<1> QED
  BY <1>3 DEF UnaskedSpendsNothing, Frugal
(***************************************************************************)
(* The description                                                         *)
(***************************************************************************)

\* Texts, amounts and accounts, as opposed to names.
NoName(word) == \A name : word # User(name)

\* A description into which no name was put.
Nameless(words) ==
    /\ words = [i \in DOMAIN words |-> words[i]]
    /\ \A i \in DOMAIN words : NoName(words[i])

\* They are told apart by their fields.
LEMMA WordsAreNoNames == \A x : NoName(Text(x)) /\ NoName(Amount(x)) /\ NoName(Key(x))
<1>1. \A x : DOMAIN Text(x) = {"text"} /\ DOMAIN Amount(x) = {"amount"} /\ DOMAIN Key(x) = {"key"}
  BY DEF Text, Amount, Key
<1>2. \A name : DOMAIN User(name) = {"user"}
  BY DEF User
<1> QED
  BY <1>1, <1>2 DEF NoName

\* Of two words that stand for the same account, or name, neither is another's.
LEMMA WordsTellApart ==
    /\ \A j, k : Key(j) = Key(k) => j = k
    /\ \A m, n : User(m) = User(n) => m = n
<1>1. \A k : Key(k).key = k /\ User(k).user = k
  BY DEF Key, User
<1> QED
  BY <1>1

\* Descriptions of up to four words.
LEMMA TuplesAreNameless ==
    /\ \A v : NoName(v) => Nameless(<<v>>)
    /\ \A v, w : NoName(v) /\ NoName(w) => Nameless(<<v, w>>)
    /\ \A v, w, x : NoName(v) /\ NoName(w) /\ NoName(x) => Nameless(<<v, w, x>>)
    /\ \A v, w, x, y :
           NoName(v) /\ NoName(w) /\ NoName(x) /\ NoName(y) => Nameless(<<v, w, x, y>>)
BY DEF Nameless

\* Transfers are described without names, however many outputs they list.
LEMMA TransfersNameNobody ==
    ASSUME NEW outputs, NEW owner
    PROVE  Nameless(DescribeTransfer(outputs, owner))
<1> DEFINE others == PaysOthers(outputs, owner)
           word(i) == CASE i = 1      -> Text("send")
                        [] i % 2 = 0  -> Amount(others[i \div 2].amountNanos)
                        [] OTHER      -> Key(others[i \div 2].publicKey)
           words == [i \in 1 .. 1 + 2 * Len(others) |-> word(i)]
<1>1. \A i : NoName(word(i))
  BY WordsAreNoNames, Zenon
<1> HIDE DEF word
<1>2. Nameless(words)
  BY <1>1 DEF Nameless
<1>3. Nameless(<<Text("send"), Key(owner)>>)
  BY WordsAreNoNames, TuplesAreNameless
<1>4. DescribeTransfer(outputs, owner) = <<Text("send"), Key(owner)>>
      \/ DescribeTransfer(outputs, owner) = words
  BY Zenon DEF DescribeTransfer, word
<1> HIDE DEF words
<1> QED
  BY <1>2, <1>3, <1>4, Zenon

LEMMA DescriptionsAreNameless ==
    ASSUME NEW s \in Sent, Parse(s.bytes).ok
    PROVE  Nameless(GenerateTransactionDescription(Parse(s.bytes).value))
<1> DEFINE t == Parse(s.bytes).value
           m == t.metadata
<1>1. Nameless(DescribeTransfer(t.outputs, t.publicKey))
  BY TransfersNameNobody
<1>2. \A x : Nameless(<<Text(x)>>)
  BY WordsAreNoNames, TuplesAreNameless
<1>3. \A x, y : /\ Nameless(<<Text(x), Text(y)>>) /\ Nameless(<<Text(x), Key(y)>>)
  BY WordsAreNoNames, TuplesAreNameless
<1>4. \A x, y, z : /\ Nameless(<<Text(x), Amount(y), Key(z)>>)
                   /\ Nameless(<<Text(x), Key(z), Amount(y)>>)
  BY WordsAreNoNames, TuplesAreNameless
<1>5. \A x, y, k, l : Nameless(<<Text(x), Amount(y), Key(k), Key(l)>>)
  BY WordsAreNoNames, TuplesAreNameless
<1>6. Nameless(DescribeCreatorCoin(m))
  BY <1>2, <1>4 DEF DescribeCreatorCoin
<1>7. Nameless(DescribeDAOCoin(m))
  BY <1>2, <1>3, <1>4 DEF DescribeDAOCoin
<1> HIDE DEF t, m
<1>8. Nameless(GenerateTransactionDescription(t))
  BY <1>1, <1>2, <1>3, <1>5, <1>6, <1>7, Zenon DEF GenerateTransactionDescription, m
<1> QED
  BY <1>8 DEF t

\* Every word of what is shown is that of the description, or the name of the
\* account that is there.
Shows(shown, words) ==
    /\ shown = [i \in DOMAIN words |-> shown[i]]
    /\ \A i \in DOMAIN words :
           \/ shown[i] = words[i]
           \/ \E k \in DOMAIN Username : words[i] = Key(k) /\ shown[i] = User(Username[k])

\* Names can be turned back into the accounts they were put in place of.
LEMMA NamesResolve ==
    ASSUME NEW words, NEW shown, Nameless(words), Shows(shown, words)
    PROVE  Resolved(shown) = words
<1>1. DOMAIN shown = DOMAIN words
  BY DEF Shows
<1>2. ASSUME NEW i \in DOMAIN words PROVE Resolved(shown)[i] = words[i]
  <2>1. CASE shown[i] = words[i]
    BY <1>1, <2>1 DEF Resolved, Nameless, NoName
  <2>2. CASE \E k \in DOMAIN Username : words[i] = Key(k) /\ shown[i] = User(Username[k])
    <3>1. PICK k \in DOMAIN Username : words[i] = Key(k) /\ shown[i] = User(Username[k])
      BY <2>2
    <3>2. \A j \in DOMAIN Username : shown[i] = User(Username[j]) => j = k
      BY <3>1, WordsTellApart, NameAssumption
    <3>3. (CHOOSE j \in DOMAIN Username : shown[i] = User(Username[j])) = k
      BY <3>1, <3>2
    <3> QED
      BY <1>1, <3>1, <3>3 DEF Resolved
  <2> QED
    BY <2>1, <2>2 DEF Shows
<1>3. Resolved(shown) = [i \in DOMAIN words |-> Resolved(shown)[i]]
  BY <1>1 DEF Resolved
<1> QED
  BY <1>2, <1>3 DEF Nameless

\* What the page shows once the node has told names, or before.
LEMMA UsernamesShow ==
    ASSUME NEW words, Nameless(words), NEW known, known \subseteq DOMAIN Username
    PROVE  Shows(words, words) /\ Shows(DescriptionWithUsernames(words, known), words)
<1>1. Shows(words, words)
  BY DEF Shows, Nameless
<1> DEFINE shown == DescriptionWithUsernames(words, known)
<1>2. DOMAIN shown = DOMAIN words /\ shown = [i \in DOMAIN words |-> shown[i]]
  BY DEF DescriptionWithUsernames
<1>3. ASSUME NEW i \in DOMAIN words, shown[i] # words[i]
      PROVE  \E k \in DOMAIN Username : words[i] = Key(k) /\ shown[i] = User(Username[k])
  <2>1. words[i] \in {Key(k) : k \in known} /\ shown[i] = User(Username[words[i].key])
    BY <1>3 DEF DescriptionWithUsernames
  <2>2. PICK k \in known : words[i] = Key(k)
    BY <2>1
  <2>3. words[i].key = k
    BY <2>2 DEF Key
  <2> QED
    BY <2>1, <2>2, <2>3
<1> QED
  BY <1>1, <1>2, <1>3 DEF Shows

\* What a node reads is described as what was read.
LEMMA SignedIsDescribedAlike ==
    ASSUME SigningKeepsContent, NEW s \in Sent, NEW k \in Account, Parse(s.bytes).ok
    PROVE  LET node == Parse(SignTransaction(k, s.bytes).bytes)
           IN  /\ node.ok
               /\ GenerateTransactionDescription(node.value)
                      = GenerateTransactionDescription(Parse(s.bytes).value)
BY DEF SigningKeepsContent, GenerateTransactionDescription

\* The page shows the words of what it has read, or names in their place.
DescriptionInv ==
    transaction # NoTransaction =>
        Shows(transactionDescription, GenerateTransactionDescription(transaction))

LEMMA DescriptionStep ==
    ASSUME PageInv, DescriptionInv, [Next]_vars
    PROVE  DescriptionInv'
<1> DEFINE words == GenerateTransactionDescription(Parse(sent.bytes).value)
<1>1. CASE NgOnInit
  <2>1. CASE Parse(sent.bytes).ok /\ transaction' = Parse(sent.bytes).value
             /\ transactionDescription' = words
    <3>1. Nameless(words)
      BY <2>1, DescriptionsAreNameless DEF PageInv, TypeOK
    <3>2. Shows(words, words)
      BY <3>1, UsernamesShow
    <3> QED
      BY <2>1, <3>2 DEF DescriptionInv
  <2>2. CASE UNCHANGED <<transaction, transactionDescription>>
    BY <2>2 DEF DescriptionInv
  <2> QED
    BY <1>1, <2>1, <2>2 DEF NgOnInit
<1>2. CASE AnswerUsers
  <2>1. PICK known \in SUBSET (PublicKeys(transaction) \cap DOMAIN Username) :
            transactionDescription' =
                DescriptionWithUsernames(GenerateTransactionDescription(transaction), known)
    BY <1>2 DEF AnswerUsers
  <2>2. transaction' = transaction
    BY <1>2 DEF AnswerUsers
  <2>3. CASE transaction # NoTransaction
    <3>1. Nameless(words) /\ transaction = Parse(sent.bytes).value
      BY <2>3, DescriptionsAreNameless DEF PageInv, TypeOK
    <3>2. Shows(DescriptionWithUsernames(words, known), words)
      BY <2>1, <3>1, UsernamesShow
    <3> QED
      BY <2>1, <2>2, <3>1, <3>2 DEF DescriptionInv
  <2> QED
    BY <2>2, <2>3 DEF DescriptionInv
<1>3. CASE UNCHANGED <<transaction, transactionDescription>>
  BY <1>3 DEF DescriptionInv
<1> QED
  BY <1>1, <1>2, <1>3 DEF Next, HandleSign, AnswerSpending, OnSubmit, OnCancel, LogOutElsewhere,
     vars, pageVars

\* Whatever names the node tells and whenever it answers, the page says of a
\* transaction what a node reads once the page has signed it
\* (approve.component.ts), under any codec that signing keeps.
THEOREM DescriptionsAreTrue ==
    ASSUME SigningKeepsContent
    PROVE  Spec => []DescriptionIsTrue
<1> DEFINE Inv == PageInv /\ DescriptionInv
<1>1. Init => Inv
  BY DEF Init, PageInv, TypeOK, DescriptionInv
<1>2. Inv /\ [Next]_vars => Inv'
  BY PageStep, DescriptionStep
<1>3. Inv => DescriptionIsTrue
  <2> SUFFICES ASSUME Inv, transaction # NoTransaction, transaction.publicKey \in Account
               PROVE  LET node == Parse(SignTransaction(transaction.publicKey, sent.bytes).bytes)
                      IN  /\ node.ok
                          /\ Resolved(transactionDescription)
                                 = GenerateTransactionDescription(node.value)
    BY DEF DescriptionIsTrue
  <2>1. Parse(sent.bytes).ok /\ transaction = Parse(sent.bytes).value /\ sent \in Sent
    BY DEF PageInv, TypeOK
  <2>2. Resolved(transactionDescription) = GenerateTransactionDescription(transaction)
    BY <2>1, DescriptionsAreNameless, NamesResolve DEF DescriptionInv
  <2> QED
    BY <2>1, <2>2, SignedIsDescribedAlike
<1> HIDE DEF Inv
<1> QED
  BY <1>1, <1>2, <1>3, PTL DEF Spec

----------------------------------------------------------------------------
(* What is signed reads back *)

\* What is in front of a last byte.
LEMMA FrontOfByte ==
    ASSUME NEW S, NEW body \in Seq(S), NEW p \in Seq(S), Len(p) = 1
    PROVE  Front(body \o p) = body
<1>1. body \o p \in Seq(S) /\ Len(body \o p) = Len(body) + Len(p)
    BY ConcatProperties, Zenon
<1>2. Len(body \o p) = Len(body) + 1
    BY <1>1
<1>3. \A i \in 1 .. Len(body) : (body \o p)[i] = body[i]
    <2>1. \A i \in 1 .. Len(body) + Len(p) :
              (body \o p)[i] = IF i <= Len(body) THEN body[i] ELSE p[i - Len(body)]
        BY ConcatProperties, Zenon
    <2> QED
        BY <2>1
<1>4. SubSeq(body \o p, 1, Len(body)) = body
    BY <1>1, <1>2, <1>3
<1> QED
    BY <1>2, <1>4 DEF Front

\* Signing puts the signature in and leaves the rest as it was made.
LEMMA SignedReads ==
    ASSUME CodecReadsBack, NEW s \in Sent, NEW k \in Account,
           s.damage = "none", s.made.signature = <<>>
    PROVE  /\ Parse(SignTransaction(k, s.bytes).bytes) =
                  [ok |-> TRUE, rest |-> <<>>,
                   value |-> [s.made EXCEPT !.signature = SignatureOf[k]]]
           /\ Parse(s.bytes).value.publicKey = s.made.publicKey
<1>1. /\ LengthPrefix(0) \in Seq(Nat) /\ Len(LengthPrefix(0)) = 1
      /\ {"publicKey", "signature"} \subseteq DOMAIN s.made
    BY DEF CodecReadsBack
<1>2. PICK body \in Prefixes(s.bytes) :
          /\ body \in Seq(Nat)
          /\ s.bytes = body \o LengthPrefix(Len(s.made.signature)) \o s.made.signature
          /\ \A signature \in {<<>>} \cup {SignatureOf[j] : j \in Account} :
                 Parse(body \o LengthPrefix(Len(signature)) \o signature) =
                     [ok |-> TRUE, rest |-> <<>>,
                      value |-> [s.made EXCEPT !.signature = signature]]
    BY DEF CodecReadsBack
<1>3. s.bytes = body \o LengthPrefix(0)
    <2>1. s.bytes = body \o LengthPrefix(0) \o <<>>
        BY <1>2
    <2>2. body \o LengthPrefix(0) \in Seq(Nat)
        BY <1>1, <1>2, ConcatProperties
    <2> QED
        BY <2>1, <2>2, ConcatEmptySeq
<1>4. Front(s.bytes) = body
    BY <1>1, <1>2, <1>3, FrontOfByte
<1>5. SignTransaction(k, s.bytes).bytes
          = body \o LengthPrefix(Len(SignatureOf[k])) \o SignatureOf[k]
    BY <1>4 DEF SignTransaction
<1>6. Parse(s.bytes) = [ok |-> TRUE, rest |-> <<>>, value |-> [s.made EXCEPT !.signature = <<>>]]
    BY <1>2
<1>7. [s.made EXCEPT !.signature = <<>>].publicKey = s.made.publicKey
    BY <1>1
<1>8. Parse(body \o LengthPrefix(Len(SignatureOf[k])) \o SignatureOf[k]) =
          [ok |-> TRUE, rest |-> <<>>, value |-> [s.made EXCEPT !.signature = SignatureOf[k]]]
    BY <1>2
<1>9. Parse(s.bytes).value = [s.made EXCEPT !.signature = <<>>]
    BY <1>6
<1> QED
    BY <1>5, <1>7, <1>8, <1>9, Zenon

\* What the app got back is the transaction sent, signed; and unless the iframe
\* signed it, the page did, with the key of the transaction it shows.
SigningInv ==
    /\ signed # NoBytes =>
           signed.by \in Account /\ signed = SignTransaction(signed.by, sent.bytes)
    /\ signed # NoBytes /\ answer # "signed" =>
           transaction # NoTransaction /\ signed.by = transaction.publicKey
    /\ window = "closed" => signed = NoBytes \/ answer = "signed"

\* Every step keeps it.
LEMMA SigningStep == PageInv /\ SigningInv /\ [Next]_vars => SigningInv'
<1> SUFFICES ASSUME PageInv, SigningInv, [Next]_vars PROVE SigningInv'
    OBVIOUS
<1> USE DEF SigningInv
<1>1. CASE HandleSign
    <2>1. CASE UNCHANGED signed
        BY <1>1, <2>1 DEF HandleSign, pageVars
    <2>2. CASE ~UNCHANGED signed
        <3>1. /\ answer' = "signed" /\ signed' = SignTransaction(credential.account, sent.bytes)
              /\ UNCHANGED <<sent, window>>
            BY <1>1, <2>2 DEF HandleSign
        <3>2. signed'.by = credential.account /\ credential.account \in Account
            BY <3>1, SignedBy DEF PageInv, TypeOK
        <3> QED
            BY <3>1, <3>2
    <2> QED
        BY <2>1, <2>2
<1>2. CASE NgOnInit
    <2>1. window = "closed" /\ window' = "open" /\ UNCHANGED <<sent, answer, signed>>
        BY <1>2 DEF NgOnInit
    <2> QED
        BY <2>1
<1>3. CASE AnswerSpending \/ AnswerUsers
    BY <1>3 DEF AnswerSpending, AnswerUsers
<1>4. CASE OnSubmit
    <2>1. /\ transaction # NoTransaction /\ transaction.publicKey \in users
          /\ signed' = SignTransaction(transaction.publicKey, sent.bytes)
          /\ window' = "left" /\ UNCHANGED <<sent, answer, transaction>>
        BY <1>4 DEF OnSubmit, pageVars
    <2>2. signed'.by = transaction.publicKey /\ transaction.publicKey \in Account
        BY <2>1, SignedBy DEF PageInv, TypeOK
    <2> QED
        BY <2>1, <2>2
<1>5. CASE OnCancel
    BY <1>5 DEF OnCancel, pageVars
<1>6. CASE LogOutElsewhere
    BY <1>6 DEF LogOutElsewhere, pageVars
<1>7. CASE UNCHANGED vars
    BY <1>7 DEF vars, pageVars
<1> QED
    BY <1>1, <1>2, <1>3, <1>4, <1>5, <1>6, <1>7 DEF Next

\* A whole transaction that carries no signature reads back with the signer's
\* signature and nothing else changed (signing.service.ts, signTransaction), under
\* any codec that writes the signature last and reads what it writes.
THEOREM SignaturesAreReadBack ==
    ASSUME CodecReadsBack
    PROVE  Spec => []SignedReadsBack
<1> DEFINE Inv == PageInv /\ SigningInv
<1>1. Init => Inv
    BY DEF Init, PageInv, TypeOK, SigningInv
<1>2. Inv /\ [Next]_vars => Inv'
    BY PageStep, SigningStep
<1>3. Inv => SignedReadsBack
    <2> SUFFICES ASSUME Inv, signed # NoBytes, sent.damage = "none", sent.made.signature = <<>>
                 PROVE  /\ Parse(signed.bytes) =
                               [ok |-> TRUE, rest |-> <<>>,
                                value |-> [sent.made EXCEPT !.signature = SignatureOf[signed.by]]]
                        /\ window = "left" /\ answer # "signed" => signed.by = sent.made.publicKey
        BY DEF SignedReadsBack
    <2>1. sent \in Sent /\ signed.by \in Account /\ signed = SignTransaction(signed.by, sent.bytes)
        BY DEF PageInv, TypeOK, SigningInv
    <2>2. /\ Parse(SignTransaction(signed.by, sent.bytes).bytes) =
                 [ok |-> TRUE, rest |-> <<>>,
                  value |-> [sent.made EXCEPT !.signature = SignatureOf[signed.by]]]
          /\ Parse(sent.bytes).value.publicKey = sent.made.publicKey
        BY <2>1, SignedReads
    <2>3. answer # "signed" => signed.by = Parse(sent.bytes).value.publicKey
        BY DEF PageInv, SigningInv
    <2> QED
        BY <2>1, <2>2, <2>3
<1> HIDE DEF Inv
<1> QED
    BY <1>1, <1>2, <1>3, PTL DEF Spec
=============================================================================
