------------------------------ MODULE BackendPsbt ------------------------------
(***************************************************************************)
(* How the demo backend makes a PSBT (getPSBT of main.go), one request     *)
(* step by step: it lists the address's unspent outputs, takes them in     *)
(* order while they are not enough, has the daemon make the PSBT, fetches  *)
(* the transaction every input comes from, and compares the fee.           *)
(*                                                                         *)
(* The amount reaches the daemon as a decimal with six places, fewer than  *)
(* amounts have: Unit is what the last of them stands for.                 *)
(***************************************************************************)
EXTENDS PsbtService

CONSTANTS
    Unspent,     \* lists of unspent outputs an address may have
    Desired,     \* amounts to ask for
    Unit

ASSUME BackendAssumption == /\ Unspent \subseteq Seq(Coin)
                            /\ Desired \subseteq Int
                            /\ Unit \in Nat \ {0}

VARIABLES
    pc,          \* "decode", "select", "make", "fetch" or "answered"
    coins,       \* what the address has
    desired,     \* the amount asked for
    unspent,     \* what the server listed
    n,           \* unspent outputs looked at
    inputs, totalAmount,
    psbt,
    fullTxns,    \* hashes of the transactions fetched
    reply

requestVars == <<pc, coins, desired, unspent, n, inputs, totalAmount, psbt, fullTxns, reply>>

RequestInit ==
    /\ pc = "decode"
    /\ coins \in Unspent
    /\ desired \in Desired
    /\ unspent = <<>>
    /\ n = 0
    /\ inputs = <<>> /\ totalAmount = 0
    /\ psbt = NoPsbt
    /\ fullTxns = <<>>
    /\ reply = NotEnough

Respond(r) ==
    /\ pc' = "answered"
    /\ reply' = r

\* A body that is not JSON.
Malformed ==
    /\ pc = "decode"
    /\ Respond(BadRequest)
    /\ UNCHANGED <<coins, desired, unspent, n, inputs, totalAmount, psbt, fullTxns>>

\* The server's error is dropped: the list is empty then.
ListUnspent ==
    /\ pc = "decode"
    /\ unspent' \in {coins, <<>>}
    /\ pc' = "select"
    /\ UNCHANGED <<coins, desired, n, inputs, totalAmount, psbt, fullTxns, reply>>

\* Faulty variant: one more is taken when the total is just enough.
TakeOneMore ==
    /\ pc = "select"
    /\ n < Len(unspent)
    /\ n' = n + 1
    /\ IF desired >= totalAmount
       THEN /\ totalAmount' = totalAmount + unspent[n + 1].value
            /\ inputs' = Append(inputs, unspent[n + 1])
       ELSE UNCHANGED <<totalAmount, inputs>>
    /\ UNCHANGED <<pc, coins, desired, unspent, psbt, fullTxns, reply>>

\* The loop looks at every output and takes it while the total is too small.
Take ==
    /\ pc = "select"
    /\ n < Len(unspent)
    /\ n' = n + 1
    /\ IF desired > totalAmount
       THEN /\ totalAmount' = totalAmount + unspent[n + 1].value
            /\ inputs' = Append(inputs, unspent[n + 1])
       ELSE UNCHANGED <<totalAmount, inputs>>
    /\ UNCHANGED <<pc, coins, desired, unspent, psbt, fullTxns, reply>>

\* Faulty variant: any outputs at all will do.
EndSelectionAnyhow ==
    /\ pc = "select"
    /\ n = Len(unspent)
    /\ IF inputs # <<>>
       THEN pc' = "make" /\ UNCHANGED reply
       ELSE Respond(NotEnough)
    /\ UNCHANGED <<coins, desired, unspent, n, inputs, totalAmount, psbt, fullTxns>>

EndSelection ==
    /\ pc = "select"
    /\ n = Len(unspent)
    /\ IF desired <= totalAmount
       THEN pc' = "make" /\ UNCHANGED reply
       ELSE Respond(NotEnough)
    /\ UNCHANGED <<coins, desired, unspent, n, inputs, totalAmount, psbt, fullTxns>>

\* Faulty variant: the digits that do not fit are cut off.
CutOff(amount) == {Unit * (amount \div Unit)}

\* The amounts %f may print: the nearest, and either of two as near.
Printed(amount) ==
    LET below == Unit * (amount \div Unit)
    IN  {r \in {below, below + Unit} :
            2 * (IF r > amount THEN r - amount ELSE amount - r) <= Unit}

\* createpsbt keeps the order of the inputs.  It may fail, and does if the amount
\* is negative.  Output that is not base64 is no failure: what was decoded of it is
\* taken for the PSBT.
MakePsbt ==
    /\ pc = "make"
    /\ \/ Respond(Failure) /\ UNCHANGED psbt
       \/ \E output \in Printed(desired) :
              /\ output >= 0
              /\ psbt' \in {[inputs |-> inputs, output |-> output], NoPsbt}
              /\ pc' = "fetch"
              /\ UNCHANGED reply
    /\ UNCHANGED <<coins, desired, unspent, n, inputs, totalAmount, fullTxns>>

\* Faulty variant: a transaction with two inputs of the PSBT is fetched once.
FetchOnce ==
    /\ pc = "fetch"
    /\ Len(fullTxns) < Len(inputs)
    /\ LET hash == inputs[Len(fullTxns) + 1].hash
       IN  \/ Respond(Failure) /\ UNCHANGED fullTxns
           \/ /\ fullTxns' = IF \E k \in DOMAIN fullTxns : fullTxns[k] = hash
                             THEN fullTxns ELSE Append(fullTxns, hash)
              /\ IF fullTxns' = fullTxns
                 THEN Respond(Answer(totalAmount, psbt, desired, fullTxns))
                 ELSE UNCHANGED <<pc, reply>>
    /\ UNCHANGED <<coins, desired, unspent, n, inputs, totalAmount, psbt>>

Fetch ==
    /\ pc = "fetch"
    /\ Len(fullTxns) < Len(inputs)
    /\ \/ Respond(Failure) /\ UNCHANGED fullTxns
       \/ /\ fullTxns' = Append(fullTxns, inputs[Len(fullTxns) + 1].hash)
          /\ UNCHANGED <<pc, reply>>
    /\ UNCHANGED <<coins, desired, unspent, n, inputs, totalAmount, psbt>>

Send ==
    /\ pc = "fetch"
    /\ Len(fullTxns) = Len(inputs)
    /\ Respond(Answer(totalAmount, psbt, desired, fullTxns))
    /\ UNCHANGED <<coins, desired, unspent, n, inputs, totalAmount, psbt, fullTxns>>

RequestNext ==
    \/ Malformed \/ ListUnspent \/ Take \/ EndSelection
    \/ MakePsbt \/ Fetch \/ Send

RequestSpec == RequestInit /\ [][RequestNext]_requestVars

----------------------------------------------------------------------------
(* Properties *)

RequestTypeOK ==
    /\ pc \in {"decode", "select", "make", "fetch", "answered"}
    /\ coins \in Seq(Coin)
    /\ desired \in Int
    /\ unspent \in Seq(Coin)
    /\ n \in 0 .. Len(unspent)
    /\ inputs \in Seq(Coin) /\ Len(inputs) <= n
    /\ totalAmount \in Nat
    /\ psbt \in Psbt \cup {NoPsbt}
    /\ fullTxns \in Seq(Hash) /\ Len(fullTxns) <= Len(inputs)
    /\ reply \in Reply

\* The loop and its surroundings answer what the service promises; a list that
\* could not be had counts as an empty one.
AnswersAsPromised ==
    pc = "answered" =>
        \/ reply = BadRequest
        \/ \E output \in Printed(desired) :
               reply \in Replies(coins, desired, output) \cup Replies(<<>>, desired, output)

\* The wallet's window adds the transactions to the inputs by position,
\* "hopefully in the right order".
TransactionsMatchInputs ==
    reply.psbt # NoPsbt => reply.nonWitnessUtxos = HashesOf(reply.psbt.inputs)

\* An answer without an error pays for the amount, and not absurdly more; and it
\* takes no output more than it needs.
AnswerIsReasonable ==
    reply.psbt # NoPsbt =>
        /\ reply.actualAmount >= desired
        /\ ~reply.error => reply.actualAmount - desired <= AbsurdFee
        /\ LET taken == reply.psbt.inputs
           IN  taken # <<>> =>
                   reply.actualAmount - taken[Len(taken)].value < desired

\* "Doing the `desiredAmount` so that the remainder can go to fees": the output
\* is the amount asked for where the decimal has places enough for it, and no
\* further from it than half of the last place where it has not.
PaysWhatWasAsked ==
    reply.psbt # NoPsbt =>
        LET paid == reply.psbt.output
        IN  /\ 2 * (IF paid > desired THEN paid - desired ELSE desired - paid) <= Unit
            /\ desired % Unit = 0 => paid = desired

\* Without the last output taken the total would not have been enough.
NoneToSpare(taken, total) ==
    taken # <<>> => total - taken[Len(taken)].value < desired

\* What holds in the course of a request, by how far it has come.
Progress ==
    /\ NoneToSpare(inputs, totalAmount)
    /\ pc \in {"decode", "select", "make"} => fullTxns = <<>>
    /\ pc \in {"make", "fetch"} => desired <= totalAmount
    /\ pc = "fetch" => \E output \in Printed(desired) :
                          /\ output >= 0
                          /\ psbt \in {[inputs |-> inputs, output |-> output], NoPsbt}
    /\ \A k \in DOMAIN fullTxns : fullTxns[k] = inputs[k].hash
    /\ pc = "decode" => unspent = <<>> /\ n = 0
    /\ pc # "answered" => reply.psbt = NoPsbt

\* What has been taken is the first of the outputs listed, and no fewer would have
\* been enough.
Selection ==
    /\ unspent \in {coins, <<>>}
    /\ inputs = SubSeq(unspent, 1, Len(inputs))
    /\ totalAmount = Totals(unspent)[Len(inputs)]
    /\ \A k \in 0 .. Len(inputs) - 1 : Totals(unspent)[k] < desired
    /\ Len(inputs) = n \/ desired <= totalAmount

RequestInv ==
    /\ RequestTypeOK /\ Progress
    /\ TransactionsMatchInputs /\ AnswerIsReasonable /\ PaysWhatWasAsked

\* The invariant the properties above follow from.
BackendInv == RequestInv /\ Selection /\ AnswersAsPromised
=============================================================================
