------------------------------ MODULE PsbtService ------------------------------
(***************************************************************************)
(* What the demo backend promises who asks it for a PSBT: a transaction    *)
(* that spends the first of an address's unspent outputs that are enough,  *)
(* pays the amount asked for, and leaves the rest to the fee.  Amounts are *)
(* whole numbers of the smallest unit; their sums are exact.               *)
(***************************************************************************)
EXTENDS Integers, Sequences

CONSTANTS
    Hash,        \* transaction hashes
    AbsurdFee,   \* the fee above which an answer carries an error
    NoPsbt       \* no PSBT, or a hex that no wallet reads as one

ASSUME AbsurdFeeAssumption == AbsurdFee \in Nat

Coin == [hash : Hash, value : Nat]
Psbt == [inputs : Seq(Coin), output : Int]

Reply == [status            : {200, 400, 500},
          error             : BOOLEAN,
          psbt              : Psbt \cup {NoPsbt},
          nonWitnessUtxos   : Seq(Hash),
          actualAmount      : Nat]

\* The totals of the first 0, 1, 2, ... coins.
Totals(coins) ==
    LET t[k \in 0 .. Len(coins)] == IF k = 0 THEN 0 ELSE t[k - 1] + coins[k].value
    IN  t

IsEnough(coins, desired) == Totals(coins)[Len(coins)] >= desired

\* How many of the coins it takes.
Needed(coins, desired) ==
    CHOOSE k \in 0 .. Len(coins) :
        /\ Totals(coins)[k] >= desired
        /\ \A j \in 0 .. k - 1 : Totals(coins)[j] < desired

HashesOf(coins) == [k \in DOMAIN coins |-> coins[k].hash]

Refusal(status) == [status |-> status, error |-> TRUE, psbt |-> NoPsbt,
                    nonWitnessUtxos |-> <<>>, actualAmount |-> 0]
BadRequest == Refusal(400)
Failure    == Refusal(500)
NotEnough  == Refusal(200)

Answer(totalAmount, psbt, desired, fullTxns) ==
    [status          |-> 200,
     error           |-> totalAmount - desired > AbsurdFee,
     psbt            |-> psbt,
     nonWitnessUtxos |-> fullTxns,
     actualAmount    |-> totalAmount]

\* The answers to expect when the address has these coins and the amount is paid
\* as this output.  The daemon makes no payment of a negative amount, and what it
\* makes may turn out not to be read: the answer is the same but for the PSBT.
Replies(coins, desired, output) ==
    IF ~IsEnough(coins, desired) THEN {NotEnough}
    ELSE LET k == Needed(coins, desired)
             inputs == SubSeq(coins, 1, k)
         IN  {Failure} \cup
             (IF output < 0 THEN {}
              ELSE {Answer(Totals(coins)[k], psbt, desired, HashesOf(inputs)) :
                       psbt \in {[inputs |-> inputs, output |-> output], NoPsbt}})
=============================================================================
