----------------------------- MODULE PaymentProofs -----------------------------
(***************************************************************************)
(* Payments, for any outputs, amounts, hashes, wallets and bounds, and any *)
(* precision and fee limit.  First what the totals of a list of coins are, *)
(* by induction in terms of sets: a set of naturals with 0 and the         *)
(* successor of each of its members has them all.  Then one request of the *)
(* backend (BackendPsbt): the loop finds the least number of outputs that  *)
(* is enough, so the answer is one the service promises (PsbtService).     *)
(* Then the page (SpendLBC): an answer promised gives the fee of its PSBT, *)
(* and fee and PSBT stay together until the node has accepted it.          *)
(***************************************************************************)
EXTENDS BackendPsbt, SpendLBC, WellFoundedInduction, TLAPS

----------------------------------------------------------------------------
(* Numbers *)

\* A set of natural numbers has a least element.
LEMMA LeastNatural ==
    ASSUME NEW T, T \subseteq Nat, T # {}
    PROVE  \E k \in T : \A j \in T : k <= j
<1> DEFINE R == {ss \in Nat \X Nat : ss[1] < ss[2]}
<1>1. IsWellFoundedOn(R, Nat)
    BY NatLessThanWellFounded, Zenon DEF OpToRel
<1>2. \E k \in T : \A j \in T : ~(<<j, k>> \in R)
    <2> HIDE DEF R
    <2> QED
        BY <1>1, WFMin, Zenon
<1>3. PICK k \in T : \A j \in T : ~(<<j, k>> \in R)
    BY <1>2
<1>4. ASSUME NEW j \in T  PROVE k <= j
    <2>1. j \in Nat /\ k \in Nat
        OBVIOUS
    <2>2. <<j, k>> \in R <=> j < k
        BY <2>1
    <2>3. ~(j < k)
        <3> HIDE DEF R
        <3> QED
            BY <1>3, <2>2
    <2> QED
        BY <2>1, <2>3
<1> QED
    BY <1>4

\* A set that has 0, and with a number the next, has all up to the last.
LEMMA CountedUp ==
    ASSUME NEW S, NEW m \in Nat, 0 \in S, \A k \in 0 .. m - 1 : k \in S => k + 1 \in S
    PROVE  0 .. m \subseteq S
<1> DEFINE T == (0 .. m) \ S
<1>1. T \subseteq Nat
    OBVIOUS
<1>2. ASSUME T # {}  PROVE FALSE
    <2>1. PICK k \in T : \A j \in T : k <= j
        <3> HIDE DEF T
        <3> QED
            BY <1>1, <1>2, LeastNatural
    <2>2. k # 0 /\ k - 1 \in 0 .. m - 1 /\ (k - 1) + 1 = k /\ k \notin S
        OBVIOUS
    <2>3. k - 1 \in S
        BY <2>1, <2>2
    <2> QED
        BY <2>2, <2>3
<1> QED
    BY <1>2

----------------------------------------------------------------------------
(* Coins and their totals *)

\* Refusals carry no PSBT and no amount.
LEMMA Refusals ==
    \A r \in {BadRequest, Failure, NotEnough} :
        r \in Reply /\ r.psbt = NoPsbt /\ r.actualAmount = 0
<1>1. <<>> \in Seq(Hash)
    OBVIOUS
<1>2. \A status \in {200, 400, 500} :
          /\ Refusal(status) \in Reply
          /\ Refusal(status).psbt = NoPsbt /\ Refusal(status).actualAmount = 0
    BY <1>1 DEF Refusal, Reply
<1> QED
    BY <1>2 DEF BadRequest, Failure, NotEnough

\* What is in a list of unspent outputs.
LEMMA CoinOfList ==
    ASSUME NEW q \in Seq(Coin), NEW k \in 1 .. Len(q)
    PROVE  q[k] \in Coin /\ q[k].value \in Nat /\ q[k].hash \in Hash
<1>1. q[k] \in Coin
    OBVIOUS
<1> QED
    BY <1>1 DEF Coin

\* The equation that defines Totals.
IsTotals(t, q) == t = [k \in 0 .. Len(q) |-> IF k = 0 THEN 0 ELSE t[k - 1] + q[k].value]

\* Some function satisfies it, so Totals does.
LEMMA TotalsDefined ==
    ASSUME NEW q \in Seq(Coin)
    PROVE  IsTotals(Totals(q), q)
<1> DEFINE Upto(f, m) == /\ f \in [0 .. m -> Nat] /\ f[0] = 0
                         /\ \A k \in 1 .. m : f[k] = f[k - 1] + q[k].value
           S == {m \in 0 .. Len(q) : \E f : Upto(f, m)}
<1>0. Len(q) \in Nat
    OBVIOUS
<1>1. 0 \in S
    <2>1. Upto([k \in 0 .. 0 |-> 0], 0)
        OBVIOUS
    <2>2. \E f : Upto(f, 0)
        <3> HIDE DEF Upto
        <3> QED
            BY <2>1
    <2> HIDE DEF Upto
    <2> QED
        BY <2>2, <1>0
<1>2. ASSUME NEW m \in 0 .. Len(q) - 1, m \in S  PROVE m + 1 \in S
    <2>1. PICK f : Upto(f, m)
        BY <1>2
    <2>2. m \in Nat /\ m + 1 \in 1 .. Len(q) /\ q[m + 1].value \in Nat
        BY CoinOfList
    <2> DEFINE g == [k \in 0 .. m + 1 |-> IF k = m + 1 THEN f[m] + q[m + 1].value ELSE f[k]]
    <2>3. g \in [0 .. m + 1 -> Nat] /\ g[0] = 0
        BY <2>1, <2>2
    <2>4. ASSUME NEW k \in 1 .. m + 1  PROVE g[k] = g[k - 1] + q[k].value
        BY <2>1, <2>2
    <2>5. Upto(g, m + 1)
        BY <2>3, <2>4
    <2> HIDE DEF Upto, g
    <2> QED
        BY <2>2, <2>5
<1>3. Len(q) \in S
    <2>1. \A k \in 0 .. Len(q) - 1 : k \in S => k + 1 \in S
        BY <1>2
    <2> HIDE DEF S
    <2>2. 0 .. Len(q) \subseteq S
        BY <1>0, <1>1, <2>1, CountedUp
    <2> QED
        BY <1>0, <2>2
<1>4. PICK f : Upto(f, Len(q))
    BY <1>3
<1>5. IsTotals(f, q)
    BY <1>4 DEF IsTotals
<1>6. Totals(q) = CHOOSE t : IsTotals(t, q)
    BY Zenon DEF Totals, IsTotals
<1> QED
    BY <1>5, <1>6, Zenon

\* What the totals of a list are.
LEMMA TotalsOf ==
    ASSUME NEW q \in Seq(Coin)
    PROVE  /\ Totals(q) \in [0 .. Len(q) -> Nat]
           /\ Totals(q)[0] = 0
           /\ \A k \in 1 .. Len(q) : Totals(q)[k] = Totals(q)[k - 1] + q[k].value
<1> DEFINE t == Totals(q)
           S == {m \in 0 .. Len(q) : t[m] \in Nat}
<1>1. t = [k \in 0 .. Len(q) |-> IF k = 0 THEN 0 ELSE t[k - 1] + q[k].value]
    BY TotalsDefined DEF IsTotals
<1> HIDE DEF t
<1>2. t[0] = 0 /\ \A k \in 1 .. Len(q) : t[k] = t[k - 1] + q[k].value
    BY <1>1
<1>3. \A m \in 0 .. Len(q) - 1 : m \in S => m + 1 \in S
    BY <1>2, CoinOfList
<1>4. 0 .. Len(q) \subseteq S
    <2>1. 0 \in S /\ Len(q) \in Nat
        BY <1>2
    <2> HIDE DEF S
    <2> QED
        BY <1>3, <2>1, CountedUp
<1>5. t \in [0 .. Len(q) -> Nat]
    BY <1>1, <1>4
<1> QED
    BY <1>2, <1>5 DEF t

\* They do not decrease.
LEMMA TotalsGrow ==
    ASSUME NEW q \in Seq(Coin), NEW i \in 0 .. Len(q), NEW j \in i .. Len(q)
    PROVE  Totals(q)[i] <= Totals(q)[j]
<1> DEFINE t == Totals(q)
           S == {m \in 0 .. Len(q) : i + m <= Len(q) => t[i] <= t[i + m]}
<1>1. /\ t \in [0 .. Len(q) -> Nat] /\ Len(q) \in Nat
      /\ \A k \in 1 .. Len(q) : t[k] = t[k - 1] + q[k].value
    BY TotalsOf
<1> HIDE DEF t
<1>2. ASSUME NEW m \in 0 .. Len(q) - 1, m \in S  PROVE m + 1 \in S
    <2>1. CASE i + (m + 1) <= Len(q)
        <3>1. /\ i + m + 1 \in 1 .. Len(q) /\ i + m \in 0 .. Len(q)
              /\ (i + m + 1) - 1 = i + m
            BY <1>1, <2>1
        <3>2. t[i + m + 1] = t[i + m] + q[i + m + 1].value /\ q[i + m + 1].value \in Nat
            BY <1>1, <3>1, CoinOfList
        <3>3. t[i] \in Nat /\ t[i + m] \in Nat /\ t[i] <= t[i + m]
            BY <1>1, <1>2, <3>1
        <3>4. t[i] <= t[i + m + 1] /\ i + (m + 1) = i + m + 1
            BY <3>2, <3>3
        <3> QED
            BY <3>4
    <2> QED
        BY <2>1, <1>1
<1>3. 0 .. Len(q) \subseteq S
    <2>1. 0 \in S
        BY <1>1
    <2>2. \A m \in 0 .. Len(q) - 1 : m \in S => m + 1 \in S
        BY <1>2
    <2> HIDE DEF S
    <2> QED
        BY <1>1, <2>1, <2>2, CountedUp
<1>4. j - i \in 0 .. Len(q) /\ i + (j - i) = j
    BY <1>1
<1>5. j - i \in S
    <2> HIDE DEF S
    <2> QED
        BY <1>3, <1>4
<1> QED
    BY <1>4, <1>5 DEF t

\* How many of the coins it takes is the least number that is enough.
LEMMA NeededIs ==
    ASSUME NEW q \in Seq(Coin), NEW amount \in Int, NEW k \in 0 .. Len(q),
           Totals(q)[k] >= amount, \A j \in 0 .. k - 1 : Totals(q)[j] < amount
    PROVE  Needed(q, amount) = k
<1> DEFINE t == Totals(q)
           Least(m) == t[m] >= amount /\ \A j \in 0 .. m - 1 : t[j] < amount
<1>1. t \in [0 .. Len(q) -> Nat]
    BY TotalsOf
<1>2. Least(k)
    OBVIOUS
<1>3. Needed(q, amount) = CHOOSE m \in 0 .. Len(q) : Least(m)
    BY Zenon DEF Needed
<1> HIDE DEF t
<1>4. ASSUME NEW m \in 0 .. Len(q), Least(m)  PROVE m = k
    BY <1>1, <1>2, <1>4
<1> HIDE DEF Least
<1> QED
    BY <1>2, <1>3, <1>4

\* And there is one if all of them are.
LEMMA NeededSuffices ==
    ASSUME NEW q \in Seq(Coin), NEW amount \in Int, IsEnough(q, amount)
    PROVE  /\ Needed(q, amount) \in 0 .. Len(q)
           /\ Totals(q)[Needed(q, amount)] >= amount
<1> DEFINE t == Totals(q)
           T == {k \in 0 .. Len(q) : t[k] >= amount}
<1>1. t \in [0 .. Len(q) -> Nat] /\ Len(q) \in Nat
    BY TotalsOf
<1>2. Len(q) \in T
    BY <1>1 DEF IsEnough
<1>3. PICK k \in T : \A j \in T : k <= j
    <2>1. T \subseteq Nat /\ T # {}
        BY <1>2
    <2> HIDE DEF T
    <2> QED
        BY <2>1, LeastNatural
<1>4. k \in 0 .. Len(q) /\ t[k] >= amount /\ \A j \in 0 .. k - 1 : t[j] < amount
    <2>1. ASSUME NEW j \in 0 .. k - 1  PROVE t[j] < amount
        BY <1>1, <1>3
    <2> QED
        BY <2>1
<1>5. Needed(q, amount) = k
    BY <1>4, NeededIs
<1> QED
    BY <1>4, <1>5

\* The totals of the first coins are the first totals.
LEMMA TotalsOfPrefix ==
    ASSUME NEW q \in Seq(Coin), NEW k \in 0 .. Len(q)
    PROVE  /\ SubSeq(q, 1, k) \in Seq(Coin) /\ Len(SubSeq(q, 1, k)) = k
           /\ Totals(SubSeq(q, 1, k))[k] = Totals(q)[k]
<1> DEFINE p == SubSeq(q, 1, k)
           t == Totals(q)
           u == Totals(p)
           S == {m \in 0 .. k : u[m] = t[m]}
<1>1. p \in Seq(Coin) /\ Len(p) = k /\ \A m \in 1 .. k : p[m] = q[m]
    OBVIOUS
<1> HIDE DEF p
<1>2. /\ t \in [0 .. Len(q) -> Nat] /\ t[0] = 0
      /\ \A m \in 1 .. Len(q) : t[m] = t[m - 1] + q[m].value
    BY TotalsOf
<1>3. /\ u \in [0 .. k -> Nat] /\ u[0] = 0
      /\ \A m \in 1 .. k : u[m] = u[m - 1] + p[m].value
    BY <1>1, TotalsOf
<1> HIDE DEF t, u
<1>4. ASSUME NEW m \in 0 .. k - 1, m \in S  PROVE m + 1 \in S
    <2>1. m + 1 \in 1 .. k /\ m + 1 \in 1 .. Len(q) /\ (m + 1) - 1 = m
        OBVIOUS
    <2>2. u[m + 1] = u[m] + q[m + 1].value /\ t[m + 1] = t[m] + q[m + 1].value
        BY <1>1, <1>2, <1>3, <2>1
    <2> QED
        BY <1>4, <2>1, <2>2
<1>5. 0 .. k \subseteq S
    <2>1. 0 \in S /\ k \in Nat
        BY <1>2, <1>3
    <2>2. \A m \in 0 .. k - 1 : m \in S => m + 1 \in S
        BY <1>4
    <2> HIDE DEF S
    <2> QED
        BY <2>1, <2>2, CountedUp
<1> QED
    BY <1>1, <1>5 DEF p, t, u

----------------------------------------------------------------------------
(* One request of the backend *)

\* An amount that fits the decimal is printed as it is.
LEMMA PrintsWhatFits ==
    ASSUME NEW amount \in Int, amount % Unit = 0, NEW r \in Printed(amount)
    PROVE  r = amount
<1> DEFINE below == Unit * (amount \div Unit)
<1>1. below = amount
    BY BackendAssumption
<1>2. r = below \/ (r = below + Unit /\ 2 * (IF r > amount THEN r - amount ELSE amount - r) <= Unit)
    BY DEF Printed
<1> HIDE DEF below
<1> QED
    BY <1>1, <1>2, BackendAssumption

\* What is printed is no further off than half of the last place.
LEMMA PrintsNearby ==
    ASSUME NEW amount \in Int, NEW r \in Printed(amount)
    PROVE  2 * (IF r > amount THEN r - amount ELSE amount - r) <= Unit
BY DEF Printed

\* What is printed is a whole number.
LEMMA PrintsWhole ==
    ASSUME NEW amount \in Int, NEW r \in Printed(amount)
    PROVE  r \in Int
<1>1. amount \div Unit \in Int
    BY BackendAssumption
<1> QED
    BY <1>1, BackendAssumption DEF Printed

\* A request begins with nothing looked at and nothing answered.
LEMMA InitRequest == RequestInit => RequestInv
<1> SUFFICES ASSUME RequestInit PROVE RequestInv
    OBVIOUS
<1>1. reply \in Reply /\ reply.psbt = NoPsbt
    BY Refusals DEF RequestInit
<1>2. RequestTypeOK
    BY <1>1, BackendAssumption DEF RequestInit, RequestTypeOK
<1>3. Progress
    BY <1>1 DEF RequestInit, Progress, NoneToSpare
<1> QED
    BY <1>1, <1>2, <1>3 DEF RequestInv, TransactionsMatchInputs, AnswerIsReasonable, PaysWhatWasAsked

\* Answering with a refusal keeps the invariant, whatever else stays.
LEMMA RefusalKeepsInv ==
    ASSUME RequestInv, NEW r \in {BadRequest, Failure, NotEnough}, Respond(r),
           UNCHANGED <<coins, desired, unspent, n, inputs, totalAmount, psbt, fullTxns>>
    PROVE  RequestInv'
<1>1. reply' \in Reply /\ reply'.psbt = NoPsbt /\ pc' = "answered"
    BY Refusals DEF Respond
<1>2. RequestTypeOK'
    BY <1>1 DEF RequestInv, RequestTypeOK
<1>3. Progress'
    BY <1>1 DEF RequestInv, Progress, NoneToSpare
<1> QED
    BY <1>1, <1>2, <1>3 DEF RequestInv, TransactionsMatchInputs, AnswerIsReasonable, PaysWhatWasAsked

\* Every step of the handler keeps the invariant.
LEMMA NextRequest == RequestInv /\ [RequestNext]_requestVars => RequestInv'
<1> SUFFICES ASSUME RequestInv, [RequestNext]_requestVars PROVE RequestInv'
    OBVIOUS
<1> USE DEF RequestInv
<1> DEFINE SameReply == reply' = reply /\ desired' = desired
<1>0. ASSUME SameReply, pc # "answered"
      PROVE  TransactionsMatchInputs' /\ AnswerIsReasonable' /\ PaysWhatWasAsked'
    BY <1>0 DEF Progress, TransactionsMatchInputs, AnswerIsReasonable, PaysWhatWasAsked
<1> HIDE DEF SameReply
<1>1. CASE Malformed
    BY <1>1, RefusalKeepsInv DEF Malformed
<1>2. CASE ListUnspent
    <2>1. RequestTypeOK' /\ Progress'
        BY <1>2 DEF ListUnspent, RequestTypeOK, Progress, NoneToSpare
    <2> QED
        BY <2>1, <1>0, <1>2 DEF ListUnspent, SameReply
<1>3. CASE Take
    <2>1. unspent[n + 1] \in Coin /\ unspent[n + 1].value \in Nat /\ n + 1 \in 0 .. Len(unspent)
        <3>1. n + 1 \in 1 .. Len(unspent)
            BY <1>3 DEF Take, RequestTypeOK
        <3> QED
            BY <3>1, CoinOfList DEF RequestTypeOK
    <2>2. CASE desired > totalAmount
        <3>1. inputs' = Append(inputs, unspent[n + 1])
              /\ totalAmount' = totalAmount + unspent[n + 1].value
            BY <1>3, <2>2 DEF Take
        <3>2. /\ inputs' \in Seq(Coin) /\ Len(inputs') = Len(inputs) + 1
              /\ inputs'[Len(inputs')] = unspent[n + 1]
            BY <3>1, <2>1 DEF RequestTypeOK
        <3>3. RequestTypeOK'
            BY <1>3, <2>1, <3>1, <3>2 DEF Take, RequestTypeOK
        <3>4. NoneToSpare(inputs, totalAmount)'
            BY <1>3, <2>1, <2>2, <3>1, <3>2 DEF Take, RequestTypeOK, NoneToSpare
        <3>5. Progress'
            BY <1>3, <3>4 DEF Take, Progress
        <3> QED
            BY <3>3, <3>5, <1>0, <1>3 DEF Take, SameReply
    <2>3. CASE ~(desired > totalAmount)
        <3>1. RequestTypeOK' /\ Progress'
            BY <1>3, <2>1, <2>3 DEF Take, RequestTypeOK, Progress, NoneToSpare
        <3> QED
            BY <3>1, <1>0, <1>3 DEF Take, SameReply
    <2> QED
        BY <2>2, <2>3
<1>4. CASE EndSelection
    <2>1. CASE desired <= totalAmount
        <3>1. RequestTypeOK' /\ Progress'
            BY <1>4, <2>1 DEF EndSelection, RequestTypeOK, Progress, NoneToSpare
        <3> QED
            BY <3>1, <1>0, <1>4, <2>1 DEF EndSelection, SameReply
    <2>2. CASE ~(desired <= totalAmount)
        BY <1>4, <2>2, RefusalKeepsInv DEF EndSelection
    <2> QED
        BY <2>1, <2>2
<1>5. CASE MakePsbt
    <2>1. CASE Respond(Failure) /\ UNCHANGED psbt
        BY <1>5, <2>1, RefusalKeepsInv DEF MakePsbt
    <2>2. CASE ~(Respond(Failure) /\ UNCHANGED psbt)
        <3>1. PICK output \in Printed(desired) :
                  /\ output >= 0
                  /\ psbt' \in {[inputs |-> inputs, output |-> output], NoPsbt}
                  /\ pc' = "fetch"
                  /\ UNCHANGED reply
            BY <1>5, <2>2 DEF MakePsbt
        <3>2. output \in Int
            BY PrintsWhole DEF RequestTypeOK
        <3>3. psbt' \in Psbt \cup {NoPsbt}
            BY <3>1, <3>2 DEF RequestTypeOK, Psbt
        <3>4. RequestTypeOK' /\ Progress'
            <4>1. UNCHANGED <<coins, desired, unspent, n, inputs, totalAmount, fullTxns>>
                  /\ pc = "make"
                BY <1>5 DEF MakePsbt
            <4>2. RequestTypeOK'
                BY <3>1, <3>3, <4>1 DEF RequestTypeOK
            <4>3. Progress'
                BY <3>1, <4>1 DEF Progress, NoneToSpare, Printed
            <4> QED
                BY <4>2, <4>3
        <3> QED
            BY <3>1, <3>4, <1>0, <1>5 DEF MakePsbt, SameReply
    <2> QED
        BY <2>1, <2>2
<1>6. CASE Fetch
    <2>1. CASE Respond(Failure) /\ UNCHANGED fullTxns
        BY <1>6, <2>1, RefusalKeepsInv DEF Fetch
    <2>2. CASE ~(Respond(Failure) /\ UNCHANGED fullTxns)
        <3> DEFINE next == Len(fullTxns) + 1
        <3>1. fullTxns' = Append(fullTxns, inputs[next].hash) /\ UNCHANGED <<pc, reply>>
            BY <1>6, <2>2 DEF Fetch
        <3>2. next \in 1 .. Len(inputs) /\ inputs[next] \in Coin /\ inputs[next].hash \in Hash
            <4>1. next \in 1 .. Len(inputs)
                BY <1>6 DEF Fetch, RequestTypeOK
            <4> QED
                BY <4>1, CoinOfList DEF RequestTypeOK
        <3>3. /\ fullTxns' \in Seq(Hash) /\ Len(fullTxns') = next
              /\ \A k \in DOMAIN fullTxns' : fullTxns'[k] = inputs[k].hash
            BY <3>1, <3>2 DEF RequestTypeOK, Progress
        <3>4. RequestTypeOK' /\ Progress'
            BY <1>6, <3>1, <3>2, <3>3 DEF Fetch, RequestTypeOK, Progress, NoneToSpare
        <3> QED
            BY <3>1, <3>4, <1>0, <1>6 DEF Fetch, SameReply
    <2> QED
        BY <2>1, <2>2
<1>7. CASE Send
    <2>1. pc = "fetch" /\ Len(fullTxns) = Len(inputs) /\ UNCHANGED <<desired, inputs, totalAmount, fullTxns>>
        BY <1>7 DEF Send
    <2>2. reply' = Answer(totalAmount, psbt, desired, fullTxns) /\ pc' = "answered"
        BY <1>7 DEF Send, Respond
    <2>3. desired <= totalAmount
        BY <2>1 DEF Progress
    <2>4. /\ reply' \in Reply
          /\ reply'.psbt = psbt
          /\ reply'.nonWitnessUtxos = fullTxns
          /\ reply'.actualAmount = totalAmount
          /\ reply'.error <=> totalAmount - desired > AbsurdFee
        <3>1. ASSUME NEW absurd \in BOOLEAN, NEW paid \in Psbt \cup {NoPsbt}, NEW r,
                     r = [status |-> 200, error |-> absurd, psbt |-> paid,
                          nonWitnessUtxos |-> fullTxns, actualAmount |-> totalAmount]
              PROVE  r \in Reply
            BY <3>1 DEF RequestTypeOK, Reply
        <3>2. psbt \in Psbt \cup {NoPsbt}
            BY DEF RequestTypeOK
        <3>3. (totalAmount - desired > AbsurdFee) \in BOOLEAN
            OBVIOUS
        <3>4. reply' \in Reply
            BY <2>2, <3>1, <3>2, <3>3 DEF Answer
        <3> QED
            BY <2>2, <3>4 DEF Answer
    <2>10. reply'.psbt # NoPsbt =>
              /\ reply'.psbt.inputs = inputs
              /\ reply'.psbt.output \in Printed(desired)
        <3>1. PICK output \in Printed(desired) :
                  psbt \in {[inputs |-> inputs, output |-> output], NoPsbt}
            BY <2>1 DEF Progress
        <3> QED
            BY <2>4, <3>1
    <2>5. RequestTypeOK'
        BY <1>7, <2>2, <2>4 DEF Send, RequestTypeOK
    <2>6. Progress'
        BY <1>7, <2>2 DEF Send, Progress, NoneToSpare
    <2>7. TransactionsMatchInputs'
        <3>1. DOMAIN fullTxns = DOMAIN inputs /\ \A k \in DOMAIN fullTxns : fullTxns[k] = inputs[k].hash
            BY <2>1 DEF RequestTypeOK, Progress
        <3>2. fullTxns = HashesOf(inputs)
            BY <3>1 DEF RequestTypeOK, HashesOf
        <3> QED
            BY <3>2, <2>4, <2>10 DEF TransactionsMatchInputs
    <2>8. AnswerIsReasonable'
        BY <2>1, <2>3, <2>4, <2>10, AbsurdFeeAssumption
        DEF AnswerIsReasonable, RequestTypeOK, Progress, NoneToSpare
    <2>9. PaysWhatWasAsked'
        <3>1. desired' = desired /\ desired \in Int
            BY <1>7 DEF Send, RequestTypeOK
        <3> QED
            BY <3>1, <2>10, PrintsWhatFits, PrintsNearby DEF PaysWhatWasAsked
    <2> QED
        BY <2>5, <2>6, <2>7, <2>8, <2>9
<1>8. CASE UNCHANGED requestVars
    BY <1>8 DEF requestVars, RequestTypeOK, Progress, NoneToSpare, TransactionsMatchInputs, AnswerIsReasonable,
                   PaysWhatWasAsked
<1> QED
    BY <1>1, <1>2, <1>3, <1>4, <1>5, <1>6, <1>7, <1>8 DEF RequestNext

\* Something is printed for every amount.
LEMMA SomethingIsPrinted ==
    ASSUME NEW amount \in Int
    PROVE  \E r \in Printed(amount) : TRUE
<1> DEFINE below == Unit * (amount \div Unit)
           rest == amount % Unit
<1>1. below \in Int /\ rest \in 0 .. Unit - 1 /\ amount = below + rest /\ Unit \in Nat
    BY BackendAssumption
<1> HIDE DEF below, rest
<1>2. below \in Printed(amount) \/ below + Unit \in Printed(amount)
    <2>1. Printed(amount) = {r \in {below, below + Unit} :
                2 * (IF r > amount THEN r - amount ELSE amount - r) <= Unit}
        BY DEF Printed, below
    <2> QED
        BY <1>1, <2>1
<1> QED
    BY <1>2

\* The answers promised when the first k outputs are enough and no fewer are.
LEMMA RepliesOfEnough ==
    ASSUME NEW q \in Seq(Coin), NEW amount \in Int, NEW output \in Int, NEW k \in 0 .. Len(q),
           Totals(q)[k] >= amount, \A j \in 0 .. k - 1 : Totals(q)[j] < amount
    PROVE  /\ Failure \in Replies(q, amount, output)
           /\ output >= 0 =>
                  \A p \in {[inputs |-> SubSeq(q, 1, k), output |-> output], NoPsbt} :
                      Answer(Totals(q)[k], p, amount, HashesOf(SubSeq(q, 1, k)))
                          \in Replies(q, amount, output)
<1>1. Len(q) \in k .. Len(q) /\ Len(q) \in 0 .. Len(q)
    OBVIOUS
<1>2. Totals(q)[k] <= Totals(q)[Len(q)]
    BY <1>1, TotalsGrow
<1>3. Totals(q)[k] \in Int /\ Totals(q)[Len(q)] \in Int
    <2>1. Totals(q) \in [0 .. Len(q) -> Nat]
        BY TotalsOf
    <2> QED
        BY <1>1, <2>1
<1>4. IsEnough(q, amount)
    BY <1>2, <1>3 DEF IsEnough
<1>5. Needed(q, amount) = k
    BY NeededIs
<1>6. output >= 0 => ~(output < 0)
    OBVIOUS
<1> QED
    BY <1>4, <1>5, <1>6, Zenon DEF Replies

\* A request begins with nothing taken.
LEMMA InitSelection == RequestInit => Selection /\ AnswersAsPromised
<1> SUFFICES ASSUME RequestInit PROVE Selection /\ AnswersAsPromised
    OBVIOUS
<1>1. <<>> \in Seq(Coin) /\ Len(<<>>) = 0
    OBVIOUS
<1>2. Totals(<<>>)[0] = 0
    BY <1>1, TotalsOf
<1>3. <<>> = SubSeq(<<>>, 1, Len(<<>>))
    BY <1>1
<1> QED
    BY <1>1, <1>2, <1>3 DEF RequestInit, Selection, AnswersAsPromised

\* A refusal that is promised keeps the promise, and the selection is done with.
LEMMA RefusalIsPromised ==
    ASSUME RequestInv, Selection, NEW r, Respond(r),
           UNCHANGED <<coins, desired, unspent, n, inputs, totalAmount, psbt, fullTxns>>,
           r = BadRequest \/ \A output \in Int : r \in Replies(unspent, desired, output)
    PROVE  Selection' /\ AnswersAsPromised'
<1>1. pc' = "answered" /\ reply' = r
    BY DEF Respond
<1>2. Selection'
    BY <1>1 DEF Selection
<1>3. ASSUME r # BadRequest
      PROVE  \E output \in Printed(desired) :
                 r \in Replies(coins, desired, output) \cup Replies(<<>>, desired, output)
    <2>1. PICK output \in Printed(desired) : TRUE
        BY SomethingIsPrinted DEF RequestInv, RequestTypeOK
    <2>2. output \in Int
        BY <2>1, PrintsWhole DEF RequestInv, RequestTypeOK
    <2>3. r \in Replies(unspent, desired, output)
        BY <1>3, <2>2
    <2>4. unspent = coins \/ unspent = <<>>
        BY DEF Selection
    <2> QED
        BY <2>1, <2>3, <2>4, Zenon
<1>4. AnswersAsPromised'
    BY <1>1, <1>3 DEF AnswersAsPromised
<1> QED
    BY <1>2, <1>4

\* While the outputs taken are enough, a failure is among the answers promised.
LEMMA FailureIsPromised ==
    ASSUME RequestInv, Selection, desired <= totalAmount, NEW output \in Int
    PROVE  /\ Failure \in Replies(unspent, desired, output)
           /\ output >= 0 =>
                  \A p \in {[inputs |-> inputs, output |-> output], NoPsbt} :
                      Answer(totalAmount, p, desired, HashesOf(inputs))
                          \in Replies(unspent, desired, output)
<1>1. unspent \in Seq(Coin) /\ desired \in Int /\ totalAmount \in Nat /\ Len(inputs) \in 0 .. Len(unspent)
    BY DEF RequestInv, RequestTypeOK
<1> DEFINE k == Len(inputs)
<1>2. /\ inputs = SubSeq(unspent, 1, k) /\ totalAmount = Totals(unspent)[k]
      /\ \A j \in 0 .. k - 1 : Totals(unspent)[j] < desired
    BY DEF Selection
<1>3. Totals(unspent)[k] >= desired
    BY <1>1, <1>2
<1> HIDE DEF k
<1>4. k \in 0 .. Len(unspent)
    BY <1>1 DEF k
<1>5. /\ Failure \in Replies(unspent, desired, output)
      /\ output >= 0 =>
             \A p \in {[inputs |-> SubSeq(unspent, 1, k), output |-> output], NoPsbt} :
                 Answer(Totals(unspent)[k], p, desired, HashesOf(SubSeq(unspent, 1, k)))
                     \in Replies(unspent, desired, output)
    BY <1>1, <1>2, <1>3, <1>4, RepliesOfEnough
<1> QED
    BY <1>2, <1>5, Zenon

\* Every step keeps the selection the least that is enough, and answers as promised.
LEMMA NextSelection ==
    RequestInv /\ Selection /\ AnswersAsPromised /\ [RequestNext]_requestVars
        => Selection' /\ AnswersAsPromised'
<1> SUFFICES ASSUME RequestInv, Selection, AnswersAsPromised, [RequestNext]_requestVars
             PROVE  Selection' /\ AnswersAsPromised'
    OBVIOUS
<1>0. /\ unspent \in Seq(Coin) /\ inputs \in Seq(Coin) /\ desired \in Int /\ totalAmount \in Nat
      /\ n \in 0 .. Len(unspent) /\ Len(inputs) \in 0 .. n
    BY DEF RequestInv, RequestTypeOK
<1>1. CASE Malformed
    BY <1>1, RefusalIsPromised DEF Malformed
<1>2. CASE ListUnspent
    <2>1. /\ unspent' \in {coins, <<>>} /\ pc' = "select"
          /\ UNCHANGED <<coins, desired, n, inputs, totalAmount>>
        BY <1>2 DEF ListUnspent
    <2>2. n = 0 /\ unspent = <<>>
        BY <1>2 DEF ListUnspent, RequestInv, Progress
    <2>3. Len(inputs) = 0 /\ inputs = <<>>
        BY <1>0, <2>2
    <2>4. unspent' \in Seq(Coin)
        <3>1. coins \in Seq(Coin) /\ <<>> \in Seq(Coin)
            BY DEF RequestInv, RequestTypeOK
        <3> QED
            BY <2>1, <3>1
    <2>5. inputs' = SubSeq(unspent', 1, Len(inputs')) /\ Len(inputs') = 0
        BY <2>1, <2>3, <2>4
    <2>6. Totals(unspent')[0] = 0 /\ Totals(unspent)[0] = 0
        BY <1>0, <2>4, TotalsOf
    <2>7. totalAmount' = Totals(unspent')[Len(inputs')]
        BY <2>1, <2>3, <2>6 DEF Selection
    <2> QED
        BY <2>1, <2>2, <2>5, <2>7 DEF Selection, AnswersAsPromised
<1>3. CASE Take
    <2>1. /\ n + 1 \in 1 .. Len(unspent) /\ n' = n + 1
          /\ UNCHANGED <<pc, coins, desired, unspent, psbt, fullTxns, reply>>
        BY <1>0, <1>3 DEF Take
    <2>2. AnswersAsPromised'
        BY <1>3, <2>1 DEF Take, AnswersAsPromised
    <2>3. CASE desired > totalAmount
        <3>1. /\ inputs' = Append(inputs, unspent[n + 1]) /\ Len(inputs) = n
              /\ totalAmount' = totalAmount + unspent[n + 1].value
            <4>1. Len(inputs) = n
                <5>1. Len(inputs) = n \/ desired <= totalAmount
                    BY DEF Selection
                <5> QED
                    BY <1>0, <2>3, <5>1
            <4> QED
                BY <1>3, <2>3, <4>1 DEF Take
        <3>2. unspent[n + 1] \in Coin
            BY <1>0, <2>1, CoinOfList
        <3>3. Len(inputs') = n + 1 /\ inputs' = SubSeq(unspent, 1, n + 1)
            <4>1. inputs = SubSeq(unspent, 1, n)
                BY <3>1 DEF Selection
            <4> QED
                BY <1>0, <2>1, <3>1, <3>2, <4>1
        <3>4. totalAmount' = Totals(unspent)[n + 1]
            <4>1. Totals(unspent)[n + 1] = Totals(unspent)[n] + unspent[n + 1].value
                BY <1>0, <2>1, TotalsOf
            <4> QED
                BY <3>1, <4>1 DEF Selection
        <3>5. \A k \in 0 .. n : Totals(unspent)[k] < desired
            <4>1. Totals(unspent)[n] < desired
                BY <1>0, <2>3, <3>1 DEF Selection
            <4> QED
                BY <1>0, <3>1, <4>1 DEF Selection
        <3>6. pc' # "fetch" /\ (n + 1) - 1 = n
            BY <1>0, <1>3, <2>1 DEF Take
        <3>7. \A k \in 0 .. Len(inputs') - 1 : Totals(unspent')[k] < desired'
            BY <2>1, <3>3, <3>5, <3>6
        <3>8. unspent' \in {coins', <<>>}
            BY <2>1 DEF Selection
        <3>9. Selection'
            BY <2>1, <3>3, <3>4, <3>6, <3>7, <3>8 DEF Selection
        <3> QED
            BY <2>2, <3>9
    <2>4. CASE ~(desired > totalAmount)
        <3>1. UNCHANGED <<totalAmount, inputs>> /\ desired <= totalAmount
            BY <1>0, <1>3, <2>4 DEF Take
        <3>2. Selection'
            BY <2>1, <3>1 DEF Selection
        <3> QED
            BY <2>2, <3>2
    <2> QED
        BY <2>3, <2>4
<1>4. CASE EndSelection
    <2>1. CASE desired <= totalAmount
        BY <1>4, <2>1 DEF EndSelection, Selection, AnswersAsPromised
    <2>2. CASE ~(desired <= totalAmount)
        <3>1. Len(inputs) = Len(unspent)
            BY <1>4, <2>2 DEF EndSelection, Selection
        <3>2. ~IsEnough(unspent, desired)
            BY <1>0, <2>2, <3>1 DEF IsEnough, Selection
        <3>3. \A output \in Int : NotEnough \in Replies(unspent, desired, output)
            BY <3>2, Zenon DEF Replies
        <3> QED
            BY <1>4, <2>2, <3>3, RefusalIsPromised DEF EndSelection
    <2> QED
        BY <2>1, <2>2
<1>5. CASE MakePsbt
    <2>1. desired <= totalAmount
        BY <1>5 DEF MakePsbt, RequestInv, Progress
    <2>2. CASE Respond(Failure) /\ UNCHANGED psbt
        <3>1. \A output \in Int : Failure \in Replies(unspent, desired, output)
            BY <2>1, FailureIsPromised
        <3> QED
            BY <1>5, <2>2, <3>1, RefusalIsPromised DEF MakePsbt
    <2>3. CASE ~(Respond(Failure) /\ UNCHANGED psbt)
        <3>1. pc = "make" /\ pc' = "fetch" /\ UNCHANGED reply
            BY <1>5, <2>3 DEF MakePsbt
        <3> QED
            BY <1>5, <3>1 DEF MakePsbt, Selection, AnswersAsPromised
    <2> QED
        BY <2>2, <2>3
<1>6. CASE Fetch
    <2>1. desired <= totalAmount
        BY <1>6 DEF Fetch, RequestInv, Progress
    <2>2. CASE Respond(Failure) /\ UNCHANGED fullTxns
        <3>1. \A output \in Int : Failure \in Replies(unspent, desired, output)
            BY <2>1, FailureIsPromised
        <3> QED
            BY <1>6, <2>2, <3>1, RefusalIsPromised DEF Fetch
    <2>3. CASE ~(Respond(Failure) /\ UNCHANGED fullTxns)
        BY <1>6, <2>3 DEF Fetch, Selection, AnswersAsPromised
    <2> QED
        BY <2>2, <2>3
<1>7. CASE Send
    <2>1. /\ pc = "fetch" /\ pc' = "answered"
          /\ reply' = Answer(totalAmount, psbt, desired, fullTxns)
          /\ UNCHANGED <<coins, desired, unspent, n, inputs, totalAmount, psbt, fullTxns>>
        BY <1>7 DEF Send, Respond
    <2>2. desired <= totalAmount
        BY <2>1 DEF RequestInv, Progress
    <2>9. PICK output \in Printed(desired) :
              output >= 0 /\ psbt \in {[inputs |-> inputs, output |-> output], NoPsbt}
        BY <2>1 DEF RequestInv, Progress
    <2>10. output \in Int
        BY <1>0, PrintsWhole
    <2>3. fullTxns = HashesOf(inputs)
        <3>1. /\ DOMAIN fullTxns = DOMAIN inputs
              /\ \A k \in DOMAIN fullTxns : fullTxns[k] = inputs[k].hash
            BY <1>7 DEF Send, RequestInv, RequestTypeOK, Progress
        <3> QED
            BY <3>1 DEF RequestInv, RequestTypeOK, HashesOf
    <2>4. reply' \in Replies(unspent, desired, output)
        <3>1. Answer(totalAmount, psbt, desired, HashesOf(inputs))
                  \in Replies(unspent, desired, output)
            BY <2>2, <2>9, <2>10, FailureIsPromised
        <3> QED
            BY <2>1, <2>3, <3>1, Zenon
    <2>5. unspent = coins \/ unspent = <<>>
        BY DEF Selection
    <2>6. reply' \in Replies(coins, desired, output) \cup Replies(<<>>, desired, output)
        BY <2>4, <2>5, Zenon
    <2>7. AnswersAsPromised'
        BY <2>1, <2>9, <2>6, Zenon DEF AnswersAsPromised
    <2>8. Selection'
        BY <2>1 DEF Selection
    <2> QED
        BY <2>7, <2>8
<1>8. CASE UNCHANGED requestVars
    BY <1>8 DEF requestVars, Selection, AnswersAsPromised
<1> QED
    BY <1>1, <1>2, <1>3, <1>4, <1>5, <1>6, <1>7, <1>8 DEF RequestNext

\* Every reachable state satisfies the invariant (getPSBT of main.go).
THEOREM BackendInvariant == RequestSpec => []BackendInv
<1>1. RequestInit => BackendInv
    BY InitRequest, InitSelection DEF BackendInv
<1>2. BackendInv /\ [RequestNext]_requestVars => BackendInv'
    BY NextRequest, NextSelection DEF BackendInv
<1> QED
    BY <1>1, <1>2, PTL DEF RequestSpec

\* Whatever becomes of a request, its answer is one the service promises
\* (PsbtService) for the outputs the address has, or for none.
THEOREM BackendAnswersAsPromised == RequestSpec => []AnswersAsPromised
<1>1. BackendInv => AnswersAsPromised
    BY DEF BackendInv
<1> QED
    BY <1>1, BackendInvariant, PTL

\* An amount the daemon can be given is answered as the page's model has it
\* (SpendLBC, HandleGetPsbt): with that amount as the output.
THEOREM BackendMeetsThePage ==
    RequestSpec => [](pc = "answered" /\ desired % Unit = 0 /\ reply # BadRequest =>
        reply \in Replies(coins, desired, desired) \cup Replies(<<>>, desired, desired))
<1> DEFINE Meets ==
        pc = "answered" /\ desired % Unit = 0 /\ reply # BadRequest =>
            reply \in Replies(coins, desired, desired) \cup Replies(<<>>, desired, desired)
<1>1. BackendInv => Meets
    <2> SUFFICES ASSUME BackendInv, pc = "answered", desired % Unit = 0, reply # BadRequest
                 PROVE  reply \in Replies(coins, desired, desired)
                                  \cup Replies(<<>>, desired, desired)
        OBVIOUS
    <2>1. PICK output \in Printed(desired) :
              reply \in Replies(coins, desired, output) \cup Replies(<<>>, desired, output)
        BY DEF BackendInv, AnswersAsPromised
    <2>2. output = desired
        BY PrintsWhatFits DEF BackendInv, RequestInv, RequestTypeOK
    <2> QED
        BY <2>1, <2>2
<1> HIDE DEF Meets
<1>2. RequestSpec => []Meets
    BY <1>1, BackendInvariant, PTL
<1> QED
    BY <1>2 DEF Meets

\* An answer without an error pays for the amount, and not absurdly more.
THEOREM AnswersAreReasonable == RequestSpec => []AnswerIsReasonable
<1>1. BackendInv => AnswerIsReasonable
    BY DEF BackendInv, RequestInv
<1> QED
    BY <1>1, BackendInvariant, PTL

\* What is paid is the amount asked for if the decimal has places enough, and else
\* within half of its last place (fmt.Sprintf with %f in makePsbt).
THEOREM AmountsArePaid == RequestSpec => []PaysWhatWasAsked
<1>1. BackendInv => PaysWhatWasAsked
    BY DEF BackendInv, RequestInv
<1> QED
    BY <1>1, BackendInvariant, PTL

\* The wallet finds the transactions in the order of the inputs.
THEOREM TransactionsComeInOrder == RequestSpec => []TransactionsMatchInputs
<1>1. BackendInv => TransactionsMatchInputs
    BY DEF BackendInv, RequestInv
<1> QED
    BY <1>1, BackendInvariant, PTL

----------------------------------------------------------------------------
(* The payment page *)

\* The coins that are left are a list of coins.
LEMMA WithoutIsList ==
    ASSUME NEW q \in Seq(Coin), NEW gone
    PROVE  Without(q, gone) \in Seq(Coin)
<1> DEFINE After(w, k) == IF q[k] \in gone THEN w[k - 1] ELSE Append(w[k - 1], q[k])
           Upto(w, m) == /\ w \in [0 .. m -> Seq(Coin)] /\ w[0] = <<>>
                         /\ \A k \in 1 .. m : w[k] = After(w, k)
           IsWithout(w) == w = [k \in 0 .. Len(q) |-> IF k = 0 THEN <<>> ELSE After(w, k)]
           S == {m \in 0 .. Len(q) : \E w : Upto(w, m)}
<1>0. Len(q) \in Nat
    OBVIOUS
<1>1. 0 \in S
    <2>1. Upto([k \in 0 .. 0 |-> <<>>], 0)
        <3>1. <<>> \in Seq(Coin)
            OBVIOUS
        <3> QED
            BY <3>1
    <2>2. \E w : Upto(w, 0)
        <3> HIDE DEF Upto
        <3> QED
            BY <2>1
    <2> HIDE DEF Upto
    <2> QED
        BY <2>2, <1>0
<1>2. ASSUME NEW m \in 0 .. Len(q) - 1, m \in S  PROVE m + 1 \in S
    <2>1. PICK w : Upto(w, m)
        BY <1>2
    <2>2. m \in Nat /\ m + 1 \in 1 .. Len(q) /\ q[m + 1] \in Coin
        BY CoinOfList
    <2> DEFINE next == IF q[m + 1] \in gone THEN w[m] ELSE Append(w[m], q[m + 1])
               v == [k \in 0 .. m + 1 |-> IF k = m + 1 THEN next ELSE w[k]]
    <2>3. next \in Seq(Coin)
        <3>1. w[m] \in Seq(Coin)
            BY <2>1, <2>2
        <3> QED
            BY <3>1, <2>2
    <2>4. v \in [0 .. m + 1 -> Seq(Coin)] /\ v[0] = <<>>
        <3> HIDE DEF next
        <3> QED
            BY <2>1, <2>2, <2>3
    <2>5. ASSUME NEW k \in 1 .. m + 1  PROVE v[k] = After(v, k)
        <3>1. CASE k = m + 1
            <4>1. v[k] = next /\ v[k - 1] = w[m] /\ q[k] = q[m + 1]
                BY <3>1, <2>2
            <4> HIDE DEF v
            <4> QED
                BY <4>1
        <3>2. CASE k # m + 1
            <4>1. k \in 1 .. m /\ v[k] = w[k] /\ v[k - 1] = w[k - 1]
                BY <3>2, <2>2
            <4>2. w[k] = After(w, k)
                BY <2>1, <4>1
            <4> HIDE DEF v
            <4> QED
                BY <4>1, <4>2
        <3> QED
            BY <3>1, <3>2
    <2>6. Upto(v, m + 1)
        <3> HIDE DEF v, After
        <3> QED
            BY <2>4, <2>5
    <2> HIDE DEF Upto, v
    <2> QED
        BY <2>2, <2>6
<1>3. Len(q) \in S
    <2>1. \A k \in 0 .. Len(q) - 1 : k \in S => k + 1 \in S
        BY <1>2
    <2> HIDE DEF S
    <2>2. 0 .. Len(q) \subseteq S
        BY <1>0, <1>1, <2>1, CountedUp
    <2> QED
        BY <1>0, <2>2
<1>4. PICK f : Upto(f, Len(q))
    BY <1>3
<1>5. IsWithout(f)
    <2> HIDE DEF After
    <2> QED
        BY <1>4
<1> DEFINE g == CHOOSE w : IsWithout(w)
<1>6. Without(q, gone) = g[Len(q)]
    BY Zenon DEF Without
<1>7. IsWithout(g)
    <2> HIDE DEF IsWithout
    <2> QED
        BY <1>5, Zenon
<1> HIDE DEF g
<1> DEFINE L == {m \in 0 .. Len(q) : g[m] \in Seq(Coin)}
<1>8. Len(q) \in L
    <2>1. g[0] = <<>> /\ \A k \in 1 .. Len(q) : g[k] = After(g, k)
        <3> HIDE DEF After
        <3> QED
            BY <1>0, <1>7
    <2>2. 0 \in L
        <3>1. <<>> \in Seq(Coin) /\ 0 \in 0 .. Len(q)
            BY <1>0
        <3>2. g[0] \in Seq(Coin)
            BY <2>1, <3>1, Zenon
        <3> QED
            BY <3>1, <3>2, Zenon
    <2>3. ASSUME NEW k \in 0 .. Len(q) - 1, k \in L  PROVE k + 1 \in L
        <3>1. k + 1 \in 1 .. Len(q) /\ (k + 1) - 1 = k /\ k + 1 \in 0 .. Len(q)
            BY <1>0
        <3>2. q[k + 1] \in Coin /\ g[k] \in Seq(Coin)
            BY <2>3, <3>1, CoinOfList
        <3>3. g[k + 1] = IF q[k + 1] \in gone THEN g[k] ELSE Append(g[k], q[k + 1])
            BY <2>1, <3>1
        <3>4. g[k + 1] \in Seq(Coin)
            BY <3>2, <3>3
        <3> QED
            BY <3>1, <3>4
    <2>4. \A k \in 0 .. Len(q) - 1 : k \in L => k + 1 \in L
        BY <2>3
    <2> HIDE DEF L
    <2>5. 0 .. Len(q) \subseteq L
        BY <1>0, <2>2, <2>4, CountedUp
    <2> QED
        BY <1>0, <2>5
<1> QED
    BY <1>6, <1>8

\* An answer with a PSBT gives its fee.
GivesItsFee(r, asked) == r.psbt # NoPsbt => FeeOf(r.psbt) = r.actualAmount - asked

\* What the backend promises is an answer, and one that gives its fee.
LEMMA RepliesGiveTheirFee ==
    ASSUME NEW q \in Seq(Coin), NEW asked \in Nat, NEW r \in Replies(q, asked, asked)
    PROVE  r \in Reply /\ GivesItsFee(r, asked)
<1>1. CASE ~IsEnough(q, asked)
    <2>1. r = NotEnough
        BY <1>1, Zenon DEF Replies
    <2> QED
        BY <2>1, Refusals DEF GivesItsFee
<1>2. CASE IsEnough(q, asked)
    <2> DEFINE k == Needed(q, asked)
               taken == SubSeq(q, 1, k)
               total == Totals(q)[k]
               made == [inputs |-> taken, output |-> asked]
    <2>1. r = Failure \/ \E p \in {made, NoPsbt} : r = Answer(total, p, asked, HashesOf(taken))
        BY <1>2, Zenon DEF Replies
    <2>2. k \in 0 .. Len(q)
        BY <1>2, NeededSuffices
    <2>3. taken \in Seq(Coin) /\ Len(taken) = k /\ Totals(taken)[k] = total
        BY <2>2, TotalsOfPrefix
    <2>4. total \in Nat
        <3>1. Totals(q) \in [0 .. Len(q) -> Nat]
            BY TotalsOf
        <3> QED
            BY <2>2, <3>1
    <2>7. made \in Psbt /\ made.inputs = taken /\ made.output = asked
        BY <2>3 DEF Psbt
    <2> HIDE DEF taken, total, k, made
    <2>5. HashesOf(taken) \in Seq(Hash)
        <3>1. DOMAIN taken = 1 .. Len(taken) /\ Len(taken) \in Nat
            BY <2>3
        <3>2. \A j \in 1 .. Len(taken) : taken[j].hash \in Hash
            BY <2>3, CoinOfList
        <3>3. HashesOf(taken) \in [1 .. Len(taken) -> Hash]
            BY <3>1, <3>2 DEF HashesOf
        <3> QED
            BY <3>1, <3>3
    <2>6. ASSUME NEW p \in {made, NoPsbt}, r = Answer(total, p, asked, HashesOf(taken))
          PROVE  r \in Reply /\ GivesItsFee(r, asked)
        <3> DEFINE absurd == total - asked > AbsurdFee
        <3>1. absurd \in BOOLEAN
            OBVIOUS
        <3>3. r = [status |-> 200, error |-> absurd, psbt |-> p,
                   nonWitnessUtxos |-> HashesOf(taken), actualAmount |-> total]
            BY <2>6, Zenon DEF Answer
        <3> HIDE DEF absurd
        <3>2. p \in Psbt \cup {NoPsbt}
            BY <2>7
        <3>4. r \in Reply
            BY <2>4, <2>5, <3>1, <3>2, <3>3 DEF Reply
        <3>5. r.psbt = p /\ r.actualAmount = total
            BY <3>3
        <3>6. FeeOf(made) = total - asked
            BY <2>3, <2>7 DEF FeeOf, ValueOf
        <3> QED
            BY <3>4, <3>5, <3>6 DEF GivesItsFee
    <2> QED
        BY <2>1, <2>6, Refusals DEF GivesItsFee
<1> QED
    BY <1>1, <1>2

\* The page begins empty.
LEMMA InitPayment == Init => PaymentInv
<1> SUFFICES ASSUME Init PROVE PaymentInv
    OBVIOUS
<1>1. TypeOK
    <2>1. PageTypes /\ ResultTypes
        <3>1. NoPsbt \in Txn
            BY DEF Txn
        <3>2. PageTypes
            BY <3>1 DEF Init, PageTypes
        <3>3. ResultTypes
            BY <3>1 DEF Init, ResultTypes
        <3> QED
            BY <3>2, <3>3
    <2>2. WindowTypes /\ CallTypes /\ SpendTypes
        <3>1. 0 \in 0 .. MaxLaunches /\ 0 \in 0 .. MaxCalls
            BY SpendAssumption
        <3>2. WindowTypes
            BY <3>1 DEF Init, WindowTypes
        <3>3. CallTypes
            BY <3>1 DEF Init, CallTypes
        <3> QED
            BY <3>2, <3>3 DEF Init, SpendTypes
    <2>3. NodeTypes
        BY SpendAssumption DEF Init, NodeTypes
    <2> QED
        BY <2>1, <2>2, <2>3 DEF TypeOK
<1>2. FeesAgree /\ SignedIsAgreed
    BY DEF Init, FeesAgree, SignedIsAgreed, OpenFor
<1>3. SuccessIsOfAccepted /\ ErrorHidesSuccess
    BY DEF Init, SuccessIsOfAccepted, ErrorHidesSuccess
<1> QED
    BY <1>1, <1>2, <1>3 DEF PaymentInv

\* A part of the invariant stays while what it speaks of does.
LEMMA Stay ==
    ASSUME PaymentInv
    PROVE  /\ UNCHANGED pageVars => PageTypes'
           /\ UNCHANGED <<resultVars, reportVars>> => ResultTypes'
           /\ UNCHANGED windowVars => WindowTypes'
           /\ UNCHANGED callVars => CallTypes'
           /\ UNCHANGED <<spendCalls, launches>> => SpendTypes'
           /\ UNCHANGED <<nodeVars, submitted>> => NodeTypes'
           /\ UNCHANGED <<psbtCalls, psbtHex, actualAmount, fee>> => FeesAgree'
           /\ UNCHANGED <<windowVars, broadcastCalls, accepted, submitted>> => SignedIsAgreed'
           /\ UNCHANGED <<accepted, success>> => SuccessIsOfAccepted'
           /\ UNCHANGED reportVars => ErrorHidesSuccess'
<1>1. /\ PageTypes /\ ResultTypes /\ WindowTypes /\ CallTypes /\ SpendTypes /\ NodeTypes
      /\ FeesAgree /\ SignedIsAgreed /\ SuccessIsOfAccepted /\ ErrorHidesSuccess
    BY DEF PaymentInv, TypeOK
<1>2. UNCHANGED pageVars => PageTypes'
    BY <1>1 DEF pageVars, PageTypes
<1>3. UNCHANGED <<resultVars, reportVars>> => ResultTypes'
    BY <1>1 DEF resultVars, reportVars, ResultTypes
<1>4. UNCHANGED windowVars => WindowTypes'
    BY <1>1 DEF windowVars, WindowTypes
<1>5. UNCHANGED callVars => CallTypes'
    BY <1>1 DEF callVars, CallTypes
<1>6. UNCHANGED <<spendCalls, launches>> => SpendTypes'
    BY <1>1 DEF spendCalls, SpendTypes
<1>7. UNCHANGED <<nodeVars, submitted>> => NodeTypes'
    BY <1>1 DEF nodeVars, NodeTypes
<1>8. UNCHANGED <<psbtCalls, psbtHex, actualAmount, fee>> => FeesAgree'
    BY <1>1 DEF FeesAgree
<1>9. UNCHANGED <<windowVars, broadcastCalls, accepted, submitted>> => SignedIsAgreed'
    BY <1>1 DEF windowVars, SignedIsAgreed, OpenFor, Agreed, AgreedFrom
<1>11. UNCHANGED <<accepted, success>> => SuccessIsOfAccepted'
    BY <1>1 DEF SuccessIsOfAccepted
<1>12. UNCHANGED reportVars => ErrorHidesSuccess'
    BY <1>1 DEF reportVars, ErrorHidesSuccess
<1> QED
    BY <1>2, <1>3, <1>4, <1>5, <1>6, <1>7, <1>8, <1>9, <1>11, <1>12

\* setError never leaves an error beside a success, nor makes a success.
LEMMA SetErrorReports ==
    ASSUME ResultTypes, NEW err \in BOOLEAN, SetError(err), UNCHANGED accepted,
           SuccessIsOfAccepted
    PROVE  /\ lastError' \in BOOLEAN /\ success' \in Txn
           /\ SuccessIsOfAccepted' /\ ErrorHidesSuccess'
<1>1. lastError' = err /\ success' = IF err THEN NoPsbt ELSE success
    BY DEF SetError
<1> QED
    BY <1>1 DEF ResultTypes, Txn, SuccessIsOfAccepted, ErrorHidesSuccess

\* Asking for a PSBT adds a request without an answer.
LEMMA UpdatePsbtStep ==
    ASSUME PaymentInv, NEW amount \in Amount, UpdatePsbt(amount)
    PROVE  PaymentInv'
<1> DEFINE c == [id |-> calls', from |-> fromAddress, desired |-> amount, reply |-> Pending]
<1>1. /\ fromAddress # None /\ calls < MaxCalls /\ calls' = calls + 1
      /\ desiredAmount' = amount /\ psbtCalls' = psbtCalls \cup {c}
      /\ UNCHANGED <<fromAddress, psbtHex, actualAmount, fee>>
      /\ UNCHANGED <<resultVars, reportVars>> /\ UNCHANGED windowVars /\ UNCHANGED spendCalls
      /\ UNCHANGED <<nodeVars, submitted>>
    BY DEF UpdatePsbt
<1>2. PageTypes /\ CallTypes /\ FeesAgree
    BY DEF PaymentInv, TypeOK
<1>3. PageTypes'
    BY <1>1, <1>2 DEF PageTypes
<1>4. CallTypes'
    <2>1. calls' \in 0 .. MaxCalls /\ 1 .. calls \subseteq 1 .. calls' /\ calls' \in 1 .. calls'
        BY <1>1, <1>2, SpendAssumption DEF CallTypes
    <2>2. c \in [id : 1 .. calls', from : Address, desired : Amount, reply : Reply \cup {Pending}]
        BY <1>1, <1>2, <2>1 DEF PageTypes
    <2>3. psbtCalls \subseteq [id : 1 .. calls', from : Address, desired : Amount,
                               reply : Reply \cup {Pending}]
        BY <1>2, <2>1 DEF CallTypes
    <2> HIDE DEF c
    <2> QED
        BY <1>1, <2>1, <2>2, <2>3 DEF CallTypes
<1>5. FeesAgree'
    <2>1. c.reply = Pending
        OBVIOUS
    <2> HIDE DEF c
    <2> QED
        BY <1>1, <1>2, <2>1 DEF FeesAgree
<1> HIDE DEF c
<1>6. UNCHANGED <<spendCalls, launches>> /\ UNCHANGED <<accepted, submitted>>
      /\ UNCHANGED <<windowVars, broadcastCalls, accepted, submitted>>
      /\ UNCHANGED <<accepted, success>> /\ UNCHANGED reportVars
    BY <1>1 DEF windowVars, nodeVars, spendCalls, reportVars
<1> QED
    BY <1>1, <1>3, <1>4, <1>5, <1>6, Stay DEF PaymentInv, TypeOK

\* A request is given one of the answers the backend promises.
LEMMA HandleGetPsbtStep ==
    ASSUME PaymentInv, NEW c \in psbtCalls, HandleGetPsbt(c)
    PROVE  PaymentInv'
<1>1. /\ UNCHANGED pageVars /\ UNCHANGED <<resultVars, reportVars>> /\ UNCHANGED windowVars
      /\ calls' = calls /\ UNCHANGED spendCalls /\ UNCHANGED <<nodeVars, submitted>>
    BY DEF HandleGetPsbt
<1>2. CallTypes /\ NodeTypes /\ FeesAgree
    BY DEF PaymentInv, TypeOK
<1>3. PICK r \in Replies(ledger[c.from], c.desired, c.desired)
                 \cup Replies(<<>>, c.desired, c.desired) \cup {Failure} :
          psbtCalls' = (psbtCalls \ {c}) \cup {[c EXCEPT !.reply = r]}
    BY DEF HandleGetPsbt
<1>4. /\ c \in [id : 1 .. calls, from : Address, desired : Amount, reply : Reply \cup {Pending}]
      /\ c.from \in Address /\ c.desired \in Nat
    <2>1. c \in [id : 1 .. calls, from : Address, desired : Amount, reply : Reply \cup {Pending}]
        BY <1>2 DEF CallTypes
    <2> QED
        BY <2>1, SpendAssumption
<1>5. r \in Reply /\ GivesItsFee(r, c.desired)
    <2>1. ledger[c.from] \in Seq(Coin) /\ <<>> \in Seq(Coin)
        BY <1>2, <1>4 DEF NodeTypes
    <2>2. CASE r \in Replies(ledger[c.from], c.desired, c.desired)
        BY <1>4, <2>1, <2>2, RepliesGiveTheirFee
    <2>3. CASE r \in Replies(<<>>, c.desired, c.desired)
        BY <1>4, <2>1, <2>3, RepliesGiveTheirFee
    <2>4. CASE r = Failure
        BY <2>4, Refusals DEF GivesItsFee
    <2> QED
        BY <1>3, <2>2, <2>3, <2>4
<1> DEFINE d == [c EXCEPT !.reply = r]
<1>6. /\ d \in [id : 1 .. calls, from : Address, desired : Amount, reply : Reply \cup {Pending}]
      /\ d.reply = r /\ d.desired = c.desired
    BY <1>4, <1>5
<1>7. psbtCalls' = (psbtCalls \ {c}) \cup {d}
    BY <1>3
<1> HIDE DEF d
<1>8. CallTypes'
    BY <1>1, <1>2, <1>6, <1>7 DEF CallTypes
<1>9. FeesAgree'
    <2>1. UNCHANGED <<psbtHex, actualAmount, fee>>
        BY <1>1 DEF pageVars
    <2>2. d.reply.psbt # NoPsbt =>
              FeeOf(d.reply.psbt) = d.reply.actualAmount - d.desired
        BY <1>5, <1>6 DEF GivesItsFee
    <2> QED
        BY <1>2, <1>7, <2>1, <2>2 DEF FeesAgree
<1>10. UNCHANGED <<spendCalls, launches>> /\ UNCHANGED <<accepted, submitted>>
      /\ UNCHANGED <<windowVars, broadcastCalls, accepted, submitted>>
      /\ UNCHANGED <<accepted, success>> /\ UNCHANGED reportVars
    BY <1>1 DEF windowVars, nodeVars, spendCalls, reportVars
<1> QED
    BY <1>1, <1>8, <1>9, <1>10, Stay DEF PaymentInv, TypeOK

\* The page shows the answer, with the fee of its PSBT.
LEMMA DeliverPsbtStep ==
    ASSUME PaymentInv, NEW c \in psbtCalls, DeliverPsbt(c)
    PROVE  PaymentInv'
<1>1. /\ c.reply # Pending /\ psbtCalls' = psbtCalls \ {c}
      /\ UNCHANGED <<fromAddress, desiredAmount>> /\ UNCHANGED windowVars /\ calls' = calls
      /\ UNCHANGED spendCalls /\ UNCHANGED <<nodeVars, submitted>>
    BY DEF DeliverPsbt
<1>2. /\ PageTypes /\ ResultTypes /\ CallTypes /\ FeesAgree /\ SuccessIsOfAccepted
      /\ UNCHANGED accepted
    BY <1>1 DEF PaymentInv, TypeOK, nodeVars
<1>3. c.reply \in Reply /\ c.desired \in Nat
    <2>1. c \in [id : 1 .. calls, from : Address, desired : Amount, reply : Reply \cup {Pending}]
        BY <1>2 DEF CallTypes
    <2> QED
        BY <1>1, <2>1, SpendAssumption
<1>4. /\ c.reply.psbt \in Txn /\ c.reply.actualAmount \in Nat /\ c.reply.error \in BOOLEAN
    BY <1>3 DEF Reply, Txn
<1>5. CallTypes'
    BY <1>1, <1>2 DEF CallTypes
<1>6. PageTypes' /\ ResultTypes' /\ FeesAgree' /\ SuccessIsOfAccepted' /\ ErrorHidesSuccess'
    <2>1. CASE c.reply.status = 200
        <3>1. /\ psbtHex' = c.reply.psbt /\ actualAmount' = c.reply.actualAmount
              /\ fee' = c.reply.actualAmount - c.desired
              /\ decodedTransaction' = NoPsbt /\ signedTransactionHex' = NoPsbt
              /\ SetError(c.reply.error)
            BY <2>1 DEF DeliverPsbt
        <3>2. PageTypes'
            BY <1>1, <1>2, <1>3, <1>4, <3>1 DEF PageTypes
        <3>3. /\ lastError' \in BOOLEAN /\ success' \in Txn
              /\ SuccessIsOfAccepted' /\ ErrorHidesSuccess'
            BY <1>2, <1>4, <3>1, SetErrorReports
        <3>4. ResultTypes'
            BY <3>1, <3>3 DEF ResultTypes, Txn
        <3>5. psbtHex' # NoPsbt => FeeOf(psbtHex') = fee'
            BY <1>1, <1>2, <3>1 DEF FeesAgree
        <3>6. FeesAgree'
            BY <1>1, <1>2, <3>5 DEF FeesAgree
        <3> QED
            BY <3>2, <3>3, <3>4, <3>6
    <2>2. CASE c.reply.status # 200
        <3>1. SetError(TRUE) /\ UNCHANGED <<psbtHex, actualAmount, fee>> /\ UNCHANGED resultVars
            BY <2>2 DEF DeliverPsbt
        <3>2. PageTypes'
            BY <1>1, <1>2, <3>1 DEF PageTypes
        <3>3. /\ lastError' \in BOOLEAN /\ success' \in Txn
              /\ SuccessIsOfAccepted' /\ ErrorHidesSuccess'
            BY <1>2, <3>1, SetErrorReports
        <3>4. ResultTypes'
            BY <1>2, <3>1, <3>3 DEF ResultTypes, resultVars
        <3>5. FeesAgree'
            BY <1>1, <1>2, <3>1 DEF FeesAgree
        <3> QED
            BY <3>2, <3>3, <3>4, <3>5
    <2> QED
        BY <2>1, <2>2
<1>7. UNCHANGED <<spendCalls, launches>> /\ UNCHANGED <<accepted, submitted>>
      /\ UNCHANGED <<windowVars, broadcastCalls, accepted, submitted>>
    BY <1>1 DEF windowVars, nodeVars, spendCalls
<1> QED
    BY <1>1, <1>5, <1>6, <1>7, Stay DEF PaymentInv, TypeOK

\* What a window is given and what it posts.
LEMMA WindowsAre ==
    ASSUME WindowTypes
    PROVE  /\ window # None /\ window.kind = "sign" =>
                  window.psbt \in Txn /\ window.from \in Address \cup {None}
           /\ message # None /\ message.kind = "login" => message.address \in Address \cup {None}
           /\ message # None /\ message.kind = "sign" => message.psbt \in Psbt
<1>1. window # None /\ window.kind = "sign" =>
          window.psbt \in Txn /\ window.from \in Address \cup {None}
    BY DEF WindowTypes
<1>2. message # None /\ message.kind = "login" => message.address \in Address \cup {None}
    BY DEF WindowTypes
<1>3. message # None /\ message.kind = "sign" => message.psbt \in Psbt
    BY DEF WindowTypes
<1> QED
    BY <1>1, <1>2, <1>3

\* Opening a window keeps what is under way.
LEMMA LaunchKeepsTypes ==
    ASSUME PaymentInv, NEW w, Launch(w), UNCHANGED spendCalls,
           w \in {[kind |-> "login"]}
                 \cup [kind : {"sign"}, psbt : Txn, from : Address \cup {None}]
    PROVE  WindowTypes' /\ SpendTypes' /\ launches' # 0
<1>1. /\ window' = w /\ launches < MaxLaunches /\ launches' = launches + 1
      /\ UNCHANGED <<wallet, message>>
    BY DEF Launch
<1>2. WindowTypes /\ SpendTypes
    BY DEF PaymentInv, TypeOK
<1>3. launches' \in 0 .. MaxLaunches /\ launches' # 0 /\ 1 .. launches \subseteq 1 .. launches'
    BY <1>1, <1>2, SpendAssumption DEF WindowTypes
<1>4. WindowTypes'
    BY <1>1, <1>2, <1>3 DEF WindowTypes
<1>5. SpendTypes'
    <2>1. UNCHANGED <<decodeCalls, broadcastCalls>>
        BY DEF spendCalls
    <2>2. decodeCalls \subseteq [id : 1 .. launches', txn : Psbt]
        BY <1>2, <1>3 DEF SpendTypes
    <2>3. broadcastCalls \subseteq [id : 1 .. launches', txn : Psbt, outcome : Outcome]
        BY <1>2, <1>3 DEF SpendTypes
    <2> QED
        BY <2>1, <2>2, <2>3 DEF SpendTypes
<1> QED
    BY <1>3, <1>4, <1>5

\* A login window is opened.
LEMMA LaunchLoginStep == PaymentInv /\ LaunchLogin => PaymentInv'
<1> SUFFICES ASSUME PaymentInv, LaunchLogin PROVE PaymentInv'
    OBVIOUS
<1>1. /\ Launch([kind |-> "login"]) /\ UNCHANGED pageVars /\ UNCHANGED <<resultVars, reportVars>>
      /\ UNCHANGED callVars /\ UNCHANGED spendCalls /\ UNCHANGED <<nodeVars, submitted>>
    BY DEF LaunchLogin
<1>2. WindowTypes' /\ SpendTypes' /\ launches' # 0
    BY <1>1, LaunchKeepsTypes
<1>3. SignedIsAgreed'
    <2>1. window' = [kind |-> "login"] /\ UNCHANGED <<message, broadcastCalls, accepted, submitted>>
        BY <1>1 DEF Launch, spendCalls, nodeVars
    <2>2. SignedIsAgreed
        BY DEF PaymentInv
    <2> QED
        BY <1>2, <2>1, <2>2 DEF SignedIsAgreed, OpenFor, Agreed, AgreedFrom
<1>4. /\ UNCHANGED <<psbtCalls, psbtHex, actualAmount, fee>> /\ UNCHANGED <<accepted, submitted>>
      /\ UNCHANGED <<accepted, success>> /\ UNCHANGED reportVars
    BY <1>1 DEF pageVars, callVars, nodeVars, reportVars
<1> QED
    BY <1>1, <1>2, <1>3, <1>4, Stay DEF PaymentInv, TypeOK

\* What more was agreed to leaves agreed what was.
LEMMA AgreedStays ==
    ASSUME submitted \subseteq submitted'
    PROVE  \A p : /\ Agreed(p) => Agreed(p)'
                  /\ \A from : AgreedFrom(p, from) => AgreedFrom(p, from)'
BY DEF Agreed, AgreedFrom

\* A sign window is opened: what it is given, the user agreed to at the fee shown.
LEMMA LaunchSignStep == PaymentInv /\ LaunchSign => PaymentInv'
<1> SUFFICES ASSUME PaymentInv, LaunchSign PROVE PaymentInv'
    OBVIOUS
<1> DEFINE w == [kind |-> "sign", psbt |-> psbtHex, from |-> fromAddress]
           agreed == [psbt |-> psbtHex, fee |-> fee, from |-> fromAddress]
<1>1. /\ actualAmount # 0 /\ Launch(w) /\ submitted' = submitted \cup {agreed}
      /\ UNCHANGED pageVars /\ UNCHANGED <<resultVars, reportVars>>
      /\ UNCHANGED callVars /\ UNCHANGED spendCalls /\ UNCHANGED nodeVars
    BY DEF LaunchSign
<1>2. /\ PageTypes /\ NodeTypes /\ FeesAgree /\ SignedIsAgreed
    BY DEF PaymentInv, TypeOK
<1>3. /\ psbtHex \in Txn /\ (psbtHex # NoPsbt => FeeOf(psbtHex) = fee)
      /\ fee \in Int /\ fromAddress \in Address \cup {None}
    BY <1>1, <1>2 DEF FeesAgree, PageTypes
<1>4. WindowTypes' /\ SpendTypes' /\ launches' # 0
    <2>1. w \in [kind : {"sign"}, psbt : Txn, from : Address \cup {None}]
        BY <1>3
    <2> HIDE DEF w
    <2> QED
        BY <1>1, <2>1, LaunchKeepsTypes
<1>5. NodeTypes'
    <2>1. agreed \in [psbt : Txn, fee : Int, from : Address \cup {None}]
        BY <1>3
    <2> HIDE DEF agreed
    <2> QED
        BY <1>1, <1>2, <2>1 DEF NodeTypes, nodeVars
<1>6. submitted \subseteq submitted'
    BY <1>1
<1>7. SignedIsAgreed'
    <2>1. window' = w /\ UNCHANGED <<message, broadcastCalls, accepted>>
        BY <1>1 DEF Launch, spendCalls, nodeVars
    <2>2. w.psbt = psbtHex /\ w.from = fromAddress
        OBVIOUS
    <2>3. psbtHex # NoPsbt => agreed = [psbt |-> psbtHex, fee |-> FeeOf(psbtHex), from |-> fromAddress]
        BY <1>3
    <2> HIDE DEF w
    <2>5. window'.psbt # NoPsbt => AgreedFrom(window.psbt, window.from)'
        BY <1>1, <2>1, <2>2, <2>3 DEF AgreedFrom
    <2>6. message' # None /\ message'.kind = "sign" => Agreed(message.psbt)'
        BY <1>2, <1>6, <2>1 DEF SignedIsAgreed, Agreed, AgreedFrom
    <2>7. \A c \in broadcastCalls' : Agreed(c.txn)' /\ (c.outcome = "accepted" => c.txn \in accepted')
        BY <1>2, <1>6, <2>1 DEF SignedIsAgreed, Agreed, AgreedFrom
    <2>8. \A t \in accepted' : Agreed(t)'
        BY <1>2, <1>6, <2>1 DEF SignedIsAgreed, Agreed, AgreedFrom
    <2> QED
        BY <1>4, <2>5, <2>6, <2>7, <2>8 DEF SignedIsAgreed
<1>9. /\ UNCHANGED <<psbtCalls, psbtHex, actualAmount, fee>>
      /\ UNCHANGED <<accepted, success>> /\ UNCHANGED reportVars
    BY <1>1 DEF pageVars, callVars, nodeVars, reportVars
<1> QED
    BY <1>1, <1>4, <1>5, <1>7, <1>9, Stay DEF PaymentInv, TypeOK

\* A step of the windows alone.
LEMMA WindowStep ==
    ASSUME PaymentInv, WindowTypes', UNCHANGED launches, UNCHANGED pageVars,
           UNCHANGED <<resultVars, reportVars>>, UNCHANGED callVars, UNCHANGED spendCalls,
           UNCHANGED <<nodeVars, submitted>>,
           window' # None \/ message' # None => launches # 0,
           OpenFor("sign")' /\ window'.psbt # NoPsbt => AgreedFrom(window'.psbt, window'.from),
           message' # None /\ message'.kind = "sign" => Agreed(message'.psbt)
    PROVE  PaymentInv'
<1>1. SignedIsAgreed'
    <2>1. SignedIsAgreed /\ UNCHANGED <<launches, broadcastCalls, accepted, submitted>>
        BY DEF PaymentInv, spendCalls, nodeVars
    <2> QED
        BY <2>1 DEF SignedIsAgreed, OpenFor, Agreed, AgreedFrom
<1>2. /\ UNCHANGED <<psbtCalls, psbtHex, actualAmount, fee>> /\ UNCHANGED <<accepted, submitted>>
      /\ UNCHANGED <<accepted, success>> /\ UNCHANGED reportVars /\ UNCHANGED <<spendCalls, launches>>
    BY DEF pageVars, callVars, nodeVars, reportVars
<1> QED
    BY <1>1, <1>2, Stay DEF PaymentInv, TypeOK

\* The page is told an address of the wallet, or none.
LEMMA FirstAddressIs ==
    ASSUME NEW w \in Wallet
    PROVE  FirstAddress(w) \in Address \cup {None}
<1> DEFINE S == SingleAddress(w)
           k == CHOOSE i \in S : \A j \in S : i <= j
<1>1. w \in Seq(Account)
    BY SpendAssumption
<1>2. S \subseteq 1 .. Len(w) /\ S \subseteq Nat
    BY <1>1 DEF SingleAddress
<1>3. CASE S # {}
    <2>1. k \in S
        <3> HIDE DEF S
        <3>1. \E i \in S : \A j \in S : i <= j
            BY <1>2, <1>3, LeastNatural
        <3> QED
            BY <3>1, Zenon
    <2>2. FirstAddress(w) = w[k].address
        BY <1>3, Zenon DEF FirstAddress
    <2> HIDE DEF k, S
    <2>3. w[k] \in Account
        BY <1>1, <1>2, <2>1
    <2> QED
        BY <2>2, <2>3 DEF Account
<1>4. CASE S = {}
    BY <1>4 DEF FirstAddress
<1> QED
    BY <1>3, <1>4

\* A wallet is saved, and its addresses posted if they can be read.
LEMMA SaveWalletStep ==
    ASSUME PaymentInv, NEW w \in Wallet, SaveWallet(w)
    PROVE  PaymentInv'
<1>1. /\ OpenFor("login") /\ wallet' = w
      /\ message' = IF GetAddressesThrows(w) THEN None
                    ELSE [kind |-> "login", address |-> FirstAddress(w)]
      /\ UNCHANGED <<launches, window>> /\ UNCHANGED pageVars /\ UNCHANGED <<resultVars, reportVars>>
      /\ UNCHANGED callVars /\ UNCHANGED spendCalls /\ UNCHANGED <<nodeVars, submitted>>
    BY DEF SaveWallet
<1>2. WindowTypes /\ SignedIsAgreed
    BY DEF PaymentInv, TypeOK
<1>3. message' \in {None} \cup [kind : {"login"}, address : Address \cup {None}]
    <2>1. FirstAddress(w) \in Address \cup {None}
        BY FirstAddressIs
    <2> QED
        BY <1>1, <2>1
<1>4. WindowTypes'
    BY <1>1, <1>2, <1>3 DEF WindowTypes
<1>5. /\ window' # None \/ message' # None => launches # 0
      /\ OpenFor("sign")' /\ window'.psbt # NoPsbt => AgreedFrom(window'.psbt, window'.from)
      /\ message' # None /\ message'.kind = "sign" => Agreed(message'.psbt)
    BY <1>1, <1>2, <1>3 DEF SignedIsAgreed, OpenFor
<1> QED
    BY <1>1, <1>4, <1>5, WindowStep

\* What is signed is what the window was given.
LEMMA SignTransactionStep == PaymentInv /\ SignTransaction => PaymentInv'
<1> SUFFICES ASSUME PaymentInv, SignTransaction PROVE PaymentInv'
    OBVIOUS
<1>1. /\ OpenFor("sign") /\ message' = [kind |-> "sign", psbt |-> window.psbt]
      /\ window.psbt # NoPsbt /\ OwnedBy(window.psbt, window.from)
      /\ UNCHANGED <<wallet, launches, window>> /\ UNCHANGED pageVars
      /\ UNCHANGED <<resultVars, reportVars>>
      /\ UNCHANGED callVars /\ UNCHANGED spendCalls /\ UNCHANGED <<nodeVars, submitted>>
    BY DEF SignTransaction
<1>2. WindowTypes /\ SignedIsAgreed
    BY DEF PaymentInv, TypeOK
<1>3. window.psbt \in Psbt /\ Agreed(window.psbt)
    <2>1. window.psbt \in Psbt
        BY <1>1, <1>2, WindowsAre DEF OpenFor, Txn
    <2>2. window.from \in Address
        BY <1>1 DEF OwnedBy
    <2> QED
        BY <1>1, <1>2, <2>1, <2>2 DEF SignedIsAgreed, Agreed
<1>4. WindowTypes'
    <2>1. message' \in [kind : {"sign"}, psbt : Psbt]
        BY <1>1, <1>3
    <2> QED
        BY <1>1, <1>2, <2>1 DEF WindowTypes
<1>5. /\ window' # None \/ message' # None => launches # 0
      /\ OpenFor("sign")' /\ window'.psbt # NoPsbt => AgreedFrom(window'.psbt, window'.from)
      /\ message' # None /\ message'.kind = "sign" => Agreed(message'.psbt)
    BY <1>1, <1>2, <1>3 DEF SignedIsAgreed, OpenFor
<1> QED
    BY <1>1, <1>4, <1>5, WindowStep

\* The user closes the window.
LEMMA CloseWindowStep == PaymentInv /\ CloseWindow => PaymentInv'
<1> SUFFICES ASSUME PaymentInv, CloseWindow PROVE PaymentInv'
    OBVIOUS
<1>1. /\ message = None /\ window' = None
      /\ UNCHANGED <<wallet, launches, message>> /\ UNCHANGED pageVars
      /\ UNCHANGED <<resultVars, reportVars>>
      /\ UNCHANGED callVars /\ UNCHANGED spendCalls /\ UNCHANGED <<nodeVars, submitted>>
    BY DEF CloseWindow
<1>2. WindowTypes
    BY DEF PaymentInv, TypeOK
<1>3. WindowTypes'
    BY <1>1, <1>2 DEF WindowTypes
<1>4. window' = None /\ message' = None /\ ~OpenFor("sign")'
    BY <1>1 DEF OpenFor
<1> QED
    BY <1>1, <1>3, <1>4, WindowStep

\* The page takes the first address of the wallet.
LEMMA HandleLoginStep == PaymentInv /\ HandleLogin => PaymentInv'
<1> SUFFICES ASSUME PaymentInv, HandleLogin PROVE PaymentInv'
    OBVIOUS
<1>1. /\ message # None /\ message.kind = "login"
      /\ fromAddress' = message.address
      /\ window' = None /\ message' = None
      /\ UNCHANGED <<desiredAmount, psbtHex, actualAmount, fee>>
      /\ UNCHANGED <<resultVars, reportVars>> /\ UNCHANGED <<wallet, launches>>
      /\ UNCHANGED callVars /\ UNCHANGED spendCalls /\ UNCHANGED <<nodeVars, submitted>>
    BY DEF HandleLogin
<1>2. PageTypes /\ WindowTypes /\ SignedIsAgreed
    BY DEF PaymentInv, TypeOK
<1>3. PageTypes'
    <2>1. fromAddress' \in Address \cup {None}
        BY <1>1, <1>2, WindowsAre
    <2> QED
        BY <1>1, <1>2, <2>1 DEF PageTypes
<1>4. WindowTypes'
    BY <1>1, <1>2 DEF WindowTypes
<1>5. SignedIsAgreed'
    <2>1. UNCHANGED <<broadcastCalls, accepted, submitted>>
        BY <1>1 DEF spendCalls, nodeVars
    <2> QED
        BY <1>1, <1>2, <2>1 DEF SignedIsAgreed, OpenFor, Agreed, AgreedFrom
<1>6. /\ UNCHANGED <<psbtCalls, psbtHex, actualAmount, fee>> /\ UNCHANGED <<accepted, submitted>>
      /\ UNCHANGED <<accepted, success>> /\ UNCHANGED reportVars /\ UNCHANGED <<spendCalls, launches>>
    BY <1>1 DEF callVars, nodeVars, reportVars
<1> QED
    BY <1>1, <1>3, <1>4, <1>5, <1>6, Stay DEF PaymentInv, TypeOK

\* What is sent to be decoded and broadcast is what was signed.
LEMMA HandleSignedStep == PaymentInv /\ HandleSigned => PaymentInv'
<1> SUFFICES ASSUME PaymentInv, HandleSigned PROVE PaymentInv'
    OBVIOUS
<1> DEFINE d == [id |-> launches, txn |-> message.psbt]
           b == [id |-> launches, txn |-> message.psbt, outcome |-> Pending]
<1>1. /\ message # None /\ message.kind = "sign" /\ signedTransactionHex' = message.psbt
      /\ decodeCalls' = decodeCalls \cup {d} /\ broadcastCalls' = broadcastCalls \cup {b}
      /\ window' = None /\ message' = None
      /\ UNCHANGED pageVars /\ UNCHANGED decodedTransaction /\ UNCHANGED reportVars
      /\ UNCHANGED <<wallet, launches>> /\ UNCHANGED callVars /\ UNCHANGED nodeVars
      /\ UNCHANGED submitted
    BY DEF HandleSigned
<1>2. WindowTypes /\ ResultTypes /\ SpendTypes /\ SignedIsAgreed
    BY DEF PaymentInv, TypeOK
<1>3. message.psbt \in Psbt /\ launches \in 1 .. launches /\ Agreed(message.psbt)
    <2>1. message.psbt \in Psbt
        BY <1>1, <1>2, WindowsAre
    <2>2. launches \in Nat /\ launches # 0
        BY <1>1, <1>2, SpendAssumption DEF WindowTypes, SignedIsAgreed
    <2> QED
        BY <1>1, <1>2, <2>1, <2>2 DEF SignedIsAgreed
<1>4. WindowTypes'
    BY <1>1, <1>2 DEF WindowTypes
<1>5. ResultTypes'
    BY <1>1, <1>2, <1>3 DEF ResultTypes, reportVars, Txn
<1>6. /\ d \in [id : 1 .. launches, txn : Psbt]
      /\ b \in [id : 1 .. launches, txn : Psbt, outcome : Outcome]
      /\ b.txn = message.psbt /\ b.outcome = Pending
    BY <1>3 DEF Outcome
<1> HIDE DEF d, b
<1>7. SpendTypes'
    BY <1>1, <1>2, <1>6 DEF SpendTypes
<1>8. SignedIsAgreed'
    <2>1. UNCHANGED <<accepted, submitted>>
        BY <1>1 DEF nodeVars
    <2>2. Agreed(b.txn) /\ b.outcome # "accepted"
        BY <1>3, <1>6, PendingAssumption
    <2>3. \A c \in broadcastCalls' : Agreed(c.txn) /\ (c.outcome = "accepted" => c.txn \in accepted)
        BY <1>1, <1>2, <2>2 DEF SignedIsAgreed
    <2> QED
        BY <1>1, <1>2, <2>1, <2>3 DEF SignedIsAgreed, OpenFor, Agreed, AgreedFrom
<1>9. /\ UNCHANGED <<psbtCalls, psbtHex, actualAmount, fee>> /\ UNCHANGED <<accepted, submitted>>
      /\ UNCHANGED <<accepted, success>> /\ UNCHANGED <<nodeVars, submitted>>
    BY <1>1 DEF pageVars, callVars, nodeVars, reportVars
<1> QED
    BY <1>1, <1>4, <1>5, <1>7, <1>8, <1>9, Stay DEF PaymentInv, TypeOK

\* A decoded transaction, or an error, is shown.
LEMMA DeliverDecodedStep ==
    ASSUME PaymentInv, NEW c \in decodeCalls, DeliverDecoded(c)
    PROVE  PaymentInv'
<1>1. /\ decodeCalls' = decodeCalls \ {c}
      /\ \/ decodedTransaction' = c.txn /\ UNCHANGED reportVars
         \/ SetError(TRUE) /\ UNCHANGED decodedTransaction
      /\ UNCHANGED pageVars /\ UNCHANGED signedTransactionHex /\ UNCHANGED windowVars
      /\ UNCHANGED callVars /\ UNCHANGED broadcastCalls /\ UNCHANGED <<nodeVars, submitted>>
    BY DEF DeliverDecoded
<1>2. /\ ResultTypes /\ SpendTypes /\ SuccessIsOfAccepted /\ ErrorHidesSuccess
      /\ UNCHANGED accepted /\ UNCHANGED launches
    BY <1>1 DEF PaymentInv, TypeOK, nodeVars, windowVars
<1>3. SpendTypes'
    BY <1>1, <1>2 DEF SpendTypes
<1>4. c.txn \in Txn
    BY <1>2 DEF SpendTypes, Txn
<1>5. ResultTypes' /\ SuccessIsOfAccepted' /\ ErrorHidesSuccess'
    <2>1. CASE decodedTransaction' = c.txn /\ UNCHANGED reportVars
        <3>1. UNCHANGED <<lastError, success>>
            BY <2>1 DEF reportVars
        <3> QED
            BY <1>1, <1>2, <1>4, <2>1, <3>1
            DEF ResultTypes, SuccessIsOfAccepted, ErrorHidesSuccess
    <2>2. CASE SetError(TRUE) /\ UNCHANGED decodedTransaction
        <3>1. /\ lastError' \in BOOLEAN /\ success' \in Txn
              /\ SuccessIsOfAccepted' /\ ErrorHidesSuccess'
            BY <1>2, <2>2, SetErrorReports
        <3> QED
            BY <1>1, <1>2, <2>2, <3>1 DEF ResultTypes
    <2> QED
        BY <1>1, <2>1, <2>2
<1>6. /\ UNCHANGED <<psbtCalls, psbtHex, actualAmount, fee>> /\ UNCHANGED <<accepted, submitted>>
      /\ UNCHANGED <<windowVars, broadcastCalls, accepted, submitted>>
    BY <1>1 DEF pageVars, callVars, nodeVars
<1> QED
    BY <1>1, <1>3, <1>5, <1>6, Stay DEF PaymentInv, TypeOK

\* The node takes the transaction, or does not.
LEMMA HandleBroadcastStep ==
    ASSUME PaymentInv, NEW c \in broadcastCalls, HandleBroadcast(c)
    PROVE  PaymentInv'
<1>1. /\ UNCHANGED pageVars /\ UNCHANGED <<resultVars, reportVars>> /\ UNCHANGED windowVars
      /\ UNCHANGED callVars /\ UNCHANGED decodeCalls /\ UNCHANGED submitted
    BY DEF HandleBroadcast
<1>2. /\ NodeTypes /\ SpendTypes /\ SignedIsAgreed /\ SuccessIsOfAccepted
      /\ UNCHANGED <<launches, window, message, success>>
    BY <1>1 DEF PaymentInv, TypeOK, windowVars, reportVars
<1>3. /\ c \in [id : 1 .. launches, txn : Psbt, outcome : Outcome]
      /\ c.txn \in Psbt /\ Agreed(c.txn)
    BY <1>2 DEF SpendTypes, SignedIsAgreed
<1>4. PICK outcome \in {"accepted", "failed"} :
          /\ broadcastCalls' = (broadcastCalls \ {c}) \cup {[c EXCEPT !.outcome = outcome]}
          /\ \/ /\ ledger' = [a \in Address |-> Without(ledger[a], CoinsOf(c.txn.inputs))]
                /\ accepted' = accepted \cup {c.txn}
             \/ outcome = "failed" /\ UNCHANGED nodeVars
    BY DEF HandleBroadcast
<1> DEFINE b == [c EXCEPT !.outcome = outcome]
<1>5. /\ b \in [id : 1 .. launches, txn : Psbt, outcome : Outcome]
      /\ b.txn = c.txn /\ b.outcome = outcome
    BY <1>3 DEF Outcome
<1>6. broadcastCalls' = (broadcastCalls \ {c}) \cup {b}
    BY <1>4
<1> HIDE DEF b
<1>7. SpendTypes'
    BY <1>1, <1>2, <1>5, <1>6 DEF SpendTypes
<1>8. /\ ledger' \in [Address -> Seq(Coin)]
      /\ accepted \subseteq accepted' /\ accepted' \subseteq accepted \cup {c.txn}
      /\ outcome = "accepted" => c.txn \in accepted'
    <2>1. CASE /\ ledger' = [a \in Address |-> Without(ledger[a], CoinsOf(c.txn.inputs))]
               /\ accepted' = accepted \cup {c.txn}
        <3>1. \A a \in Address : Without(ledger[a], CoinsOf(c.txn.inputs)) \in Seq(Coin)
            <4>1. ASSUME NEW a \in Address
                  PROVE  Without(ledger[a], CoinsOf(c.txn.inputs)) \in Seq(Coin)
                <5>1. ledger[a] \in Seq(Coin)
                    BY <1>2 DEF NodeTypes
                <5> QED
                    BY <5>1, WithoutIsList
            <4> QED
                BY <4>1
        <3>2. ledger' \in [Address -> Seq(Coin)]
            BY <2>1, <3>1
        <3> QED
            BY <2>1, <3>2
    <2>2. CASE outcome = "failed" /\ UNCHANGED nodeVars
        BY <1>2, <2>2 DEF nodeVars, NodeTypes
    <2> QED
        BY <1>4, <2>1, <2>2
<1>9. NodeTypes'
    BY <1>1, <1>2, <1>3, <1>8 DEF NodeTypes
<1>10. SignedIsAgreed'
    <2>1. \A e \in broadcastCalls' : Agreed(e.txn) /\ (e.outcome = "accepted" => e.txn \in accepted')
        BY <1>2, <1>3, <1>5, <1>6, <1>8 DEF SignedIsAgreed
    <2>2. \A t \in accepted' : Agreed(t)
        BY <1>2, <1>3, <1>8 DEF SignedIsAgreed
    <2> QED
        BY <1>1, <1>2, <2>1, <2>2 DEF SignedIsAgreed, OpenFor, Agreed, AgreedFrom
<1>12. SuccessIsOfAccepted'
    BY <1>2, <1>8 DEF SuccessIsOfAccepted
<1>13. UNCHANGED <<psbtCalls, psbtHex, actualAmount, fee>> /\ UNCHANGED reportVars
    BY <1>1 DEF pageVars, callVars
<1> QED
    BY <1>1, <1>7, <1>9, <1>10, <1>12, <1>13, Stay DEF PaymentInv, TypeOK

\* A success is shown only for what the node accepted, and hides the error.
LEMMA DeliverBroadcastStep ==
    ASSUME PaymentInv, NEW c \in broadcastCalls, DeliverBroadcast(c)
    PROVE  PaymentInv'
<1>1. /\ broadcastCalls' = broadcastCalls \ {c}
      /\ IF c.outcome = "accepted" THEN lastError' = FALSE /\ success' = c.txn ELSE SetError(TRUE)
      /\ UNCHANGED pageVars /\ UNCHANGED resultVars /\ UNCHANGED windowVars
      /\ UNCHANGED callVars /\ UNCHANGED decodeCalls /\ UNCHANGED <<nodeVars, submitted>>
    BY DEF DeliverBroadcast
<1>2. /\ ResultTypes /\ SpendTypes /\ SignedIsAgreed /\ SuccessIsOfAccepted
      /\ UNCHANGED <<accepted, submitted>> /\ UNCHANGED <<launches, window, message>>
    BY <1>1 DEF PaymentInv, TypeOK, nodeVars, windowVars
<1>3. SpendTypes'
    BY <1>1, <1>2 DEF SpendTypes
<1>4. c.txn \in Txn /\ (c.outcome = "accepted" => c.txn \in accepted)
    BY <1>2 DEF SpendTypes, SignedIsAgreed, Txn
<1>5. SignedIsAgreed'
    BY <1>1, <1>2 DEF SignedIsAgreed, OpenFor, Agreed, AgreedFrom
<1>6. /\ lastError' \in BOOLEAN /\ success' \in Txn
      /\ SuccessIsOfAccepted' /\ ErrorHidesSuccess'
    <2>1. CASE c.outcome = "accepted"
        BY <1>1, <1>2, <1>4, <2>1 DEF SuccessIsOfAccepted, ErrorHidesSuccess
    <2>2. CASE c.outcome # "accepted"
        BY <1>1, <1>2, <2>2, SetErrorReports
    <2> QED
        BY <2>1, <2>2
<1>7. ResultTypes'
    BY <1>1, <1>2, <1>6 DEF ResultTypes, resultVars
<1>8. UNCHANGED <<psbtCalls, psbtHex, actualAmount, fee>>
    BY <1>1 DEF pageVars, callVars
<1> QED
    BY <1>1, <1>2, <1>3, <1>5, <1>6, <1>7, <1>8, Stay DEF PaymentInv, TypeOK

\* Every step of the payment keeps the invariant.
LEMMA NextPayment == PaymentInv /\ [Next]_vars => PaymentInv'
<1> SUFFICES ASSUME PaymentInv, [Next]_vars PROVE PaymentInv'
    OBVIOUS
<1>1. CASE UNCHANGED vars
    <2>1. /\ UNCHANGED pageVars /\ UNCHANGED <<resultVars, reportVars>> /\ UNCHANGED windowVars
          /\ UNCHANGED callVars /\ UNCHANGED spendCalls /\ UNCHANGED <<nodeVars, submitted>>
        BY <1>1 DEF vars
    <2>2. /\ UNCHANGED <<psbtCalls, psbtHex, actualAmount, fee>> /\ UNCHANGED <<accepted, submitted>>
          /\ UNCHANGED <<accepted, success>> /\ UNCHANGED reportVars
          /\ UNCHANGED <<spendCalls, launches>>
          /\ UNCHANGED <<windowVars, broadcastCalls, accepted, submitted>>
        BY <2>1 DEF pageVars, callVars, nodeVars, reportVars, windowVars, spendCalls
    <2> QED
        BY <2>1, <2>2, Stay DEF PaymentInv, TypeOK
<1>2. CASE \E amount \in Amount : UpdatePsbt(amount)
    BY <1>2, UpdatePsbtStep
<1>3. CASE \E c \in psbtCalls : HandleGetPsbt(c) \/ DeliverPsbt(c)
    BY <1>3, HandleGetPsbtStep, DeliverPsbtStep
<1>4. CASE LaunchLogin \/ LaunchSign
    BY <1>4, LaunchLoginStep, LaunchSignStep
<1>5. CASE \E w \in Wallet : SaveWallet(w)
    BY <1>5, SaveWalletStep
<1>6. CASE SignTransaction \/ CloseWindow \/ HandleLogin \/ HandleSigned
    BY <1>6, SignTransactionStep, CloseWindowStep, HandleLoginStep, HandleSignedStep
<1>7. CASE \E c \in decodeCalls : DeliverDecoded(c)
    BY <1>7, DeliverDecodedStep
<1>8. CASE \E c \in broadcastCalls : HandleBroadcast(c) \/ DeliverBroadcast(c)
    BY <1>8, HandleBroadcastStep, DeliverBroadcastStep
<1> QED
    BY <1>1, <1>2, <1>3, <1>4, <1>5, <1>6, <1>7, <1>8 DEF Next

\* Every reachable state of a payment satisfies the invariant.
THEOREM PaymentInvariant == Spec => []PaymentInv
<1> QED
    BY InitPayment, NextPayment, PTL DEF Spec

\* Every field of the page, every message and every request has its type.
THEOREM PaymentTypes == Spec => []TypeOK
<1>1. PaymentInv => TypeOK
    BY DEF PaymentInv
<1> QED
    BY <1>1, PaymentInvariant, PTL

\* Whatever order answers come in, the node is paid what the user agreed to, at
\* the fee the page showed.
THEOREM PaysAsShown == Spec => []PaidAsShown
<1>1. PaymentInv => PaidAsShown
    BY DEF PaymentInv, SignedIsAgreed, Agreed, AgreedFrom, PaidAsShown
<1> QED
    BY <1>1, PaymentInvariant, PTL

\* And it is paid from the address the page showed when the user agreed, whichever
\* wallets have been saved, and whatever their accounts.
THEOREM PaysFromAddressShown == Spec => []SpendsFromAddressShown
<1>1. PaymentInv => SpendsFromAddressShown
    BY DEF PaymentInv, SignedIsAgreed, Agreed, AgreedFrom, SpendsFromAddressShown
<1> QED
    BY <1>1, PaymentInvariant, PTL

\* "I think it worked" is said only of what the node accepted.
THEOREM SuccessIsTrue == Spec => []SuccessIsOfAccepted
<1>1. PaymentInv => SuccessIsOfAccepted
    BY DEF PaymentInv
<1> QED
    BY <1>1, PaymentInvariant, PTL

\* An error and a success are never shown together (setError).
THEOREM ErrorsHideSuccess == Spec => []ErrorHidesSuccess
<1>1. PaymentInv => ErrorHidesSuccess
    BY DEF PaymentInv
<1> QED
    BY <1>1, PaymentInvariant, PTL
=============================================================================
