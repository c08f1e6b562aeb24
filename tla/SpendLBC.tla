------------------------------- MODULE SpendLBC -------------------------------
(***************************************************************************)
(* A payment from the demo app: the page asks the backend for a PSBT,      *)
(* shows it with its fee, has an identity window sign it with the wallet   *)
(* kept there, and then asks the backend to decode and to broadcast the    *)
(* signed transaction.  Nothing stops the user from going on while answers *)
(* are under way, and answers arrive in any order.                         *)
(*                                                                         *)
(* The backend's answers are those of PsbtService.  A signed transaction   *)
(* is named by its PSBT.  Amounts have no more places than the daemon is   *)
(* given (BackendPsbt shows what happens otherwise), and the user opens a  *)
(* window only after closing the one before (IdentityChannel shows what    *)
(* happens otherwise).                                                     *)
(***************************************************************************)
EXTENDS PsbtService, FiniteSets

CONSTANTS
    Address,
    InitialCoins,   \* the unspent outputs of every address
    Wallet,         \* the wallets the user may save
    Amount,         \* the amounts the user asks for
    Pending,
    None,
    MaxCalls,       \* bound: PSBTs asked for
    MaxLaunches     \* bound: windows opened

\* An account of a wallet: the address of its key, what generates its addresses
\* ("none" if nothing is said), and whether the key signs, only verifies, or is
\* no key at all.
Account == [address   : Address,
            generator : {"single-address", "deterministic-chain", "none"},
            key       : {"private", "public", "invalid"}]

ASSUME SpendAssumption ==
    /\ InitialCoins \in [Address -> Seq(Coin)]
    /\ Wallet \subseteq Seq(Account)
    /\ Amount \subseteq Nat
    /\ MaxCalls \in Nat /\ MaxLaunches \in Nat
ASSUME PendingAssumption == Pending \notin {"accepted", "failed"}

Outcome == {Pending, "accepted", "failed"}

VARIABLES
    ledger,           \* the node's unspent outputs
    wallet,           \* the wallet in the identity site's storage
    launches,         \* number of windows opened
    window,           \* the open window
    message,          \* the login message on its way to the app
    fromAddress,      \* and the fields of the page
    desiredAmount,
    psbtHex, actualAmount, fee,
    signedTransactionHex, decodedTransaction,
    lastError, success,
    calls,            \* number of PSBTs asked for
    psbtCalls,        \* requests under way, or their answers
    decodeCalls, broadcastCalls,
    submitted,        \* history: what the user agreed to
    accepted          \* history: transactions the node accepted

pageVars    == <<fromAddress, desiredAmount, psbtHex, actualAmount, fee>>
resultVars  == <<signedTransactionHex, decodedTransaction>>
reportVars  == <<lastError, success>>
windowVars  == <<wallet, launches, window, message>>
callVars    == <<calls, psbtCalls>>
spendCalls  == <<decodeCalls, broadcastCalls>>
nodeVars    == <<ledger, accepted>>
vars == <<pageVars, resultVars, reportVars, windowVars, callVars, spendCalls, nodeVars, submitted>>

CoinsOf(coins)      == {coins[k] : k \in DOMAIN coins}
ValueOf(coins)      == Totals(coins)[Len(coins)]
OwnedBy(psbt, a)    == a \in Address /\ CoinsOf(psbt.inputs) \subseteq CoinsOf(InitialCoins[a])
FeeOf(psbt)         == ValueOf(psbt.inputs) - psbt.output

\* The accounts getAddresses reads the addresses of.
SingleAddress(w) == {k \in DOMAIN w : w[k].generator = "single-address"}

\* It throws at an account without a generator, and at one of those it reads whose
\* key is none.
GetAddressesThrows(w) ==
    \/ \E k \in DOMAIN w : w[k].generator = "none"
    \/ \E k \in SingleAddress(w) : w[k].key = "invalid"

\* The first of the addresses, all that the page uses.
FirstAddress(w) ==
    IF SingleAddress(w) = {} THEN None
    ELSE w[CHOOSE k \in SingleAddress(w) : \A j \in SingleAddress(w) : k <= j].address

\* getSigningKey looks at the keys of all accounts, whatever generates their
\* addresses, and takes the first that has the address.
HasSigningKey(w, a) ==
    /\ w # None
    /\ \A k \in DOMAIN w : w[k].key # "invalid"
    /\ \E k \in DOMAIN w :
           /\ w[k].address = a /\ w[k].key = "private"
           /\ \A j \in 1 .. k - 1 : w[j].address # a

\* The coins but those gone, in their order.
Without(coins, gone) ==
    LET w[k \in 0 .. Len(coins)] ==
            IF k = 0 THEN <<>>
            ELSE IF coins[k] \in gone THEN w[k - 1] ELSE Append(w[k - 1], coins[k])
    IN  w[Len(coins)]

Init ==
    /\ ledger = InitialCoins /\ accepted = {}
    /\ wallet = None /\ launches = 0 /\ window = None /\ message = None
    /\ fromAddress = None /\ desiredAmount = 0
    /\ psbtHex = NoPsbt /\ actualAmount = 0 /\ fee = 0
    /\ signedTransactionHex = NoPsbt /\ decodedTransaction = NoPsbt
    /\ lastError = FALSE /\ success = NoPsbt
    /\ calls = 0 /\ psbtCalls = {}
    /\ decodeCalls = {} /\ broadcastCalls = {}
    /\ submitted = {}

\* Faulty variant: an error leaves the success in place.
SetErrorOnly(err) ==
    /\ lastError' = err
    /\ UNCHANGED success

\* setError: an error hides the success; no error hides the error.
SetError(err) ==
    /\ lastError' = err
    /\ success' = IF err THEN NoPsbt ELSE success

----------------------------------------------------------------------------
(* Asking for a PSBT *)

\* Faulty variant: the button is there before an address is.
UpdatePsbtAtOnce(amount) ==
    /\ calls < MaxCalls
    /\ calls' = calls + 1
    /\ desiredAmount' = amount
    /\ psbtCalls' = psbtCalls \cup
           {[id |-> calls', from |-> fromAddress, desired |-> amount, reply |-> Pending]}
    /\ UNCHANGED <<fromAddress, psbtHex, actualAmount, fee, resultVars, reportVars, windowVars,
                   spendCalls, nodeVars, submitted>>

\* updatePsbt, of the amount in the field.
UpdatePsbt(amount) ==
    /\ fromAddress # None
    /\ calls < MaxCalls
    /\ calls' = calls + 1
    /\ desiredAmount' = amount
    /\ psbtCalls' = psbtCalls \cup
           {[id |-> calls', from |-> fromAddress, desired |-> amount, reply |-> Pending]}
    /\ UNCHANGED <<fromAddress, psbtHex, actualAmount, fee, resultVars, reportVars, windowVars,
                   spendCalls, nodeVars, submitted>>

\* The backend answers from what the node knows then.  It may fail to reach the
\* node, or the app the backend.
HandleGetPsbt(c) ==
    /\ c.reply = Pending
    /\ \E reply \in Replies(ledger[c.from], c.desired, c.desired)
                    \cup Replies(<<>>, c.desired, c.desired) \cup {Failure} :
           psbtCalls' = (psbtCalls \ {c}) \cup {[c EXCEPT !.reply = reply]}
    /\ UNCHANGED <<pageVars, resultVars, reportVars, windowVars, calls, spendCalls, nodeVars,
                   submitted>>

\* Faulty variant: the fee is worked out with what the field says by then.
DeliverPsbtWithField(c) ==
    /\ c.reply # Pending
    /\ psbtCalls' = psbtCalls \ {c}
    /\ c.reply.status = 200
    /\ psbtHex' = c.reply.psbt
    /\ actualAmount' = c.reply.actualAmount
    /\ fee' = c.reply.actualAmount - desiredAmount
    /\ decodedTransaction' = NoPsbt /\ signedTransactionHex' = NoPsbt
    /\ SetError(c.reply.error)
    /\ UNCHANGED <<fromAddress, desiredAmount, windowVars, calls, spendCalls, nodeVars, submitted>>

\* The answer replaces what is shown, its error included; a failure shows the
\* error and nothing else.
DeliverPsbt(c) ==
    /\ c.reply # Pending
    /\ psbtCalls' = psbtCalls \ {c}
    /\ IF c.reply.status = 200
       THEN /\ psbtHex' = c.reply.psbt
            /\ actualAmount' = c.reply.actualAmount
            /\ fee' = c.reply.actualAmount - c.desired
            /\ decodedTransaction' = NoPsbt /\ signedTransactionHex' = NoPsbt
            /\ SetError(c.reply.error)
       ELSE /\ SetError(TRUE)
            /\ UNCHANGED <<psbtHex, actualAmount, fee, resultVars>>
    /\ UNCHANGED <<fromAddress, desiredAmount, windowVars, calls, spendCalls, nodeVars, submitted>>

----------------------------------------------------------------------------
(* Windows *)

Launch(w) ==
    /\ window = None /\ message = None
    /\ launches < MaxLaunches
    /\ launches' = launches + 1
    /\ window' = w
    /\ UNCHANGED <<wallet, message>>

\* testLoginLBRY
LaunchLogin ==
    /\ Launch([kind |-> "login"])
    /\ UNCHANGED <<pageVars, resultVars, reportVars, callVars, spendCalls, nodeVars, submitted>>

\* testSignTransactionLBRY, once an amount is shown and no error.
LaunchSign ==
    /\ actualAmount # 0
    /\ ~lastError
    /\ Launch([kind |-> "sign", psbt |-> psbtHex, from |-> fromAddress])
    /\ submitted' = submitted \cup {[psbt |-> psbtHex, fee |-> fee, from |-> fromAddress]}
    /\ UNCHANGED <<pageVars, resultVars, reportVars, callVars, spendCalls, nodeVars>>

OpenFor(kind) == window # None /\ window.kind = kind

\* saveWallet: the wallet is stored before its addresses are read, and no
\* message is posted if they cannot be.
SaveWallet(w) ==
    /\ OpenFor("login")
    /\ message = None
    /\ wallet' = w
    /\ message' = IF GetAddressesThrows(w) THEN None
                  ELSE [kind |-> "login", address |-> FirstAddress(w)]
    /\ UNCHANGED <<launches, window, pageVars, resultVars, reportVars, callVars, spendCalls,
                   nodeVars, submitted>>

\* Faulty variant: any key of the wallet that fits the inputs signs them.
SignTransactionByAnyKey ==
    /\ OpenFor("sign")
    /\ message = None
    /\ window.psbt # NoPsbt
    /\ \E a \in Address : HasSigningKey(wallet, a) /\ OwnedBy(window.psbt, a)
    /\ message' = [kind |-> "sign", psbt |-> window.psbt]
    /\ UNCHANGED <<wallet, launches, window, pageVars, resultVars, reportVars, callVars,
                   spendCalls, nodeVars, submitted>>

\* The sign window signs as it opens, with the wallet stored by then: it needs a
\* PSBT it can read, the key of the address the page shows, and that the key is
\* that of the inputs.  Without them it throws, or does nothing.
SignTransaction ==
    /\ OpenFor("sign")
    /\ message = None
    /\ window.psbt # NoPsbt
    /\ HasSigningKey(wallet, window.from)
    /\ OwnedBy(window.psbt, window.from)
    /\ message' = [kind |-> "sign", psbt |-> window.psbt]
    /\ UNCHANGED <<wallet, launches, window, pageVars, resultVars, reportVars, callVars,
                   spendCalls, nodeVars, submitted>>

CloseWindow ==
    /\ window # None /\ message = None
    /\ window' = None
    /\ UNCHANGED <<wallet, launches, message, pageVars, resultVars, reportVars, callVars,
                   spendCalls, nodeVars, submitted>>

\* The answer of a login window: the first address is the one to pay from.
HandleLogin ==
    /\ message # None /\ message.kind = "login"
    /\ fromAddress' = message.address
    /\ window' = None /\ message' = None
    /\ UNCHANGED <<desiredAmount, psbtHex, actualAmount, fee, resultVars, reportVars, wallet,
                   launches, callVars, spendCalls, nodeVars, submitted>>

\* The answer of a sign window: the transaction is shown, sent to be decoded and
\* sent to be broadcast.
HandleSigned ==
    /\ message # None /\ message.kind = "sign"
    /\ signedTransactionHex' = message.psbt
    /\ decodeCalls' = decodeCalls \cup {[id |-> launches, txn |-> message.psbt]}
    /\ broadcastCalls' = broadcastCalls \cup
           {[id |-> launches, txn |-> message.psbt, outcome |-> Pending]}
    /\ window' = None /\ message' = None
    /\ UNCHANGED <<pageVars, decodedTransaction, reportVars, wallet, launches, callVars, nodeVars,
                   submitted>>

----------------------------------------------------------------------------
(* Decoding and broadcasting *)

\* Decoding keeps no state, and may fail.
DeliverDecoded(c) ==
    /\ decodeCalls' = decodeCalls \ {c}
    /\ \/ decodedTransaction' = c.txn /\ UNCHANGED reportVars
       \/ SetError(TRUE) /\ UNCHANGED decodedTransaction
    /\ UNCHANGED <<pageVars, signedTransactionHex, windowVars, callVars, broadcastCalls, nodeVars,
                   submitted>>

\* The node accepts a transaction whose inputs are unspent, and may refuse it
\* for its fee.  Its answer may be lost.
HandleBroadcast(c) ==
    /\ c.outcome = Pending
    /\ \/ /\ CoinsOf(c.txn.inputs) \subseteq (UNION {CoinsOf(ledger[a]) : a \in Address})
          /\ ledger' = [a \in Address |-> Without(ledger[a], CoinsOf(c.txn.inputs))]
          /\ accepted' = accepted \cup {c.txn}
          /\ \E outcome \in {"accepted", "failed"} :
                 broadcastCalls' = (broadcastCalls \ {c}) \cup {[c EXCEPT !.outcome = outcome]}
       \/ /\ broadcastCalls' = (broadcastCalls \ {c}) \cup {[c EXCEPT !.outcome = "failed"]}
          /\ UNCHANGED nodeVars
    /\ UNCHANGED <<pageVars, resultVars, reportVars, windowVars, callVars, decodeCalls, submitted>>

\* Faulty variant: every answer is taken for a success.
DeliverBroadcastUnchecked(c) ==
    /\ c.outcome # Pending
    /\ broadcastCalls' = broadcastCalls \ {c}
    /\ lastError' = FALSE /\ success' = c.txn
    /\ UNCHANGED <<pageVars, resultVars, windowVars, callVars, decodeCalls, nodeVars, submitted>>

\* A success hides whatever error was shown.
DeliverBroadcast(c) ==
    /\ c.outcome # Pending
    /\ broadcastCalls' = broadcastCalls \ {c}
    /\ IF c.outcome = "accepted"
       THEN lastError' = FALSE /\ success' = c.txn
       ELSE SetError(TRUE)
    /\ UNCHANGED <<pageVars, resultVars, windowVars, callVars, decodeCalls, nodeVars, submitted>>

----------------------------------------------------------------------------
Next ==
    \/ \E amount \in Amount : UpdatePsbt(amount)
    \/ \E c \in psbtCalls : HandleGetPsbt(c) \/ DeliverPsbt(c)
    \/ LaunchLogin \/ LaunchSign
    \/ \E w \in Wallet : SaveWallet(w)
    \/ SignTransaction \/ CloseWindow \/ HandleLogin \/ HandleSigned
    \/ \E c \in decodeCalls : DeliverDecoded(c)
    \/ \E c \in broadcastCalls : HandleBroadcast(c) \/ DeliverBroadcast(c)

Spec == Init /\ [][Next]_vars

----------------------------------------------------------------------------
(* Properties *)

Txn == Psbt \cup {NoPsbt}

PageTypes ==
    /\ fromAddress \in Address \cup {None}
    /\ desiredAmount \in Amount \cup {0}
    /\ psbtHex \in Txn /\ actualAmount \in Nat /\ fee \in Int
ResultTypes ==
    /\ signedTransactionHex \in Txn /\ decodedTransaction \in Txn
    /\ lastError \in BOOLEAN /\ success \in Txn
WindowTypes ==
    /\ wallet \in Wallet \cup {None}
    /\ launches \in 0 .. MaxLaunches
    /\ window \in {None, [kind |-> "login"]}
                  \cup [kind : {"sign"}, psbt : Txn, from : Address \cup {None}]
    /\ message \in {None} \cup [kind : {"login"}, address : Address \cup {None}]
                   \cup [kind : {"sign"}, psbt : Psbt]
CallTypes ==
    /\ calls \in 0 .. MaxCalls
    /\ psbtCalls \subseteq [id : 1 .. calls, from : Address, desired : Amount,
                            reply : Reply \cup {Pending}]
SpendTypes ==
    /\ decodeCalls \subseteq [id : 1 .. launches, txn : Psbt]
    /\ broadcastCalls \subseteq [id : 1 .. launches, txn : Psbt, outcome : Outcome]
NodeTypes ==
    /\ ledger \in [Address -> Seq(Coin)] /\ accepted \subseteq Psbt
    /\ submitted \subseteq [psbt : Txn, fee : Int, from : Address \cup {None}]

TypeOK == PageTypes /\ ResultTypes /\ WindowTypes /\ CallTypes /\ SpendTypes /\ NodeTypes

\* Whatever order answers come in: what the node is paid is a transaction the
\* user agreed to, at the fee the page showed then.
PaidAsShown == \A t \in accepted : \E s \in submitted : s.psbt = t /\ s.fee = FeeOf(t)

\* Whatever wallets have been saved since, of those whose addresses the page never
\* heard of too: what the node is paid comes from the address the page showed as
\* the user agreed to it.
SpendsFromAddressShown ==
    \A t \in accepted : \E s \in submitted : s.psbt = t /\ OwnedBy(t, s.from)

\* "I think it worked" is said only of what the node accepted.
SuccessIsOfAccepted == success # NoPsbt => success \in accepted

\* An error and a success are never shown together.
ErrorHidesSuccess == ~(lastError /\ success # NoPsbt)

\* A PSBT whose fee the backend calls "Absurdly high" is shown with that error,
\* and so cannot be submitted.
AbsurdFeeIsMarked == psbtHex # NoPsbt /\ FeeOf(psbtHex) > AbsurdFee => lastError

\* The user agreed to this transaction, to the fee it has, and to paying it from
\* this address.
AgreedFrom(psbt, from) == [psbt |-> psbt, fee |-> FeeOf(psbt), from |-> from] \in submitted

\* And the address is that of the inputs.
Agreed(psbt) == \E from \in Address : AgreedFrom(psbt, from) /\ OwnedBy(psbt, from)

\* An answer, and the page, give the fee of the PSBT they come with.
FeesAgree ==
    /\ \A c \in psbtCalls : c.reply # Pending /\ c.reply.psbt # NoPsbt =>
           FeeOf(c.reply.psbt) = c.reply.actualAmount - c.desired
    /\ psbtHex # NoPsbt => FeeOf(psbtHex) = fee

\* Only what the user agreed to is signed, sent and accepted, and only what the node
\* took is answered as accepted.
SignedIsAgreed ==
    /\ window # None \/ message # None => launches # 0
    /\ OpenFor("sign") /\ window.psbt # NoPsbt => AgreedFrom(window.psbt, window.from)
    /\ message # None /\ message.kind = "sign" => Agreed(message.psbt)
    /\ \A c \in broadcastCalls :
           Agreed(c.txn) /\ (c.outcome = "accepted" => c.txn \in accepted)
    /\ \A t \in accepted : Agreed(t)

\* The invariant that all of these but the last follow from.
PaymentInv ==
    /\ TypeOK /\ FeesAgree /\ SignedIsAgreed
    /\ SuccessIsOfAccepted /\ ErrorHidesSuccess
=============================================================================
