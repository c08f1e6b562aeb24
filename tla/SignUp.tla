-------------------------------- MODULE SignUp --------------------------------
(***************************************************************************)
(* How a new account comes to be: the sign-up page, the entropy service    *)
(* whose phrase it shows, and the page that loads an account from a phrase.*)
(*                                                                         *)
(* The service outlives the pages; the fields of a page do not.  The       *)
(* advanced fields let the user replace the phrase, or the entropy it is   *)
(* made of, and each field rewrites the other.  Step two has the user      *)
(* retype what step one showed.                                            *)
(*                                                                         *)
(* A BIP39 phrase and the 16 to 32 bytes of entropy it encodes determine   *)
(* each other: both are named by the entropy.  The service also lets pass  *)
(* 36 to 64 bytes, which encode no phrase.                                 *)
(***************************************************************************)
EXTENDS Naturals, FiniteSets

CONSTANTS
    Random,      \* the entropies the random number generator comes up with
    Own,         \* the entropies the user makes up
    TooLong,     \* entropies of 36 to 64 bytes
    Gibberish,   \* text that is neither a phrase nor entropy
    Text,        \* passphrases, as they are typed
    NFKD,        \* normalization of passphrases
    NoText,
    MaxVisits    \* bound: visits of the page

Entropy == Random \cup Own

ASSUME SignUpAssumption ==
    /\ Random \cap Own = {} /\ Entropy \cap TooLong = {}
    /\ Gibberish \notin Entropy \cup TooLong
    /\ NoText \in Text
    /\ NFKD \in [Text -> Text]
    /\ \A t \in Text : NFKD[NFKD[t]] = NFKD[t]
    /\ NFKD[NoText] = NoText
    /\ MaxVisits \in Nat

Phrase == Entropy \cup {Gibberish}
Hex    == Entropy \cup TooLong \cup {Gibberish}

TemporaryEntropy == [mnemonic : Phrase, extraText : Text, customEntropyHex : Hex]

\* The key derived from a phrase and a passphrase; the phrase is not validated.
Account == Phrase \X Text
MnemonicToKeychain(mnemonic, extraText) == <<mnemonic, NFKD[extraText]>>

UserInfo == [mnemonic : Phrase, extraText : Text]

VARIABLES
    page,               \* the page of the window
    stepNum,            \* step of the sign-up page
    temporaryEntropy,   \* the service's phrase, passphrase and entropy field
    advancedOpen,       \* the advanced fields are open
    showMnemonicError, showEntropyHexError,
    mnemonicCheck, extraTextCheck,   \* what the user has typed in step two
    users,              \* the accounts in storage: a set of pairs <<account, info>>
    drawn,              \* history: entropies drawn so far
    visit,              \* history: number of visits of the page
    usedIn              \* history: visits in which a phrase made an account

errorVars   == <<showMnemonicError, showEntropyHexError>>
checkVars   == <<mnemonicCheck, extraTextCheck>>
historyVars == <<drawn, visit, usedIn>>
vars == <<page, stepNum, temporaryEntropy, advancedOpen, errorVars, checkVars, users, historyVars>>

IsValidMnemonic(t)         == t \in Entropy
IsValidCustomEntropyHex(t) == t \in Entropy \cup TooLong

\* setNewTemporaryEntropy
SetNewTemporaryEntropy ==
    \E e \in Random \ drawn :
        /\ temporaryEntropy' = [mnemonic |-> e, extraText |-> NoText, customEntropyHex |-> e]
        /\ drawn' = drawn \cup {e}

Init ==
    /\ page = "log-in"
    /\ stepNum = 1
    /\ \E e \in Random :
        /\ temporaryEntropy = [mnemonic |-> e, extraText |-> NoText, customEntropyHex |-> e]
        /\ drawn = {e}
    /\ advancedOpen = FALSE
    /\ showMnemonicError = FALSE /\ showEntropyHexError = FALSE
    /\ mnemonicCheck = Gibberish /\ extraTextCheck = NoText
    /\ users = {}
    /\ visit = 0
    /\ usedIn = [e \in Phrase |-> {}]

\* addUser: the account replaces whatever was stored under its public key.
AddUser(mnemonic, extraText) ==
    LET account == MnemonicToKeychain(mnemonic, extraText)
    IN  users' = {u \in users : u[1] # account}
                 \cup {<<account, [mnemonic |-> mnemonic, extraText |-> extraText]>>}

----------------------------------------------------------------------------
(* Pages *)

\* The sign-up page opens with fields of its own and the service's entropy.
VisitSignUp ==
    /\ page = "log-in"
    /\ visit < MaxVisits
    /\ page' = "sign-up"
    /\ visit' = visit + 1
    /\ stepNum' = 1
    /\ showMnemonicError' = FALSE /\ showEntropyHexError' = FALSE
    /\ mnemonicCheck' = Gibberish /\ extraTextCheck' = NoText
    /\ UNCHANGED <<temporaryEntropy, advancedOpen, users, drawn, usedIn>>

\* Faulty variant: the entropy stays for the next visit.
LeaveSignUpKeeping ==
    /\ page = "sign-up"
    /\ page' = "log-in"
    /\ advancedOpen' = FALSE
    /\ UNCHANGED <<temporaryEntropy, stepNum, errorVars, checkVars, users, historyVars>>

\* ngOnDestroy, when the user goes back.
LeaveSignUp ==
    /\ page = "sign-up"
    /\ page' = "log-in"
    /\ SetNewTemporaryEntropy
    /\ advancedOpen' = FALSE
    /\ UNCHANGED <<stepNum, errorVars, checkVars, users, visit, usedIn>>

VisitLoadSeed ==
    /\ page = "log-in"
    /\ page' = "load-seed"
    /\ UNCHANGED <<stepNum, temporaryEntropy, advancedOpen, errorVars, checkVars, users, historyVars>>

\* clickLoadAccount: an invalid phrase is reported and nothing else happens.
ClickLoadAccount(mnemonic, extraText) ==
    /\ page = "load-seed"
    /\ IsValidMnemonic(mnemonic)
    /\ AddUser(mnemonic, extraText)
    /\ page' = "log-in"
    /\ UNCHANGED <<stepNum, temporaryEntropy, advancedOpen, errorVars, checkVars, historyVars>>

----------------------------------------------------------------------------
(* Step one of the sign-up page *)

InStep(n) == page = "sign-up" /\ stepNum = n

ToggleAdvanced ==
    /\ InStep(1)
    /\ advancedOpen' = ~advancedOpen
    /\ UNCHANGED <<page, stepNum, temporaryEntropy, errorVars, checkVars, users, historyVars>>

Editing == InStep(1) /\ advancedOpen

\* Faulty variant: the entropy field stays as it was.
CheckMnemonicAlone(t) ==
    /\ Editing
    /\ showMnemonicError' = ~IsValidMnemonic(t)
    /\ temporaryEntropy' = [temporaryEntropy EXCEPT !.mnemonic = t]
    /\ UNCHANGED <<page, stepNum, advancedOpen, showEntropyHexError, checkVars, users, historyVars>>

\* checkMnemonic: a valid phrase rewrites the entropy field.
CheckMnemonic(t) ==
    /\ Editing
    /\ showMnemonicError' = ~IsValidMnemonic(t)
    /\ temporaryEntropy' = [temporaryEntropy EXCEPT
            !.mnemonic = t,
            !.customEntropyHex = IF IsValidMnemonic(t) THEN t ELSE @]
    /\ UNCHANGED <<page, stepNum, advancedOpen, showEntropyHexError, checkVars, users, historyVars>>

\* Faulty variant: valid entropy clears both errors before it is converted.
CheckEntropyHexClearing(t) ==
    /\ Editing
    /\ showEntropyHexError' = ~IsValidCustomEntropyHex(t)
    /\ showMnemonicError' = (showMnemonicError /\ ~IsValidCustomEntropyHex(t))
    /\ temporaryEntropy' = [temporaryEntropy EXCEPT
            !.customEntropyHex = t,
            !.mnemonic = IF t \in Entropy THEN t ELSE @]
    /\ UNCHANGED <<page, stepNum, advancedOpen, checkVars, users, historyVars>>

\* checkEntropyHex: valid entropy rewrites the phrase.  Entropy that is too long
\* for a phrase passes, and then the conversion throws.
CheckEntropyHex(t) ==
    /\ Editing
    /\ showEntropyHexError' = ~IsValidCustomEntropyHex(t)
    /\ temporaryEntropy' = [temporaryEntropy EXCEPT
            !.customEntropyHex = t,
            !.mnemonic = IF t \in Entropy THEN t ELSE @]
    /\ UNCHANGED <<page, stepNum, advancedOpen, showMnemonicError, checkVars, users, historyVars>>

NormalizeExtraText(t) ==
    /\ Editing
    /\ temporaryEntropy' = [temporaryEntropy EXCEPT !.extraText = NFKD[t]]
    /\ UNCHANGED <<page, stepNum, advancedOpen, errorVars, checkVars, users, historyVars>>

\* getNewEntropy leaves the errors as they are.
GetNewEntropy ==
    /\ Editing
    /\ SetNewTemporaryEntropy
    /\ UNCHANGED <<page, stepNum, advancedOpen, errorVars, checkVars, users, visit, usedIn>>

HasEntropyError == showMnemonicError \/ showEntropyHexError

\* Faulty variant: the button heeds only the error of the entropy field.
StepOneNextHasty ==
    /\ InStep(1)
    /\ ~showEntropyHexError
    /\ stepNum' = 2
    /\ UNCHANGED <<page, temporaryEntropy, advancedOpen, errorVars, checkVars, users, historyVars>>

StepOneNext ==
    /\ InStep(1)
    /\ ~HasEntropyError
    /\ stepNum' = 2
    /\ UNCHANGED <<page, temporaryEntropy, advancedOpen, errorVars, checkVars, users, historyVars>>

----------------------------------------------------------------------------
(* Step two *)

TypeMnemonicCheck(t) ==
    /\ InStep(2)
    /\ mnemonicCheck' = t
    /\ UNCHANGED <<page, stepNum, temporaryEntropy, advancedOpen, errorVars, extraTextCheck,
                   users, historyVars>>

\* The passphrase is asked for only if there is one.
TypeExtraTextCheck(t) ==
    /\ InStep(2)
    /\ temporaryEntropy.extraText # NoText
    /\ extraTextCheck' = t
    /\ UNCHANGED <<page, stepNum, temporaryEntropy, advancedOpen, errorVars, mnemonicCheck,
                   users, historyVars>>

StepTwoBack ==
    /\ InStep(2)
    /\ stepNum' = 1
    /\ mnemonicCheck' = Gibberish /\ extraTextCheck' = NoText
    /\ UNCHANGED <<page, temporaryEntropy, advancedOpen, errorVars, users, historyVars>>

Verified == /\ temporaryEntropy.mnemonic = mnemonicCheck
            /\ temporaryEntropy.extraText = extraTextCheck

\* stepTwoNext: the account of what was retyped is added; the page stays.
StepTwoNext ==
    /\ InStep(2)
    /\ Verified
    /\ AddUser(mnemonicCheck, extraTextCheck)
    /\ usedIn' = [usedIn EXCEPT ![mnemonicCheck] = @ \cup {visit}]
    /\ UNCHANGED <<page, stepNum, temporaryEntropy, advancedOpen, errorVars, checkVars,
                   drawn, visit>>

----------------------------------------------------------------------------
Next ==
    \/ VisitSignUp \/ LeaveSignUp \/ VisitLoadSeed
    \/ \E m \in Own \cup {Gibberish}, x \in Text : ClickLoadAccount(m, x)
    \/ ToggleAdvanced \/ GetNewEntropy \/ StepOneNext
    \/ \E t \in Own \cup {Gibberish} : CheckMnemonic(t)
    \/ \E t \in Own \cup TooLong \cup {Gibberish} : CheckEntropyHex(t)
    \/ \E t \in Text : NormalizeExtraText(t)
    \/ \E t \in Phrase : TypeMnemonicCheck(t)
    \/ \E t \in Text : TypeExtraTextCheck(t)
    \/ StepTwoBack \/ StepTwoNext

Spec == Init /\ [][Next]_vars

----------------------------------------------------------------------------
(* Properties *)

TypeOK ==
    /\ page \in {"log-in", "sign-up", "load-seed"}
    /\ stepNum \in {1, 2}
    /\ temporaryEntropy \in TemporaryEntropy
    /\ advancedOpen \in BOOLEAN
    /\ showMnemonicError \in BOOLEAN /\ showEntropyHexError \in BOOLEAN
    /\ mnemonicCheck \in Phrase /\ extraTextCheck \in Text
    /\ users \subseteq Account \X UserInfo
    /\ drawn \subseteq Random
    /\ visit \in 0 .. MaxVisits
    /\ usedIn \in [Phrase -> SUBSET Nat]

\* Every account in storage can be loaded again from what is stored with it: its
\* phrase is one the load-seed page accepts, and derives the same key.  The
\* sign-up page never validates the phrase it adds; it relies on the errors of
\* step one, and on the service having a new phrase when the errors are forgotten.
AccountsLoadAgain ==
    \A u \in users : /\ IsValidMnemonic(u[2].mnemonic)
                     /\ u[1] = MnemonicToKeychain(u[2].mnemonic, u[2].extraText)

\* A phrase the service drew makes accounts in one visit at most ("Set new
\* entropy for the next time they go through the flow").
PhrasesAreNotReused == \A e \in Random : Cardinality(usedIn[e]) <= 1

\* The strengthening AccountsLoadAgain needs: the phrase is valid, or the user is
\* in step one and sees that it is not.
PhraseIsValid ==
    \/ IsValidMnemonic(temporaryEntropy.mnemonic)
    \/ InStep(1) /\ showMnemonicError
SignUpInv == TypeOK /\ PhraseIsValid /\ AccountsLoadAgain

\* The page says it shows the entropy used to generate the phrase above.  With no
\* error shown the two belong together, but for entropy that is too long for a
\* phrase, of which the page shows no error.
EntropyIsOfPhrase ==
    page = "sign-up" /\ ~HasEntropyError /\ temporaryEntropy.customEntropyHex \notin TooLong =>
        temporaryEntropy.customEntropyHex = temporaryEntropy.mnemonic
=============================================================================
