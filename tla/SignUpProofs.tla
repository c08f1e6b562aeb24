----------------------------- MODULE SignUpProofs -----------------------------
(***************************************************************************)
(* Proofs about SignUp.  SignUpInv is inductive: the phrase on the sign-up *)
(* page can be invalid only while step one shows the error that disables   *)
(* its Next button, and whatever opens the page or leaves step one finds   *)
(* the phrase valid.  So every account that is added has a valid phrase.   *)
(*                                                                         *)
(* PhraseInv and FieldsAgree follow a phrase through its visit: it is new  *)
(* when the page opens, whoever left the page last, and what is shown      *)
(* beside it is its entropy unless an error, or too long an entropy, says  *)
(* otherwise.                                                              *)
(***************************************************************************)
EXTENDS SignUp, FiniteSetTheorems, TLAPS

USE SignUpAssumption

\* What addUser stores loads again if the phrase is valid.
LEMMA AddUserLoadsAgain ==
    ASSUME NEW m \in Entropy, NEW x \in Text, SignUpInv, AddUser(m, x)
    PROVE  /\ users' \subseteq Account \X UserInfo
           /\ AccountsLoadAgain'
<1> DEFINE account == MnemonicToKeychain(m, x)
           info    == [mnemonic |-> m, extraText |-> x]
<1>1. /\ account \in Account
      /\ info \in UserInfo
      /\ info.mnemonic = m /\ info.extraText = x
  BY DEF MnemonicToKeychain, Account, UserInfo, Phrase, Entropy
<1>2. users' = {u \in users : u[1] # account} \cup {<<account, info>>}
  BY DEF AddUser
<1>3. users \subseteq Account \X UserInfo
  BY DEF SignUpInv, TypeOK
<1>4. users' \subseteq Account \X UserInfo
  <2> HIDE DEF account, info
  <2> QED
    BY <1>1, <1>2, <1>3
<1>5. ASSUME NEW u \in users'
      PROVE  IsValidMnemonic(u[2].mnemonic)
             /\ u[1] = MnemonicToKeychain(u[2].mnemonic, u[2].extraText)
  <2>1. CASE u \in users
    BY <2>1 DEF SignUpInv, AccountsLoadAgain
  <2>2. CASE u = <<account, info>>
    <3>1. u[1] = account /\ u[2] = info
      BY <2>2
    <3> QED
      BY <3>1 DEF IsValidMnemonic
  <2> QED
    BY <1>2, <1>5, <2>1, <2>2
<1> QED
  BY <1>4, <1>5 DEF AccountsLoadAgain

\* A new entropy brings a valid phrase and an empty passphrase.
LEMMA NewEntropyIsValid ==
    ASSUME SetNewTemporaryEntropy, drawn \subseteq Random
    PROVE  /\ temporaryEntropy' \in TemporaryEntropy
           /\ IsValidMnemonic(temporaryEntropy.mnemonic)'
           /\ drawn' \subseteq Random
<1> PICK e \in Random \ drawn :
        /\ temporaryEntropy' = [mnemonic |-> e, extraText |-> NoText, customEntropyHex |-> e]
        /\ drawn' = drawn \cup {e}
  BY DEF SetNewTemporaryEntropy
<1> QED
  BY DEF TemporaryEntropy, Phrase, Hex, Entropy, IsValidMnemonic

\* The initial states satisfy the invariant.
LEMMA InitSignUp == Init => SignUpInv
<1> SUFFICES ASSUME Init PROVE SignUpInv
  OBVIOUS
<1>1. temporaryEntropy \in TemporaryEntropy /\ IsValidMnemonic(temporaryEntropy.mnemonic)
  BY DEF Init, TemporaryEntropy, Phrase, Hex, Entropy, IsValidMnemonic
<1>2. usedIn \in [Phrase -> SUBSET Nat]
  <2>1. usedIn = [e \in Phrase |-> {}]
    BY DEF Init
  <2> QED
    BY <2>1
<1> QED
  <2>1. TypeOK
    <3>1. 0 \in 0 .. MaxVisits /\ drawn \subseteq Random
      BY DEF Init
    <3> QED
      BY <1>1, <1>2, <3>1 DEF Init, TypeOK, Phrase
  <2>2. PhraseIsValid /\ AccountsLoadAgain
    BY <1>1 DEF Init, PhraseIsValid, AccountsLoadAgain
  <2> QED
    BY <2>1, <2>2 DEF SignUpInv

\* Every step preserves it.
LEMMA NextSignUp == SignUpInv /\ [Next]_vars => SignUpInv'
<1> SUFFICES ASSUME SignUpInv, [Next]_vars PROVE SignUpInv'
  OBVIOUS
<1> USE DEF SignUpInv
<1>t. temporaryEntropy.mnemonic \in Phrase /\ temporaryEntropy.extraText \in Text
      /\ temporaryEntropy.customEntropyHex \in Hex
  BY DEF TypeOK, TemporaryEntropy
<1>1. CASE VisitSignUp
  <2>1. usedIn' \in [Phrase -> SUBSET Nat]
    BY <1>1 DEF VisitSignUp, TypeOK
  <2>2. visit' \in 0 .. MaxVisits
    BY <1>1 DEF VisitSignUp, TypeOK
  <2>3. IsValidMnemonic(temporaryEntropy.mnemonic)'
    BY <1>1 DEF VisitSignUp, PhraseIsValid, InStep, IsValidMnemonic
  <2> QED
    BY <1>1, <2>1, <2>2, <2>3 DEF VisitSignUp, TypeOK, PhraseIsValid, AccountsLoadAgain, Phrase
<1>2. CASE LeaveSignUp
  <2>1. /\ temporaryEntropy' \in TemporaryEntropy
        /\ IsValidMnemonic(temporaryEntropy.mnemonic)'
        /\ drawn' \subseteq Random
    BY <1>2, NewEntropyIsValid DEF LeaveSignUp, TypeOK
  <2> QED
    BY <1>2, <2>1 DEF LeaveSignUp, TypeOK, PhraseIsValid, AccountsLoadAgain, errorVars, checkVars
<1>3. CASE VisitLoadSeed
  BY <1>3 DEF VisitLoadSeed, TypeOK, PhraseIsValid, AccountsLoadAgain, InStep,
              errorVars, checkVars, historyVars
<1>4. ASSUME NEW m \in Own \cup {Gibberish}, NEW x \in Text, ClickLoadAccount(m, x)
      PROVE  SignUpInv'
  <2>1. users' \subseteq Account \X UserInfo /\ AccountsLoadAgain'
    BY <1>4, AddUserLoadsAgain DEF ClickLoadAccount, IsValidMnemonic
  <2> QED
    BY <1>4, <2>1 DEF ClickLoadAccount, TypeOK, PhraseIsValid, InStep,
                      errorVars, checkVars, historyVars
<1>5. CASE ToggleAdvanced
  BY <1>5 DEF ToggleAdvanced, TypeOK, PhraseIsValid, AccountsLoadAgain, InStep,
              errorVars, checkVars, historyVars
<1>6. CASE GetNewEntropy
  <2>1. /\ temporaryEntropy' \in TemporaryEntropy
        /\ IsValidMnemonic(temporaryEntropy.mnemonic)'
        /\ drawn' \subseteq Random
    BY <1>6, NewEntropyIsValid DEF GetNewEntropy, TypeOK
  <2> QED
    BY <1>6, <2>1 DEF GetNewEntropy, TypeOK, PhraseIsValid, AccountsLoadAgain, errorVars, checkVars
<1>7. CASE StepOneNext
  BY <1>7 DEF StepOneNext, HasEntropyError, TypeOK, PhraseIsValid, AccountsLoadAgain, InStep,
              errorVars, checkVars, historyVars
<1>8. ASSUME NEW t \in Own \cup {Gibberish}, CheckMnemonic(t)
      PROVE  SignUpInv'
  <2>1. /\ temporaryEntropy' \in TemporaryEntropy
        /\ temporaryEntropy'.mnemonic = t
    BY <1>8, <1>t DEF CheckMnemonic, TypeOK, TemporaryEntropy, Phrase, Hex, Entropy
  <2> QED
    BY <1>8, <2>1 DEF CheckMnemonic, Editing, InStep, TypeOK, PhraseIsValid, AccountsLoadAgain,
                      checkVars, historyVars, IsValidMnemonic
<1>9. ASSUME NEW t \in Own \cup TooLong \cup {Gibberish}, CheckEntropyHex(t)
      PROVE  SignUpInv'
  <2>1. /\ temporaryEntropy' \in TemporaryEntropy
        /\ \/ IsValidMnemonic(temporaryEntropy'.mnemonic)
           \/ temporaryEntropy'.mnemonic = temporaryEntropy.mnemonic
    BY <1>9, <1>t DEF CheckEntropyHex, TypeOK, TemporaryEntropy, Phrase, Hex, Entropy,
                      IsValidMnemonic
  <2> QED
    BY <1>9, <2>1 DEF CheckEntropyHex, Editing, InStep, TypeOK, PhraseIsValid, AccountsLoadAgain,
                      checkVars, historyVars, IsValidMnemonic
<1>10. ASSUME NEW t \in Text, NormalizeExtraText(t)
       PROVE  SignUpInv'
  <2>1. /\ temporaryEntropy' \in TemporaryEntropy
        /\ temporaryEntropy'.mnemonic = temporaryEntropy.mnemonic
    BY <1>10, <1>t DEF NormalizeExtraText, TypeOK, TemporaryEntropy
  <2> QED
    BY <1>10, <2>1 DEF NormalizeExtraText, Editing, InStep, TypeOK, PhraseIsValid,
                       AccountsLoadAgain, errorVars, checkVars, historyVars, IsValidMnemonic
<1>11. ASSUME NEW t \in Phrase, TypeMnemonicCheck(t)
       PROVE  SignUpInv'
  BY <1>11 DEF TypeMnemonicCheck, InStep, TypeOK, PhraseIsValid, AccountsLoadAgain,
               errorVars, historyVars
<1>12. ASSUME NEW t \in Text, TypeExtraTextCheck(t)
       PROVE  SignUpInv'
  BY <1>12 DEF TypeExtraTextCheck, InStep, TypeOK, PhraseIsValid, AccountsLoadAgain,
               errorVars, historyVars
<1>13. CASE StepTwoBack
  BY <1>13, <1>t DEF StepTwoBack, InStep, TypeOK, PhraseIsValid, AccountsLoadAgain, Phrase,
                     errorVars, historyVars
<1>14. CASE StepTwoNext
  <2>1. mnemonicCheck \in Entropy /\ extraTextCheck \in Text
    BY <1>14 DEF StepTwoNext, Verified, InStep, TypeOK, PhraseIsValid, IsValidMnemonic
  <2>2. users' \subseteq Account \X UserInfo /\ AccountsLoadAgain'
    BY <1>14, <2>1, AddUserLoadsAgain DEF StepTwoNext
  <2>3. usedIn' \in [Phrase -> SUBSET Nat]
    BY <1>14, <2>1 DEF StepTwoNext, TypeOK, Phrase
  <2> QED
    BY <1>14, <2>2, <2>3 DEF StepTwoNext, InStep, TypeOK, PhraseIsValid, errorVars, checkVars
<1>15. CASE UNCHANGED vars
  BY <1>15 DEF vars, TypeOK, PhraseIsValid, AccountsLoadAgain, InStep,
               errorVars, checkVars, historyVars
<1> QED
  BY <1>1, <1>2, <1>3, <1>4, <1>5, <1>6, <1>7, <1>8, <1>9, <1>10, <1>11, <1>12, <1>13,
     <1>14, <1>15 DEF Next

\* The invariant of sign-up, log-in and the service holds in every reachable state.
THEOREM SignUpInvariant == Spec => []SignUpInv
  BY InitSignUp, NextSignUp, PTL DEF Spec

\* Every account stored by signing up or by loading a phrase can be loaded again
\* from what is stored with it.
THEOREM StoredAccountsLoadAgain == Spec => []AccountsLoadAgain
<1>1. SignUpInv => AccountsLoadAgain
  BY DEF SignUpInv
<1> QED
  BY <1>1, SignUpInvariant, PTL

----------------------------------------------------------------------------
(* Phrases and visits *)

\* A phrase that was drawn makes accounts in the visit that shows it; before the
\* page opens it has made none.
PhraseIsFresh ==
    LET phrase == temporaryEntropy.mnemonic
    IN  phrase \in Random =>
            /\ phrase \in drawn
            /\ usedIn[phrase] \subseteq (IF page = "sign-up" THEN {visit} ELSE {})

\* What was not drawn has made no account, and what was drawn belongs to a visit.
UsedOnce ==
    \A e \in Random : /\ e \notin drawn => usedIn[e] = {}
                      /\ \E v \in Nat : usedIn[e] \subseteq {v}

PhraseInv == SignUpInv /\ PhraseIsFresh /\ UsedOnce

LEMMA InitPhrase == Init => PhraseInv
<1> SUFFICES ASSUME Init PROVE PhraseInv
  OBVIOUS
<1>1. PICK e \in Random :
          /\ temporaryEntropy = [mnemonic |-> e, extraText |-> NoText, customEntropyHex |-> e]
          /\ drawn = {e}
  BY DEF Init
<1>2. \A d \in Random : usedIn[d] = {}
  BY DEF Init, Phrase, Entropy
<1>3. PhraseIsFresh
  BY <1>1, <1>2 DEF PhraseIsFresh
<1>4. UsedOnce
  BY <1>2 DEF UsedOnce
<1> QED
  BY <1>3, <1>4, InitSignUp DEF PhraseInv

\* A new phrase has made no account.
LEMMA NewPhraseIsFresh ==
    ASSUME PhraseInv, SetNewTemporaryEntropy, UNCHANGED usedIn
    PROVE  PhraseIsFresh' /\ UsedOnce'
<1> PICK e \in Random \ drawn :
        /\ temporaryEntropy' = [mnemonic |-> e, extraText |-> NoText, customEntropyHex |-> e]
        /\ drawn' = drawn \cup {e}
  BY DEF SetNewTemporaryEntropy
<1>1. temporaryEntropy'.mnemonic = e /\ usedIn'[e] = {} /\ e \in drawn'
  BY DEF PhraseInv, UsedOnce
<1>2. PhraseIsFresh'
  BY <1>1 DEF PhraseIsFresh
<1>3. UsedOnce'
  BY DEF PhraseInv, UsedOnce
<1> QED
  BY <1>2, <1>3

\* What leaves the visit alone, and at most replaces the phrase by one of the
\* user's, leaves the phrase as fresh as it was.
LEMMA PhraseStaysFresh ==
    ASSUME PhraseInv, UNCHANGED <<drawn, visit, usedIn>>,
           \/ temporaryEntropy'.mnemonic = temporaryEntropy.mnemonic
           \/ temporaryEntropy'.mnemonic \notin Random,
           page' = page \/ (page # "sign-up" /\ page' # "sign-up")
    PROVE  PhraseIsFresh' /\ UsedOnce'
BY DEF PhraseInv, PhraseIsFresh, UsedOnce

LEMMA NextPhrase == PhraseInv /\ [Next]_vars => PhraseInv'
<1> SUFFICES ASSUME PhraseInv, [Next]_vars PROVE PhraseIsFresh' /\ UsedOnce'
  BY NextSignUp DEF PhraseInv
<1>0. TypeOK /\ PhraseIsFresh /\ UsedOnce
  BY DEF PhraseInv, SignUpInv
<1>t. temporaryEntropy \in TemporaryEntropy
  BY <1>0 DEF TypeOK
<1>g. Gibberish \notin Random /\ Own \cap Random = {} /\ TooLong \cap Random = {}
  BY DEF Entropy
<1>1. CASE VisitSignUp
  BY <1>0, <1>1 DEF VisitSignUp, PhraseIsFresh, UsedOnce, TypeOK
<1>2. CASE LeaveSignUp
  BY <1>2, NewPhraseIsFresh DEF LeaveSignUp
<1>3. CASE VisitLoadSeed
  BY <1>3, PhraseStaysFresh DEF VisitLoadSeed, historyVars
<1>4. ASSUME NEW m \in Own \cup {Gibberish}, NEW x \in Text, ClickLoadAccount(m, x)
      PROVE  PhraseIsFresh' /\ UsedOnce'
  BY <1>4, PhraseStaysFresh DEF ClickLoadAccount, historyVars
<1>5. CASE ToggleAdvanced \/ StepOneNext \/ StepTwoBack
  BY <1>5, PhraseStaysFresh DEF ToggleAdvanced, StepOneNext, StepTwoBack, historyVars
<1>6. CASE GetNewEntropy
  BY <1>6, NewPhraseIsFresh DEF GetNewEntropy
<1>7. ASSUME NEW t \in Own \cup {Gibberish}, CheckMnemonic(t)
      PROVE  PhraseIsFresh' /\ UsedOnce'
  <2>1. temporaryEntropy'.mnemonic = t
    BY <1>7, <1>t DEF CheckMnemonic, TemporaryEntropy
  <2> QED
    BY <1>7, <1>g, <2>1, PhraseStaysFresh DEF CheckMnemonic, historyVars
<1>8. ASSUME NEW t \in Own \cup TooLong \cup {Gibberish}, CheckEntropyHex(t)
      PROVE  PhraseIsFresh' /\ UsedOnce'
  <2>1. temporaryEntropy'.mnemonic \in {t, temporaryEntropy.mnemonic}
    BY <1>8, <1>t DEF CheckEntropyHex, TemporaryEntropy
  <2> QED
    BY <1>8, <1>g, <2>1, PhraseStaysFresh DEF CheckEntropyHex, historyVars
<1>9. ASSUME NEW t \in Text, NormalizeExtraText(t)
      PROVE  PhraseIsFresh' /\ UsedOnce'
  <2>1. temporaryEntropy'.mnemonic = temporaryEntropy.mnemonic
    BY <1>9, <1>t DEF NormalizeExtraText, TemporaryEntropy
  <2> QED
    BY <1>9, <2>1, PhraseStaysFresh DEF NormalizeExtraText, historyVars
<1>10. ASSUME NEW t \in Phrase, TypeMnemonicCheck(t)
       PROVE  PhraseIsFresh' /\ UsedOnce'
  BY <1>10, PhraseStaysFresh DEF TypeMnemonicCheck, historyVars
<1>11. ASSUME NEW t \in Text, TypeExtraTextCheck(t)
       PROVE  PhraseIsFresh' /\ UsedOnce'
  BY <1>11, PhraseStaysFresh DEF TypeExtraTextCheck, historyVars
<1>12. CASE StepTwoNext
  <2> DEFINE phrase == temporaryEntropy.mnemonic
  <2>1. /\ page = "sign-up" /\ mnemonicCheck = phrase /\ phrase \in Phrase
        /\ usedIn' = [usedIn EXCEPT ![phrase] = @ \cup {visit}]
        /\ UNCHANGED <<page, temporaryEntropy, drawn, visit>>
    BY <1>12, <1>t DEF StepTwoNext, InStep, Verified, TemporaryEntropy
  <2>2. /\ usedIn'[phrase] = usedIn[phrase] \cup {visit}
        /\ \A e \in Random : e # phrase => usedIn'[e] = usedIn[e]
    BY <1>0, <2>1 DEF TypeOK, Phrase, Entropy
  <2>3. phrase \in Random => phrase \in drawn /\ usedIn'[phrase] \subseteq {visit}
    BY <1>0, <2>1, <2>2 DEF PhraseIsFresh
  <2>4. visit \in Nat
    BY <1>0 DEF TypeOK
  <2>5. PhraseIsFresh'
    BY <2>1, <2>3 DEF PhraseIsFresh
  <2>6. UsedOnce'
    BY <1>0, <2>1, <2>2, <2>3, <2>4 DEF UsedOnce
  <2> QED
    BY <2>5, <2>6
<1>13. CASE UNCHANGED vars
  BY <1>13, PhraseStaysFresh DEF vars, historyVars
<1> QED
  BY <1>1, <1>2, <1>3, <1>4, <1>5, <1>6, <1>7, <1>8, <1>9, <1>10, <1>11, <1>12, <1>13 DEF Next

\* Whatever the user edits, and however often the page is opened, left, or left
\* half way, a phrase the service drew makes accounts in one visit at most.
THEOREM PhrasesUsedOnce == Spec => []PhrasesAreNotReused
<1>1. ASSUME NEW S, NEW v, S \subseteq {v}
      PROVE  Cardinality(S) <= 1
  <2>1. IsFiniteSet({v}) /\ Cardinality({v}) = 1
    BY FS_Singleton
  <2> QED
    BY <1>1, <2>1, FS_Subset
<1>2. PhraseInv => PhrasesAreNotReused
  BY <1>1 DEF PhraseInv, UsedOnce, PhrasesAreNotReused
<1> QED
  BY <1>2, InitPhrase, NextPhrase, PTL DEF Spec

----------------------------------------------------------------------------
(* The phrase and its entropy *)

\* The service's fields agree whenever no page shows them; on the page they may
\* differ while an error is shown, or the entropy is too long.
FieldsAgree ==
    \/ temporaryEntropy.customEntropyHex = temporaryEntropy.mnemonic
    \/ /\ page = "sign-up"
       /\ HasEntropyError \/ temporaryEntropy.customEntropyHex \in TooLong

LEMMA NewFieldsAgree ==
    ASSUME SetNewTemporaryEntropy
    PROVE  FieldsAgree'
BY DEF SetNewTemporaryEntropy, FieldsAgree

LEMMA NextFields == SignUpInv /\ FieldsAgree /\ [Next]_vars => FieldsAgree'
<1> SUFFICES ASSUME TypeOK, FieldsAgree, [Next]_vars PROVE FieldsAgree'
  BY DEF SignUpInv
<1>t. temporaryEntropy \in TemporaryEntropy
  BY DEF TypeOK
<1>1. CASE VisitSignUp \/ VisitLoadSeed
  BY <1>1 DEF VisitSignUp, VisitLoadSeed, FieldsAgree
<1>2. CASE LeaveSignUp \/ GetNewEntropy
  BY <1>2, NewFieldsAgree DEF LeaveSignUp, GetNewEntropy
<1>3. ASSUME NEW m \in Own \cup {Gibberish}, NEW x \in Text, ClickLoadAccount(m, x)
      PROVE  FieldsAgree'
  BY <1>3 DEF ClickLoadAccount, FieldsAgree
<1>4. CASE ToggleAdvanced \/ StepOneNext \/ StepTwoBack \/ StepTwoNext
  BY <1>4 DEF ToggleAdvanced, StepOneNext, StepTwoBack, StepTwoNext, errorVars, FieldsAgree,
              HasEntropyError
<1>5. ASSUME NEW t \in Own \cup {Gibberish}, CheckMnemonic(t)
      PROVE  FieldsAgree'
  <2>1. CASE IsValidMnemonic(t)
    <3>1. temporaryEntropy'.customEntropyHex = t /\ temporaryEntropy'.mnemonic = t
      BY <1>5, <1>t, <2>1 DEF CheckMnemonic, TemporaryEntropy
    <3> QED
      BY <3>1 DEF FieldsAgree
  <2>2. CASE ~IsValidMnemonic(t)
    BY <1>5, <2>2 DEF CheckMnemonic, Editing, InStep, FieldsAgree, HasEntropyError
  <2> QED
    BY <2>1, <2>2
<1>6. ASSUME NEW t \in Own \cup TooLong \cup {Gibberish}, CheckEntropyHex(t)
      PROVE  FieldsAgree'
  <2>1. /\ page' = "sign-up"
        /\ temporaryEntropy'.customEntropyHex = t
        /\ t \in Entropy => temporaryEntropy'.mnemonic = t
        /\ showEntropyHexError' = ~IsValidCustomEntropyHex(t)
    BY <1>6, <1>t DEF CheckEntropyHex, Editing, InStep, TemporaryEntropy
  <2> QED
    BY <2>1 DEF FieldsAgree, HasEntropyError, IsValidCustomEntropyHex
<1>7. ASSUME NEW t \in Text, NormalizeExtraText(t)
      PROVE  FieldsAgree'
  <2>1. /\ temporaryEntropy'.customEntropyHex = temporaryEntropy.customEntropyHex
        /\ temporaryEntropy'.mnemonic = temporaryEntropy.mnemonic
    BY <1>7, <1>t DEF NormalizeExtraText, TemporaryEntropy
  <2> QED
    BY <1>7, <2>1 DEF NormalizeExtraText, errorVars, FieldsAgree, HasEntropyError
<1>8. ASSUME NEW t \in Phrase, TypeMnemonicCheck(t)
      PROVE  FieldsAgree'
  BY <1>8 DEF TypeMnemonicCheck, errorVars, FieldsAgree, HasEntropyError
<1>9. ASSUME NEW t \in Text, TypeExtraTextCheck(t)
      PROVE  FieldsAgree'
  BY <1>9 DEF TypeExtraTextCheck, errorVars, FieldsAgree, HasEntropyError
<1>10. CASE UNCHANGED vars
  BY <1>10 DEF vars, errorVars, FieldsAgree, HasEntropyError
<1> QED
  BY <1>1, <1>2, <1>3, <1>4, <1>5, <1>6, <1>7, <1>8, <1>9, <1>10 DEF Next

\* What the page shows as the entropy of the phrase is its entropy, whenever no
\* error is shown and the entropy is not too long for a phrase.
THEOREM EntropyShownIsOfPhrase == Spec => []EntropyIsOfPhrase
<1>1. Init => FieldsAgree
  BY DEF Init, FieldsAgree
<1>2. FieldsAgree => EntropyIsOfPhrase
  BY DEF FieldsAgree, EntropyIsOfPhrase
<1> QED
  BY <1>1, <1>2, NextFields, SignUpInvariant, PTL DEF Spec
=============================================================================
