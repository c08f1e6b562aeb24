------------------------------- MODULE MCSignUp -------------------------------
(* Small instances of SignUp for TLC: three passphrases, one of which changes   *)
(* when it is normalized.                                                       *)
EXTENDS SignUp, TLC
CONSTANTS plain, composed, decomposed, e1, e2, e3, own, long
RandomSymmetry == Permutations({e1, e2, e3})
NFKDOfTexts == [t \in Text |-> IF t = composed THEN decomposed ELSE t]
=============================================================================
