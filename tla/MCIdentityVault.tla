--------------------------- MODULE MCIdentityVault ---------------------------
(* Small instances of IdentityVault for TLC. *)
EXTENDS IdentityVault, FiniteSetsExt, TLC

CONSTANTS t1, t2, h1, h2, mainnet, testnet

SameHost == [t \in Tab |-> h1]
TwoHosts == [t \in Tab |-> IF t = t1 THEN h1 ELSE h2]
SameNetwork == [t \in Tab |-> mainnet]

\* Bound on what goes on at once: open windows, login messages and requests.
InMotion == MapThenSumSet(LAMBDA t : (IF window[t] = Closed THEN 0 ELSE 1)
                                     + Len(posted[t])
                                     + (IF request[t] = NoRequest THEN 0 ELSE 1), Tab)
AtMostTwoInMotion == InMotion <= 2

TabSymmetry  == Permutations(Tab)
TabSeedSymmetry == TabSymmetry \cup Permutations(Seed)
=============================================================================
