---------------------------- MODULE MCBackendPsbt ----------------------------
(* Lists of up to MaxCoins unspent outputs of two transactions.              *)
EXTENDS BackendPsbt
CONSTANTS MaxCoins, Value
Lists   == UNION {[1 .. k -> [hash : Hash, value : Value]] : k \in 0 .. MaxCoins}
Amounts == -1 .. 12
=============================================================================
