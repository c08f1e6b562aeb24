--------------------------- MODULE MCIdentityStorage ---------------------------
(* Two windows of one host and its iframe, for TLC. *)
EXTENDS IdentityStorage, TLC

\* Bounds: credentials, keys, and what goes on at once: two windows whose keys
\* are in the iframe's reach, or one window (and one account) and the iframe.
Busy == {w \in Window : window[w] # Closed}
IframeIdle == request = NoRequest /\ answer = "none"
Bounded ==
    /\ Cardinality(credentials) <= 2 /\ nextKey <= MaxKeys + 2
    /\ \/ ~mustUseStorageAccess /\ IframeIdle
       \/ Cardinality(Busy) <= 1 /\ Cardinality(users) <= 1

StorageSymmetry == Permutations(Window) \cup Permutations(Account)
=============================================================================
