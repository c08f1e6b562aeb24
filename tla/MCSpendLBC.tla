------------------------------ MODULE MCSpendLBC ------------------------------
(* Two addresses: one whose outputs make cheap and absurd payments, one with a  *)
(* single output.  Wallets: an ordinary one; one with a second account whose    *)
(* address is not shown and whose key signs nevertheless; one that holds the    *)
(* first address's key but whose addresses cannot be read; one that can only    *)
(* verify.                                                                      *)
EXTENDS SpendLBC
CONSTANTS a1, a2, h1, h2, h3
Outputs == [a \in Address |-> IF a = a1 THEN <<[hash |-> h1, value |-> 2], [hash |-> h2, value |-> 6]>>
                                        ELSE <<[hash |-> h3, value |-> 3]>>]
Of(a, generator, key) == [address |-> a, generator |-> generator, key |-> key]
Wallets == {<<Of(a1, "single-address", "private")>>,
            <<Of(a2, "single-address", "private"), Of(a1, "deterministic-chain", "private")>>,
            <<Of(a1, "deterministic-chain", "private"), Of(a2, "none", "private")>>,
            <<Of(a1, "single-address", "public")>>}
=============================================================================
