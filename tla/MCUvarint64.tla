----------------------------- MODULE MCUvarint64 -----------------------------
(* Numbers of at most two 1 bits, and those whose 1 bits or 0 bits are the       *)
(* lowest ones: every pair of groups and every boundary occurs.                  *)
EXTENDS Uvarint64
CONSTANT SampleBits
Samples == {{a, b} : a, b \in SampleBits}
           \cup {0 .. a - 1 : a \in 0 .. 64} \cup {a .. 63 : a \in SampleBits}
=============================================================================
