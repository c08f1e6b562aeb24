-------------------------- MODULE MCIdentityChannel --------------------------
(* Small instances of IdentityChannel for TLC. *)
EXTENDS IdentityChannel, TLC
PopupSymmetry == Permutations(Popup)
=============================================================================
