------------------------------- MODULE MCLeases -------------------------------
(***************************************************************************)
(* Leases for TLC.  Holders are symmetric: no action and no property names *)
(* one of them.                                                            *)
(***************************************************************************)
EXTENDS Leases, TLC

Symmetry == Permutations(Holders)
=============================================================================
