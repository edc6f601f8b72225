---------------------------- MODULE MCLedgerStore ----------------------------
(***************************************************************************)
(* LedgerStore for TLC: segments of two events, so that four or five       *)
(* appends cross into a second and a third file.                           *)
(***************************************************************************)
EXTENDS LedgerStore
=============================================================================
