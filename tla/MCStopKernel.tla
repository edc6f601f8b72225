---------------------------- MODULE MCStopKernel ----------------------------
(***************************************************************************)
(* StopKernel for TLC.  The constants are given in the .cfg files; MaxId   *)
(* bounds the STOPs and RESUMEs together, since they share one counter.    *)
(***************************************************************************)
EXTENDS StopKernel
=============================================================================
