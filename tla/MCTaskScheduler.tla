--------------------------- MODULE MCTaskScheduler ---------------------------
(***************************************************************************)
(* TaskScheduler for TLC, with the plans of the runs: what `vk task submit` *)
(* makes, and what any other client may ask for: a second draft and        *)
(* approval, a plan approved before its draft, a harness, no step at all.  *)
(***************************************************************************)
EXTENDS TaskScheduler

TwoDrafts == <<"draft", "approve", "draft", "approve", "release">>
PlanFirst == <<"infer", "approve", "draft", "infer", "release">>
Harnessed == <<"infer", "harness", "release">>

MCPlans == {Submitted(TRUE, TRUE), Submitted(FALSE, TRUE), TwoDrafts, PlanFirst, Harnessed, <<>>}
MCSubmitted == {Submitted(TRUE, TRUE)}
=============================================================================
