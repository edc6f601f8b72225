----------------------------- MODULE MCSyscalls -----------------------------
(***************************************************************************)
(* Presence and Inference for TLC: how a request comes to be human, and    *)
(* what one that infers does.  They share no state, so a behaviour         *)
(* exercises one of them.  Threads of the server are interchangeable.      *)
(* Inference has two arches, one of them cleared for everything and the    *)
(* other, under one id, with two manifests that differ in clearance and    *)
(* ceiling; goals, constraints and evidence of one line and of two.        *)
(***************************************************************************)
EXTENDS Presence, Inference, TLC

VARIABLE part
MCVars == <<presenceVars, vars, part>>

Interchangeable == Permutations(Slots)

Line(kind, len) == [kind |-> kind, len |-> len]
Tiny == <<Line("PLAIN", 4)>>
Short == <<Line("PLAIN", 20)>>
Long == <<Line("PLAIN", 60)>>
TwoLines == <<Line("PLAIN", 20), Line("PLAIN", 24)>>
Quoting == <<Line("PLAIN", 10), Line("GOAL", 16)>>

Arch(id, ceiling, maxScope) ==
    [id |-> id, ceiling |-> ceiling, maxScope |-> maxScope, thirdParty |-> FALSE]
MCManifests == {Arch("local", 40, 3), Arch("cloud", 34, 1), 
                Arch("cloud", 48, 2)}
MCGoals == {Short, TwoLines}
MCLabels == {[scope |-> 0, class |-> Own, origins |-> {}], [scope |-> 2, class |-> Own, origins |-> {}]}
MCEdits == {[constraints |-> <<Tiny, Short>>, evidence |-> <<TwoLines, Long>>]}
MCClearances == {[maxScope |-> 4, thirdParty |-> TRUE]}
MCAnswers == {Quoting}

MCInit == part \in {"presence", "inference"} /\ PresenceInit /\ Init
MCNext ==
    /\ UNCHANGED part
    /\ \/ part = "presence" /\ PresenceNext /\ UNCHANGED vars
       \/ part = "inference" /\ Next /\ UNCHANGED presenceVars
MCSpec == MCInit /\ [][MCNext]_MCVars
=============================================================================
