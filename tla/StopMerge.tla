------------------------------ MODULE StopMerge ------------------------------
(***************************************************************************)
(* StopSet on several nodes: each adds its own STOPs and RESUMEs and       *)
(* merges whatever state of another node reaches it, late, twice or out    *)
(* of order.  No code of the repository sends the states yet: a message is *)
(* any state the set of a node has had.                                    *)
(***************************************************************************)
EXTENDS Naturals, FiniteSets

CONSTANTS
    Nodes,
    StopIds,        \* the STOPs that may be issued, each by one node
    Owner           \* which: an id names its node

VARIABLES
    stops,          \* node -> ids of its StopSet.stops
    resumes,        \* node -> ids of STOPs cited in its StopSet.resumes
    past,           \* every state some node has had: what may be in transit
    heard           \* node -> what causally precedes its state: acts of any node

stopVars == <<stops, resumes, past, heard>>

-----------------------------------------------------------------------------
StopInit ==
    /\ stops = [n \in Nodes |-> {}]
    /\ resumes = [n \in Nodes |-> {}]
    /\ past = {}
    /\ heard = [n \in Nodes |-> {}]

\* The state node n has after a step goes into transit.
Publish(n) == past' = past \cup {[stops |-> stops'[n], resumes |-> resumes'[n],
                                  heard |-> heard'[n]]}
Hears(n, acts) == heard' = [heard EXCEPT ![n] = @ \cup acts]

\* try_add_stop.
AddStop(n) ==
    \E id \in StopIds :
        /\ Owner[id] = n /\ id \notin stops[n]
        /\ stops' = [stops EXCEPT ![n] = @ \cup {id}]
        /\ Hears(n, {<<"stop", id>>})
        /\ UNCHANGED resumes
        /\ Publish(n)

\* add_resume: refused unless it cites a STOP the node knows.
AddResume(n) ==
    \E id \in stops[n] \ resumes[n] :
        /\ resumes' = [resumes EXCEPT ![n] = @ \cup {id}]
        /\ Hears(n, {<<"resume", id>>})
        /\ UNCHANGED stops
        /\ Publish(n)

\* Variant of MergeStops: the resumes are filtered by the STOPs known before the merge.
MergeStopsLast(n, other) ==
    /\ resumes' = [resumes EXCEPT ![n] = @ \cup (other.resumes \cap stops[n])]
    /\ stops' = [stops EXCEPT ![n] = @ \cup other.stops]

\* merge: the STOPs first, then the RESUMEs whose STOP is there.
MergeStops(n, other) ==
    /\ stops' = [stops EXCEPT ![n] = @ \cup other.stops]
    /\ resumes' = [resumes EXCEPT ![n] = @ \cup (other.resumes \cap (stops[n] \cup other.stops))]

ReceiveStops(n) ==
    \E other \in past :
        /\ MergeStops(n, other)
        /\ Hears(n, other.heard)
        /\ Publish(n)

StopNext == \E n \in Nodes : AddStop(n) \/ AddResume(n) \/ ReceiveStops(n)

StopSpec == StopInit /\ [][StopNext]_stopVars

-----------------------------------------------------------------------------
(* Properties *)

\* StopSet::stopped, for the scope of one STOP.
InForceAt(n) == stops[n] \ resumes[n]

\* Two nodes that have heard of the same acts, by whatever way and in whatever order,
\* hold the same STOPs in force (merge).
SameNewsSameStops ==
    \A n, m \in Nodes : heard[n] = heard[m] => InForceAt(n) = InForceAt(m)

\* Nothing heard of is lost in a merge: no STOP, and no RESUME that would leave its
\* STOP in force on one node for ever (merge, I3).
NothingHeardIsLost ==
    \A n \in Nodes : heard[n] = {<<"stop", id>> : id \in stops[n]}
                                  \cup {<<"resume", id>> : id \in resumes[n]}

\* The STOPs converge: nothing is lost on the way, and the same news has the same
\* effect everywhere.
StopsConverge == NothingHeardIsLost /\ SameNewsSameStops
=============================================================================
