----------------------------- MODULE HybridClock -----------------------------
(***************************************************************************)
(* HlcClock: local events (now) and remote ones (receive) of nodes whose   *)
(* wall clocks disagree, may be set back, and which start again from zero  *)
(* (RealKernel::open makes a new clock and load does not restore it).  A   *)
(* stamp is a pair <<wall, counter>>.                                      *)
(***************************************************************************)
EXTENDS Naturals, FiniteSets

CONSTANTS
    Clocks,         \* the nodes
    MaxTime,        \* bound: wall time
    MaxSkew,        \* how far ahead a remote stamp may be
    MaxStamps       \* bound: stamps given

ASSUME ClockBounds == MaxTime \in Nat /\ MaxSkew \in Nat /\ MaxStamps \in Nat

VARIABLES
    wall,           \* node -> its wall clock
    furthest,       \* node -> the furthest its wall clock was in this run
    last,           \* node -> HlcClock.last
    seen,           \* node -> the stamps this run gave or accepted
    stamps          \* every stamp ever given, with its node

clockVars == <<wall, furthest, last, seen, stamps>>

-----------------------------------------------------------------------------
Max2(a, b) == IF a > b THEN a ELSE b
Less(s, t) == s[1] < t[1] \/ (s[1] = t[1] /\ s[2] < t[2])
Zero == <<0, 0>>

ClockInit ==
    /\ wall = [n \in Clocks |-> 0]
    /\ furthest = [n \in Clocks |-> 0]
    /\ last = [n \in Clocks |-> Zero]
    /\ seen = [n \in Clocks |-> {}]
    /\ stamps = {}

Give(n, s, causes) ==
    /\ Cardinality(stamps) < MaxStamps
    /\ last' = [last EXCEPT ![n] = s]
    /\ seen' = [seen EXCEPT ![n] = @ \cup causes \cup {s}]
    /\ stamps' = stamps \cup {<<n, s>>}
    /\ UNCHANGED <<wall, furthest>>

\* now.
Local(n) ==
    Give(n, IF wall[n] > last[n][1] THEN <<wall[n], 0>> ELSE <<last[n][1], last[n][2] + 1>>, {})

\* Variant of Counter: the remote counter is left out where the walls tie.
CounterOwn(mine, r, top) ==
    CASE top = mine[1] -> mine[2] + 1
      [] top # mine[1] /\ top = r[1] -> r[2] + 1
      [] OTHER -> 0

Counter(mine, r, top) ==
    CASE top = mine[1] /\ top = r[1] -> Max2(mine[2], r[2]) + 1
      [] top = mine[1] /\ top # r[1] -> mine[2] + 1
      [] top # mine[1] /\ top = r[1] -> r[2] + 1
      [] OTHER -> 0

\* ClockAnomaly: the remote stamp is refused, the clock untouched.
Anomalous(n, remote) == remote[1] > wall[n] + MaxSkew

\* receive.
Remote(n) ==
    \E e \in stamps :
        LET r == e[2]
            top == Max2(wall[n], Max2(last[n][1], r[1]))
        IN  e[1] # n /\ ~Anomalous(n, r) /\ Give(n, <<top, Counter(last[n], r, top)>>, {r})

Ticks(n) ==
    \E t \in 0..MaxTime :
        /\ wall' = [wall EXCEPT ![n] = t]
        /\ furthest' = [furthest EXCEPT ![n] = Max2(@, t)]
        /\ UNCHANGED <<last, seen, stamps>>

\* A restart of the node.
Renew(n) ==
    /\ last' = [last EXCEPT ![n] = Zero]
    /\ seen' = [seen EXCEPT ![n] = {}]
    /\ furthest' = [furthest EXCEPT ![n] = wall[n]]
    /\ UNCHANGED <<wall, stamps>>

ClockNext == \E n \in Clocks : Local(n) \/ Remote(n) \/ Ticks(n) \/ Renew(n)

ClockSpec == ClockInit /\ [][ClockNext]_clockVars

-----------------------------------------------------------------------------
(* Properties *)

\* The clock stands at or after every stamp this run gave or accepted, so what comes
\* next is stamped after its causes (receive).
CausesComeFirst == \A n \in Clocks : \A s \in seen[n] : ~Less(last[n], s)

\* However many stamps arrive, they push a clock no more than the skew past the node's
\* own wall clock (receive: ClockAnomaly).
DriftIsBounded == \A n \in Clocks : last[n][1] <= furthest[n] + MaxSkew

\* The clock orders what it stamps: causes first, near the wall clock, and within a
\* run never the same stamp twice and never backwards, whatever the wall clock does.
ClockOrders ==
    /\ [](CausesComeFirst /\ DriftIsBounded)
    /\ [][\A n \in Clocks : last'[n] \in {last[n], Zero} \/ Less(last[n], last'[n])]_clockVars
=============================================================================
