----------------------------- MODULE LeasesProofs -----------------------------
(***************************************************************************)
(* The lease syscall for any holders, partitions and times: never two      *)
(* holders, whatever fails and restarts; and the numbers that fence them   *)
(* move on.                                                                *)
(***************************************************************************)
EXTENDS Leases, WellFoundedInduction, TLAPS

\* The shape of the variables that TypeOK describes by their parts.
Shapes ==
    /\ call \in {Idle} \cup [at : {"row", "delete", "log"}, lease : Lease,
                             superseded : SUBSET Lease]
    /\ told \in [Holders -> [Partitions -> Lease \cup {NoLease}]]
    /\ sure \in [Holders -> [Partitions -> Nat]]

\* A fence names one row, an id names one row, and a later fence was granted later.
RowsAreOrdered ==
    /\ \A l, k \in rows :
          /\ l.fence = k.fence \/ l.id = k.id => l = k
          /\ l.fence > k.fence => l.granted >= k.granted
    /\ \A l \in rows : l.granted <= now

\* No number in use, in memory or on disk, is ahead of the counter it came from.
CountersLead ==
    up => /\ \A l \in rows \cup table : l.id <= minted /\ l.fence <= home
          /\ fenceRow <= home

\* A lease that holders were told of was fenced on disk before.
ToldIsFenced ==
    \A h \in Holders, p \in Partitions : told[h][p] # NoLease => told[h][p].fence <= fenceRow

\* The lease of the call in progress has the newest numbers, and is in memory; its
\* row is on disk once it was put; what it supersedes is the rest of its slot.
CallIsNewest ==
    call # Idle =>
        /\ up
        /\ call.lease \in table
        /\ call.lease.id = minted
        /\ call.lease.fence = home
        /\ call.lease.granted <= now
        /\ call.superseded = InSlot(rows, call.lease.partition) \ {call.lease}
        /\ call.at = "row" => \A k \in rows : /\ k.id < minted
                                              /\ k.fence < home
                                              /\ k.granted <= call.lease.granted
        /\ call.at # "row" => call.lease \in rows
        /\ call.at # "log" => fenceRow < home
        /\ call.at = "log" => call.superseded = {} /\ fenceRow = home
        /\ \A h \in Holders, p \in Partitions : told[h][p] # NoLease => told[h][p].fence < home

\* Memory knows the holder who still has time, and for as long.
MemoryRemembers ==
    up => \A h \in Holders, p \in Partitions : Holds(h, p) =>
              \E l \in table : l.holder = h /\ l.partition = p /\ sure[h][p] <= Ends(l)

\* So does the disk: of the rows of a partition that are good, the newest is that
\* holder's.  It is the one load() restores.
IsFirst(r) == \A k \in InSlot(rows, r.partition) : Expired(k) \/ k.fence <= r.fence
DiskRemembers ==
    \A h \in Holders, p \in Partitions : Holds(h, p) =>
        \E r \in rows : /\ r.holder = h /\ r.partition = p /\ sure[h][p] <= Ends(r)
                        /\ IsFirst(r)

\* The inductive invariant.
IInv ==
    /\ TypeOK
    /\ Shapes
    /\ RowsAreOrdered
    /\ CountersLead
    /\ ToldIsFenced
    /\ CallIsNewest
    /\ MemoryRemembers
    /\ DiskRemembers

-----------------------------------------------------------------------------
(* Facts about leases and sets of numbers. *)

LEMMA LeaseFields ==
    ASSUME NEW l \in Lease
    PROVE  /\ l.id \in Nat /\ l.id \in 1..MaxGrants
           /\ l.holder \in Holders /\ l.partition \in Partitions
           /\ l.granted \in Nat /\ l.granted \in Times
           /\ l.ttl \in Nat
           /\ l.fence \in Nat /\ l.fence \in 1..MaxGrants
           /\ Ends(l) \in Nat
<1>1. /\ l.id \in 1..MaxGrants /\ l.fence \in 1..MaxGrants
      /\ l.holder \in Holders /\ l.partition \in Partitions
      /\ l.granted \in Times /\ l.ttl \in Ttls
    BY DEF Lease
<1>2. l.ttl \in Nat
    BY <1>1, BoundsAssumption
<1>3. l.id \in Nat /\ l.fence \in Nat
    BY <1>1, BoundsAssumption
<1>4. l.granted \in Nat
    BY <1>1, BoundsAssumption DEF Times
<1> QED BY <1>1, <1>2, <1>3, <1>4 DEF Ends

\* Numbers up to a bound have a greatest one.
LEMMA HasMax ==
    ASSUME NEW N \in Nat, NEW S, S \subseteq 0..N, S # {}
    PROVE  Max(S) \in S /\ \A x \in S : x <= Max(S)
<1> DEFINE Less == {ss \in Nat \X Nat : ss[1] < ss[2]}
           T == {N - x : x \in S}
<1>1. IsWellFoundedOn(Less, Nat)
    <2>1. Less = OpToRel(<, Nat)
        BY DEF OpToRel
    <2> QED BY <2>1, NatLessThanWellFounded
<1>2. T \subseteq Nat /\ T # {}
    <2>1. \A x \in S : N - x \in Nat /\ N - x \in T
        OBVIOUS
    <2> QED BY <2>1
<1>3. PICK t \in T : \A u \in T : ~(<<u, t>> \in Less)
    <2> HIDE DEF T, Less
    <2> QED BY <1>1, <1>2, WFMin
<1>4. PICK m \in S : t = N - m
    OBVIOUS
<1>5. \A x \in S : x <= m
    <2> TAKE x \in S
    <2>1. <<N - x, t>> \notin Less /\ N - x \in Nat /\ t \in Nat
        BY <1>2, <1>3
    <2> QED BY <1>4, <2>1
<1> QED BY <1>5 DEF Max

\* MaxOr is an upper bound, and one of what it is taken of.
LEMMA MaxOrBounds ==
    ASSUME NEW S, S \subseteq 0..MaxGrants, NEW n \in 0..MaxGrants
    PROVE  /\ MaxOr(S, n) \in 0..MaxGrants
           /\ n <= MaxOr(S, n)
           /\ \A x \in S : x <= MaxOr(S, n)
BY BoundsAssumption, HasMax DEF MaxOr

\* load() prefers one row of a slot, the one with the highest fence.
LEMMA NewestIsFirst ==
    ASSUME TypeOK, RowsAreOrdered, NEW S, S \subseteq rows, S # {}
    PROVE  Newest(S) \in S /\ \A k \in S : k.fence <= Newest(S).fence
<1>1. \A l \in S : l \in Lease
    BY DEF TypeOK
<1> DEFINE fences == {l.fence : l \in S}
<1>2. PICK r \in S : \A k \in S : k.fence <= r.fence
    <2>1. fences \subseteq 0..MaxGrants /\ fences # {}
        BY <1>1, LeaseFields, BoundsAssumption
    <2>2. Max(fences) \in fences /\ \A x \in fences : x <= Max(fences)
        <3> HIDE DEF fences
        <3> QED BY <2>1, HasMax, BoundsAssumption
    <2> QED BY <2>2
<1>3. \A k \in S \ {r} : Newer(r, k)
    <2> TAKE k \in S \ {r}
    <2>1. k.fence # r.fence /\ k.fence \in Nat /\ r.fence \in Nat /\ k.granted \in Nat /\ r.granted \in Nat
        BY <1>1, LeaseFields DEF RowsAreOrdered
    <2>2. r.fence > k.fence
        BY <1>2, <2>1
    <2>3. r.granted >= k.granted
        BY <2>2 DEF RowsAreOrdered
    <2> QED BY <2>1, <2>2, <2>3 DEF Newer
<1>4. Newest(S) \in S /\ \A k \in S \ {Newest(S)} : Newer(Newest(S), k)
    BY <1>3 DEF Newest
<1> DEFINE c == Newest(S)
<1>5. \A k \in S : k.fence <= c.fence
    <2> SUFFICES ASSUME NEW k \in S, k # c PROVE k.fence <= c.fence
        BY <1>1, <1>4, LeaseFields
    <2>1. k.fence \in Nat /\ c.fence \in Nat /\ k.granted \in Nat /\ c.granted \in Nat
        BY <1>1, <1>4, LeaseFields
    <2>2. Newer(c, k) /\ (k.fence > c.fence => k.granted >= c.granted)
        BY <1>4 DEF RowsAreOrdered
    <2> HIDE DEF c
    <2> QED BY <2>1, <2>2 DEF Newer
<1> QED BY <1>4, <1>5

\* What load() restores: of each partition that has a good row, the good row with
\* the highest fence.
LEMMA RestoredRows ==
    ASSUME TypeOK, RowsAreOrdered
    PROVE  /\ Restored \subseteq rows
           /\ \A l, k \in Restored : l.partition = k.partition => l = k
           /\ \A r \in rows : ~Expired(r) /\ IsFirst(r) => r \in Restored
<1> DEFINE Slot(p) == InSlot(Good, p)
<1>1. \A l \in Good : Slot(l.partition) # {} /\ Slot(l.partition) \subseteq rows
    BY DEF Good, InSlot
<1>2. \A l \in Good : /\ Newest(Slot(l.partition)) \in Slot(l.partition)
                      /\ \A k \in Slot(l.partition) : k.fence <= Newest(Slot(l.partition)).fence
    BY <1>1, NewestIsFirst
<1>3. \A l \in Restored : l \in rows /\ l = Newest(Slot(l.partition))
    <2> TAKE l \in Restored
    <2>1. PICK g \in Good : l = Newest(Slot(g.partition))
        BY DEF Restored
    <2>2. l \in Slot(g.partition)
        BY <1>2, <2>1
    <2> QED BY <2>1, <2>2 DEF InSlot, Good
<1>4. ASSUME NEW r \in rows, ~Expired(r), IsFirst(r) PROVE r \in Restored
    <2> DEFINE c == Newest(Slot(r.partition))
    <2>1. r \in Good
        BY <1>4 DEF Good
    <2>2. c \in Slot(r.partition) /\ r \in Slot(r.partition) /\ c \in Restored
        BY <1>2, <2>1 DEF InSlot, Restored
    <2>3. c \in rows /\ c.fence <= r.fence /\ r.fence <= c.fence
        BY <1>2, <1>4, <2>1, <2>2 DEF IsFirst, InSlot, Good
    <2>4. c.fence \in Nat /\ r.fence \in Nat
        BY <2>3, LeaseFields DEF TypeOK
    <2> HIDE DEF c
    <2>5. c = r
        BY <2>3, <2>4 DEF RowsAreOrdered
    <2> QED BY <2>2, <2>5
<1> QED BY <1>3, <1>4

-----------------------------------------------------------------------------
LEMMA InvInit == Init => IInv
<1> SUFFICES ASSUME Init PROVE IInv
    OBVIOUS
<1>1. \A h \in Holders, p \in Partitions : told[h][p] = NoLease /\ sure[h][p] = 0
    BY DEF Init
<1>2. TypeOK
    <2>1. 0 \in Times /\ 0 \in 0..MaxGrants
        BY BoundsAssumption DEF Times
    <2> QED BY <1>1, <2>1 DEF Init, TypeOK
<1>3. Shapes
    BY DEF Init, Shapes
<1>4. RowsAreOrdered /\ CountersLead /\ CallIsNewest
    BY DEF Init, RowsAreOrdered, CountersLead, CallIsNewest
<1>5. ToldIsFenced /\ MemoryRemembers /\ DiskRemembers
    BY <1>1 DEF ToldIsFenced, MemoryRemembers, DiskRemembers, Holds
<1> QED BY <1>2, <1>3, <1>4, <1>5 DEF IInv

-----------------------------------------------------------------------------
(* One lemma per action. *)

\* Time only takes: leases expire, and nobody holds what he did not hold before.
LEMMA TickKeeps == IInv /\ Tick => IInv'
<1> SUFFICES ASSUME IInv, Tick PROVE IInv'
    OBVIOUS
<1>1. UNCHANGED <<disk, process, heard>> /\ now' = now + 1 /\ now' \in Times /\ now \in Nat
    BY BoundsAssumption DEF IInv, TypeOK, Tick, Times
<1> USE <1>1 DEF disk, process, heard
<1>2. TypeOK' /\ Shapes'
    BY DEF IInv, TypeOK, Shapes, Ends
<1>3. \A l \in Lease : l.granted <= now => l.granted <= now'
    BY LeaseFields
<1>4. RowsAreOrdered'
    BY <1>3 DEF IInv, TypeOK, RowsAreOrdered
<1>5. CountersLead' /\ ToldIsFenced'
    BY DEF IInv, CountersLead, ToldIsFenced
<1>6. CallIsNewest'
    BY <1>3 DEF IInv, TypeOK, CallIsNewest, InSlot
<1>7. \A h \in Holders, p \in Partitions : Holds(h, p)' => Holds(h, p)
    BY DEF IInv, Shapes, Holds
<1>8. MemoryRemembers'
    BY <1>7 DEF IInv, MemoryRemembers, Ends
<1>9. DiskRemembers'
    <2>1. \A l \in rows : Expired(l) => Expired(l)'
        BY LeaseFields DEF IInv, TypeOK, Expired, Ends
    <2>2. \A r \in rows : IsFirst(r) => IsFirst(r)'
        BY <2>1 DEF IsFirst, InSlot
    <2> QED BY <1>7, <2>2 DEF IInv, DiskRemembers, Ends
<1> QED BY <1>2, <1>4, <1>5, <1>6, <1>8, <1>9 DEF IInv

\* A request lowers what its holder counts on, and finds nobody else in the slot.
LEMMA AcquireKeeps ==
    ASSUME IInv, NEW h \in Holders, NEW p \in Partitions, NEW ttl \in Ttls, Acquire(h, p, ttl)
    PROVE  IInv'
<1> DEFINE l == [id |-> minted + 1, holder |-> h, partition |-> p,
                 granted |-> now, ttl |-> ttl, fence |-> home + 1]
<1>1. /\ up /\ call = Idle
      /\ minted < MaxGrants /\ home < MaxGrants
      /\ \A k \in InSlot(table, p) : Expired(k) \/ k.holder = h
      /\ table' = (table \ InSlot(table, p)) \cup {l}
      /\ call' = [at |-> "row", lease |-> l,
                  superseded |-> {k \in InSlot(rows, p) : k.id # l.id}]
      /\ sure' = [sure EXCEPT ![h][p] = IF Ends(l) < @ THEN Ends(l) ELSE @]
      /\ minted' = minted + 1 /\ home' = home + 1
      /\ UNCHANGED <<now, rows, fenceRow, up, told>>
    BY DEF Acquire, Asks, IssueFence, disk
<1>2. minted \in Nat /\ home \in Nat /\ fenceRow \in Nat
    BY BoundsAssumption DEF IInv, TypeOK
<1>3. l \in Lease
    BY <1>1, <1>2, BoundsAssumption DEF IInv, TypeOK, Lease
<1>4. /\ l.id = minted + 1 /\ l.fence = home + 1 /\ l.granted = now
      /\ l.holder = h /\ l.partition = p
    OBVIOUS
<1> HIDE DEF l
<1>5. \A k \in rows \cup table : /\ k \in Lease /\ k.id \in Nat /\ k.fence \in Nat
                                 /\ k.id <= minted /\ k.fence <= home
    BY <1>1, LeaseFields DEF IInv, TypeOK, CountersLead
<1>6. \A g \in Holders, q \in Partitions :
          /\ sure[g][q] \in Nat /\ sure'[g][q] \in Nat
          /\ sure'[g][q] <= sure[g][q]
          /\ <<g, q>> # <<h, p>> => sure'[g][q] = sure[g][q]
          /\ sure'[h][p] <= Ends(l)
    BY <1>1, <1>3, LeaseFields DEF IInv, Shapes
<1>7. Shapes'
    <2>1. call' \in [at : {"row", "delete", "log"}, lease : Lease, superseded : SUBSET Lease]
        BY <1>1, <1>3, <1>5 DEF InSlot
    <2>2. sure' \in [Holders -> [Partitions -> Nat]]
        BY <1>1, <1>3, LeaseFields DEF IInv, Shapes
    <2> QED BY <1>1, <2>1, <2>2 DEF IInv, Shapes
<1>8. TypeOK'
    <2>1. \A k, m \in table' : (k.partition = m.partition \/ k.id = m.id) => k = m
        BY <1>1, <1>2, <1>4, <1>5 DEF IInv, TypeOK, InSlot
    <2>2. \A g \in Holders, q \in Partitions : told[g][q] = NoLease \/ sure'[g][q] <= Ends(told[g][q])
        <3> SUFFICES ASSUME NEW g \in Holders, NEW q \in Partitions, told[g][q] # NoLease
                     PROVE  sure'[g][q] <= Ends(told[g][q])
            OBVIOUS
        <3>1. told[g][q] \in Lease /\ sure[g][q] <= Ends(told[g][q])
            BY DEF IInv, TypeOK
        <3> QED BY <3>1, <1>6, LeaseFields
    <2>3. call'.at \in {"row", "delete", "log"} /\ call'.lease \in Lease /\ call'.superseded \subseteq Lease
        BY <1>1, <1>3, <1>5 DEF InSlot
    <2>4. table' \subseteq Lease /\ minted' \in 0..MaxGrants /\ home' \in 0..MaxGrants
        BY <1>1, <1>2, <1>3, <1>5, BoundsAssumption
    <2> QED BY <1>1, <2>1, <2>2, <2>3, <2>4 DEF IInv, TypeOK, Ends
<1>9. RowsAreOrdered' /\ ToldIsFenced'
    BY <1>1 DEF IInv, RowsAreOrdered, ToldIsFenced
<1>10. CountersLead'
    BY <1>1, <1>2, <1>4, <1>5 DEF IInv, CountersLead
<1>11. CallIsNewest'
    <2>1. \A k \in rows : k.id < minted' /\ k.fence < home' /\ k.granted <= l.granted /\ k # l /\ k.id # l.id
        BY <1>1, <1>2, <1>4, <1>5 DEF IInv, RowsAreOrdered
    <2>2. {k \in InSlot(rows, p) : k.id # l.id} = InSlot(rows, p) \ {l}
        BY <2>1 DEF InSlot
    <2>3. fenceRow < home'
        BY <1>1, <1>2 DEF IInv, CountersLead
    <2>4. \A g \in Holders, q \in Partitions : told'[g][q] # NoLease => told'[g][q].fence < home'
        <3> SUFFICES ASSUME NEW g \in Holders, NEW q \in Partitions, told[g][q] # NoLease
                     PROVE  told[g][q].fence < home + 1
            BY <1>1
        <3>1. told[g][q] \in Lease /\ told[g][q].fence <= fenceRow /\ fenceRow <= home
            BY <1>1 DEF IInv, TypeOK, ToldIsFenced, CountersLead
        <3> QED BY <3>1, <1>2, LeaseFields
    <2>5. l.granted <= now /\ InSlot(rows, p)' = InSlot(rows, p)
        BY <1>1, <1>4, BoundsAssumption DEF IInv, TypeOK, Times, InSlot
    <2>6. call'.at = "row" /\ call'.lease = l /\ call'.superseded = InSlot(rows, p) \ {l}
        BY <1>1, <2>2
    <2> QED BY <1>1, <1>4, <2>1, <2>3, <2>4, <2>5, <2>6 DEF CallIsNewest
<1>12. \A g \in Holders, q \in Partitions : Holds(g, q)' => Holds(g, q)
    BY <1>1, <1>6, BoundsAssumption DEF Holds, IInv, TypeOK, Times
<1>13. MemoryRemembers'
    <2> SUFFICES ASSUME NEW g \in Holders, NEW q \in Partitions, Holds(g, q)'
                 PROVE  \E k \in table' : k.holder = g /\ k.partition = q /\ sure'[g][q] <= Ends(k)
        BY DEF MemoryRemembers, Ends
    <2>1. PICK k \in table : k.holder = g /\ k.partition = q /\ sure[g][q] <= Ends(k)
        BY <1>1, <1>12 DEF IInv, MemoryRemembers
    <2>2. k \in Lease /\ Ends(k) \in Nat /\ now \in Nat
        BY <1>5, LeaseFields, BoundsAssumption DEF IInv, TypeOK, Times
    <2>3. CASE q = p
        <3>1. ~Expired(k)
            BY <2>1, <2>2, <1>6, <1>12 DEF Holds, Expired
        <3>2. g = h
            BY <2>1, <2>3, <3>1, <1>1 DEF InSlot
        <3> QED BY <2>3, <3>2, <1>1, <1>4, <1>6
    <2>4. CASE q # p
        <3>1. k \in table' /\ sure'[g][q] = sure[g][q]
            BY <2>1, <2>4, <1>1, <1>6 DEF InSlot
        <3> QED BY <2>1, <3>1
    <2> QED BY <2>3, <2>4
<1>14. DiskRemembers'
    <2> SUFFICES ASSUME NEW g \in Holders, NEW q \in Partitions, Holds(g, q)'
                 PROVE  \E r \in rows : /\ r.holder = g /\ r.partition = q /\ sure'[g][q] <= Ends(r)
                                        /\ IsFirst(r)
        BY <1>1 DEF DiskRemembers, IsFirst, InSlot, Expired, Ends
    <2>1. PICK r \in rows : r.holder = g /\ r.partition = q /\ sure[g][q] <= Ends(r) /\ IsFirst(r)
        BY <1>12 DEF IInv, DiskRemembers
    <2>2. sure'[g][q] <= Ends(r)
        BY <2>1, <1>5, <1>6, LeaseFields
    <2> QED BY <2>1, <2>2
<1> QED BY <1>7, <1>8, <1>9, <1>10, <1>11, <1>13, <1>14 DEF IInv

\* What a call in progress is.
LEMMA CallFields ==
    ASSUME IInv, call # Idle
    PROVE  /\ call = [at |-> call.at, lease |-> call.lease, superseded |-> call.superseded]
           /\ call.at \in {"row", "delete", "log"}
           /\ call.lease \in Lease /\ call.superseded \subseteq Lease
BY DEF IInv, Shapes

\* The new row is the newest of its slot, and whoever still has time in the slot is
\* its holder, as the table says.
LEMMA PutRowKeeps == IInv /\ PutRow => IInv'
<1> SUFFICES ASSUME IInv, PutRow PROVE IInv'
    OBVIOUS
<1> DEFINE l == call.lease
           p == l.partition
<1>1. /\ call.at = "row" /\ call # Idle
      /\ call' = [call EXCEPT !.at = "delete"]
      /\ UNCHANGED <<now, fenceRow, up, table, minted, home, told, sure>>
    BY DEF PutRow, Idle, heard
<1>2. /\ up /\ l \in table /\ l \in Lease
      /\ l.id = minted /\ l.fence = home /\ l.granted <= now
      /\ \A k \in rows : k.id < minted /\ k.fence < home /\ k.granted <= l.granted
    BY <1>1, CallFields DEF IInv, CallIsNewest
<1>3. \A k \in rows : /\ k \in Lease /\ k.id \in Nat /\ k.fence \in Nat /\ k.granted \in Nat
                      /\ Ends(k) \in Nat
    BY LeaseFields DEF IInv, TypeOK
<1>4. l.id \in Nat /\ l.fence \in Nat /\ l.granted \in Nat /\ Ends(l) \in Nat
    BY <1>2, LeaseFields
<1>5. rows' = rows \cup {l} /\ l \notin rows
    BY <1>2, <1>3, <1>4 DEF PutRow, Put
<1>6. call'.at = "delete" /\ call'.lease = l /\ call'.superseded = call.superseded
      /\ call' \in [at : {"row", "delete", "log"}, lease : Lease, superseded : SUBSET Lease]
    BY <1>1, CallFields
<1>7. TypeOK'
    BY <1>1, <1>2, <1>5, <1>6, CallFields DEF IInv, TypeOK, Ends
<1>8. Shapes'
    BY <1>1, <1>6 DEF IInv, Shapes
<1> HIDE DEF l
<1>9. RowsAreOrdered'
    <2>1. \A k \in rows : k.fence < l.fence /\ k.id < l.id /\ k.granted <= l.granted
        BY <1>2
    <2> QED BY <1>1, <1>2, <1>3, <1>4, <1>5, <2>1 DEF IInv, RowsAreOrdered
<1>10. CountersLead' /\ ToldIsFenced'
    BY <1>1, <1>2, <1>4, <1>5 DEF IInv, CountersLead, ToldIsFenced
<1>11. CallIsNewest'
    <2>1. call.superseded = InSlot(rows, p) \ {l} /\ fenceRow < home
          /\ \A h \in Holders, q \in Partitions : told[h][q] # NoLease => told[h][q].fence < home
        BY <1>1 DEF IInv, CallIsNewest, l
    <2>2. InSlot(rows, p) \ {l} = InSlot(rows', p) \ {l}
        BY <1>5 DEF InSlot
    <2> QED BY <1>1, <1>2, <1>5, <1>6, <2>1, <2>2 DEF CallIsNewest, InSlot
<1>12. \A h \in Holders, q \in Partitions : Holds(h, q)' <=> Holds(h, q)
    BY <1>1 DEF Holds
<1>13. MemoryRemembers'
    BY <1>1, <1>12 DEF IInv, MemoryRemembers, Ends
<1>14. DiskRemembers'
    <2> SUFFICES ASSUME NEW h \in Holders, NEW q \in Partitions, Holds(h, q)
                 PROVE  \E r \in rows' : /\ r.holder = h /\ r.partition = q /\ sure[h][q] <= Ends(r)
                                         /\ IsFirst(r)'
        BY <1>1, <1>12 DEF DiskRemembers, Ends
    <2>1. CASE q = p
        <3>1. l.holder = h /\ l.partition = q /\ sure[h][q] <= Ends(l)
            BY <1>1, <1>2, <2>1 DEF IInv, TypeOK, MemoryRemembers
        <3>2. \A r \in {l} : IsFirst(r)'
            BY <1>2, <1>3, <1>4, <1>5 DEF IsFirst, InSlot
        <3> QED BY <1>5, <3>1, <3>2
    <2>2. CASE q # p
        <3>1. PICK r \in rows : r.holder = h /\ r.partition = q /\ sure[h][q] <= Ends(r) /\ IsFirst(r)
            BY DEF IInv, DiskRemembers
        <3>2. IsFirst(r)'
            BY <1>1, <1>5, <2>2, <3>1 DEF IsFirst, InSlot, Expired, Ends
        <3> QED BY <1>5, <3>1, <3>2
    <2> QED BY <2>1, <2>2
<1> QED BY <1>7, <1>8, <1>9, <1>10, <1>11, <1>13, <1>14 DEF IInv

\* The rows of the slot that are older than the call's own may go: whoever still has
\* time holds the call's lease.
LEMMA DeleteKeeps == IInv /\ DeleteSuperseded => IInv'
<1> SUFFICES ASSUME IInv, DeleteSuperseded PROVE IInv'
    OBVIOUS
<1> DEFINE l == call.lease
           p == l.partition
<1>1. /\ call.at = "delete" /\ call # Idle
      /\ UNCHANGED <<now, fenceRow, up, table, minted, home, told, sure>>
    BY DEF DeleteSuperseded, Idle, heard
<1>2. PICK d \in call.superseded :
          rows' = rows \ {d} /\ call' = [call EXCEPT !.superseded = @ \ {d}]
    BY DEF DeleteSuperseded, Delete
<1>3. /\ up /\ l \in table /\ l \in Lease /\ l \in rows
      /\ call.superseded = InSlot(rows, p) \ {l}
    BY <1>1, CallFields DEF IInv, CallIsNewest
<1>4. /\ call'.at = "delete" /\ call'.lease = l /\ call'.superseded = call.superseded \ {d}
      /\ call' \in [at : {"row", "delete", "log"}, lease : Lease, superseded : SUBSET Lease]
    BY <1>1, <1>2, CallFields
<1>5. TypeOK'
    BY <1>1, <1>2, <1>4 DEF IInv, TypeOK, Ends
<1>6. Shapes'
    BY <1>1, <1>4 DEF IInv, Shapes
<1> HIDE DEF l
<1>7. RowsAreOrdered' /\ CountersLead' /\ ToldIsFenced'
    BY <1>1, <1>2 DEF IInv, RowsAreOrdered, CountersLead, ToldIsFenced
<1>8. CallIsNewest'
    <2>1. /\ l.id = minted /\ l.fence = home /\ l.granted <= now /\ fenceRow < home
          /\ \A h \in Holders, q \in Partitions : told[h][q] # NoLease => told[h][q].fence < home
        BY <1>1 DEF IInv, CallIsNewest, l
    <2>2. l \in rows' /\ call'.superseded = InSlot(rows', p) \ {l}
        BY <1>2, <1>3, <1>4 DEF InSlot
    <2> QED BY <1>1, <1>3, <1>4, <2>1, <2>2 DEF CallIsNewest, InSlot
<1>9. \A h \in Holders, q \in Partitions : Holds(h, q)' <=> Holds(h, q)
    BY <1>1 DEF Holds
<1>10. MemoryRemembers'
    BY <1>1, <1>9 DEF IInv, MemoryRemembers, Ends
<1>11. DiskRemembers'
    <2> SUFFICES ASSUME NEW h \in Holders, NEW q \in Partitions, Holds(h, q)
                 PROVE  \E r \in rows' : /\ r.holder = h /\ r.partition = q /\ sure[h][q] <= Ends(r)
                                         /\ IsFirst(r)'
        BY <1>1, <1>9 DEF DiskRemembers, Ends
    <2>1. PICK r \in rows : r.holder = h /\ r.partition = q /\ sure[h][q] <= Ends(r) /\ IsFirst(r)
        BY DEF IInv, DiskRemembers
    <2>2. r # d
        <3> SUFFICES ASSUME r = d PROVE FALSE
            OBVIOUS
        <3>1. q = p /\ r # l
            BY <1>2, <1>3, <2>1 DEF InSlot
        <3>2. sure[h][q] <= Ends(l)
            BY <1>1, <1>3, <3>1 DEF IInv, TypeOK, MemoryRemembers
        <3>3. ~Expired(l)
            BY <1>3, <3>2, LeaseFields, BoundsAssumption
               DEF Expired, Holds, IInv, TypeOK, Times, Shapes
        <3>4. l.fence <= r.fence
            BY <1>3, <2>1, <3>1, <3>3 DEF IsFirst, InSlot
        <3>5. r.fence <= l.fence /\ r.fence \in Nat /\ l.fence \in Nat
            BY <1>1, <1>3, LeaseFields DEF IInv, TypeOK, CountersLead, CallIsNewest, l
        <3> QED BY <1>3, <3>1, <3>4, <3>5 DEF IInv, RowsAreOrdered
    <2>3. IsFirst(r)'
        BY <1>1, <1>2, <2>1 DEF IsFirst, InSlot, Expired, Ends
    <2> QED BY <1>2, <2>1, <2>2, <2>3
<1> QED BY <1>5, <1>6, <1>7, <1>8, <1>10, <1>11 DEF IInv

LEMMA WriteFenceKeeps == IInv /\ WriteFence => IInv'
<1> SUFFICES ASSUME IInv, WriteFence PROVE IInv'
    OBVIOUS
<1>1. /\ call.at = "delete" /\ call # Idle /\ call.superseded = {}
      /\ fenceRow' = call.lease.fence
      /\ call' = [call EXCEPT !.at = "log"]
      /\ UNCHANGED <<now, rows, up, table, minted, home, told, sure>>
    BY DEF WriteFence, Idle, heard
<1>2. /\ up /\ call.lease.fence = home /\ fenceRow < home /\ home \in 0..MaxGrants
    BY <1>1 DEF IInv, TypeOK, CallIsNewest
<1>3. call'.at = "log" /\ call'.lease = call.lease /\ call'.superseded = {}
      /\ call' \in [at : {"row", "delete", "log"}, lease : Lease, superseded : SUBSET Lease]
    BY <1>1, CallFields
<1>4. TypeOK' /\ Shapes'
    BY <1>1, <1>2, <1>3, CallFields DEF IInv, TypeOK, Shapes, Ends
<1>5. RowsAreOrdered' /\ CountersLead'
    BY <1>1, <1>2, BoundsAssumption DEF IInv, RowsAreOrdered, CountersLead
<1>6. ToldIsFenced'
    <2> SUFFICES ASSUME NEW h \in Holders, NEW p \in Partitions, told[h][p] # NoLease
                 PROVE  told[h][p].fence <= home
        BY <1>1, <1>2 DEF ToldIsFenced
    <2>1. told[h][p].fence < home /\ told[h][p] \in Lease
        BY <1>1 DEF IInv, TypeOK, CallIsNewest
    <2> QED BY <1>2, <2>1, LeaseFields, BoundsAssumption
<1>7. CallIsNewest'
    BY <1>1, <1>2, <1>3 DEF IInv, CallIsNewest, InSlot
<1>8. MemoryRemembers' /\ DiskRemembers'
    BY <1>1 DEF IInv, MemoryRemembers, DiskRemembers, Holds, IsFirst, InSlot, Expired, Ends
<1> QED BY <1>4, <1>5, <1>6, <1>7, <1>8 DEF IInv

\* The holder is told of the lease that memory has, and that is alone in its slot on
\* disk.
LEMMA LogGrantKeeps == IInv /\ LogGrant => IInv'
<1> SUFFICES ASSUME IInv, LogGrant PROVE IInv'
    OBVIOUS
<1> DEFINE l == call.lease
<1>1. /\ call.at = "log" /\ call # Idle /\ call' = Idle
      /\ told' = [told EXCEPT ![l.holder][l.partition] = l]
      /\ sure' = [sure EXCEPT ![l.holder][l.partition] = Ends(l)]
      /\ UNCHANGED <<now, rows, fenceRow, up, table, minted, home>>
    BY DEF LogGrant, Idle, Return, disk
<1>2. /\ up /\ l \in Lease /\ l \in table /\ l \in rows
      /\ l.fence = home /\ fenceRow = home
      /\ InSlot(rows, l.partition) \ {l} = {}
      /\ l.holder \in Holders /\ l.partition \in Partitions /\ Ends(l) \in Nat
    BY <1>1, CallFields, LeaseFields DEF IInv, CallIsNewest
<1> HIDE DEF l
<1>3. \A h \in Holders, p \in Partitions :
          /\ told'[h][p] = IF h = l.holder /\ p = l.partition THEN l ELSE told[h][p]
          /\ sure'[h][p] = IF h = l.holder /\ p = l.partition THEN Ends(l) ELSE sure[h][p]
    BY <1>1, <1>2 DEF IInv, Shapes
<1>4. Shapes'
    BY <1>1, <1>2 DEF IInv, Shapes
<1>5. TypeOK'
    BY <1>1, <1>2, <1>3 DEF IInv, TypeOK, Ends
<1>6. RowsAreOrdered' /\ CountersLead' /\ CallIsNewest'
    BY <1>1 DEF IInv, RowsAreOrdered, CountersLead, CallIsNewest
<1>7. ToldIsFenced'
    BY <1>1, <1>2, <1>3, BoundsAssumption DEF IInv, TypeOK, ToldIsFenced
<1>8. MemoryRemembers'
    <2> SUFFICES ASSUME NEW h \in Holders, NEW p \in Partitions, Holds(h, p)'
                 PROVE  \E k \in table : k.holder = h /\ k.partition = p /\ sure'[h][p] <= Ends(k)
        BY <1>1 DEF MemoryRemembers, Ends
    <2>1. CASE h = l.holder /\ p = l.partition
        BY <1>2, <1>3, <2>1
    <2>2. CASE ~(h = l.holder /\ p = l.partition)
        <3>1. Holds(h, p)
            BY <1>1, <1>3, <2>2 DEF Holds
        <3> QED BY <1>2, <1>3, <2>2, <3>1 DEF IInv, MemoryRemembers
    <2> QED BY <2>1, <2>2
<1>9. DiskRemembers'
    <2> SUFFICES ASSUME NEW h \in Holders, NEW p \in Partitions, Holds(h, p)'
                 PROVE  \E r \in rows : r.holder = h /\ r.partition = p /\ sure'[h][p] <= Ends(r)
                                        /\ IsFirst(r)
        BY <1>1 DEF DiskRemembers, IsFirst, InSlot, Expired, Ends
    <2>1. CASE h = l.holder /\ p = l.partition
        <3>1. IsFirst(l)
            BY <1>2, LeaseFields DEF IsFirst
        <3> QED BY <1>2, <1>3, <2>1, <3>1
    <2>2. CASE ~(h = l.holder /\ p = l.partition)
        <3>1. Holds(h, p)
            BY <1>1, <1>3, <2>2 DEF Holds
        <3> QED BY <1>3, <2>2, <3>1 DEF IInv, DiskRemembers
    <2> QED BY <2>1, <2>2
<1> QED BY <1>4, <1>5, <1>6, <1>7, <1>8, <1>9 DEF IInv

LEMMA WriteFailsKeeps == IInv /\ WriteFails => IInv'
<1> SUFFICES ASSUME IInv, WriteFails PROVE IInv'
    OBVIOUS
<1> USE DEF WriteFails, Return, disk, heard
<1>1. TypeOK' /\ Shapes'
    BY DEF IInv, TypeOK, Shapes, Ends
<1>2. RowsAreOrdered' /\ CountersLead' /\ ToldIsFenced' /\ CallIsNewest'
    BY DEF IInv, RowsAreOrdered, CountersLead, ToldIsFenced, CallIsNewest
<1>3. MemoryRemembers' /\ DiskRemembers'
    BY DEF IInv, MemoryRemembers, DiskRemembers, Holds, IsFirst, InSlot, Expired, Ends
<1> QED BY <1>1, <1>2, <1>3 DEF IInv

LEMMA CrashKeeps == IInv /\ Crash => IInv'
<1> SUFFICES ASSUME IInv, Crash PROVE IInv'
    OBVIOUS
<1> USE DEF Crash, Return, disk, heard
<1>1. TypeOK' /\ Shapes'
    <2>1. 0 \in 0..MaxGrants
        BY BoundsAssumption
    <2> QED BY <2>1 DEF IInv, TypeOK, Shapes, Ends
<1>2. RowsAreOrdered' /\ CountersLead' /\ ToldIsFenced' /\ CallIsNewest' /\ MemoryRemembers'
    BY DEF IInv, RowsAreOrdered, CountersLead, ToldIsFenced, CallIsNewest, MemoryRemembers
<1>3. DiskRemembers'
    BY DEF IInv, DiskRemembers, Holds, IsFirst, InSlot, Expired, Ends
<1> QED BY <1>1, <1>2, <1>3 DEF IInv

\* Rows that load() would not restore are of nobody who still has time.
LEMMA SweepKeeps ==
    ASSUME IInv, NEW left, Restored \subseteq left, left \subseteq rows,
           NEW h \in Holders, NEW p \in Partitions, Holds(h, p)
    PROVE  \E r \in Restored : /\ r.holder = h /\ r.partition = p /\ sure[h][p] <= Ends(r)
                               /\ \A k \in InSlot(left, r.partition) : Expired(k) \/ k.fence <= r.fence
<1>1. PICK r \in rows : r.holder = h /\ r.partition = p /\ sure[h][p] <= Ends(r) /\ IsFirst(r)
    BY DEF IInv, DiskRemembers
<1>2. ~Expired(r)
    BY <1>1, LeaseFields, BoundsAssumption DEF IInv, TypeOK, Shapes, Holds, Expired, Times
<1>3. r \in Restored
    BY <1>1, <1>2, RestoredRows DEF IInv
<1> QED BY <1>1, <1>3 DEF IsFirst, InSlot

LEMMA LoadKeeps == IInv /\ Load => IInv'
<1> SUFFICES ASSUME IInv, Load PROVE IInv'
    OBVIOUS
<1>1. /\ ~up /\ up' /\ rows' = Restored /\ table' = Restored
      /\ minted' = MaxOr({l.id : l \in Restored}, 0)
      /\ home' = MaxOr({l.fence : l \in rows}, fenceRow)
      /\ UNCHANGED <<now, fenceRow, call, told, sure>>
    BY DEF Load, RestoredCounter, heard
<1>2. call = Idle
    BY <1>1 DEF IInv, CallIsNewest
<1>3. /\ Restored \subseteq rows
      /\ \A l, k \in Restored : l.partition = k.partition => l = k
    BY RestoredRows DEF IInv
<1>4. \A l \in rows : l \in Lease /\ l.id \in 0..MaxGrants /\ l.fence \in 0..MaxGrants
    BY LeaseFields, BoundsAssumption DEF IInv, TypeOK
<1>5. minted' \in 0..MaxGrants /\ \A l \in Restored : l.id <= minted'
    <2>1. {l.id : l \in Restored} \subseteq 0..MaxGrants /\ 0 \in 0..MaxGrants
        BY <1>3, <1>4, BoundsAssumption
    <2> QED BY <1>1, <2>1, MaxOrBounds
<1>6. home' \in 0..MaxGrants /\ fenceRow <= home' /\ \A l \in rows : l.fence <= home'
    <2>1. {l.fence : l \in rows} \subseteq 0..MaxGrants /\ fenceRow \in 0..MaxGrants
        BY <1>4 DEF IInv, TypeOK
    <2> QED BY <1>1, <2>1, MaxOrBounds
<1>7. TypeOK' /\ Shapes'
    BY <1>1, <1>2, <1>3, <1>4, <1>5, <1>6 DEF IInv, TypeOK, Shapes, RowsAreOrdered, Ends
<1>8. RowsAreOrdered' /\ ToldIsFenced' /\ CallIsNewest'
    BY <1>1, <1>2, <1>3 DEF IInv, RowsAreOrdered, ToldIsFenced, CallIsNewest
<1>9. CountersLead'
    BY <1>1, <1>3, <1>5, <1>6 DEF CountersLead
<1>10. \A h \in Holders, p \in Partitions : Holds(h, p)' => Holds(h, p)
    BY <1>1 DEF Holds
<1>11. \A h \in Holders, p \in Partitions : Holds(h, p) =>
           \E r \in Restored : /\ r.holder = h /\ r.partition = p /\ sure[h][p] <= Ends(r)
                               /\ \A k \in InSlot(Restored, r.partition) : Expired(k) \/ k.fence <= r.fence
    BY <1>3, SweepKeeps
<1>12. MemoryRemembers' /\ DiskRemembers'
    BY <1>1, <1>10, <1>11 DEF MemoryRemembers, DiskRemembers, IsFirst, InSlot, Expired, Ends
<1> QED BY <1>7, <1>8, <1>9, <1>12 DEF IInv

LEMMA LoadDiesKeeps == IInv /\ LoadDies => IInv'
<1> SUFFICES ASSUME IInv, LoadDies PROVE IInv'
    OBVIOUS
<1>1. PICK swept \in SUBSET (rows \ Restored) : rows' = rows \ swept
    BY DEF LoadDies
<1>2. ~up /\ UNCHANGED <<now, fenceRow, up, table, minted, home, call, told, sure>>
    BY DEF LoadDies, process, heard
<1>3. Restored \subseteq rows' /\ rows' \subseteq rows
    BY <1>1, RestoredRows DEF IInv
<1>4. call = Idle
    BY <1>2 DEF IInv, CallIsNewest
<1>5. TypeOK' /\ Shapes'
    BY <1>2, <1>3 DEF IInv, TypeOK, Shapes, Ends
<1>6. RowsAreOrdered' /\ CountersLead' /\ ToldIsFenced' /\ CallIsNewest' /\ MemoryRemembers'
    BY <1>2, <1>3, <1>4 DEF IInv, RowsAreOrdered, CountersLead, ToldIsFenced, CallIsNewest, MemoryRemembers
<1>7. DiskRemembers'
    <2> SUFFICES ASSUME NEW h \in Holders, NEW p \in Partitions, Holds(h, p)
                 PROVE  \E r \in rows' : r.holder = h /\ r.partition = p /\ sure[h][p] <= Ends(r)
                                         /\ IsFirst(r)'
        BY <1>2 DEF DiskRemembers, Holds, Ends
    <2>1. PICK r \in Restored : /\ r.holder = h /\ r.partition = p /\ sure[h][p] <= Ends(r)
                                /\ \A k \in InSlot(rows', r.partition) : Expired(k) \/ k.fence <= r.fence
        BY <1>3, SweepKeeps
    <2>2. IsFirst(r)'
        BY <1>2, <2>1 DEF IsFirst, InSlot, Expired, Ends
    <2> QED BY <1>3, <2>1, <2>2
<1> QED BY <1>5, <1>6, <1>7 DEF IInv

-----------------------------------------------------------------------------
LEMMA NextKeeps == IInv /\ [Next]_vars => IInv'
<1> SUFFICES ASSUME IInv, [Next]_vars PROVE IInv'
    OBVIOUS
<1>1. CASE UNCHANGED vars
    <2> USE <1>1 DEF vars, disk, process, heard
    <2>1. TypeOK' /\ Shapes'
        BY DEF IInv, TypeOK, Shapes, Ends
    <2>2. RowsAreOrdered' /\ CountersLead' /\ ToldIsFenced' /\ CallIsNewest'
        BY DEF IInv, RowsAreOrdered, CountersLead, ToldIsFenced, CallIsNewest, InSlot
    <2>3. MemoryRemembers' /\ DiskRemembers'
        BY DEF IInv, MemoryRemembers, DiskRemembers, Holds, IsFirst, InSlot, Expired, Ends
    <2> QED BY <2>1, <2>2, <2>3 DEF IInv
<1> QED BY <1>1, TickKeeps, AcquireKeeps, PutRowKeeps, DeleteKeeps, WriteFenceKeeps, LogGrantKeeps,
           WriteFailsKeeps, CrashKeeps, LoadKeeps, LoadDiesKeeps DEF Next

\* The invariant holds of every behaviour.
THEOREM Invariant == Spec => []IInv
BY InvInit, NextKeeps, PTL DEF Spec

\* Never two holders in one partition who both still have time, whatever restarts and
\* failed writes lie between their grants (LockTable::acquire, lease, load).
THEOREM OneHolder == Spec => []Exclusion
<1>1. IInv => Exclusion
    <2> SUFFICES ASSUME IInv, NEW p \in Partitions, NEW h \in Holders, NEW g \in Holders,
                        Holds(h, p), Holds(g, p)
                 PROVE  h = g
        BY DEF Exclusion
    <2>1. PICK r \in rows : r.holder = h /\ r.partition = p /\ sure[h][p] <= Ends(r) /\ IsFirst(r)
        BY DEF IInv, DiskRemembers
    <2>2. PICK s \in rows : s.holder = g /\ s.partition = p /\ sure[g][p] <= Ends(s) /\ IsFirst(s)
        BY DEF IInv, DiskRemembers
    <2>3. ~Expired(r) /\ ~Expired(s) /\ r.fence \in Nat /\ s.fence \in Nat
        BY <2>1, <2>2, LeaseFields, BoundsAssumption DEF IInv, TypeOK, Shapes, Holds, Expired, Times
    <2>4. r.fence = s.fence
        BY <2>1, <2>2, <2>3 DEF IsFirst, InSlot
    <2> QED BY <2>1, <2>2, <2>4 DEF IInv, RowsAreOrdered
<1> QED BY <1>1, Invariant, PTL

\* Memory has one lease to a partition and knows every holder who still has time, right
\* after a restart as well (LockTable::restore, RealKernel::load).
THEOREM TableKnowsHolders == Spec => []TableIsTrue
<1>1. IInv => TableIsTrue
    <2> SUFFICES ASSUME IInv, up, NEW h \in Holders, NEW p \in Partitions, Holds(h, p)
                 PROVE  \E l \in table : l.holder = h /\ l.partition = p /\ ~Expired(l)
        BY DEF IInv, TableIsTrue, HolderIsRemembered
    <2>1. PICK l \in table : l.holder = h /\ l.partition = p /\ sure[h][p] <= Ends(l)
        BY DEF IInv, MemoryRemembers
    <2>2. ~Expired(l)
        BY <2>1, LeaseFields, BoundsAssumption DEF IInv, TypeOK, Shapes, Holds, Expired, Times
    <2> QED BY <2>1, <2>2
<1> QED BY <1>1, Invariant, PTL

\* A fence a holder is told is higher than every fence told before, across restarts and
\* in every partition, and no row is replaced by another one with its id
\* (LockHome::issue_fence, LockTable::restore, load).
THEOREM FencesMoveOn == Spec => NumbersMoveOn
<1> DEFINE Fences == \A h \in Holders, p \in Partitions : told'[h][p] # told[h][p] =>
                        \A g \in Holders, q \in Partitions :
                            told[g][q] # NoLease => told'[h][p].fence > told[g][q].fence
           Ids == \A l \in rows : (\E k \in rows' : k.id = l.id) => l \in rows'
<1>1. ASSUME IInv, [Next]_vars PROVE [Fences /\ Ids]_vars
    <2>1. Fences
        <3> SUFFICES ASSUME NEW h \in Holders, NEW p \in Partitions, told'[h][p] # told[h][p],
                            NEW g \in Holders, NEW q \in Partitions, told[g][q] # NoLease
                     PROVE  told'[h][p].fence > told[g][q].fence
            OBVIOUS
        <3>1. LogGrant
            <4>1. told' # told
                OBVIOUS
            <4>2. \A hh \in Holders, pp \in Partitions, ttl \in Ttls : ~Acquire(hh, pp, ttl)
                BY <4>1 DEF Acquire, Asks
            <4>3. ~(Tick \/ PutRow \/ DeleteSuperseded \/ WriteFence \/ WriteFails \/ UNCHANGED vars)
                BY <4>1 DEF Tick, PutRow, DeleteSuperseded, WriteFence, WriteFails, vars, heard
            <4>4. ~(Crash \/ Load \/ LoadDies)
                BY <4>1 DEF Crash, Load, LoadDies, heard
            <4> QED BY <1>1, <4>2, <4>3, <4>4 DEF Next
        <3>2. /\ call # Idle
              /\ told' = [told EXCEPT ![call.lease.holder][call.lease.partition] = call.lease]
            BY <3>1 DEF LogGrant, Idle
        <3>3. told'[h][p] = call.lease
            BY <1>1, <3>2 DEF IInv, Shapes
        <3>4. /\ call.lease \in Lease /\ told[g][q] \in Lease
              /\ told[g][q].fence < home /\ call.lease.fence = home
            BY <1>1, <3>2, CallFields DEF IInv, TypeOK, CallIsNewest
        <3> QED BY <3>3, <3>4, LeaseFields
    <2>2. Ids
        <3>1. rows' \subseteq rows \/ PutRow
            BY <1>1, RestoredRows DEF IInv, Next, Tick, Acquire, DeleteSuperseded, Delete, WriteFence,
                    LogGrant, WriteFails, Crash, Load, LoadDies, vars, disk
        <3>2. CASE rows' \subseteq rows
            BY <1>1, <3>2 DEF IInv, RowsAreOrdered
        <3>3. CASE PutRow
            <4>1. call.lease.id = minted /\ \A k \in rows : k.id < minted /\ k.id \in Nat
                BY <1>1, <3>3, LeaseFields DEF PutRow, Idle, IInv, TypeOK, CallIsNewest
            <4> QED BY <1>1, <3>3, <4>1, BoundsAssumption DEF PutRow, Put, IInv, TypeOK
        <3> QED BY <3>1, <3>2, <3>3
    <2> QED BY <2>1, <2>2
<1> QED BY <1>1, Invariant, PTL DEF Spec, NumbersMoveOn
===============================================================================
