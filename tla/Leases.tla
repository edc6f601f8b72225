-------------------------------- MODULE Leases --------------------------------
(***************************************************************************)
(* The lease syscall on one resource: LockTable and LockHome in memory,    *)
(* the `leases` rows and the kv fence on disk, and what RealKernel::load   *)
(* makes of them after a crash.                                            *)
(*                                                                         *)
(* lease() is: read the superseded rows, acquire in memory, put the row,   *)
(* delete the superseded rows, write the fence, log.  One action is one    *)
(* durable write.  Every write may fail, which ends the call with an error *)
(* and leaves what was done so far; the process may die between any two.   *)
(***************************************************************************)
EXTENDS FiniteSetsExt, Integers

CONSTANTS
    Holders,        \* the principals that ask for the resource
    Partitions,     \* the partitions of the network they ask in
    Ttls,           \* what requests give as ttl_ms
    MaxTime,        \* bound: the clock
    MaxGrants,      \* bound: leases minted
    NoLease         \* no lease

ASSUME BoundsAssumption ==
    Ttls \subseteq Nat /\ MaxTime \in Nat /\ MaxGrants \in Nat

Times == 0..MaxTime
Lease == [id : 1..MaxGrants, holder : Holders, partition : Partitions,
          granted : Times, ttl : Ttls, fence : 1..MaxGrants]
ASSUME NoLeaseAssumption == NoLease \notin Lease

VARIABLES
    now,            \* the clock
    \* The disk.
    rows,           \* table `leases`
    fenceRow,       \* kv `fence:<resource>`
    \* The process.
    up,
    table,          \* LockTable.leases
    minted,         \* LockTable.counter
    home,           \* LockHome.next[resource]
    call,           \* the lease() in progress
    \* What callers were told.
    told,           \* the lease last returned to each holder, per partition
    sure            \* until when the holder may count on it

disk == <<rows, fenceRow>>
process == <<up, table, minted, home, call>>
heard == <<told, sure>>
vars == <<now, disk, process, heard>>

-----------------------------------------------------------------------------
Idle == [at |-> "idle"]
Return == call' = Idle

\* Lease::expired: a lease is still good at the very end of its time.
Ends(l) == l.granted + l.ttl
Expired(l) == now > Ends(l)

InSlot(leases, p) == {l \in leases : l.partition = p}

\* Db::put_json and BTreeMap::insert replace the entry of the same id.
Put(leases, l) == {k \in leases : k.id # l.id} \cup {l}

\* The order load() prefers rows of one slot in.
Newer(l, k) == l.granted > k.granted \/ (l.granted = k.granted /\ l.fence > k.fence)
Newest(leases) == CHOOSE l \in leases : \A k \in leases \ {l} : Newer(l, k)

\* Db::delete
Delete(l) == rows' = rows \ {l}

MaxOr(set, n) == Max(set \cup {n})

-----------------------------------------------------------------------------
Init ==
    /\ now = 0
    /\ rows = {}
    /\ fenceRow = 0
    /\ up = FALSE
    /\ table = {}
    /\ minted = 0
    /\ home = 0
    /\ call = Idle
    /\ told = [h \in Holders |-> [p \in Partitions |-> NoLease]]
    /\ sure = [h \in Holders |-> [p \in Partitions |-> 0]]

Tick ==
    /\ now < MaxTime
    /\ now' = now + 1
    /\ UNCHANGED <<disk, process, heard>>

-----------------------------------------------------------------------------
(* lease(resource, ttl) *)

\* LockHome::issue_fence
IssueFence == home + 1

\* A holder that asks again cannot know, until it is answered, which of its two
\* leases the kernel has: it counts on the earlier end.
Asks(l) ==
    /\ sure' = [sure EXCEPT ![l.holder][l.partition] = IF Ends(l) < @ THEN Ends(l) ELSE @]
    /\ UNCHANGED told

\* LockTable::acquire refuses while somebody else's lease is good (Held), which
\* changes nothing; else it replaces the slot and issues the next fence.
Acquire(h, p, ttl) ==
    /\ up /\ call = Idle
    /\ minted < MaxGrants
    /\ home < MaxGrants
    /\ \A l \in InSlot(table, p) : Expired(l) \/ l.holder = h
    /\ LET l == [id |-> minted + 1, holder |-> h, partition |-> p,
                 granted |-> now, ttl |-> ttl, fence |-> IssueFence]
       IN  /\ table' = (table \ InSlot(table, p)) \cup {l}
           /\ call' = [at |-> "row", lease |-> l,
                       superseded |-> {k \in InSlot(rows, p) : k.id # l.id}]
           /\ Asks(l)
    /\ minted' = minted + 1
    /\ home' = IssueFence
    /\ UNCHANGED <<now, disk, up>>

\* Variant of PutRow: an error of put_json is ignored.
PutRowUnchecked ==
    /\ call.at = "row"
    /\ rows' \in {rows, Put(rows, call.lease)}
    /\ call' = [call EXCEPT !.at = "delete"]
    /\ UNCHANGED <<now, fenceRow, up, table, minted, home, heard>>

PutRow ==
    /\ call.at = "row"
    /\ rows' = Put(rows, call.lease)
    /\ call' = [call EXCEPT !.at = "delete"]
    /\ UNCHANGED <<now, fenceRow, up, table, minted, home, heard>>

DeleteSuperseded ==
    /\ call.at = "delete"
    /\ \E l \in call.superseded :
          /\ Delete(l)
          /\ call' = [call EXCEPT !.superseded = @ \ {l}]
    /\ UNCHANGED <<now, fenceRow, up, table, minted, home, heard>>

WriteFence ==
    /\ call.at = "delete"
    /\ call.superseded = {}
    /\ fenceRow' = call.lease.fence
    /\ call' = [call EXCEPT !.at = "log"]
    /\ UNCHANGED <<now, rows, up, table, minted, home, heard>>

LogGrant ==
    /\ call.at = "log"
    /\ told' = [told EXCEPT ![call.lease.holder][call.lease.partition] = call.lease]
    /\ sure' = [sure EXCEPT ![call.lease.holder][call.lease.partition] = Ends(call.lease)]
    /\ Return
    /\ UNCHANGED <<now, disk, up, table, minted, home>>

WriteFails ==
    /\ call # Idle
    /\ Return
    /\ UNCHANGED <<now, disk, up, table, minted, home, heard>>

-----------------------------------------------------------------------------
Crash ==
    /\ up
    /\ up' = FALSE
    /\ table' = {}
    /\ minted' = 0
    /\ home' = 0
    /\ Return
    /\ UNCHANGED <<now, disk, heard>>

\* load(): fences first, from kv and from every row; of the rows, the newest
\* good one of each partition is restored and the rest are swept.
Good == {l \in rows : ~Expired(l)}
Restored == {Newest(InSlot(Good, p)) : p \in {l.partition : l \in Good}}

\* LockTable::restore: the counter stays ahead of every id that came back.
RestoredCounter == MaxOr({l.id : l \in Restored}, 0)

\* Variant of Load: no lease outlives the process that granted it.
LoadNoLeases ==
    /\ ~up
    /\ up' = TRUE
    /\ rows' = Restored
    /\ table' = {}
    /\ minted' = RestoredCounter
    /\ home' = MaxOr({l.fence : l \in rows}, fenceRow)
    /\ UNCHANGED <<now, fenceRow, call, heard>>

\* Variant of Load: fences are read back from the surviving leases alone.
LoadFencesFromLeases ==
    /\ ~up
    /\ up' = TRUE
    /\ rows' = Restored
    /\ table' = Restored
    /\ minted' = RestoredCounter
    /\ home' = MaxOr({l.fence : l \in Restored}, 0)
    /\ UNCHANGED <<now, fenceRow, call, heard>>

Load ==
    /\ ~up
    /\ up' = TRUE
    /\ rows' = Restored
    /\ table' = Restored
    /\ minted' = RestoredCounter
    /\ home' = MaxOr({l.fence : l \in rows}, fenceRow)
    /\ UNCHANGED <<now, fenceRow, call, heard>>

\* The process dies among the deletes of load().
LoadDies ==
    /\ ~up
    /\ \E swept \in SUBSET (rows \ Restored) : rows' = rows \ swept
    /\ UNCHANGED <<now, fenceRow, process, heard>>

-----------------------------------------------------------------------------
Next ==
    \/ Tick
    \/ \E h \in Holders, p \in Partitions, ttl \in Ttls : Acquire(h, p, ttl)
    \/ PutRow
    \/ DeleteSuperseded
    \/ WriteFence
    \/ LogGrant
    \/ WriteFails
    \/ Crash
    \/ Load
    \/ LoadDies

Spec == Init /\ [][Next]_vars

-----------------------------------------------------------------------------
(* Properties. *)

\* Types; in memory, a partition has one lease and an id names one lease.
TypeOK ==
    /\ now \in Times
    /\ rows \subseteq Lease
    /\ fenceRow \in 0..MaxGrants
    /\ up \in BOOLEAN
    /\ table \subseteq Lease
    /\ \A l, k \in table : (l.partition = k.partition \/ l.id = k.id) => l = k
    /\ minted \in 0..MaxGrants
    /\ home \in 0..MaxGrants
    /\ call = Idle \/ (call.at \in {"row", "delete", "log"} /\ call.lease \in Lease
                       /\ call.superseded \subseteq Lease)
    /\ \A h \in Holders, p \in Partitions : told[h][p] \in Lease \cup {NoLease}
    /\ \A h \in Holders, p \in Partitions : told[h][p] = NoLease \/ sure[h][p] <= Ends(told[h][p])

\* What a holder may still act on: the lease it was last told of, in its time,
\* and no longer than a renewal it has asked for since would give it: one that
\* fails after `acquire` has already replaced the lease in memory.
Holds(h, p) == told[h][p] # NoLease /\ now <= sure[h][p]

\* Never two holders in one partition, whatever restarts and failed writes lie
\* between the two grants.
Exclusion ==
    \A p \in Partitions : \A h, g \in Holders : Holds(h, p) /\ Holds(g, p) => h = g

\* "A restart must not hand the resource to somebody else while the first holder
\* still has time" (vk-kernel/src/lib.rs:168): every running node knows the
\* holder of a lease that is still good.
HolderIsRemembered ==
    up => \A h \in Holders, p \in Partitions : Holds(h, p) =>
              \E l \in table : l.holder = h /\ l.partition = p /\ ~Expired(l)

\* Memory has one lease to a partition and knows every holder who still has time.
TableIsTrue == TypeOK /\ HolderIsRemembered

\* Neither number repeats in a way a holder could meet: the fence a holder is told
\* is higher than every fence told before, in any partition and across every
\* restart; an id is minted again only once the row that had it is gone.
NumbersMoveOn ==
    [][/\ \A h \in Holders, p \in Partitions : told'[h][p] # told[h][p] =>
            \A g \in Holders, q \in Partitions :
                told[g][q] # NoLease => told'[h][p].fence > told[g][q].fence
       /\ \A l \in rows : (\E k \in rows' : k.id = l.id) => l \in rows']_vars
=============================================================================
