---------------------------- MODULE SnapshotFreeze ----------------------------
(***************************************************************************)
(* The freeze of a contribution snapshot (index.ts, POST                   *)
(* /contributions/snapshot/freeze) and what its hash is for: a commitment  *)
(* to CommitRevealSettler.  The handler is cut at each of its awaits, so   *)
(* that requests for one period overlap while records arrive and the peer  *)
(* list changes.  A restart ends the requests that run.                    *)
(*                                                                         *)
(* A snapshot root is the table of its rows, and of their one timestamp;   *)
(* rows of one contributor may come in either order and are counted.       *)
(***************************************************************************)
EXTENDS NodeClock, CommitRevealSettler, FiniteSets

CONSTANTS
    Origins,        \* source_peer of records: URLs of peers, and Local
    Local,          \* NULL in source_peer: a record of this node
    Addresses,      \* signers of peers and of this node
    Self,           \* signerAddress of this node
    NoAddress,      \* NULL in signer_address, or no row in peers
    Freezes,        \* requests at a time
    EpochCloses,    \* the epochClose of a request less FREEZE_BUFFER; 0 for none
    MaxRecords,     \* bound on the records of each origin
    MaxRepins       \* bound on the changes of a peer's signer

ASSUME SnapshotAssumption ==
    /\ Local \in Origins /\ Self \in Addresses \cap SettlerNodes
    /\ NoAddress \notin Addresses
    /\ IsFiniteSet(Origins) /\ EpochCloses \subseteq Nat /\ MaxRecords \in Nat

VARIABLES
    stored,         \* records of the base namespace by source_peer
    pinned,         \* signer_address of the row in peers, by origin
    repins,
    hasKey,         \* GATEWAY_PRIVATE_KEY is set
    snapshots,      \* the row of each period in snapshots
    freezing,       \* the requests
    replies         \* the rows sent as answers for a period

snapshotVars == <<clock, settled, stored, pinned, repins, hasKey, snapshots, freezing, replies>>

NoRow == [status |-> "none", cutoff |-> 0, frozenAt |-> 0, root |-> NoRoot]

Idle == [at |-> "idle", period |-> NoRoot, now |-> 0, rows |-> NoRoot]

SnapshotInit ==
    /\ ClockInit /\ V1Init
    /\ stored = [s \in Origins |-> 0]
    /\ pinned \in [Origins -> Addresses \cup {NoAddress}] /\ pinned[Local] = NoAddress
    /\ repins = 0
    /\ hasKey \in BOOLEAN
    /\ snapshots = [p \in SettlerPeriods |-> NoRow]
    /\ freezing = [f \in Freezes |-> Idle]
    /\ replies = [p \in SettlerPeriods |-> {}]

-----------------------------------------------------------------------------
\* Mutant: an inner join drops the origins that have no row in peers.
ContributionsInner == {s \in Origins : stored[s] > 0 /\ pinned[s] # NoAddress}

\* getContributionsWithAddresses: records grouped by origin, LEFT JOIN peers.
Contributions == {s \in Origins : stored[s] > 0}

Contributor(s) == IF pinned[s] = NoAddress THEN Self ELSE pinned[s]

RowKind == Addresses \X (1..MaxRecords)

\* How many rows there are of each contributor and score, and when: the root
\* hashes the rows, sorted, each with the time.
RootOf(time) ==
    [time |-> time,
     rows |-> [row \in RowKind |-> Cardinality({s \in Contributions :
                                   Contributor(s) = row[1] /\ stored[s] = row[2]})]]

Continue(f, to) == freezing' = [freezing EXCEPT ![f] = to]

Reply(f, row) ==
    /\ Continue(f, Idle)
    /\ replies' = [replies EXCEPT ![freezing[f].period] = @ \cup {row}]

\* Mutant: the row is written before the cutoff is looked at.
EnsureFirst(f, p, cutoff) ==
    /\ freezing[f].at = "idle"
    /\ snapshots' = [snapshots EXCEPT ![p] = IF @.status = "none"
                         THEN [NoRow EXCEPT !.status = "pending", !.cutoff = cutoff] ELSE @]
    /\ Continue(f, IF clock < cutoff THEN Idle
                   ELSE [Idle EXCEPT !.at = "ensured", !.period = p, !.now = clock])
    /\ UNCHANGED replies

\* The body is read: reply at once before the cutoff, else INSERT OR IGNORE.
Ensure(f, p, cutoff) ==
    /\ freezing[f].at = "idle"
    /\ clock >= cutoff
    /\ snapshots' = [snapshots EXCEPT ![p] = IF @.status = "none"
                         THEN [NoRow EXCEPT !.status = "pending", !.cutoff = cutoff] ELSE @]
    /\ Continue(f, [Idle EXCEPT !.at = "ensured", !.period = p, !.now = clock])
    /\ UNCHANGED replies

\* getSnapshot: a period already frozen is answered from its row.
ReadStatus(f) ==
    /\ freezing[f].at = "ensured"
    /\ IF snapshots[freezing[f].period].status = "pending"
       THEN Continue(f, [freezing[f] EXCEPT !.at = "pending"]) /\ UNCHANGED replies
       ELSE Reply(f, snapshots[freezing[f].period])
    /\ UNCHANGED snapshots

\* Without a key the request ends with 503 and leaves its pending row.
CountRows(f) ==
    /\ freezing[f].at = "pending"
    /\ Continue(f, IF ~hasKey THEN Idle ELSE
           [freezing[f] EXCEPT !.at = "counted", !.rows = RootOf(freezing[f].now)])
    /\ UNCHANGED <<snapshots, replies>>

\* Mutant: UPDATE without AND status = 'pending'.
FreezeAlways(f) ==
    LET period == freezing[f].period IN
    /\ freezing[f].at = "counted"
    /\ snapshots' = [snapshots EXCEPT ![period] =
           [@ EXCEPT !.status = "frozen", !.frozenAt = freezing[f].now, !.root = freezing[f].rows]]
    /\ Continue(f, [freezing[f] EXCEPT !.at = "frozen"])
    /\ UNCHANGED replies

\* UPDATE .. WHERE status = 'pending': of two that counted, one writes.
Freeze(f) ==
    LET period == freezing[f].period IN
    /\ freezing[f].at = "counted"
    /\ snapshots' = [snapshots EXCEPT ![period] =
           IF @.status # "pending" THEN @ ELSE
           [@ EXCEPT !.status = "frozen", !.frozenAt = freezing[f].now, !.root = freezing[f].rows]]
    /\ Continue(f, [freezing[f] EXCEPT !.at = "frozen"])
    /\ UNCHANGED replies

\* The row is read again, whoever wrote it, and sent.
ReplyFrozen(f) ==
    /\ freezing[f].at = "frozen"
    /\ Reply(f, snapshots[freezing[f].period])
    /\ UNCHANGED snapshots

FreezeStep ==
    /\ \E f \in Freezes :
        \/ \E p \in SettlerPeriods, cutoff \in EpochCloses : Ensure(f, p, cutoff)
        \/ ReadStatus(f) \/ CountRows(f) \/ Freeze(f) \/ ReplyFrozen(f)
    /\ UNCHANGED <<clock, settled, stored, pinned, repins, hasKey>>

\* insertRecord, by the router (Local) or by a sync.
RecordStored ==
    /\ \E s \in Origins : stored[s] < MaxRecords /\ stored' = [stored EXCEPT ![s] = @ + 1]
    /\ UNCHANGED <<clock, settled, pinned, repins, hasKey, snapshots, freezing, replies>>

\* A sync pins a signer, the administrator removes or adds a peer.
Repin ==
    /\ repins < MaxRepins /\ repins' = repins + 1
    /\ \E s \in Origins \ {Local}, a \in Addresses \cup {NoAddress} :
           a # pinned[s] /\ pinned' = [pinned EXCEPT ![s] = a]
    /\ UNCHANGED <<clock, settled, stored, hasKey, snapshots, freezing, replies>>

\* The process stops and starts again, perhaps with the key it lacked.
SnapshotRestart ==
    /\ freezing' = [f \in Freezes |-> Idle]
    /\ hasKey' \in {hasKey, TRUE}
    /\ <<freezing, hasKey>>' # <<freezing, hasKey>>
    /\ UNCHANGED <<clock, settled, stored, pinned, repins, snapshots, replies>>

\* A node commits with the hash of a reply, its own or not, and reveals with the
\* rows the store holds now, dated frozenAt: those that were frozen are not kept.
Settle ==
    /\ \E p \in SettlerPeriods, n \in SettlerNodes :
        \/ \E row \in replies[p] : V1Commit(p, n, SettlerHash(row.root, p, Self))
        \/ V1Reveal(p, n, RootOf(snapshots[p].frozenAt))
    /\ UNCHANGED <<clock, stored, pinned, repins, hasKey, snapshots, freezing, replies>>

SnapshotTick ==
    /\ Advance
    /\ UNCHANGED <<settled, stored, pinned, repins, hasKey, snapshots, freezing, replies>>

SnapshotNext ==
    FreezeStep \/ RecordStored \/ Repin \/ SnapshotRestart \/ Settle \/ SnapshotTick

SnapshotSpec == SnapshotInit /\ [][SnapshotNext]_snapshotVars

-----------------------------------------------------------------------------
\* However many requests for a period overlap, and whatever is stored, pinned or
\* restarted meanwhile, all that are answered get one and the same row: the one
\* that is kept, so a hash that was committed to is the hash of the period.
RepliesAgree ==
    \A p \in SettlerPeriods : replies[p] \subseteq {snapshots[p]}

PeriodOf(answer) == answer[1]

\* The awaits between the reads and the write of a request cannot be seen: a period
\* is frozen in one step, for good, and every answer, of whichever request, before
\* or after a restart, is the row of that step.
FrozenTable == INSTANCE WriteOnce WITH
    Key <- PeriodOf,
    rows <- {<<p, snapshots[p]>> : p \in {q \in SettlerPeriods : snapshots[q].status = "frozen"}},
    told <- UNION {{p} \X replies[p] : p \in SettlerPeriods}

ImplementsFrozenTable == FrozenTable!OnceSpec

\* A snapshot is never frozen before the cutoff its row states, also when the
\* requests of the period state different ones and only the first is kept.
FrozenAfterCutoff ==
    \A p \in SettlerPeriods :
        snapshots[p].status = "frozen" => snapshots[p].frozenAt >= snapshots[p].cutoff

\* The records of the namespace: the origin of each and its number there.
StoredRecords == {rec \in Origins \X (1..MaxRecords) : rec[2] <= stored[rec[1]]}

\* The records a table of rows stands for: the kind of row of each, which of the
\* rows of that kind, and its number in that row.
CountedRecords(rows) ==
    {rec \in RowKind \X (1..Cardinality(Origins)) \X (1..MaxRecords) :
        rec[2] <= rows[rec[1]] /\ rec[3] <= rec[1][2]}

\* The rows a freeze counts account for every record of the namespace, once, and
\* to one address: those of a peer to the signer it is pinned to, and those of
\* this node and of peers that were removed or have no signer yet to this node.
RowsCoverRecords ==
    [][\A f \in Freezes, a \in Addresses :
        freezing'[f].at = "counted" /\ freezing[f].at # "counted" =>
            Cardinality({rec \in CountedRecords(freezing'[f].rows.rows) : rec[1][1] = a}) =
            Cardinality({rec \in StoredRecords :
                pinned[rec[1]] = a \/ (a = Self /\ pinned[rec[1]] = NoAddress)})]_snapshotVars

\* What the settler has on record for a period is the frozen root, revealed by
\* the node that froze it: a node that commits with the hash of another cannot.
SettledIsFrozen ==
    \A p \in SettlerPeriods, n \in SettlerNodes :
        settled[p][n].revealed => n = Self /\ settled[p][n].root = snapshots[p].root
=============================================================================
