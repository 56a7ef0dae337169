---------------------------- MODULE SnapshotProofs ----------------------------
(***************************************************************************)
(* The freeze of a snapshot for any number of requests, periods and        *)
(* origins, and however large the store grows: one row is frozen, after    *)
(* its cutoff, and it is what the settler has on record.                   *)
(***************************************************************************)
EXTENDS SnapshotFreeze, TLAPS, FiniteSetTheorems, FunctionTheorems

Root == [time : Nat, rows : [RowKind -> Nat]]

SnapshotRows == [status : {"none", "pending", "frozen"}, cutoff : Nat, frozenAt : Nat,
                 root : Root \cup {NoRoot}]

Requests == [at : {"idle", "ensured", "pending", "counted", "frozen"},
             period : SettlerPeriods \cup {NoRoot}, now : Nat, rows : Root \cup {NoRoot}]

Commits == {NoRoot} \cup
    {SettlerHash(root, p, Self) : root \in Root \cup {NoRoot}, p \in SettlerPeriods}

Settlements == [hash : Commits, root : Root \cup {NoRoot}, revealed : BOOLEAN]

SnapshotTypeOK ==
    /\ clock \in Nat
    /\ snapshots \in [SettlerPeriods -> SnapshotRows]
    /\ freezing \in [Freezes -> Requests]
    /\ replies \in [SettlerPeriods -> SUBSET SnapshotRows]
    /\ settled \in [SettlerPeriods -> [SettlerNodes -> Settlements]]

\* A request beyond its first step has a row, which one of them may have frozen
\* meanwhile, and began after the cutoff of that row although its own was another.
RequestsInv ==
    \A f \in Freezes : freezing[f].at # "idle" =>
        LET row == snapshots[freezing[f].period] IN
        /\ freezing[f].period \in SettlerPeriods
        /\ row.status = "frozen" \/ (row.status = "pending" /\ freezing[f].at # "frozen")
        /\ row.cutoff <= freezing[f].now /\ freezing[f].now <= clock
        /\ freezing[f].at \in {"counted", "frozen"} => freezing[f].rows \in Root

\* A row is written after its cutoff, and is frozen when it is sent.
SnapshotsInv ==
    \A p \in SettlerPeriods :
        /\ snapshots[p].status # "none" => snapshots[p].cutoff <= clock
        /\ snapshots[p].status = "frozen" => snapshots[p].cutoff <= snapshots[p].frozenAt
        /\ \A row \in replies[p] : row = snapshots[p] /\ row.status = "frozen"

\* All commitments of a period are to the root of its row, by the node that froze it.
SettledInv ==
    \A p \in SettlerPeriods, n \in SettlerNodes :
        /\ settled[p][n].hash # NoRoot =>
               /\ snapshots[p].status = "frozen"
               /\ settled[p][n].hash = SettlerHash(snapshots[p].root, p, Self)
        /\ settled[p][n].revealed =>
               /\ n = Self /\ settled[p][n].root = snapshots[p].root
               /\ snapshots[p].status = "frozen"

FreezeInv == SnapshotTypeOK /\ RequestsInv /\ SnapshotsInv /\ SettledInv

\* Nothing is requested, frozen or committed at first.
LEMMA FreezeStart == SnapshotInit => FreezeInv
<1> SUFFICES ASSUME SnapshotInit PROVE FreezeInv
  OBVIOUS
<1>1. SnapshotTypeOK
  <2>1. NoRow \in SnapshotRows /\ Idle \in Requests
    BY DEF NoRow, Idle, SnapshotRows, Requests
  <2>2. [hash |-> NoRoot, root |-> NoRoot, revealed |-> FALSE] \in Settlements
    BY DEF Settlements, Commits
  <2> QED
    BY <2>1, <2>2 DEF SnapshotInit, ClockInit, V1Init, SnapshotTypeOK
<1>2. RequestsInv /\ SnapshotsInv
  BY DEF SnapshotInit, RequestsInv, SnapshotsInv, NoRow, Idle
<1>3. SettledInv
  BY DEF SnapshotInit, V1Init, SettledInv
<1> QED
  BY <1>1, <1>2, <1>3 DEF FreezeInv

\* What a request counts is a table of rows and numbers, at its own time.
LEMMA RootType == ASSUME NEW time \in Nat PROVE RootOf(time) \in Root
<1>1. ASSUME NEW row \in RowKind
      PROVE  Cardinality({s \in Contributions : Contributor(s) = row[1] /\ stored[s] = row[2]}) \in Nat
  <2>1. IsFiniteSet({s \in Contributions : Contributor(s) = row[1] /\ stored[s] = row[2]})
    BY SnapshotAssumption, FS_Subset DEF Contributions
  <2> QED
    BY <2>1, FS_CardinalityType
<1> QED
  BY <1>1 DEF RootOf, Root

\* A step writes the row of a period only if it is not frozen, and leaves the cutoff.
LEMMA FrozenStays ==
    ASSUME FreezeInv, [SnapshotNext]_snapshotVars, NEW p \in SettlerPeriods
    PROVE  /\ snapshots[p].status = "frozen" => snapshots'[p] = snapshots[p]
           /\ snapshots[p].status # "none" => snapshots'[p].cutoff = snapshots[p].cutoff
           /\ snapshots[p].status # "none" => snapshots'[p].status # "none"
<1> USE DEF FreezeInv, SnapshotTypeOK
<1>1. CASE UNCHANGED snapshots
  BY <1>1
<1>2. ASSUME NEW f \in Freezes, NEW q \in SettlerPeriods, NEW cutoff \in EpochCloses,
             Ensure(f, q, cutoff)
      PROVE  snapshots[p].status # "none" => snapshots'[p] = snapshots[p]
  BY <1>2 DEF Ensure
<1>3. ASSUME NEW f \in Freezes, Freeze(f)
      PROVE  /\ snapshots[p].status = "frozen" => snapshots'[p] = snapshots[p]
             /\ snapshots'[p].cutoff = snapshots[p].cutoff
             /\ snapshots[p].status # "none" => snapshots'[p].status # "none"
  BY <1>3 DEF Freeze, SnapshotRows
<1> QED
  BY <1>1, <1>2, <1>3 DEF SnapshotNext, snapshotVars, FreezeStep, ReadStatus, CountRows,
     ReplyFrozen, RecordStored, Repin, SnapshotRestart, Settle, SnapshotTick

\* A step of a request leaves the others as they are.
LEMMA ContinueType ==
    ASSUME FreezeInv, NEW f \in Freezes, NEW to \in Requests, Continue(f, to)
    PROVE  /\ freezing' \in [Freezes -> Requests] /\ freezing'[f] = to
           /\ \A g \in Freezes \ {f} : freezing'[g] = freezing[g]
BY DEF FreezeInv, SnapshotTypeOK, Continue

\* The handler at one of its steps: what it does to the row, the request and the replies.
LEMMA FreezeStepInv == FreezeInv /\ FreezeStep => FreezeInv'
<1> SUFFICES ASSUME FreezeInv, FreezeStep PROVE FreezeInv'
  OBVIOUS
<1>0. UNCHANGED <<clock, settled>> /\ [SnapshotNext]_snapshotVars
  BY DEF FreezeStep, SnapshotNext
<1>1. \A p \in SettlerPeriods :
          /\ snapshots[p].status = "frozen" => snapshots'[p] = snapshots[p]
          /\ snapshots[p].status # "none" => snapshots'[p].cutoff = snapshots[p].cutoff
          /\ snapshots[p].status # "none" => snapshots'[p].status # "none"
  BY <1>0, FrozenStays
<1> USE DEF FreezeInv, SnapshotTypeOK
<1>2. SettledInv'
  BY <1>0, <1>1 DEF SettledInv
<1>3. Idle \in Requests /\ Idle.at = "idle"
  BY DEF Idle, Requests
\* A request that goes on, and another that is overtaken.
<1>4. ASSUME NEW f \in Freezes, NEW to \in Requests, Continue(f, to),
             snapshots' \in [SettlerPeriods -> SnapshotRows],
             to.at # "idle" =>
                 /\ to.period \in SettlerPeriods
                 /\ \/ snapshots'[to.period].status = "frozen"
                    \/ snapshots'[to.period].status = "pending" /\ to.at # "frozen"
                 /\ snapshots'[to.period].cutoff <= to.now /\ to.now <= clock
                 /\ to.at \in {"counted", "frozen"} => to.rows \in Root
      PROVE  freezing' \in [Freezes -> Requests] /\ RequestsInv'
  <2>1. /\ freezing' \in [Freezes -> Requests] /\ freezing'[f] = to
        /\ \A g \in Freezes \ {f} : freezing'[g] = freezing[g]
    BY <1>4, ContinueType
  <2>2. ASSUME NEW g \in Freezes, g # f, freezing[g].at # "idle"
        PROVE  LET row == snapshots'[freezing[g].period] IN
               /\ row.status = "frozen" \/ (row.status = "pending" /\ freezing[g].at # "frozen")
               /\ row.cutoff = snapshots[freezing[g].period].cutoff
    BY <1>1, <1>4, <2>2 DEF RequestsInv, SnapshotRows
  <2> QED
    BY <1>0, <1>4, <2>1, <2>2 DEF RequestsInv
<1>5. ASSUME NEW f \in Freezes, NEW p \in SettlerPeriods, NEW cutoff \in EpochCloses,
             Ensure(f, p, cutoff)
      PROVE  FreezeInv'
  <2>1. clock >= cutoff /\ cutoff \in Nat
    BY <1>5, SnapshotAssumption DEF Ensure
  <2>2. /\ snapshots' = [snapshots EXCEPT ![p] = snapshots'[p]] /\ UNCHANGED replies
        /\ snapshots'[p] = IF snapshots[p].status = "none"
                           THEN [NoRow EXCEPT !.status = "pending", !.cutoff = cutoff]
                           ELSE snapshots[p]
    BY <1>5 DEF Ensure
  <2>3. snapshots'[p] \in SnapshotRows
    <3>1. [NoRow EXCEPT !.status = "pending", !.cutoff = cutoff] \in SnapshotRows
      BY <2>1 DEF NoRow, SnapshotRows
    <3> QED
      BY <2>2, <3>1
  <2>4. snapshots' \in [SettlerPeriods -> SnapshotRows]
    BY <2>2, <2>3
  <2>5. /\ snapshots'[p].status \in {"pending", "frozen"}
        /\ snapshots'[p].cutoff <= clock
        /\ snapshots'[p].status = "frozen" => snapshots'[p] = snapshots[p]
    BY <2>1, <2>2 DEF NoRow, SnapshotRows, SnapshotsInv
  <2>6. SnapshotsInv'
    BY <1>0, <1>1, <2>2, <2>5 DEF SnapshotsInv
  <2> DEFINE to == [Idle EXCEPT !.at = "ensured", !.period = p, !.now = clock]
  <2>7. to \in Requests /\ to.at = "ensured" /\ to.period = p /\ to.now = clock
    BY DEF Idle, Requests
  <2>8. Continue(f, to)
    BY <1>5 DEF Ensure
  <2> HIDE DEF to
  <2>9. freezing' \in [Freezes -> Requests] /\ RequestsInv'
    BY <1>4, <2>4, <2>5, <2>7, <2>8
  <2> QED
    BY <1>0, <1>2, <2>2, <2>4, <2>6, <2>9
\* A reply is the row, which is frozen.
<1>6. ASSUME NEW f \in Freezes, Reply(f, snapshots[freezing[f].period]), UNCHANGED snapshots,
             freezing[f].period \in SettlerPeriods,
             snapshots[freezing[f].period].status = "frozen"
      PROVE  FreezeInv'
  <2>1. replies' \in [SettlerPeriods -> SUBSET SnapshotRows]
    BY <1>6 DEF Reply
  <2>2. SnapshotsInv'
    BY <1>0, <1>6 DEF Reply, SnapshotsInv
  <2>3. freezing' \in [Freezes -> Requests] /\ RequestsInv'
    BY <1>3, <1>4, <1>6 DEF Reply
  <2> QED
    BY <1>0, <1>2, <1>6, <2>1, <2>2, <2>3
<1>7. ASSUME NEW f \in Freezes, ReadStatus(f) PROVE FreezeInv'
  <2>1. /\ freezing[f].period \in SettlerPeriods
        /\ snapshots[freezing[f].period].status \in {"pending", "frozen"}
        /\ freezing[f].at = "ensured"
    BY <1>7 DEF ReadStatus, RequestsInv
  <2>2. CASE snapshots[freezing[f].period].status = "pending"
    <3>1. [freezing[f] EXCEPT !.at = "pending"] \in Requests
      BY DEF Requests
    <3>2. freezing' \in [Freezes -> Requests] /\ RequestsInv'
      BY <1>4, <1>7, <2>1, <2>2, <3>1 DEF ReadStatus, RequestsInv, Requests
    <3> QED
      BY <1>0, <1>2, <1>7, <2>2, <3>2 DEF ReadStatus, SnapshotsInv
  <2>3. CASE snapshots[freezing[f].period].status # "pending"
    BY <1>6, <1>7, <2>1, <2>3 DEF ReadStatus
  <2> QED
    BY <2>2, <2>3
<1>8. ASSUME NEW f \in Freezes, CountRows(f) PROVE FreezeInv'
  <2>1. RootOf(freezing[f].now) \in Root
    BY RootType DEF Requests
  <2>2. [freezing[f] EXCEPT !.at = "counted", !.rows = RootOf(freezing[f].now)] \in Requests
    BY <2>1 DEF Requests
  <2>3. freezing' \in [Freezes -> Requests] /\ RequestsInv'
    BY <1>3, <1>4, <1>8, <2>1, <2>2 DEF CountRows, RequestsInv, Requests
  <2> QED
    BY <1>0, <1>2, <1>8, <2>3 DEF CountRows, SnapshotsInv
<1>9. ASSUME NEW f \in Freezes, Freeze(f) PROVE FreezeInv'
  <2> DEFINE p == freezing[f].period
  <2>1. /\ p \in SettlerPeriods /\ freezing[f].at = "counted" /\ freezing[f].rows \in Root
        /\ snapshots[p].status \in {"pending", "frozen"}
        /\ snapshots[p].cutoff <= freezing[f].now /\ freezing[f].now <= clock
        /\ freezing[f].now \in Nat
    BY <1>9 DEF Freeze, RequestsInv, Requests
  <2>2. /\ snapshots' = [snapshots EXCEPT ![p] = snapshots'[p]] /\ UNCHANGED replies
        /\ snapshots'[p] = IF snapshots[p].status # "pending" THEN snapshots[p] ELSE
               [snapshots[p] EXCEPT !.status = "frozen", !.frozenAt = freezing[f].now,
                                    !.root = freezing[f].rows]
    BY <1>9, <2>1 DEF Freeze
  <2>3. /\ snapshots'[p] \in SnapshotRows /\ snapshots'[p].status = "frozen"
        /\ snapshots'[p].cutoff = snapshots[p].cutoff
        /\ snapshots'[p].cutoff <= snapshots'[p].frozenAt
    BY <2>1, <2>2 DEF SnapshotRows, SnapshotsInv
  <2>4. snapshots' \in [SettlerPeriods -> SnapshotRows]
    BY <2>2, <2>3
  <2>5. SnapshotsInv'
    BY <1>0, <1>1, <2>1, <2>2, <2>3 DEF SnapshotsInv
  <2>6. [freezing[f] EXCEPT !.at = "frozen"] \in Requests
    BY DEF Requests
  <2>7. freezing' \in [Freezes -> Requests] /\ RequestsInv'
    BY <1>4, <1>9, <2>1, <2>3, <2>4, <2>6 DEF Freeze, Requests
  <2> QED
    BY <1>0, <1>2, <2>2, <2>4, <2>5, <2>7
<1>10. ASSUME NEW f \in Freezes, ReplyFrozen(f) PROVE FreezeInv'
  BY <1>6, <1>10 DEF ReplyFrozen, RequestsInv
<1> QED
  BY <1>5, <1>7, <1>8, <1>9, <1>10 DEF FreezeStep

\* The settler takes a hash of a reply, and rows only from who made that hash.
LEMMA SettleStep == FreezeInv /\ Settle => FreezeInv'
<1> SUFFICES ASSUME FreezeInv, Settle PROVE FreezeInv'
  OBVIOUS
<1> USE DEF FreezeInv, SnapshotTypeOK
<1>1. UNCHANGED <<clock, snapshots, freezing, replies>>
  BY DEF Settle
<1>2. ASSUME NEW p \in SettlerPeriods, NEW n \in SettlerNodes, NEW row \in replies[p],
             V1Commit(p, n, SettlerHash(row.root, p, Self))
      PROVE  SettledInv' /\ settled' \in [SettlerPeriods -> [SettlerNodes -> Settlements]]
  <2>1. row = snapshots[p] /\ row.status = "frozen" /\ row.root \in Root \cup {NoRoot}
    BY DEF SnapshotsInv, SnapshotRows
  <2> DEFINE hash == SettlerHash(snapshots[p].root, p, Self)
             entry == [settled[p][n] EXCEPT !.hash = hash]
  <2>0. hash \in Commits /\ settled[p][n] \in Settlements
    BY <2>1 DEF Commits
  <2> HIDE DEF hash
  <2>2. entry \in Settlements /\ entry.hash = hash /\ entry.revealed = settled[p][n].revealed
        /\ entry.root = settled[p][n].root
    BY <2>0 DEF Settlements
  <2>3. settled' = [settled EXCEPT ![p] = [settled[p] EXCEPT ![n] = entry]]
    BY <1>2, <2>1 DEF V1Commit, hash
  <2> HIDE DEF entry
  <2> QED
    BY <1>1, <2>1, <2>2, <2>3 DEF SettledInv, hash
<1>3. ASSUME NEW p \in SettlerPeriods, NEW n \in SettlerNodes, NEW root,
             V1Reveal(p, n, root)
      PROVE  SettledInv' /\ settled' \in [SettlerPeriods -> [SettlerNodes -> Settlements]]
  <2>1. /\ snapshots[p].status = "frozen"
        /\ SettlerHash(root, p, n) = SettlerHash(snapshots[p].root, p, Self)
    BY <1>3 DEF V1Reveal, V1Revealable, SettledInv
  <2>2. root = snapshots[p].root /\ n = Self /\ root \in Root \cup {NoRoot}
    BY <2>1 DEF SettlerHash, SnapshotRows
  <2> DEFINE entry == [settled[p][n] EXCEPT !.revealed = TRUE, !.root = root]
  <2>3. entry \in Settlements /\ entry.hash = settled[p][n].hash /\ entry.root = root
    <3>1. settled[p][n] \in Settlements
      OBVIOUS
    <3> QED
      BY <2>2, <3>1 DEF Settlements
  <2>4. settled' = [settled EXCEPT ![p] = [settled[p] EXCEPT ![n] = entry]]
    BY <1>3 DEF V1Reveal
  <2> HIDE DEF entry
  <2> QED
    BY <1>1, <2>1, <2>2, <2>3, <2>4 DEF SettledInv
<1>4. SettledInv' /\ settled' \in [SettlerPeriods -> [SettlerNodes -> Settlements]]
  BY <1>2, <1>3 DEF Settle
<1> QED
  BY <1>1, <1>4 DEF RequestsInv, SnapshotsInv

\* Every step of a freeze, and of what it runs beside, keeps all that is said of it.
LEMMA FreezeKept == FreezeInv /\ [SnapshotNext]_snapshotVars => FreezeInv'
<1> SUFFICES ASSUME FreezeInv, [SnapshotNext]_snapshotVars PROVE FreezeInv'
  OBVIOUS
<1> USE DEF FreezeInv, SnapshotTypeOK
<1>1. CASE FreezeStep
  BY <1>1, FreezeStepInv
<1>2. CASE Settle
  BY <1>2, SettleStep
<1>3. CASE SnapshotRestart
  <2>1. Idle \in Requests /\ Idle.at = "idle"
    BY DEF Idle, Requests
  <2> QED
    BY <1>3, <2>1 DEF SnapshotRestart, RequestsInv, SnapshotsInv, SettledInv
<1>4. CASE SnapshotTick
  BY <1>4 DEF SnapshotTick, Advance, RequestsInv, SnapshotsInv, SettledInv, Requests, SnapshotRows
<1>5. CASE RecordStored \/ Repin \/ UNCHANGED snapshotVars
  BY <1>5 DEF RecordStored, Repin, snapshotVars, RequestsInv, SnapshotsInv, SettledInv
<1> QED
  BY <1>1, <1>2, <1>3, <1>4, <1>5 DEF SnapshotNext

\* All that is said of a freeze holds of every state, however requests overlap.
LEMMA FreezeInvariant == SnapshotSpec => []FreezeInv
BY FreezeStart, FreezeKept, PTL DEF SnapshotSpec

\* All requests for a period are answered with one row.
THEOREM OneSnapshot == SnapshotSpec => []RepliesAgree
<1>1. FreezeInv => RepliesAgree
  BY DEF FreezeInv, SnapshotsInv, RepliesAgree
<1> QED
  BY FreezeInvariant, <1>1, PTL

\* None is frozen before its cutoff.
THEOREM NeverFrozenEarly == SnapshotSpec => []FrozenAfterCutoff
<1>1. FreezeInv => FrozenAfterCutoff
  BY DEF FreezeInv, SnapshotTypeOK, SnapshotRows, SnapshotsInv, FrozenAfterCutoff
<1> QED
  BY FreezeInvariant, <1>1, PTL

\* What is revealed to the settler is what was frozen.
THEOREM RevealedIsFrozen == SnapshotSpec => []SettledIsFrozen
<1>1. FreezeInv => SettledIsFrozen
  BY DEF FreezeInv, SettledInv, SettledIsFrozen
<1> QED
  BY FreezeInvariant, <1>1, PTL

-----------------------------------------------------------------------------
(* The freeze seen from outside. *)

\* The rows that are frozen and those that were sent, as the register has them.
Frozen == {<<p, snapshots[p]>> : p \in {q \in SettlerPeriods : snapshots[q].status = "frozen"}}

Sent == UNION {{p} \X replies[p] : p \in SettlerPeriods}

\* An answer that was sent is not taken back.
LEMMA RepliesStay ==
    ASSUME FreezeInv, [SnapshotNext]_snapshotVars, NEW p \in SettlerPeriods
    PROVE  replies[p] \subseteq replies'[p]
<1> USE DEF FreezeInv, SnapshotTypeOK
<1>1. CASE UNCHANGED replies
  BY <1>1
<1>2. ASSUME NEW f \in Freezes, NEW row, Reply(f, row) PROVE replies[p] \subseteq replies'[p]
  BY <1>2 DEF Reply
<1> QED
  BY <1>1, <1>2 DEF SnapshotNext, snapshotVars, FreezeStep, Ensure, ReadStatus, CountRows,
     Freeze, ReplyFrozen, RecordStored, Repin, SnapshotRestart, Settle, SnapshotTick

\* A step of a request freezes its period, or answers for it, or does nothing that
\* can be seen; no other step can be seen either.
LEMMA RegisterStep ==
    FreezeInv /\ [SnapshotNext]_snapshotVars => [FrozenTable!OnceNext]_<<Frozen, Sent>>
<1> SUFFICES ASSUME FreezeInv, [SnapshotNext]_snapshotVars PROVE FrozenTable!OnceNext
  BY DEF Frozen, Sent
<1>1. FreezeInv'
  BY FreezeKept
<1>2. Frozen \subseteq Frozen'
  BY FrozenStays DEF Frozen
<1>3. Sent \subseteq Sent'
  BY RepliesStay DEF Sent
<1>4. Sent' \subseteq Frozen'
  BY <1>1 DEF Sent, Frozen, FreezeInv, SnapshotsInv
<1>5. FrozenTable!OneOfEachKey(Frozen')
  BY DEF Frozen, FrozenTable!OneOfEachKey, PeriodOf
<1> QED
  BY <1>2, <1>3, <1>4, <1>5 DEF Frozen, Sent, FrozenTable!OnceNext

\* Whatever overlaps, restarts or arrives late, a period is frozen in one step, for
\* good, and every answer for it is the row of that step.
THEOREM FreezeIsAtomic == SnapshotSpec => ImplementsFrozenTable
<1>1. SnapshotInit => FrozenTable!OnceInit
  BY DEF SnapshotInit, NoRow, PeriodOf, FrozenTable!OnceInit, FrozenTable!OneOfEachKey
<1> QED
  BY <1>1, RegisterStep, FreezeInvariant, PTL
  DEF SnapshotSpec, ImplementsFrozenTable, FrozenTable!OnceSpec, Frozen, Sent

-----------------------------------------------------------------------------
(* What a freeze counts. *)

\* What the store holds of each origin, and what each is pinned to.
OriginsInv ==
    /\ stored \in [Origins -> 0..MaxRecords]
    /\ pinned \in [Origins -> Addresses \cup {NoAddress}]

\* Records arrive one at a time, up to the bound, and pins change to addresses.
LEMMA OriginsInvariant == SnapshotSpec => []OriginsInv
<1>1. SnapshotInit => OriginsInv
  BY SnapshotAssumption DEF SnapshotInit, OriginsInv
<1>2. OriginsInv /\ [SnapshotNext]_snapshotVars => OriginsInv'
  <2> SUFFICES ASSUME OriginsInv, [SnapshotNext]_snapshotVars PROVE OriginsInv'
    OBVIOUS
  <2>1. CASE RecordStored
    <3>1. PICK s \in Origins :
              stored[s] < MaxRecords /\ stored' = [stored EXCEPT ![s] = @ + 1]
      BY <2>1 DEF RecordStored
    <3>2. stored[s] + 1 \in 0..MaxRecords
      BY <3>1, SnapshotAssumption DEF OriginsInv
    <3> QED
      BY <2>1, <3>1, <3>2 DEF RecordStored, OriginsInv
  <2>2. CASE Repin
    BY <2>2 DEF Repin, OriginsInv
  <2>3. CASE FreezeStep \/ SnapshotRestart \/ Settle \/ SnapshotTick \/ UNCHANGED snapshotVars
    BY <2>3 DEF FreezeStep, SnapshotRestart, Settle, SnapshotTick, snapshotVars, OriginsInv
  <2> QED
    BY <2>1, <2>2, <2>3 DEF SnapshotNext
<1> QED
  BY <1>1, <1>2, PTL DEF SnapshotSpec

\* The origins a row of a kind is made of.
OriginsOf(row) == {s \in Contributions : Contributor(s) = row[1] /\ stored[s] = row[2]}

\* There are finitely many origins to a kind of row, and they can be counted.
LEMMA OriginsOfCount ==
    ASSUME NEW row \in RowKind
    PROVE  /\ Cardinality(OriginsOf(row)) \in 0..Cardinality(Origins)
           /\ ExistsBijection(1..Cardinality(OriginsOf(row)), OriginsOf(row))
<1>1. OriginsOf(row) \in SUBSET Origins /\ IsFiniteSet(Origins)
  BY SnapshotAssumption DEF OriginsOf, Contributions
<1>2. /\ IsFiniteSet(OriginsOf(row))
      /\ Cardinality(OriginsOf(row)) <= Cardinality(Origins)
  BY <1>1, FS_Subset
<1>3. Cardinality(Origins) \in Nat /\ Cardinality(OriginsOf(row)) \in Nat
  BY <1>1, <1>2, FS_CardinalityType
<1> QED
  BY <1>2, <1>3, FS_CardinalityType

\* The records of the origins that are credited to an address.
RecordsOf(a) == {rec \in StoredRecords : Contributor(rec[1]) = a}

\* The records the rows of an address stand for.
CountedOf(a) ==
    {rec \in CountedRecords([row \in RowKind |-> Cardinality(OriginsOf(row))]) : rec[1][1] = a}

\* Each record a row stands for is one of the store, and the other way around: the
\* rows of a kind are numbered as their origins are.
LEMMA CountedAreStored ==
    ASSUME OriginsInv, NEW a \in Addresses
    PROVE  ExistsBijection(CountedOf(a), RecordsOf(a))
<1> DEFINE size(row) == Cardinality(OriginsOf(row))
           nth(row) == CHOOSE f : f \in Bijection(1..size(row), OriginsOf(row))
           F == [rec \in CountedOf(a) |-> <<nth(rec[1])[rec[2]], rec[3]>>]
<1>1. ASSUME NEW row \in RowKind
      PROVE  /\ size(row) \in 0..Cardinality(Origins)
             /\ \A c \in 1..size(row) : nth(row)[c] \in OriginsOf(row)
             /\ \A c, d \in 1..size(row) : nth(row)[c] = nth(row)[d] => c = d
             /\ \A s \in OriginsOf(row) : \E c \in 1..size(row) : nth(row)[c] = s
  <2>1. size(row) \in 0..Cardinality(Origins)
    BY OriginsOfCount
  <2>2. \E f : f \in Bijection(1..size(row), OriginsOf(row))
    BY OriginsOfCount DEF ExistsBijection
  <2>3. nth(row) \in Bijection(1..size(row), OriginsOf(row))
    BY <2>2
  <2> HIDE DEF nth, size
  <2> QED
    BY <2>1, <2>3 DEF Bijection, Injection, Surjection, IsInjective
<1>2. ASSUME NEW rec
      PROVE  rec \in CountedOf(a) <=>
                 \E row \in RowKind : \E c \in 1..size(row) : \E k \in 1..MaxRecords :
                     rec = <<row, c, k>> /\ k <= row[2] /\ row[1] = a
  <2>1. \A row \in RowKind : size(row) \in 0..Cardinality(Origins) /\ size(row) \in Nat
    BY <1>1
  <2>2. Cardinality(Origins) \in Nat
    BY SnapshotAssumption, FS_CardinalityType
  <2> HIDE DEF size
  <2>3. CountedOf(a) = {r \in RowKind \X (1..Cardinality(Origins)) \X (1..MaxRecords) :
                           r[2] <= size(r[1]) /\ r[3] <= r[1][2] /\ r[1][1] = a}
    BY DEF CountedOf, CountedRecords, size
  <2> QED
    BY <2>1, <2>2, <2>3
<1> HIDE DEF nth, size
<1>3. ASSUME NEW row \in RowKind, NEW s \in OriginsOf(row)
      PROVE  s \in Origins /\ stored[s] = row[2] /\ Contributor(s) = row[1]
  BY DEF OriginsOf, Contributions
<1>4. \A row \in RowKind : row = <<row[1], row[2]>> /\ row[2] \in Nat
  BY SnapshotAssumption DEF RowKind
<1>5. F \in [CountedOf(a) -> RecordsOf(a)]
  <2>1. ASSUME NEW rec \in CountedOf(a) PROVE F[rec] \in RecordsOf(a)
    <3>1. PICK row, c, k :
              row \in RowKind /\ c \in 1..size(row) /\ k \in 1..MaxRecords
              /\ rec = <<row, c, k>> /\ k <= row[2] /\ row[1] = a
      BY <1>2
    <3>2. F[rec] = <<nth(row)[c], k>>
      BY <3>1
    <3>3. nth(row)[c] \in OriginsOf(row)
      BY <1>1, <3>1
    <3> QED
      BY <1>3, <3>1, <3>2, <3>3 DEF RecordsOf, StoredRecords
  <2> QED
    BY <2>1
<1>6. ASSUME NEW rec1 \in CountedOf(a), NEW rec2 \in CountedOf(a), F[rec1] = F[rec2]
      PROVE  rec1 = rec2
  <2>1. PICK row1, c1, k1 :
            row1 \in RowKind /\ c1 \in 1..size(row1) /\ k1 \in 1..MaxRecords
            /\ rec1 = <<row1, c1, k1>> /\ k1 <= row1[2] /\ row1[1] = a
    BY <1>2
  <2>2. PICK row2, c2, k2 :
            row2 \in RowKind /\ c2 \in 1..size(row2) /\ k2 \in 1..MaxRecords
            /\ rec2 = <<row2, c2, k2>> /\ k2 <= row2[2] /\ row2[1] = a
    BY <1>2
  <2>3. nth(row1)[c1] = nth(row2)[c2] /\ k1 = k2
    BY <1>6, <2>1, <2>2
  <2>4. nth(row1)[c1] \in OriginsOf(row1) /\ nth(row2)[c2] \in OriginsOf(row2)
    BY <1>1, <2>1, <2>2
  <2>5. row1[2] = row2[2] /\ row1[1] = row2[1]
    BY <1>3, <2>1, <2>2, <2>3, <2>4
  <2>6. row1 = row2
    BY <1>4, <2>1, <2>2, <2>5
  <2>7. c1 = c2
    BY <1>1, <2>1, <2>2, <2>3, <2>6
  <2> QED
    BY <2>1, <2>2, <2>3, <2>6, <2>7
<1>7. ASSUME NEW rec \in RecordsOf(a) PROVE \E r \in CountedOf(a) : F[r] = rec
  <2>1. PICK s \in Origins, k \in 1..MaxRecords :
            rec = <<s, k>> /\ k <= stored[s] /\ Contributor(s) = a
    BY DEF RecordsOf, StoredRecords
  <2> DEFINE row == <<a, stored[s]>>
  <2>2. stored[s] \in 1..MaxRecords /\ stored[s] > 0
    BY <2>1, SnapshotAssumption DEF OriginsInv
  <2>3. row \in RowKind /\ row[1] = a /\ row[2] = stored[s]
    BY <2>2 DEF RowKind
  <2>4. s \in OriginsOf(row)
    BY <2>1, <2>2, <2>3 DEF OriginsOf, Contributions
  <2> HIDE DEF row
  <2>5. PICK c \in 1..size(row) : nth(row)[c] = s
    BY <1>1, <2>3, <2>4
  <2>6. <<row, c, k>> \in CountedOf(a)
    BY <1>2, <2>1, <2>3, <2>5
  <2>7. F[<<row, c, k>>] = rec
    BY <2>1, <2>5, <2>6
  <2> QED
    BY <2>6, <2>7
<1>8. F \in Bijection(CountedOf(a), RecordsOf(a))
  <2> HIDE DEF F
  <2> QED
    BY <1>5, <1>6, <1>7 DEF Bijection, Injection, Surjection, IsInjective
<1> QED
  BY <1>8 DEF ExistsBijection

\* The rows of an address stand for as many records as the store has of it.
LEMMA RowsCover ==
    ASSUME OriginsInv, NEW a \in Addresses
    PROVE  Cardinality(CountedOf(a)) = Cardinality(RecordsOf(a))
<1>1. IsFiniteSet(Origins \X (1..MaxRecords))
  <2>1. IsFiniteSet(1..MaxRecords) /\ IsFiniteSet(Origins)
    BY SnapshotAssumption, FS_Interval
  <2> QED
    BY <2>1, FS_Product
<1>2. RecordsOf(a) \in SUBSET (Origins \X (1..MaxRecords))
  BY DEF RecordsOf, StoredRecords
<1>3. IsFiniteSet(RecordsOf(a))
  BY <1>1, <1>2, FS_Subset
<1>4. ExistsBijection(RecordsOf(a), CountedOf(a))
  BY CountedAreStored, Fun_ExistsBijSymmetric
<1> QED
  BY <1>3, <1>4, FS_Bijection

\* Whatever is stored and whoever is pinned when it counts, a freeze accounts for
\* every record, once, and to the address that is to be credited with it.
THEOREM EveryRecordIsCounted == SnapshotSpec => RowsCoverRecords
<1> DEFINE Covered ==
        \A f \in Freezes, a \in Addresses :
            freezing'[f].at = "counted" /\ freezing[f].at # "counted" =>
                Cardinality({rec \in CountedRecords(freezing'[f].rows.rows) : rec[1][1] = a}) =
                Cardinality({rec \in StoredRecords :
                    pinned[rec[1]] = a \/ (a = Self /\ pinned[rec[1]] = NoAddress)})
<1>1. FreezeInv /\ OriginsInv /\ [SnapshotNext]_snapshotVars => [Covered]_snapshotVars
  <2> SUFFICES ASSUME FreezeInv, OriginsInv, [SnapshotNext]_snapshotVars,
                      NEW f \in Freezes, NEW a \in Addresses,
                      freezing'[f].at = "counted", freezing[f].at # "counted"
               PROVE  Cardinality({rec \in CountedRecords(freezing'[f].rows.rows) :
                                       rec[1][1] = a}) =
                      Cardinality({rec \in StoredRecords :
                          pinned[rec[1]] = a \/ (a = Self /\ pinned[rec[1]] = NoAddress)})
    BY DEF Covered
  <2>1. freezing'[f].rows = RootOf(freezing[f].now)
    <3>1. freezing' # freezing /\ ~SnapshotRestart
      <4>1. freezing'[f].at # freezing[f].at
        OBVIOUS
      <4>2. ~SnapshotRestart
        <5>1. SnapshotRestart => freezing'[f] = Idle
          BY DEF SnapshotRestart
        <5>2. Idle.at = "idle"
          BY DEF Idle
        <5> QED
          BY <5>1, <5>2
      <4> QED
        BY <4>1, <4>2
    <3>2. FreezeStep
      BY <3>1 DEF SnapshotNext, RecordStored, Repin, Settle, SnapshotTick, snapshotVars
    <3>3. ASSUME NEW g \in Freezes, NEW to, Continue(g, to), to.at # "counted"
          PROVE  FALSE
      BY <3>3 DEF Continue, FreezeInv, SnapshotTypeOK
    <3>4. PICK g \in Freezes :
              \/ \E q \in SettlerPeriods, cutoff \in EpochCloses : Ensure(g, q, cutoff)
              \/ ReadStatus(g) \/ CountRows(g) \/ Freeze(g) \/ ReplyFrozen(g)
      BY <3>2 DEF FreezeStep
    <3>5. ~\E q \in SettlerPeriods, cutoff \in EpochCloses : Ensure(g, q, cutoff)
      <4> SUFFICES ASSUME NEW q \in SettlerPeriods, NEW cutoff \in EpochCloses,
                          Ensure(g, q, cutoff)
                   PROVE  FALSE
        OBVIOUS
      <4> DEFINE to == [Idle EXCEPT !.at = "ensured", !.period = q, !.now = clock]
      <4>1. to.at # "counted"
        BY DEF Idle
      <4>2. Continue(g, to)
        BY DEF Ensure
      <4> HIDE DEF to
      <4> QED
        BY <3>3, <4>1, <4>2
    <3>6. ~ReadStatus(g)
      <4>1. [freezing[g] EXCEPT !.at = "pending"].at # "counted" /\ Idle.at # "counted"
        BY DEF Idle, FreezeInv, SnapshotTypeOK, Requests
      <4> QED
        BY <3>3, <4>1 DEF ReadStatus, Reply
    <3>7. ~ReplyFrozen(g)
      BY <3>3 DEF ReplyFrozen, Reply, Idle
    <3>8. ~Freeze(g)
      <4>1. [freezing[g] EXCEPT !.at = "frozen"].at # "counted"
        BY DEF FreezeInv, SnapshotTypeOK, Requests
      <4> QED
        BY <3>3, <4>1 DEF Freeze
    <3>9. CountRows(g)
      BY <3>4, <3>5, <3>6, <3>7, <3>8
    <3> DEFINE to == [freezing[g] EXCEPT !.at = "counted", !.rows = RootOf(freezing[g].now)]
    <3>10. freezing[g] \in Requests /\ to.rows = RootOf(freezing[g].now)
      BY DEF FreezeInv, SnapshotTypeOK, Requests
    <3>11. Continue(g, to)
      BY <3>3, <3>9 DEF CountRows, Idle
    <3> HIDE DEF to
    <3>12. freezing' = [freezing EXCEPT ![g] = to] /\ freezing \in [Freezes -> Requests]
      BY <3>11 DEF Continue, FreezeInv, SnapshotTypeOK
    <3>13. f = g
      BY <3>12
    <3> QED
      BY <3>10, <3>12, <3>13
  <2>2. RootOf(freezing[f].now).rows = [row \in RowKind |-> Cardinality(OriginsOf(row))]
    BY DEF RootOf, OriginsOf
  <2>3. {rec \in CountedRecords(freezing'[f].rows.rows) : rec[1][1] = a} = CountedOf(a)
    BY <2>1, <2>2 DEF CountedOf
  <2>4. ASSUME NEW rec \in StoredRecords
        PROVE  Contributor(rec[1]) = a
                   <=> pinned[rec[1]] = a \/ (a = Self /\ pinned[rec[1]] = NoAddress)
    BY SnapshotAssumption DEF Contributor
  <2>5. {rec \in StoredRecords :
            pinned[rec[1]] = a \/ (a = Self /\ pinned[rec[1]] = NoAddress)} = RecordsOf(a)
    BY <2>4 DEF RecordsOf
  <2> QED
    BY <2>3, <2>5, RowsCover
<1> QED
  BY <1>1, FreezeInvariant, OriginsInvariant, PTL DEF SnapshotSpec, RowsCoverRecords
=============================================================================
