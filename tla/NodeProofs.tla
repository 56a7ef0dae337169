------------------------------ MODULE NodeProofs ------------------------------
(***************************************************************************)
(* What holds of one node as a whole: the clock that its components share  *)
(* disturbs none of them, so that the node keeps what each of them keeps.  *)
(***************************************************************************)
EXTENDS Node, DatabaseProofs, SnapshotProofs, AdminProofs, DashboardProofs, WindowProofs

\* No component moves the clock but by a tick.
LEMMA ClockOnly == [NodeNext]_nodeVars => Advance \/ UNCHANGED clock
<1>1. SnapshotNext => Advance \/ UNCHANGED clock
  BY DEF SnapshotNext, FreezeStep, Continue, RecordStored, Repin, SnapshotRestart, Settle, SnapshotTick
<1>2. AdminNext => Advance \/ UNCHANGED clock
  BY DEF AdminNext, AdminTick
<1>3. TseiNext => Advance \/ UNCHANGED clock
  BY DEF TseiNext, TseiTick
<1> QED
  BY <1>1, <1>2, <1>3 DEF NodeNext, Followed, nodeVars

\* Of the steps of the node each of these components sees its own and, if it looks at
\* the clock, those of the clock, which are ticks of its own: the node implements it.
LEMMA NodeRuns == NodeSpec => Spec /\ SnapshotSpec /\ TseiSpec /\ JoinSpec /\ AnchorSpec
<1>1. NodeInit => Init /\ SnapshotInit /\ TseiInit /\ JoinInit /\ AnchorInit
  BY DEF NodeInit
<1>2. [NodeNext]_nodeVars => [Next]_vars /\ [JoinNext]_joinVars /\ [AnchorNext]_anchorVars
  BY DEF NodeNext, Followed, nodeVars, stores
<1>3. [NodeNext]_nodeVars => [SnapshotNext]_snapshotVars
  <2>1. [NodeNext]_nodeVars => SnapshotNext \/ UNCHANGED freezes
    BY DEF NodeNext, Followed, nodeVars
  <2>2. UNCHANGED freezes /\ Advance => SnapshotNext
    BY DEF freezes, SnapshotNext, SnapshotTick
  <2>3. UNCHANGED freezes /\ UNCHANGED clock => UNCHANGED snapshotVars
    BY DEF freezes, snapshotVars
  <2> QED
    BY <2>1, <2>2, <2>3, ClockOnly
<1>4. [NodeNext]_nodeVars => [TseiNext]_tseiVars
  <2>1. [NodeNext]_nodeVars => TseiNext \/ UNCHANGED gateway
    BY DEF NodeNext, Followed, nodeVars
  <2>2. UNCHANGED gateway /\ Advance => TseiNext
    BY DEF gateway, TseiNext, TseiTick
  <2>3. UNCHANGED gateway /\ UNCHANGED clock => UNCHANGED tseiVars
    BY DEF gateway, tseiVars
  <2> QED
    BY <2>1, <2>2, <2>3, ClockOnly
<1> QED
  BY <1>1, <1>2, <1>3, <1>4, PTL
  DEF NodeSpec, Spec, SnapshotSpec, TseiSpec, JoinSpec, AnchorSpec

\* The other two specifications it does not implement, as it does not promise that
\* migrations end, and its clock ticks also when no nonce or session is running: of
\* these it keeps the invariants, whichever component is followed.
LEMMA NodeKeeps == NodeSpec => [](MigrationsInv /\ AccessInv)
<1>1. NodeInit => MigrationsInv /\ AccessInv
  BY MigrationsStart, AccessStart DEF NodeInit
<1>2. MigrationsInv /\ [NodeNext]_nodeVars => MigrationsInv'
  <2>1. [NodeNext]_nodeVars => [MigrationsNext]_migrationVars
    BY DEF NodeNext, Followed, nodeVars, stores
  <2> QED
    BY <2>1, MigrationsStep
<1>3. AccessInv /\ [NodeNext]_nodeVars => AccessInv'
  <2> SUFFICES ASSUME AccessInv, [NodeNext]_nodeVars PROVE AccessInv'
    OBVIOUS
  <2>1. CASE AdminNext
    BY <2>1, AccessStep
  <2>2. CASE ~AdminNext
    <3>1. UNCHANGED access
      BY <2>2 DEF NodeNext, Followed, nodeVars
    <3>2. \/ /\ Advance
             /\ UNCHANGED <<configVars, nonces, drawn, sessions, attempts, accepted, claimants>>
          \/ UNCHANGED adminVars
      BY <3>1, ClockOnly DEF access, adminVars
    <3> QED
      BY <3>2, RestStep
  <2> QED
    BY <2>1, <2>2
<1> QED
  BY <1>1, <1>2, <1>3, PTL DEF NodeSpec

\* For any records, periods, wallets, environments, limits and commitments: whatever
\* the node does, each of its components keeps the safety invariants stated of it.
THEOREM NodeCorrect ==
    NodeSpec => [](/\ TypeOK /\ DivergenceKept /\ CorroborationExact /\ AttestationsFollow
                   /\ RowsSurvive
                   /\ RepliesAgree /\ FrozenAfterCutoff /\ SettledIsFrozen
                   /\ MemoryFollowsFile /\ NonceUsedOnce /\ OneClaimant
                   /\ SlidingWindow /\ AnswerComplete
                   /\ ApprovedWasSent /\ ReportedAnchored /\ ProofStays)
<1>1. MigrationsInv => RowsSurvive
  BY DEF MigrationsInv, RowsSurvive, RowsAt, Latest
<1>2. AccessInv => MemoryFollowsFile /\ NonceUsedOnce /\ OneClaimant
  BY ClaimantOf DEF AccessInv, ConfigInv, NonceInv, MemoryFollowsFile, NonceUsedOnce
<1> QED
  BY <1>1, <1>2, NodeRuns, NodeKeeps, StoreTypeCorrect, DivergenceIsKept, CorroborationIsExact,
     AttestationsFollowRecords, OneSnapshot, NeverFrozenEarly, RevealedIsFrozen,
     WindowNeverOverrun, AnswersHideNothing, ApprovedRowsWereSent, ReportsAreTrue,
     ProofsStayTrue, PTL

\* No step of the node, whichever component makes it, puts a second row under an
\* identity, or changes or drops a stored row.
THEOREM NodeKeepsTables == NodeSpec => ImplementsTables
BY NodeRuns, RefinesWriteOnce

\* In the node as a whole a period is frozen in one step, for good, and answered with
\* the row of that step.
THEOREM NodeFreezesOnce == NodeSpec => ImplementsFrozenTable
BY NodeRuns, FreezeIsAtomic

\* In the node as a whole a freeze accounts for every record, once.
THEOREM NodeCountsRecords == NodeSpec => RowsCoverRecords
BY NodeRuns, EveryRecordIsCounted
=============================================================================
