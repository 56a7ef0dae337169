---------------------------- MODULE DatabaseProofs ----------------------------
(***************************************************************************)
(* What TLAPS proves of the database of a node: of RecordStore, for any    *)
(* records, crashes and starts, of Migrations, for any stops, and of what  *)
(* the Router keeps in it, for any requests, names, keys and peers.        *)
(***************************************************************************)
EXTENDS RecordStore, Migrations, Router, TLAPS, FiniteSetTheorems

-----------------------------------------------------------------------------
\* An observation whose record is being written with its key is not cut off yet.
Unattested ==
    (Observed(records) \ Observed(attestations))
        \ {Observation(w.row) : w \in {x \in writing : x.key}}

\* Each message is kept once, with its observation: what is delivered, what is being
\* written and what is attested all have a row in records.
RowsInv ==
    /\ writing = {} \/ \E w \in Incoming : writing = {w}
    /\ IsFiniteSet(records)
    /\ OnePerObservation(records)
    /\ \A w \in writing \cup delivered : w.key => Observation(w.row) \in Observed(records)
    /\ Observed(attestations) \subseteq Observed(records)

AttestedInv ==
    /\ \A d \in delivered : d.key =>
            \E a \in attestations : AttestationId(a) = AttestationId(d.row)
    /\ \A a, b \in attestations : AttestationId(a) = AttestationId(b) => a = b

\* Of the rows of before migration v8 none counts: the first start attests them all.
CutOffInv ==
    up \/ attestations # {} =>
        IsFiniteSet(Unattested) /\ Cardinality(Unattested) <= crashes + failures

StoreInv == TypeOK /\ RowsInv /\ AttestedInv /\ CutOffInv

-----------------------------------------------------------------------------
\* Records are identified with their fields.
LEMMA RecordFields ==
    ASSUME NEW w \in Record
    PROVE  w.row \in Rows /\ w.key \in BOOLEAN
BY DEF Record

\* INSERT OR IGNORE keeps what there is, and one row of each observation.
LEMMA InsertedKeeps ==
    ASSUME NEW rows, NEW w
    PROVE  /\ rows \subseteq Inserted(rows, w)
           /\ Inserted(rows, w) \subseteq rows \cup {w.row}
           /\ OnePerObservation(rows) => OnePerObservation(Inserted(rows, w))
           /\ w.key => Observation(w.row) \in Observed(Inserted(rows, w))
           /\ ~w.key => Inserted(rows, w) = rows
BY DEF Inserted, OnePerObservation, SameObservation, Observed

\* So does the insert of an attestation, by its identity.
LEMMA AttestedKeeps ==
    ASSUME NEW rows, NEW w
    PROVE  /\ rows \subseteq Attested(rows, w)
           /\ Attested(rows, w) \subseteq rows \cup {w.row}
           /\ w.key => \E a \in Attested(rows, w) : AttestationId(a) = AttestationId(w.row)
           /\ ~w.key => Attested(rows, w) = rows
           /\ (\A a, b \in rows : AttestationId(a) = AttestationId(b) => a = b)
              => \A a, b \in Attested(rows, w) : AttestationId(a) = AttestationId(b) => a = b
BY DEF Attested

\* The identity of an attestation has that of its observation in it.
LEMMA SameAttestation ==
    ASSUME NEW a, NEW b, AttestationId(a) = AttestationId(b)
    PROVE  Observation(a) = Observation(b)
BY DEF AttestationId

\* The identity is that of a signature: signed rows are told apart by all but the form
\* of s, and never fall together with unsigned ones.
LEMMA IdentityIsMessage ==
    ASSUME NEW a, NEW b
    PROVE  AttestationId(a) = AttestationId(b) <=> SameMessage(a, b)
BY DEF AttestationId, SameMessage, Observation

-----------------------------------------------------------------------------
\* What the database holds before the first start satisfies the invariant.
LEMMA StoreInit == Init => StoreInv
<1> SUFFICES ASSUME Init PROVE StoreInv
  OBVIOUS
<1>1. records \subseteq Legacy /\ OnePerObservation(records)
  BY DEF Init
<1>2. IsFiniteSet(records) /\ records \subseteq Rows
  BY <1>1, StoreAssumption, FS_Subset
<1>3. TypeOK
  <2>1. Cardinality(writing) <= 1 /\ writing \subseteq Incoming
    BY FS_EmptySet DEF Init
  <2>2. crashes \in 0..MaxCrashes /\ failures \in 0..MaxFailures
    BY StoreAssumption DEF Init
  <2> QED
    BY <1>2, <2>1, <2>2 DEF Init, TypeOK
<1>4. RowsInv
  BY <1>1, <1>2 DEF Init, RowsInv, Observed
<1> QED
  BY <1>3, <1>4 DEF Init, StoreInv, AttestedInv, CutOffInv

\* Every step leaves the tables well typed.
LEMMA StoreTypeStep == StoreInv /\ [Next]_vars => TypeOK'
<1> SUFFICES ASSUME StoreInv, [Next]_vars PROVE TypeOK'
  OBVIOUS
<1> USE DEF StoreInv, TypeOK
<1>1. ASSUME NEW w \in Incoming PROVE w.row \in Rows
  BY StoreAssumption, RecordFields
<1>2. CASE Start
  BY <1>2 DEF Start
<1>3. ASSUME NEW w \in Incoming, InsertObservation(w) PROVE TypeOK'
  <2>1. records' \subseteq Rows
    BY <1>1, <1>3, InsertedKeeps DEF InsertObservation
  <2>2. flagged' \subseteq Rows \X Rows
    BY <1>1, <1>3 DEF InsertObservation, DoubleSigns
  <2>3. writing' \subseteq Incoming /\ Cardinality(writing') <= 1
    <3>1. writing' = {w}
      BY <1>3 DEF InsertObservation
    <3>2. Cardinality({w}) = 1
      BY FS_Singleton
    <3> QED
      BY <3>1, <3>2
  <2> QED
    BY <1>3, <2>1, <2>2, <2>3 DEF InsertObservation
<1>4. ASSUME NEW w \in Incoming, InsertAttestation(w) PROVE TypeOK'
  <2>1. attestations' \subseteq Rows
    BY <1>1, <1>4, AttestedKeeps DEF InsertAttestation
  <2>2. writing' \subseteq Incoming /\ Cardinality(writing') <= 1
    BY <1>4, FS_EmptySet DEF InsertAttestation
  <2> QED
    BY <1>4, <2>1, <2>2 DEF InsertAttestation
<1>7. ASSUME NEW w \in Incoming, FailObservation(w) PROVE TypeOK'
  <2>1. flagged' \subseteq Rows \X Rows
    BY <1>1, <1>7 DEF FailObservation, DoubleSigns
  <2> QED
    BY <1>7, <2>1 DEF FailObservation
<1>8. ASSUME NEW w \in Incoming, FailAttestation(w) PROVE TypeOK'
  <2>1. writing' \subseteq Incoming /\ Cardinality(writing') <= 1
    BY <1>8, FS_EmptySet DEF FailAttestation
  <2>2. failures' \in 0..MaxFailures
    BY <1>8, StoreAssumption DEF FailAttestation
  <2> QED
    BY <1>8, <2>1, <2>2 DEF FailAttestation
<1>5. CASE Crash
  <2>1. writing' \subseteq Incoming /\ Cardinality(writing') <= 1
    BY <1>5, FS_EmptySet DEF Crash
  <2>2. crashes' \in 0..MaxCrashes
    BY <1>5, StoreAssumption DEF Crash
  <2> QED
    BY <1>5, <2>1, <2>2 DEF Crash
<1>6. CASE UNCHANGED vars
  BY <1>6 DEF vars
<1> QED
  BY <1>2, <1>3, <1>4, <1>5, <1>6, <1>7, <1>8 DEF Next

\* Every step keeps the rows that were stored: INSERT OR IGNORE never replaces one.
LEMMA RowsStay ==
    [Next]_vars => records \subseteq records' /\ attestations \subseteq attestations'
BY InsertedKeeps, AttestedKeeps
   DEF Next, vars, Start, InsertObservation, FailObservation, InsertAttestation,
       FailAttestation, Crash

\* A record is in writing only after its observation was inserted.
LEMMA RowsStep == StoreInv /\ [Next]_vars => RowsInv'
<1> SUFFICES ASSUME StoreInv, [Next]_vars PROVE RowsInv'
  OBVIOUS
<1> USE DEF StoreInv, RowsInv
<1>1. Observed(records) \subseteq Observed(records')
  BY RowsStay DEF Observed
<1>2. CASE Start
  BY <1>2 DEF Start, Observed
<1>3. ASSUME NEW w \in Incoming, InsertObservation(w) PROVE RowsInv'
  <2>1. IsFiniteSet(records')
    <3>1. IsFiniteSet(records \cup {w.row})
      BY FS_Union, FS_Singleton
    <3> QED
      BY <1>3, <3>1, InsertedKeeps, FS_Subset DEF InsertObservation
  <2>2. w.key => Observation(w.row) \in Observed(records')
    BY <1>3, InsertedKeeps DEF InsertObservation
  <2> QED
    BY <1>1, <1>3, <2>1, <2>2, InsertedKeeps DEF InsertObservation
<1>4. ASSUME NEW w \in Incoming, InsertAttestation(w) PROVE RowsInv'
  <2>1. Observed(attestations') \subseteq Observed(records)
    BY <1>4, AttestedKeeps DEF InsertAttestation, Observed
  <2> QED
    BY <1>4, <2>1 DEF InsertAttestation
<1>5. CASE Crash
  BY <1>5 DEF Crash
<1>6. CASE UNCHANGED vars
  BY <1>6 DEF vars
<1>7. ASSUME NEW w \in Incoming, FailObservation(w) \/ FailAttestation(w) PROVE RowsInv'
  BY <1>7 DEF FailObservation, FailAttestation
<1> QED
  BY <1>2, <1>3, <1>4, <1>5, <1>6, <1>7 DEF Next

\* An attestation is inserted under its identity, once, and then never goes away.
LEMMA AttestedStep == StoreInv /\ [Next]_vars => AttestedInv'
<1> SUFFICES ASSUME StoreInv, [Next]_vars PROVE AttestedInv'
  OBVIOUS
<1> USE DEF StoreInv, AttestedInv
<1>1. CASE Start
  \* Rows of one identity are of one observation, of which records has one.
  <2>1. \A a, b \in records : AttestationId(a) = AttestationId(b) => a = b
    BY SameAttestation DEF RowsInv, OnePerObservation, SameObservation
  <2> QED
    BY <1>1, <2>1, RowsStay DEF Start
<1>2. ASSUME NEW w \in Incoming, InsertObservation(w) PROVE AttestedInv'
  BY <1>2 DEF InsertObservation
<1>3. ASSUME NEW w \in Incoming, InsertAttestation(w) PROVE AttestedInv'
  BY <1>3, AttestedKeeps DEF InsertAttestation
<1>4. CASE Crash
  BY <1>4 DEF Crash
<1>5. CASE UNCHANGED vars
  BY <1>5 DEF vars
<1>6. ASSUME NEW w \in Incoming, FailObservation(w) \/ FailAttestation(w) PROVE AttestedInv'
  BY <1>6 DEF FailObservation, FailAttestation
<1> QED
  BY <1>1, <1>2, <1>3, <1>4, <1>5, <1>6 DEF Next

\* Only a crash or an error between the two inserts adds to what is cut off, and one
\* observation at most.
LEMMA CutOffStep == StoreInv /\ [Next]_vars => CutOffInv'
<1> SUFFICES ASSUME StoreInv, [Next]_vars PROVE CutOffInv'
  OBVIOUS
<1> USE DEF StoreInv, CutOffInv
<1>0. crashes \in Nat /\ failures \in Nat
  BY StoreAssumption DEF TypeOK
<1>1. ASSUME up \/ attestations # {}, Unattested' \subseteq Unattested,
             crashes' = crashes, failures' = failures
      PROVE  CutOffInv'
  BY <1>0, <1>1, FS_Subset, FS_CardinalityType
<1>2. CASE Start
  <2>1. CASE attestations = {}
    <3>1. Unattested' = {}
      BY <1>2, <2>1 DEF Start, Unattested
    <3> QED
      BY <1>0, <1>2, <3>1, FS_EmptySet DEF Start
  <2>2. CASE attestations # {}
    BY <1>1, <1>2, <2>2 DEF Start, Unattested
  <2> QED
    BY <2>1, <2>2
<1>3. ASSUME NEW w \in Incoming, InsertObservation(w) PROVE CutOffInv'
  <2>1. Unattested' \subseteq Unattested
    BY <1>3, InsertedKeeps DEF InsertObservation, Unattested, Observed
  <2> QED
    BY <1>1, <1>3, <2>1 DEF InsertObservation
<1>4. ASSUME NEW w \in Incoming, InsertAttestation(w) PROVE CutOffInv'
  <2>1. writing = {w}
    BY <1>4 DEF InsertAttestation, RowsInv
  <2>2. w.key => Observation(w.row) \in Observed(attestations')
    BY <1>4, AttestedKeeps, SameAttestation DEF InsertAttestation, Observed
  <2>3. Observed(attestations) \subseteq Observed(attestations')
    BY RowsStay DEF Observed
  <2>4. Unattested' \subseteq Unattested
    BY <1>4, <2>1, <2>2, <2>3 DEF InsertAttestation, Unattested
  <2> QED
    BY <1>1, <1>4, <2>4 DEF InsertAttestation
<1>5. ASSUME up, writing' = {}, UNCHANGED <<records, attestations>>,
             crashes' + failures' = crashes + failures + 1
      PROVE  CutOffInv'
  <2>1. PICK o : Unattested' \subseteq Unattested \cup {o}
    BY <1>5 DEF Unattested, RowsInv
  <2>2. IsFiniteSet(Unattested) /\ Cardinality(Unattested) <= crashes + failures
    BY <1>5
  <2>3. IsFiniteSet(Unattested \cup {o})
        /\ Cardinality(Unattested \cup {o}) <= crashes + failures + 1
    <3>1. Cardinality(Unattested) \in Nat
      BY <2>2, FS_CardinalityType
    <3> QED
      BY <1>0, <2>2, <3>1, FS_AddElement
  <2>4. IsFiniteSet(Unattested') /\ Cardinality(Unattested') <= crashes + failures + 1
    BY <1>0, <2>1, <2>3, FS_Subset, FS_CardinalityType
  <2> QED
    BY <1>5, <2>4
<1>6. CASE UNCHANGED vars
  BY <1>6 DEF vars, Unattested
<1>7. CASE Crash
  BY <1>0, <1>5, <1>7 DEF Crash
<1>8. ASSUME NEW w \in Incoming, FailObservation(w) PROVE CutOffInv'
  <2>1. Unattested' = Unattested
    BY <1>8 DEF FailObservation, Unattested
  <2> QED
    BY <1>1, <1>8, <2>1 DEF FailObservation
<1>9. ASSUME NEW w \in Incoming, FailAttestation(w) PROVE CutOffInv'
  BY <1>0, <1>5, <1>9 DEF FailAttestation
<1> QED
  BY <1>2, <1>3, <1>4, <1>6, <1>7, <1>8, <1>9 DEF Next

\* Every delivery, statement, crash and start keeps the invariant.
LEMMA StoreStep == StoreInv /\ [Next]_vars => StoreInv'
BY StoreTypeStep, RowsStep, AttestedStep, CutOffStep DEF StoreInv

\* The invariant holds of every state, however often the process stops or an insert
\* throws.
LEMMA StoreInvariant == Spec => []StoreInv
BY StoreInit, StoreStep, PTL DEF Spec

-----------------------------------------------------------------------------
\* Two rows of a hash make it divergent.
LEMMA TwoRowsDiverge ==
    ASSUME NEW rows, IsFiniteSet(rows), NEW r \in rows, NEW s \in rows,
           r # s, r.hash = s.hash, r.ns = s.ns
    PROVE  StateOf(rows, r.hash, r.ns) = "divergent"
<1> DEFINE same == {x \in rows : x.hash = r.hash /\ x.ns = r.ns}
<1>1. r \in same /\ s \in same
  OBVIOUS
<1>2. IsFiniteSet(same)
  BY FS_Subset
<1> HIDE DEF same
<1>3. Cardinality(same) # 0
  BY <1>1, <1>2, FS_EmptySet
<1>4. Cardinality(same) # 1
  BY <1>1, <1>2, FS_Singleton
<1> QED
  BY <1>3, <1>4 DEF StateOf, same

\* The tables stay well typed.
THEOREM StoreTypeCorrect == Spec => []TypeOK
BY StoreInvariant, PTL DEF StoreInv

\* Two values that were delivered are two rows.
LEMMA DivergenceOf == StoreInv => DivergenceKept
<1> SUFFICES ASSUME StoreInv PROVE DivergenceKept
  OBVIOUS
<1> USE DEF StoreInv, RowsInv
<1>1. ASSUME NEW d \in delivered, d.key
      PROVE  \E r \in records : Observation(r) = Observation(d.row)
  BY <1>1 DEF Observed
<1>2. ASSUME NEW d \in delivered, d.key, NEW e \in delivered, e.key,
             e.row.hash = d.row.hash, e.row.ns = d.row.ns, e.row.value # d.row.value
      PROVE  StateOf(records, d.row.hash, d.row.ns) = "divergent"
  <2>1. PICK r \in records : Observation(r) = Observation(d.row)
    BY <1>1, <1>2
  <2>2. PICK s \in records : Observation(s) = Observation(e.row)
    BY <1>1, <1>2
  <2>3. r # s /\ r.hash = d.row.hash /\ r.ns = d.row.ns /\ r.hash = s.hash /\ r.ns = s.ns
    BY <1>2, <2>1, <2>2 DEF Observation
  <2> QED
    BY <2>3, TwoRowsDiverge
<1> QED
  BY <1>1, <1>2 DEF DivergenceKept

\* Divergence survives any sequence of deliveries, replays, crashes and starts.
THEOREM DivergenceIsKept == Spec => []DivergenceKept
BY StoreInvariant, DivergenceOf, PTL

\* What a quorum counts: each signature delivered is retained, and none is counted
\* twice, whatever the peers, crashes and errors.
THEOREM CorroborationIsExact == Spec => []CorroborationExact
<1>1. StoreInv => CorroborationExact
  BY IdentityIsMessage DEF StoreInv, AttestedInv, CorroborationExact
<1> QED
  BY StoreInvariant, <1>1, PTL

\* What is missing in the attestations was cut off by a crash or an error.
LEMMA AttestationsOf == StoreInv => AttestationsFollow
<1> SUFFICES ASSUME StoreInv PROVE AttestationsFollow
  OBVIOUS
<1>1. Missing \subseteq Unattested
  BY DEF Missing, Unattested
<1>2. crashes + failures \in Nat
  BY StoreAssumption DEF StoreInv, TypeOK
<1>3. up => Cardinality(Missing) <= crashes + failures
  BY <1>1, <1>2, FS_Subset, FS_CardinalityType DEF StoreInv, CutOffInv
<1> QED
  BY <1>3 DEF StoreInv, RowsInv, AttestationsFollow

\* A crash, or an error, costs one attestation at most, however many there are and
\* whenever.
THEOREM AttestationsFollowRecords == Spec => []AttestationsFollow
BY StoreInvariant, AttestationsOf, PTL

\* A step of the store is one of both write-once tables, or changes neither.
LEMMA TablesStep ==
    StoreInv /\ [Next]_vars =>
        /\ [RecordTable!OnceNext]_<<records, {}>>
        /\ [AttestationTable!OnceNext]_<<attestations, {}>>
<1> SUFFICES ASSUME StoreInv, [Next]_vars
             PROVE  RecordTable!OnceNext /\ AttestationTable!OnceNext
  OBVIOUS
<1>1. RowsInv' /\ AttestedInv'
  BY RowsStep, AttestedStep
<1>2. RecordTable!OneOfEachKey(records')
  BY <1>1 DEF RecordTable!OneOfEachKey, RowsInv, OnePerObservation, SameObservation
<1>3. AttestationTable!OneOfEachKey(attestations')
  BY <1>1 DEF AttestationTable!OneOfEachKey, AttestedInv
<1> QED
  BY <1>2, <1>3, RowsStay DEF RecordTable!OnceNext, AttestationTable!OnceNext

\* Both tables of the store implement WriteOnce: no delivery, replay, crash, start or
\* backfill puts a second row under an identity, or changes or drops a stored row.
THEOREM RefinesWriteOnce == Spec => ImplementsTables
<1>1. Init => RecordTable!OnceInit /\ AttestationTable!OnceInit
  BY DEF Init, OnePerObservation, SameObservation, RecordTable!OnceInit,
         RecordTable!OneOfEachKey, AttestationTable!OnceInit, AttestationTable!OneOfEachKey
<1> QED
  BY <1>1, TablesStep, StoreInvariant, PTL
  DEF Spec, ImplementsTables, RecordTable!OnceSpec, AttestationTable!OnceSpec
-----------------------------------------------------------------------------
(* Migrations. *)

\* Where the rows are when the statement after the version that is recorded is next.
\* Between "rename records" and "drop legacy" they are in records_legacy, and once
\* they are copied in both.
RowsAt(version, next) ==
    /\ version = 0 =>
           original = {} /\ legacy = Absent /\ (next >= 3 => table = {})
    /\ version = 6 /\ next \in {0, 1} =>
           \/ table # Absent /\ legacy = Absent /\ original \subseteq table
           \/ table = Absent /\ legacy # Absent /\ original \subseteq legacy
           \/ table # Absent /\ legacy # Absent /\ original \subseteq table \cup legacy
    /\ version = 6 /\ next \in {2, 3} =>
           /\ original \subseteq legacy /\ legacy # Absent
           /\ table = IF next = 2 THEN Absent ELSE {}
    /\ version = 6 /\ next = 4 =>
           original \subseteq table /\ table # Absent /\ legacy # Absent
    /\ version # 0 /\ (version = 6 => next > 4) =>
           original \subseteq table /\ table # Absent /\ legacy = Absent

MigrationsInv ==
    /\ applied \in 0..Latest
    /\ original \subseteq OldRows
    /\ table \in (SUBSET OldRows) \cup {Absent}
    /\ legacy \in (SUBSET OldRows) \cup {Absent}
    /\ statement = 0 \/ (applied < Latest /\ statement \in 1..Len(Statements(applied + 1)))
    /\ serving => applied = Latest
    /\ RowsAt(applied, statement)

\* The three kinds of migrations, as sequences.
LEMMA StatementsOf ==
    ASSUME NEW v
    PROVE  /\ v = 1 => Statements(v) =
                  <<"drop records", "create records", "ensure", "version">>
           /\ v = 7 => Statements(v) =
                  <<"rename records", "create records", "copy legacy", "drop legacy",
                    "ensure", "version">>
           /\ v \notin {1, 7} => Statements(v) = <<"ensure", "version">>
<1>1. CASE v = 1
  <2>1. v # 7
    BY <1>1
  <2> QED
    BY <1>1, <2>1, Zenon DEF Statements
<1>2. CASE v = 7
  <2>1. v # 1
    BY <1>2
  <2> QED
    BY <1>2, <2>1, Zenon DEF Statements
<1>3. CASE v \notin {1, 7}
  BY <1>3, Zenon DEF Statements
<1> QED
  BY <1>1, <1>2, <1>3

\* A migration has a statement, and a version is recorded by its last one.
LEMMA VersionIsLast ==
    ASSUME NEW v \in 1..Latest
    PROVE  /\ Len(Statements(v)) \in Nat /\ 1 \in 1..Len(Statements(v))
           /\ \A i \in 1..Len(Statements(v)) :
                  Statements(v)[i] = "version" <=> i = Len(Statements(v))
<1> DEFINE t == Statements(v)
<1> HIDE DEF t
<1>1. CASE v = 1
  <2>1. t = <<"drop records", "create records", "ensure", "version">>
    BY <1>1, StatementsOf DEF t
  <2>2. Len(t) = 4 /\ t[1] # "version" /\ t[2] # "version" /\ t[3] # "version" /\ t[4] = "version"
    BY <2>1
  <2> QED
    BY <2>2 DEF t
<1>2. CASE v = 7
  <2>1. t = <<"rename records", "create records", "copy legacy", "drop legacy",
              "ensure", "version">>
    BY <1>2, StatementsOf DEF t
  <2>2. /\ Len(t) = 6 /\ t[1] # "version" /\ t[2] # "version" /\ t[3] # "version"
        /\ t[4] # "version" /\ t[5] # "version" /\ t[6] = "version"
    BY <2>1
  <2> QED
    BY <2>2 DEF t
<1>3. CASE v \notin {1, 7}
  <2>1. t = <<"ensure", "version">>
    BY <1>3, StatementsOf DEF t
  <2>2. Len(t) = 2 /\ t[1] # "version" /\ t[2] = "version"
    BY <2>1
  <2> QED
    BY <2>2 DEF t
<1> QED
  BY <1>1, <1>2, <1>3

\* What a statement leaves in the two tables.
LEMMA EffectOf ==
    ASSUME NEW s, Effect(s)
    PROVE  /\ s = "drop records" => table' = Absent /\ legacy' = legacy
           /\ s = "create records" => table' = {} /\ legacy' = legacy
           /\ s = "rename records" => table' = Absent /\ legacy' = table
           /\ s = "copy legacy" => table' = table \cup legacy /\ legacy' = legacy
           /\ s = "drop legacy" => legacy' = Absent /\ table' = table
           /\ s \in {"ensure", "version"} => table' = table /\ legacy' = legacy
BY DEF Effect

\* Whatever version a database has, it satisfies the invariant before the first start.
LEMMA MigrationsStart == MigrationsInit => MigrationsInv
BY MigrationsAssumption DEF MigrationsInit, MigrationsInv, RowsAt, Latest

\* A statement that fails stops the node, at a place from which it can go on.
LEMMA FailsStep ==
    ASSUME MigrationsInv, Execute, Fails(Statements(applied + 1)[statement])
    PROVE  MigrationsInv'
<1> DEFINE t == Statements(applied + 1)
<1> HIDE DEF t
<1>1. statement' = 0 /\ UNCHANGED <<applied, table, legacy, serving, original>>
  BY DEF Execute
<1>2. applied \in 0..7 /\ statement \in 1..Len(t)
  BY DEF Execute, MigrationsInv, Latest, t
<1>3. CASE applied = 6
  <2>0. applied + 1 = 7
    BY <1>3
  <2>1. t = <<"rename records", "create records", "copy legacy", "drop legacy",
              "ensure", "version">>
    BY <2>0, StatementsOf DEF t
  <2>2. /\ Len(t) = 6 /\ t[1] = "rename records" /\ t[2] = "create records"
        /\ t[3] = "copy legacy" /\ t[4] = "drop legacy" /\ t[5] = "ensure" /\ t[6] = "version"
    BY <2>1
  <2>3. statement \in 1..6 /\ Fails(t[statement])
    BY <1>2, <2>2 DEF t
  <2>4. statement # 2
    BY <1>3, <2>2, <2>3 DEF MigrationsInv, RowsAt, Fails
  <2>5. statement \notin {3, 4}
    BY <1>3, <2>2, <2>3 DEF MigrationsInv, RowsAt, Fails
  <2>6. statement \notin {5, 6}
    BY <2>2, <2>3 DEF Fails
  <2>7. statement = 1
    BY <2>3, <2>4, <2>5, <2>6
  <2> QED
    BY <1>1, <1>3, <2>7 DEF MigrationsInv, RowsAt
<1>4. CASE applied # 6
  BY <1>1, <1>4 DEF MigrationsInv, RowsAt
<1> QED
  BY <1>3, <1>4

\* The statement that records the version finds the rows in the one table.
LEMMA VersionStep ==
    ASSUME MigrationsInv, Execute, statement = Len(Statements(applied + 1))
    PROVE  MigrationsInv'
<1>0. applied \in 0..7 /\ applied + 1 \in 1..Latest
  BY DEF Execute, MigrationsInv, Latest
<1> DEFINE t == Statements(applied + 1)
<1> HIDE DEF t
<1>1. t[statement] = "version" /\ Len(t) \in Nat /\ 1 \in 1..Len(t)
  BY <1>0, VersionIsLast DEF t
<1>2. ~Fails(t[statement]) /\ Effect(t[statement])
  BY <1>1 DEF Execute, Fails, t
<1>3. table' = table /\ legacy' = legacy
  BY <1>1, <1>2, EffectOf
<1>4. /\ applied' = applied + 1 /\ statement' = IF applied + 1 = Latest THEN 0 ELSE 1
      /\ serving' = (applied + 1 = Latest) /\ original' = original
  BY <1>1, <1>2 DEF Execute, t
<1>5. original \subseteq table /\ table # Absent /\ legacy = Absent
  <2>1. CASE applied = 0
    <3>0. applied + 1 = 1
      BY <2>1
    <3>1. t = <<"drop records", "create records", "ensure", "version">>
      BY <3>0, StatementsOf DEF t
    <3>2. Len(t) = 4
      BY <3>1
    <3> QED
      BY <2>1, <3>2, MigrationsAssumption DEF MigrationsInv, RowsAt, t
  <2>2. CASE applied = 6
    <3>0. applied + 1 = 7
      BY <2>2
    <3>1. t = <<"rename records", "create records", "copy legacy", "drop legacy",
                "ensure", "version">>
      BY <3>0, StatementsOf DEF t
    <3>2. Len(t) = 6
      BY <3>1
    <3>3. statement = 6
      BY <3>2 DEF t
    <3> QED
      BY <2>2, <3>3 DEF MigrationsInv, RowsAt
  <2>3. CASE applied \notin {0, 6}
    BY <2>3 DEF MigrationsInv, RowsAt
  <2> QED
    BY <2>1, <2>2, <2>3
<1>6. statement' = 0 \/ (applied' < Latest /\ statement' \in 1..Len(Statements(applied' + 1)))
  BY <1>0, <1>4, VersionIsLast DEF Latest
<1>7. RowsAt(applied, statement)'
  BY <1>0, <1>3, <1>4, <1>5 DEF RowsAt, Latest
<1>8. (serving => applied = Latest)'
  BY <1>4
<1>9. applied' \in 0..Latest
  BY <1>0, <1>4 DEF Latest
<1> QED
  BY <1>3, <1>4, <1>6, <1>7, <1>8, <1>9 DEF MigrationsInv

\* Any other takes the rows from one place to the next.
LEMMA MoveStep ==
    ASSUME MigrationsInv, Execute, statement # Len(Statements(applied + 1)),
           ~Fails(Statements(applied + 1)[statement])
    PROVE  MigrationsInv'
<1>0. applied \in 0..7 /\ applied + 1 \in 1..Latest
  BY DEF Execute, MigrationsInv, Latest
<1> DEFINE t == Statements(applied + 1)
<1> HIDE DEF t
<1>1. statement \in 1..Len(t) /\ Len(t) \in Nat /\ statement # Len(t)
  BY <1>0, VersionIsLast DEF t, Execute, MigrationsInv
<1>9. t[statement] # "version"
  BY <1>0, <1>1, VersionIsLast DEF t
<1>2. Effect(t[statement]) /\ ~Fails(t[statement])
  BY DEF Execute, t
<1>3. /\ applied' = applied /\ statement' = statement + 1
      /\ serving' = FALSE /\ original' = original
  BY <1>9 DEF Execute, t
<1>4. statement' \in 1..Len(Statements(applied' + 1)) /\ applied' < Latest
  BY <1>0, <1>1, <1>3 DEF t, Latest
<1>5. CASE applied = 0
  <2>0. applied + 1 = 1
    BY <1>5
  <2>1. t = <<"drop records", "create records", "ensure", "version">>
    BY <2>0, StatementsOf DEF t
  <2>2. Len(t) = 4 /\ t[1] = "drop records" /\ t[2] = "create records" /\ t[3] = "ensure"
    BY <2>1
  <2>3. statement \in {1, 2, 3}
    <3>1. Len(t) = 4
      BY <2>2
    <3> QED
      BY <1>1, <3>1
  <2>4. table' = Absent \/ table' = {} \/ table' = table
    BY <1>2, <2>2, <2>3, EffectOf
  <2>5. legacy' = legacy
    BY <1>2, <2>2, <2>3, EffectOf
  <2>6. statement' >= 3 => table' = {}
    <3>1. CASE statement = 1
      BY <1>3, <3>1
    <3>2. CASE statement = 2
      BY <1>2, <2>2, <3>2, EffectOf
    <3>3. CASE statement = 3
      <4>1. table' = table
        BY <1>2, <2>2, <3>3, EffectOf
      <4>2. table = {}
        BY <1>5, <3>3 DEF MigrationsInv, RowsAt
      <4> QED
        BY <4>1, <4>2
    <3> QED
      BY <2>3, <3>1, <3>2, <3>3
  <2> QED
    BY <1>0, <1>3, <1>4, <1>5, <2>4, <2>5, <2>6 DEF MigrationsInv, RowsAt
<1>6. CASE applied = 6
  <2>0. applied + 1 = 7
    BY <1>6
  <2>1. t = <<"rename records", "create records", "copy legacy", "drop legacy",
              "ensure", "version">>
    BY <2>0, StatementsOf DEF t
  <2>2. /\ Len(t) = 6 /\ t[1] = "rename records" /\ t[2] = "create records"
        /\ t[3] = "copy legacy" /\ t[4] = "drop legacy" /\ t[5] = "ensure"
    BY <2>1
  <2>3. CASE statement = 1
    <3>1. table # Absent /\ legacy = Absent /\ table' = Absent /\ legacy' = table
      BY <1>2, <2>2, <2>3, EffectOf DEF Fails
    <3> QED
      BY <1>0, <1>3, <1>4, <1>6, <2>3, <3>1, MigrationsAssumption DEF MigrationsInv, RowsAt
  <2>4. CASE statement = 2
    <3>1. table' = {} /\ legacy' = legacy
      BY <1>2, <2>2, <2>4, EffectOf
    <3> QED
      BY <1>0, <1>3, <1>4, <1>6, <2>4, <3>1 DEF MigrationsInv, RowsAt
  <2>5. CASE statement = 3
    <3>1. table = {} /\ table' = table \cup legacy /\ legacy' = legacy
      BY <1>2, <1>6, <2>2, <2>5, EffectOf DEF MigrationsInv, RowsAt
    <3>2. table' = legacy /\ legacy \in SUBSET OldRows
      BY <1>6, <2>5, <3>1 DEF MigrationsInv, RowsAt
    <3> QED
      BY <1>0, <1>3, <1>4, <1>6, <2>5, <3>1, <3>2, MigrationsAssumption DEF MigrationsInv, RowsAt
  <2>6. CASE statement = 4
    <3>1. table' = table /\ legacy' = Absent
      BY <1>2, <2>2, <2>6, EffectOf
    <3> QED
      BY <1>0, <1>3, <1>4, <1>6, <2>6, <3>1 DEF MigrationsInv, RowsAt
  <2>7. CASE statement = 5
    <3>1. table' = table /\ legacy' = legacy
      BY <1>2, <2>2, <2>7, EffectOf
    <3> QED
      BY <1>0, <1>3, <1>4, <1>6, <2>7, <3>1 DEF MigrationsInv, RowsAt
  <2>8. statement \in 1..5
    <3>1. Len(t) = 6
      BY <2>2
    <3> QED
      BY <1>1, <3>1
  <2> QED
    BY <2>3, <2>4, <2>5, <2>6, <2>7, <2>8
<1>7. CASE applied \notin {0, 6}
  <2>0. applied + 1 \notin {1, 7}
    BY <1>0, <1>7
  <2>1. t = <<"ensure", "version">>
    BY <2>0, StatementsOf DEF t
  <2>2. Len(t) = 2 /\ t[1] = "ensure"
    BY <2>1
  <2>3. statement = 1
    BY <1>1, <2>2
  <2>4. table' = table /\ legacy' = legacy
    BY <1>2, <2>2, <2>3, EffectOf
  <2> QED
    BY <1>0, <1>3, <1>4, <1>7, <2>4 DEF MigrationsInv, RowsAt
<1> QED
  BY <1>5, <1>6, <1>7

\* Every statement, and a stop after any, leaves the rows in one of their places.
LEMMA MigrationsStep == MigrationsInv /\ [MigrationsNext]_migrationVars => MigrationsInv'
<1> SUFFICES ASSUME MigrationsInv, [MigrationsNext]_migrationVars PROVE MigrationsInv'
  OBVIOUS
<1>1. CASE Open
  <2>1. applied \in 0..Latest
    BY DEF MigrationsInv
  <2>2. 1 \in 1..Len(Statements(applied + 1)) \/ applied = Latest
    BY <2>1, VersionIsLast DEF Latest
  <2>3. CASE applied = Latest
    BY <1>1, <2>3 DEF Open, MigrationsInv, RowsAt, Latest
  <2>4. CASE applied # Latest
    BY <1>1, <2>1, <2>2, <2>4 DEF Open, MigrationsInv, RowsAt, Latest
  <2> QED
    BY <2>3, <2>4
<1>2. CASE Execute
  <2>1. CASE Fails(Statements(applied + 1)[statement])
    BY <1>2, <2>1, FailsStep
  <2>2. CASE statement = Len(Statements(applied + 1))
    BY <1>2, <2>2, VersionStep
  <2>3. CASE statement # Len(Statements(applied + 1)) /\ ~Fails(Statements(applied + 1)[statement])
    BY <1>2, <2>3, MoveStep
  <2> QED
    BY <2>1, <2>2, <2>3, Zenon
<1>3. CASE Stop
  BY <1>3 DEF Stop, MigrationsInv, RowsAt
<1>4. CASE UNCHANGED migrationVars
  BY <1>4 DEF migrationVars, MigrationsInv, RowsAt
<1> QED
  BY <1>1, <1>2, <1>3, <1>4 DEF MigrationsNext

\* No stop and no start loses a row: the places of the rows are an invariant.
THEOREM RowsSurviveStops == MigrationsSpec => []RowsSurvive
<1>1. MigrationsInv => RowsSurvive
  BY DEF MigrationsInv, RowsSurvive, RowsAt, Latest
<1> QED
  BY MigrationsStart, <1>1, MigrationsStep, PTL DEF MigrationsSpec
-----------------------------------------------------------------------------
(* The router. *)

RequestType ==
    [at : {"none", "resolved", "signing", "attested", "answered", "cut"},
     data : Calldata \cup {NoEntry}, value : NameValues \cup {NoEntry},
     by : Signers \cup {Unsigned}, wyriwe : BOOLEAN, stamp : Nat,
     receipt : {"none", "stored", "failed"}, time : Nat,
     record : {"none", "unwritten", "written", "failed", "lost"}]

RouterTypeOK ==
    /\ clock \in Nat
    /\ savedKey \in GatewayKeys \cup {Unsigned} /\ gatewayKey \in GatewayKeys \cup {Unsigned}
    /\ described \in BOOLEAN
    /\ names \in [Lookups -> NameValues \cup {NoEntry}]
    /\ requests \in [Queries -> RequestType]

\* How far a request is, at the time t: who attests has a key, no answer is given before
\* its receipt is settled, none is recorded before it is given, and no second is ahead.
InStage(r, t) ==
    /\ r.wyriwe => r.by # Unsigned
    /\ r.at \in {"none", "resolved", "signing"} => r.receipt = "none"
    /\ r.at = "signing" => r.wyriwe
    /\ r.at \in {"attested", "answered"} /\ r.wyriwe => r.receipt # "none"
    /\ r.receipt # "none" => r.wyriwe
    /\ r.at # "answered" => r.record = "none"
    /\ r.stamp <= t
    /\ r.at = "answered" => r.stamp <= r.time

\* What a request has stored is in the tables rows and atts.
HeldIn(r, rows, atts) ==
    /\ r.receipt = "stored" =>
           /\ \E a \in atts : AttestationId(a) = AttestationId(ReceiptOf(r))
           /\ \E s \in rows : /\ SameObservation(s, ReceiptOf(r))
                              /\ s.by # Unsigned \/ s.source # NoSource
    /\ r.record = "written" =>
           /\ \E a \in atts : AttestationId(a) = AttestationId(RecordOf(r))
           /\ \E s \in rows : SameObservation(s, RecordOf(r))

\* The receipts of this node are those its requests have stored, and are signed.
OwnReceipts ==
    /\ \A a \in retained : a.ns = "wyriwe" /\ a.source = NoSource =>
           \E q \in Queries : requests[q].receipt = "stored" /\ a = ReceiptOf(requests[q])
    /\ \A s \in kept : s.ns = "wyriwe" /\ s.source = NoSource => s.by # Unsigned

RouterInv ==
    /\ RouterTypeOK
    /\ \A q \in Queries : InStage(requests[q], clock) /\ HeldIn(requests[q], kept, retained)
    /\ OwnReceipts

\* Nothing is asked and nothing is stored at first.
LEMMA RouterStart == RouterInit => RouterInv
BY RouterAssumption DEF RouterInit, ClockInit, RouterInv, RouterTypeOK, RequestType, InStage,
                        HeldIn, OwnReceipts, NoRequest

\* An insert adds the row or nothing, and leaves one like it in both tables.
LEMMA InsertGives ==
    ASSUME NEW row, Insert(row)
    PROVE  /\ kept \subseteq kept' /\ kept' \subseteq kept \cup {row}
           /\ retained \subseteq retained' /\ retained' \subseteq retained \cup {row}
           /\ \E s \in kept' : SameObservation(s, row)
           /\ \E a \in retained' : AttestationId(a) = AttestationId(row)
<1> DEFINE record == [row |-> row, key |-> TRUE]
<1>1. record.row = row /\ record.key
  OBVIOUS
<1>2. kept' = Inserted(kept, record) /\ retained' = Attested(retained, record)
  BY DEF Insert
<1> HIDE DEF record
<1>3. Observation(row) \in Observed(kept')
  BY <1>1, <1>2, InsertedKeeps
<1> QED
  BY <1>1, <1>2, <1>3, InsertedKeeps, AttestedKeeps DEF Observed, SameObservation

\* An insert that fails adds the row to one table or to none.
LEMMA InsertFailsGives ==
    ASSUME NEW row, InsertFails(row)
    PROVE  kept \subseteq kept' /\ kept' \subseteq kept \cup {row} /\ retained' = retained
BY DEF InsertFails, Inserted

\* What is held stays held while the tables grow.
LEMMA HeldStays ==
    ASSUME NEW r, NEW rows, NEW atts, NEW rows2, NEW atts2, HeldIn(r, rows, atts),
           rows \subseteq rows2, atts \subseteq atts2
    PROVE  HeldIn(r, rows2, atts2)
BY DEF HeldIn

\* Neither table loses a row.
LEMMA TablesGrow ==
    ASSUME [RouterNext]_routerVars
    PROVE  kept \subseteq kept' /\ retained \subseteq retained'
<1>1. CASE UNCHANGED <<kept, retained>>
  BY <1>1
<1>2. ASSUME NEW row, Insert(row) PROVE kept \subseteq kept' /\ retained \subseteq retained'
  BY <1>2, InsertGives
<1>3. ASSUME NEW row, InsertFails(row)
      PROVE  kept \subseteq kept' /\ retained \subseteq retained'
  BY <1>3, InsertFailsGives
<1>4. ASSUME NEW q \in Queries, StoreReceipt(q)
      PROVE  \E row : Insert(row) \/ InsertFails(row)
  BY <1>4, Zenon DEF StoreReceipt
<1>5. ASSUME NEW q \in Queries, RespondUnsigned(q)
      PROVE  \E row : Insert(row) \/ InsertFails(row)
  BY <1>5, Zenon DEF RespondUnsigned
<1>6. ASSUME NEW q \in Queries, WriteRecord(q)
      PROVE  \E row : Insert(row) \/ InsertFails(row)
  BY <1>6, Zenon DEF WriteRecord
<1>7. CASE RelayRow
  BY <1>2, <1>7, Zenon DEF RelayRow
<1>8. ASSUME NEW q \in Queries, Ask(q) \/ Commit(q) \/ Respond(q)
      PROVE  UNCHANGED <<kept, retained>>
  BY <1>8, Zenon DEF Ask, Commit, Respond
<1>9. EditName \/ SaveGatewayKey \/ RouterRestart \/ RouterTick => UNCHANGED <<kept, retained>>
  BY DEF EditName, SaveGatewayKey, RouterRestart, RouterTick
<1>10. UNCHANGED routerVars => UNCHANGED <<kept, retained>>
  BY DEF routerVars
<1> QED
  BY <1>1, <1>2, <1>3, <1>4, <1>5, <1>6, <1>7, <1>8, <1>9, <1>10, Zenon DEF RouterNext

\* What is said of every request is said again when one of them moves on.
LEMMA OneMoves ==
    ASSUME RouterInv, NEW q \in Queries, NEW to \in RequestType, Now(q, to), UNCHANGED clock,
           kept \subseteq kept', retained \subseteq retained',
           InStage(to, clock), HeldIn(to, kept', retained')
    PROVE  /\ requests' \in [Queries -> RequestType]
           /\ \A x \in Queries : /\ InStage(requests'[x], clock')
                                 /\ HeldIn(requests'[x], kept', retained')
<1>1. requests' = [requests EXCEPT ![q] = to] /\ requests \in [Queries -> RequestType]
  BY DEF Now, RouterInv, RouterTypeOK
<1>2. ASSUME NEW x \in Queries
      PROVE  InStage(requests'[x], clock') /\ HeldIn(requests'[x], kept', retained')
  <2>1. CASE x = q
    BY <1>1, <2>1
  <2>2. CASE x # q
    <3>1. requests'[x] = requests[x] /\ InStage(requests[x], clock)
      BY <1>1, <2>2 DEF RouterInv
    <3>2. HeldIn(requests[x], kept', retained')
      BY HeldStays DEF RouterInv
    <3> QED
      BY <3>1, <3>2
  <2> QED
    BY <2>1, <2>2
<1> QED
  BY <1>1, <1>2

\* A request keeps its type, its stage and what it has stored, whoever moves.
LEMMA RequestsStep ==
    ASSUME RouterInv, [RouterNext]_routerVars
    PROVE  /\ requests' \in [Queries -> RequestType]
           /\ \A x \in Queries : /\ InStage(requests'[x], clock')
                                 /\ HeldIn(requests'[x], kept', retained')
<1> DEFINE Goal == /\ requests' \in [Queries -> RequestType]
                   /\ \A x \in Queries : /\ InStage(requests'[x], clock')
                                         /\ HeldIn(requests'[x], kept', retained')
<1> SUFFICES Goal
  OBVIOUS
<1>0. /\ kept \subseteq kept' /\ retained \subseteq retained'
      /\ gatewayKey \in GatewayKeys \cup {Unsigned} /\ described \in BOOLEAN
      /\ names \in [Lookups -> NameValues \cup {NoEntry}]
      /\ requests \in [Queries -> RequestType] /\ clock \in Nat
      /\ \A x \in Queries : /\ requests[x] \in RequestType
                            /\ InStage(requests[x], clock) /\ HeldIn(requests[x], kept, retained)
                            /\ HeldIn(requests[x], kept', retained')
  <2>1. kept \subseteq kept' /\ retained \subseteq retained'
    BY TablesGrow
  <2>2. \A x \in Queries : HeldIn(requests[x], kept', retained')
    BY <2>1, HeldStays DEF RouterInv
  <2> QED
    BY <2>1, <2>2 DEF RouterInv, RouterTypeOK
<1>1. ASSUME UNCHANGED requests, UNCHANGED clock \/ clock' = clock + 1 PROVE Goal
  <2>1. \A x \in Queries : InStage(requests[x], clock')
    BY <1>0, <1>1 DEF InStage, RequestType
  <2> QED
    BY <1>0, <1>1, <2>1
<1>2. ASSUME UNCHANGED clock, NEW q \in Queries, NEW to \in RequestType, Now(q, to),
             InStage(to, clock), HeldIn(to, kept', retained')
      PROVE  Goal
  BY <1>0, <1>2, OneMoves
<1> HIDE DEF Goal
<1>3. ASSUME UNCHANGED clock, NEW q \in Queries, Ask(q) PROVE Goal
  <2>1. PICK d \in Calldata : Now(q, Asked(d))
    BY <1>3 DEF Ask
  <2>2. /\ Resolved(d) \in NameValues \cup {NoEntry} /\ gatewayKey \in Signers \cup {Unsigned}
        /\ WyriweActive \in BOOLEAN /\ (WyriweActive => gatewayKey # Unsigned)
    BY <1>0, RouterAssumption DEF Resolved, NameValue, WyriweActive
  <2>3. Asked(d) \in RequestType
    BY <2>2 DEF Asked, RequestType
  <2>4. InStage(Asked(d), clock) /\ HeldIn(Asked(d), kept', retained')
    BY <1>0, <2>2 DEF Asked, InStage, HeldIn
  <2> QED
    BY <1>2, <1>3, <2>1, <2>3, <2>4
<1>4. ASSUME UNCHANGED clock, NEW q \in Queries, Commit(q) PROVE Goal
  <2> DEFINE to == [requests[q] EXCEPT !.at = "signing", !.stamp = clock]
  <2>1. /\ requests[q] \in RequestType /\ InStage(requests[q], clock)
        /\ requests[q].at = "resolved" /\ requests[q].wyriwe
    BY <1>0, <1>4 DEF Commit
  <2>2. Now(q, to) /\ to \in RequestType
    BY <1>0, <1>4, <2>1 DEF Commit, RequestType
  <2>3. InStage(to, clock) /\ to.receipt = "none" /\ to.record = "none"
    BY <1>0, <2>1 DEF InStage, RequestType
  <2> HIDE DEF to
  <2>4. HeldIn(to, kept', retained')
    BY <2>3 DEF HeldIn
  <2> QED
    BY <1>2, <1>4, <2>2, <2>3, <2>4
<1>5. ASSUME UNCHANGED clock, NEW q \in Queries, StoreReceipt(q) PROVE Goal
  <2>1. PICK end \in {"stored", "failed"} :
            /\ Now(q, [requests[q] EXCEPT !.at = "attested", !.receipt = end])
            /\ end = "stored" => Insert(ReceiptOf(requests[q]))
    BY <1>5 DEF StoreReceipt
  <2> DEFINE r == requests[q]
             to == [r EXCEPT !.at = "attested", !.receipt = end]
  <2>2. r \in RequestType /\ InStage(r, clock) /\ r.at = "signing"
    BY <1>0, <1>5 DEF StoreReceipt
  <2>3. to \in RequestType /\ ReceiptOf(to) = ReceiptOf(r)
    BY <2>2 DEF RequestType, ReceiptOf
  <2>4. InStage(to, clock) /\ to.record = "none" /\ r.by # Unsigned
    BY <2>2 DEF InStage, RequestType
  <2>5. ASSUME end = "stored"
        PROVE  /\ \E a \in retained' : AttestationId(a) = AttestationId(ReceiptOf(r))
               /\ \E s \in kept' : /\ SameObservation(s, ReceiptOf(r))
                                   /\ s.by # Unsigned \/ s.source # NoSource
    <3>1. /\ \E a \in retained' : AttestationId(a) = AttestationId(ReceiptOf(r))
          /\ kept' \subseteq kept \cup {ReceiptOf(r)}
      BY <2>1, <2>5, InsertGives
    <3>2. PICK s \in kept' : SameObservation(s, ReceiptOf(r))
      BY <2>1, <2>5, InsertGives
    <3>3. CASE s = ReceiptOf(r)
      BY <2>4, <3>1, <3>2, <3>3 DEF ReceiptOf, OwnRow
    <3>4. CASE s \in kept
      <4>1. s.ns = "wyriwe"
        BY <3>2 DEF SameObservation, Observation, ReceiptOf, OwnRow
      <4> QED
        BY <3>1, <3>2, <3>4, <4>1 DEF RouterInv, OwnReceipts
    <3> QED
      BY <3>1, <3>2, <3>3, <3>4
  <2>6. to.receipt = end
    BY <2>2 DEF RequestType
  <2> HIDE DEF to, r
  <2>7. HeldIn(to, kept', retained')
    BY <2>3, <2>4, <2>5, <2>6 DEF HeldIn
  <2> QED
    BY <1>2, <1>5, <2>1, <2>3, <2>4, <2>7 DEF to, r
<1>6. ASSUME UNCHANGED clock, NEW q \in Queries, Respond(q) PROVE Goal
  <2> DEFINE to == [requests[q] EXCEPT !.at = "answered", !.time = clock, !.record = "unwritten"]
  <2>1. Now(q, to) /\ to \in RequestType /\ ReceiptOf(to) = ReceiptOf(requests[q])
    BY <1>0, <1>6 DEF Respond, RequestType, ReceiptOf
  <2>2. InStage(to, clock)
    BY <1>0, <1>6 DEF Respond, Ready, InStage, RequestType
  <2>3. to.receipt = requests[q].receipt /\ to.record = "unwritten"
    BY <1>0 DEF RequestType
  <2>4. HeldIn(to, kept', retained')
    BY <1>0, <2>1, <2>3 DEF HeldIn
  <2> QED
    BY <1>2, <1>6, <2>1, <2>2, <2>4
<1>7. ASSUME UNCHANGED clock, NEW q \in Queries, RespondUnsigned(q) PROVE Goal
  <2> DEFINE r == [requests[q] EXCEPT !.at = "answered", !.time = clock]
  <2>1. PICK end \in {"written", "failed"} :
            /\ Now(q, [r EXCEPT !.record = end])
            /\ end = "written" => Insert(RecordOf(r))
    BY <1>7 DEF RespondUnsigned
  <2> DEFINE to == [r EXCEPT !.record = end]
  <2>2. /\ to \in RequestType /\ ReceiptOf(to) = ReceiptOf(requests[q])
        /\ RecordOf(to) = RecordOf(r)
        /\ to.receipt = requests[q].receipt /\ to.record = end
    BY <1>0 DEF RequestType, ReceiptOf, RecordOf
  <2>3. InStage(to, clock)
    BY <1>0, <1>7 DEF RespondUnsigned, Ready, InStage, RequestType
  <2> HIDE DEF r
  <2>4. end = "written" =>
            /\ \E a \in retained' : AttestationId(a) = AttestationId(RecordOf(r))
            /\ \E s \in kept' : SameObservation(s, RecordOf(r))
    BY <2>1, InsertGives
  <2> HIDE DEF to
  <2>5. HeldIn(to, kept', retained')
    BY <1>0, <2>2, <2>4 DEF HeldIn
  <2> QED
    BY <1>2, <1>7, <2>1, <2>2, <2>3, <2>5 DEF to
<1>8. ASSUME UNCHANGED clock, NEW q \in Queries, WriteRecord(q) PROVE Goal
  <2>1. PICK end \in {"written", "failed"} :
            /\ Now(q, [requests[q] EXCEPT !.record = end])
            /\ end = "written" => Insert(RecordOf(requests[q]))
    BY <1>8 DEF WriteRecord
  <2> DEFINE r == requests[q]
             to == [r EXCEPT !.record = end]
  <2>2. /\ to \in RequestType /\ ReceiptOf(to) = ReceiptOf(r) /\ RecordOf(to) = RecordOf(r)
        /\ to.receipt = r.receipt /\ to.record = end
    BY <1>0 DEF RequestType, ReceiptOf, RecordOf
  <2>3. InStage(to, clock)
    BY <1>0, <1>8 DEF WriteRecord, InStage, RequestType
  <2>4. end = "written" =>
            /\ \E a \in retained' : AttestationId(a) = AttestationId(RecordOf(r))
            /\ \E s \in kept' : SameObservation(s, RecordOf(r))
    BY <2>1, InsertGives
  <2>5. HeldIn(r, kept', retained')
    BY <1>0
  <2> HIDE DEF to, r
  <2>6. HeldIn(to, kept', retained')
    BY <2>2, <2>4, <2>5 DEF HeldIn
  <2> QED
    BY <1>2, <1>8, <2>1, <2>2, <2>3, <2>6 DEF to, r
<1>9. ASSUME UNCHANGED clock, RouterRestart PROVE Goal
  <2>1. requests' = [q \in Queries |-> Stopped(requests[q])]
    BY <1>9 DEF RouterRestart
  <2>2. ASSUME NEW q \in Queries
        PROVE  /\ Stopped(requests[q]) \in RequestType /\ InStage(Stopped(requests[q]), clock)
               /\ HeldIn(Stopped(requests[q]), kept', retained')
    <3> DEFINE r == requests[q]
               to == Stopped(r)
    <3>1. r \in RequestType /\ InStage(r, clock) /\ HeldIn(r, kept', retained')
      BY <1>0
    <3>2. to \in RequestType /\ InStage(to, clock)
      BY <3>1 DEF Stopped, InStage, RequestType
    <3>3. /\ ReceiptOf(to) = ReceiptOf(r) /\ RecordOf(to) = RecordOf(r)
          /\ to.receipt = r.receipt /\ (to.record = "written" => r.record = "written")
      BY <3>1 DEF Stopped, RequestType, ReceiptOf, RecordOf
    <3>4. HeldIn(to, kept', retained')
      <4> HIDE DEF to, r
      <4> QED
        BY <3>1, <3>3 DEF HeldIn
    <3> QED
      BY <3>2, <3>4
  <2> QED
    BY <1>9, <2>1, <2>2 DEF Goal
<1> QED
  BY <1>1, <1>3, <1>4, <1>5, <1>6, <1>7, <1>8, <1>9
     DEF RouterNext, routerVars, EditName, RelayRow, SaveGatewayKey, RouterTick, Advance

\* A stored receipt is not taken back, and goes on saying what it said.
LEMMA StoredStays ==
    ASSUME RouterInv, [RouterNext]_routerVars, NEW q \in Queries, requests[q].receipt = "stored"
    PROVE  requests'[q].receipt = "stored" /\ ReceiptOf(requests'[q]) = ReceiptOf(requests[q])
<1> DEFINE Goal == /\ requests'[q].receipt = "stored"
                   /\ ReceiptOf(requests'[q]) = ReceiptOf(requests[q])
<1>0. /\ requests \in [Queries -> RequestType] /\ requests[q] \in RequestType
      /\ InStage(requests[q], clock)
  BY DEF RouterInv, RouterTypeOK
<1>1. requests[q].at \in {"attested", "answered", "cut"}
  BY <1>0 DEF InStage, RequestType
<1>2. requests'[q] = requests[q] => Goal
  OBVIOUS
<1>3. ASSUME NEW x \in Queries, NEW to, Now(x, to), x # q PROVE Goal
  BY <1>0, <1>3 DEF Now
<1>4. ASSUME NEW to, Now(q, to), to.receipt = "stored", ReceiptOf(to) = ReceiptOf(requests[q])
      PROVE  Goal
  BY <1>0, <1>4 DEF Now
<1> HIDE DEF Goal
<1>5. ASSUME NEW x \in Queries, Ask(x) \/ Commit(x) \/ StoreReceipt(x) PROVE Goal
  <2>1. (\E to : Now(x, to)) /\ requests[x].at \in {"none", "resolved", "signing"}
    BY <1>5, Zenon DEF Ask, Commit, StoreReceipt
  <2> QED
    BY <1>1, <1>3, <2>1
<1>6. ASSUME NEW x \in Queries, Respond(x) PROVE Goal
  <2> DEFINE to == [requests[q] EXCEPT !.at = "answered", !.time = clock, !.record = "unwritten"]
  <2>1. to.receipt = "stored" /\ ReceiptOf(to) = ReceiptOf(requests[q])
    BY <1>0 DEF RequestType, ReceiptOf
  <2>2. x = q => Now(q, to)
    BY <1>6, Zenon DEF Respond
  <2>3. \E other : Now(x, other)
    BY <1>6, Zenon DEF Respond
  <2> HIDE DEF to
  <2> QED
    BY <1>3, <1>4, <2>1, <2>2, <2>3
<1>7. ASSUME NEW x \in Queries, RespondUnsigned(x) \/ WriteRecord(x) PROVE Goal
  <2> DEFINE r == [requests[q] EXCEPT !.at = "answered", !.time = clock]
             To(s, end) == [s EXCEPT !.record = end]
  <2>1. ASSUME NEW end
        PROVE  /\ To(r, end).receipt = "stored"
               /\ ReceiptOf(To(r, end)) = ReceiptOf(requests[q])
               /\ To(requests[q], end).receipt = "stored"
               /\ ReceiptOf(To(requests[q], end)) = ReceiptOf(requests[q])
    BY <1>0 DEF RequestType, ReceiptOf
  <2>2. x = q => \E end : Now(q, To(r, end)) \/ Now(q, To(requests[q], end))
    BY <1>7, Zenon DEF RespondUnsigned, WriteRecord
  <2>3. \E other : Now(x, other)
    BY <1>7, Zenon DEF RespondUnsigned, WriteRecord
  <2> HIDE DEF To, r
  <2> QED
    BY <1>3, <1>4, <2>1, <2>2, <2>3
<1>8. ASSUME RouterRestart PROVE Goal
  <2>1. requests'[q] = Stopped(requests[q])
    BY <1>8 DEF RouterRestart
  <2> QED
    BY <1>0, <2>1 DEF Goal, Stopped, RequestType, ReceiptOf
<1>9. EditName \/ RelayRow \/ SaveGatewayKey \/ RouterTick \/ UNCHANGED routerVars => Goal
  BY <1>2 DEF EditName, RelayRow, SaveGatewayKey, RouterTick, routerVars
<1> QED
  BY <1>5, <1>6, <1>7, <1>8, <1>9, Zenon DEF RouterNext, Goal

\* A receipt of this node that appears is of the request that moves, which has a key; an
\* attestation that appears was not one of an insert that failed.
LEMMA NewReceipt ==
    ASSUME RouterInv, [RouterNext]_routerVars, NEW a, a.ns = "wyriwe", a.source = NoSource,
           (a \in kept' /\ a \notin kept) \/ (a \in retained' /\ a \notin retained)
    PROVE  \E q \in Queries :
               /\ requests[q].by # Unsigned /\ a.by = requests[q].by
               /\ a \notin retained /\ a \in retained' =>
                      requests'[q].receipt = "stored" /\ a = ReceiptOf(requests'[q])
<1>1. ASSUME NEW row, Insert(row) \/ InsertFails(row) PROVE a = row
  BY <1>1, InsertGives, InsertFailsGives
<1>2. ~UNCHANGED <<kept, retained>>
  OBVIOUS
<1>3. ASSUME NEW r, Insert(RecordOf(r)) \/ InsertFails(RecordOf(r)) PROVE FALSE
  BY <1>1, <1>3 DEF RecordOf, OwnRow
<1>4. ASSUME NEW q \in Queries, StoreReceipt(q)
      PROVE  /\ requests[q].by # Unsigned /\ a.by = requests[q].by
             /\ a \notin retained /\ a \in retained' =>
                    requests'[q].receipt = "stored" /\ a = ReceiptOf(requests'[q])
  <2>1. /\ requests \in [Queries -> RequestType] /\ requests[q] \in RequestType
        /\ InStage(requests[q], clock) /\ requests[q].at = "signing"
    BY <1>4 DEF StoreReceipt, RouterInv, RouterTypeOK
  <2>2. \/ /\ Insert(ReceiptOf(requests[q]))
           /\ Now(q, [requests[q] EXCEPT !.at = "attested", !.receipt = "stored"])
        \/ InsertFails(ReceiptOf(requests[q]))
    BY <1>4, Zenon DEF StoreReceipt
  <2>3. a = ReceiptOf(requests[q])
    BY <1>1, <2>2
  <2>4. requests[q].by # Unsigned /\ a.by = requests[q].by
    BY <2>1, <2>3 DEF InStage, RequestType, ReceiptOf, OwnRow
  <2>5. CASE InsertFails(ReceiptOf(requests[q]))
    BY <2>4, <2>5, InsertFailsGives
  <2>6. CASE Now(q, [requests[q] EXCEPT !.at = "attested", !.receipt = "stored"])
    <3>1. requests'[q] = [requests[q] EXCEPT !.at = "attested", !.receipt = "stored"]
      BY <2>1, <2>6 DEF Now
    <3>2. requests'[q].receipt = "stored" /\ ReceiptOf(requests'[q]) = ReceiptOf(requests[q])
      BY <2>1, <3>1 DEF RequestType, ReceiptOf
    <3> QED
      BY <2>3, <2>4, <3>2
  <2> QED
    BY <2>2, <2>5, <2>6
<1>5. \A q \in Queries : ~RespondUnsigned(q) /\ ~WriteRecord(q)
  BY <1>3, Zenon DEF RespondUnsigned, WriteRecord
<1>6. ~RelayRow
  <2>1. ASSUME NEW row \in Relayed, Insert(row) PROVE FALSE
    BY <1>1, <2>1, RouterAssumption
  <2> QED
    BY <2>1, Zenon DEF RelayRow
<1>7. \A q \in Queries : ~Ask(q) /\ ~Commit(q) /\ ~Respond(q)
  BY <1>2, Zenon DEF Ask, Commit, Respond
<1>8. ~(EditName \/ SaveGatewayKey \/ RouterRestart \/ RouterTick)
  BY <1>2 DEF EditName, SaveGatewayKey, RouterRestart, RouterTick
<1>9. ~UNCHANGED routerVars
  BY <1>2 DEF routerVars
<1> QED
  BY <1>4, <1>5, <1>6, <1>7, <1>8, <1>9, Zenon DEF RouterNext

\* The receipts of this node stay those its requests have stored, and signed.
LEMMA OwnReceiptsStep == RouterInv /\ [RouterNext]_routerVars => OwnReceipts'
<1> SUFFICES ASSUME RouterInv, [RouterNext]_routerVars PROVE OwnReceipts'
  OBVIOUS
<1>1. ASSUME NEW a \in retained', a.ns = "wyriwe", a.source = NoSource
      PROVE  \E q \in Queries : requests'[q].receipt = "stored" /\ a = ReceiptOf(requests'[q])
  <2>1. CASE a \in retained
    <3>1. PICK q \in Queries : requests[q].receipt = "stored" /\ a = ReceiptOf(requests[q])
      BY <1>1, <2>1 DEF RouterInv, OwnReceipts
    <3> QED
      BY <3>1, StoredStays
  <2>2. CASE a \notin retained
    BY <1>1, <2>2, NewReceipt
  <2> QED
    BY <2>1, <2>2
<1>2. ASSUME NEW s \in kept', s.ns = "wyriwe", s.source = NoSource PROVE s.by # Unsigned
  <2>1. CASE s \in kept
    BY <1>2, <2>1 DEF RouterInv, OwnReceipts
  <2>2. CASE s \notin kept
    BY <1>2, <2>2, NewReceipt
  <2> QED
    BY <2>1, <2>2
<1>3. \A q : (ReceiptOf(requests[q]))' = ReceiptOf(requests'[q])
  BY DEF ReceiptOf, OwnRow
<1> QED
  BY <1>1, <1>2, <1>3 DEF OwnReceipts

\* The keys, the names and the clock keep their types.
LEMMA RouterTypeStep ==
    ASSUME RouterInv, [RouterNext]_routerVars
    PROVE  /\ clock' \in Nat
           /\ savedKey' \in GatewayKeys \cup {Unsigned}
           /\ gatewayKey' \in GatewayKeys \cup {Unsigned}
           /\ described' \in BOOLEAN
           /\ names' \in [Lookups -> NameValues \cup {NoEntry}]
<1> USE DEF RouterInv, RouterTypeOK
<1>1. ASSUME NEW q \in Queries,
             \/ Ask(q) \/ Commit(q) \/ StoreReceipt(q)
             \/ Respond(q) \/ RespondUnsigned(q) \/ WriteRecord(q)
      PROVE  UNCHANGED <<savedKey, gatewayKey, described, names>>
  BY <1>1, Zenon
     DEF Ask, Commit, StoreReceipt, Respond, RespondUnsigned, WriteRecord
<1>2. CASE EditName /\ UNCHANGED clock
  BY <1>2 DEF EditName, WithName
<1>3. CASE (RelayRow \/ SaveGatewayKey \/ RouterRestart) /\ UNCHANGED clock
  BY <1>3 DEF RelayRow, SaveGatewayKey, RouterRestart
<1>4. CASE RouterTick \/ UNCHANGED routerVars
  BY <1>4 DEF RouterTick, Advance, routerVars
<1> QED
  BY <1>1, <1>2, <1>3, <1>4 DEF RouterNext

LEMMA RouterStep == RouterInv /\ [RouterNext]_routerVars => RouterInv'
<1> SUFFICES ASSUME RouterInv, [RouterNext]_routerVars PROVE RouterInv'
  OBVIOUS
<1>1. /\ requests' \in [Queries -> RequestType]
      /\ \A x \in Queries : /\ InStage(requests'[x], clock')
                            /\ HeldIn(requests'[x], kept', retained')
  BY RequestsStep
<1>2. RouterTypeOK'
  BY <1>1, RouterTypeStep DEF RouterTypeOK
<1>3. OwnReceipts'
  BY OwnReceiptsStep
<1>4. (\A q \in Queries : InStage(requests[q], clock) /\ HeldIn(requests[q], kept, retained))'
  BY <1>1 DEF InStage, HeldIn
<1> QED
  BY <1>2, <1>3, <1>4 DEF RouterInv

\* Whatever is asked, edited, synced, saved or cut off, what is said of every request and
\* of the receipts in the tables is true.
THEOREM RouterInvariant == RouterSpec => []RouterInv
BY RouterStart, RouterStep, PTL DEF RouterSpec

\* "Every call gets a cryptographic receipt": no client has an answer of a node that
\* attests before its attestation is stored, or its insert has failed.
THEOREM ReceiptsComeFirst == RouterSpec => []ReceiptFirst
<1>1. RouterInv => ReceiptFirst
  BY DEF RouterInv, RouterTypeOK, RequestType, InStage, HeldIn, ReceiptFirst, IsRetained
<1> QED
  BY RouterInvariant, <1>1, PTL

\* The node attests no value for calldata but one its resolver returned for it, although
\* the name is edited between the answer and its receipt.
THEOREM ReceiptsAreTrue == RouterSpec => []ReceiptsTrue
<1>1. RouterInv => ReceiptsTrue
  BY DEF RouterInv, OwnReceipts, ReceiptsTrue, ReceiptOf, Commitment, OwnRow
<1> QED
  BY RouterInvariant, <1>1, PTL

\* What is stored of an answer stays, and is what /verify and /ocp show from then on.
THEOREM AnswersStayShown == RouterSpec => []AnswersShown
<1>1. ASSUME NEW row, NEW s \in kept, SameObservation(s, row)
      PROVE  \E p \in Shown(row) : p.row = s /\ p.verified = (s.by # Unsigned)
  <2> DEFINE p == [row |-> s, verified |-> s.by # Unsigned]
  <2>1. s.hash = row.hash
    BY <1>1 DEF SameObservation, Observation
  <2>2. p \in ProofsOf(row.hash) /\ p.row = s /\ p.verified = (s.by # Unsigned)
    BY <2>1 DEF ProofsOf
  <2> HIDE DEF p
  <2> QED
    BY <1>1, <2>2 DEF Shown
<1>2. ASSUME RouterInv, NEW q \in Queries, requests[q].receipt = "stored"
      PROVE  /\ IsRetained(ReceiptOf(requests[q]))
             /\ \E p \in Shown(ReceiptOf(requests[q])) : p.verified \/ p.row.source # NoSource
             /\ CommitmentsOf(requests[q].data) # {}
  <2>1. IsRetained(ReceiptOf(requests[q]))
    BY <1>2 DEF RouterInv, HeldIn, IsRetained
  <2>2. PICK s \in kept : /\ SameObservation(s, ReceiptOf(requests[q]))
                          /\ s.by # Unsigned \/ s.source # NoSource
    BY <1>2 DEF RouterInv, HeldIn
  <2>3. s.hash = requests[q].data /\ s.ns = "wyriwe"
    BY <2>2 DEF SameObservation, Observation, ReceiptOf, OwnRow
  <2>4. PICK p \in Shown(ReceiptOf(requests[q])) : p.row = s /\ p.verified = (s.by # Unsigned)
    BY <1>1, <2>2
  <2> QED
    BY <2>1, <2>2, <2>3, <2>4 DEF CommitmentsOf
<1>3. ASSUME RouterInv, NEW q \in Queries, requests[q].record = "written"
      PROVE  IsRetained(RecordOf(requests[q])) /\ Shown(RecordOf(requests[q])) # {}
  <2>1. PICK s \in kept : SameObservation(s, RecordOf(requests[q]))
    BY <1>3 DEF RouterInv, HeldIn
  <2> QED
    BY <1>1, <1>3, <2>1 DEF RouterInv, HeldIn, IsRetained
<1>4. RouterInv => AnswersShown
  BY <1>2, <1>3 DEF AnswersShown
<1> QED
  BY RouterInvariant, <1>4, PTL
=============================================================================
