------------------------------ MODULE RecordStore ------------------------------
(***************************************************************************)
(* The record tables of one node (src/db/sqlite.ts) across crashes.        *)
(*                                                                         *)
(* insertRecord runs its statements in one go but commits each by itself,  *)
(* so a crash may fall between the observation and its attestation, and so *)
(* may an error: the encoding of an unsigned record's identity throws on a *)
(* value that it refuses, and either statement may fail.  A start          *)
(* backfills the attestations, in one transaction, when there are none at  *)
(* all; one that throws there leaves everything as it was.                 *)
(***************************************************************************)
EXTENDS RecordRows

CONSTANTS
    Incoming,       \* the records that may be inserted
    Legacy,         \* the rows a database of before migration v8 may hold
    MaxCrashes, MaxFailures

ASSUME StoreAssumption ==
    /\ Incoming \subseteq Record
    /\ Legacy \subseteq Rows /\ IsFiniteSet(Legacy)
    /\ {MaxCrashes, MaxFailures} \subseteq Nat

VARIABLES
    up,             \* the process runs
    records,
    attestations,
    writing,        \* the record between its two inserts: a set of 0 or 1
    flagged,        \* the pairs of rows a double-sign was logged for
    crashes,
    failures,       \* the calls that threw after their first insert
    delivered       \* history: the records whose insertRecord returned

vars == <<up, records, attestations, writing, flagged, crashes, failures, delivered>>

OnePerObservation(rows) ==
    \A r, s \in rows : SameObservation(r, s) => r = s

Init ==
    /\ up = FALSE
    /\ records \in {rows \in SUBSET Legacy : OnePerObservation(rows)}
    /\ attestations = {}
    /\ writing = {}
    /\ flagged = {}
    /\ crashes = 0
    /\ failures = 0
    /\ delivered = {}

TypeOK ==
    /\ up \in BOOLEAN
    /\ records \subseteq Rows
    /\ attestations \subseteq Rows
    /\ writing \subseteq Incoming /\ Cardinality(writing) <= 1
    /\ flagged \subseteq Rows \X Rows
    /\ crashes \in 0..MaxCrashes
    /\ failures \in 0..MaxFailures
    /\ delivered \subseteq Incoming

-----------------------------------------------------------------------------
\* Mutant: no backfill.
StartOnly ==
    /\ ~up
    /\ up' = TRUE
    /\ UNCHANGED <<records, attestations, writing, flagged, crashes, failures, delivered>>

\* The constructor: backfillAttestations, only into an empty table.
Start ==
    /\ ~up
    /\ up' = TRUE
    /\ attestations' = IF attestations = {} THEN records ELSE attestations
    /\ UNCHANGED <<records, writing, flagged, crashes, failures, delivered>>

\* insertRecord up to the insert of the observation.
InsertObservation(record) ==
    /\ up /\ writing = {}
    /\ flagged' = flagged \cup (DoubleSigns(records, record.row) \X {record.row})
    /\ records' = Inserted(records, record)
    /\ writing' = {record}
    /\ UNCHANGED <<up, attestations, crashes, failures, delivered>>

\* ... which throws: only the double-sign has been logged.
FailObservation(record) ==
    /\ up /\ writing = {}
    /\ flagged' = flagged \cup (DoubleSigns(records, record.row) \X {record.row})
    /\ UNCHANGED <<up, records, attestations, writing, crashes, failures, delivered>>

\* ... and the insert of the attestation.
InsertAttestation(record) ==
    /\ up /\ record \in writing
    /\ attestations' = Attested(attestations, record)
    /\ writing' = {}
    /\ delivered' = delivered \cup {record}
    /\ UNCHANGED <<up, records, flagged, crashes, failures>>

\* ... or attestationIdentity or that insert throws: the observation stays, the
\* caller gets the error, and the process goes on.
FailAttestation(record) ==
    /\ up /\ record \in writing /\ failures < MaxFailures
    /\ writing' = {}
    /\ failures' = failures + 1
    /\ UNCHANGED <<up, records, attestations, flagged, crashes, delivered>>

Crash ==
    /\ up /\ crashes < MaxCrashes
    /\ up' = FALSE
    /\ writing' = {}
    /\ crashes' = crashes + 1
    /\ UNCHANGED <<records, attestations, flagged, failures, delivered>>

Next ==
    \/ Start
    \/ \E record \in Incoming :
            \/ InsertObservation(record) \/ FailObservation(record)
            \/ InsertAttestation(record) \/ FailAttestation(record)
    \/ Crash

Spec == Init /\ [][Next]_vars

-----------------------------------------------------------------------------
\* Divergence survives: every value delivered for a hash is stored, once, so that
\* getRecordState never reports agreement where two values were observed.
DivergenceKept ==
    /\ OnePerObservation(records)
    /\ \A d \in delivered : d.key =>
            /\ \E r \in records : Observation(r) = Observation(d.row)
            /\ \A e \in delivered :
                    /\ e.key /\ e.row.hash = d.row.hash /\ e.row.ns = d.row.ns
                    /\ e.row.value # d.row.value
                    => StateOf(records, d.row.hash, d.row.ns) = "divergent"

\* Two rows with one signature, but for the choice of s or n-s, or two unsigned rows
\* of one observation and second.
SameMessage(a, b) ==
    /\ Observation(a) = Observation(b) /\ a.ts = b.ts /\ a.by = b.by
    /\ a.by # Unsigned => a.form = b.form

\* What a quorum counts: every message delivered is retained, no signature stands in
\* for that of another signer, second or value, and none is counted twice, with its
\* s low or high, from whichever peers and however often it came, through crashes,
\* errors and starts.  (One signer's message counts as often as it comes with
\* another r, or with r or v spelled otherwise: these have identities of their own.)
CorroborationExact ==
    /\ \A d \in delivered : d.key => \E a \in attestations : SameMessage(a, d.row)
    /\ \A a, b \in attestations : SameMessage(a, b) => a = b

Observed(rows) == {Observation(r) : r \in rows}

\* The observations without an attestation, but for the one that is being written.
Missing == (Observed(records) \ Observed(attestations)) \ {Observation(w.row) : w \in writing}

\* An attestation is of a stored observation, and an observation without any was
\* cut off by a crash or by an error between its two inserts: at most one for each.
\* (The next start backfills it only if the table is empty; otherwise it waits to
\* be delivered again.)
AttestationsFollow ==
    /\ Observed(attestations) \subseteq Observed(records)
    /\ up => Cardinality(Missing) <= crashes + failures

\* First valid wins: each table is write-once under its own identity.  The row of an
\* observation and that of a signed message are inserted in one step and stay, their
\* source peer included, through replays, crashes and the backfill.  (insertRecord
\* gives no row back, so nobody is told one.)
RecordTable == INSTANCE WriteOnce WITH
    Key <- Observation, rows <- records, told <- {}

AttestationTable == INSTANCE WriteOnce WITH
    Key <- AttestationId, rows <- attestations, told <- {}

ImplementsTables == RecordTable!OnceSpec /\ AttestationTable!OnceSpec

\* What the comment on doubleSigns says: only two messages of one signer are ever
\* flagged, different signers attesting the same input are not.
FlagsOneSigner ==
    \A pair \in flagged :
        Unsigned \notin {pair[1].by, pair[2].by} => pair[1].by = pair[2].by
=============================================================================
