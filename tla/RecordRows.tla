------------------------------ MODULE RecordRows ------------------------------
(***************************************************************************)
(* The rows of the tables records and attestations (src/db/schema.ts) and  *)
(* the statements of src/db/sqlite.ts that read and write them, as         *)
(* operators on sets of rows.                                              *)
(*                                                                         *)
(* A signature covers the hash, namespace, value and timestamp of a record *)
(* (src/crypto/hash.ts).  Who signed (by) does not make its bytes: each    *)
(* ECDSA nonce gives another r, the hex of r may be in either case and v   *)
(* be 0/1 or 27/28 (form), and (r, n-s) is as good as (r, s) (highS).  The *)
(* node itself always makes form 0; by = Unsigned stands for "0x".         *)
(* The column key is the hash again, present or not.  Hashes are numbers   *)
(* because pages are ordered by them.                                      *)
(***************************************************************************)
EXTENDS Integers, FiniteSets

CONSTANTS
    Hashes,     \* input_hash
    Spaces,     \* namespace
    Values,
    Signers,    \* the addresses that sign records
    Unsigned,
    Sources,    \* source_peer
    NoSource,   \* NULL, a record produced locally
    Times       \* timestamp, whole seconds

ASSUME RowsAssumption == Hashes \subseteq Int /\ Times \subseteq Int

Rows == [hash : Hashes, ns : Spaces, value : Values, ts : Times,
         by : Signers \cup {Unsigned}, form : Nat, highS : BOOLEAN,
         source : Sources \cup {NoSource}]

\* What insertRecord is given: on the wire a record may lack its key.
Record == [row : Rows, key : BOOLEAN]

\* The bytes of the column signature.
Signature(r) ==
    IF r.by = Unsigned THEN <<Unsigned>>
    ELSE <<r.hash, r.ns, r.value, r.ts, r.by, r.form, r.highS>>

\* The observation a row is about: the primary key of records.
Observation(r) == <<r.hash, r.ns, r.value>>

\* Mutant: the primary key of before migration v7.
SameObservationV1(r, s) == r.hash = s.hash /\ r.ns = s.ns

SameObservation(r, s) == Observation(r) = Observation(s)

\* Mutant: INSERT OR REPLACE.
InsertedReplacing(rows, record) ==
    IF record.key
    THEN {r \in rows : ~SameObservation(r, record.row)} \cup {record.row} ELSE rows

\* INSERT OR IGNORE INTO records: a NULL key and a row of the same observation
\* are both ignored without an error.
Inserted(rows, record) ==
    IF record.key /\ ~\E r \in rows : SameObservation(r, record.row)
    THEN rows \cup {record.row} ELSE rows

\* Mutant: the signature as received is the identity.
AttestationIdAsReceived(r) ==
    IF r.by = Unsigned THEN <<Observation(r), r.ts>> ELSE Signature(r)

\* attestationIdentity: the signature with its s made low (canonicalizeSignature),
\* r and v as they are spelled, or a digest of the observation and its timestamp;
\* source_peer is in neither.
AttestationId(r) ==
    IF r.by = Unsigned THEN <<Observation(r), r.ts>>
                       ELSE <<Observation(r), r.ts, r.by, r.form>>

\* INSERT OR IGNORE INTO attestations.
Attested(atts, record) ==
    IF record.key /\ ~\E a \in atts : AttestationId(a) = AttestationId(record.row)
    THEN atts \cup {record.row} ELSE atts

\* doubleSigns: NULL = NULL is not true in SQL, so local rows never match.
DoubleSigns(rows, r) ==
    {s \in rows : /\ s.hash = r.hash /\ s.ns = r.ns
                  /\ s.source = r.source /\ s.source # NoSource
                  /\ Signature(s) # Signature(r)}

\* getRecordState.
StateOf(rows, hash, ns) ==
    LET n == Cardinality({r \in rows : r.hash = hash /\ r.ns = ns}) IN
    CASE n = 0 -> "absent" [] n = 1 -> "single" [] OTHER -> "divergent"

-----------------------------------------------------------------------------
(* getRecordsSince: pages in the order of <<timestamp, input_hash>>. *)

NoCursor == <<>>

CursorOf(r) == <<r.ts, r.hash>>

\* r comes after cursor c.
After(r, c) == r.ts > c[1] \/ (r.ts = c[1] /\ r.hash > c[2])

\* Mutant: the cursor is the timestamp alone.
EligibleTimestampOnly(rows, ns, since, cursor) ==
    {r \in rows : r.ns = ns /\ IF cursor = NoCursor THEN r.ts > since
                                                    ELSE r.ts > cursor[1]}

\* Mutant: a page begins with the last row of the one before.
EligibleAgain(rows, ns, since, cursor) ==
    {r \in rows : r.ns = ns /\ IF cursor = NoCursor THEN r.ts > since
                               ELSE After(r, cursor) \/ CursorOf(r) = cursor}

\* getSince, and getSinceAfterCursor, which looks at the cursor alone.
Eligible(rows, ns, since, cursor) ==
    {r \in rows : r.ns = ns /\ IF cursor = NoCursor THEN r.ts > since
                                                    ELSE After(r, cursor)}

\* The pages the query may return: LIMIT cuts the order, and rows that tie in it
\* come in any order.
Pages(rows, ns, since, cursor, limit) ==
    LET all == Eligible(rows, ns, since, cursor) IN
    {page \in SUBSET all :
        /\ IF Cardinality(all) <= limit THEN page = all
                                        ELSE Cardinality(page) = limit
        /\ \A r \in page, s \in all \ page : ~After(r, CursorOf(s))}

\* A row no other one of the page comes after.
LastOf(page) == CHOOSE r \in page : \A s \in page : ~After(s, CursorOf(r))

\* The cursor sent with a page: NoCursor when the page is not full.
NextCursor(page, limit) ==
    IF Cardinality(page) = limit THEN CursorOf(LastOf(page)) ELSE NoCursor
=============================================================================
