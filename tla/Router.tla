-------------------------------- MODULE Router --------------------------------
(***************************************************************************)
(* A CCIP-Read request of one node, from its calldata to what is stored of *)
(* its answer (router/CcipRouter.ts): the resolver reads the ENS table     *)
(* (index.ts, ens/withEns.ts), WYRIWE attests the answer and stores the    *)
(* receipt before it is given (attestation/withWyriwe.ts), the record of   *)
(* the answer is stored after, and no one waits for it.  Any two requests  *)
(* interleave at their awaits; the names are edited, peers are synced and  *)
(* keys saved meanwhile, and the process may stop anywhere, but for the    *)
(* middle of an insert: that stop is in RecordStore.                       *)
(*                                                                         *)
(* The input hash of a request is its calldata, and a key signs as one of  *)
(* the Signers: no key, as Unsigned.  Of a name nothing is stored, or what *)
(* is asked is no name: NoEntry stands for the zero value and for "0x".    *)
(* What is malformed is answered with 400 or 500 at once, and keeps        *)
(* nothing.                                                                *)
(***************************************************************************)
EXTENDS NodeClock, RecordRows

CONSTANTS
    GatewayKeys,    \* the signers whose keys this node may be given
    Calldata,
    Lookups,        \* those that resolve a name: its name, type and key
    NameValues,
    NoEntry,
    Queries,        \* each is made once at most
    Relayed         \* the rows that a sync may bring

ASSUME RouterAssumption ==
    /\ GatewayKeys \subseteq Signers
    /\ Lookups \subseteq Calldata
    /\ NoEntry \notin NameValues
    /\ Unsigned \notin Signers
    /\ \A r \in Relayed : r.source # NoSource

VARIABLES
    savedKey,       \* what isConfigured() finds, in the environment or config.json
    gatewayKey,     \* what the router was made with when the process started
    described,      \* ... and whether that had the agent, the registry and the model
    names,          \* ens_records
    kept,           \* records
    retained,       \* attestations
    requests

routerVars ==
    <<clock, savedKey, gatewayKey, described, names, kept, retained, requests>>

NoRequest ==
    [at |-> "none", data |-> NoEntry, value |-> NoEntry, by |-> Unsigned, wyriwe |-> FALSE,
     stamp |-> 0, receipt |-> "none", time |-> 0, record |-> "none"]

RouterInit ==
    /\ ClockInit
    /\ savedKey \in GatewayKeys \cup {Unsigned} /\ gatewayKey = savedKey
    /\ described \in BOOLEAN
    /\ names = [d \in Lookups |-> NoEntry]
    /\ kept = {} /\ retained = {}
    /\ requests = [q \in Queries |-> NoRequest]

-----------------------------------------------------------------------------
Now(q, to) == requests' = [requests EXCEPT ![q] = to]

\* insertRecord of a row with its key: the observation and the attestation.
Insert(row) ==
    /\ kept' = Inserted(kept, [row |-> row, key |-> TRUE])
    /\ retained' = Attested(retained, [row |-> row, key |-> TRUE])

\* ... of which the second, or each, may fail.
InsertFails(row) ==
    /\ kept' \in {kept, Inserted(kept, [row |-> row, key |-> TRUE])}
    /\ UNCHANGED retained

\* The attestation of an answer and its second: the hash over both, and over what is the
\* same in all attestations of the process.
Commitment(value, stamp) == <<value, stamp>>

OwnRow(hash, ns, value, ts, by) ==
    [hash |-> hash, ns |-> ns, value |-> value, ts |-> ts, by |-> by, form |-> 0,
     highS |-> FALSE, source |-> NoSource]

\* Mutant: the name is read again for the receipt.
ReceiptOfCurrent(r) ==
    LET value == IF r.data \in Lookups THEN names[r.data] ELSE NoEntry IN
    OwnRow(r.data, "wyriwe", Commitment(value, r.stamp), r.stamp, r.by)

\* The value of a receipt is the attestation.
ReceiptOf(r) == OwnRow(r.data, "wyriwe", Commitment(r.value, r.stamp), r.stamp, r.by)

RecordOf(r) == OwnRow(r.data, "base", r.value, r.time, r.by)

\* All routes but the wizard's are blocked until there is a key.
Configured == savedKey # Unsigned

\* getNameRecordValue.
NameValue(d) == names[d]

Resolved(d) == IF d \in Lookups THEN NameValue(d) ELSE NoEntry

\* There is all that an attestation says.
WyriweActive == described /\ gatewayKey # Unsigned

Asked(d) ==
    [at |-> "resolved", data |-> d, value |-> Resolved(d), by |-> gatewayKey,
     wyriwe |-> WyriweActive, stamp |-> 0, receipt |-> "none", time |-> 0, record |-> "none"]

\* Decoded and resolved, with no await on the way to the table.
Ask(q) ==
    /\ Configured /\ requests[q].at = "none"
    /\ \E d \in Calldata : Now(q, Asked(d))
    /\ UNCHANGED <<savedKey, gatewayKey, described, names, kept, retained>>

\* The attestation is made, with the second it says, and goes to be signed.
Commit(q) ==
    /\ requests[q].at = "resolved" /\ requests[q].wyriwe
    /\ Now(q, [requests[q] EXCEPT !.at = "signing", !.stamp = clock])
    /\ UNCHANGED <<savedKey, gatewayKey, described, names, kept, retained>>

\* It is stored, or an error is logged, and the answer goes on either way.
StoreReceipt(q) ==
    /\ requests[q].at = "signing"
    /\ \/ /\ Insert(ReceiptOf(requests[q]))
          /\ Now(q, [requests[q] EXCEPT !.at = "attested", !.receipt = "stored"])
       \/ /\ InsertFails(ReceiptOf(requests[q]))
          /\ Now(q, [requests[q] EXCEPT !.at = "attested", !.receipt = "failed"])
    /\ UNCHANGED <<savedKey, gatewayKey, described, names>>

\* Mutant: the receipt is not awaited.
ReadyUnattested(r) == r.at = IF r.wyriwe THEN "signing" ELSE "resolved"

\* The resolver has returned.
Ready(r) == r.at = IF r.wyriwe THEN "attested" ELSE "resolved"

\* The answer is sent while its record is being signed.
Respond(q) ==
    /\ Ready(requests[q]) /\ requests[q].by # Unsigned
    /\ Now(q, [requests[q] EXCEPT !.at = "answered", !.time = clock, !.record = "unwritten"])
    /\ UNCHANGED <<savedKey, gatewayKey, described, names, kept, retained>>

\* Without a key nothing is awaited before the insert.
RespondUnsigned(q) ==
    /\ Ready(requests[q]) /\ requests[q].by = Unsigned
    /\ LET r == [requests[q] EXCEPT !.at = "answered", !.time = clock] IN
       \/ Insert(RecordOf(r)) /\ Now(q, [r EXCEPT !.record = "written"])
       \/ InsertFails(RecordOf(r)) /\ Now(q, [r EXCEPT !.record = "failed"])
    /\ UNCHANGED <<savedKey, gatewayKey, described, names>>

\* The rest of writeRecord; an error is logged.
WriteRecord(q) ==
    /\ requests[q].record = "unwritten"
    /\ \/ /\ Insert(RecordOf(requests[q]))
          /\ Now(q, [requests[q] EXCEPT !.record = "written"])
       \/ /\ InsertFails(RecordOf(requests[q]))
          /\ Now(q, [requests[q] EXCEPT !.record = "failed"])
    /\ UNCHANGED <<savedKey, gatewayKey, described, names>>

\* upsertNameRecord, or deleteNameRecord, of the key of an entry.
WithName(d, v) == [names EXCEPT ![d] = v]

\* The administrator stores or deletes one entry of the ENS table.
EditName ==
    /\ \E d \in Lookups, v \in NameValues \cup {NoEntry} : names' = WithName(d, v)
    /\ UNCHANGED <<savedKey, gatewayKey, described, kept, retained, requests>>

\* A sync inserts a row of a peer.
RelayRow ==
    /\ \E r \in Relayed : Insert(r)
    /\ UNCHANGED <<savedKey, gatewayKey, described, names, requests>>

\* The wizard or the dashboard writes a key to config.json, which is read when the
\* process starts again half a second later, or sooner.
SaveGatewayKey ==
    /\ savedKey' \in GatewayKeys
    /\ UNCHANGED <<gatewayKey, described, names, kept, retained, requests>>

\* A request in flight is cut off, and so is a record that was not written yet.
Stopped(r) ==
    IF r.at = "answered" THEN IF r.record = "unwritten" THEN [r EXCEPT !.record = "lost"] ELSE r
    ELSE IF r.at = "none" THEN r ELSE [r EXCEPT !.at = "cut"]

RouterRestart ==
    /\ gatewayKey' = savedKey /\ described' \in BOOLEAN
    /\ requests' = [q \in Queries |-> Stopped(requests[q])]
    /\ UNCHANGED <<savedKey, names, kept, retained>>

RouterTick ==
    Advance /\ UNCHANGED <<savedKey, gatewayKey, described, names, kept, retained, requests>>

RouterNext ==
    \/ /\ \/ \E q \in Queries :
              \/ Ask(q) \/ Commit(q) \/ StoreReceipt(q)
              \/ Respond(q) \/ RespondUnsigned(q) \/ WriteRecord(q)
          \/ EditName \/ RelayRow \/ SaveGatewayKey \/ RouterRestart
       /\ UNCHANGED clock
    \/ RouterTick

RouterSpec == RouterInit /\ [][RouterNext]_routerVars

-----------------------------------------------------------------------------
(* What is read of the tables. *)

\* Mutant: getRecord, the first row of the hash.
FirstProof(hash) ==
    LET all == {r \in kept : r.hash = hash} IN
    IF all = {} THEN {}
    ELSE LET r == CHOOSE s \in all : TRUE IN {[row |-> r, verified |-> r.by # Unsigned]}

\* GET /verify/:inputHash: the rows of every namespace; a signature of any signer
\* verifies, and an unsigned row does not.
ProofsOf(hash) ==
    {[row |-> r, verified |-> r.by # Unsigned] : r \in {s \in kept : s.hash = hash}}

\* GET /ocp/:inputHash answers with one of these, whichever comes first.
CommitmentsOf(hash) == {r \in kept : r.hash = hash /\ r.ns = "wyriwe"}

\* What /verify shows for the observation of a row.
Shown(row) == {p \in ProofsOf(row.hash) : SameObservation(p.row, row)}

IsRetained(row) == \E a \in retained : AttestationId(a) = AttestationId(row)

-----------------------------------------------------------------------------
\* "Every call gets a cryptographic receipt", and gets it before the answer: what a
\* client has seen is attested under the key and the value it was given, at no later
\* second, through edits, stops and other requests, unless its insert failed.
ReceiptFirst ==
    \A q \in Queries :
        LET r == requests[q] IN
        r.at = "answered" /\ r.wyriwe /\ r.receipt # "failed"
            => IsRetained(ReceiptOf(r)) /\ r.stamp <= r.time

\* A receipt is of a request: the node attests no value for calldata but one that its
\* resolver returned for it, although the name may have another by then.
ReceiptsTrue ==
    \A a \in retained : a.ns = "wyriwe" /\ a.source = NoSource =>
        \E q \in Queries :
            /\ requests[q].data = a.hash /\ requests[q].value = a.value[1]
            /\ requests[q].stamp = a.ts /\ requests[q].by = a.by

\* What was stored of an answer stays in both tables and is shown, whatever was answered
\* to the same calldata before or since and whichever peer's row came first: /verify has a
\* row of the record and of the receipt, this one verified unless it came from a peer, and
\* /ocp has a commitment.
AnswersShown ==
    \A q \in Queries :
        LET r == requests[q] IN
        /\ r.record = "written" => IsRetained(RecordOf(r)) /\ Shown(RecordOf(r)) # {}
        /\ r.receipt = "stored" =>
               /\ IsRetained(ReceiptOf(r))
               /\ \E p \in Shown(ReceiptOf(r)) : p.verified \/ p.row.source # NoSource
               /\ CommitmentsOf(r.data) # {}
=============================================================================
