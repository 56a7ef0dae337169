------------------------------- MODULE Anchoring -------------------------------
(***************************************************************************)
(* WYRIWE attestations on chain (chain/publish.ts, AttestationIndex.sol):  *)
(* the dashboard publishes the newest rows of the store in a batch, each   *)
(* by a task of its own that asks the index, sends a transaction and does  *)
(* not wait for it; a verifier reads the commitment of an input and then   *)
(* its signer.  Transactions are mined in any order, revert, or are never  *)
(* mined; sending one fails when, for instance, two take one nonce.        *)
(***************************************************************************)
EXTENDS Naturals, Sequences, SequencesExt

CONSTANTS
    Attestations,   \* [input, commitment, signer]: valid rows, of this node or synced
    Batches,        \* requests to publish
    BatchLimit,     \* 50, or at most 200
    NoOne,          \* address(0)
    NoCommitment    \* bytes32(0)

ASSUME AnchoringAssumption ==
    \A x \in Attestations :
        /\ x = [input |-> x.input, commitment |-> x.commitment, signer |-> x.signer]
        /\ x.signer # NoOne /\ x.commitment # NoCommitment

VARIABLES
    wyriwe,         \* the rows of the namespace, oldest first
    tasks,          \* of a batch and a row
    signerOf, commitmentOf,     \* the index
    reading,        \* the input and commitment of a check between its two reads
    proofs          \* what checks returned

anchorVars == <<wyriwe, tasks, signerOf, commitmentOf, reading, proofs>>

Inputs == {x.input : x \in Attestations}

Commitments == {x.commitment : x \in Attestations}

AnchorInit ==
    /\ wyriwe = <<>>
    /\ tasks = [b \in Batches |-> [x \in Attestations |-> "none"]]
    /\ signerOf = [c \in Commitments |-> NoOne]
    /\ commitmentOf = [i \in Inputs |-> NoCommitment]
    /\ reading = {}
    /\ proofs = {}

-----------------------------------------------------------------------------
\* AttestationIndex.isRecorded.
Recorded(c) == signerOf[c] # NoOne

\* Mutant: a commitment that was recorded is recorded again.
RecordOnChainAgain(x) ==
    /\ signerOf' = [signerOf EXCEPT ![x.commitment] = x.signer]
    /\ commitmentOf' = [commitmentOf EXCEPT ![x.input] = x.commitment]

\* AttestationIndex.record: the first signer of a commitment, the last of an input.
RecordOnChain(x) ==
    /\ ~Recorded(x.commitment)
    /\ signerOf' = [signerOf EXCEPT ![x.commitment] = x.signer]
    /\ commitmentOf' = [commitmentOf EXCEPT ![x.input] = x.commitment]

Task(b, x, to) == tasks' = [tasks EXCEPT ![b][x] = to]

\* withWyriwe or a sync stores a row.
Attest ==
    /\ \E x \in Attestations : ~Contains(wyriwe, x) /\ wyriwe' = Append(wyriwe, x)
    /\ UNCHANGED <<tasks, signerOf, commitmentOf, reading, proofs>>

\* POST /admin/api/publish: a task for each of the newest rows.
Publish(b) ==
    LET n == Len(wyriwe)
        newest == {wyriwe[i] : i \in {j \in 1..n : j + BatchLimit > n}} IN
    /\ n > 0 /\ \A x \in Attestations : tasks[b][x] = "none"
    /\ tasks' = [tasks EXCEPT ![b] = [x \in Attestations |-> IF x \in newest THEN "check" ELSE "none"]]
    /\ UNCHANGED <<wyriwe, signerOf, commitmentOf, reading, proofs>>

\* Mutant: a commitment that a task has sent counts as recorded.
CheckSent(b, x) ==
    /\ tasks[b][x] = "check"
    /\ Task(b, x, IF Recorded(x.commitment) \/ \E d \in Batches : tasks[d][x] = "pending"
                  THEN "skipped" ELSE "send")
    /\ UNCHANGED <<wyriwe, signerOf, commitmentOf, reading, proofs>>

\* isRecorded, before the transaction is built.
CheckRecorded(b, x) ==
    /\ tasks[b][x] = "check"
    /\ Task(b, x, IF Recorded(x.commitment) THEN "skipped" ELSE "send")
    /\ UNCHANGED <<wyriwe, signerOf, commitmentOf, reading, proofs>>

\* writeContract: sent, which is reported as published, or an error.
Send(b, x) ==
    /\ tasks[b][x] = "send"
    /\ Task(b, x, "pending") \/ Task(b, x, "error")
    /\ UNCHANGED <<wyriwe, signerOf, commitmentOf, reading, proofs>>

\* The chain takes a transaction, reverts it, or loses it.
Mine(b, x) ==
    /\ tasks[b][x] = "pending"
    /\ \/ RecordOnChain(x) /\ Task(b, x, "mined")
       \/ Recorded(x.commitment) /\ Task(b, x, "reverted") /\ UNCHANGED <<signerOf, commitmentOf>>
       \/ Task(b, x, "dropped") /\ UNCHANGED <<signerOf, commitmentOf>>
    /\ UNCHANGED <<wyriwe, reading, proofs>>

\* checkOnChain, first read: no commitment is no proof.
ReadCommitment(i) ==
    /\ reading = {} /\ commitmentOf[i] # NoCommitment
    /\ reading' = {[input |-> i, commitment |-> commitmentOf[i]]}
    /\ UNCHANGED <<wyriwe, tasks, signerOf, commitmentOf, proofs>>

\* checkOnChain, second read.
ReadSigner ==
    /\ \E r \in reading : proofs' = proofs \cup
           {[input |-> r.input, commitment |-> r.commitment, signer |-> signerOf[r.commitment]]}
    /\ reading' = {}
    /\ UNCHANGED <<wyriwe, tasks, signerOf, commitmentOf>>

AnchorNext ==
    \/ Attest
    \/ \E b \in Batches : Publish(b)
    \/ \E b \in Batches, x \in Attestations : CheckRecorded(b, x) \/ Send(b, x) \/ Mine(b, x)
    \/ \E i \in Inputs : ReadCommitment(i)
    \/ ReadSigner

AnchorSpec == AnchorInit /\ [][AnchorNext]_anchorVars

-----------------------------------------------------------------------------
\* What a batch counts as anchored or as already on chain is on chain, once its
\* transaction is no longer pending and unless the network lost it: also when two
\* batches found it unrecorded and the transaction of one was reverted.
ReportedAnchored ==
    \A b \in Batches, x \in Attestations :
        tasks[b][x] \in {"skipped", "mined", "reverted"} => Recorded(x.commitment)

\* A proof a verifier was given stays true, although it was put together from two
\* reads and the input may be anchored again: it names a gateway that signed the
\* input, and the index never names another for its commitment.
ProofStays ==
    \A p \in proofs : p \in Attestations /\ signerOf[p.commitment] = p.signer
=============================================================================
