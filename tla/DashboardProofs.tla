---------------------------- MODULE DashboardProofs ----------------------------
(***************************************************************************)
(* What the dashboard tells its administrator and a verifier, for any      *)
(* number of applicants, rows and batches: a row is approved only if its   *)
(* registration was sent, what is reported as anchored is on chain, and a  *)
(* proof stays true.                                                       *)
(***************************************************************************)
EXTENDS JoinRequests, Anchoring, TLAPS

-----------------------------------------------------------------------------
(* Join requests. *)

Statuses == {"none", "pending", "declined", "approved"}

JoinTypeOK ==
    /\ rows \in [Applicants -> [status : Statuses, url : Urls \cup {NoUrl}]]
    /\ page \subseteq Applicants
    /\ approval \in [at : {"none", "wallet", "sent"}, signer : Applicants \cup {NoUrl},
                     url : Urls \cup {NoUrl}]
    /\ sent \subseteq [signer : Applicants, url : Urls]
    /\ urlOf \in [Applicants -> Urls \cup {NoUrl}]
    /\ listed \in Seq(Applicants)

\* A row that the dashboard shows has a url, and still has one when it was replaced,
\* declined or approved since: what is signed and sent is never empty.
UrlsInv ==
    /\ \A s \in Applicants : rows[s].status = "pending" \/ s \in page => rows[s].url \in Urls
    /\ approval.at # "none" => approval.signer \in Applicants /\ approval.url \in Urls

\* What is marked as approved was sent, and so was what is about to be.
SentInv ==
    /\ approval.at = "sent" => [signer |-> approval.signer, url |-> approval.url] \in sent
    /\ \A s \in Applicants : rows[s].status = "approved" => \E tx \in sent : tx.signer = s

\* The registry lists who has a url, once.
ListInv ==
    /\ \A s \in Applicants : urlOf[s] # NoUrl <=> Contains(listed, s)
    /\ IsInjective(listed)

JoinInv == JoinTypeOK /\ UrlsInv /\ SentInv /\ ListInv

\* Nothing is requested, sent or registered at first.
LEMMA JoinStart == JoinInit => JoinInv
BY DEF JoinInit, JoinInv, JoinTypeOK, UrlsInv, SentInv, ListInv, Statuses, NoApproval,
       Contains, IsInjective

\* Requests and answers keep the shapes of the rows.
LEMMA JoinTypeStep == JoinInv /\ [JoinNext]_joinVars => JoinTypeOK'
<1> SUFFICES ASSUME JoinInv, [JoinNext]_joinVars PROVE JoinTypeOK'
  OBVIOUS
<1> USE DEF JoinInv, JoinTypeOK, Statuses
<1>1. ASSUME NEW s \in Applicants, Decline(s) PROVE JoinTypeOK'
  BY <1>1 DEF Decline
<1>2. ASSUME NEW s \in Applicants, GetCalldata(s) PROVE JoinTypeOK'
  BY <1>2 DEF GetCalldata, UrlsInv
<1>3. ASSUME NEW s \in Applicants, NEW url \in Urls, Upsert(s, url) PROVE JoinTypeOK'
  BY <1>3 DEF Upsert
<1>4. CASE ShowPending
  BY <1>4 DEF ShowPending
<1>5. CASE ConfirmOrReject
  BY <1>5 DEF ConfirmOrReject, UrlsInv, NoApproval
<1>6. CASE MarkApproved
  <2>1. approval.signer \in Applicants /\ approval' = NoApproval
    BY <1>6 DEF MarkApproved, UrlsInv
  <2>2. rows' \in [Applicants -> [status : Statuses, url : Urls \cup {NoUrl}]]
    BY <1>6, <2>1 DEF MarkApproved
  <2> QED
    BY <1>6, <2>1, <2>2 DEF MarkApproved, NoApproval
<1>7. CASE Register
  BY <1>7 DEF Register
<1>8. CASE UNCHANGED joinVars
  BY <1>8 DEF joinVars
<1> QED
  BY <1>1, <1>2, <1>3, <1>4, <1>5, <1>6, <1>7, <1>8 DEF JoinNext

\* A row keeps its url, or gets that of a newer request.
LEMMA UrlsStep == JoinInv /\ [JoinNext]_joinVars => UrlsInv'
<1> SUFFICES ASSUME JoinInv, [JoinNext]_joinVars PROVE UrlsInv'
  OBVIOUS
<1> USE DEF JoinInv, JoinTypeOK, UrlsInv, Statuses
<1>1. ASSUME NEW s \in Applicants, Decline(s) PROVE UrlsInv'
  BY <1>1 DEF Decline
<1>2. ASSUME NEW s \in Applicants, GetCalldata(s) PROVE UrlsInv'
  BY <1>2 DEF GetCalldata
<1>3. ASSUME NEW s \in Applicants, NEW url \in Urls, Upsert(s, url) PROVE UrlsInv'
  BY <1>3 DEF Upsert
<1>4. CASE ShowPending
  BY <1>4 DEF ShowPending
<1>5. CASE ConfirmOrReject
  BY <1>5 DEF ConfirmOrReject, NoApproval
<1>6. CASE MarkApproved
  BY <1>6 DEF MarkApproved, NoApproval
<1>7. CASE Register
  BY <1>7 DEF Register
<1>8. CASE UNCHANGED joinVars
  BY <1>8 DEF joinVars
<1> QED
  BY <1>1, <1>2, <1>3, <1>4, <1>5, <1>6, <1>7, <1>8 DEF JoinNext

\* Only the answer to what was sent marks a row.
LEMMA SentStep == JoinInv /\ [JoinNext]_joinVars => SentInv'
<1> SUFFICES ASSUME JoinInv, [JoinNext]_joinVars PROVE SentInv'
  OBVIOUS
<1> USE DEF JoinInv, JoinTypeOK, UrlsInv, SentInv, Statuses
<1>1. ASSUME NEW s \in Applicants, Decline(s) PROVE SentInv'
  BY <1>1 DEF Decline
<1>2. ASSUME NEW s \in Applicants, GetCalldata(s) PROVE SentInv'
  BY <1>2 DEF GetCalldata
<1>3. ASSUME NEW s \in Applicants, NEW url \in Urls, Upsert(s, url) PROVE SentInv'
  BY <1>3 DEF Upsert
<1>4. CASE ShowPending
  BY <1>4 DEF ShowPending
<1>5. CASE ConfirmOrReject
  BY <1>5 DEF ConfirmOrReject, NoApproval
<1>6. CASE MarkApproved
  BY <1>6 DEF MarkApproved, NoApproval
<1>7. CASE Register
  BY <1>7 DEF Register
<1>8. CASE UNCHANGED joinVars
  BY <1>8 DEF joinVars
<1> QED
  BY <1>1, <1>2, <1>3, <1>4, <1>5, <1>6, <1>7, <1>8 DEF JoinNext

\* A signer that has no url yet is appended, and no other.
LEMMA ListStep == JoinInv /\ [JoinNext]_joinVars => ListInv'
<1> SUFFICES ASSUME JoinInv, [JoinNext]_joinVars PROVE ListInv'
  OBVIOUS
<1>1. CASE UNCHANGED <<urlOf, listed>>
  BY <1>1 DEF JoinInv, ListInv, Contains, IsInjective
<1>2. CASE Register
  <2>1. PICK tx \in sent :
            /\ urlOf' = [urlOf EXCEPT ![tx.signer] = tx.url]
            /\ listed' = IF urlOf[tx.signer] = NoUrl THEN Append(listed, tx.signer) ELSE listed
    BY <1>2 DEF Register
  <2>2. tx.signer \in Applicants /\ tx.url \in Urls /\ tx.url # NoUrl
    BY JoinAssumption DEF JoinInv, JoinTypeOK
  <2> USE DEF JoinInv, JoinTypeOK, ListInv, Contains, IsInjective
  <2>3. CASE urlOf[tx.signer] = NoUrl
    <3>1. ~Contains(listed, tx.signer)
      BY <2>2, <2>3
    <3>2. /\ listed' = Append(listed, tx.signer) /\ DOMAIN listed = 1..Len(listed)
          /\ Len(listed) \in Nat /\ Len(listed') = Len(listed) + 1
          /\ DOMAIN listed' = 1..(Len(listed) + 1)
          /\ \A i \in 1..Len(listed) : listed'[i] = listed[i]
          /\ listed'[Len(listed) + 1] = tx.signer
      BY <2>1, <2>2, <2>3
    <3>3. IsInjective(listed')
      BY <3>1, <3>2
    <3>4. \A s \in Applicants : Contains(listed', s) <=> (Contains(listed, s) \/ s = tx.signer)
      BY <3>2
    <3>5. \A s \in Applicants : urlOf'[s] # NoUrl <=> (urlOf[s] # NoUrl \/ s = tx.signer)
      BY <2>1, <2>2
    <3> QED
      BY <3>3, <3>4, <3>5
  <2>4. CASE urlOf[tx.signer] # NoUrl
    BY <2>1, <2>2, <2>4
  <2> QED
    BY <2>3, <2>4
<1> QED
  BY <1>1, <1>2 DEF JoinNext, joinVars, Decline, GetCalldata, Upsert, ShowPending,
                    ConfirmOrReject, MarkApproved

\* Every step of the page, the wallet and the registry keeps what is said of them.
LEMMA JoinStep == JoinInv /\ [JoinNext]_joinVars => JoinInv'
BY JoinTypeStep, UrlsStep, SentStep, ListStep DEF JoinInv

\* An approved row is of a signer whose registration was sent, whatever became of the
\* row while the wallet asked, and the registry lists a signer once.
THEOREM ApprovedRowsWereSent == JoinSpec => []ApprovedWasSent
<1>1. JoinInv => ApprovedWasSent
  BY DEF JoinInv, SentInv, ListInv, ApprovedWasSent
<1> QED
  BY JoinStart, <1>1, JoinStep, PTL DEF JoinSpec
-----------------------------------------------------------------------------
(* Anchoring. *)

AnchorTypeOK ==
    /\ wyriwe \in Seq(Attestations)
    /\ tasks \in [Batches -> [Attestations ->
           {"none", "check", "skipped", "send", "pending", "error", "mined", "reverted",
            "dropped"}]]
    /\ DOMAIN signerOf = Commitments /\ DOMAIN commitmentOf = Inputs
    /\ reading \subseteq [input : Inputs, commitment : Commitments]

\* What the index says of an input and a commitment, as one attestation.
Indexed(i, c) == [input |-> i, commitment |-> c, signer |-> signerOf[c]]

\* Of each input the index names the commitment and the signer of one attestation,
\* although it is written by transactions for others, and so does a check that has
\* read the commitment and not yet the signer.
IndexInv ==
    /\ \A i \in Inputs : commitmentOf[i] # NoCommitment =>
           commitmentOf[i] \in Commitments /\ Indexed(i, commitmentOf[i]) \in Attestations
    /\ \A r \in reading : Indexed(r.input, r.commitment) \in Attestations

AnchorInv == AnchorTypeOK /\ IndexInv /\ ReportedAnchored /\ ProofStays

\* An index without entries.
LEMMA AnchorStart == AnchorInit => AnchorInv
BY DEF AnchorInit, AnchorInv, AnchorTypeOK, IndexInv, ReportedAnchored, ProofStays

\* The signer of a commitment is the first, for good.
LEMMA RecordedStays ==
    ASSUME AnchorInv, [AnchorNext]_anchorVars, NEW c \in Commitments, Recorded(c)
    PROVE  signerOf'[c] = signerOf[c] /\ Recorded(c)'
<1>1. CASE UNCHANGED signerOf
  BY <1>1 DEF Recorded
<1>2. ASSUME NEW b \in Batches, NEW x \in Attestations, Mine(b, x)
      PROVE  signerOf'[c] = signerOf[c]
  BY <1>2 DEF Mine, RecordOnChain, Recorded, AnchorInv, AnchorTypeOK
<1> QED
  BY <1>1, <1>2 DEF AnchorNext, anchorVars, Attest, Publish, CheckRecorded, Send,
                    ReadCommitment, ReadSigner, Recorded

\* Tasks, the index and checks keep their shapes.
LEMMA AnchorTypeStep == AnchorInv /\ [AnchorNext]_anchorVars => AnchorTypeOK'
<1> SUFFICES ASSUME AnchorInv, [AnchorNext]_anchorVars PROVE AnchorTypeOK'
  OBVIOUS
<1> USE DEF AnchorInv, AnchorTypeOK
<1>1. CASE Attest
  BY <1>1 DEF Attest
<1>2. ASSUME NEW b \in Batches, Publish(b) PROVE AnchorTypeOK'
  BY <1>2 DEF Publish
<1>3. ASSUME NEW b \in Batches, NEW x \in Attestations, CheckRecorded(b, x) PROVE AnchorTypeOK'
  BY <1>3 DEF CheckRecorded, Task
<1>4. ASSUME NEW b \in Batches, NEW x \in Attestations, Send(b, x) PROVE AnchorTypeOK'
  BY <1>4 DEF Send, Task
<1>5. ASSUME NEW b \in Batches, NEW x \in Attestations, Mine(b, x) PROVE AnchorTypeOK'
  BY <1>5 DEF Mine, Task, RecordOnChain
<1>6. ASSUME NEW i \in Inputs, ReadCommitment(i) PROVE AnchorTypeOK'
  BY <1>6 DEF ReadCommitment, IndexInv
<1>7. CASE ReadSigner
  BY <1>7 DEF ReadSigner
<1>8. CASE UNCHANGED anchorVars
  BY <1>8 DEF anchorVars
<1> QED
  BY <1>1, <1>2, <1>3, <1>4, <1>5, <1>6, <1>7, <1>8 DEF AnchorNext

\* A transaction enters an attestation whole, and only for a commitment that is new.
LEMMA IndexStep == AnchorInv /\ [AnchorNext]_anchorVars => IndexInv'
<1> SUFFICES ASSUME AnchorInv, [AnchorNext]_anchorVars PROVE IndexInv'
  OBVIOUS
<1>1. ASSUME NEW i, NEW c \in Commitments, Indexed(i, c) \in Attestations
      PROVE  Indexed(i, c)' \in Attestations
  <2>1. Recorded(c)
    BY <1>1, AnchoringAssumption DEF Indexed, Recorded
  <2> QED
    BY <1>1, <2>1, RecordedStays DEF Indexed
<1>2. \A i \in Inputs : commitmentOf'[i] # NoCommitment =>
          /\ commitmentOf'[i] \in Commitments
          /\ Indexed(i, commitmentOf[i])' \in Attestations
  <2>1. CASE UNCHANGED commitmentOf
    BY <1>1, <2>1 DEF AnchorInv, IndexInv
  <2>2. ASSUME NEW x \in Attestations, RecordOnChain(x), NEW i \in Inputs,
               commitmentOf'[i] # NoCommitment
        PROVE  /\ commitmentOf'[i] \in Commitments
               /\ Indexed(i, commitmentOf[i])' \in Attestations
    <3>1. CASE i = x.input
      <4>1. x.commitment \in Commitments
        BY DEF Commitments
      <4>2. commitmentOf'[i] = x.commitment /\ signerOf'[x.commitment] = x.signer
        BY <2>2, <3>1, <4>1 DEF RecordOnChain, AnchorInv, AnchorTypeOK
      <4>3. Indexed(i, commitmentOf[i])' = x
        BY <3>1, <4>2, AnchoringAssumption DEF Indexed
      <4> QED
        BY <4>1, <4>2, <4>3
    <3>2. CASE i # x.input
      <4>1. commitmentOf'[i] = commitmentOf[i]
        BY <2>2, <3>2 DEF RecordOnChain, AnchorInv, AnchorTypeOK
      <4> QED
        BY <1>1, <2>2, <4>1 DEF AnchorInv, IndexInv
    <3> QED
      BY <3>1, <3>2
  <2> QED
    BY <2>1, <2>2 DEF AnchorNext, anchorVars, Attest, Publish, CheckRecorded, Send, Mine,
                      ReadCommitment, ReadSigner
<1>3. \A r \in reading' : Indexed(r.input, r.commitment)' \in Attestations
  <2>1. ASSUME NEW i \in Inputs, ReadCommitment(i), NEW r \in reading'
        PROVE  Indexed(r.input, r.commitment)' \in Attestations
    BY <2>1 DEF ReadCommitment, AnchorInv, IndexInv, Indexed
  <2>2. CASE reading' \subseteq reading
    BY <1>1, <2>2 DEF AnchorInv, AnchorTypeOK, IndexInv
  <2> QED
    BY <2>1, <2>2 DEF AnchorNext, anchorVars, Attest, Publish, CheckRecorded, Send, Mine, ReadSigner
<1> QED
  BY <1>2, <1>3 DEF IndexInv

\* A task ends as anchored or as already anchored only when the index has the
\* commitment, which it keeps.
LEMMA ReportedStep == AnchorInv /\ [AnchorNext]_anchorVars => ReportedAnchored'
<1> SUFFICES ASSUME AnchorInv, [AnchorNext]_anchorVars,
                    NEW b \in Batches, NEW x \in Attestations,
                    tasks'[b][x] \in {"skipped", "mined", "reverted"}
             PROVE  Recorded(x.commitment)'
  BY DEF ReportedAnchored
<1> USE DEF AnchorInv, AnchorTypeOK
<1>0. x.commitment \in Commitments
  BY DEF Commitments
<1>1. CASE tasks'[b][x] = tasks[b][x]
  BY <1>0, <1>1, RecordedStays DEF ReportedAnchored
<1>2. ASSUME NEW d \in Batches, Publish(d) PROVE tasks'[b][x] = tasks[b][x]
  BY <1>2 DEF Publish
<1>3. ASSUME NEW d \in Batches, NEW y \in Attestations, CheckRecorded(d, y)
      PROVE  Recorded(x.commitment)'
  BY <1>0, <1>1, <1>3, RecordedStays DEF CheckRecorded, Task
<1>4. ASSUME NEW d \in Batches, NEW y \in Attestations, Send(d, y)
      PROVE  tasks'[b][x] = tasks[b][x]
  BY <1>4 DEF Send, Task
<1>5. ASSUME NEW d \in Batches, NEW y \in Attestations, Mine(d, y)
      PROVE  Recorded(x.commitment)'
  <2>1. CASE d = b /\ y = x
    <3>1. CASE RecordOnChain(x)
      BY <1>0, <3>1, AnchoringAssumption DEF RecordOnChain, Recorded
    <3>2. CASE Recorded(x.commitment)
      BY <1>0, <3>2, RecordedStays
    <3> QED
      BY <1>5, <2>1, <3>1, <3>2 DEF Mine, Task
  <2>2. CASE d # b \/ y # x
    BY <1>1, <1>5, <2>2 DEF Mine, Task
  <2> QED
    BY <2>1, <2>2
<1> QED
  BY <1>1, <1>2, <1>3, <1>4, <1>5 DEF AnchorNext, anchorVars, Attest, ReadCommitment, ReadSigner

\* A proof is an attestation when it is given, and the index keeps its signer.
LEMMA ProofStep == AnchorInv /\ [AnchorNext]_anchorVars => ProofStays'
<1> SUFFICES ASSUME AnchorInv, [AnchorNext]_anchorVars, NEW p \in proofs'
             PROVE  p \in Attestations /\ signerOf'[p.commitment] = p.signer
  BY DEF ProofStays
<1>1. CASE p \in proofs
  <2>1. p \in Attestations /\ signerOf[p.commitment] = p.signer
    BY <1>1 DEF AnchorInv, ProofStays
  <2>2. p.commitment \in Commitments /\ Recorded(p.commitment)
    BY <2>1, AnchoringAssumption DEF Commitments, Recorded
  <2> QED
    BY <2>1, <2>2, RecordedStays
<1>2. CASE p \notin proofs
  <2>1. PICK r \in reading : p = Indexed(r.input, r.commitment) /\ UNCHANGED signerOf
    BY <1>2 DEF AnchorNext, anchorVars, Attest, Publish, CheckRecorded, Send, Mine,
                ReadCommitment, ReadSigner, Indexed
  <2> QED
    BY <2>1 DEF AnchorInv, IndexInv, Indexed
<1> QED
  BY <1>1, <1>2

\* Every step of a batch, a proof and the chain keeps what is said of them.
LEMMA AnchorStep == AnchorInv /\ [AnchorNext]_anchorVars => AnchorInv'
BY AnchorTypeStep, IndexStep, ReportedStep, ProofStep DEF AnchorInv

\* The index and what is said of it agree in every state.
LEMMA AnchorInvariant == AnchorSpec => []AnchorInv
BY AnchorStart, AnchorStep, PTL DEF AnchorSpec

\* What a batch reports as anchored is on chain, however many batches overlap and
\* whichever of their transactions are mined, reverted or lost.
THEOREM ReportsAreTrue == AnchorSpec => []ReportedAnchored
BY AnchorInvariant, PTL DEF AnchorInv

\* A proof that was given stays true.
THEOREM ProofsStayTrue == AnchorSpec => []ProofStays
BY AnchorInvariant, PTL DEF AnchorInv
=============================================================================
