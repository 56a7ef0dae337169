----------------------------- MODULE JoinRequests -----------------------------
(***************************************************************************)
(* Requests to join the mesh (index.ts, POST /join-request) and what the   *)
(* administrator does with them (ui/admin.ts): approving one sends its url *)
(* and signature to NodeRegistry.sol from the browser's wallet.  A request *)
(* is stored after the node at its url was asked for its health, for which *)
(* nothing is read: requests of one signer arrive in any order, and while  *)
(* one is approved.  A row is named by its signer: the upsert keeps the id.*)
(***************************************************************************)
EXTENDS Naturals, Sequences, SequencesExt

CONSTANTS
    Applicants,     \* signers
    Urls,
    NoUrl

ASSUME JoinAssumption == NoUrl \notin Urls

VARIABLES
    rows,           \* join_requests
    page,           \* the rows with buttons on the dashboard
    approval,       \* the approval in the browser
    sent,           \* the registrations the wallet sent
    urlOf, listed   \* NodeRegistry: _nodes and _signers

joinVars == <<rows, page, approval, sent, urlOf, listed>>

NoApproval == [at |-> "none", signer |-> NoUrl, url |-> NoUrl]

JoinInit ==
    /\ rows = [s \in Applicants |-> [status |-> "none", url |-> NoUrl]]
    /\ page = {}
    /\ approval = NoApproval
    /\ sent = {}
    /\ urlOf = [s \in Applicants |-> NoUrl]
    /\ listed = <<>>

-----------------------------------------------------------------------------
\* A valid signature over the url names the signer, and the node is healthy, unreachable
\* or late: the row of the signer is replaced, and pending again.
Upsert(s, url) ==
    /\ rows' = [rows EXCEPT ![s] = [status |-> "pending", url |-> url]]
    /\ UNCHANGED <<page, approval, sent, urlOf, listed>>

\* loadJoinRequests.
ShowPending ==
    /\ page' = {s \in Applicants : rows[s].status = "pending"}
    /\ UNCHANGED <<rows, approval, sent, urlOf, listed>>

\* declineJoinRequest, whatever became of the row since it was shown.
Decline(s) ==
    /\ s \in page
    /\ rows' = [rows EXCEPT ![s].status = "declined"]
    /\ page' = page \ {s}
    /\ UNCHANGED <<approval, sent, urlOf, listed>>

\* approveJoinRequest: the calldata of the row as it is now, for the wallet to confirm.
GetCalldata(s) ==
    /\ s \in page /\ approval.at = "none"
    /\ approval' = [at |-> "wallet", signer |-> s, url |-> rows[s].url]
    /\ UNCHANGED <<rows, page, sent, urlOf, listed>>

\* The wallet sends it, or the administrator rejects.
ConfirmOrReject ==
    /\ approval.at = "wallet"
    /\ \/ /\ sent' = sent \cup {[signer |-> approval.signer, url |-> approval.url]}
          /\ approval' = [approval EXCEPT !.at = "sent"]
       \/ approval' = NoApproval /\ UNCHANGED sent
    /\ UNCHANGED <<rows, page, urlOf, listed>>

\* Mutant: the row is marked before the wallet has confirmed.
MarkApprovedFirst ==
    /\ approval.at \in {"wallet", "sent"}
    /\ rows' = [rows EXCEPT ![approval.signer].status = "approved"]
    /\ approval' = IF approval.at = "sent" THEN NoApproval ELSE approval
    /\ UNCHANGED <<page, sent, urlOf, listed>>

\* POST .../approve, whose answer nobody looks at: it may be lost.
MarkApproved ==
    /\ approval.at = "sent"
    /\ rows' = [rows EXCEPT ![approval.signer].status = "approved"] \/ UNCHANGED rows
    /\ approval' = NoApproval
    /\ UNCHANGED <<page, sent, urlOf, listed>>

\* NodeRegistry.register, with the signer that the signature has; a relayer may send
\* it again.
Register ==
    /\ \E tx \in sent :
           /\ urlOf' = [urlOf EXCEPT ![tx.signer] = tx.url]
           /\ listed' = IF urlOf[tx.signer] = NoUrl THEN Append(listed, tx.signer) ELSE listed
    /\ UNCHANGED <<rows, page, approval, sent>>

JoinNext ==
    \/ \E s \in Applicants :
        Decline(s) \/ GetCalldata(s) \/ \E url \in Urls : Upsert(s, url)
    \/ ShowPending \/ ConfirmOrReject \/ MarkApproved \/ Register

JoinSpec == JoinInit /\ [][JoinNext]_joinVars

-----------------------------------------------------------------------------
\* A row is approved only if a registration of its signer was sent, although rows are
\* replaced, declined and shown while the wallet asks; and who is registered was
\* approved by the administrator, and is in the list once.
ApprovedWasSent ==
    /\ \A s \in Applicants : rows[s].status = "approved" => \E tx \in sent : tx.signer = s
    /\ \A s \in Applicants : urlOf[s] # NoUrl <=> Contains(listed, s)
    /\ IsInjective(listed)
=============================================================================
