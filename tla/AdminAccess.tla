----------------------------- MODULE AdminAccess -----------------------------
(***************************************************************************)
(* Who administers the node (ui/admin.ts, auth.ts, siwe.ts): a wallet that *)
(* signs a message with a nonce of the server (SIWE).  The first to sign   *)
(* claims the node; later ones must be that wallet; the administrator      *)
(* hands over to a wallet that signs; the ADMIN_SECRET unclaims the node.  *)
(* Nonces and sessions are in memory only.                                 *)
(*                                                                         *)
(* An attempt is followed from the page that starts it.  The handlers      *)
(* await the check of the signature, and others run in between.            *)
(***************************************************************************)
EXTENDS Configuration, FiniteSets

CONSTANTS
    Attempts,       \* logins and transfers at a time
    MaxNonces,      \* bound on the nonces, of 16 random bytes, none drawn twice
    NonceTTL, SessionTTL

ASSUME AccessAssumption == {MaxNonces, NonceTTL, SessionTTL} \subseteq Nat

Nonces == 1..MaxNonces

Bearer == 0         \* Authorization: Bearer ADMIN_SECRET, in place of a session

VARIABLES
    nonces,         \* when a nonce in the map expires, 0 for none
    drawn,          \* how many nonces were ever drawn
    sessions,       \* the sessions, by the nonce of their login
    attempts,
    accepted,       \* how many attempts were accepted with a nonce
    claimants       \* the wallets told that they claimed the node as it is claimed

adminVars == <<clock, configVars, nonces, drawn, sessions, attempts, accepted, claimants>>

NoSession == [holder |-> Unset, until |-> 0]

NoAttempt == [at |-> "none", kind |-> "login", account |-> Unset, nonce |-> 0,
              by |-> 0, seen |-> Unset, valid |-> FALSE]

AdminInit ==
    /\ ClockInit /\ ConfigInit
    /\ nonces = [n \in Nonces |-> 0]
    /\ drawn = 0
    /\ sessions = [n \in Nonces |-> NoSession]
    /\ attempts = [r \in Attempts |-> NoAttempt]
    /\ accepted = [n \in Nonces |-> 0]
    /\ claimants = {}

-----------------------------------------------------------------------------
SiweAvailable == Running /\ (memory.gatewayKey # Unset \/ memory.adminAddress # Unset)

\* getSession: the wallet of a session that has not expired.
Holder(by) ==
    IF by \in Nonces /\ sessions[by].until >= clock THEN sessions[by].holder ELSE Unset

\* requireAdmin: with no wallet, no secret and no key to claim with, all may enter.
Authorized(by) ==
    /\ Running
    /\ \/ memory.adminAddress = Unset /\ memory.adminSecret = Unset /\ memory.gatewayKey = Unset
       \/ memory.adminAddress # Unset /\ Holder(by) = memory.adminAddress
       \/ memory.adminSecret # Unset /\ by = Bearer

Attempt(r, to) == attempts' = [attempts EXCEPT ![r] = to]

\* The login page asks for the state of the node.
OpenLogin(r) ==
    /\ attempts[r].at = "none"
    /\ SiweAvailable
    /\ Attempt(r, [NoAttempt EXCEPT !.at = "page", !.seen = memory.adminAddress])
    /\ UNCHANGED <<configVars, nonces, drawn, sessions, accepted, claimants>>

\* The dashboard of the administrator, on which startTransfer is pressed.
OpenTransfer(r, by) ==
    /\ attempts[r].at = "none"
    /\ Authorized(by)
    /\ memory.adminAddress # Unset
    /\ Attempt(r, [NoAttempt EXCEPT !.at = "page", !.kind = "transfer", !.by = by,
                                    !.seen = memory.adminAddress])
    /\ UNCHANGED <<configVars, nonces, drawn, sessions, accepted, claimants>>

\* The page refuses the wrong wallet, by what it saw, then gets a nonce and has it signed.
\* generateNonce removes the nonces that expired.
Sign(r, account, valid) ==
    LET n == drawn + 1 IN
    /\ attempts[r].at = "page"
    /\ SiweAvailable
    /\ IF attempts[r].kind = "login"
       THEN attempts[r].seen = Unset \/ account = attempts[r].seen
       ELSE account # attempts[r].seen
    /\ drawn < MaxNonces /\ drawn' = n
    /\ nonces' = [m \in Nonces |-> IF m = n THEN clock + NonceTTL
                                   ELSE IF nonces[m] < clock THEN 0 ELSE nonces[m]]
    /\ Attempt(r, [attempts[r] EXCEPT !.at = "signed", !.account = account, !.nonce = n,
                                      !.valid = valid])
    /\ UNCHANGED <<configVars, sessions, accepted, claimants>>

\* The signed message arrives a second time.
SendAgain(r, s) ==
    /\ attempts[r].at \in {"signed", "checking"} /\ attempts[s].at = "none"
    /\ Attempt(s, [attempts[r] EXCEPT !.at = "signed"])
    /\ UNCHANGED <<configVars, nonces, drawn, sessions, accepted, claimants>>

\* What the handlers ask before they await the signature.
Admissible(r) ==
    /\ SiweAvailable
    /\ attempts[r].kind = "transfer" =>
           /\ Authorized(attempts[r].by)
           /\ memory.adminAddress \notin {Unset, attempts[r].account}

\* Mutant: the nonce stays in the map until the signature is checked.
CheckBeforeDelete(r) ==
    /\ attempts[r].at = "signed"
    /\ IF Admissible(r) /\ nonces[attempts[r].nonce] >= clock
       THEN Attempt(r, [attempts[r] EXCEPT !.at = "checking"])
       ELSE Attempt(r, NoAttempt)
    /\ UNCHANGED <<configVars, nonces, drawn, sessions, accepted, claimants>>

\* verifySiwe up to its await: a nonce that is known and has not expired, once.
Check(r) ==
    LET n == attempts[r].nonce IN
    /\ attempts[r].at = "signed"
    /\ IF Admissible(r) /\ nonces[n] >= clock
       THEN nonces' = [nonces EXCEPT ![n] = 0] /\ Attempt(r, [attempts[r] EXCEPT !.at = "checking"])
       ELSE UNCHANGED nonces /\ Attempt(r, NoAttempt)
    /\ UNCHANGED <<configVars, drawn, sessions, accepted, claimants>>

\* setAdminSession, with a token that is named by the nonce.
Session(r, cleared) ==
    sessions' = [n \in Nonces |->
        CASE n = attempts[r].nonce -> [holder |-> attempts[r].account, until |-> clock + SessionTTL]
          [] n = cleared -> NoSession
          [] OTHER -> sessions[n]]

Accept(r) == accepted' = [accepted EXCEPT ![attempts[r].nonce] = @ + 1]

Refuse(r) ==
    /\ attempts[r].at = "checking"
    /\ ~attempts[r].valid \/ (attempts[r].kind = "login" /\
                              memory.adminAddress \notin {Unset, attempts[r].account})
    /\ UNCHANGED <<configVars, sessions, accepted, claimants>>

\* Mutant: the claim is not decided again after the await.
ClaimAsSeen(r) ==
    /\ attempts[r].at = "checking" /\ attempts[r].valid /\ attempts[r].kind = "login"
    /\ attempts[r].seen = Unset
    /\ SetAdminAddress(attempts[r].account)
    /\ Session(r, 0) /\ Accept(r)
    /\ claimants' = claimants \cup {attempts[r].account}

\* The node is unclaimed when the signature has been checked.
Claim(r) ==
    /\ attempts[r].at = "checking" /\ attempts[r].valid /\ attempts[r].kind = "login"
    /\ memory.adminAddress = Unset
    /\ SetAdminAddress(attempts[r].account)
    /\ Session(r, 0) /\ Accept(r)
    /\ claimants' = claimants \cup {attempts[r].account}

Login(r) ==
    /\ attempts[r].at = "checking" /\ attempts[r].valid /\ attempts[r].kind = "login"
    /\ memory.adminAddress = attempts[r].account
    /\ Session(r, 0) /\ Accept(r)
    /\ UNCHANGED <<configVars, claimants>>

\* The wallet changes even if it did so, or was cleared, during the await.
Transfer(r) ==
    /\ attempts[r].at = "checking" /\ attempts[r].valid /\ attempts[r].kind = "transfer"
    /\ SetAdminAddress(attempts[r].account)
    /\ Session(r, attempts[r].by) /\ Accept(r)
    /\ claimants' = {}

\* setAdminAddress throws in the claim: the wallet is told of an error and gets no
\* session, and is the administrator for as long as the process runs.
ClaimFails(r) ==
    /\ attempts[r].at = "checking" /\ attempts[r].valid /\ attempts[r].kind = "login"
    /\ memory.adminAddress = Unset
    /\ SetAdminAddressThrows(attempts[r].account)
    /\ UNCHANGED <<sessions, accepted, claimants>>

\* ... or in the transfer, which then leaves the session of the old wallet.
TransferFails(r) ==
    /\ attempts[r].at = "checking" /\ attempts[r].valid /\ attempts[r].kind = "transfer"
    /\ SetAdminAddressThrows(attempts[r].account)
    /\ claimants' = {}
    /\ UNCHANGED <<sessions, accepted>>

Finish(r) ==
    /\ \/ Refuse(r) \/ Claim(r) \/ Login(r) \/ Transfer(r)
       \/ ClaimFails(r) \/ TransferFails(r)
    /\ Attempt(r, NoAttempt)
    /\ UNCHANGED <<nonces, drawn>>

Logout(n) ==
    /\ Running /\ sessions[n] # NoSession
    /\ sessions' = [sessions EXCEPT ![n] = NoSession]
    /\ UNCHANGED <<configVars, nonces, drawn, attempts, accepted, claimants>>

\* POST /siwe/reset with the secret, and perhaps a session, which ends.
Reset(by) ==
    /\ Running /\ memory.adminSecret # Unset /\ env.adminAddress = Unset
    /\ SetAdminAddress(Unset)
    /\ sessions' = [n \in Nonces |-> IF n = by THEN NoSession ELSE sessions[n]]
    /\ claimants' = {}
    /\ UNCHANGED <<nonces, drawn, attempts, accepted>>

\* clearAdminAddress throws: no session ends.
ResetFails ==
    /\ Running /\ memory.adminSecret # Unset
    /\ SetAdminAddressThrows(Unset)
    /\ claimants' = {}
    /\ UNCHANGED <<nonces, drawn, sessions, attempts, accepted>>

\* The dashboard's settings, for who is authorised, and the wizard, for all; the
\* write of either may fail.
Settings ==
    /\ \/ /\ \E by \in Nonces \cup {Bearer} : Authorized(by)
          /\ SubmitConfig \/ \E key \in Keys : SaveKey(key)
       \/ Running /\ (SubmitWizard \/ WriteRefused)
    /\ UNCHANGED <<nonces, drawn, sessions, attempts, accepted, claimants>>

\* The timer of a save, or any other stop, which loses nonces, sessions and attempts.
Restart ==
    /\ Running
    /\ Reload
    /\ nonces' = [n \in Nonces |-> 0]
    /\ sessions' = [n \in Nonces |-> NoSession]
    /\ attempts' = [r \in Attempts |-> NoAttempt]
    /\ claimants' = IF Load = Down \/ Setting("adminAddress") # Unset THEN claimants ELSE {}
    /\ UNCHANGED <<drawn, accepted>>

\* Time passes while there is something that may expire.
AdminTick ==
    /\ \E n \in Nonces : nonces[n] >= clock \/ sessions[n].until >= clock
    /\ Advance
    /\ UNCHANGED <<configVars, nonces, drawn, sessions, attempts, accepted, claimants>>

AdminNext ==
    \/ /\ \/ \E r \in Attempts :
              \/ OpenLogin(r) \/ Check(r) \/ Finish(r)
              \/ \E by \in Nonces \cup {Bearer} : OpenTransfer(r, by)
              \/ \E account \in Accounts, valid \in BOOLEAN : Sign(r, account, valid)
              \/ \E s \in Attempts : SendAgain(r, s)
          \/ \E n \in Nonces : Logout(n) \/ Reset(n)
          \/ ResetFails
          \/ Settings \/ Restart
       /\ UNCHANGED clock
    \/ AdminTick

\* The timer of a save fires.
AdminFairness == WF_adminVars(restartDue /\ Restart /\ UNCHANGED clock)

AdminSpec == AdminInit /\ [][AdminNext]_adminVars /\ AdminFairness

-----------------------------------------------------------------------------
\* However many messages with a nonce are being checked at once, one at most opens
\* a session.
NonceUsedOnce == \A n \in Nonces : accepted[n] <= 1

\* Of several wallets that sign for an unclaimed node at once, one is told that it
\* claimed the node, and that one is the administrator.
OneClaimant ==
    /\ Cardinality(claimants) <= 1
    /\ Running /\ claimants # {} => memory.adminAddress \in claimants

\* What the README says of a claim: it persists across reboots.  (One that could not
\* be written was answered with an error, and is left aside.)
AdminPersists ==
    [][(Running /\ memory.adminAddress # Unset /\ unsaved = 0 /\ Restart /\ Running') =>
           memory'.adminAddress = memory.adminAddress]_adminVars
=============================================================================
