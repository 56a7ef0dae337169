----------------------------- MODULE AdminProofs -----------------------------
(***************************************************************************)
(* The configuration and the administrator of a node, for any number of    *)
(* attempts, nonces and wallets: memory follows the file, a nonce opens    *)
(* one session at most, and one wallet at most is told that it claimed.    *)
(***************************************************************************)
EXTENDS AdminAccess, TLAPS, FiniteSetTheorems

-----------------------------------------------------------------------------
(* The configuration. *)

ConfigTypeOK ==
    /\ env \in [Fields -> SettingValues]
    /\ file \in [Fields -> SettingValues]
    /\ memory \in [Fields -> SettingValues] \cup {Down}
    /\ restartDue \in BOOLEAN
    /\ unsaved \in Nat

\* Also of a process that could not start: it works with nothing, and writes nothing.
ConfigInv == ConfigTypeOK /\ (~restartDue /\ unsaved = 0 => memory = Load)

\* What is loaded is a configuration, or the process does not start.
LEMMA LoadType ==
    ASSUME env \in [Fields -> SettingValues], file \in [Fields -> SettingValues]
    PROVE  /\ Load \in [Fields -> SettingValues] \cup {Down}
           /\ Load # Down => Load.adminAddress = Setting("adminAddress")
<1> DEFINE loaded == [x \in Fields |-> Setting(x)]
<1>1. loaded \in [Fields -> SettingValues]
  BY DEF Setting
<1>2. LoadedPort \in SettingValues /\ LoadedType \in SettingValues
  BY DEF LoadedPort, LoadedType, Setting, SettingValues, Fields
<1>3. loaded.adminAddress = Setting("adminAddress")
  BY DEF Fields
<1> HIDE DEF loaded
<1>4. [loaded EXCEPT !.port = LoadedPort, !.nodeType = LoadedType] \in [Fields -> SettingValues]
  BY <1>1, <1>2 DEF Fields
<1>5. [loaded EXCEPT !.port = LoadedPort, !.nodeType = LoadedType].adminAddress
          = Setting("adminAddress")
  BY <1>1, <1>3 DEF Fields
<1> QED
  BY <1>4, <1>5 DEF Load, loaded

\* Only what is in the environment and the file is loaded.
LEMMA LoadStays == ASSUME UNCHANGED <<env, file>> PROVE Load' = Load
<1>1. \A x : Setting(x)' = Setting(x)
  BY DEF Setting
<1>2. LoadedPort' = LoadedPort
  BY <1>1 DEF LoadedPort
<1>3. LoadedType' = LoadedType
  BY <1>1 DEF LoadedType
<1>4. Loads' = Loads
  BY <1>1, <1>2 DEF Loads
<1>5. [x \in Fields |-> Setting(x)]' = [x \in Fields |-> Setting(x)]
  BY <1>1
<1> QED
  BY <1>2, <1>3, <1>4, <1>5 DEF Load

\* The setter of the administrator keeps memory and file together.
LEMMA SetAdminAddressStep ==
    ASSUME ConfigInv, Running, NEW a \in SettingValues, SetAdminAddress(a)
    PROVE  /\ ConfigInv' /\ Running'
           /\ IF env.adminAddress # Unset THEN UNCHANGED <<file, memory>>
              ELSE file'.adminAddress = a /\ memory'.adminAddress = a
<1> USE DEF ConfigInv, ConfigTypeOK
<1>1. CASE env.adminAddress # Unset
  BY <1>1, LoadStays DEF SetAdminAddress, Running
<1>2. CASE env.adminAddress = Unset
  <2>1. /\ memory \in [Fields -> SettingValues] /\ memory' = [memory EXCEPT !.adminAddress = a]
        /\ file' = [file EXCEPT !.adminAddress = a] /\ UNCHANGED <<env, restartDue, unsaved>>
    BY <1>2 DEF SetAdminAddress, Running
  <2>2. /\ file' \in [Fields -> SettingValues] /\ memory' \in [Fields -> SettingValues]
        /\ file'.adminAddress = a /\ memory'.adminAddress = a
        /\ \A x \in Fields \ {"adminAddress"} : file'[x] = file[x]
    BY <2>1 DEF Fields
  <2>3. memory' # Down
    BY <2>2, ConfigurationAssumption
  <2>4. ASSUME memory = Load PROVE memory' = Load'
    <3>1. Loads
      BY <2>1, <2>4, ConfigurationAssumption DEF Load
    <3>2. memory = [[x \in Fields |-> Setting(x)] EXCEPT !.port = LoadedPort, !.nodeType = LoadedType]
      BY <2>4, <3>1 DEF Load
    <3>3. \A x \in Fields \ {"adminAddress"} : Setting(x)' = Setting(x)
      BY <2>1, <2>2 DEF Setting
    <3>4. Setting("adminAddress")' = a
      BY <1>2, <2>1, <2>2 DEF Setting
    <3>5. /\ Setting("port")' = Setting("port") /\ Setting("nodeType")' = Setting("nodeType")
          /\ Setting("ingestSecret")' = Setting("ingestSecret")
          /\ Setting("adminSecret")' = Setting("adminSecret")
      BY <3>3 DEF Fields
    <3>6. LoadedPort' = LoadedPort /\ LoadedType' = LoadedType
      BY <3>5 DEF LoadedPort, LoadedType
    <3>7. Loads'
      BY <3>1, <3>5, <3>6 DEF Loads
    <3>8. [x \in Fields |-> Setting(x)]' = [[x \in Fields |-> Setting(x)] EXCEPT !.adminAddress = a]
      BY <3>3, <3>4
    <3> QED
      BY <2>1, <3>2, <3>6, <3>7, <3>8 DEF Load, Fields
  <2> QED
    BY <1>2, <2>1, <2>2, <2>3, <2>4 DEF Running
<1> QED
  BY <1>1, <1>2

\* A write that throws leaves the file as it was or empty, and is counted; if it is that
\* of the administrator, memory has changed, and no one else's changes it.
LEMMA ThrowsStep ==
    ASSUME ConfigInv, Running,
           \/ \E a \in SettingValues : SetAdminAddressThrows(a)
           \/ WriteRefused
    PROVE  /\ ConfigInv' /\ Running' /\ UNCHANGED <<env, restartDue>>
           /\ file'.adminAddress \in {Unset, file.adminAddress}
<1> USE DEF ConfigInv, ConfigTypeOK
<1>1. ASSUME NEW f \in {file, NoSettings}, WriteThrows(f)
      PROVE  /\ file' \in [Fields -> SettingValues] /\ unsaved' \in Nat /\ unsaved' # 0
             /\ UNCHANGED <<env, restartDue>>
             /\ file'.adminAddress \in {Unset, file.adminAddress}
  <2>1. NoSettings \in [Fields -> SettingValues] /\ NoSettings.adminAddress = Unset
    BY DEF NoSettings, SettingValues, Fields
  <2> QED
    BY <1>1, <2>1 DEF WriteThrows
<1>2. ASSUME NEW a \in SettingValues, SetAdminAddressThrows(a)
      PROVE  memory' \in [Fields -> SettingValues] /\ memory' # Down
  <2>1. memory \in [Fields -> SettingValues]
    BY DEF Running
  <2>2. memory' = [memory EXCEPT !.adminAddress = a]
    BY <1>2 DEF SetAdminAddressThrows
  <2> QED
    BY <2>1, <2>2, ConfigurationAssumption DEF Fields
<1>3. CASE WriteRefused
  BY <1>1, <1>3 DEF WriteRefused, Running
<1>4. ASSUME NEW a \in SettingValues, SetAdminAddressThrows(a)
      PROVE  /\ ConfigInv' /\ Running' /\ UNCHANGED <<env, restartDue>>
             /\ file'.adminAddress \in {Unset, file.adminAddress}
  BY <1>1, <1>2, <1>4 DEF SetAdminAddressThrows, Running
<1> QED
  BY <1>3, <1>4

\* A file that is written has a restart on its way.
LEMMA WriteStep ==
    ASSUME ConfigInv, NEW f \in [Fields -> SettingValues], Write(f)
    PROVE  ConfigInv'
BY DEF ConfigInv, ConfigTypeOK, Write

-----------------------------------------------------------------------------
(* Attempts and nonces. *)

AttemptRows == [at : {"none", "page", "signed", "checking"}, kind : {"login", "transfer"},
                account : Accounts \cup {Unset}, nonce : Nonces \cup {0},
                by : Nonces \cup {Bearer}, seen : SettingValues, valid : BOOLEAN]

AccessTypeOK ==
    /\ clock \in Nat \ {0}
    /\ nonces \in [Nonces -> Nat]
    /\ drawn \in 0..MaxNonces
    /\ attempts \in [Attempts -> AttemptRows]
    /\ accepted \in [Nonces -> Nat]

\* A message that was signed has a wallet and a nonce that was drawn, and a process
\* that is down has none.
SignedInv ==
    \A r \in Attempts :
        /\ attempts[r].at \in {"signed", "checking"} =>
               attempts[r].nonce \in 1..drawn /\ attempts[r].account \in Accounts
        /\ attempts[r].at # "none" => Running

\* A nonce goes one way: it is drawn, it is in the map, one attempt has taken it out and
\* checks its signature, and it is accepted.
NonceInv ==
    /\ \A n \in Nonces :
           /\ n > drawn => nonces[n] = 0 /\ accepted[n] = 0
           /\ nonces[n] > 0 => accepted[n] = 0
           /\ accepted[n] <= 1
    /\ \A r \in Attempts : attempts[r].at = "checking" =>
           /\ nonces[attempts[r].nonce] = 0 /\ accepted[attempts[r].nonce] = 0
           /\ \A s \in Attempts \ {r} : attempts[s].at = "checking" =>
                  attempts[s].nonce # attempts[r].nonce

\* The wallet that was told so is in memory, and unless the file was rewritten since it
\* is there too; there is none when the environment names the administrator.
ClaimInv ==
    /\ env.adminAddress # Unset /\ Running => memory.adminAddress = env.adminAddress
    /\ claimants # {} =>
           \E a \in Accounts :
               /\ claimants = {a}
               /\ env.adminAddress = Unset /\ file.adminAddress \in {Unset, a}
               /\ Running => memory.adminAddress = a

AccessInv == ConfigInv /\ AccessTypeOK /\ SignedInv /\ NonceInv /\ ClaimInv

\* A node that was never started before.
LEMMA AccessStart == AdminInit => AccessInv
<1> SUFFICES ASSUME AdminInit PROVE AccessInv
  OBVIOUS
<1>1. /\ env \in [Fields -> SettingValues] /\ file \in [Fields -> SettingValues]
      /\ memory = Load /\ restartDue = FALSE /\ unsaved = 0 /\ file.adminAddress = Unset
  BY ConfigurationAssumption DEF AdminInit, ConfigInit, NoSettings, SettingValues, Fields
<1>2. ConfigInv
  BY <1>1, LoadType DEF ConfigInv, ConfigTypeOK
<1>3. NoAttempt \in AttemptRows /\ NoAttempt.at = "none"
  BY DEF NoAttempt, AttemptRows, Bearer, SettingValues
<1>4. AccessTypeOK
  BY <1>3, AccessAssumption DEF AdminInit, ClockInit, AccessTypeOK
<1>5. SignedInv /\ NonceInv
  BY <1>3, AccessAssumption DEF AdminInit, SignedInv, NonceInv, Nonces
<1>6. ClaimInv
  BY <1>1, LoadType DEF AdminInit, ClaimInv, Running, Setting
<1> QED
  BY <1>2, <1>4, <1>5, <1>6 DEF AccessInv

\* Which attempts, and no other, a step of one attempt changes.
LEMMA AttemptType ==
    ASSUME AccessInv, NEW r \in Attempts, NEW to \in AttemptRows, Attempt(r, to)
    PROVE  /\ attempts' \in [Attempts -> AttemptRows] /\ attempts'[r] = to
           /\ \A s \in Attempts \ {r} : attempts'[s] = attempts[s]
BY DEF AccessInv, AccessTypeOK, Attempt

\* A page is opened, signs, and its message is sent once more.
LEMMA PageStep ==
    ASSUME AccessInv, NEW r \in Attempts, UNCHANGED clock,
           \/ OpenLogin(r) \/ \E by \in Nonces \cup {Bearer} : OpenTransfer(r, by)
           \/ \E s \in Attempts : SendAgain(s, r)
    PROVE  AccessInv'
<1> USE DEF AccessInv
<1>1. UNCHANGED <<clock, configVars, nonces, drawn, accepted, claimants>>
  BY DEF OpenLogin, OpenTransfer, SendAgain
<1>2. PICK to \in AttemptRows :
          /\ Attempt(r, to) /\ to.at \in {"page", "signed"} /\ Running
          /\ to.at = "signed" => to.nonce \in 1..drawn /\ to.account \in Accounts
  <2>1. CASE OpenLogin(r)
    <3>1. memory \in [Fields -> SettingValues] /\ Running
      BY <2>1 DEF OpenLogin, SiweAvailable, Running, ConfigInv, ConfigTypeOK
    <3>2. [NoAttempt EXCEPT !.at = "page", !.seen = memory.adminAddress] \in AttemptRows
      BY <3>1 DEF NoAttempt, AttemptRows, Bearer, Fields
    <3>3. [NoAttempt EXCEPT !.at = "page", !.seen = memory.adminAddress].at = "page"
      BY DEF NoAttempt
    <3> QED
      BY <2>1, <3>1, <3>2, <3>3 DEF OpenLogin
  <2>2. ASSUME NEW by \in Nonces \cup {Bearer}, OpenTransfer(r, by)
        PROVE  \E to \in AttemptRows : Attempt(r, to) /\ to.at = "page" /\ Running
    <3>1. memory \in [Fields -> SettingValues] /\ Running
      BY <2>2 DEF OpenTransfer, Authorized, Running, ConfigInv, ConfigTypeOK
    <3> DEFINE to == [NoAttempt EXCEPT !.at = "page", !.kind = "transfer", !.by = by,
                                       !.seen = memory.adminAddress]
    <3>2. to \in AttemptRows /\ to.at = "page"
      BY <3>1 DEF NoAttempt, AttemptRows, Fields
    <3>3. Attempt(r, to)
      BY <2>2 DEF OpenTransfer
    <3> QED
      BY <3>1, <3>2, <3>3
  <2>3. ASSUME NEW s \in Attempts, SendAgain(s, r)
        PROVE  \E to \in AttemptRows : Attempt(r, to) /\ to.at = "signed" /\ Running
                   /\ to.nonce \in 1..drawn /\ to.account \in Accounts
    <3> DEFINE to == [attempts[s] EXCEPT !.at = "signed"]
    <3>1. /\ attempts[s] \in AttemptRows /\ attempts[s].at \in {"signed", "checking"}
          /\ attempts[s].nonce \in 1..drawn /\ attempts[s].account \in Accounts /\ Running
      BY <2>3 DEF SendAgain, AccessTypeOK, SignedInv
    <3>2. /\ to \in AttemptRows /\ to.at = "signed" /\ to.nonce \in 1..drawn
          /\ to.account \in Accounts
      BY <3>1 DEF AttemptRows
    <3>3. Attempt(r, to)
      BY <2>3 DEF SendAgain
    <3> QED
      BY <3>1, <3>2, <3>3
  <2> QED
    BY <2>1, <2>2, <2>3
<1>3. /\ attempts' \in [Attempts -> AttemptRows] /\ attempts'[r] = to
      /\ \A s \in Attempts \ {r} : attempts'[s] = attempts[s]
  BY <1>2, AttemptType
<1>4. ConfigInv' /\ Running' = Running
  BY <1>1, LoadStays DEF ConfigInv, ConfigTypeOK, configVars, Running
<1>5. AccessTypeOK' /\ NonceInv'
  BY <1>1, <1>2, <1>3 DEF AccessTypeOK, NonceInv
<1>6. SignedInv'
  BY <1>1, <1>2, <1>3, <1>4 DEF SignedInv
<1>7. ClaimInv'
  BY <1>1, <1>4 DEF ClaimInv, configVars
<1> QED
  BY <1>4, <1>5, <1>6, <1>7

\* A new nonce is above those that were drawn.
LEMMA SignStep ==
    ASSUME AccessInv, NEW r \in Attempts, NEW account \in Accounts, NEW valid \in BOOLEAN,
           Sign(r, account, valid), UNCHANGED clock
    PROVE  AccessInv'
<1> USE DEF AccessInv
<1>1. UNCHANGED <<clock, configVars, accepted, claimants>> /\ Running
  BY DEF Sign, SiweAvailable
<1> DEFINE n == drawn + 1
           to == [attempts[r] EXCEPT !.at = "signed", !.account = account, !.nonce = n,
                                     !.valid = valid]
<1>2. /\ n \in Nonces /\ drawn' = n /\ drawn \in Nat /\ MaxNonces \in Nat
      /\ drawn' \in 0..MaxNonces
  BY AccessAssumption DEF Sign, Nonces, AccessTypeOK
<1>3. to \in AttemptRows /\ to.at = "signed" /\ to.nonce = n /\ to.account = account
  BY <1>2 DEF AccessTypeOK, AttemptRows
<1>4. Attempt(r, to)
  BY DEF Sign
<1> HIDE DEF to
<1>5. /\ attempts' \in [Attempts -> AttemptRows] /\ attempts'[r] = to
      /\ \A s \in Attempts \ {r} : attempts'[s] = attempts[s]
  BY <1>3, <1>4, AttemptType
<1>6. /\ nonces' \in [Nonces -> Nat]
      /\ \A m \in Nonces \ {n} : nonces'[m] \in {0, nonces[m]}
  BY <1>1, <1>2, AccessAssumption DEF Sign, AccessTypeOK
<1>7. AccessTypeOK'
  BY <1>1, <1>2, <1>5, <1>6 DEF AccessTypeOK
<1>8. ConfigInv' /\ Running' /\ ClaimInv'
  BY <1>1, LoadStays DEF ConfigInv, ConfigTypeOK, ClaimInv, configVars, Running
<1>9. SignedInv'
  BY <1>2, <1>3, <1>5, <1>8 DEF SignedInv
<1>10. NonceInv'
  <2>1. ASSUME NEW m \in Nonces
        PROVE  /\ m > drawn' => nonces'[m] = 0 /\ accepted'[m] = 0
               /\ nonces'[m] > 0 => accepted'[m] = 0
               /\ accepted'[m] <= 1
    <3>1. CASE m = n
      <4>1. m > drawn /\ ~(m > drawn')
        BY <1>2, <3>1
      <4>2. accepted[m] = 0 /\ accepted'[m] = 0
        BY <1>1, <4>1 DEF NonceInv
      <4> QED
        BY <4>1, <4>2
    <3>2. CASE m # n
      <4>1. nonces'[m] \in {0, nonces[m]} /\ accepted'[m] = accepted[m]
        BY <1>1, <1>6, <3>2
      <4>2. m > drawn' => m > drawn
        BY <1>2 DEF Nonces
      <4> QED
        BY <4>1, <4>2 DEF NonceInv, AccessTypeOK
    <3> QED
      BY <3>1, <3>2
  <2>2. ASSUME NEW s \in Attempts, attempts'[s].at = "checking"
        PROVE  /\ s # r /\ attempts'[s] = attempts[s] /\ attempts[s].nonce \in Nonces \ {n}
               /\ nonces'[attempts[s].nonce] = 0
    <3>1. s # r /\ attempts'[s] = attempts[s]
      BY <1>3, <1>5, <2>2
    <3>2. attempts[s].nonce \in 1..drawn
      BY <2>2, <3>1 DEF SignedInv
    <3>3. attempts[s].nonce \in Nonces \ {n}
      BY <1>2, <3>2 DEF Nonces
    <3> QED
      BY <1>6, <2>2, <3>1, <3>3 DEF NonceInv
  <2> QED
    BY <1>1, <2>1, <2>2 DEF NonceInv
<1> QED
  BY <1>7, <1>8, <1>9, <1>10

\* The nonce is taken out of the map by the one attempt that is to be checked.
LEMMA CheckStep ==
    ASSUME AccessInv, NEW r \in Attempts, Check(r), UNCHANGED clock
    PROVE  AccessInv'
<1> USE DEF AccessInv
<1>1. UNCHANGED <<clock, configVars, drawn, accepted, claimants>>
  BY DEF Check
<1>2. ConfigInv' /\ Running' = Running /\ ClaimInv'
  BY <1>1, LoadStays DEF ConfigInv, ConfigTypeOK, ClaimInv, configVars, Running
<1>3. attempts[r].at = "signed" /\ attempts[r].nonce \in 1..drawn /\ attempts[r].account \in Accounts
  BY DEF Check, SignedInv
<1> DEFINE n == attempts[r].nonce
<1>4. n \in Nonces
  BY <1>3, AccessAssumption DEF Nonces, AccessTypeOK
<1>5. CASE Admissible(r) /\ nonces[n] >= clock
  <2> DEFINE to == [attempts[r] EXCEPT !.at = "checking"]
  <2>1. /\ to \in AttemptRows /\ to.at = "checking" /\ to.nonce = n
        /\ to.account = attempts[r].account
    BY DEF AccessTypeOK, AttemptRows
  <2>2. Attempt(r, to) /\ nonces' = [nonces EXCEPT ![n] = 0]
    BY <1>5 DEF Check
  <2> HIDE DEF to
  <2>3. /\ attempts' \in [Attempts -> AttemptRows] /\ attempts'[r] = to
        /\ \A s \in Attempts \ {r} : attempts'[s] = attempts[s]
    BY <2>1, <2>2, AttemptType
  <2>4. AccessTypeOK'
    BY <1>1, <2>2, <2>3 DEF AccessTypeOK
  <2>5. Running
    BY <1>5 DEF Admissible, SiweAvailable
  <2>6. SignedInv'
    BY <1>1, <1>2, <1>3, <2>1, <2>3, <2>5 DEF SignedInv
  <2>7. nonces[n] > 0 /\ accepted[n] = 0
    BY <1>4, <1>5 DEF AccessTypeOK, NonceInv
  <2>8. \A s \in Attempts : attempts[s].at = "checking" => attempts[s].nonce # n
    BY <1>4, <2>7 DEF NonceInv, AccessTypeOK
  <2>9. \A s \in Attempts : attempts[s].at = "checking" => attempts[s].nonce \in Nonces
    BY AccessAssumption DEF SignedInv, Nonces, AccessTypeOK
  <2>10. \A m \in Nonces : nonces'[m] = IF m = n THEN 0 ELSE nonces[m]
    BY <2>2 DEF AccessTypeOK
  <2>11. NonceInv'
    BY <1>1, <1>3, <1>4, <2>1, <2>3, <2>7, <2>8, <2>9, <2>10 DEF NonceInv, AccessTypeOK
  <2> QED
    BY <1>2, <2>4, <2>6, <2>11
<1>6. CASE ~(Admissible(r) /\ nonces[n] >= clock)
  <2>1. NoAttempt \in AttemptRows /\ NoAttempt.at = "none"
    BY DEF NoAttempt, AttemptRows, Bearer, SettingValues
  <2>2. UNCHANGED nonces /\ Attempt(r, NoAttempt)
    BY <1>6 DEF Check
  <2>3. /\ attempts' \in [Attempts -> AttemptRows] /\ attempts'[r] = NoAttempt
        /\ \A s \in Attempts \ {r} : attempts'[s] = attempts[s]
    BY <2>1, <2>2, AttemptType
  <2> QED
    BY <1>1, <1>2, <2>1, <2>2, <2>3 DEF AccessTypeOK, SignedInv, NonceInv
<1> QED
  BY <1>5, <1>6

\* What a signature that was checked leads to: it is refused, or a session is opened, and
\* its nonce is accepted for the first time.
LEMMA FinishStep ==
    ASSUME AccessInv, NEW r \in Attempts, Finish(r), UNCHANGED clock
    PROVE  AccessInv'
<1> USE DEF AccessInv
<1>1. UNCHANGED <<clock, nonces, drawn>> /\ attempts[r].at = "checking" /\ Running
  BY DEF Finish, Refuse, Claim, Login, Transfer, ClaimFails, TransferFails, SignedInv
<1> DEFINE n == attempts[r].nonce
           a == attempts[r].account
<1>2. n \in Nonces /\ a \in Accounts /\ a \in SettingValues /\ a # Unset
  BY <1>1, AccessAssumption, ConfigurationAssumption
  DEF SignedInv, Nonces, AccessTypeOK, SettingValues
<1>3. /\ attempts' \in [Attempts -> AttemptRows] /\ attempts'[r] = NoAttempt
      /\ NoAttempt.at = "none" /\ \A s \in Attempts \ {r} : attempts'[s] = attempts[s]
  <2>1. NoAttempt \in AttemptRows /\ NoAttempt.at = "none"
    BY DEF NoAttempt, AttemptRows, Bearer, SettingValues
  <2>2. Attempt(r, NoAttempt)
    BY DEF Finish
  <2> QED
    BY <2>1, <2>2, AttemptType
<1>4. accepted' = accepted \/ accepted' = [accepted EXCEPT ![n] = @ + 1]
  BY DEF Finish, Refuse, Claim, Login, Transfer, ClaimFails, TransferFails, Accept
<1>5. AccessTypeOK'
  BY <1>1, <1>2, <1>3, <1>4 DEF AccessTypeOK
<1>6. NonceInv'
  <2>1. /\ \A m \in Nonces \ {n} : accepted'[m] = accepted[m]
        /\ accepted[n] = 0 /\ accepted'[n] \in {0, 1}
        /\ nonces[n] = 0 /\ ~(n > drawn)
    BY <1>1, <1>2, <1>4 DEF NonceInv, SignedInv, AccessTypeOK
  <2>2. \A s \in Attempts : attempts'[s].at = "checking" =>
            /\ s # r /\ attempts'[s] = attempts[s] /\ attempts[s].nonce # n
            /\ attempts[s].nonce \in Nonces
    BY <1>1, <1>3, AccessAssumption DEF NonceInv, SignedInv, Nonces, AccessTypeOK
  <2> QED
    BY <1>1, <2>1, <2>2 DEF NonceInv
<1>7. CASE UNCHANGED configVars /\ UNCHANGED claimants
  <2>1. ConfigInv' /\ Running' /\ ClaimInv'
    BY <1>1, <1>7, LoadStays DEF ConfigInv, ConfigTypeOK, ClaimInv, configVars, Running
  <2> QED
    BY <1>1, <1>3, <1>5, <1>6, <2>1 DEF SignedInv
<1>8. CASE SetAdminAddress(a)
           /\ \/ memory.adminAddress = Unset /\ claimants' = claimants \cup {a}
              \/ claimants' = {}
  <2>1. /\ ConfigInv' /\ Running'
        /\ IF env.adminAddress # Unset THEN UNCHANGED <<file, memory>>
           ELSE file'.adminAddress = a /\ memory'.adminAddress = a
    BY <1>1, <1>2, <1>8, SetAdminAddressStep
  <2>2. UNCHANGED env
    BY <1>8 DEF SetAdminAddress
  <2>3. claimants' = {} \/ (claimants' = {a} /\ env.adminAddress = Unset)
    BY <1>1, <1>8, ConfigurationAssumption DEF ClaimInv
  <2>4. ClaimInv'
    BY <1>1, <1>2, <2>1, <2>2, <2>3 DEF ClaimInv
  <2> QED
    BY <1>1, <1>3, <1>5, <1>6, <2>1, <2>4 DEF SignedInv
<1>9. CASE SetAdminAddressThrows(a)
           /\ \/ memory.adminAddress = Unset /\ UNCHANGED claimants
              \/ claimants' = {}
  <2>1. ConfigInv' /\ Running' /\ UNCHANGED env /\ env.adminAddress = Unset
    BY <1>1, <1>2, <1>9, ThrowsStep DEF SetAdminAddressThrows
  <2>2. claimants' = {}
    BY <1>1, <1>9, ConfigurationAssumption DEF ClaimInv
  <2>3. ClaimInv'
    BY <2>1, <2>2 DEF ClaimInv
  <2> QED
    BY <1>1, <1>3, <1>5, <1>6, <2>1, <2>3 DEF SignedInv
<1> QED
  BY <1>7, <1>8, <1>9 DEF Finish, Refuse, Claim, Login, Transfer, ClaimFails, TransferFails

\* A session ends, time passes, or nothing happens.
LEMMA RestStep ==
    ASSUME AccessInv,
           \/ \E n \in Nonces : Logout(n) /\ UNCHANGED clock
           \/ /\ Advance
              /\ UNCHANGED <<configVars, nonces, drawn, sessions, attempts, accepted, claimants>>
           \/ UNCHANGED adminVars
    PROVE  AccessInv'
<1>1. UNCHANGED <<configVars, nonces, drawn, attempts, accepted, claimants>>
  BY DEF Logout, adminVars
<1>2. clock' \in Nat \ {0}
  BY DEF AccessInv, AccessTypeOK, Advance, adminVars
<1>3. ConfigInv' /\ ClaimInv' /\ Running' = Running
  BY <1>1, LoadStays DEF AccessInv, ConfigInv, ConfigTypeOK, ClaimInv, configVars, Running
<1> QED
  BY <1>1, <1>2, <1>3 DEF AccessInv, AccessTypeOK, SignedInv, NonceInv

\* The secret unclaims the node, perhaps in memory only.
LEMMA ResetStep ==
    ASSUME AccessInv, ResetFails \/ \E n \in Nonces : Reset(n), UNCHANGED clock
    PROVE  AccessInv'
<1>1. /\ UNCHANGED <<clock, nonces, drawn, attempts, accepted, env>>
      /\ Running /\ env.adminAddress = Unset /\ claimants' = {}
      /\ SetAdminAddress(Unset) \/ SetAdminAddressThrows(Unset)
  BY DEF Reset, ResetFails, SetAdminAddress, SetAdminAddressThrows, WriteThrows
<1>2. Unset \in SettingValues
  BY DEF SettingValues
<1>3. ConfigInv' /\ Running'
  BY <1>1, <1>2, SetAdminAddressStep, ThrowsStep DEF AccessInv
<1> QED
  BY <1>1, <1>3 DEF AccessInv, AccessTypeOK, SignedInv, NonceInv, ClaimInv

\* A file that is written anew has three settings, and no administrator.
LEMMA NewFile ==
    ASSUME NEW key \in SettingValues, NEW secret \in SettingValues, NEW port \in SettingValues
    PROVE  LET f == [NoSettings EXCEPT !.gatewayKey = key, !.adminSecret = secret, !.port = port]
           IN  f \in [Fields -> SettingValues] /\ f.adminAddress = Unset
<1>1. NoSettings \in [Fields -> SettingValues] /\ NoSettings.adminAddress = Unset
  BY DEF NoSettings, SettingValues, Fields
<1> DEFINE f1 == [NoSettings EXCEPT !.gatewayKey = key]
           f2 == [f1 EXCEPT !.adminSecret = secret]
           f3 == [f2 EXCEPT !.port = port]
<1>2. f1 \in [Fields -> SettingValues] /\ f1.adminAddress = Unset
  BY <1>1 DEF Fields
<1> HIDE DEF f1
<1>3. f2 \in [Fields -> SettingValues] /\ f2.adminAddress = Unset
  BY <1>2 DEF Fields
<1> HIDE DEF f2
<1>4. f3 \in [Fields -> SettingValues] /\ f3.adminAddress = Unset
  BY <1>3 DEF Fields
<1> QED
  BY <1>4 DEF f1, f2

\* The settings and the wizard write the file, with no administrator or the one it has.
LEMMA SettingsStep ==
    ASSUME AccessInv, Settings, UNCHANGED clock
    PROVE  AccessInv'
<1> USE DEF AccessInv
<1>1. ASSUME ~WriteRefused
      PROVE  \E f \in [Fields -> SettingValues] :
                 Write(f) /\ Running /\ f.adminAddress \in {Unset, file.adminAddress}
  <2>0. /\ NoSettings \in [Fields -> SettingValues] /\ NoSettings.adminAddress = Unset
        /\ file \in [Fields -> SettingValues]
        /\ Keys \cup Secrets \cup {Unset} \subseteq SettingValues /\ 3000 \in SettingValues
    BY DEF NoSettings, SettingValues, Fields, ConfigInv, ConfigTypeOK
  <2>1. ASSUME SubmitConfig, Running
        PROVE  \E f \in [Fields -> SettingValues] :
                   Write(f) /\ f.adminAddress \in {Unset, file.adminAddress}
    <3>1. PICK secret \in {Unset} \cup Secrets : SaveConfig(memory.port, secret)
      BY <2>1 DEF SubmitConfig
    <3>2. memory.port \in SettingValues
      BY <2>1 DEF Running, ConfigInv, ConfigTypeOK, Fields
    <3>3. /\ Or(secret, file.adminSecret) \in SettingValues
          /\ Or(memory.port, file.port) \in SettingValues /\ file.gatewayKey \in SettingValues
      BY <2>0, <3>2 DEF Or, Fields
    <3> DEFINE f == [NoSettings EXCEPT !.gatewayKey = file.gatewayKey,
                                       !.adminSecret = Or(secret, file.adminSecret),
                                       !.port = Or(memory.port, file.port)]
    <3>4. f \in [Fields -> SettingValues] /\ f.adminAddress = Unset
      BY <3>3, NewFile
    <3>5. Write(f)
      BY <3>1 DEF SaveConfig
    <3> QED
      BY <3>4, <3>5
  <2>2. ASSUME NEW key \in Keys, SaveKey(key)
        PROVE  \E f \in [Fields -> SettingValues] :
                   Write(f) /\ f.adminAddress \in {Unset, file.adminAddress}
    <3> DEFINE f == [file EXCEPT !.gatewayKey = key]
    <3>1. f \in [Fields -> SettingValues] /\ f.adminAddress = file.adminAddress
      BY <2>0 DEF Fields
    <3>2. Write(f)
      BY <2>2 DEF SaveKey
    <3> QED
      BY <3>1, <3>2
  <2>3. ASSUME SubmitWizard
        PROVE  \E f \in [Fields -> SettingValues] :
                   Write(f) /\ f.adminAddress \in {Unset, file.adminAddress}
    <3>1. PICK choice \in KeyOrKeep, secret \in {Unset} \cup Secrets :
              Setup(choice[1], choice[2], Or(file.port, 3000), secret)
      BY <2>3 DEF SubmitWizard
    <3> DEFINE key == IF choice[2] THEN file.gatewayKey ELSE choice[1]
               kept == IF choice[2] THEN Or(secret, file.adminSecret) ELSE secret
               port == Or(file.port, 3000)
               f == [NoSettings EXCEPT !.gatewayKey = key, !.adminSecret = kept, !.port = port]
    <3>2. choice[1] \in Keys \cup {Unset}
      <4>1. CASE choice \in Keys \X {FALSE}
        BY <4>1
      <4>2. CASE choice = <<Unset, TRUE>>
        BY <4>2
      <4> QED
        BY <4>1, <4>2, Zenon DEF KeyOrKeep
    <3>3. key \in SettingValues /\ kept \in SettingValues /\ port \in SettingValues
      BY <2>0, <3>2 DEF Or, Fields
    <3>4. Write(f)
      BY <3>1 DEF Setup
    <3> HIDE DEF key, kept, port
    <3>5. f \in [Fields -> SettingValues] /\ f.adminAddress = Unset
      BY <3>3, NewFile
    <3> HIDE DEF f
    <3> QED
      BY <3>4, <3>5
  <2> QED
    BY <1>1, <2>1, <2>2, <2>3 DEF Settings, Authorized
<1>2. UNCHANGED <<clock, nonces, drawn, attempts, accepted, claimants>>
  BY DEF Settings
<1>3. /\ ConfigInv' /\ UNCHANGED <<env, memory>> /\ Running /\ Running'
      /\ file'.adminAddress \in {Unset, file.adminAddress}
  <2>1. CASE WriteRefused
    <3>1. Running
      BY DEF Settings, Authorized
    <3> QED
      BY <2>1, <3>1, ThrowsStep DEF WriteRefused
  <2>2. CASE ~WriteRefused
    BY <1>1, <2>2, WriteStep DEF Write, Running
  <2> QED
    BY <2>1, <2>2
<1>4. ClaimInv'
  BY <1>2, <1>3 DEF ClaimInv
<1> QED
  BY <1>2, <1>3, <1>4 DEF AccessTypeOK, SignedInv, NonceInv

\* A start reads the file, and has no attempts and no nonces.
LEMMA RestartStep ==
    ASSUME AccessInv, Restart, UNCHANGED clock
    PROVE  AccessInv'
<1> USE DEF AccessInv
<1>1. /\ UNCHANGED <<clock, env, file, drawn, accepted>> /\ memory' = Load /\ restartDue' = FALSE
      /\ unsaved' = 0 /\ nonces' = [n \in Nonces |-> 0] /\ attempts' = [r \in Attempts |-> NoAttempt]
      /\ claimants' = IF Load = Down \/ Setting("adminAddress") # Unset THEN claimants ELSE {}
  BY DEF Restart, Reload
<1>2. /\ Load \in [Fields -> SettingValues] \cup {Down}
      /\ Load # Down => Load.adminAddress = Setting("adminAddress")
  BY LoadType DEF ConfigInv, ConfigTypeOK
<1>3. ConfigInv'
  BY <1>1, <1>2, LoadStays DEF ConfigInv, ConfigTypeOK
<1>4. NoAttempt \in AttemptRows /\ NoAttempt.at = "none"
  BY DEF NoAttempt, AttemptRows, Bearer, SettingValues
<1>5. AccessTypeOK' /\ SignedInv' /\ NonceInv'
  BY <1>1, <1>4 DEF AccessTypeOK, SignedInv, NonceInv
<1>6. ClaimInv'
  BY <1>1, <1>2 DEF ClaimInv, Running, Setting
<1> QED
  BY <1>3, <1>5, <1>6

\* Every step of a request, a form or a stop keeps all of it.
LEMMA AccessStep == AccessInv /\ [AdminNext]_adminVars => AccessInv'
<1> SUFFICES ASSUME AccessInv, [AdminNext]_adminVars PROVE AccessInv'
  OBVIOUS
<1> QED
  BY PageStep, SignStep, CheckStep, FinishStep, RestStep, ResetStep, SettingsStep, RestartStep
  DEF AdminNext, AdminTick

\* All of it holds of every state, whatever messages overlap and whenever the node stops.
LEMMA AccessInvariant == AdminSpec => []AccessInv
BY AccessStart, AccessStep, PTL DEF AdminSpec

\* As long as every write succeeds, what the process works with is what the next start
\* loads, unless one is due: the setter of the administrator keeps memory and file
\* together, and every other write schedules a restart.
THEOREM MemoryIsLoaded == AdminSpec => []MemoryFollowsFile
<1>1. AccessInv => MemoryFollowsFile
  BY DEF AccessInv, ConfigInv, MemoryFollowsFile
<1> QED
  BY AccessInvariant, <1>1, PTL

\* However many messages with one nonce are checked at once, one at most is accepted.
THEOREM NoncesAreUsedOnce == AdminSpec => []NonceUsedOnce
<1>1. AccessInv => NonceUsedOnce
  BY DEF AccessInv, NonceInv, NonceUsedOnce
<1> QED
  BY AccessInvariant, <1>1, PTL

\* The claimants are none or one.
LEMMA ClaimantOf == AccessInv => OneClaimant
<1>1. CASE claimants = {}
  BY <1>1, FS_EmptySet DEF OneClaimant
<1>2. ASSUME NEW a, claimants = {a} PROVE Cardinality(claimants) = 1
  BY <1>2, FS_Singleton
<1> QED
  BY <1>1, <1>2 DEF AccessInv, ClaimInv, OneClaimant

\* One wallet at most is told that it claimed the node, and it is the administrator.
THEOREM OneWalletClaims == AdminSpec => []OneClaimant
BY AccessInvariant, ClaimantOf, PTL
=============================================================================
