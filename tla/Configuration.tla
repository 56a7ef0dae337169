---------------------------- MODULE Configuration ----------------------------
(***************************************************************************)
(* config.ts, and what rewrites config.json: the setup wizard and the      *)
(* settings of the dashboard.  A setting comes from the environment, which *)
(* never changes, or else from the file; getConfig() keeps what was loaded *)
(* at the start, and the writers restart the process half a second later.  *)
(*                                                                         *)
(* Of the settings that a page shows, port stands for all, as namespace,   *)
(* peers and nodeUrl are written like it; of those that no page shows,     *)
(* nodeType, as networkKey, disableAdmin, cdnProvider and the like are.    *)
(* ingestSecret is TSEI_PROFILE_A_INGEST_SECRET, of the environment only.  *)
(***************************************************************************)
EXTENDS NodeClock

CONSTANTS
    Unset,
    Down,           \* the process that could not start
    Keys, Secrets, Accounts,
    MaxUnsaved,     \* bound on the writes that fail between two starts
    Environments    \* the environments a process may have, as settings

Fields == {"gatewayKey", "adminSecret", "adminAddress", "port", "nodeType", "ingestSecret"}

SettingValues == {Unset} \cup Keys \cup Secrets \cup Accounts \cup Nat

ASSUME ConfigurationAssumption ==
    /\ Unset \notin Keys \cup Secrets \cup Accounts
    /\ Environments \subseteq [Fields -> SettingValues]
    /\ Down \notin [Fields -> SettingValues]
    /\ MaxUnsaved \in Nat

VARIABLES
    env,
    file,           \* config.json
    memory,         \* the singleton, or Down
    restartDue,     \* a restart is scheduled
    unsaved         \* history: how many writes since the start failed and left the
                    \* file behind the memory

configVars == <<env, file, memory, restartDue, unsaved>>

NoSettings == [x \in Fields |-> Unset]

Setting(x) == IF env[x] # Unset THEN env[x] ELSE file[x]

\* Number('') is 0, and so is the 0 of NODE_TYPE=0, which || turns into 1.
LoadedPort == IF Setting("port") = Unset THEN 0 ELSE Setting("port")

LoadedType == IF Setting("nodeType") \in {Unset, 0} THEN 1 ELSE Setting("nodeType")

Ports == 1..65535

\* The checks that throw.
Loads ==
    /\ LoadedPort \in Ports
    /\ Setting("ingestSecret") = Unset \/ Setting("ingestSecret") # Setting("adminSecret")

Load ==
    IF ~Loads THEN Down ELSE
    [[x \in Fields |-> Setting(x)] EXCEPT !.port = LoadedPort, !.nodeType = LoadedType]

ConfigInit ==
    /\ env \in Environments
    /\ file = NoSettings
    /\ memory = Load
    /\ restartDue = FALSE
    /\ unsaved = 0

Running == memory # Down

\* restartProcess, or a stop of any kind and the start after it.
Reload ==
    /\ memory' = Load
    /\ restartDue' = FALSE
    /\ unsaved' = 0
    /\ UNCHANGED <<env, file>>

-----------------------------------------------------------------------------
\* Mutant: only the singleton is updated.
SetAdminAddressInMemory(a) ==
    /\ memory' = IF env.adminAddress # Unset THEN memory ELSE [memory EXCEPT !.adminAddress = a]
    /\ UNCHANGED <<env, file, restartDue, unsaved>>

\* A writeFileSync that throws leaves the file as it was, or cut short, which does
\* not parse and is read as one with no settings.
WriteThrows(f) ==
    /\ unsaved < MaxUnsaved
    /\ file' = f
    /\ unsaved' = unsaved + 1
    /\ UNCHANGED <<env, restartDue>>

\* setAdminAddress, and clearAdminAddress with Unset: neither does anything when the
\* environment names the administrator; the rest of the file is kept.
SetAdminAddress(a) ==
    /\ IF env.adminAddress # Unset THEN UNCHANGED <<file, memory>> ELSE
         /\ memory' = [memory EXCEPT !.adminAddress = a]
         /\ file' = [file EXCEPT !.adminAddress = a]
    /\ UNCHANGED <<env, restartDue, unsaved>>

\* The singleton comes first, and nothing takes it back when the write throws.
SetAdminAddressThrows(a) ==
    /\ env.adminAddress = Unset
    /\ memory' = [memory EXCEPT !.adminAddress = a]
    /\ WriteThrows(file) \/ WriteThrows(NoSettings)

Or(x, y) == IF x # Unset THEN x ELSE y

Write(f) == file' = f /\ restartDue' = TRUE /\ UNCHANGED <<env, memory, unsaved>>

\* The other writers catch the error, answer with it and schedule no restart: there
\* is a change only if the file was cut short.
WriteRefused == WriteThrows(NoSettings) /\ UNCHANGED memory

\* POST /admin/api/config: what the form leaves empty is kept, and what it does not
\* know is not.
SaveConfig(port, secret) ==
    Write([NoSettings EXCEPT !.gatewayKey = file.gatewayKey,
                             !.adminSecret = Or(secret, file.adminSecret),
                             !.port = Or(port, file.port)])

\* Mutant: the key is written and the process goes on.
SaveKeyOnly(key) ==
    /\ file' = [file EXCEPT !.gatewayKey = key]
    /\ UNCHANGED <<env, memory, restartDue, unsaved>>

\* POST /admin/api/key.
SaveKey(key) == Write([file EXCEPT !.gatewayKey = key])

\* POST /setup: a key given, or the one in the file, whose secret is then kept too.
Setup(key, keep, port, secret) ==
    LET written == IF keep THEN file.gatewayKey ELSE key IN
    /\ written # Unset
    /\ Write([NoSettings EXCEPT
                  !.gatewayKey = written,
                  !.adminSecret = IF keep THEN Or(secret, file.adminSecret) ELSE secret,
                  !.port = port])

\* The wizard offers to keep the key only when /setup/current-config finds one.
KeepOffered == file.gatewayKey # Unset

\* A key that was generated or imported, or none when the old one is kept.
KeyOrKeep == (Keys \X {FALSE}) \cup (IF KeepOffered THEN {<<Unset, TRUE>>} ELSE {})

\* What the wizard saves; it shows the port in the file.
SubmitWizard ==
    \E choice \in KeyOrKeep, secret \in {Unset} \cup Secrets :
        Setup(choice[1], choice[2], Or(file.port, 3000), secret)

\* The form of the dashboard shows what is in memory, whichever source that had.
SubmitConfig ==
    \E secret \in {Unset} \cup Secrets : SaveConfig(memory.port, secret)

-----------------------------------------------------------------------------
\* What the process works with is what the next start would load, unless a restart
\* is on its way or the file could not be written: as long as every write succeeds
\* no wallet is the administrator only until the process stops, none that was
\* replaced comes back, and no other setting waits for a restart that is not due.
MemoryFollowsFile == Running /\ ~restartDue /\ unsaved = 0 => memory = Load

\* A signing key that is saved is eventually the one in use, unless the environment
\* has another, it is replaced in the file, or the node no longer starts.
SavedKeyUsed ==
    \A k \in Keys :
        (file.gatewayKey = k /\ env.gatewayKey = Unset)
            ~> (~Running \/ memory.gatewayKey = k \/ file.gatewayKey # k)
=============================================================================
