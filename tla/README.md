# ccip-router: models, checks and proofs

These TLA+ modules model the parts of ccip-router in which steps of several
actors meet: the settlement contracts, and of a node its router, its store, its sync,
its snapshots, its administration, its messages and what it puts on chain.
`PROJECT.json` lists every run, the lines each definition stands for, the hazards
of the code and the properties that watch them, and the theorems.

## The system

| Part | State it keeps | Operations | Talks to |
| --- | --- | --- | --- |
| Registry, `contracts/NodeRegistryV2.sol` | node type by signer, list of signers | `register`, `getNodeType`, `getNodes` | read by the settler |
| Settler, `contracts/CommitRevealSettlerV2.sol` | commit record, root and challenges by period and node; the bonds it holds | `submitCommit`, `submitReveal`, `slashUnrevealed`, `challenge`, `claimBond` | pays nodes and `slashRecipient` |
| Escrow, `contracts/EscrowV1.sol` | orders, nonces, arbitrators, slash pool; the payments it holds | `createOrder`, `confirmOrder`, `disputeOrder`, `resolveDispute`, `refundExpiredOrder`, `setArbitrator`, `receive` | pays clients and agents, is the usual `slashRecipient` |
| First contracts, `CommitRevealSettler`, `GenericCommitRevealSettler`, `NodeRegistry` | commitments, reveals, challenges; urls by signer | commit, reveal, challenge, register | fed by the freeze and the join requests |
| Record store, `src/db/sqlite.ts`, `src/db/schema.ts` | tables `records` and `attestations` | `insertRecord`, backfill at start, `getRecordState`, `getRecordsSince`, migrations | written by the router and by the sync, served by `GET /records` |
| Mesh sync, `src/mesh/sync.ts`, `cron.ts`, `records.ts`, `vni.ts` | `peers` (watermark, health, pinned signer), `peer_blocklist` | tick or "sync now", pull of two namespaces page by page, VNI and health, discovery, write-back | fetches from peers, inserts into the store |
| Messages, `src/mesh/messages.ts` | table `messages`, times of receipt by signer | receive, broadcast | accepts from pinned signers of peers only |
| Snapshot freeze, `src/index.ts` | `snapshots` | freeze (first one wins), read | counts records; its hash is what a node commits to the settler |
| Admin access, `src/ui/admin.ts`, `auth.ts`, `siwe.ts` | nonces, sessions, the administrator's address | sign-in, claim, transfer, reset, logout | the address is in the configuration |
| Configuration, `src/config.ts`, `src/ui/setup.ts` | environment, `config.json`, the singleton in memory | load, setup wizard, settings, key rotation, restart | read by everything |
| Join requests, `src/index.ts`, `src/ui/admin.ts` | `join_requests` | request, show, approve through the wallet, decline | `NodeRegistry.register` |
| TSEI Profile A gateway, `src/integrations/` | times of admitted requests | observe, query | signs and inserts into the store |
| Anchoring, `src/chain/publish.ts`, `contracts/AttestationIndex.sol` | signer by commitment, commitment by input | publish a batch, check on chain, `record` | reads `ns:wyriwe` |
| Router and WYRIWE, `src/router/`, `src/attestation/`, `src/ens/`, `src/verify/` | the key and the agent it was started with; `ens_records` | resolve a request, attest and store the receipt, answer, write the record without waiting; edit a name; `/verify`, `/ocp` | inserts into the store and reads it |

What is hard here: calls of strangers to the contracts in any order and at the very
second of a deadline, with a callee that calls back in the middle of a split; a
process that stops, or a call that throws, between two statements of an insert, of a
migration or of a change of the configuration; handlers
that await between what they read and what they write, with others in between;
fetches and posts that take seconds and may be answered after their timeout; and a
configuration that lives in four places (environment, file, memory, open page).

What makes the parts correct: a bond leaves the settler once and to the right
account, and the settler can always pay it; the escrow holds what it owes plus the slash
pool, whoever is paid in whatever order; no value and no attestation of an input is lost or counted
twice; a pull that completes has everything the peer served; a sync and a broadcast
end; a removed peer stays removed; a pin is a key of its peer; all who ask for the
freeze of a period get one and the same hash, and only that hash can be revealed; a
nonce opens one session and an unclaimed node has one claimant; what the process
works with is what the next start loads; a limit holds for every span of its length;
what is reported as anchored is anchored; who is answered has a receipt in the store
that says what was answered, and what is stored of an answer stays and is shown.

## Modules

| Module | Models | How it maps |
| --- | --- | --- |
| `Chain` | clock, balances and transfers (external) | a call that reverts is an action that is not enabled |
| `NodeRegistryV2` | the registry | `nodeType`, `signers` are `_nodes[..].nodeType` and `_signers` |
| `CommitRevealSettlerV2` | the settler | one action per call, `submitReveal` two: `RevealMatch` and `RevealMismatch` |
| `EscrowV1` | the escrow | one action per call; `resolveDispute` is `ResolveFull`, or `ResolveSplit` then `FinishSplit` |
| `BondVault` | what a holder of bonds promises (abstract) | |
| `GenericCommitRevealSettler` | the generic settler, and the abstract specification of the one with bonds | one action per call |
| `Settlement` | the three V2 contracts on one chain | a slash runs the escrow's `receive` when the escrow is the recipient; refines `BondVault` and `GenericCommitRevealSettler` |
| `RecordRows` | rows and SQL statements of the store as operators on sets | shared by the next two |
| `RecordStore` | `insertRecord` across crashes and errors, backfill | its two inserts are two steps, each of which may throw; both its tables refine `WriteOnce` |
| `MeshSync` | syncs, the peer list, the administrator, restarts | a fetch and what follows it up to the next is one step; its table refines `WriteOnce` |
| `Messages` | the messages of all nodes of a mesh | a post is sent, received any number of times, answered or given up |
| `Mesh` | `MeshSync` and `Messages` | one of them is followed in each behaviour |
| `WriteOnce` | what a table promises whose rows are inserted and never changed (abstract) | |
| `NodeClock` | `Date.now()` of one process | shared by the modules that have timeouts |
| `CommitRevealSettler` | the first settler | operators used by `SnapshotFreeze` |
| `SnapshotFreeze` | the freeze and the settlement of its hash | one step for each stretch of the handler between two awaits; the frozen rows with the replies refine `WriteOnce` |
| `Configuration` | what is loaded, and the writers of `config.json` | a writer schedules a restart, `Reload` is the restart; `SetAdminAddressThrows` and `WriteRefused` are writes that fail |
| `AdminAccess` | sign-in, claim, transfer, reset, sessions | a handler is cut where it awaits the signature: `Check`, then `Claim`, `Login`, `Transfer` or `Refuse` |
| `TseiProfileA` | the gateway for receipts | `Admit`, `StoreObservation`, then one step for each read of the answer |
| `JoinRequests` | requests, the dashboard, the wallet, `NodeRegistry` | the browser's function is cut where it waits for the wallet and the server |
| `Anchoring` | publishing and checking, `AttestationIndex` | a task checks, sends, and is mined, reverted or lost |
| `Migrations` | the migrations of the database | one step for each SQL statement |
| `Router` | requests from calldata to receipt and record, the ENS table, `/verify` and `/ocp` | one step for each stretch between two awaits: `Ask`, `Commit`, `StoreReceipt`, `Respond`, `WriteRecord`; `Insert` is `insertRecord` |
| `Node` | all components of a node but its part in the mesh and its router | one of them is followed in each behaviour |
| `MCSettlement`, `MCRecordStore`, `MCMeshSync`, `MCMesh`, `MCNode`, `MCRouter` | small instances | |
| `SettlementProofs` | theorems about `Settlement` | |
| `DatabaseProofs` | theorems about `RecordStore`, `Migrations` and `Router` | |
| `SnapshotProofs` | theorems about `SnapshotFreeze` | |
| `AdminProofs` | theorems about `AdminAccess` and its `Configuration` | |
| `DashboardProofs` | theorems about `JoinRequests` and `Anchoring` | |
| `WindowProofs` | theorems about `TseiProfileA` and `Messages` | |
| `MeshProofs` | theorems about `MeshSync`, and about `Mesh` | |
| `NodeProofs` | theorems about `Node` | |

`Node` and `Mesh` compose components that share the clock of the process and nothing
else that is modelled: what one reads of another is a choice in it. `SnapshotFreeze`,
for instance, lets records arrive and pins change at any time, as `Messages` lets peers
become known. Steps of two components therefore commute and no property speaks of two,
so `Node` and `Mesh` pick one component (`focus`, `followed`) in the initial state and
let the others rest: what is explored is the sum of their state spaces and not the
product, and nothing that a property could see is lost. Where components do share
state they are composed in one module with all interleavings: the three contracts in
`Settlement`, the freeze with its settler, the sessions with the configuration, the
requests with their registry, the batches with their index, the requests to the router
with the two tables. The router is not in `Node`: it inserts by the operators of
`RecordRows` whole rows, as one of the writers that `RecordStore` takes records from, and
has tables of its own (`kept`, `retained`).

Operators named after a definition with a suffix and a comment beginning "Mutant"
are plausible bugs in it; `PROJECT.json` says which property each one breaks.

### Abstractions

* Contracts. `keccak256` is injective, so a commitment hash is the record of root,
  period and node, and an order id is the client with its nonce. Every function writes
  its state before its native transfer and nothing after it, so a callee that calls
  back adds later actions and no new intermediate state. The one exception is the
  split of `resolveDispute`, which pays two parties: there `splits` holds the orders
  between the two transfers, anything may be called, and the clock stands still. An id
  never created reads as `EmptyOrder`, whose status is `Pending` and deadline 0, and may
  be "refunded"; the code allows it and the model too. The agent of an order is any
  account but 0 and the client, as `createOrder` has it: an order of the escrow with
  itself is paid by the escrow to itself, which in native coin runs its `receive`. Anybody
  (`Donors`) may send either token to the escrow outside an order. A signature of `register` covers
  the URL only, so any type may be registered. Whoever pays can be refused: `Accepting`
  are the users whose `receive` takes ether. The slash pool is never paid out, and a
  challenge never blocks a claim: both are left to a later version by the code. A wrong
  reveal reverts in the first and in the generic settler and slashes in the second.
* Store. A signature is who signed, with its s low or high, and a `form`: the nonce it was
  made with and the spelling of r (either case) and v (0/1 or 27/28), all of which
  `canonicalizeSignature` leaves as they are, and so tells apart; `0x` is `Unsigned`. A
  record may lack its key, as on the wire. `insertRecord` may throw before its first
  statement or between it and the second, for whatever reason: which values the encoder
  of an unsigned identity refuses is not modelled. `Legacy` are the rows a
  database from before the attestations table may hold.
* Router. The input hash of a request is its calldata, which is a name with type and key
  (`Lookups`) or anything else; the zero values of the record types and `0x` are
  `NoEntry`. A receipt holds the answer and its second, as all else in it is the same for
  the whole process. An insert may fail in either statement or in both; a stop between
  the two is in `RecordStore`. Rows of peers come with their signature or none.
* Migrations. Only `records` and `records_legacy` have contents. Statements that are
  harmless when repeated (`CREATE .. IF NOT EXISTS`) are one, "ensure".
* Sync. Peers are external: their stores grow, their keys change, any fetch may fail.
  One clock serves all nodes. A page is any set the query may return, ties in its order
  included. A fetch that fails may also be an insert that throws in the middle of a page:
  the rows before it stay (`Interrupted`). A signature of a `wyriwe` record, which is of
  another kind than the one the sync recovers, gives an address of its own that nobody has
  the key of (`Strangers`); other malformed signatures are left out.
  The list of `/peers` and the look at each of its URLs are one step with the
  write-back, and a listed URL comes with its right signer or none. Records written
  locally are not in `MeshSync`.
* Messages. Payload, type and the "official" flag are left out; a message is its
  broadcast. Whoever has seen one may post it again at any time.
* Freeze. A snapshot root is the table of its rows with their timestamp: how often each
  contributor and score occurs. Scores are counts of records by origin. `EpochCloses`
  are given less `FREEZE_BUFFER`.
* Configuration. `port` stands for the settings that the pages write back, `nodeType`
  for those they do not know. The environment never changes, the file is only changed by
  the program, and a scheduled restart may be overtaken by any other stop. A
  `writeFileSync` that throws leaves the file as it was or cut short, which no longer
  parses and is read as a file with no settings; `unsaved` counts these since the start.
  `setAdminAddress` has changed the memory by then, and the process goes on.
* Access. A nonce names the session it opened. An attempt begins with a page, as it
  decides by what it saw when it was loaded; a message may arrive twice. A session in
  the browser is lost by a restart with all attempts.
* Join requests. The administrator approves one request at a time: the dashboard waits
  for the wallet in one function, and the wallet asks for one confirmation after the
  other. Rows change under it.
* TSEI. One instance is followed: rows of another never enter an answer, and the window
  is shared by all. A body is a receipt or is refused.
* Anchoring. A row of the store has a valid attestation; what makes a transaction fail
  is a choice, but for "already recorded". TruthAnchor is left out.

## Runs

| Run | Bounds | Shows |
| --- | --- | --- |
| `settlement_bonds` | 2 nodes, 2 periods, 1 root, both windows of 1 second, 4 seconds, 1 challenge per reveal, wealth for one bond at a time | bonds leave once, to the right account (`BondsGoHome`, `ImplementsBondVault`), are always covered (`SettlerBacked`); roots belong to node and period (`RootsBound`); windows partition the time (`WindowsPartition`); the signer list has each signer once and its pages all of it |
| `settlement_orders` | 1 client, 2 orders, 2 tokens, agents a user and the escrow, amounts 1 and 3, donations of one user, wealth of 3, 3 seconds, 1 bond with windows of 0, 1 challenge | the escrow has at least what it owes in each token (`EscrowBacked`), slashes reach the pool (`SlashesPooled`), money leaves to the parties of the settled order only (`PaysPartiesOnly`), settled orders stay (`SettledOrdersStay`), the settler with bonds is a generic settler (`ImplementsGeneric`) |
| `mesh_sync` | 2 peers, pages of 1, 3 rows, 2 seconds, 1 sync at a time, 1 edit, 1 restart, 1 key change; 2 nodes that post 2 messages, a limit of 1 in 2 units, stale after 1, 3 units | `WalkComplete`, `DiscoveryRespectsBlock`, `SyncEnds`; `HourlyLimit`, `SentWereStored`, `BroadcastEnds` |
| `node`, records | 1 hash, 2 values, 2 signers, 2 peers, 7 records (one message twice with another s and once with another nonce), 1 row from before the attestations, 1 crash, 1 error | `DivergenceKept`, `CorroborationExact`, no row twice, changed or dropped (`ImplementsTables`), at most one observation without attestation for each crash and each error (`AttestationsFollow`) |
| `node`, migrations | 2 old rows, databases of version 0 to 6, 3 stops | no stop and no later start loses a row (`RowsSurvive`) |
| `node`, snapshot | 2 requests at a time, 2 cutoffs, 1 period, 1 record of each of 2 origins, 1 change of a pin, 3 units | a period is frozen in one step and every answer is the row of that step (`ImplementsFrozenTable`), not before its cutoff (`FrozenAfterCutoff`), with every record counted under its address (`RowsCoverRecords`), revealed as frozen (`SettledIsFrozen`) |
| `node`, admin | 2 environments, 2 wallets, 2 attempts, 2 nonces, 1 key, 1 secret, 1 failed write between two starts | `NonceUsedOnce`, `OneClaimant`, `MemoryFollowsFile`, and under fairness `SavedKeyUsed` |
| `node`, tsei | 2 receipts, 2 signers, 2 requests, 1 attempt in 2 units, 3 units | `SlidingWindow`, `AnswerComplete` |
| `node`, join | 2 applicants, 2 urls | `ApprovedWasSent` |
| `node`, anchor | 3 attestations: 2 of one commitment, 2 commitments of one input; 2 batches | `ReportedAnchored`, `ProofStays` |
| `router` | 2 requests, 1 name of 2 values or none and 1 calldata that is no name, 2 keys or none, 1 row of a peer, 2 seconds, any number of edits, stops and new keys | `ReceiptFirst`, `ReceiptsTrue`, `AnswersShown` |
| `mesh_key_omitted` | as `mesh_sync`, no edits or restarts | finding: records of peers running this code are never stored |
| `mesh_removed_peer` | one edit | finding: a running sync writes a removed peer back |
| `mesh_pin` | a relayed record | finding: a pin may be another node's key |
| `mesh_watermark` | no edits or restarts | finding: records dated before the end of a sync may be skipped for ever |
| `record_double_sign` | as the records of `node` | finding: a double-sign is told by the transport, not by the signer |
| `admin_persists` | as the admin part of `node` | finding: saving the settings unclaims the node |
| `migrations_stop` | as the migrations of `node` | finding: one stop may block every later start |

Why the bounds are enough to be of use: two nodes and two periods are what a mix-up of
one bond with another needs, and time runs past both deadlines of a bond and over the
second of each. Symmetry is over the two nodes and the two periods, and in `router` over
the two keys and the two requests: no constant names one of them. The amounts 1 and 3
are the one whose half is zero and one with an odd unit; two
orders are what paying one with the other needs, in a wealth that pays for one amount of 3
or three of 1. One crash and one error are what tells the two apart in the bound on
what is missing; one failed write leaves memory and file apart until the next start, and
a second one finds them so. Pages of one row make every boundary of
a page a case, with two rows in one second at it. Two requests, attempts, batches or
applicants are what a race needs, and every race here is of two; two values of a name, or
two keys, are what telling an answer from a later one needs. A limit of one makes
every second message the one too many; the clock runs one unit past the window and past
the time to live of a nonce, which is the unit of its creation. Three stops are one more
than it takes to stop a migration, stop its repetition, and start. Every run stops at its
bound of time or crashes, so deadlock is not checked: the contracts and the nodes wait
for callers. (In `router`, where names can always be edited, it is.)

`EscrowBacked` counts units owed, one element of a set for each unit, so that it compares
cardinalities and not a recursive sum. It is a lower bound, as `SlashesPooled` is: what
is sent to the escrow outside an order and what the escrow pays itself in a token stay
in it, owed to nobody.

### Fairness

* `MeshSync`: weak fairness of each fetch that succeeds (`PullBase`, `PullWyriwe`,
  `Finish`), for each sync. A fetch ends by itself or by `AbortSignal.timeout`, and the
  chain of promises then goes on. Failing is never required, and neither are ticks, peers
  or the administrator. Fairness is given step by step and not to their disjunction, so
  that a walk that asks for one page again and again would be a counterexample.
* `Messages`: a post that is not answered is given up, by `AbortSignal.timeout(8_000)`.
  No peer has to answer.
* `AdminAccess`: the timer that a save sets fires and restarts the process. Nothing asks
  anybody to sign in or save.
* `Migrations` (its own run only): the process is started again, and a migration that
  is not stopped goes on. Stops are bounded.

### Premises of the sync properties

`WalkComplete` speaks of peers that send keys, of rows there when the sync began, that
the pin accepts, and that tie with no other row in timestamp and hash: the cursor does
not hold the value, so two values of one input in one second may be parted by a page
boundary and the second one missed. `RecordsArrive` drops the first premise and fails.

## Findings

Each has a run and is quoted in `PROJECT.json`: keys left out of the wire format and
then required by the insert; a removed peer written back by a running sync; a pin taken
from a relayed record; a watermark that passes records; a double-sign flag that looks at
the transport; an administrator that a save of the settings forgets; a migration that
cannot be resumed.

Met on the way and not run:

* A pinned peer's `wyriwe` records are always rejected, because the sync recovers another
  kind of signature than theirs (README.md:308 says they are synced). A start resets pins
  and watermarks of the configured peers and brings blocked ones back.
* `isConfigured()` reads `config.json` anew, so the routes open as soon as the wizard has
  saved the first key, while the router was made without one and is replaced only by the
  restart half a second later: what is asked in between is recorded unsigned, and
  `INSERT OR IGNORE` keeps that row in `records` when the same is answered, signed, later.
  `Router` has these behaviours (`RespondUnsigned`).
* Without `PORT` the process does not start, as `parsePort` reads an empty text as 0
  (README.md:417 has 3000 as the default), and `NODE_TYPE=0` is loaded as 1. Both are in
  `LoadedPort` and `LoadedType`.
* The wizard says "Leave blank to keep the existing admin secret", which holds only when
  the key is kept too. Saving the settings also drops what the form does not know
  (`networkKey`, `disableAdmin`, the CDN, `nodeType`) and writes to the file what came from
  the environment. An `ADMIN_SECRET` equal to the ingest secret is accepted by the form and
  the node does not start again. With `ADMIN_ADDRESS` in the environment a transfer is
  answered with ok and changes nothing.
* The first freeze without `epochClose` freezes at once; a request that ends with 503
  leaves its pending row. Its rows are not kept, so that a reveal has to count again and
  fits only if nothing arrived since: that the hash is of all records, and that it alone
  can be revealed, is all there is.
* `createOrder` accepts the escrow itself as the agent. Confirmed or resolved for the
  agent, such an order in a token stays in the contract, with nobody to claim it; in native
  coin it is counted as a slash (`receive`), and the agent's half of a split likewise.
* The identity of an attestation is the text of its signature but for s: one record,
  signed again by its signer with another nonce, or sent with the hex of r in the other
  case or with v as 0/1 for 27/28, is a further attestation. What a quorum counts has to be
  signers recovered from the rows and not rows, as the comment at `isSignedAttestation`
  (src/src/db/sqlite.ts) leaves to a companion profile.
* `insertRecord` may throw when the records row is committed already: the identity of an
  unsigned record is made after it, by an encoder that refuses some texts. Such a record is
  in `records` without an attestation, and throws again whenever it is delivered; in a
  database from before the attestations the backfill throws on it and the process does
  not start.
* A claim, transfer or reset whose write of `config.json` throws is answered with an error
  and yet changes the administrator in memory, until the next start: the write comes
  after the assignment (src/src/config.ts:322-327). A `config.json` that was cut short by
  such a write, or by a stop, is read as an empty one without a word.
* A batch reports as published what it sent, also what is then lost or reverts, and only the newest 50 rows are ever sent.
* An approval is of a signer, not of a url: the row may have another by then, and the
  answer to the approval is not looked at.

## Proofs

Eight modules prove, for all values of the constants that the named assumptions
allow, what the passing runs show on small instances. All safety invariants, action
properties and refinements of these runs are proved; only their three liveness
properties are not. The type invariants of the store and of the mesh,
`ChallengesInPeriod`, `ImplementsReplica` and `StoredWereServed` of the sync, and
`RepliesAgree`, which is the refinement of the freeze seen from outside, have theorems
and no run. The specifications they are proved of have
the bounds that keep TLC finite (`MaxTime`, `MaxOrders`, ...) as constants of any value.

### What is assumed

The assumptions are on constants and named in the module that declares them; every
run evaluates them. `ChainAssumption`, `SettlerAssumption`, `EscrowAssumption`: users,
periods and amounts are finite sets (the balances are sums over them), amounts and the
bond are positive, the three special addresses are nobody's, time begins before its
bound. `RowsAssumption`: hashes and timestamps are integers, as pages are ordered by
them. `MeshAssumption`: peers serve rows, the key for "none" is no key, pages have at
least one row, the clock reaches 1. `StoreAssumption`, `MigrationsAssumption`,
`ConfigurationAssumption`, `AccessAssumption`, `JoinAssumption`, `AnchoringAssumption`,
`MessagesAssumption`, `SnapshotAssumption`, `TseiAssumption`, `RouterAssumption`: values
for "nothing" differ
from all others, origins are finite, limits and bounds (`MaxRecords` too) are natural numbers. None bounds
a number of actors: nodes, peers, wallets, requests, batches, attempts and concurrent
syncs are any sets, finite ones where something is summed over them.

### Settlement (`SettlementProofs`)

* `TypeCorrect`: one lemma per group of calls on top of `PaidType`: a payment that
  `CanPay` allows leaves every balance a natural number. This is where "never below
  zero" is shown.
* `RecordsCorrect`: the invariants of the settler are not inductive alone. `RecordInv`
  says of each commit record how it relates to its root, its challenges and the clock:
  it was not revealed before it was committed, nor in the future; its root is the
  committed one, and is there, like any challenge, only once it is revealed; each
  challenge is dated inside the challenge period, and a revealed record whose bond is
  gone is past that period. That last part is what tells a claim from a slash.
  `RootsAreBound`, `ChallengesAreTimely`, `WindowsArePartition` follow from it.
* `RefinesBondVault`: every step is a move of one bond with its money, or changes
  neither (`VaultStep`); the escrow's calls never touch the settler's balance, and
  records are only left in the phases they may be left in, which again is `RecordInv`.
* `SettlerIsBacked`, `SlashesArePooled`, `BondsComeHome`: by counting the bonds held
  before and after a move (`CountMove`), and from `PoolOnlyGrows`.
* `EscrowOrdersCorrect`: `EscrowInv`. The ids below a client's nonce are orders of that
  client with another account as agent, which may be the escrow, an order is between the two halves of a split only
  while it is resolved, and ids that were never created are empty or "refunded". Without
  it a new order could overwrite one that is owed, and a split could pay twice.
* `EscrowIsBacked`, which is "at least": money owed is counted in units (`Units`), so that a sum over any
  finite number of orders is the cardinality of a set; each step changes the due of one
  order by what it takes in or pays out, and the pool by a slash or a donation
  (`OutsideEscrow`, `DuesCounted`); a payment of the escrow to itself settles a due and
  leaves the balance and, in native coin, adds to the pool what it took off the dues
  (`PaidToSelf`).
* `PartiesArePaid`, `SettledStays`: from the same lemmas about what each call settles. The
  parties gain together what the order owed, of which the escrow as agent gains 0.
* `SignersAreListedOnce`: the list has every signer with a type, once.
* `PagesAreTheList`: whoever reads the list in pages reads all of it in its order. Each
  page is the stretch of the list it should be (`PageHolds`), and each position of the
  list is on one page (`PositionOnPage`, the quotient of a division). Stated of
  positions, and not as the pages put together, it needs no induction over the pages.
* `RefinesGeneric`: a step of the settler with bonds is a step of the plain one, or a
  stutter, under the mapping that reads the root out of its own table (`PlainCommits`);
  a slash of a wrong reveal and every movement of money is a stutter.

### Database (`DatabaseProofs`)

* `StoreInv` for `RecordStore`: one row for each observation; what is delivered, being
  written or attested has its row; one attestation for each identity, which is the message
  in one form of its signature (`IdentityIsMessage`); and the observations without one, but
  for the insert that runs, are at most as many as there were crashes and errors. The last must count them also while the node is down, where the property
  (`AttestationsFollow`) says nothing. `DivergenceIsKept`, `CorroborationIsExact` and
  `AttestationsFollowRecords` follow.
* `RefinesWriteOnce`: both tables of the store implement `WriteOnce`, one row of each
  signed message and of each observation. A delivery, a replay, a stop between the two
  inserts and a backfill are inserts under new keys, or stutter (`TablesStep`); that the
  keys are new is what `INSERT OR IGNORE` looks up, and the backfill, which inserts
  several rows at once, chooses one for each key.
* `MigrationsInv` for `Migrations`: `RowsAt` says, for each statement that may be next
  after each recorded version, which of the two tables has the rows. In version 6 this
  depends on the statement, and a stop goes back to its first one: `RowsSurviveStops`.
* `RouterInv` for `Router`, any number of requests: `InStage` says how far a request is
  (who attests has a key, no answer before its receipt is settled, no second ahead of the
  clock), `HeldIn` what of it is in the tables, which only grow (`TablesGrow`), and
  `OwnReceipts` that every attestation of this node is the receipt of a request that
  stored it. None of the three is inductive alone: that a stored receipt is shown as
  verified needs that it was signed, which is part of how far its request was; and that
  receipts are true needs that no request changes what its receipt says
  (`StoredStays`) and that no other step makes one (`NewReceipt`), which is why the rows
  of peers must name their peer (`RouterAssumption`: `sourcePeer ?? peerUrl` in
  `src/mesh/sync.ts`). Hence `ReceiptsComeFirst`, `ReceiptsAreTrue`, `AnswersStayShown`.

### Node (`SnapshotProofs`, `AdminProofs`, `DashboardProofs`, `WindowProofs`, `NodeProofs`)

* `FreezeInv`: a request beyond its first step has a row, pending or frozen, and began
  after the cutoff of that row although its own was another; what was replied is the
  row; what is committed to the settler is the hash of the row by this node. Hence
  `OneSnapshot`, `NeverFrozenEarly`, `RevealedIsFrozen`.
* `FreezeIsAtomic`: the frozen rows with the replies sent implement `WriteOnce`, one row
  of each period. A freeze that was cut in four by its awaits, with others in between
  and restarts, is one step at the update that wins; who loses answers with the row of
  the winner (`RegisterStep`, from `FreezeInv` before and after the step).
* `EveryRecordIsCounted`: the rows of a kind are numbered as the origins they are made of
  (`OriginsOfCount`), so that each record a row stands for is one of the store and the
  other way around: a bijection (`CountedAreStored`) instead of a sum, which would need
  induction.
* `AccessInv`: memory is what the file and the environment load unless a restart is due or
  a write failed since the start;
  a nonce goes one way from drawn to taken to accepted, and of the attempts that check a
  signature no two have the same; whoever was told that it claimed is in memory and, if
  anybody is and no write failed, in the file. Hence `MemoryIsLoaded`, `NoncesAreUsedOnce`, `OneWalletClaims`.
* `JoinInv` and `AnchorInv`: what the browser holds between two answers is still true of
  what was sent, and of each input the index names commitment and signer of one
  attestation. Hence `ApprovedRowsWereSent`, `ReportsAreTrue`, `ProofsStayTrue`.
* `WindowInv`: the window is the tail of all admissions, what it lacks has expired, and
  of two admissions that are the limit apart the first had expired at the second. Any
  span then has at most the limit (`FewInAnySpan`, by the least and greatest admission in
  it): `WindowNeverOverrun`. `AnswerInv` gives `AnswersHideNothing`.
* `MessagesInv`: as long as it counts, each row of a signer has a numbered time of its
  own in the limiter (`Limited`), so that rows of a span are no more than times. Hence
  `MessagesStayLimited`; `SentIsStored` is inductive with it.
* `NodeCorrect`, `NodeKeepsTables`, `NodeFreezesOnce`, `NodeCountsRecords`: the same of
  `NodeSpec`, the specification of the run `node`. The components share the clock, and the
  tick of one is a tick, or nothing, to the others (`ClockOnly`), so that a behaviour of
  the node is one of each component (`NodeRuns`), and what is proved of a component
  holds in the node. Two specifications the node does not implement, that of the
  migrations, whose fairness it does not promise, and that of the sessions, whose clock
  rests when no nonce or session runs: of these the inductive invariants are shown to
  be kept (`NodeKeeps`).

### Mesh (`MeshProofs`)

* `MeshTypeCorrect`: with `TypeInv`, which adds that stores are finite sets of rows.
* `WalkMissesNothing`: `WalkInv`. A record that a running sync owes is stored or lies
  ahead of its cursor. The steps that need an argument are a page (`PageWalked`: rows
  are in the order of the cursor, a page that is not full is the last one, and a row
  that is left out and not after the last of the page would tie with it, which the
  premise of `WalkComplete` excludes), a page that is inserted in part, after which the
  sync is over (`InterruptedGrows`), and a peer that stores more while it is read
  (what is owed only shrinks). `PageHasLast` shows, without induction, that a finite page
  has a last row. It holds for any number of syncs at a time, of the same peer too.
* `BlockIsRespected`: of the steps that add a peer, `Finish` adds what the peer lists,
  less the block list, and its own URL.
* `RefinesReplica`, `NothingIsMadeUp`: `ReplicaInv`. No peer serves two rows of one
  observation, nor has the table two, and what is in it was served. A page is inserted
  row by row; that this is one transaction whatever their order (`PageOnce`), as
  `WithPage` has it, holds because the rows of a page are of different observations.
* `MeshCorrect`: the same of `MeshSpec`, the specification of the run `mesh_sync`, with
  the two properties of the messages.

### What only TLC shows

* `SyncEnds`, `BroadcastEnds`, `SavedKeyUsed`: liveness under fairness.
* The runs that expect a violation: their counterexamples are on small instances.

## Not modelled

* Verifiers, `OffchainResolver`, `/recompute`, canonical encoder, hashing, signing:
  functions of one input without state, taken as injective and unforgeable. `/verify`
  looks at the chain when it has no row; the two reads this takes are in `Anchoring`.
* A sanitization pipeline in the attestation (`sanitizationCID`), which `index.ts` never
  sets, and `GET /identity`, which reads the configuration.
* CDN upload, log buffer, registration and discovery from the dashboard: one
  statement or one call of an external service each, with nothing of theirs in between.
* The pages: text, but for the functions that start, wait and save, which are in
  `AdminAccess`, `Configuration`, `JoinRequests`, `Anchoring`.
* Two syncs of one peer at a time, which a slow peer brings about, are beyond the bound
  of `mesh_sync`; `Syncs` is a constant, and the theorems hold for any set of them.

## Plan

1. `MeshSync` with several nodes that pull from each other, with what the mesh as a
   whole promises as the abstract specification: that of one node, `ImplementsReplica`
   and `StoredWereServed`, is proved.
2. The validation of TSEI receipts, which is now one choice.
