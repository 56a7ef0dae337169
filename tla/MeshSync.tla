------------------------------- MODULE MeshSync -------------------------------
(***************************************************************************)
(* How one node pulls records from its peers (src/mesh/sync.ts, cron.ts,   *)
(* records.ts), with the administrator's changes to the peer list          *)
(* (src/ui/admin.ts) and the start of the process (src/index.ts).          *)
(*                                                                         *)
(* A sync of one peer is a chain of fetches.  Between two of them anything *)
(* else runs: other syncs, of the same peer too, since a cron tick does    *)
(* not wait for the one before; the administrator; the peer itself.  What  *)
(* follows a fetch up to the next runs without waiting for anything        *)
(* outside the process and is one step.  The peers are external: their     *)
(* stores grow, they may change keys, and any fetch may fail.              *)
(***************************************************************************)
EXTENDS RecordRows

CONSTANTS
    Peers,          \* URLs
    NoSigner,       \* null as a signerAddress
    Base, Wyriwe,   \* the two namespaces that are synced
    Pool,           \* Pool[p], the rows p may come to serve
    SendsKey,       \* the peers that send the key of a record
    Limit,          \* page size, 500 in the code
    DiscoverLimit,  \* new peers per sync, 10 in the code
    Seeds,          \* config.peers
    Keys,           \* Keys[p], the signing keys p may use
    Syncs,          \* syncs that may run at a time
    MaxTime, MaxRestarts, MaxAdmin

ASSUME MeshAssumption ==
    /\ Pool \in [Peers -> SUBSET Rows] /\ {Base, Wyriwe} = Spaces /\ Base # Wyriwe
    /\ Peers \subseteq Sources /\ SendsKey \subseteq Peers /\ Seeds \subseteq Peers
    /\ Limit \in Nat \ {0} /\ DiscoverLimit \in Nat /\ MaxTime \in Nat \ {0}
    /\ Keys \in [Peers -> SUBSET Signers]
    /\ {NoSigner, Unsigned} \cap Signers = {}
    /\ MaxRestarts \in Nat /\ MaxAdmin \in Nat

\* What recovers from a signature made over something else than the record: another
\* address for each message, that nobody has the key of.
Strangers == Hashes \X Values \X Times \X Signers \X Nat

Addresses == Signers \cup Strangers

PeerState == [lastSyncAt : 0..MaxTime, healthy : BOOLEAN,
              signer : Addresses \cup {NoSigner}]

NewPeer(signer) == [lastSyncAt |-> 0, healthy |-> TRUE, signer |-> signer]

VARIABLES
    now,        \* seconds, one clock for all nodes
    served,     \* served[p], the rows in the store of p
    keyOf,      \* keyOf[p], the key p signs its identity with
    records,    \* the records table
    peers,      \* the peers table: a function on the URLs that are in it
    blocked,    \* peer_blocklist
    syncs,      \* syncs[i], the chain of fetches i is at
    restarts, edits,
    readded     \* history: the blocked URLs the administrator added again

vars == <<now, served, keyOf, records, peers, blocked, syncs, restarts, edits, readded>>

\* A chain of fetches: its arguments, what it knows and where it is.
Idle == [phase |-> "idle"]

Sync == [phase : {"base", "wyriwe", "finish"}, url : Peers,
         peer : PeerState,              \* the row as read by the tick
         known : SUBSET Addresses,      \* meshSigners
         cursor : {NoCursor} \cup (Times \X Hashes),
         signer : Addresses \cup {NoSigner},     \* discoveredSigner
         wsigner : Addresses \cup {NoSigner},    \* of the wyriwe pull
         due : SUBSET Rows]             \* history: what the peer served at the start

TypeOK ==
    /\ now \in 0..MaxTime
    /\ \A p \in Peers : served[p] \subseteq Pool[p]
    /\ \A p \in Peers : keyOf[p] \in Keys[p]
    /\ records \subseteq Rows
    /\ DOMAIN peers \subseteq Peers /\ \A p \in DOMAIN peers : peers[p] \in PeerState
    /\ blocked \subseteq Peers
    /\ syncs \in [Syncs -> Sync \cup {Idle}]
    /\ readded \subseteq blocked

Upserted(table, url, row) ==
    [u \in DOMAIN table \cup {url} |-> IF u = url THEN row ELSE table[u]]

\* index.ts seeds the configured peers on every start, into what is there.
Seeded(table) ==
    [u \in DOMAIN table \cup Seeds |->
        IF u \in Seeds THEN NewPeer(NoSigner) ELSE table[u]]

Init ==
    /\ now = 1
    /\ served = [p \in Peers |-> {}]
    /\ keyOf \in {k \in [Peers -> Signers] : \A p \in Peers : k[p] \in Keys[p]}
    /\ records = {}
    /\ peers = Seeded(<<>>)
    /\ blocked = {}
    /\ syncs = [i \in Syncs |-> Idle]
    /\ restarts = 0
    /\ edits = 0
    /\ readded = {}

-----------------------------------------------------------------------------
(* The peers. *)

Tick ==
    /\ now < MaxTime
    /\ now' = now + 1
    /\ UNCHANGED <<served, keyOf, records, peers, blocked, syncs, restarts, edits, readded>>

\* A peer writes, or itself pulls, a record: its timestamp is of its making.
PeerStores(p, row) ==
    /\ row.ts <= now /\ ~\E r \in served[p] : SameObservation(r, row)
    /\ served' = [served EXCEPT ![p] = @ \cup {row}]
    /\ UNCHANGED <<now, keyOf, records, peers, blocked, syncs, restarts, edits, readded>>

\* The operator of a peer configures another key.
PeerRekeys(p, key) ==
    /\ key \in Keys[p] \ {keyOf[p]}
    /\ keyOf' = [keyOf EXCEPT ![p] = key]
    /\ UNCHANGED <<now, served, records, peers, blocked, syncs, restarts, edits, readded>>

-----------------------------------------------------------------------------
(* The node: one sync of one peer. *)

\* The tick, or the admin's "sync now", reads the peers and starts a sync of each.
StartSync(i, url) ==
    /\ syncs[i] = Idle /\ url \in DOMAIN peers
    /\ syncs' = [syncs EXCEPT ![i] =
            [phase |-> "base", url |-> url, peer |-> peers[url],
             known |-> {peers[u].signer : u \in DOMAIN peers} \ {NoSigner},
             cursor |-> NoCursor, signer |-> NoSigner, wsigner |-> NoSigner,
             due |-> {r \in served[url] : r.ns = Base /\ r.ts > peers[url].lastSyncAt}]]
    /\ UNCHANGED <<now, served, keyOf, records, peers, blocked, restarts, edits, readded>>

\* recoverRecordSigner assumes the signature of a record; those of the wyriwe
\* namespace are EIP-712 signatures of an attestation (withWyriwe.ts).
Recovered(r) ==
    IF r.ns = Wyriwe THEN <<r.hash, r.value, r.ts, r.by, r.form>> ELSE r.by

\* validateAndInsert: unsigned, or the peer has no pin, or it is the pin, or the
\* signer of another peer.
Accepts(r, peer, known) ==
    \/ r.by = Unsigned
    \/ peer.signer = NoSigner
    \/ Recovered(r) \in {peer.signer} \cup known

\* The record as the peer sends it, attributed to the peer if it has no source.
Sent(url, r) ==
    [row |-> [r EXCEPT !.source = IF @ = NoSource THEN url ELSE @],
     key |-> url \in SendsKey]

\* What a page leaves in the records table.
WithPage(sync, page) ==
    records \cup
        UNION {Inserted(records, Sent(sync.url, r)) :
                    r \in {x \in page : Accepts(x, sync.peer, sync.known)}}

\* The first signer among the accepted records of a page that are signed.
FirstSigners(sync, page) ==
    LET signed == {r \in page : r.by # Unsigned /\ Accepts(r, sync.peer, sync.known)} IN
    IF signed = {} THEN {NoSigner}
    ELSE {Recovered(r) : r \in {x \in signed : \A y \in signed : ~After(x, CursorOf(y))}}

\* One page of pullNamespace, fetched and inserted.
PullPage(i, ns) ==
    LET sync == syncs[i] IN
    \E page \in Pages(served[sync.url], ns, sync.peer.lastSyncAt, sync.cursor, Limit) :
    \E first \in FirstSigners(sync, page) :
        /\ records' = WithPage(sync, page)
        /\ LET cursor == NextCursor(page, Limit)
               pulled == [sync EXCEPT !.cursor = cursor]
               keep(signer) == IF signer = NoSigner THEN first ELSE signer IN
           syncs' = [syncs EXCEPT ![i] =
             IF ns = Base
             THEN [pulled EXCEPT !.signer = keep(@),
                                 !.phase = IF cursor = NoCursor THEN "wyriwe" ELSE @]
             ELSE IF cursor = NoCursor
             THEN [pulled EXCEPT !.phase = "finish",
                    !.signer = IF @ = NoSigner THEN keep(sync.wsigner) ELSE @]
             ELSE [pulled EXCEPT !.wsigner = keep(@)]]
        /\ UNCHANGED <<now, served, keyOf, peers, blocked, restarts, edits, readded>>

PullBase(i) == syncs[i].phase = "base" /\ PullPage(i, Base)

PullWyriwe(i) == syncs[i].phase = "wyriwe" /\ PullPage(i, Wyriwe)

\* A fetch fails, or an insert throws in the middle of the page: the rows before it,
\* if there are any, stay.
Interrupted(i, ns) ==
    LET sync == syncs[i] IN
    \E page \in Pages(served[sync.url], ns, sync.peer.lastSyncAt, sync.cursor, Limit) :
    \E part \in SUBSET page :
        /\ \A r \in page \ part, s \in part : ~After(s, CursorOf(r))
        /\ records' = WithPage(sync, part)

\* The base pull fails, times out or speaks another protocol, or /vni or /health
\* answers with something that is not JSON, which no catch of theirs sees: the row
\* the tick read is written back as unhealthy.
Fail(i) ==
    /\ \/ syncs[i].phase = "base" /\ Interrupted(i, Base)
       \/ syncs[i].phase = "finish" /\ UNCHANGED records
    /\ peers' = Upserted(peers, syncs[i].url, [syncs[i].peer EXCEPT !.healthy = FALSE])
    /\ syncs' = [syncs EXCEPT ![i] = Idle]
    /\ UNCHANGED <<now, served, keyOf, blocked, restarts, edits, readded>>

\* The wyriwe pull is best effort: what it learned of the signer is dropped when
\* it fails, and kept when the peer stops speaking the protocol.
FailWyriwe(i) ==
    /\ syncs[i].phase = "wyriwe"
    /\ \E learned \in {NoSigner, syncs[i].wsigner} :
          /\ \/ learned = NoSigner /\ Interrupted(i, Wyriwe)
             \/ learned = syncs[i].wsigner /\ UNCHANGED records
          /\ syncs' = [syncs EXCEPT ![i] =
              [syncs[i] EXCEPT !.phase = "finish",
                               !.signer = IF @ = NoSigner THEN learned ELSE @]]
    /\ UNCHANGED <<now, served, keyOf, peers, blocked, restarts, edits, readded>>

\* Mutant: manual removals are not looked at.
DiscoverableAll(list) == list \ DOMAIN peers

\* discoverPeers: of the URLs the peer lists, those neither known nor blocked.
Discoverable(list) == list \ (DOMAIN peers \cup blocked)

\* The /vni and /health answers, the discovery of more peers, and the row that is
\* written back: the one the tick read, updated.  A listed URL comes with a signer
\* the peer believes in: here the right one or none.
Finish(i) ==
    LET sync == syncs[i]
        first(a, b) == IF a # NoSigner THEN a ELSE b IN
    /\ sync.phase = "finish"
    /\ \E vni, health \in {NoSigner, keyOf[sync.url]},
          found \in SUBSET Discoverable(Peers),
          named \in SUBSET Peers :
        /\ Cardinality(found) <= DiscoverLimit /\ named \subseteq found
        /\ peers' = Upserted(
              [u \in DOMAIN peers \cup found |->
                    IF u \in found
                    THEN NewPeer(IF u \in named THEN keyOf[u] ELSE NoSigner)
                    ELSE peers[u]],
              sync.url,
              [lastSyncAt |-> now, healthy |-> TRUE,
               signer |-> first(vni, first(sync.signer, first(health, sync.peer.signer)))])
    /\ syncs' = [syncs EXCEPT ![i] = Idle]
    /\ UNCHANGED <<now, served, keyOf, records, blocked, restarts, edits, readded>>

-----------------------------------------------------------------------------
(* The administrator, and the process itself. *)

AddPeer(url) ==
    /\ edits < MaxAdmin
    /\ peers' = Upserted(peers, url, NewPeer(NoSigner))
    /\ readded' = readded \cup ({url} \cap blocked)
    /\ edits' = edits + 1
    /\ UNCHANGED <<now, served, keyOf, records, blocked, syncs, restarts>>

\* removePeer, then blockPeer.
RemovePeer(url) ==
    /\ edits < MaxAdmin
    /\ peers' = [u \in DOMAIN peers \ {url} |-> peers[u]]
    /\ blocked' = blocked \cup {url}
    /\ readded' = readded \ {url}
    /\ edits' = edits + 1
    /\ UNCHANGED <<now, served, keyOf, records, syncs, restarts>>

\* A stop or a crash, and the start after it: the syncs are gone.
Restart ==
    /\ restarts < MaxRestarts
    /\ peers' = Seeded(peers)
    /\ syncs' = [i \in Syncs |-> Idle]
    /\ restarts' = restarts + 1
    /\ UNCHANGED <<now, served, keyOf, records, blocked, edits, readded>>

Step(i) == PullBase(i) \/ Fail(i) \/ PullWyriwe(i) \/ FailWyriwe(i) \/ Finish(i)

Environment ==
    \/ Tick
    \/ \E p \in Peers : \/ \E row \in Pool[p] : PeerStores(p, row)
                        \/ \E key \in Signers : PeerRekeys(p, key)

Next ==
    \/ Environment
    \/ \E i \in Syncs : Step(i) \/ \E url \in Peers : StartSync(i, url)
    \/ \E url \in Peers : AddPeer(url) \/ RemovePeer(url)
    \/ Restart

\* Every fetch ends, by its timeout if not before (AbortSignal.timeout), and the
\* chain goes on: with the next page or, if the fetch failed, without.
Fairness == \A i \in Syncs : /\ WF_vars(PullBase(i))
                             /\ WF_vars(PullWyriwe(i))
                             /\ WF_vars(Finish(i))

Spec == Init /\ [][Next]_vars /\ Fairness

-----------------------------------------------------------------------------
Active(i) == syncs[i] # Idle

Stored(r) == \E s \in records : SameObservation(s, r)

\* What the walk over the pages owes: the accepted rows the peer served when the
\* sync began, but for those that tie in the cursor with another row.
Owed(sync) ==
    {r \in sync.due : /\ Accepts(r, sync.peer, sync.known)
                      /\ \A s \in served[sync.url] :
                            s.ns = r.ns /\ CursorOf(s) = CursorOf(r) => s = r}

\* Page after page, while the peer's store grows, the base pull of a peer that
\* sends keys misses nothing: once it is over, every record it owes is stored.
WalkComplete ==
    \A i \in Syncs :
        Active(i) /\ syncs[i].phase # "base" /\ syncs[i].url \in SendsKey
        => \A r \in Owed(syncs[i]) : Stored(r)

\* The wire format of the README has a key, and "curl /health" shows the record
\* on the second node after a sync: the pull from any peer stores what it owes.
RecordsArrive ==
    \A i \in Syncs : Active(i) /\ syncs[i].phase # "base"
                     => \A r \in Owed(syncs[i]) : Stored(r)

\* Discovery never brings back a blocked URL: one enters the peers only by the
\* administrator's hand, the seeding of a start, or the write-back of a sync of it.
DiscoveryRespectsBlock ==
    [][\A u \in blocked : u \in DOMAIN peers' \ DOMAIN peers =>
            \/ u \in readded'
            \/ restarts' # restarts /\ u \in Seeds
            \/ \E i \in Syncs : Active(i) /\ syncs[i].url = u /\ syncs'[i] = Idle]_vars

\* The table a node fills from its peers is one write-once table, although each page
\* is inserted row by row and syncs of many peers, that relay each other's records,
\* insert into it in turn: the first copy of an observation that arrives stays, with
\* its signature and its source, and the later ones are ignored.
Replica == INSTANCE WriteOnce WITH
    Key <- Observation, rows <- records, told <- {}

ImplementsReplica == Replica!OnceSpec

\* A sync makes nothing up and mixes nothing: each stored row is, signature included,
\* a row that some peer which sends keys serves, and names that peer unless the peer
\* itself named another.
StoredWereServed ==
    \A s \in records : \E p \in SendsKey : \E r \in served[p] : s = Sent(p, r).row

\* A sync ends however many pages the peer serves: no cursor is asked for twice
\* and the chain reaches its write-back or its error.
SyncEnds == \A i \in Syncs : Active(i) ~> ~Active(i)

\* Removing a peer sticks, as the comment on its blocking says: until the
\* administrator adds it again, a removed peer is not a peer.
RemovedStaysRemoved == DOMAIN peers \cap blocked \subseteq readded

\* The signer pinned for a peer, "recovered from signed records during sync", is
\* a key of that peer.
PinIsPeersKey ==
    \A u \in DOMAIN peers : peers[u].signer \in Keys[u] \cup {NoSigner}

\* "Records written to A sync to B": what a peer signed before the time of its
\* last sync has been pulled, as the next pull asks for what is newer.
NothingBehindWatermark ==
    \A u \in DOMAIN peers, r \in UNION {served[p] : p \in Peers} :
        /\ r \in served[u] /\ r.ns = Base /\ r.by \in Keys[u]
        /\ r.ts < peers[u].lastSyncAt
        => Stored(r)
=============================================================================
