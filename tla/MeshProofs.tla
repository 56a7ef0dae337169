------------------------------ MODULE MeshProofs ------------------------------
(***************************************************************************)
(* What TLAPS proves of MeshSync for any peers, stores, page sizes and     *)
(* keys: type correctness, that the walk over the pages of a growing store *)
(* misses nothing, and that discovery respects the block list.  And, with  *)
(* what WindowProofs proves of the messages, what holds of both in Mesh.   *)
(***************************************************************************)
EXTENDS Mesh, WindowProofs, TLAPS, FiniteSetTheorems

-----------------------------------------------------------------------------
(* The order of the pages: timestamp first, then hash. *)

\* Rows are compared by two integers.
LEMMA RowCursor ==
    ASSUME NEW r \in Rows
    PROVE  /\ r.ts \in Int /\ r.hash \in Int
           /\ CursorOf(r) \in Times \X Hashes /\ CursorOf(r) # NoCursor
           /\ CursorOf(r)[1] = r.ts /\ CursorOf(r)[2] = r.hash
<1>1. r.ts \in Times /\ r.hash \in Hashes
  BY DEF Rows
<1> QED
  BY <1>1, RowsAssumption DEF CursorOf, NoCursor

\* The order is total but for ties, irreflexive and transitive.
LEMMA RowOrder ==
    ASSUME NEW r \in Rows, NEW s \in Rows
    PROVE  /\ ~After(r, CursorOf(r))
           /\ ~After(r, CursorOf(s)) /\ ~After(s, CursorOf(r)) => CursorOf(r) = CursorOf(s)
           /\ \A x \in Rows : After(x, CursorOf(r)) /\ After(r, CursorOf(s))
                                => After(x, CursorOf(s))
           /\ \A c \in Times \X Hashes :
                After(r, CursorOf(s)) /\ After(s, c) => After(r, c)
<1>1. ASSUME NEW x \in Rows
      PROVE  x.ts \in Int /\ x.hash \in Int /\ CursorOf(x) = <<x.ts, x.hash>>
  BY RowCursor DEF CursorOf
<1>2. ASSUME NEW c \in Times \X Hashes
      PROVE  c[1] \in Int /\ c[2] \in Int
  BY RowsAssumption
<1> QED
  BY <1>1, <1>2 DEF After

\* A finite page that is not empty has a last row.
LEMMA PageHasLast ==
    ASSUME NEW page \in SUBSET Rows, IsFiniteSet(page), page # {}
    PROVE  /\ LastOf(page) \in page
           /\ \A s \in page : ~After(s, CursorOf(LastOf(page)))
<1> DEFINE Later(r) == {s \in page : After(s, CursorOf(r))}
           All == {Later(r) : r \in page}
<1>1. All # {} /\ All \subseteq FiniteSubsetsOf(page)
  <2>1. \A r \in page : Later(r) \in SUBSET page /\ IsFiniteSet(Later(r))
    BY FS_Subset
  <2> QED
    BY <2>1 DEF FiniteSubsetsOf
<1>2. PICK least \in All : \A some \in All : ~ (<<some, least>> \in StrictSubsetOrdering(page))
  BY <1>1, WFMin, FS_StrictSubsetOrderingWellFounded
<1>3. PICK r \in page : least = Later(r)
  OBVIOUS
<1>4. ASSUME NEW s \in page, After(s, CursorOf(r)) PROVE FALSE
  <2>1. s \in Later(r) /\ s \notin Later(s)
    BY <1>4, RowOrder
  <2>2. Later(s) \subseteq Later(r)
    BY <1>4, RowOrder
  <2>3. Later(s) \in All /\ Later(s) \in SUBSET page /\ Later(r) \in SUBSET page
    OBVIOUS
  <2>4. Later(s) # Later(r)
    BY <2>1
  <2> HIDE DEF Later
  <2>5. <<Later(s), Later(r)>> \in StrictSubsetOrdering(page)
    BY <2>2, <2>3, <2>4 DEF StrictSubsetOrdering
  <2> QED
    BY <1>2, <1>3, <2>3, <2>5
<1>5. \E x \in page : \A s \in page : ~After(s, CursorOf(x))
  BY <1>4
<1> QED
  BY <1>5 DEF LastOf

\* The cursor of a page is none or that of a row of the page.
LEMMA NextCursorIs ==
    ASSUME NEW page \in SUBSET Rows, IsFiniteSet(page)
    PROVE  /\ NextCursor(page, Limit) \in {NoCursor} \cup (Times \X Hashes)
           /\ NextCursor(page, Limit) = NoCursor <=> Cardinality(page) # Limit
           /\ Cardinality(page) = Limit =>
                /\ LastOf(page) \in page
                /\ NextCursor(page, Limit) = CursorOf(LastOf(page))
                /\ \A s \in page : ~After(s, CursorOf(LastOf(page)))
<1>1. CASE Cardinality(page) # Limit
  BY <1>1 DEF NextCursor
<1>2. CASE Cardinality(page) = Limit
  <2>1. page # {}
    BY <1>2, FS_EmptySet, MeshAssumption
  <2>2. LastOf(page) \in page /\ \A s \in page : ~After(s, CursorOf(LastOf(page)))
    BY <2>1, PageHasLast
  <2> QED
    BY <1>2, <2>2, RowCursor DEF NextCursor
<1> QED
  BY <1>1, <1>2

-----------------------------------------------------------------------------
(* Type correctness. *)

\* A sync that is active, or none.
TypeInv ==
    /\ TypeOK
    /\ served \in [Peers -> SUBSET Rows] /\ keyOf \in [Peers -> Signers]
    /\ \A p \in Peers : IsFiniteSet(served[p])
    /\ restarts \in Nat

Keyed == Addresses \cup {NoSigner}

\* What the constants are.
LEMMA MeshTypes ==
    /\ NewPeer(NoSigner) \in PeerState
    /\ \A signer \in Keyed : NewPeer(signer) \in PeerState
    /\ \A p \in Peers : Pool[p] \subseteq Rows /\ Keys[p] \subseteq Signers
    /\ Seeds \subseteq Peers /\ Peers \subseteq Sources /\ Signers \subseteq Keyed
<1>1. 0 \in 0..MaxTime
  BY MeshAssumption
<1> QED
  BY <1>1, MeshAssumption DEF NewPeer, PeerState, Keyed, Addresses

\* A chain of fetches knows its peer, its arguments and its place.
LEMMA ActiveSync ==
    ASSUME TypeOK, NEW i \in Syncs, syncs[i].phase \in {"base", "wyriwe", "finish"}
    PROVE  /\ syncs[i] \in Sync
           /\ syncs[i].url \in Peers /\ syncs[i].peer \in PeerState
           /\ syncs[i].known \subseteq Addresses
           /\ syncs[i].cursor \in {NoCursor} \cup (Times \X Hashes)
           /\ syncs[i].signer \in Keyed /\ syncs[i].wsigner \in Keyed
           /\ syncs[i].due \subseteq Rows
<1>1. syncs[i] \in Sync
  BY DEF TypeOK, Idle
<1> QED
  BY <1>1 DEF Sync, Keyed

\* What an active sync is, and what it is not.
LEMMA SyncOrIdle ==
    ASSUME TypeOK, NEW i \in Syncs
    PROVE  Active(i) <=> syncs[i].phase \in {"base", "wyriwe", "finish"}
<1>1. syncs[i] \in Sync \cup {Idle}
  BY DEF TypeOK
<1> QED
  BY <1>1 DEF Active, Idle, Sync

\* Writing one peer's row leaves the table well typed.
LEMMA UpsertedType ==
    ASSUME NEW table, DOMAIN table \subseteq Peers,
           \A u \in DOMAIN table : table[u] \in PeerState,
           NEW url \in Peers, NEW row \in PeerState
    PROVE  /\ DOMAIN Upserted(table, url, row) = DOMAIN table \cup {url}
           /\ \A u \in DOMAIN Upserted(table, url, row) :
                Upserted(table, url, row)[u] \in PeerState
BY DEF Upserted

\* So does seeding the configured peers.
LEMMA SeededType ==
    ASSUME NEW table, DOMAIN table \subseteq Peers,
           \A u \in DOMAIN table : table[u] \in PeerState
    PROVE  /\ DOMAIN Seeded(table) = DOMAIN table \cup Seeds
           /\ DOMAIN Seeded(table) \subseteq Peers
           /\ \A u \in DOMAIN Seeded(table) : Seeded(table)[u] \in PeerState
BY MeshTypes DEF Seeded

\* A page is made of rows of the peer's store, and is a finite set.
LEMMA PageRows ==
    ASSUME TypeInv, NEW p \in Peers, NEW ns, NEW from, NEW cursor,
           NEW page \in Pages(served[p], ns, from, cursor, Limit)
    PROVE  /\ page \subseteq Eligible(served[p], ns, from, cursor)
           /\ page \subseteq served[p] /\ page \in SUBSET Rows /\ IsFiniteSet(page)
           /\ Eligible(served[p], ns, from, cursor) \subseteq served[p]
<1>1. page \subseteq Eligible(served[p], ns, from, cursor)
  BY DEF Pages
<1>2. Eligible(served[p], ns, from, cursor) \subseteq served[p]
  BY DEF Eligible
<1>3. served[p] \subseteq Rows /\ IsFiniteSet(served[p])
  BY DEF TypeInv
<1> QED
  BY <1>1, <1>2, <1>3, FS_Subset

\* What is inserted of a page are rows, and nothing is lost.
LEMMA PageType ==
    ASSUME TypeInv, NEW sync \in Sync, NEW page \in SUBSET Rows
    PROVE  WithPage(sync, page) \subseteq Rows /\ records \subseteq WithPage(sync, page)
<1>1. ASSUME NEW r \in page
      PROVE  Inserted(records, Sent(sync.url, r)) \subseteq Rows
  <2>1. r \in Rows /\ sync.url \in Sources /\ records \subseteq Rows
    BY MeshTypes DEF Sync, TypeInv, TypeOK
  <2>2. Sent(sync.url, r).row \in Rows
    BY <2>1 DEF Sent, Rows
  <2> QED
    BY <2>1, <2>2 DEF Inserted
<1> QED
  BY <1>1 DEF WithPage, TypeInv, TypeOK

\* The signer a page teaches is an address.
LEMMA FirstType ==
    ASSUME NEW sync, NEW page \in SUBSET Rows
    PROVE  FirstSigners(sync, page) \subseteq Keyed
<1>1. ASSUME NEW r \in page, r.by # Unsigned
      PROVE  Recovered(r) \in Keyed
  BY <1>1 DEF Recovered, Rows, Keyed, Addresses, Strangers
<1> QED
  BY <1>1 DEF FirstSigners, Keyed

\* A chain of fetches after one page of ns, whose cursor and first signer these are.
MovedOn(sync, ns, cursor, first) ==
    LET pulled == [sync EXCEPT !.cursor = cursor]
        keep(signer) == IF signer = NoSigner THEN first ELSE signer IN
    IF ns = Base
    THEN [pulled EXCEPT !.signer = keep(@),
                        !.phase = IF cursor = NoCursor THEN "wyriwe" ELSE @]
    ELSE IF cursor = NoCursor
    THEN [pulled EXCEPT !.phase = "finish",
                        !.signer = IF @ = NoSigner THEN keep(sync.wsigner) ELSE @]
    ELSE [pulled EXCEPT !.wsigner = keep(@)]

\* A chain of fetches whose wyriwe pull failed with this learned of the signer.
WithoutWyriwe(sync, learned) ==
    [sync EXCEPT !.phase = "finish",
                 !.signer = IF @ = NoSigner THEN learned ELSE @]

\* The step that pulls this page.
Pulled(i, ns, page, first) ==
    /\ records' = WithPage(syncs[i], page)
    /\ syncs' = [syncs EXCEPT ![i] =
            MovedOn(syncs[i], ns, NextCursor(page, Limit), first)]
    /\ UNCHANGED <<now, served, keyOf, peers, blocked, restarts, edits, readded>>

\* One page more: the records are rows, and the chain has moved on in its fields.
LEMMA PullType ==
    ASSUME TypeInv, NEW i \in Syncs, PullBase(i) \/ PullWyriwe(i)
    PROVE  records' \subseteq Rows /\ syncs' \in [Syncs -> Sync \cup {Idle}]
<1> DEFINE sync == syncs[i]
<1>1. PICK ns : PullPage(i, ns) /\ sync.phase \in {"base", "wyriwe", "finish"}
  BY DEF PullBase, PullWyriwe
<1>2. PICK page \in Pages(served[sync.url], ns, sync.peer.lastSyncAt, sync.cursor, Limit) :
      \E first \in FirstSigners(sync, page) : Pulled(i, ns, page, first)
  BY <1>1 DEF PullPage, Pulled, MovedOn
<1> PICK first \in FirstSigners(sync, page) : Pulled(i, ns, page, first)
  BY <1>2
<1>3. sync \in Sync /\ sync.url \in Peers /\ sync.signer \in Keyed /\ sync.wsigner \in Keyed
  BY <1>1, ActiveSync DEF TypeInv
<1>4. page \in SUBSET Rows /\ IsFiniteSet(page)
  BY <1>3, PageRows
<1>5. first \in Keyed
  BY <1>4, FirstType
<1> DEFINE cursor == NextCursor(page, Limit)
<1>6. cursor \in {NoCursor} \cup (Times \X Hashes)
  BY <1>4, NextCursorIs
<1>7. MovedOn(sync, ns, cursor, first) \in Sync
  <2> DEFINE pulled == [sync EXCEPT !.cursor = cursor]
             keep(signer) == IF signer = NoSigner THEN first ELSE signer
  <2> HIDE DEF cursor, sync
  <2>1. pulled \in Sync /\ pulled.signer \in Keyed /\ pulled.wsigner \in Keyed
        /\ pulled.phase \in {"base", "wyriwe", "finish"}
    BY <1>3, <1>6 DEF Sync, Keyed
  <2>2. \A signer \in Keyed : keep(signer) \in Keyed
    BY <1>5
  <2> HIDE DEF pulled, keep
  <2>3. \A signer \in Keyed, phase \in {"base", "wyriwe", "finish"} :
            /\ [pulled EXCEPT !.signer = signer, !.phase = phase] \in Sync
            /\ [pulled EXCEPT !.phase = phase, !.signer = signer] \in Sync
            /\ [pulled EXCEPT !.wsigner = signer] \in Sync
    BY <2>1 DEF Sync, Keyed
  <2>4. ns = Base => MovedOn(sync, ns, cursor, first) =
            [pulled EXCEPT !.signer = keep(pulled.signer),
                           !.phase = IF cursor = NoCursor THEN "wyriwe" ELSE pulled.phase]
    BY DEF MovedOn, pulled, keep
  <2>5. ns # Base /\ cursor = NoCursor => MovedOn(sync, ns, cursor, first) =
            [pulled EXCEPT !.phase = "finish",
                           !.signer = IF pulled.signer = NoSigner THEN keep(sync.wsigner)
                                                                  ELSE pulled.signer]
    BY DEF MovedOn, pulled, keep
  <2>6. ns # Base /\ cursor # NoCursor => MovedOn(sync, ns, cursor, first) =
            [pulled EXCEPT !.wsigner = keep(pulled.wsigner)]
    BY DEF MovedOn, pulled, keep
  <2>7. CASE ns = Base
    <3> DEFINE signer == keep(pulled.signer)
               phase == IF cursor = NoCursor THEN "wyriwe" ELSE pulled.phase
    <3>1. signer \in Keyed /\ phase \in {"base", "wyriwe", "finish"}
      BY <2>1, <2>2
    <3>2. MovedOn(sync, ns, cursor, first) =
            [pulled EXCEPT !.signer = signer, !.phase = phase]
      BY <2>4, <2>7
    <3> HIDE DEF signer, phase
    <3>3. [pulled EXCEPT !.signer = signer, !.phase = phase] \in Sync
      BY <2>3, <3>1
    <3> QED
      BY <3>2, <3>3
  <2>8. CASE ns # Base /\ cursor = NoCursor
    <3> DEFINE signer == IF pulled.signer = NoSigner THEN keep(sync.wsigner)
                                                     ELSE pulled.signer
    <3>1. signer \in Keyed
      BY <1>3, <2>1, <2>2 DEF sync
    <3>2. MovedOn(sync, ns, cursor, first) =
            [pulled EXCEPT !.phase = "finish", !.signer = signer]
      BY <2>5, <2>8
    <3> HIDE DEF signer
    <3> QED
      BY <2>3, <3>1, <3>2
  <2>9. CASE ns # Base /\ cursor # NoCursor
    <3> DEFINE signer == keep(pulled.wsigner)
    <3>1. signer \in Keyed
      BY <2>1, <2>2
    <3>2. MovedOn(sync, ns, cursor, first) = [pulled EXCEPT !.wsigner = signer]
      BY <2>6, <2>9
    <3> HIDE DEF signer
    <3> QED
      BY <2>3, <3>1, <3>2
  <2> QED
    BY <2>7, <2>8, <2>9
<1>8. syncs' = [syncs EXCEPT ![i] = MovedOn(sync, ns, cursor, first)]
  BY DEF Pulled
<1>9. syncs' \in [Syncs -> Sync \cup {Idle}]
  BY <1>7, <1>8 DEF TypeInv, TypeOK
<1> QED
  BY <1>3, <1>4, <1>9, PageType DEF Pulled

\* The row a sync writes back, and those of the peers it found, are peers' rows.
LEMMA FinishType ==
    ASSUME TypeInv, NEW i \in Syncs, Finish(i)
    PROVE  /\ syncs[i].url \in Peers
           /\ DOMAIN peers' \subseteq Peers
           /\ \A u \in DOMAIN peers' : peers'[u] \in PeerState
           /\ \A u \in DOMAIN peers' \ DOMAIN peers : u \in blocked => u = syncs[i].url
<1> DEFINE sync == syncs[i]
           either(a, b) == IF a # NoSigner THEN a ELSE b
<1>1. /\ sync.phase = "finish" /\ sync \in Sync /\ sync.url \in Peers
      /\ sync.peer \in PeerState /\ sync.signer \in Keyed
  BY ActiveSync DEF Finish, TypeInv
<1>2. PICK vni \in {NoSigner, keyOf[sync.url]}, health \in {NoSigner, keyOf[sync.url]},
           found \in SUBSET Discoverable(Peers), named \in SUBSET Peers :
        peers' = Upserted(
              [u \in DOMAIN peers \cup found |->
                    IF u \in found
                    THEN NewPeer(IF u \in named THEN keyOf[u] ELSE NoSigner)
                    ELSE peers[u]],
              sync.url,
              [lastSyncAt |-> now, healthy |-> TRUE,
               signer |-> either(vni, either(sync.signer, either(health, sync.peer.signer)))])
  BY DEF Finish
<1>3. \A p \in Peers : keyOf[p] \in Keyed
  BY MeshTypes DEF TypeInv
<1>4. sync.peer.signer \in Keyed /\ now \in 0..MaxTime
  BY <1>1 DEF PeerState, Keyed, TypeInv, TypeOK
<1> DEFINE signer == either(vni, either(sync.signer, either(health, sync.peer.signer)))
           row == [lastSyncAt |-> now, healthy |-> TRUE, signer |-> signer]
           table == [u \in DOMAIN peers \cup found |->
                        IF u \in found
                        THEN NewPeer(IF u \in named THEN keyOf[u] ELSE NoSigner)
                        ELSE peers[u]]
<1>5. signer \in Keyed
  <2>1. vni \in Keyed /\ health \in Keyed
    BY <1>1, <1>3 DEF Keyed
  <2> QED
    BY <1>1, <1>4, <2>1
<1>6. row \in PeerState
  <2> HIDE DEF signer
  <2> QED
    BY <1>4, <1>5 DEF PeerState, Keyed
<1>7. /\ DOMAIN table = DOMAIN peers \cup found /\ found \subseteq Peers
      /\ found \cap blocked = {} /\ DOMAIN table \subseteq Peers
  BY DEF Discoverable, TypeInv, TypeOK
<1>8. ASSUME NEW u \in DOMAIN table PROVE table[u] \in PeerState
  <2>1. CASE u \in found
    <3>1. (IF u \in named THEN keyOf[u] ELSE NoSigner) \in Keyed
      BY <1>3, <1>7, <2>1 DEF Keyed
    <3> QED
      BY <2>1, <3>1, MeshTypes
  <2>2. CASE u \notin found
    BY <1>7, <2>2 DEF TypeInv, TypeOK
  <2> QED
    BY <2>1, <2>2
<1>9. peers' = Upserted(table, sync.url, row)
  BY <1>2
<1> HIDE DEF table, row
<1>10. /\ DOMAIN peers' = DOMAIN table \cup {sync.url}
       /\ \A u \in DOMAIN peers' : peers'[u] \in PeerState
  BY <1>1, <1>6, <1>7, <1>8, <1>9, UpsertedType
<1> QED
  BY <1>1, <1>7, <1>10

\* A page that was inserted in part is inserted rows of the store, and no row is lost.
LEMMA InterruptedGrows ==
    ASSUME TypeInv, NEW i \in Syncs, syncs[i] \in Sync, NEW ns, Interrupted(i, ns)
    PROVE  /\ records' \subseteq Rows /\ records \subseteq records'
           /\ \E part \in SUBSET Rows :
                 part \subseteq served[syncs[i].url] /\ records' = WithPage(syncs[i], part)
<1> DEFINE sync == syncs[i]
<1>1. PICK page \in Pages(served[sync.url], ns, sync.peer.lastSyncAt, sync.cursor, Limit) :
      \E part \in SUBSET page : records' = WithPage(sync, part)
  BY DEF Interrupted
<1>2. PICK part \in SUBSET page : records' = WithPage(sync, part)
  BY <1>1
<1>3. sync \in Sync /\ sync.url \in Peers
  BY DEF Sync
<1> HIDE DEF sync
<1>4. page \subseteq served[sync.url] /\ page \in SUBSET Rows
  BY <1>1, <1>3, PageRows
<1>5. part \in SUBSET Rows /\ part \subseteq served[sync.url]
  BY <1>4
<1> QED
  BY <1>2, <1>3, <1>5, PageType DEF sync

\* Every step of the node, its peers and its administrator keeps the types.
LEMMA TypeStep == TypeInv /\ [Next]_vars => TypeInv'
<1> SUFFICES ASSUME TypeInv, [Next]_vars PROVE TypeInv'
  OBVIOUS
<1>13. ASSUME NEW url \in Peers, NEW row \in PeerState, peers' = Upserted(peers, url, row)
       PROVE  DOMAIN peers' \subseteq Peers /\ \A u \in DOMAIN peers' : peers'[u] \in PeerState
  <2>1. DOMAIN peers \subseteq Peers /\ \A u \in DOMAIN peers : peers[u] \in PeerState
    BY DEF TypeInv, TypeOK
  <2> QED
    BY <1>13, <2>1 DEF Upserted
<1> USE DEF TypeInv, TypeOK
<1>1. CASE UNCHANGED vars
  BY <1>1 DEF vars
<1>2. CASE Tick
  BY <1>2, MeshAssumption DEF Tick
<1>3. ASSUME NEW p \in Peers, NEW row \in Pool[p], PeerStores(p, row) PROVE TypeInv'
  <2>1. row \in Rows /\ Pool[p] \subseteq Rows
    BY MeshTypes
  <2>2. served' \in [Peers -> SUBSET Rows] /\ \A q \in Peers : served'[q] \subseteq Pool[q]
    BY <1>3, <2>1 DEF PeerStores
  <2>3. \A q \in Peers : IsFiniteSet(served'[q])
    BY <1>3, FS_AddElement DEF PeerStores
  <2> QED
    BY <1>3, <2>2, <2>3 DEF PeerStores
<1>4. ASSUME NEW p \in Peers, NEW key \in Signers, PeerRekeys(p, key) PROVE TypeInv'
  BY <1>4 DEF PeerRekeys
<1>5. ASSUME NEW i \in Syncs, NEW url \in Peers, StartSync(i, url) PROVE TypeInv'
  <2> DEFINE new == [phase |-> "base", url |-> url, peer |-> peers[url],
                     known |-> {peers[u].signer : u \in DOMAIN peers} \ {NoSigner},
                     cursor |-> NoCursor, signer |-> NoSigner, wsigner |-> NoSigner,
                     due |-> {r \in served[url] : r.ns = Base /\ r.ts > peers[url].lastSyncAt}]
  <2>1. peers[url] \in PeerState
    BY <1>5 DEF StartSync
  <2>2. {peers[u].signer : u \in DOMAIN peers} \ {NoSigner} \subseteq Addresses
    BY DEF PeerState
  <2>3. {r \in served[url] : r.ns = Base /\ r.ts > peers[url].lastSyncAt} \subseteq Rows
    OBVIOUS
  <2>4. new \in Sync
    BY <2>1, <2>2, <2>3 DEF Sync
  <2>5. syncs' = [syncs EXCEPT ![i] = new]
    BY <1>5 DEF StartSync
  <2>6. syncs' \in [Syncs -> Sync \cup {Idle}]
    <3> HIDE DEF new
    <3> QED
      BY <2>4, <2>5
  <2> QED
    BY <1>5, <2>6 DEF StartSync
<1>6. ASSUME NEW i \in Syncs, PullBase(i) \/ PullWyriwe(i) PROVE TypeInv'
  BY <1>6, PullType DEF PullBase, PullWyriwe, PullPage
<1>7. ASSUME NEW i \in Syncs, Fail(i) PROVE TypeInv'
  <2> DEFINE row == [syncs[i].peer EXCEPT !.healthy = FALSE]
  <2>1. /\ syncs[i].url \in Peers /\ syncs[i].peer \in PeerState
        /\ syncs[i] \in Sync
    BY <1>7, ActiveSync DEF Fail
  <2>0. records' \subseteq Rows
    BY <1>7, <2>1, InterruptedGrows DEF Fail
  <2>2. row \in PeerState
    BY <2>1 DEF PeerState
  <2>3. peers' = Upserted(peers, syncs[i].url, row) /\ syncs' = [syncs EXCEPT ![i] = Idle]
    BY <1>7 DEF Fail
  <2> HIDE DEF row
  <2>4. DOMAIN peers' \subseteq Peers /\ \A u \in DOMAIN peers' : peers'[u] \in PeerState
    BY <1>13, <2>1, <2>2, <2>3
  <2> QED
    BY <1>7, <2>0, <2>3, <2>4 DEF Fail
<1>8. ASSUME NEW i \in Syncs, FailWyriwe(i) PROVE TypeInv'
  <2>1. PICK learned \in {NoSigner, syncs[i].wsigner} :
            syncs' = [syncs EXCEPT ![i] = WithoutWyriwe(syncs[i], learned)]
    BY <1>8 DEF FailWyriwe, WithoutWyriwe
  <2>2. syncs[i] \in Sync /\ syncs[i].signer \in Keyed /\ learned \in Keyed
    BY <1>8, ActiveSync DEF FailWyriwe, Keyed
  <2> DEFINE signer == IF syncs[i].signer = NoSigner THEN learned ELSE syncs[i].signer
             new == WithoutWyriwe(syncs[i], learned)
  <2>3. new = [syncs[i] EXCEPT !.phase = "finish", !.signer = signer]
    BY DEF WithoutWyriwe
  <2>4. signer \in Keyed
    BY <2>2
  <2>5. new \in Sync
    <3> HIDE DEF signer, new
    <3> QED
      BY <2>2, <2>3, <2>4 DEF Sync, Keyed
  <2>6. syncs' \in [Syncs -> Sync \cup {Idle}]
    <3> HIDE DEF new
    <3> QED
      BY <2>1, <2>5 DEF new
  <2>7. records' \subseteq Rows
    BY <1>8, <2>2, InterruptedGrows DEF FailWyriwe
  <2> QED
    BY <1>8, <2>6, <2>7 DEF FailWyriwe
<1>9. ASSUME NEW i \in Syncs, Finish(i) PROVE TypeInv'
  <2>1. DOMAIN peers' \subseteq Peers /\ \A u \in DOMAIN peers' : peers'[u] \in PeerState
    BY <1>9, FinishType
  <2> QED
    BY <1>9, <2>1 DEF Finish
<1>10. ASSUME NEW url \in Peers, AddPeer(url) PROVE TypeInv'
  <2>1. DOMAIN peers' \subseteq Peers /\ \A u \in DOMAIN peers' : peers'[u] \in PeerState
    BY <1>10, <1>13, MeshTypes DEF AddPeer
  <2> QED
    BY <1>10, <2>1 DEF AddPeer
<1>11. ASSUME NEW url \in Peers, RemovePeer(url) PROVE TypeInv'
  <2>1. DOMAIN peers' \subseteq Peers /\ \A u \in DOMAIN peers' : peers'[u] \in PeerState
    BY <1>11 DEF RemovePeer
  <2> QED
    BY <1>11, <2>1 DEF RemovePeer
<1>12. CASE Restart
  <2>1. DOMAIN peers' \subseteq Peers /\ \A u \in DOMAIN peers' : peers'[u] \in PeerState
    BY <1>12, SeededType DEF Restart
  <2> QED
    BY <1>12, <2>1 DEF Restart
<1> QED
  BY <1>1, <1>2, <1>3, <1>4, <1>5, <1>6, <1>7, <1>8, <1>9, <1>10, <1>11, <1>12
  DEF Next, Environment, Step

\* The tables, and every chain of fetches with what it read before it waited, stay
\* well typed for any peers, keys and stores.
LEMMA TypeInvariant == Spec => []TypeInv
<1>1. Init => TypeInv
  <2> SUFFICES ASSUME Init PROVE TypeInv
    OBVIOUS
  <2>1. now \in 0..MaxTime
    BY MeshAssumption DEF Init
  <2>2. DOMAIN peers \subseteq Peers /\ \A u \in DOMAIN peers : peers[u] \in PeerState
    <3>1. DOMAIN <<>> = {}
      OBVIOUS
    <3>2. DOMAIN peers = Seeds /\ \A u \in Seeds : peers[u] = NewPeer(NoSigner)
      BY <3>1 DEF Init, Seeded
    <3> QED
      BY <3>2, MeshTypes
  <2>3. \A p \in Peers : served[p] = {} /\ IsFiniteSet(served[p])
    BY FS_EmptySet DEF Init
  <2> QED
    BY <2>1, <2>2, <2>3 DEF Init, TypeInv, TypeOK
<1> QED
  BY <1>1, TypeStep, PTL DEF Spec

THEOREM MeshTypeCorrect == Spec => []TypeOK
BY TypeInvariant, PTL DEF TypeInv

-----------------------------------------------------------------------------
(* The walk over the pages. *)

\* The records of the store due to the sync that it must leave in the table.
OwedBy(sync, store) ==
    {r \in sync.due : /\ Accepts(r, sync.peer, sync.known)
                      /\ \A s \in store :
                            s.ns = r.ns /\ CursorOf(s) = CursorOf(r) => s = r}

StoredIn(rows, r) == \E s \in rows : SameObservation(s, r)

\* The base pull has not come to r yet.
Ahead(sync, r) ==
    sync.phase = "base" /\ (sync.cursor = NoCursor \/ After(r, sync.cursor))

\* How far a sync has walked through the store of its peer: what it owes is stored,
\* or lies ahead of its cursor.
Walked(sync, store, rows) ==
    /\ sync.due \subseteq store
    /\ \A r \in sync.due : r.ns = Base /\ r.ts > sync.peer.lastSyncAt
    /\ sync.url \in SendsKey =>
            \A r \in OwedBy(sync, store) : StoredIn(rows, r) \/ Ahead(sync, r)

WalkInv ==
    \A i \in Syncs : Active(i) => Walked(syncs[i], served[syncs[i].url], records)

\* The step a walk can make: its store and the table grow, its arguments stay, and
\* what was ahead is ahead or stored.
LEMMA WalkKept ==
    ASSUME NEW sync, NEW to, NEW store, NEW more, NEW rows, NEW table,
           to.url = sync.url, to.peer = sync.peer, to.known = sync.known,
           to.due = sync.due,
           store \subseteq more, rows \subseteq table,
           Walked(sync, store, rows),
           sync.url \in SendsKey =>
                \A r \in OwedBy(sync, store) :
                    Ahead(sync, r) => Ahead(to, r) \/ StoredIn(table, r)
    PROVE  Walked(to, more, table)
<1>1. OwedBy(to, more) \subseteq OwedBy(sync, store)
  BY DEF OwedBy
<1>2. \A r : StoredIn(rows, r) => StoredIn(table, r)
  BY DEF StoredIn
<1> QED
  BY <1>1, <1>2 DEF Walked

\* A record of a page from a peer that sends keys is stored if it is accepted.
LEMMA AcceptedIsStored ==
    ASSUME NEW sync \in Sync, sync.url \in SendsKey,
           NEW page \in SUBSET Rows, NEW r \in page,
           Accepts(r, sync.peer, sync.known)
    PROVE  StoredIn(WithPage(sync, page), r)
<1> DEFINE sent == Sent(sync.url, r)
<1>1. sent.key /\ SameObservation(sent.row, r)
  BY DEF Sent, SameObservation, Observation, Rows
<1> HIDE DEF sent
<1>2. \E s \in Inserted(records, sent) : SameObservation(s, sent.row)
  BY <1>1 DEF Inserted, SameObservation
<1>3. \A s : s \in records \/ s \in Inserted(records, sent) => s \in WithPage(sync, page)
  BY DEF WithPage, sent
<1> QED
  BY <1>1, <1>2, <1>3 DEF StoredIn, SameObservation

\* What a base page does not bring of what is ahead is ahead of its cursor: rows
\* come in the order of the cursor, and a page that is not full is the last.
LEMMA PageWalked ==
    ASSUME TypeInv, NEW sync \in Sync, sync.url \in SendsKey,
           NEW page \in Pages(served[sync.url], Base, sync.peer.lastSyncAt, sync.cursor, Limit),
           Walked(sync, served[sync.url], records),
           NEW r \in OwedBy(sync, served[sync.url]), Ahead(sync, r)
    PROVE  \/ StoredIn(WithPage(sync, page), r)
           \/ /\ NextCursor(page, Limit) # NoCursor
              /\ After(r, NextCursor(page, Limit))
<1> DEFINE store == served[sync.url]
           all == Eligible(store, Base, sync.peer.lastSyncAt, sync.cursor)
           last == LastOf(page)
<1>1. sync.url \in Peers /\ store \subseteq Rows /\ IsFiniteSet(store)
  BY DEF Sync, TypeInv
<1>2. page \subseteq all /\ page \in SUBSET Rows /\ IsFiniteSet(page) /\ all \subseteq store
  BY <1>1, PageRows
<1>3. r \in all /\ r \in Rows
  BY <1>1 DEF OwedBy, Walked, Ahead, Eligible
<1>4. CASE r \in page
  BY <1>2, <1>4, AcceptedIsStored DEF OwedBy
<1>5. CASE r \notin page
  <2>1. /\ Cardinality(page) = Limit
        /\ \A s \in page : ~After(s, CursorOf(r))
    <3> HIDE DEF all
    <3> QED
      BY <1>2, <1>3, <1>5 DEF Pages, all
  <2>2. last \in page /\ NextCursor(page, Limit) = CursorOf(last)
    BY <1>2, <2>1, NextCursorIs
  <2>3. last \in Rows /\ last \in store /\ last.ns = Base /\ r.ns = Base
    BY <1>2, <1>3, <2>2 DEF Eligible
  <2>4. CursorOf(last) # CursorOf(r)
    BY <1>5, <2>2, <2>3 DEF OwedBy
  <2> HIDE DEF last
  <2>5. After(r, CursorOf(last))
    BY <1>3, <2>1, <2>2, <2>3, <2>4, RowOrder
  <2> QED
    BY <2>2, <2>3, <2>5, RowCursor
<1> QED
  BY <1>4, <1>5

\* What one page more leaves of a chain of fetches.
LEMMA MovedFields ==
    ASSUME NEW sync \in Sync, NEW ns, NEW cursor, NEW first
    PROVE  LET to == MovedOn(sync, ns, cursor, first) IN
           /\ to.url = sync.url /\ to.peer = sync.peer
           /\ to.known = sync.known /\ to.due = sync.due
           /\ ns = Base /\ cursor # NoCursor =>
                to.cursor = cursor /\ to.phase = sync.phase
BY DEF MovedOn, Sync

\* One page more keeps the walk of every chain of fetches.
LEMMA PullWalked ==
    ASSUME TypeInv, WalkInv, NEW i \in Syncs, PullBase(i) \/ PullWyriwe(i)
    PROVE  WalkInv'
<1> DEFINE sync == syncs[i]
<1>1. PICK ns : /\ PullPage(i, ns)
                /\ \/ ns = Base /\ sync.phase = "base"
                   \/ ns = Wyriwe /\ sync.phase = "wyriwe"
  BY DEF PullBase, PullWyriwe
<1>2. PICK page \in Pages(served[sync.url], ns, sync.peer.lastSyncAt, sync.cursor, Limit) :
      \E first \in FirstSigners(sync, page) : Pulled(i, ns, page, first)
  BY <1>1 DEF PullPage, Pulled, MovedOn
<1>3. PICK first \in FirstSigners(sync, page) : Pulled(i, ns, page, first)
  BY <1>2
<1>4. sync \in Sync /\ Active(i)
  BY <1>1, ActiveSync, SyncOrIdle DEF TypeInv
<1> DEFINE cursor == NextCursor(page, Limit)
           to == MovedOn(sync, ns, cursor, first)
<1>5. /\ records' = WithPage(sync, page) /\ served' = served
      /\ syncs' = [syncs EXCEPT ![i] = to]
  BY <1>3 DEF Pulled
<1>6. page \in SUBSET Rows
  <2>1. sync.url \in Peers
    BY <1>4 DEF Sync
  <2> QED
    BY <1>2, <2>1, PageRows
<1>7. records \subseteq records'
  BY <1>4, <1>5, <1>6, PageType
<1>8. Walked(sync, served[sync.url], records)
  BY <1>4 DEF WalkInv
<1>9. /\ to.url = sync.url /\ to.peer = sync.peer
      /\ to.known = sync.known /\ to.due = sync.due
      /\ ns = Base /\ cursor # NoCursor => to.cursor = cursor /\ to.phase = sync.phase
  BY <1>4, MovedFields
<1>10. ASSUME sync.url \in SendsKey, NEW r \in OwedBy(sync, served[sync.url]), Ahead(sync, r)
       PROVE  Ahead(to, r) \/ StoredIn(records', r)
  <2>1. ns = Base /\ sync.phase = "base"
    BY <1>1, <1>10 DEF Ahead
  <2>2. \/ StoredIn(records', r)
        \/ cursor # NoCursor /\ After(r, cursor)
    BY <1>2, <1>4, <1>5, <1>8, <1>10, <2>1, PageWalked
  <2> HIDE DEF to, cursor, sync
  <2> QED
    BY <1>9, <2>1, <2>2 DEF Ahead
<1>11. Walked(to, served[sync.url], records')
  <2> HIDE DEF to, sync
  <2> QED
    BY <1>7, <1>8, <1>9, <1>10, WalkKept
<1>12. ASSUME NEW j \in Syncs, syncs'[j] # Idle
       PROVE  Walked(syncs'[j], served'[syncs'[j].url], records')
  <2>1. CASE j = i
    <3>1. syncs'[j] = to
      BY <1>5, <2>1 DEF TypeInv, TypeOK
    <3> HIDE DEF to
    <3> QED
      BY <1>5, <1>9, <1>11, <3>1
  <2>2. CASE j # i
    <3>1. syncs'[j] = syncs[j]
      BY <1>5, <2>2 DEF TypeInv, TypeOK
    <3>2. Walked(syncs[j], served[syncs[j].url], records)
      BY <1>12, <3>1 DEF WalkInv, Active
    <3> QED
      BY <1>5, <1>7, <3>1, <3>2, WalkKept
  <2> QED
    BY <2>1, <2>2
<1> QED
  BY <1>12 DEF WalkInv, Active

\* A chain that ends, or adds rows and changes nothing the walk looks at, keeps it.
LEMMA OthersWalked ==
    ASSUME TypeInv, WalkInv, NEW i \in Syncs, NEW to \in Sync \cup {Idle},
           syncs' = [syncs EXCEPT ![i] = to],
           served' = served, records \subseteq records',
           to # Idle => Walked(to, served[to.url], records')
    PROVE  WalkInv'
<1>1. ASSUME NEW j \in Syncs, syncs'[j] # Idle
      PROVE  Walked(syncs'[j], served'[syncs'[j].url], records')
  <2>1. CASE j = i
    <3>1. syncs'[j] = to
      BY <2>1 DEF TypeInv, TypeOK
    <3> QED
      BY <1>1, <3>1
  <2>2. CASE j # i
    <3>1. syncs'[j] = syncs[j]
      BY <2>2 DEF TypeInv, TypeOK
    <3>2. Walked(syncs[j], served[syncs[j].url], records)
      BY <1>1, <3>1 DEF WalkInv, Active
    <3> QED
      BY <3>1, <3>2, WalkKept
  <2> QED
    BY <2>1, <2>2
<1> QED
  BY <1>1 DEF WalkInv, Active

\* Whatever the node, its peers and its administrator do, no sync loses its way.
LEMMA WalkStep == TypeInv /\ WalkInv /\ [Next]_vars => WalkInv'
<1> SUFFICES ASSUME TypeInv, WalkInv, [Next]_vars PROVE WalkInv'
  OBVIOUS
<1>1. ASSUME UNCHANGED <<served, records, syncs>> PROVE WalkInv'
  BY <1>1 DEF WalkInv, Active
<1>2. ASSUME NEW p \in Peers, NEW row \in Pool[p], PeerStores(p, row) PROVE WalkInv'
  <2>1. /\ syncs' = syncs /\ records' = records
        /\ \A u \in Peers : served[u] \subseteq served'[u]
    BY <1>2 DEF PeerStores, TypeInv
  <2>2. ASSUME NEW j \in Syncs, Active(j)
        PROVE  Walked(syncs[j], served'[syncs[j].url], records)
    <3>1. syncs[j].url \in Peers
      BY <2>2, SyncOrIdle, ActiveSync DEF TypeInv
    <3>2. Walked(syncs[j], served[syncs[j].url], records)
      BY <2>2 DEF WalkInv
    <3> QED
      BY <2>1, <3>1, <3>2, WalkKept
  <2> QED
    BY <2>1, <2>2 DEF WalkInv, Active
<1>3. ASSUME NEW i \in Syncs, NEW url \in Peers, StartSync(i, url) PROVE WalkInv'
  <2> DEFINE new == [phase |-> "base", url |-> url, peer |-> peers[url],
                     known |-> {peers[u].signer : u \in DOMAIN peers} \ {NoSigner},
                     cursor |-> NoCursor, signer |-> NoSigner, wsigner |-> NoSigner,
                     due |-> {r \in served[url] : r.ns = Base /\ r.ts > peers[url].lastSyncAt}]
  <2>1. syncs' = [syncs EXCEPT ![i] = new] /\ served' = served /\ records' = records
    BY <1>3 DEF StartSync
  <2>2. syncs' \in [Syncs -> Sync \cup {Idle}]
    <3>1. TypeInv'
      BY TypeStep
    <3> QED
      BY <3>1 DEF TypeInv, TypeOK
  <2>3. new \in Sync \cup {Idle}
    <3> HIDE DEF new
    <3> QED
      BY <2>1, <2>2 DEF TypeInv, TypeOK
  <2>4. Walked(new, served[new.url], records)
    BY DEF Walked, OwedBy, Ahead
  <2> HIDE DEF new
  <2> QED
    BY <2>1, <2>3, <2>4, OthersWalked
<1>4. ASSUME NEW i \in Syncs, PullBase(i) \/ PullWyriwe(i) PROVE WalkInv'
  BY <1>4, PullWalked
<1>5. ASSUME NEW i \in Syncs, Fail(i) \/ Finish(i) PROVE WalkInv'
  <2>1. syncs' = [syncs EXCEPT ![i] = Idle] /\ served' = served
    BY <1>5 DEF Fail, Finish
  <2>2. records \subseteq records'
    <3>1. CASE Fail(i)
      <4>1. syncs[i] \in Sync
        BY <3>1, ActiveSync DEF Fail, TypeInv
      <4> QED
        BY <3>1, <4>1, InterruptedGrows DEF Fail
    <3>2. CASE Finish(i)
      BY <3>2 DEF Finish
    <3> QED
      BY <1>5, <3>1, <3>2
  <2> QED
    BY <2>1, <2>2, OthersWalked
<1>6. ASSUME NEW i \in Syncs, FailWyriwe(i) PROVE WalkInv'
  <2>1. PICK learned : syncs' = [syncs EXCEPT ![i] = WithoutWyriwe(syncs[i], learned)]
    BY <1>6 DEF FailWyriwe, WithoutWyriwe
  <2>2. PICK new : new = WithoutWyriwe(syncs[i], learned)
    OBVIOUS
  <2>3. syncs[i] \in Sync /\ syncs[i].phase = "wyriwe" /\ Active(i)
    BY <1>6, ActiveSync, SyncOrIdle DEF FailWyriwe, TypeInv
  <2>4. new.url = syncs[i].url /\ new.peer = syncs[i].peer
        /\ new.known = syncs[i].known /\ new.due = syncs[i].due
    BY <2>2, <2>3 DEF WithoutWyriwe, Sync
  <2>5. ~\E r : Ahead(syncs[i], r)
    BY <2>3 DEF Ahead
  <2>6. Walked(syncs[i], served[syncs[i].url], records)
    BY <2>3 DEF WalkInv
  <2>9. served' = served /\ records \subseteq records'
    BY <1>6, <2>3, InterruptedGrows DEF FailWyriwe
  <2>7. Walked(new, served[new.url], records')
    BY <2>4, <2>5, <2>6, <2>9, WalkKept
  <2>8. new \in Sync \cup {Idle}
    <3>1. TypeInv'
      BY TypeStep
    <3>2. syncs'[i] = new
      BY <2>1, <2>2 DEF TypeInv, TypeOK
    <3> QED
      BY <3>1, <3>2 DEF TypeInv, TypeOK
  <2> QED
    BY <2>1, <2>2, <2>7, <2>8, <2>9, OthersWalked
<1>7. CASE Restart
  BY <1>7 DEF Restart, WalkInv, Active
<1>8. ASSUME \/ UNCHANGED vars \/ Tick
             \/ \E p \in Peers, key \in Signers : PeerRekeys(p, key)
             \/ \E url \in Peers : AddPeer(url) \/ RemovePeer(url)
      PROVE  WalkInv'
  BY <1>1, <1>8 DEF vars, Tick, PeerRekeys, AddPeer, RemovePeer
<1> QED
  BY <1>2, <1>3, <1>4, <1>5, <1>6, <1>7, <1>8 DEF Next, Environment, Step

\* For any page size and any peers whose stores grow while they are read: when the
\* base pull of a peer that sends keys is over, every record it owes is stored.
THEOREM WalkMissesNothing == Spec => []WalkComplete
<1>1. Init => WalkInv
  BY DEF Init, WalkInv, Active
<1>2. TypeInv /\ WalkInv => WalkComplete
  BY DEF WalkInv, WalkComplete, Walked, Ahead, OwedBy, Owed, StoredIn, Stored
<1> QED
  BY <1>1, <1>2, TypeInvariant, WalkStep, PTL DEF Spec

-----------------------------------------------------------------------------
(* Discovery. *)

\* A blocked URL becomes a peer by the administrator's hand, the start of the
\* process or the write-back of its own sync, and never by what a peer lists.
THEOREM BlockIsRespected == Spec => DiscoveryRespectsBlock
<1> DEFINE Allowed(u) ==
        \/ u \in readded'
        \/ restarts' # restarts /\ u \in Seeds
        \/ \E i \in Syncs : Active(i) /\ syncs[i].url = u /\ syncs'[i] = Idle
<1>1. ASSUME TypeInv, [Next]_vars, NEW u \in blocked, u \in DOMAIN peers' \ DOMAIN peers
      PROVE  Allowed(u)
  <2>1. CASE UNCHANGED peers
    BY <1>1, <2>1
  <2>2. ASSUME NEW i \in Syncs, Fail(i) PROVE Allowed(u)
    <3>1. u = syncs[i].url /\ Active(i)
      BY <1>1, <2>2, SyncOrIdle DEF Fail, Upserted, TypeInv
    <3>2. syncs'[i] = Idle
      BY <1>1, <2>2 DEF Fail, TypeInv, TypeOK
    <3> QED
      BY <3>1, <3>2
  <2>3. ASSUME NEW i \in Syncs, Finish(i) PROVE Allowed(u)
    <3>1. u = syncs[i].url /\ Active(i)
      BY <1>1, <2>3, FinishType, SyncOrIdle DEF Finish, TypeInv
    <3>2. syncs'[i] = Idle
      BY <1>1, <2>3 DEF Finish, TypeInv, TypeOK
    <3> QED
      BY <3>1, <3>2
  <2>4. ASSUME NEW url \in Peers, AddPeer(url) PROVE Allowed(u)
    BY <1>1, <2>4 DEF AddPeer, Upserted
  <2>5. ASSUME NEW url \in Peers, RemovePeer(url) PROVE Allowed(u)
    BY <1>1, <2>5 DEF RemovePeer
  <2>6. CASE Restart
    BY <1>1, <2>6 DEF Restart, Seeded, TypeInv
  <2> QED
    BY <1>1, <2>1, <2>2, <2>3, <2>4, <2>5, <2>6
    DEF Next, vars, Environment, Step, Tick, PeerStores, PeerRekeys, StartSync,
        PullBase, PullWyriwe, PullPage, FailWyriwe
<1>2. TypeInv /\ [Next]_vars =>
        [\A u \in blocked : u \in DOMAIN peers' \ DOMAIN peers =>
            \/ u \in readded'
            \/ restarts' # restarts /\ u \in Seeds
            \/ \E i \in Syncs : Active(i) /\ syncs[i].url = u /\ syncs'[i] = Idle]_vars
  BY <1>1
<1> QED
  BY <1>2, TypeInvariant, PTL DEF Spec, DiscoveryRespectsBlock

-----------------------------------------------------------------------------
(* The table that is filled from the peers. *)

\* Two rows of one observation are one, in each store and in the table; and what is
\* in the table was served.
ReplicaInv ==
    /\ \A p \in Peers : Replica!OneOfEachKey(served[p])
    /\ Replica!OneOfEachKey(records)
    /\ StoredWereServed

\* What a row becomes on its way says the same and is from a peer that sends keys, if
\* it is inserted at all.
LEMMA SentRow ==
    ASSUME NEW url, NEW r \in Rows
    PROVE  /\ Observation(Sent(url, r).row) = Observation(r)
           /\ Sent(url, r).key <=> url \in SendsKey
BY DEF Sent, Observation, Rows

\* What a page adds to the table: rows of it, of observations that were not there.
LEMMA PageAdds ==
    ASSUME TypeInv, NEW sync \in Sync, NEW page \in SUBSET Rows
    PROVE  \A s \in WithPage(sync, page) :
               \/ s \in records
               \/ /\ sync.url \in SendsKey
                  /\ \A t \in records : Observation(t) # Observation(s)
                  /\ \E r \in page : /\ s = Sent(sync.url, r).row
                                    /\ Observation(s) = Observation(r)
<1> SUFFICES ASSUME NEW s \in WithPage(sync, page), s \notin records
             PROVE  /\ sync.url \in SendsKey
                    /\ \A t \in records : Observation(t) # Observation(s)
                    /\ \E r \in page : /\ s = Sent(sync.url, r).row
                                      /\ Observation(s) = Observation(r)
  OBVIOUS
<1>1. PICK r \in page : s \in Inserted(records, Sent(sync.url, r))
  BY DEF WithPage
<1> DEFINE sent == Sent(sync.url, r)
<1>2. Observation(sent.row) = Observation(r) /\ (sent.key <=> sync.url \in SendsKey)
  BY SentRow
<1> HIDE DEF sent
<1>3. /\ sent.key /\ s = sent.row
      /\ \A t \in records : Observation(t) # Observation(sent.row)
  BY <1>1 DEF Inserted, SameObservation, sent
<1> QED
  BY <1>2, <1>3 DEF sent

\* Inserting a page is one transaction on the table, in whatever order its rows come.
LEMMA PageOnce ==
    ASSUME TypeInv, ReplicaInv, NEW sync \in Sync, NEW page \in SUBSET Rows,
           page \subseteq served[sync.url]
    PROVE  /\ Replica!OneOfEachKey(WithPage(sync, page))
           /\ \A s \in WithPage(sync, page) :
                  \E p \in SendsKey : \E r \in served[p] : s = Sent(p, r).row
<1>1. sync.url \in Peers
  BY DEF Sync
<1>2. ASSUME NEW s \in WithPage(sync, page), NEW t \in WithPage(sync, page),
             Observation(s) = Observation(t)
      PROVE  s = t
  <2>1. CASE s \in records /\ t \in records
    BY <1>2, <2>1 DEF ReplicaInv, Replica!OneOfEachKey
  <2>2. CASE s \in records /\ t \notin records
    BY <1>2, <2>2, PageAdds
  <2>3. CASE s \notin records /\ t \in records
    BY <1>2, <2>3, PageAdds
  <2>4. CASE s \notin records /\ t \notin records
    <3>1. PICK x \in page : s = Sent(sync.url, x).row /\ Observation(s) = Observation(x)
      BY <2>4, PageAdds
    <3>2. PICK y \in page : t = Sent(sync.url, y).row /\ Observation(t) = Observation(y)
      BY <2>4, PageAdds
    <3>3. x = y
      BY <1>1, <1>2, <3>1, <3>2 DEF ReplicaInv, Replica!OneOfEachKey
    <3> QED
      BY <3>1, <3>2, <3>3
  <2> QED
    BY <2>1, <2>2, <2>3, <2>4
<1>3. ASSUME NEW s \in WithPage(sync, page)
      PROVE  \E p \in SendsKey : \E r \in served[p] : s = Sent(p, r).row
  BY <1>3, PageAdds DEF ReplicaInv, StoredWereServed
<1> QED
  BY <1>2, <1>3 DEF Replica!OneOfEachKey

\* A store that grows by rows of new observations, and keeps what was served.
LEMMA StoreGrows ==
    ASSUME TypeInv, ReplicaInv, NEW p \in Peers, NEW row \in Pool[p], PeerStores(p, row)
    PROVE  ReplicaInv'
<1>1. /\ served' = [served EXCEPT ![p] = served[p] \cup {row}]
      /\ \A r \in served[p] : Observation(r) # Observation(row)
      /\ records' = records /\ served \in [Peers -> SUBSET Rows]
  BY DEF PeerStores, SameObservation, TypeInv
<1>2. \A q \in Peers : /\ served[q] \subseteq served'[q]
                       /\ served'[q] = IF q = p THEN served[p] \cup {row} ELSE served[q]
  BY <1>1
<1>3. \A q \in Peers : Replica!OneOfEachKey(served'[q])
  BY <1>1, <1>2 DEF ReplicaInv, Replica!OneOfEachKey
<1>4. SendsKey \subseteq Peers
  BY MeshAssumption
<1>5. StoredWereServed'
  BY <1>1, <1>2, <1>4 DEF ReplicaInv, StoredWereServed, Sent
<1> QED
  BY <1>1, <1>3, <1>5 DEF ReplicaInv, Replica!OneOfEachKey

\* Only pages are inserted, and each as one transaction.
LEMMA ReplicaStep ==
    TypeInv /\ ReplicaInv /\ [Next]_vars
        => ReplicaInv' /\ [Replica!OnceNext]_<<records, {}>>
<1> SUFFICES ASSUME TypeInv, ReplicaInv, [Next]_vars
             PROVE  ReplicaInv' /\ records \subseteq records'
  BY DEF ReplicaInv, Replica!OnceNext
<1>1. ASSUME NEW p \in Peers, NEW row \in Pool[p], PeerStores(p, row)
      PROVE  ReplicaInv' /\ records \subseteq records'
  BY <1>1, StoreGrows DEF PeerStores
<1>0. ASSUME NEW sync \in Sync, NEW part \in SUBSET Rows, part \subseteq served[sync.url],
             records' = WithPage(sync, part), served' = served
      PROVE  ReplicaInv' /\ records \subseteq records'
  BY <1>0, PageOnce, PageType DEF ReplicaInv, StoredWereServed
<1>2. ASSUME NEW i \in Syncs, PullBase(i) \/ PullWyriwe(i)
      PROVE  ReplicaInv' /\ records \subseteq records'
  <2> DEFINE sync == syncs[i]
  <2>1. PICK ns : PullPage(i, ns) /\ sync.phase \in {"base", "wyriwe", "finish"}
    BY <1>2 DEF PullBase, PullWyriwe
  <2>2. PICK page \in Pages(served[sync.url], ns, sync.peer.lastSyncAt, sync.cursor, Limit) :
            records' = WithPage(sync, page) /\ served' = served
    BY <2>1 DEF PullPage
  <2>3. sync \in Sync /\ sync.url \in Peers
    BY <2>1, ActiveSync DEF TypeInv
  <2>4. page \subseteq served[sync.url] /\ page \in SUBSET Rows
    <3> HIDE DEF sync
    <3> QED
      BY <2>2, <2>3, PageRows
  <2> HIDE DEF sync
  <2> QED
    BY <1>0, <2>2, <2>3, <2>4
<1>3. ASSUME NEW i \in Syncs, NEW ns, Interrupted(i, ns), served' = served,
             syncs[i].phase \in {"base", "wyriwe"}
      PROVE  ReplicaInv' /\ records \subseteq records'
  <2>1. syncs[i] \in Sync
    BY <1>3, ActiveSync DEF TypeInv
  <2>2. PICK part \in SUBSET Rows :
            part \subseteq served[syncs[i].url] /\ records' = WithPage(syncs[i], part)
    BY <1>3, <2>1, InterruptedGrows
  <2> QED
    BY <1>0, <1>3, <2>1, <2>2
<1>4. CASE UNCHANGED <<records, served>>
  BY <1>4 DEF ReplicaInv, StoredWereServed
<1> QED
  BY <1>1, <1>2, <1>3, <1>4
  DEF Next, vars, Environment, Step, Tick, PeerRekeys, StartSync, Fail, FailWyriwe,
      Finish, AddPeer, RemovePeer, Restart

\* At the start there are no rows at all.
LEMMA ReplicaStart == Init => ReplicaInv /\ Replica!OnceInit
BY DEF Init, ReplicaInv, StoredWereServed, Replica!OnceInit, Replica!OneOfEachKey

\* So both hold of every behaviour of the sync.
LEMMA ReplicaInvariant == Spec => []ReplicaInv
BY ReplicaStart, ReplicaStep, TypeInvariant, PTL DEF Spec

\* For any peers and any number of syncs at a time, of the same peer too, the table
\* they fill is a write-once table.
THEOREM RefinesReplica == Spec => ImplementsReplica
BY ReplicaStart, ReplicaStep, ReplicaInvariant, TypeInvariant, PTL
DEF Spec, ImplementsReplica, Replica!OnceSpec

\* Whatever a node has from its peers is what one of them serves, as it serves it.
THEOREM NothingIsMadeUp == Spec => []StoredWereServed
<1>1. ReplicaInv => StoredWereServed
  BY DEF ReplicaInv
<1> QED
  BY <1>1, ReplicaInvariant, PTL

-----------------------------------------------------------------------------
(* The mesh. *)

\* Of the steps of the mesh, the pull of records sees its own, and so do the messages.
LEMMA MeshRuns == MeshSpec => Spec /\ MessagesSpec
<1>1. MeshInit => Init /\ MessagesInit
  BY DEF MeshInit
<1>2. [MeshNext]_meshVars => [Next]_vars /\ [MessagesNext]_messageVars
  BY DEF MeshNext, meshVars
<1> QED
  BY <1>1, <1>2, PTL DEF MeshSpec, Spec, MessagesSpec

\* What each of the two keeps, the mesh keeps.
THEOREM MeshCorrect ==
    MeshSpec => /\ [](TypeOK /\ WalkComplete /\ StoredWereServed /\ HourlyLimit /\ SentWereStored)
                /\ DiscoveryRespectsBlock /\ ImplementsReplica
BY MeshRuns, MeshTypeCorrect, WalkMissesNothing, NothingIsMadeUp, BlockIsRespected,
   RefinesReplica, MessagesStayLimited, SentIsStored, PTL
=============================================================================
