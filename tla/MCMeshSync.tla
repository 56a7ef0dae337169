------------------------------ MODULE MCMeshSync ------------------------------
(***************************************************************************)
(* Small instances of MeshSync.                                            *)
(***************************************************************************)
EXTENDS MeshSync, TLC

CONSTANTS a, b, c, ka, kb, kc, v, w, base, wyriwe

Row(hash, ns, value, ts, by) ==
    [hash |-> hash, ns |-> ns, value |-> value, ts |-> ts, by |-> by,
     form |-> 0, highS |-> FALSE, source |-> NoSource]

\* Of a, two pages of one record of the same second, one unsigned; of b, a wyriwe
\* record.
MCPool == (a :> {Row(1, base, v, 1, ka), Row(2, base, v, 1, Unsigned)})
          @@ (b :> {Row(1, wyriwe, v, 1, kb)})

\* a may change from ka to kc.
MCKeys == (a :> {ka, kc}) @@ (b :> {kb})

\* One key each.
MCFixedKeys == (a :> {ka}) @@ (b :> {kb})

\* b serves its own record and one of a that it relays.
MCSigned == (a :> {Row(1, base, v, 1, ka)})
            @@ (b :> {Row(1, base, v, 1, ka), Row(2, base, v, 1, kb)})
=============================================================================
