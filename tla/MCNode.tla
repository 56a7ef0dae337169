-------------------------------- MODULE MCNode --------------------------------
(***************************************************************************)
(* A small instance of the components of one node.                         *)
(***************************************************************************)
EXTENDS Node

CONSTANTS
    base, v, w, s1, s2, p, q,   \* records
    p1, Other,                  \* a period, and the signer of a peer
    k1, x1, A, B,               \* a key, a secret and two wallets
    i1, c1, c2                  \* an input and two commitments

\* One message with its s low and high, and signed a second time; the same value from
\* another signer, another value, an unsigned record, and one without its key.
RowOf(value, ts, by, form, highS, source) ==
    [hash |-> 1, ns |-> base, value |-> value, ts |-> ts, by |-> by,
     form |-> form, highS |-> highS, source |-> source]

Keyed(row) == [row |-> row, key |-> TRUE]

MCIncoming ==
    {Keyed(RowOf(v, 1, s1, 0, FALSE, p)), Keyed(RowOf(v, 1, s1, 0, TRUE, q)),
     Keyed(RowOf(v, 1, s1, 1, FALSE, q)),
     Keyed(RowOf(v, 2, s2, 0, FALSE, p)), Keyed(RowOf(w, 1, s2, 0, FALSE, NoSource)),
     Keyed(RowOf(v, 2, Unsigned, 0, FALSE, q)),
     [row |-> RowOf(w, 2, s1, 0, FALSE, q), key |-> FALSE]}

MCLegacy == {RowOf(v, 1, s1, 0, FALSE, NoSource)}

\* The image sets PORT, and the wizard the rest; or there is a key with its
\* administrator in the environment.
Image == [NoSettings EXCEPT !.port = 3000]

MCEnvironments ==
    {Image,
     [Image EXCEPT !.gatewayKey = k1, !.adminAddress = A, !.ingestSecret = x1]}

\* One commitment by two gateways, and another of the same input.
MCAttestations ==
    {[input |-> i1, commitment |-> c1, signer |-> s1],
     [input |-> i1, commitment |-> c1, signer |-> s2],
     [input |-> i1, commitment |-> c2, signer |-> s1]}
=============================================================================
