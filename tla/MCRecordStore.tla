----------------------------- MODULE MCRecordStore -----------------------------
(***************************************************************************)
(* A small instance of RecordStore: one hash, two values, two peers.       *)
(***************************************************************************)
EXTENDS RecordStore

CONSTANTS base, v, w, s1, s2, p, q

Row(value, ts, by, form, highS, source) ==
    [hash |-> 1, ns |-> base, value |-> value, ts |-> ts, by |-> by,
     form |-> form, highS |-> highS, source |-> source]

Keyed(row) == [row |-> row, key |-> TRUE]

\* One message with its s low and high, and signed a second time; the same value from
\* another signer, another value, an unsigned record, and one without its key.
MCIncoming ==
    {Keyed(Row(v, 1, s1, 0, FALSE, p)), Keyed(Row(v, 1, s1, 0, TRUE, q)),
     Keyed(Row(v, 1, s1, 1, FALSE, q)),
     Keyed(Row(v, 2, s2, 0, FALSE, p)), Keyed(Row(w, 1, s2, 0, FALSE, NoSource)),
     Keyed(Row(v, 2, Unsigned, 0, FALSE, q)),
     [row |-> Row(w, 2, s1, 0, FALSE, q), key |-> FALSE]}

MCLegacy == {Row(v, 1, s1, 0, FALSE, NoSource)}
=============================================================================
