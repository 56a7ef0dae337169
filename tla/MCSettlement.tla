----------------------------- MODULE MCSettlement -----------------------------
(***************************************************************************)
(* Small instances of Settlement.                                          *)
(***************************************************************************)
EXTENDS Settlement

CONSTANTS alice, bob, carol, p1, p2, r1, r2, tok

\* No constant names one of the two nodes or periods.
BondSymmetry == Permutations({alice, bob}) \cup Permutations({p1, p2})

\* Orders are paid in amounts 1 and 3: the smallest, whose split gives the client
\* nothing, and an odd one, whose split is uneven.
MCAmounts == {1, 3}
=============================================================================
