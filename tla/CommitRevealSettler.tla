-------------------------- MODULE CommitRevealSettler --------------------------
(***************************************************************************)
(* contracts/CommitRevealSettler.sol: the first settler, without bonds and *)
(* windows, which the freeze of a snapshot was written for.  A commitment  *)
(* is the record of what was hashed; 0 for none, as for the times of a     *)
(* commit, of which only "is it zero" is ever asked.                       *)
(***************************************************************************)
EXTENDS Naturals

CONSTANTS
    SettlerPeriods,
    SettlerNodes,       \* callers
    NoRoot              \* bytes32(0)

VARIABLES
    settled             \* commits, snapshotRoots and revealed of a period and a node

SettlerHash(root, p, n) == [root |-> root, period |-> p, node |-> n]

V1Init ==
    settled = [p \in SettlerPeriods |-> [n \in SettlerNodes |->
                  [hash |-> NoRoot, root |-> NoRoot, revealed |-> FALSE]]]

V1Commit(p, n, hash) ==
    /\ hash # NoRoot
    /\ settled[p][n].hash = NoRoot
    /\ settled' = [settled EXCEPT ![p][n].hash = hash]

\* Mutant: the node is not part of what is compared.
V1RevealableByAny(p, n, root) ==
    /\ settled[p][n].hash # NoRoot
    /\ ~settled[p][n].revealed
    /\ root = settled[p][n].hash.root

\* What submitReveal requires of the rows that hash to root.
V1Revealable(p, n, root) ==
    /\ settled[p][n].hash # NoRoot
    /\ ~settled[p][n].revealed
    /\ SettlerHash(root, p, n) = settled[p][n].hash

V1Reveal(p, n, root) ==
    /\ V1Revealable(p, n, root)
    /\ settled' = [settled EXCEPT ![p][n].revealed = TRUE, ![p][n].root = root]
=============================================================================
