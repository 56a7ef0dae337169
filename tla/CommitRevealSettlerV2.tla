------------------------ MODULE CommitRevealSettlerV2 ------------------------
(***************************************************************************)
(* contracts/CommitRevealSettlerV2.sol: a node posts a bond with the hash  *)
(* of its snapshot for a period, reveals the snapshot within a window, may *)
(* be challenged, and takes the bond back after the challenge period.  A   *)
(* reveal that does not match, or none in time, sends the bond to          *)
(* slashRecipient.                                                         *)
(*                                                                         *)
(* keccak256 is taken as injective: a commitment hash is the record of     *)
(* what was hashed.  Every function with a native transfer writes its      *)
(* state before the transfer and nothing after it, so a callee that calls  *)
(* back adds later actions and no state in between.                        *)
(***************************************************************************)
EXTENDS Chain, NodeRegistryV2

CONSTANTS
    Periods,            \* settlement periods
    Roots,              \* snapshot roots, one for each list of rows
    NoHash,             \* bytes32(0)
    BOND_AMOUNT,
    REVEAL_WINDOW,
    CHALLENGE_PERIOD,
    slashRecipient,     \* immutable, set by the constructor
    MaxChallenges       \* bound on the challenges of one reveal

Hash(root, period, node) == [root |-> root, period |-> period, node |-> node]

Hashes == [root : Roots, period : Periods, node : Nodes]

ASSUME SettlerAssumption ==
    /\ Nodes \subseteq Users
    /\ IsFiniteSet(Periods)
    /\ NoHash \notin Hashes \cup Roots
    /\ BOND_AMOUNT \in Nat \ {0}
    /\ REVEAL_WINDOW \in Nat /\ CHALLENGE_PERIOD \in Nat
    /\ slashRecipient \in Users \cup {Escrow}
    /\ MaxChallenges \in Nat

VARIABLES
    commits,        \* commits[periodId][nodeAddress]
    snapshotRoots,  \* snapshotRoots[periodId][nodeAddress]
    challenges      \* _challenges[..][..], the submittedAt of each

settlerVars == <<commits, snapshotRoots, challenges>>

CommitRecord == [commitmentHash : Hashes \cup {NoHash},
                 committedAt : Nat, revealedAt : Nat, bondReleased : BOOLEAN]

NoCommit == [commitmentHash |-> NoHash, committedAt |-> 0,
             revealedAt |-> 0, bondReleased |-> FALSE]

SettlerInit ==
    /\ commits = [p \in Periods |-> [n \in Nodes |-> NoCommit]]
    /\ snapshotRoots = [p \in Periods |-> [n \in Nodes |-> NoHash]]
    /\ challenges = [p \in Periods |-> [n \in Nodes |-> <<>>]]

SettlerTypeOK ==
    /\ commits \in [Periods -> [Nodes -> CommitRecord]]
    /\ snapshotRoots \in [Periods -> [Nodes -> Roots \cup {NoHash}]]
    /\ challenges \in [Periods -> [Nodes -> Seq(Nat)]]

-----------------------------------------------------------------------------
SetCommit(p, n, c) == commits' = [commits EXCEPT ![p] = [@ EXCEPT ![n] = c]]

\* _slash: the bond goes to slashRecipient; a recipient that refuses it
\* reverts the whole call.
Slash ==
    /\ CanPay(Native, Settler, slashRecipient, BOND_AMOUNT)
    /\ balance' = Paid(Native, Settler, slashRecipient, BOND_AMOUNT)

\* Mutant: a second commit replaces the first.
SubmitCommitAgain(p, n, hash) ==
    /\ balance[Native][n] >= BOND_AMOUNT
    /\ hash # NoHash
    /\ MayCommit(n)
    /\ SetCommit(p, n, [commitmentHash |-> hash, committedAt |-> now,
                        revealedAt |-> 0, bondReleased |-> FALSE])
    /\ balance' = Paid(Native, n, Settler, BOND_AMOUNT)
    /\ UNCHANGED <<snapshotRoots, challenges>>

\* The caller may submit any non-zero hash, one made for another node or for
\* another period included.
SubmitCommit(p, n, hash) ==
    /\ balance[Native][n] >= BOND_AMOUNT
    /\ hash # NoHash
    /\ commits[p][n].committedAt = 0
    /\ MayCommit(n)
    /\ SetCommit(p, n, [commitmentHash |-> hash, committedAt |-> now,
                        revealedAt |-> 0, bondReleased |-> FALSE])
    /\ balance' = Paid(Native, n, Settler, BOND_AMOUNT)
    /\ UNCHANGED <<snapshotRoots, challenges>>

\* The requires of submitReveal (before it looks at the rows), slashUnrevealed,
\* challenge and claimBond.
RevealAllowed(p, n) ==
    LET c == commits[p][n] IN
    /\ c.committedAt # 0 /\ c.revealedAt = 0 /\ ~c.bondReleased
    /\ now <= c.committedAt + REVEAL_WINDOW

\* Mutants: the deadline itself counts as missed; a revealed bond counts too.
SlashAllowedAtDeadline(p, n) ==
    LET c == commits[p][n] IN
    /\ c.committedAt # 0 /\ c.revealedAt = 0 /\ ~c.bondReleased
    /\ now >= c.committedAt + REVEAL_WINDOW

SlashAllowedRevealed(p, n) ==
    LET c == commits[p][n] IN
    /\ c.committedAt # 0 /\ ~c.bondReleased
    /\ now > c.committedAt + REVEAL_WINDOW

SlashAllowed(p, n) ==
    LET c == commits[p][n] IN
    /\ c.committedAt # 0 /\ c.revealedAt = 0 /\ ~c.bondReleased
    /\ now > c.committedAt + REVEAL_WINDOW

\* Mutant: no deadline.
ChallengeAllowedForever(p, n) ==
    LET c == commits[p][n] IN c.revealedAt # 0 /\ ~c.bondReleased

ChallengeAllowed(p, n) ==
    LET c == commits[p][n] IN
    /\ c.revealedAt # 0 /\ ~c.bondReleased
    /\ now <= c.revealedAt + CHALLENGE_PERIOD

ClaimAllowed(p, n) ==
    LET c == commits[p][n] IN
    /\ c.revealedAt # 0 /\ ~c.bondReleased
    /\ now > c.revealedAt + CHALLENGE_PERIOD

\* Mutant: the period and the node are not part of what is compared.
RevealMatchRootOnly(p, n, root) ==
    /\ RevealAllowed(p, n)
    /\ root = commits[p][n].commitmentHash.root
    /\ SetCommit(p, n, [commits[p][n] EXCEPT !.revealedAt = now])
    /\ snapshotRoots' = [snapshotRoots EXCEPT ![p] = [@ EXCEPT ![n] = root]]
    /\ UNCHANGED <<challenges, balance>>

\* The rows hash to the commitment: the root is recorded.
RevealMatch(p, n, root) ==
    /\ RevealAllowed(p, n)
    /\ Hash(root, p, n) = commits[p][n].commitmentHash
    /\ SetCommit(p, n, [commits[p][n] EXCEPT !.revealedAt = now])
    /\ snapshotRoots' = [snapshotRoots EXCEPT ![p] = [@ EXCEPT ![n] = root]]
    /\ UNCHANGED <<challenges, balance>>

\* They do not: the bond is lost and the call returns without reverting.
RevealMismatch(p, n, root) ==
    /\ RevealAllowed(p, n)
    /\ Hash(root, p, n) # commits[p][n].commitmentHash
    /\ SetCommit(p, n, [commits[p][n] EXCEPT !.bondReleased = TRUE])
    /\ Slash
    /\ UNCHANGED <<snapshotRoots, challenges>>

SlashUnrevealed(p, n) ==
    /\ SlashAllowed(p, n)
    /\ SetCommit(p, n, [commits[p][n] EXCEPT !.bondReleased = TRUE])
    /\ Slash
    /\ UNCHANGED <<snapshotRoots, challenges>>

Challenge(p, n) ==
    /\ ChallengeAllowed(p, n)
    /\ Len(challenges[p][n]) < MaxChallenges
    /\ challenges' = [challenges EXCEPT ![p] = [@ EXCEPT ![n] = Append(challenges[p][n], now)]]
    /\ UNCHANGED <<commits, snapshotRoots, balance>>

\* Mutant: the bond is paid and not marked as released.
ClaimBondUnmarked(p, n) ==
    /\ ClaimAllowed(p, n)
    /\ CanPay(Native, Settler, n, BOND_AMOUNT)
    /\ balance' = Paid(Native, Settler, n, BOND_AMOUNT)
    /\ UNCHANGED <<commits, snapshotRoots, challenges>>

\* Unconditional once the challenge period is over, challenged or not.
ClaimBond(p, n) ==
    /\ ClaimAllowed(p, n)
    /\ SetCommit(p, n, [commits[p][n] EXCEPT !.bondReleased = TRUE])
    /\ CanPay(Native, Settler, n, BOND_AMOUNT)
    /\ balance' = Paid(Native, Settler, n, BOND_AMOUNT)
    /\ UNCHANGED <<snapshotRoots, challenges>>

\* The calls of this contract that pay slashRecipient, and those that do not.
SettlerSlashing ==
    \E p \in Periods, n \in Nodes :
        \/ \E root \in Roots : RevealMismatch(p, n, root)
        \/ SlashUnrevealed(p, n)

SettlerOther ==
    \E p \in Periods, n \in Nodes :
        \/ \E hash \in Hashes : SubmitCommit(p, n, hash)
        \/ \E root \in Roots : RevealMatch(p, n, root)
        \/ Challenge(p, n)
        \/ ClaimBond(p, n)
=============================================================================
