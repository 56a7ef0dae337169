--------------------- MODULE GenericCommitRevealSettler ---------------------
(***************************************************************************)
(* contracts/GenericCommitRevealSettler.sol: commit to a hash, reveal its  *)
(* preimage within a window, be challenged for a while.  No bonds and no   *)
(* node types: "the shared settlement primitive that typed settlers build  *)
(* on top of".  Settlement shows that the typed settler with bonds does.   *)
(***************************************************************************)
EXTENDS Naturals, Sequences

CONSTANTS
    Periods, Committers, Records,
    Zero,               \* bytes32(0)
    RevealWindow, ChallengePeriod

VARIABLES
    time,               \* block.timestamp
    commits,            \* commits[periodId][committer]
    challenges          \* _challenges[..][..], the submittedAt of each

genericVars == <<time, commits, challenges>>

\* keccak256(abi.encode(record, periodId, committer)), taken as injective.
Preimage(record, p, n) == [root |-> record, period |-> p, node |-> n]

Empty == [commitmentHash |-> Zero, committedAt |-> 0, revealedAt |-> 0, recordHash |-> Zero]

GenericInit ==
    /\ time \in Nat
    /\ commits = [p \in Periods |-> [n \in Committers |-> Empty]]
    /\ challenges = [p \in Periods |-> [n \in Committers |-> <<>>]]

Put(p, n, c) == commits' = [commits EXCEPT ![p] = [@ EXCEPT ![n] = c]]

Commit(p, n, hash) ==
    /\ hash # Zero
    /\ commits[p][n].committedAt = 0
    /\ Put(p, n, [Empty EXCEPT !.commitmentHash = hash, !.committedAt = time])
    /\ UNCHANGED <<time, challenges>>

\* A mismatch reverts, so that a step reveals only what was committed.
Reveal(p, n, record) ==
    LET c == commits[p][n] IN
    /\ c.committedAt # 0 /\ c.revealedAt = 0
    /\ time <= c.committedAt + RevealWindow
    /\ Preimage(record, p, n) = c.commitmentHash
    /\ Put(p, n, [c EXCEPT !.revealedAt = time, !.recordHash = record])
    /\ UNCHANGED <<time, challenges>>

Contest(p, n) ==
    /\ commits[p][n].revealedAt # 0
    /\ time <= commits[p][n].revealedAt + ChallengePeriod
    /\ challenges' = [challenges EXCEPT ![p] = [@ EXCEPT ![n] = Append(challenges[p][n], time)]]
    /\ UNCHANGED <<time, commits>>

NextBlock == time' > time /\ UNCHANGED <<commits, challenges>>

GenericNext ==
    \/ NextBlock
    \/ \E p \in Periods, n \in Committers :
        \/ \E record \in Records : Reveal(p, n, record)
        \/ \E q \in Periods, m \in Committers, record \in Records :
               Commit(p, n, Preimage(record, q, m))
        \/ Contest(p, n)

GenericSpec == GenericInit /\ [][GenericNext]_genericVars
=============================================================================
