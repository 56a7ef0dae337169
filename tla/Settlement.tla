------------------------------ MODULE Settlement ------------------------------
(***************************************************************************)
(* The on-chain settlement layer: NodeRegistryV2, CommitRevealSettlerV2    *)
(* and EscrowV1 on one chain.  The settler asks the registry for the type  *)
(* of the node that commits, and its slashes run the escrow's receive()    *)
(* when the escrow is the slashRecipient.                                  *)
(***************************************************************************)
EXTENDS CommitRevealSettlerV2, EscrowV1

vars == <<chainVars, registryVars, settlerVars, escrowVars>>

Init == ChainInit /\ RegistryInit /\ SettlerInit /\ EscrowInit

\* Time passes between transactions only, and a split that is between its two
\* transfers is inside one.
BlockTick ==
    /\ splits = {}
    /\ Tick
    /\ UNCHANGED <<registryVars, settlerVars, escrowVars>>

RegistryCall ==
    /\ \E n \in Nodes, type \in NodeType : Register(n, type)
    /\ UNCHANGED <<chainVars, settlerVars, escrowVars>>

SlashingCall ==
    /\ SettlerSlashing
    /\ IF slashRecipient = Escrow THEN Receive(BOND_AMOUNT)
                                  ELSE UNCHANGED escrowVars
    /\ UNCHANGED <<now, registryVars>>

SettlerCall ==
    /\ SettlerOther
    /\ UNCHANGED <<now, registryVars, escrowVars>>

EscrowCall ==
    /\ EscrowNext
    /\ UNCHANGED <<now, registryVars, settlerVars>>

Next == BlockTick \/ RegistryCall \/ SlashingCall \/ SettlerCall \/ EscrowCall

Spec == Init /\ [][Next]_vars

TypeOK == ChainTypeOK /\ RegistryTypeOK /\ SettlerTypeOK /\ EscrowTypeOK

-----------------------------------------------------------------------------
Bonds == Periods \X Nodes

CommitOf(b) == commits[b[1]][b[2]]

\* The life of a bond as its CommitRecord tells it.
PhaseOf(c) ==
    CASE c.committedAt = 0 -> "none"
      [] c.committedAt # 0 /\ c.revealedAt = 0 /\ ~c.bondReleased -> "posted"
      [] c.committedAt # 0 /\ c.revealedAt # 0 /\ ~c.bondReleased -> "revealed"
      [] c.committedAt # 0 /\ c.revealedAt = 0 /\ c.bondReleased -> "slashed"
      [] OTHER -> "claimed"

InPhase(phases) == {b \in Bonds : PhaseOf(CommitOf(b)) \in phases}

\* The settler holds one full bond for each bond that was neither slashed nor
\* claimed, and nothing else: every claim and every slash that the windows will
\* allow can be paid (submitCommit, submitReveal, slashUnrevealed, claimBond).
SettlerBacked ==
    balance[Native][Settler] =
        BOND_AMOUNT * Cardinality(InPhase({"posted", "revealed"}))

\* Slashed bonds all arrive in the escrow's slash pool: what the pool counts is
\* never less than the bonds slashed so far (_slash, receive()).
SlashesPooled ==
    slashRecipient = Escrow =>
        slashPool >= BOND_AMOUNT * Cardinality(InPhase({"slashed"}))

\* What the escrow still owes on order o.
Due(o) ==
    CASE orders[o].status \in {"Pending", "Disputed"} -> orders[o].amount
      [] o \in splits -> AgentShare(o)
      [] OTHER -> 0

\* The units of token t that are owed, one by one, so that their number is the
\* sum of Due over the orders paid in t.
UnitsDue(t) ==
    UNION {{o} \X (1..Due(o)) : o \in {x \in OrderIds : orders[x].paymentToken = t}}

\* In every token the escrow holds what it owes on all its open orders together,
\* plus the slash pool in the native coin; also while the client of a split is
\* running.  No order is paid with the funds of another order or of the pool.  (It
\* may hold more of a token: plain transfers, and orders whose agent it was.)
EscrowBacked ==
    \A t \in Tokens :
        balance[t][Escrow] >=
            Cardinality(UnitsDue(t)) + (IF t = Native THEN slashPool ELSE 0)

\* A snapshot root is on record exactly for the bonds that were revealed, and it
\* is the root the node committed to, for that period and that node: rows of
\* another period, or committed by copying another node's hash, never get there.
RootsBound ==
    \A p \in Periods, n \in Nodes :
        LET c == commits[p][n] IN
        /\ (snapshotRoots[p][n] # NoHash) = (c.revealedAt # 0)
        /\ c.revealedAt # 0 => c.commitmentHash = Hash(snapshotRoots[p][n], p, n)

\* Every challenge on record was submitted between the reveal and the end of the
\* challenge period, and a claimed bond leaves no challenge still possible.
ChallengesInPeriod ==
    \A p \in Periods, n \in Nodes :
        LET c == commits[p][n] IN
        \A i \in DOMAIN challenges[p][n] :
            /\ c.revealedAt # 0
            /\ challenges[p][n][i] \in c.revealedAt .. c.revealedAt + CHALLENGE_PERIOD
            /\ PhaseOf(c) = "claimed" =>
                  now > challenges[p][n][i]

\* The windows of a held bond leave neither a gap nor an overlap: an unrevealed
\* one may be either revealed or slashed, a revealed one either challenged or
\* claimed, also at the very second of a deadline, and one that left, neither.
WindowsPartition ==
    \A p \in Periods, n \in Nodes :
        LET phase == PhaseOf(commits[p][n]) IN
        /\ (RevealAllowed(p, n) # SlashAllowed(p, n)) = (phase = "posted")
        /\ (ChallengeAllowed(p, n) # ClaimAllowed(p, n)) = (phase = "revealed")

\* The settler implements BondVault: no order of calls makes a bond be posted
\* twice, leave twice, be slashed after its reveal or claimed without one.
Vault == INSTANCE BondVault WITH
    Bonds <- Bonds, Price <- BOND_AMOUNT,
    phase <- [b \in Bonds |-> PhaseOf(CommitOf(b))],
    vault <- balance[Native][Settler]

ImplementsBondVault == Vault!VaultSpec

\* The settler with bonds implements the one without: whatever happens to the
\* bonds, a commitment, its reveal and its challenges are possible only when
\* GenericCommitRevealSettler has them, and a slash leaves that part untouched.
Generic == INSTANCE GenericCommitRevealSettler WITH
    Committers <- Nodes, Records <- Roots, Zero <- NoHash,
    RevealWindow <- REVEAL_WINDOW, ChallengePeriod <- CHALLENGE_PERIOD,
    time <- now,
    commits <- [p \in Periods |-> [n \in Nodes |->
        [commitmentHash |-> commits[p][n].commitmentHash,
         committedAt |-> commits[p][n].committedAt,
         revealedAt |-> commits[p][n].revealedAt,
         recordHash |-> snapshotRoots[p][n]]]]

ImplementsGeneric == Generic!GenericSpec

\* Where the bond b goes if this step lets it go.
GoesHome(b) ==
    LET from == PhaseOf(CommitOf(b))
        to == PhaseOf(CommitOf(b)')
        GetsBond(a) == balance'[Native][a] = balance[Native][a] + BOND_AMOUNT IN
    /\ from = "posted" /\ to = "slashed" => GetsBond(slashRecipient)
    /\ from = "revealed" /\ to = "claimed" => GetsBond(b[2])

\* A bond that leaves after a reveal goes back to the node that posted it, and one
\* that leaves without goes to slashRecipient, in full and by that very step.
BondsGoHome == [][\A b \in Bonds : GoesHome(b)]_vars

\* Money leaves the escrow only to the parties of an order that is settled by
\* that very step, and the client and the agent together get what it held: the
\* agent all of it when confirmed, the client all of it when refunded.  What the
\* escrow pays itself, as the agent of an order, leaves it for nobody.
PaysPartiesOnly ==
    [][\A t \in Tokens :
        balance'[t][Escrow] < balance[t][Escrow] =>
            \E o \in OrderIds :
                LET order == orders[o]
                    Gain(a) == IF a = Escrow THEN 0
                                             ELSE balance'[t][a] - balance[t][a] IN
                /\ order.paymentToken = t
                /\ Gain(order.client) + Gain(order.agent) = Due(o) - Due(o)'
                /\ Gain(order.client) >= 0 /\ Gain(order.agent) >= 0
                /\ orders'[o].status = "Confirmed" => Gain(order.client) = 0
                /\ orders'[o].status = "Refunded" => Gain(order.agent) = 0
      ]_vars

\* An order that reached a final status keeps its parties, amount and status:
\* no later call, and no later order of the same client, touches it.  (An id
\* that was refunded before it was created is not an order yet.)
SettledOrdersStay ==
    [][\A o \in OrderIds :
        orders[o].client # ZeroAddr
        /\ orders[o].status \in {"Confirmed", "Refunded", "Resolved"}
            => orders'[o] = orders[o]]_vars
=============================================================================
