--------------------------- MODULE SettlementProofs ---------------------------
(***************************************************************************)
(* What TLAPS proves of Settlement for every value of its constants.       *)
(***************************************************************************)
EXTENDS Settlement, TLAPS, FiniteSetTheorems, SequenceTheorems

USE DEF Accounts

-----------------------------------------------------------------------------
\* Money is neither negative nor owned by nobody: a payment the payer can make
\* leaves every balance a natural number.
LEMMA PaidType ==
    ASSUME ChainTypeOK, NEW t \in Tokens, NEW from \in Accounts,
           NEW to \in Accounts, NEW amount \in Nat,
           balance[t][from] >= amount
    PROVE  Paid(t, from, to, amount) \in [Tokens -> [Accounts -> Nat]]
<1>1. balance[t] \in [Accounts -> Nat]
  BY DEF ChainTypeOK
<1>2. Moved(balance[t], from, to, amount) \in [Accounts -> Nat]
  BY <1>1 DEF Moved
<1> QED
  BY <1>2 DEF ChainTypeOK, Paid

\* The addresses the contracts pay to and from are accounts, the bond is an amount.
LEMMA ConstantTypes ==
    /\ Nodes \subseteq Accounts /\ slashRecipient \in Accounts
    /\ Settler \in Accounts /\ Escrow \in Accounts
    /\ BOND_AMOUNT \in Nat \ {0} /\ Native \in Tokens
    /\ Amounts \subseteq Nat \ {0} /\ Clients \subseteq Users
    /\ Agents \subseteq Accounts /\ Donors \subseteq Users
    /\ MaxOrders \in Nat /\ NoHash \notin Hashes /\ NoHash \notin Roots
BY ChainAssumption, SettlerAssumption, EscrowAssumption

\* Users are neither of the two contracts.
LEMMA UsersAreOutside ==
    /\ Users \cup {ZeroAddr} \subseteq Accounts \ {Settler, Escrow}
    /\ Clients \subseteq Accounts \ {Settler, Escrow}
    /\ Donors \subseteq Accounts \ {Settler, Escrow}
<1>1. Users \cup {ZeroAddr} \subseteq Accounts \ {Settler, Escrow}
  BY ChainAssumption
<1> QED
  BY <1>1, ConstantTypes

\* What an order holds, and each share of its split, is an amount of its token.
LEMMA OrderTypes ==
    ASSUME EscrowTypeOK, NEW o \in OrderIds
    PROVE  /\ orders[o] \in Order
           /\ orders[o].client \in Accounts /\ orders[o].agent \in Accounts
           /\ orders[o].paymentToken \in Tokens /\ orders[o].amount \in Nat
           /\ ClientShare(o) \in Nat /\ AgentShare(o) \in Nat
           /\ ClientShare(o) + AgentShare(o) = orders[o].amount
<1>1. orders[o] \in Order
  BY DEF EscrowTypeOK
<1>2. orders[o].amount \in Nat
  <2>1. orders[o].amount \in Amounts \cup {0}
    BY <1>1 DEF Order
  <2>2. Amounts \cup {0} \subseteq Nat
    BY ConstantTypes
  <2> QED
    BY <2>1, <2>2
<1>3. ClientShare(o) \in Nat /\ AgentShare(o) \in Nat
      /\ ClientShare(o) + AgentShare(o) = orders[o].amount
  BY <1>2 DEF ClientShare, AgentShare
<1> QED
  BY <1>1, <1>2, <1>3 DEF Order

-----------------------------------------------------------------------------
(* Type correctness: one lemma for each component's calls. *)

\* Writing one commit record leaves the table well typed.
LEMMA SetCommitType ==
    ASSUME SettlerTypeOK, NEW p \in Periods, NEW n \in Nodes,
           NEW c \in CommitRecord, SetCommit(p, n, c)
    PROVE  commits' \in [Periods -> [Nodes -> CommitRecord]]
<1>1. [commits[p] EXCEPT ![n] = c] \in [Nodes -> CommitRecord]
  BY DEF SettlerTypeOK
<1> QED
  BY <1>1 DEF SetCommit, SettlerTypeOK

\* The records the calls write: a new one, one just revealed, one just released.
LEMMA CommitRecords ==
    ASSUME ChainTypeOK, SettlerTypeOK, NEW p \in Periods, NEW n \in Nodes
    PROVE  /\ commits[p][n] \in CommitRecord
           /\ [commits[p][n] EXCEPT !.revealedAt = now] \in CommitRecord
           /\ [commits[p][n] EXCEPT !.bondReleased = TRUE] \in CommitRecord
           /\ \A hash \in Hashes :
                [commitmentHash |-> hash, committedAt |-> now,
                 revealedAt |-> 0, bondReleased |-> FALSE] \in CommitRecord
<1>1. commits[p][n] \in CommitRecord
  BY DEF SettlerTypeOK
<1>2. now \in Nat
  BY DEF ChainTypeOK
<1> QED
  BY <1>1, <1>2 DEF CommitRecord

\* A call that slashes leaves every variable of the settler, and the escrow that
\* may receive the bond, well typed.
LEMMA SlashingType ==
    ASSUME TypeOK, SettlerSlashing
    PROVE  SettlerTypeOK' /\ balance' \in [Tokens -> [Accounts -> Nat]]
<1> USE ConstantTypes DEF TypeOK
<1> PICK p \in Periods, n \in Nodes :
        \/ \E root \in Roots : RevealMismatch(p, n, root)
        \/ SlashUnrevealed(p, n)
  BY DEF SettlerSlashing
<1>1. commits' = [commits EXCEPT ![p] =
                    [@ EXCEPT ![n] = [commits[p][n] EXCEPT !.bondReleased = TRUE]]]
      /\ UNCHANGED <<snapshotRoots, challenges>> /\ Slash
  BY DEF RevealMismatch, SlashUnrevealed, SetCommit
<1>2. SettlerTypeOK'
  BY <1>1, SetCommitType, CommitRecords DEF SettlerTypeOK, SetCommit
<1>3. balance' \in [Tokens -> [Accounts -> Nat]]
  BY <1>1, PaidType DEF Slash, CanPay
<1> QED
  BY <1>2, <1>3

\* So do the settler's other calls.
LEMMA SettlerOtherType ==
    ASSUME TypeOK, SettlerOther
    PROVE  SettlerTypeOK' /\ balance' \in [Tokens -> [Accounts -> Nat]]
<1> USE ConstantTypes DEF TypeOK
<1> PICK p \in Periods, n \in Nodes :
        \/ \E hash \in Hashes : SubmitCommit(p, n, hash)
        \/ \E root \in Roots : RevealMatch(p, n, root)
        \/ Challenge(p, n)
        \/ ClaimBond(p, n)
  BY DEF SettlerOther
<1>1. ASSUME NEW hash \in Hashes, SubmitCommit(p, n, hash)
      PROVE  SettlerTypeOK' /\ balance' \in [Tokens -> [Accounts -> Nat]]
  <2>1. SettlerTypeOK'
    BY <1>1, SetCommitType, CommitRecords DEF SubmitCommit, SettlerTypeOK
  <2>2. balance' \in [Tokens -> [Accounts -> Nat]]
    BY <1>1, PaidType DEF SubmitCommit
  <2> QED
    BY <2>1, <2>2
<1>2. ASSUME NEW root \in Roots, RevealMatch(p, n, root)
      PROVE  SettlerTypeOK' /\ balance' \in [Tokens -> [Accounts -> Nat]]
  <2>1. commits' \in [Periods -> [Nodes -> CommitRecord]]
    BY <1>2, SetCommitType, CommitRecords DEF RevealMatch
  <2>2. [snapshotRoots[p] EXCEPT ![n] = root] \in [Nodes -> Roots \cup {NoHash}]
    BY DEF SettlerTypeOK
  <2>3. snapshotRoots' \in [Periods -> [Nodes -> Roots \cup {NoHash}]]
    BY <1>2, <2>2 DEF RevealMatch, SettlerTypeOK
  <2> QED
    BY <1>2, <2>1, <2>3 DEF RevealMatch, SettlerTypeOK, ChainTypeOK
<1>3. CASE Challenge(p, n)
  <2>1. Append(challenges[p][n], now) \in Seq(Nat)
    BY DEF SettlerTypeOK, ChainTypeOK
  <2>2. [challenges[p] EXCEPT ![n] = Append(challenges[p][n], now)]
            \in [Nodes -> Seq(Nat)]
    BY <2>1 DEF SettlerTypeOK
  <2> QED
    BY <1>3, <2>2 DEF Challenge, SettlerTypeOK, ChainTypeOK
<1>4. CASE ClaimBond(p, n)
  <2>1. SettlerTypeOK'
    BY <1>4, SetCommitType, CommitRecords DEF ClaimBond, SettlerTypeOK
  <2>2. balance' \in [Tokens -> [Accounts -> Nat]]
    BY <1>4, PaidType DEF ClaimBond, CanPay
  <2> QED
    BY <2>1, <2>2
<1> QED
  BY <1>1, <1>2, <1>3, <1>4

\* So does every call of the escrow, the transfer of a split's second half included.
LEMMA EscrowType ==
    ASSUME TypeOK, EscrowNext
    PROVE  EscrowTypeOK' /\ balance' \in [Tokens -> [Accounts -> Nat]]
<1> DEFINE Goal == EscrowTypeOK' /\ balance' \in [Tokens -> [Accounts -> Nat]]
<1> USE ConstantTypes DEF TypeOK
<1>1. ASSUME NEW sender \in Users, NEW arb \in Arbiters, NEW active \in BOOLEAN,
             SetArbitrator(sender, arb, active)
      PROVE  Goal
  BY <1>1, EscrowAssumption DEF SetArbitrator, EscrowTypeOK, ChainTypeOK
<1>0. ASSUME NEW t, NEW amount \in Nat
      PROVE  PoolAfter(t, amount) \in Nat
  BY DEF PoolAfter, EscrowTypeOK
<1>2. ASSUME NEW u \in Donors, NEW t \in Tokens, NEW amount \in Amounts,
             Donate(u, t, amount)
      PROVE  Goal
  <2>1. balance' \in [Tokens -> [Accounts -> Nat]]
    BY <1>2, PaidType DEF Donate
  <2>2. amount \in Nat
    BY ConstantTypes
  <2>3. slashPool' \in Nat
    BY <1>0, <1>2, <2>2 DEF Donate
  <2> QED
    BY <1>2, <2>1, <2>3 DEF Donate, EscrowTypeOK
<1>3. ASSUME NEW client \in Clients, NEW agent \in Agents, NEW t \in Tokens,
             NEW amount \in Amounts, NEW deadline \in now + 1 .. MaxTime - 1,
             CreateOrder(client, agent, t, amount, deadline)
      PROVE  Goal
  <2>1. balance' \in [Tokens -> [Accounts -> Nat]]
    BY <1>3, PaidType DEF CreateOrder
  <2>2. deadline \in Nat
    BY ChainAssumption DEF ChainTypeOK
  <2>3. [client |-> client, agent |-> agent, paymentToken |-> t, amount |-> amount,
         deadline |-> deadline, status |-> "Pending"] \in Order
    BY <2>2 DEF Order, OrderStatus
  <2>4. orders' \in [OrderIds -> Order]
    BY <1>3, <2>3 DEF CreateOrder, EscrowTypeOK
  <2>5. nonces' \in [Clients -> 0..MaxOrders]
    BY <1>3 DEF CreateOrder, EscrowTypeOK
  <2> QED
    BY <1>3, <2>1, <2>4, <2>5 DEF CreateOrder, EscrowTypeOK
<1>4. ASSUME NEW o \in OrderIds, NEW status \in OrderStatus, Set(o, status)
      PROVE  orders' \in [OrderIds -> Order]
  <2>1. orders \in [OrderIds -> Order]
    BY DEF EscrowTypeOK
  <2>2. [orders[o] EXCEPT !.status = status] \in Order
    <3>1. orders[o] \in Order
      BY <2>1
    <3> QED
      BY <3>1 DEF Order
  <2> QED
    BY <1>4, <2>1, <2>2 DEF Set
<1>5. ASSUME NEW t \in Tokens, NEW to \in Accounts, NEW amount \in Nat,
             Transfer(t, to, amount)
      PROVE  balance' \in [Tokens -> [Accounts -> Nat]] /\ slashPool' \in Nat
  <2>1. balance' \in [Tokens -> [Accounts -> Nat]]
    BY <1>5, PaidType DEF Transfer, CanPay
  <2>2. slashPool' \in Nat
    BY <1>0, <1>5 DEF Transfer, EscrowTypeOK
  <2> QED
    BY <2>1, <2>2
<1>6. ASSUME NEW o \in OrderIds, NEW sender \in Users, ConfirmOrder(sender, o)
      PROVE  Goal
  BY <1>6, <1>4, <1>5, OrderTypes DEF ConfirmOrder, OrderStatus, EscrowTypeOK
<1>7. ASSUME NEW o \in OrderIds, NEW sender \in Users, DisputeOrder(sender, o)
      PROVE  Goal
  BY <1>7, <1>4 DEF DisputeOrder, OrderStatus, EscrowTypeOK, ChainTypeOK
<1>8. ASSUME NEW o \in OrderIds, NEW arb \in Users, NEW resolution \in {0, 1},
             ResolveFull(arb, o, resolution)
      PROVE  Goal
  BY <1>8, <1>4, <1>5, OrderTypes DEF ResolveFull, OrderStatus, EscrowTypeOK
<1>9. ASSUME NEW o \in OrderIds, NEW arb \in Users, ResolveSplit(arb, o)
      PROVE  Goal
  BY <1>9, <1>4, <1>5, OrderTypes DEF ResolveSplit, OrderStatus, EscrowTypeOK
<1>10. ASSUME NEW o \in OrderIds, FinishSplit(o)
       PROVE  Goal
  BY <1>10, <1>5, OrderTypes DEF FinishSplit, EscrowTypeOK
<1>11. ASSUME NEW o \in OrderIds, RefundExpiredOrder(o)
       PROVE  Goal
  BY <1>11, <1>4, <1>5, OrderTypes DEF RefundExpiredOrder, OrderStatus, EscrowTypeOK
<1> QED
  BY <1>1, <1>2, <1>3, <1>6, <1>7, <1>8, <1>9, <1>10, <1>11 DEF EscrowNext

\* Every reachable state is well typed: in particular no balance, and not the
\* slash pool, is ever driven below zero by any order of calls.
THEOREM TypeCorrect == Spec => []TypeOK
<1>1. Init => TypeOK
  <2> SUFFICES ASSUME Init PROVE TypeOK
    OBVIOUS
  <2>1. ChainTypeOK
    BY ChainAssumption DEF Init, ChainInit, ChainTypeOK
  <2>2. RegistryTypeOK
    BY DEF Init, RegistryInit, RegistryTypeOK, NodeType
  <2>3. SettlerTypeOK
    BY DEF Init, SettlerInit, SettlerTypeOK, CommitRecord, NoCommit
  <2>4. EscrowTypeOK
    BY ChainAssumption, EscrowAssumption
    DEF Init, EscrowInit, EscrowTypeOK, Order, EmptyOrder, OrderStatus
  <2> QED
    BY <2>1, <2>2, <2>3, <2>4 DEF TypeOK
<1>2. TypeOK /\ [Next]_vars => TypeOK'
  <2> SUFFICES ASSUME TypeOK, [Next]_vars PROVE TypeOK'
    OBVIOUS
  <2> USE DEF TypeOK
  <2>1. CASE BlockTick
    <3>1. ChainTypeOK'
      BY <2>1 DEF BlockTick, Tick, ChainTypeOK
    <3> QED
      BY <2>1, <3>1 DEF BlockTick, registryVars, settlerVars, escrowVars,
                        RegistryTypeOK, SettlerTypeOK, EscrowTypeOK
  <2>2. CASE RegistryCall
    <3> PICK n \in Nodes, type \in NodeType : Register(n, type)
      BY <2>2 DEF RegistryCall
    <3>1. RegistryTypeOK'
      BY DEF Register, RegistryTypeOK
    <3> QED
      BY <2>2, <3>1 DEF RegistryCall, chainVars, settlerVars, escrowVars,
                        ChainTypeOK, SettlerTypeOK, EscrowTypeOK
  <2>3. CASE SlashingCall
    <3>1. EscrowTypeOK'
      BY <2>3, ConstantTypes DEF SlashingCall, Receive, PoolAfter, escrowVars, EscrowTypeOK
    <3> QED
      BY <2>3, <3>1, SlashingType
      DEF SlashingCall, registryVars, RegistryTypeOK, ChainTypeOK
  <2>4. CASE SettlerCall
    BY <2>4, SettlerOtherType DEF SettlerCall, registryVars, escrowVars,
                                  RegistryTypeOK, EscrowTypeOK, ChainTypeOK
  <2>5. CASE EscrowCall
    BY <2>5, EscrowType DEF EscrowCall, registryVars, settlerVars,
                            RegistryTypeOK, SettlerTypeOK, ChainTypeOK
  <2>6. CASE UNCHANGED vars
    BY <2>6 DEF vars, chainVars, registryVars, settlerVars, escrowVars,
                ChainTypeOK, RegistryTypeOK, SettlerTypeOK, EscrowTypeOK
  <2> QED
    BY <2>1, <2>2, <2>3, <2>4, <2>5, <2>6 DEF Next
<1> QED
  BY <1>1, <1>2, PTL DEF Spec

-----------------------------------------------------------------------------
(* The inductive invariant of the commit records: what each one says, read with *)
(* its root, its challenges and the clock.                                      *)

\* A record c with root s and challenges ch, of node n for period p, at time t.
RecordOK(c, s, ch, t, p, n) ==
    /\ c.committedAt = 0 => c.revealedAt = 0
    /\ c.revealedAt <= t
    /\ c.revealedAt = 0 => s = NoHash /\ ch = <<>>
    /\ c.revealedAt # 0 => s \in Roots /\ c.commitmentHash = Hash(s, p, n)
    /\ \A i \in DOMAIN ch :
            ch[i] \in c.revealedAt .. c.revealedAt + CHALLENGE_PERIOD
    /\ c.revealedAt # 0 /\ c.bondReleased => t > c.revealedAt + CHALLENGE_PERIOD

RecordInv ==
    \A p \in Periods, n \in Nodes :
        RecordOK(commits[p][n], snapshotRoots[p][n], challenges[p][n], now, p, n)

\* A call that writes the record, the root or the challenges of one bond.
LEMMA RecordWrite ==
    ASSUME TypeOK, RecordInv, NEW p \in Periods, NEW n \in Nodes, now' = now,
           NEW c, NEW s, NEW ch,
           SetCommit(p, n, c),
           \/ snapshotRoots' = [snapshotRoots EXCEPT ![p] = [@ EXCEPT ![n] = s]]
           \/ UNCHANGED snapshotRoots /\ s = snapshotRoots[p][n],
           UNCHANGED challenges,
           RecordOK(c, s, challenges[p][n], now, p, n)
    PROVE  RecordInv'
<1> SUFFICES ASSUME NEW q \in Periods, NEW m \in Nodes
             PROVE  RecordOK(commits'[q][m], snapshotRoots'[q][m],
                             challenges'[q][m], now', q, m)
  BY DEF RecordInv
<1>1. /\ commits'[q][m] = IF q = p /\ m = n THEN c ELSE commits[q][m]
      /\ snapshotRoots'[q][m] = IF q = p /\ m = n THEN s ELSE snapshotRoots[q][m]
  BY DEF SetCommit, TypeOK, SettlerTypeOK
<1>2. RecordOK(commits[q][m], snapshotRoots[q][m], challenges[q][m], now, q, m)
  BY DEF RecordInv
<1>3. CASE q = p /\ m = n
  BY <1>1, <1>3
<1>4. CASE ~(q = p /\ m = n)
  BY <1>1, <1>2, <1>4
<1> QED
  BY <1>3, <1>4

\* Every step keeps RecordInv: the settler's calls one by one; the clock only moves
\* on; no other call touches the settler's tables.
LEMMA RecordInvStep ==
    ASSUME TypeOK, RecordInv, [Next]_vars
    PROVE  RecordInv'
<1> USE ConstantTypes, SettlerAssumption DEF TypeOK
<1>1. ASSUME UNCHANGED settlerVars, now' = now
      PROVE  RecordInv'
  BY <1>1 DEF settlerVars, RecordInv
<1>2. CASE BlockTick
  <2> SUFFICES ASSUME NEW p \in Periods, NEW n \in Nodes
               PROVE  RecordOK(commits[p][n], snapshotRoots[p][n],
                               challenges[p][n], now + 1, p, n)
    BY <1>2 DEF BlockTick, Tick, settlerVars, RecordInv
  <2>1. commits[p][n] \in CommitRecord
    BY CommitRecords
  <2>2. /\ commits[p][n].revealedAt \in Nat /\ now \in Nat
        /\ CHALLENGE_PERIOD \in Nat
    BY <2>1 DEF CommitRecord, ChainTypeOK
  <2>3. RecordOK(commits[p][n], snapshotRoots[p][n], challenges[p][n], now, p, n)
    BY DEF RecordInv
  <2> QED
    BY <2>2, <2>3 DEF RecordOK
<1>3. CASE SlashingCall
  <2> PICK p \in Periods, n \in Nodes :
          \/ \E root \in Roots : RevealMismatch(p, n, root)
          \/ SlashUnrevealed(p, n)
    BY <1>3 DEF SlashingCall, SettlerSlashing
  <2> DEFINE old == commits[p][n]
             new == [old EXCEPT !.bondReleased = TRUE]
  <2>1. /\ SetCommit(p, n, new) /\ old.revealedAt = 0
        /\ UNCHANGED <<snapshotRoots, challenges, now>>
    BY <1>3 DEF RevealMismatch, SlashUnrevealed, RevealAllowed, SlashAllowed,
                SlashingCall
  <2>2. old \in CommitRecord
    BY CommitRecords
  <2>3. RecordOK(old, snapshotRoots[p][n], challenges[p][n], now, p, n)
    BY DEF RecordInv
  <2>4. RecordOK(new, snapshotRoots[p][n], challenges[p][n], now, p, n)
    BY <2>1, <2>2, <2>3 DEF RecordOK, CommitRecord
  <2> QED
    BY <2>1, <2>4, RecordWrite
<1>4. CASE SettlerCall
  <2> PICK p \in Periods, n \in Nodes :
          \/ \E hash \in Hashes : SubmitCommit(p, n, hash)
          \/ \E root \in Roots : RevealMatch(p, n, root)
          \/ Challenge(p, n)
          \/ ClaimBond(p, n)
    BY <1>4 DEF SettlerCall, SettlerOther
  <2> DEFINE old == commits[p][n]
  <2>0. /\ old \in CommitRecord /\ now \in Nat \ {0} /\ now' = now
        /\ RecordOK(old, snapshotRoots[p][n], challenges[p][n], now, p, n)
    BY <1>4, CommitRecords DEF SettlerCall, ChainTypeOK, RecordInv
  <2>1. ASSUME NEW hash \in Hashes, SubmitCommit(p, n, hash)
        PROVE  RecordInv'
    <3> DEFINE new == [commitmentHash |-> hash, committedAt |-> now,
                       revealedAt |-> 0, bondReleased |-> FALSE]
    <3>1. /\ SetCommit(p, n, new) /\ old.committedAt = 0
          /\ UNCHANGED <<snapshotRoots, challenges>>
      BY <2>1 DEF SubmitCommit
    <3>2. RecordOK(new, snapshotRoots[p][n], challenges[p][n], now, p, n)
      BY <2>0, <3>1 DEF RecordOK
    <3> QED
      BY <2>0, <3>1, <3>2, RecordWrite
  <2>2. ASSUME NEW root \in Roots, RevealMatch(p, n, root)
        PROVE  RecordInv'
    <3> DEFINE new == [old EXCEPT !.revealedAt = now]
    <3>1. /\ SetCommit(p, n, new)
          /\ snapshotRoots' = [snapshotRoots EXCEPT ![p] = [@ EXCEPT ![n] = root]]
          /\ UNCHANGED challenges
          /\ old.committedAt # 0 /\ old.revealedAt = 0 /\ ~old.bondReleased
          /\ Hash(root, p, n) = old.commitmentHash
      BY <2>2 DEF RevealMatch, RevealAllowed
    <3>2. /\ new.committedAt = old.committedAt /\ new.revealedAt = now
          /\ new.commitmentHash = old.commitmentHash
          /\ new.bondReleased = old.bondReleased
      BY <2>0 DEF CommitRecord
    <3>3. RecordOK(new, root, challenges[p][n], now, p, n)
      BY <2>0, <3>1, <3>2 DEF RecordOK
    <3> QED
      BY <2>0, <3>1, <3>3, RecordWrite
  <2>3. CASE Challenge(p, n)
    <3> SUFFICES ASSUME NEW q \in Periods, NEW m \in Nodes
                 PROVE  RecordOK(commits[q][m], snapshotRoots[q][m],
                                 challenges'[q][m], now, q, m)
      BY <2>0, <2>3 DEF Challenge, RecordInv
    <3>1. RecordOK(commits[q][m], snapshotRoots[q][m], challenges[q][m], now, q, m)
      BY DEF RecordInv
    <3>2. CASE q = p /\ m = n
      <4> DEFINE ch == challenges[p][n]
      <4>1. challenges'[p][n] = Append(ch, now) /\ ch \in Seq(Nat)
        BY <2>3 DEF Challenge, SettlerTypeOK
      <4>2. /\ old.revealedAt # 0 /\ ~old.bondReleased
            /\ now <= old.revealedAt + CHALLENGE_PERIOD
        BY <2>3 DEF Challenge, ChallengeAllowed
      <4>3. old.revealedAt <= now /\ old.revealedAt \in Nat
        BY <2>0 DEF RecordOK, CommitRecord
      <4>4. now \in old.revealedAt .. old.revealedAt + CHALLENGE_PERIOD
        BY <2>0, <4>2, <4>3
      <4>5. \A i \in DOMAIN Append(ch, now) :
                \/ Append(ch, now)[i] = now
                \/ i \in DOMAIN ch /\ Append(ch, now)[i] = ch[i]
        BY <2>0, <4>1
      <4>6. \A i \in DOMAIN Append(ch, now) :
                Append(ch, now)[i] \in old.revealedAt .. old.revealedAt + CHALLENGE_PERIOD
        BY <2>0, <4>4, <4>5 DEF RecordOK
      <4>7. RecordOK(old, snapshotRoots[p][n], Append(ch, now), now, p, n)
        BY <2>0, <4>2, <4>6 DEF RecordOK
      <4> QED
        BY <3>2, <4>1, <4>7
    <3>3. CASE ~(q = p /\ m = n)
      <4>1. challenges'[q][m] = challenges[q][m]
        BY <2>3, <3>3 DEF Challenge, SettlerTypeOK
      <4> QED
        BY <3>1, <4>1
    <3> QED
      BY <3>2, <3>3
  <2>4. CASE ClaimBond(p, n)
    <3> DEFINE new == [old EXCEPT !.bondReleased = TRUE]
    <3>1. /\ SetCommit(p, n, new)
          /\ UNCHANGED <<snapshotRoots, challenges>>
          /\ now > old.revealedAt + CHALLENGE_PERIOD
      BY <2>4 DEF ClaimBond, ClaimAllowed
    <3>2. RecordOK(new, snapshotRoots[p][n], challenges[p][n], now, p, n)
      BY <2>0, <3>1 DEF RecordOK, CommitRecord
    <3> QED
      BY <2>0, <3>1, <3>2, RecordWrite
  <2> QED
    BY <2>1, <2>2, <2>3, <2>4
<1>5. CASE RegistryCall
  BY <1>1, <1>5 DEF RegistryCall, chainVars
<1>6. CASE EscrowCall
  BY <1>1, <1>6 DEF EscrowCall
<1>7. CASE UNCHANGED vars
  BY <1>1, <1>7 DEF vars, chainVars
<1> QED
  BY <1>2, <1>3, <1>4, <1>5, <1>6, <1>7 DEF Next

\* In every reachable state the commit records, the recorded roots and the
\* challenges agree with each other and with the clock (RecordInv).
THEOREM RecordsCorrect == Spec => []RecordInv
<1>1. Init => RecordInv
  BY ConstantTypes, SettlerAssumption
  DEF Init, ChainInit, SettlerInit, NoCommit, RecordInv, RecordOK
<1>2. TypeOK /\ RecordInv /\ [Next]_vars => RecordInv'
  BY RecordInvStep
<1> QED
  BY <1>1, <1>2, TypeCorrect, PTL DEF Spec

\* Only what a node committed for that period is ever on record as its snapshot.
THEOREM RootsAreBound == Spec => []RootsBound
<1>1. TypeOK /\ RecordInv => RootsBound
  <2> SUFFICES ASSUME TypeOK, RecordInv, NEW p \in Periods, NEW n \in Nodes
               PROVE  LET c == commits[p][n] IN
                      /\ (snapshotRoots[p][n] # NoHash) = (c.revealedAt # 0)
                      /\ c.revealedAt # 0 =>
                            c.commitmentHash = Hash(snapshotRoots[p][n], p, n)
    BY DEF RootsBound
  <2>1. RecordOK(commits[p][n], snapshotRoots[p][n], challenges[p][n], now, p, n)
    BY DEF RecordInv
  <2> QED
    BY <2>1, ConstantTypes DEF RecordOK
<1> QED
  BY <1>1, TypeCorrect, RecordsCorrect, PTL

\* A challenge is only ever accepted inside the challenge period of its reveal,
\* which is over by the time the bond is claimed.
THEOREM ChallengesAreTimely == Spec => []ChallengesInPeriod
<1>1. TypeOK /\ RecordInv => ChallengesInPeriod
  <2> SUFFICES ASSUME TypeOK, RecordInv, NEW p \in Periods, NEW n \in Nodes,
                      NEW i \in DOMAIN challenges[p][n]
               PROVE  LET c == commits[p][n] IN
                      /\ c.revealedAt # 0
                      /\ challenges[p][n][i]
                            \in c.revealedAt .. c.revealedAt + CHALLENGE_PERIOD
                      /\ PhaseOf(c) = "claimed" => now > challenges[p][n][i]
    BY DEF ChallengesInPeriod
  <2> DEFINE c == commits[p][n]
  <2>1. RecordOK(c, snapshotRoots[p][n], challenges[p][n], now, p, n)
    BY DEF RecordInv
  <2>2. c \in CommitRecord /\ now \in Nat /\ CHALLENGE_PERIOD \in Nat
    BY CommitRecords, SettlerAssumption DEF TypeOK, ChainTypeOK
  <2>3. c.revealedAt # 0
    BY <2>1 DEF RecordOK
  <2>4. challenges[p][n][i] \in c.revealedAt .. c.revealedAt + CHALLENGE_PERIOD
    BY <2>1 DEF RecordOK
  <2>5. ASSUME PhaseOf(c) = "claimed" PROVE now > challenges[p][n][i]
    <3>1. c.bondReleased
      BY <2>1, <2>2, <2>3, <2>5 DEF PhaseOf, RecordOK, CommitRecord
    <3>2. now > c.revealedAt + CHALLENGE_PERIOD
      BY <2>1, <2>3, <3>1 DEF RecordOK
    <3>3. c.revealedAt \in Nat
      BY <2>2 DEF CommitRecord
    <3> QED
      BY <2>2, <2>4, <3>2, <3>3
  <2> QED
    BY <2>3, <2>4, <2>5
<1> QED
  BY <1>1, TypeCorrect, RecordsCorrect, PTL

\* The windows of a held bond neither overlap nor leave a gap, for windows of any
\* length, zero included.
THEOREM WindowsArePartition == Spec => []WindowsPartition
<1>1. TypeOK /\ RecordInv => WindowsPartition
  <2> SUFFICES ASSUME TypeOK, RecordInv, NEW p \in Periods, NEW n \in Nodes
               PROVE  LET phase == PhaseOf(commits[p][n]) IN
                /\ (RevealAllowed(p, n) # SlashAllowed(p, n)) = (phase = "posted")
                /\ (ChallengeAllowed(p, n) # ClaimAllowed(p, n)) = (phase = "revealed")
    BY DEF WindowsPartition
  <2> DEFINE c == commits[p][n]
  <2>1. RecordOK(c, snapshotRoots[p][n], challenges[p][n], now, p, n)
    BY DEF RecordInv
  <2>2. c \in CommitRecord /\ now \in Nat
    BY CommitRecords DEF TypeOK, ChainTypeOK
  <2>3. /\ c.committedAt \in Nat /\ c.revealedAt \in Nat /\ c.bondReleased \in BOOLEAN
        /\ REVEAL_WINDOW \in Nat /\ CHALLENGE_PERIOD \in Nat
    BY <2>2, SettlerAssumption DEF CommitRecord
  <2>4. c.committedAt = 0 => c.revealedAt = 0
    BY <2>1 DEF RecordOK
  <2>5. (RevealAllowed(p, n) # SlashAllowed(p, n)) = (PhaseOf(c) = "posted")
    BY <2>2, <2>3 DEF RevealAllowed, SlashAllowed, PhaseOf
  <2>6. (ChallengeAllowed(p, n) # ClaimAllowed(p, n)) = (PhaseOf(c) = "revealed")
    BY <2>2, <2>3, <2>4 DEF ChallengeAllowed, ClaimAllowed, PhaseOf
  <2> QED
    BY <2>5, <2>6
<1> QED
  BY <1>1, TypeCorrect, RecordsCorrect, PTL

-----------------------------------------------------------------------------
(* The settler implements BondVault. *)

\* The life of every bond, as BondVault sees it.
Phase == [b \in Bonds |-> PhaseOf(CommitOf(b))]

\* Who gains and who loses by a payment from one account to another.
LEMMA PaidBalances ==
    ASSUME ChainTypeOK, NEW t \in Tokens, NEW from \in Accounts,
           NEW to \in Accounts \ {from}, NEW amount \in Nat
    PROVE  /\ Paid(t, from, to, amount)[t][from] = balance[t][from] - amount
           /\ Paid(t, from, to, amount)[t][to] = balance[t][to] + amount
           /\ \A s \in Tokens, a \in Accounts :
                s # t \/ a \notin {from, to} =>
                    Paid(t, from, to, amount)[s][a] = balance[s][a]
<1>1. balance[t] \in [Accounts -> Nat]
  BY DEF ChainTypeOK
<1>2. /\ Moved(balance[t], from, to, amount)[from] = balance[t][from] - amount
      /\ Moved(balance[t], from, to, amount)[to] = balance[t][to] + amount
      /\ \A a \in Accounts \ {from, to} :
            Moved(balance[t], from, to, amount)[a] = balance[t][a]
  BY <1>1 DEF Moved
<1>3. /\ Paid(t, from, to, amount)[t] = Moved(balance[t], from, to, amount)
      /\ \A s \in Tokens \ {t} : Paid(t, from, to, amount)[s] = balance[s]
  BY DEF Paid, ChainTypeOK
<1> QED
  BY <1>2, <1>3

\* Who pays itself is as rich as before.
LEMMA PaidToSelf ==
    ASSUME ChainTypeOK, NEW t \in Tokens, NEW a \in Accounts, NEW amount \in Nat,
           NEW s \in Tokens, NEW b \in Accounts
    PROVE  Paid(t, a, a, amount)[s][b] = balance[s][b]
<1>1. balance[t] \in [Accounts -> Nat]
  BY DEF ChainTypeOK
<1>2. ASSUME NEW x \in Accounts
      PROVE  Moved(balance[t], a, a, amount)[x] = balance[t][x]
  <2> DEFINE row == [balance[t] EXCEPT ![a] = balance[t][a] - amount]
  <2>1. balance[t][a] \in Nat /\ row[a] = balance[t][a] - amount
    BY <1>1
  <2>2. Moved(balance[t], a, a, amount) = [row EXCEPT ![a] = row[a] + amount]
    BY DEF Moved
  <2>3. row[a] + amount = balance[t][a]
    BY <2>1
  <2> QED
    BY <1>1, <2>2, <2>3
<1>3. /\ Paid(t, a, a, amount)[t] = Moved(balance[t], a, a, amount)
      /\ \A r \in Tokens \ {t} : Paid(t, a, a, amount)[r] = balance[r]
  BY DEF Paid, ChainTypeOK
<1> QED
  BY <1>2, <1>3

\* Writing the commit record of one bond moves that bond and no other.
LEMMA PhaseMoves ==
    ASSUME SettlerTypeOK, NEW p \in Periods, NEW n \in Nodes, NEW c,
           SetCommit(p, n, c)
    PROVE  /\ <<p, n>> \in Bonds
           /\ Phase[<<p, n>>] = PhaseOf(commits[p][n])
           /\ Phase' = [Phase EXCEPT ![<<p, n>>] = PhaseOf(c)]
<1>1. <<p, n>> \in Bonds
  BY DEF Bonds
<1>2. Phase[<<p, n>>] = PhaseOf(commits[p][n])
  BY <1>1 DEF Phase, CommitOf
<1>3. ASSUME NEW b \in Bonds
      PROVE  CommitOf(b)' = IF b = <<p, n>> THEN c ELSE CommitOf(b)
  <2>1. PICK q \in Periods, m \in Nodes : b = <<q, m>>
    BY DEF Bonds
  <2>2. commits'[q][m] = IF q = p /\ m = n THEN c ELSE commits[q][m]
    BY DEF SetCommit, SettlerTypeOK
  <2> QED
    BY <2>1, <2>2 DEF CommitOf
<1>4. Phase' = [b \in Bonds |-> PhaseOf(IF b = <<p, n>> THEN c ELSE CommitOf(b))]
  BY <1>3 DEF Phase, PhaseOf
<1>5. [Phase EXCEPT ![<<p, n>>] = PhaseOf(c)]
        = [b \in Bonds |-> PhaseOf(IF b = <<p, n>> THEN c ELSE CommitOf(b))]
  BY <1>1 DEF Phase
<1> QED
  BY <1>1, <1>2, <1>4, <1>5

\* The move BondVault makes when a call writes the record of one bond.
LEMMA VaultMove ==
    ASSUME TypeOK, NEW p \in Periods, NEW n \in Nodes, NEW c, NEW change,
           SetCommit(p, n, c),
           balance'[Native][Settler] = balance[Native][Settler] + change
    PROVE  Vault!Move(<<p, n>>, PhaseOf(commits[p][n]), PhaseOf(c), change)
           /\ <<p, n>> \in Bonds
BY PhaseMoves DEF Vault!Move, Phase, TypeOK

\* What a bond's payment out of the settler, or into it, does to its holdings.
LEMMA BondPayments ==
    ASSUME TypeOK, NEW a \in Accounts \ {Settler}
    PROVE  /\ Paid(Native, Settler, a, BOND_AMOUNT)[Native][Settler]
                = balance[Native][Settler] + (0 - BOND_AMOUNT)
           /\ Paid(Native, a, Settler, BOND_AMOUNT)[Native][Settler]
                = balance[Native][Settler] + BOND_AMOUNT
<1>1. ChainTypeOK /\ BOND_AMOUNT \in Nat /\ Native \in Tokens
      /\ a \in Accounts /\ Settler \in Accounts \ {a}
  BY ConstantTypes DEF TypeOK
<1>2. balance[Native][Settler] \in Nat
  BY <1>1 DEF ChainTypeOK
<1>3. Paid(Native, Settler, a, BOND_AMOUNT)[Native][Settler]
        = balance[Native][Settler] - BOND_AMOUNT
  BY <1>1, PaidBalances
<1>4. Paid(Native, a, Settler, BOND_AMOUNT)[Native][Settler]
        = balance[Native][Settler] + BOND_AMOUNT
  BY <1>1, PaidBalances
<1> QED
  BY <1>1, <1>2, <1>3, <1>4

\* A call that slashes moves one bond from posted to slashed and one bond's worth
\* out of the settler.
LEMMA SlashingIsVaultStep ==
    ASSUME TypeOK, SettlerSlashing
    PROVE  Vault!VaultNext
<1> PICK p \in Periods, n \in Nodes :
        \/ \E root \in Roots : RevealMismatch(p, n, root)
        \/ SlashUnrevealed(p, n)
  BY DEF SettlerSlashing
<1> DEFINE old == commits[p][n]
           new == [old EXCEPT !.bondReleased = TRUE]
<1>1. SetCommit(p, n, new) /\ Slash
  BY DEF RevealMismatch, SlashUnrevealed
<1>2. old \in CommitRecord
  BY CommitRecords DEF TypeOK
<1>3. old.committedAt # 0 /\ old.revealedAt = 0 /\ ~old.bondReleased
  BY DEF RevealMismatch, RevealAllowed, SlashUnrevealed, SlashAllowed
<1>4. PhaseOf(old) = "posted" /\ PhaseOf(new) = "slashed"
  BY <1>2, <1>3 DEF PhaseOf, CommitRecord
<1>5. slashRecipient \in Accounts \ {Settler}
  BY ChainAssumption, SettlerAssumption
<1>6. balance'[Native][Settler] = balance[Native][Settler] + (0 - BOND_AMOUNT)
  BY <1>1, <1>5, BondPayments DEF Slash
<1> QED
  BY <1>1, <1>4, <1>6, VaultMove DEF Vault!VaultNext

\* A commit, a reveal or a claim moves one bond one phase on, with its money; a
\* challenge moves none.
LEMMA SettlerOtherIsVaultStep ==
    ASSUME TypeOK, RecordInv, SettlerOther
    PROVE  Vault!VaultNext \/ UNCHANGED <<Phase, balance[Native][Settler]>>
<1> DEFINE Goal == Vault!VaultNext \/ UNCHANGED <<Phase, balance[Native][Settler]>>
<1> PICK p \in Periods, n \in Nodes :
        \/ \E hash \in Hashes : SubmitCommit(p, n, hash)
        \/ \E root \in Roots : RevealMatch(p, n, root)
        \/ Challenge(p, n)
        \/ ClaimBond(p, n)
  BY DEF SettlerOther
<1> DEFINE old == commits[p][n]
<1>0. /\ n \in Accounts \ {Settler}
      /\ old \in CommitRecord
      /\ balance[Native][Settler] \in Nat /\ now \in Nat \ {0}
  <2>1. n \in Accounts \ {Settler}
    BY ChainAssumption, SettlerAssumption
  <2>2. old \in CommitRecord
    BY CommitRecords DEF TypeOK
  <2>3. balance[Native] \in [Accounts -> Nat] /\ Settler \in Accounts
    BY ConstantTypes DEF TypeOK, ChainTypeOK
  <2>4. now \in Nat \ {0}
    BY DEF TypeOK, ChainTypeOK
  <2> QED
    BY <2>1, <2>2, <2>3, <2>4
<1>1. ASSUME NEW hash \in Hashes, SubmitCommit(p, n, hash)
      PROVE  Goal
  <2> DEFINE new == [commitmentHash |-> hash, committedAt |-> now,
                     revealedAt |-> 0, bondReleased |-> FALSE]
  <2>1. SetCommit(p, n, new) /\ old.committedAt = 0
    BY <1>1 DEF SubmitCommit
  <2>2. PhaseOf(old) = "none" /\ PhaseOf(new) = "posted"
    BY <1>0, <2>1 DEF PhaseOf
  <2>3. balance'[Native][Settler] = balance[Native][Settler] + BOND_AMOUNT
    BY <1>0, <1>1, BondPayments DEF SubmitCommit
  <2> QED
    BY <2>1, <2>2, <2>3, VaultMove DEF Vault!VaultNext
<1>2. ASSUME NEW root \in Roots, RevealMatch(p, n, root)
      PROVE  Goal
  <2> DEFINE new == [old EXCEPT !.revealedAt = now]
  <2>1. /\ SetCommit(p, n, new)
        /\ old.committedAt # 0 /\ old.revealedAt = 0 /\ ~old.bondReleased
    BY <1>2 DEF RevealMatch, RevealAllowed
  <2>2. PhaseOf(old) = "posted" /\ PhaseOf(new) = "revealed"
    BY <1>0, <2>1 DEF PhaseOf, CommitRecord
  <2>3. balance'[Native][Settler] = balance[Native][Settler] + 0
    BY <1>0, <1>2 DEF RevealMatch
  <2> QED
    BY <2>1, <2>2, <2>3, VaultMove DEF Vault!VaultNext
<1>3. CASE Challenge(p, n)
  BY <1>3 DEF Challenge, Phase, CommitOf
<1>4. CASE ClaimBond(p, n)
  <2> DEFINE new == [old EXCEPT !.bondReleased = TRUE]
  <2>1. SetCommit(p, n, new) /\ old.revealedAt # 0 /\ ~old.bondReleased
    BY <1>4 DEF ClaimBond, ClaimAllowed
  <2>2. old.committedAt # 0
    BY <1>0, <2>1 DEF RecordInv, RecordOK
  <2>3. PhaseOf(old) = "revealed" /\ PhaseOf(new) = "claimed"
    BY <1>0, <2>1, <2>2 DEF PhaseOf, CommitRecord
  <2>4. balance'[Native][Settler] = balance[Native][Settler] + (0 - BOND_AMOUNT)
    BY <1>0, <1>4, BondPayments DEF ClaimBond
  <2> QED
    BY <2>1, <2>3, <2>4, VaultMove DEF Vault!VaultNext
<1> QED
  BY <1>1, <1>2, <1>3, <1>4

\* The escrow never pays out of the settler's holdings of the native coin, nor into
\* them: the settler has no receive() and reverts such a transfer.
LEMMA EscrowSparesSettler ==
    ASSUME TypeOK, EscrowNext
    PROVE  UNCHANGED balance[Native][Settler]
<1>1. ASSUME NEW t \in Tokens, NEW from \in Accounts \ {Settler},
             NEW to \in Accounts \ {Settler}, NEW amount \in Nat, from # to,
             balance' = Paid(t, from, to, amount)
      PROVE  UNCHANGED balance[Native][Settler]
  <2>1. /\ ChainTypeOK /\ Native \in Tokens /\ Settler \in Accounts
        /\ from \in Accounts /\ to \in Accounts \ {from} /\ Settler \notin {from, to}
    BY <1>1, ConstantTypes DEF TypeOK
  <2>2. Paid(t, from, to, amount)[Native][Settler] = balance[Native][Settler]
    BY <2>1, PaidBalances
  <2> QED
    BY <1>1, <2>2
<1>2. /\ Users \cup {ZeroAddr} \subseteq Accounts \ {Settler, Escrow}
      /\ Escrow \in Accounts \ {Settler} /\ Settler \in Accounts
      /\ Clients \subseteq Users /\ Donors \subseteq Users
      /\ Amounts \subseteq Nat /\ Native \in Tokens
      /\ Settler \notin Accepting \cup {Escrow, ZeroAddr}
  BY ChainAssumption, EscrowAssumption
<1>3. ASSUME NEW t \in Tokens, NEW to \in Accounts, NEW amount \in Nat,
             Transfer(t, to, amount)
      PROVE  UNCHANGED balance[Native][Settler]
  <2>1. balance' = Paid(t, Escrow, to, amount) /\ Takes(t, to)
    BY <1>3 DEF Transfer, CanPay
  <2>2. CASE to = Escrow
    BY <1>2, <2>1, <2>2, PaidToSelf DEF TypeOK
  <2>3. CASE to = Settler
    <3>1. t # Native /\ Settler \in Accounts \ {Escrow} /\ ChainTypeOK
      BY <1>2, <2>1, <2>3 DEF Takes, TypeOK
    <3>2. Escrow \in Accounts /\ balance' = Paid(t, Escrow, Settler, amount)
      BY <1>2, <2>1, <2>3
    <3>3. \A s \in Tokens, a \in Accounts :
            s # t => Paid(t, Escrow, Settler, amount)[s][a] = balance[s][a]
      BY <3>1 DEF Paid, ChainTypeOK
    <3> QED
      BY <1>2, <3>1, <3>2, <3>3
  <2>4. CASE to \notin {Escrow, Settler}
    BY <1>1, <1>2, <2>1, <2>4
  <2> QED
    BY <2>2, <2>3, <2>4
<1>4. ASSUME NEW o \in OrderIds
      PROVE  /\ orders[o].client \in Accounts /\ orders[o].agent \in Accounts
             /\ orders[o].paymentToken \in Tokens /\ orders[o].amount \in Nat
             /\ ClientShare(o) \in Nat /\ AgentShare(o) \in Nat
  BY OrderTypes DEF TypeOK
<1>5. ASSUME NEW u \in Donors, NEW t \in Tokens, NEW amount \in Amounts,
             Donate(u, t, amount)
      PROVE  UNCHANGED balance[Native][Settler]
  BY <1>1, <1>2, <1>5 DEF Donate
<1>6. ASSUME NEW client \in Clients, NEW agent \in Agents, NEW t \in Tokens,
             NEW amount \in Amounts, NEW deadline \in now + 1 .. MaxTime - 1,
             CreateOrder(client, agent, t, amount, deadline)
      PROVE  UNCHANGED balance[Native][Settler]
  BY <1>1, <1>2, <1>6 DEF CreateOrder
<1>7. ASSUME NEW sender \in Users, NEW arb \in Arbiters, NEW active \in BOOLEAN,
             SetArbitrator(sender, arb, active)
      PROVE  UNCHANGED balance[Native][Settler]
  BY <1>7 DEF SetArbitrator
<1>8. ASSUME NEW o \in OrderIds,
             \/ \E sender \in Users : ConfirmOrder(sender, o) \/ DisputeOrder(sender, o)
             \/ \E arb \in Users, resolution \in {0, 1} : ResolveFull(arb, o, resolution)
             \/ \E arb \in Users : ResolveSplit(arb, o)
             \/ FinishSplit(o)
             \/ RefundExpiredOrder(o)
      PROVE  UNCHANGED balance[Native][Settler]
  BY <1>3, <1>4, <1>8 DEF ConfirmOrder, DisputeOrder, ResolveFull, ResolveSplit,
                          FinishSplit, RefundExpiredOrder
<1> QED
  BY <1>5, <1>6, <1>7, <1>8 DEF EscrowNext

\* Every step of the settlement is a move of BondVault or changes nothing of it.
LEMMA VaultStep ==
    ASSUME TypeOK, RecordInv, [Next]_vars
    PROVE  Vault!VaultNext \/ UNCHANGED <<Phase, balance[Native][Settler]>>
<1>1. ASSUME UNCHANGED settlerVars, UNCHANGED balance[Native][Settler]
      PROVE  UNCHANGED <<Phase, balance[Native][Settler]>>
  BY <1>1 DEF settlerVars, Phase, CommitOf, PhaseOf
<1>2. CASE BlockTick
  BY <1>1, <1>2 DEF BlockTick, Tick
<1>3. CASE RegistryCall
  BY <1>1, <1>3 DEF RegistryCall, chainVars
<1>4. CASE SlashingCall
  BY <1>4, SlashingIsVaultStep DEF SlashingCall
<1>5. CASE SettlerCall
  BY <1>5, SettlerOtherIsVaultStep DEF SettlerCall
<1>6. CASE EscrowCall
  BY <1>1, <1>6, EscrowSparesSettler DEF EscrowCall
<1>7. CASE UNCHANGED vars
  BY <1>1, <1>7 DEF vars, chainVars
<1> QED
  BY <1>2, <1>3, <1>4, <1>5, <1>6, <1>7 DEF Next

\* The settler implements BondVault for any windows, nodes, periods and bond: each
\* of its calls is a move of one bond, or leaves every bond and its money alone.
THEOREM RefinesBondVault == Spec => ImplementsBondVault
<1>1. Init => Vault!VaultInit
  <2> SUFFICES ASSUME Init PROVE Vault!VaultInit
    OBVIOUS
  <2>1. \A b \in Bonds : PhaseOf(CommitOf(b)) = "none"
    BY DEF Init, SettlerInit, NoCommit, Bonds, CommitOf, PhaseOf
  <2>2. balance[Native][Settler] = 0
    BY ChainAssumption DEF Init, ChainInit
  <2> QED
    BY <2>1, <2>2 DEF Vault!VaultInit
<1>2. TypeOK /\ RecordInv /\ [Next]_vars =>
        [Vault!VaultNext]_<<[b \in Bonds |-> PhaseOf(CommitOf(b))],
                            balance[Native][Settler]>>
  BY VaultStep DEF Phase
<1> QED
  BY <1>1, <1>2, TypeCorrect, RecordsCorrect, PTL
  DEF Spec, ImplementsBondVault, Vault!VaultSpec

-----------------------------------------------------------------------------
(* The settler's holdings, counted. *)

\* There are finitely many bonds, so those in given phases can be counted.
LEMMA BondsFinite ==
    /\ IsFiniteSet(Bonds)
    /\ \A phases : IsFiniteSet(InPhase(phases)) /\ Cardinality(InPhase(phases)) \in Nat
<1>1. IsFiniteSet(Nodes)
  BY ChainAssumption, SettlerAssumption, FS_Subset
<1>2. IsFiniteSet(Bonds)
  BY <1>1, SettlerAssumption, FS_Product DEF Bonds
<1>3. ASSUME NEW phases
      PROVE  IsFiniteSet(InPhase(phases)) /\ Cardinality(InPhase(phases)) \in Nat
  <2>1. InPhase(phases) \subseteq Bonds
    BY DEF InPhase
  <2>2. IsFiniteSet(InPhase(phases))
    BY <1>2, <2>1, FS_Subset
  <2> QED
    BY <2>2, FS_CardinalityType
<1> QED
  BY <1>2, <1>3

\* One bond moves: the set of the bonds in some phases gains it, loses it, or stays.
LEMMA CountMove ==
    ASSUME NEW b \in Bonds, NEW to, Phase' = [Phase EXCEPT ![b] = to], NEW phases
    PROVE  LET before == Cardinality(InPhase(phases))
               after == Cardinality(InPhase(phases)')
           IN  /\ Phase[b] \notin phases /\ to \in phases => after = before + 1
               /\ Phase[b] \in phases /\ to \notin phases => after = before - 1
               /\ (Phase[b] \in phases) = (to \in phases) => after = before
<1>1. InPhase(phases) = {x \in Bonds : Phase[x] \in phases}
  BY DEF InPhase, Phase
<1>2. InPhase(phases)' = {x \in Bonds : Phase'[x] \in phases}
  BY DEF InPhase, Phase
<1>3. \A x \in Bonds : Phase'[x] = IF x = b THEN to ELSE Phase[x]
  BY DEF Phase
<1>4. ASSUME Phase[b] \notin phases, to \in phases
      PROVE  InPhase(phases)' = InPhase(phases) \cup {b} /\ b \notin InPhase(phases)
  BY <1>1, <1>2, <1>3, <1>4
<1>5. ASSUME Phase[b] \in phases, to \notin phases
      PROVE  InPhase(phases)' = InPhase(phases) \ {b} /\ b \in InPhase(phases)
  BY <1>1, <1>2, <1>3, <1>5
<1>6. ASSUME (Phase[b] \in phases) = (to \in phases)
      PROVE  InPhase(phases)' = InPhase(phases)
  BY <1>1, <1>2, <1>3, <1>6
<1>7. IsFiniteSet(InPhase(phases))
  BY BondsFinite
<1> QED
  BY <1>4, <1>5, <1>6, <1>7, FS_AddElement, FS_RemoveElement

\* The settler can always pay every bond it still owes, and has nothing beyond:
\* no order of commits, reveals, slashes and claims, and none of the escrow's
\* calls, makes it short of one bond.
THEOREM SettlerIsBacked == Spec => []SettlerBacked
<1> DEFINE Held == {"posted", "revealed"}
<1>1. Init => SettlerBacked
  <2> SUFFICES ASSUME Init PROVE SettlerBacked
    OBVIOUS
  <2>1. InPhase(Held) = {}
    BY DEF Init, SettlerInit, NoCommit, Bonds, CommitOf, PhaseOf, InPhase
  <2>2. balance[Native][Settler] = 0
    BY ChainAssumption DEF Init, ChainInit
  <2>3. Cardinality(InPhase(Held)) = 0
    BY <2>1, FS_EmptySet
  <2>4. BOND_AMOUNT * 0 = 0
    BY ConstantTypes
  <2> QED
    BY <2>2, <2>3, <2>4 DEF SettlerBacked
<1>2. TypeOK /\ RecordInv /\ SettlerBacked /\ [Next]_vars => SettlerBacked'
  <2> SUFFICES ASSUME TypeOK, RecordInv, SettlerBacked, [Next]_vars
               PROVE  SettlerBacked'
    OBVIOUS
  <2> DEFINE before == Cardinality(InPhase(Held))
             after == Cardinality(InPhase(Held)')
  <2>1. before \in Nat /\ BOND_AMOUNT \in Nat
    BY BondsFinite, ConstantTypes
  <2>2. balance[Native][Settler] = BOND_AMOUNT * before
    BY DEF SettlerBacked
  <2>3. CASE UNCHANGED <<Phase, balance[Native][Settler]>>
    <3>1. InPhase(Held)' = InPhase(Held)
      BY <2>3 DEF InPhase, Phase
    <3> QED
      BY <2>3, <3>1 DEF SettlerBacked
  <2>4. CASE Vault!VaultNext
    <3>1. PICK b \in Bonds :
            \/ Vault!Move(b, "none", "posted", BOND_AMOUNT)
            \/ Vault!Move(b, "posted", "revealed", 0)
            \/ Vault!Move(b, "posted", "slashed", 0 - BOND_AMOUNT)
            \/ Vault!Move(b, "revealed", "claimed", 0 - BOND_AMOUNT)
      BY <2>4 DEF Vault!VaultNext
    <3>2. ASSUME NEW from, NEW to, NEW change, Vault!Move(b, from, to, change)
          PROVE  /\ Phase[b] = from /\ Phase' = [Phase EXCEPT ![b] = to]
                 /\ balance'[Native][Settler] = balance[Native][Settler] + change
      BY <3>2 DEF Vault!Move, Phase
    <3>3. CASE Vault!Move(b, "none", "posted", BOND_AMOUNT)
      <4>1. after = before + 1
        BY <3>2, <3>3, CountMove
      <4> QED
        BY <2>1, <2>2, <3>2, <3>3, <4>1 DEF SettlerBacked
    <3>4. CASE Vault!Move(b, "posted", "revealed", 0)
      <4>1. after = before
        BY <3>2, <3>4, CountMove
      <4> QED
        BY <2>1, <2>2, <3>2, <3>4, <4>1 DEF SettlerBacked
    <3>5. CASE Vault!Move(b, "posted", "slashed", 0 - BOND_AMOUNT)
      <4>1. after = before - 1
        BY <3>2, <3>5, CountMove
      <4> QED
        BY <2>1, <2>2, <3>2, <3>5, <4>1 DEF SettlerBacked
    <3>6. CASE Vault!Move(b, "revealed", "claimed", 0 - BOND_AMOUNT)
      <4>1. after = before - 1
        BY <3>2, <3>6, CountMove
      <4> QED
        BY <2>1, <2>2, <3>2, <3>6, <4>1 DEF SettlerBacked
    <3> QED
      BY <3>1, <3>3, <3>4, <3>5, <3>6
  <2> QED
    BY <2>3, <2>4, VaultStep
<1> QED
  BY <1>1, <1>2, TypeCorrect, RecordsCorrect, PTL DEF Spec
-----------------------------------------------------------------------------
(* Where slashed and claimed bonds go. *)

\* The settler's other calls slash nothing: they move a bond one phase on, or none,
\* and pay its node when it is claimed.
LEMMA OtherMoves ==
    ASSUME TypeOK, RecordInv, SettlerOther
    PROVE  \/ Phase' = Phase
           \/ \E b \in Bonds : \/ /\ Phase[b] = "none"
                                  /\ Phase' = [Phase EXCEPT ![b] = "posted"]
                               \/ /\ Phase[b] = "posted"
                                  /\ Phase' = [Phase EXCEPT ![b] = "revealed"]
                               \/ /\ Phase[b] = "revealed"
                                  /\ Phase' = [Phase EXCEPT ![b] = "claimed"]
                                  /\ balance'[Native][b[2]]
                                        = balance[Native][b[2]] + BOND_AMOUNT
<1> DEFINE Goal ==
        \/ Phase' = Phase
        \/ \E b \in Bonds : \/ /\ Phase[b] = "none"
                               /\ Phase' = [Phase EXCEPT ![b] = "posted"]
                            \/ /\ Phase[b] = "posted"
                               /\ Phase' = [Phase EXCEPT ![b] = "revealed"]
                            \/ /\ Phase[b] = "revealed"
                               /\ Phase' = [Phase EXCEPT ![b] = "claimed"]
                               /\ balance'[Native][b[2]]
                                     = balance[Native][b[2]] + BOND_AMOUNT
<1> PICK p \in Periods, n \in Nodes :
        \/ \E hash \in Hashes : SubmitCommit(p, n, hash)
        \/ \E root \in Roots : RevealMatch(p, n, root)
        \/ Challenge(p, n)
        \/ ClaimBond(p, n)
  BY DEF SettlerOther
<1> DEFINE old == commits[p][n]
           bond == <<p, n>>
<1>0. old \in CommitRecord /\ now \in Nat \ {0} /\ bond[2] = n
  BY CommitRecords DEF TypeOK, ChainTypeOK
<1>1. ASSUME NEW c, NEW from, NEW to, SetCommit(p, n, c),
             PhaseOf(old) = from, PhaseOf(c) = to
      PROVE  bond \in Bonds /\ Phase[bond] = from /\ Phase' = [Phase EXCEPT ![bond] = to]
  <2>1. /\ bond \in Bonds /\ Phase[bond] = PhaseOf(old)
        /\ Phase' = [Phase EXCEPT ![bond] = PhaseOf(c)]
    BY <1>1, PhaseMoves DEF TypeOK
  <2> QED
    BY <1>1, <2>1, Zenon
<1>2. ASSUME NEW hash \in Hashes, SubmitCommit(p, n, hash)
      PROVE  Goal
  <2> DEFINE new == [commitmentHash |-> hash, committedAt |-> now,
                     revealedAt |-> 0, bondReleased |-> FALSE]
  <2>1. SetCommit(p, n, new) /\ old.committedAt = 0
    BY <1>2 DEF SubmitCommit
  <2>2. PhaseOf(old) = "none" /\ PhaseOf(new) = "posted"
    BY <1>0, <2>1 DEF PhaseOf
  <2> QED
    BY <1>1, <2>1, <2>2
<1>3. ASSUME NEW root \in Roots, RevealMatch(p, n, root)
      PROVE  Goal
  <2> DEFINE new == [old EXCEPT !.revealedAt = now]
  <2>1. /\ SetCommit(p, n, new)
        /\ old.committedAt # 0 /\ old.revealedAt = 0 /\ ~old.bondReleased
    BY <1>3 DEF RevealMatch, RevealAllowed
  <2>2. PhaseOf(old) = "posted" /\ PhaseOf(new) = "revealed"
    BY <1>0, <2>1 DEF PhaseOf, CommitRecord
  <2> QED
    BY <1>1, <2>1, <2>2
<1>4. CASE Challenge(p, n)
  BY <1>4 DEF Challenge, Phase, CommitOf
<1>5. CASE ClaimBond(p, n)
  <2> DEFINE new == [old EXCEPT !.bondReleased = TRUE]
  <2>1. SetCommit(p, n, new) /\ old.revealedAt # 0 /\ ~old.bondReleased
    BY <1>5 DEF ClaimBond, ClaimAllowed
  <2>2. old.committedAt # 0
    BY <2>1 DEF RecordInv, RecordOK
  <2>3. PhaseOf(old) = "revealed" /\ PhaseOf(new) = "claimed"
    BY <1>0, <2>1, <2>2 DEF PhaseOf, CommitRecord
  <2>4. /\ n \in Accounts \ {Settler} /\ Settler \in Accounts /\ Native \in Tokens
        /\ BOND_AMOUNT \in Nat
    BY ConstantTypes, ChainAssumption, SettlerAssumption
  <2>5. balance'[Native][n] = balance[Native][n] + BOND_AMOUNT
    BY <1>5, <2>4, PaidBalances DEF ClaimBond, TypeOK
  <2> QED
    BY <1>0, <1>1, <2>1, <2>3, <2>5
<1> QED
  BY <1>2, <1>3, <1>4, <1>5

\* A call that slashes adds one bond to those slashed, and pays one to slashRecipient.
LEMMA SlashingMove ==
    ASSUME TypeOK, SettlerSlashing
    PROVE  /\ \E b \in Bonds : /\ Phase[b] = "posted"
                               /\ Phase' = [Phase EXCEPT ![b] = "slashed"]
           /\ balance'[Native][slashRecipient]
                = balance[Native][slashRecipient] + BOND_AMOUNT
<1> PICK p \in Periods, n \in Nodes :
        \/ \E root \in Roots : RevealMismatch(p, n, root)
        \/ SlashUnrevealed(p, n)
  BY DEF SettlerSlashing
<1> DEFINE old == commits[p][n]
           new == [old EXCEPT !.bondReleased = TRUE]
<1>1. SetCommit(p, n, new) /\ Slash
  BY DEF RevealMismatch, SlashUnrevealed
<1>2. old \in CommitRecord
  BY CommitRecords DEF TypeOK
<1>3. old.committedAt # 0 /\ old.revealedAt = 0 /\ ~old.bondReleased
  BY DEF RevealMismatch, RevealAllowed, SlashUnrevealed, SlashAllowed
<1>4. PhaseOf(old) = "posted" /\ PhaseOf(new) = "slashed"
  BY <1>2, <1>3 DEF PhaseOf, CommitRecord
<1>5. \E b \in Bonds : Phase[b] = "posted" /\ Phase' = [Phase EXCEPT ![b] = "slashed"]
  <2>1. /\ <<p, n>> \in Bonds /\ Phase[<<p, n>>] = PhaseOf(old)
        /\ Phase' = [Phase EXCEPT ![<<p, n>>] = PhaseOf(new)]
    BY <1>1, PhaseMoves DEF TypeOK
  <2>2. Phase[<<p, n>>] = "posted" /\ Phase' = [Phase EXCEPT ![<<p, n>>] = "slashed"]
    BY <1>4, <2>1, Zenon
  <2> QED
    BY <2>1, <2>2
<1>6. /\ slashRecipient \in Accounts \ {Settler} /\ Settler \in Accounts
      /\ Native \in Tokens /\ BOND_AMOUNT \in Nat
  BY ConstantTypes, ChainAssumption, SettlerAssumption
<1>7. balance'[Native][slashRecipient] = balance[Native][slashRecipient] + BOND_AMOUNT
  BY <1>1, <1>6, PaidBalances DEF Slash, TypeOK
<1> QED
  BY <1>5, <1>7

\* The escrow's calls never take from the slash pool.
LEMMA PoolOnlyGrows ==
    ASSUME TypeOK, EscrowNext
    PROVE  slashPool' \in Nat /\ slashPool' >= slashPool
<1> DEFINE Grows == slashPool' \in Nat /\ slashPool' >= slashPool
<1>1. slashPool \in Nat /\ Amounts \subseteq Nat
  BY EscrowAssumption DEF TypeOK, EscrowTypeOK
<1>2. ASSUME NEW t, NEW amount \in Nat
      PROVE  PoolAfter(t, amount) \in Nat /\ PoolAfter(t, amount) >= slashPool
  BY <1>1 DEF PoolAfter
<1>3. ASSUME NEW u \in Donors, NEW t \in Tokens, NEW amount \in Amounts,
             Donate(u, t, amount)
      PROVE  Grows
  BY <1>1, <1>2, <1>3 DEF Donate
<1>4. ASSUME NEW t, NEW to, NEW amount \in Nat, Transfer(t, to, amount)
      PROVE  Grows
  BY <1>1, <1>2, <1>4 DEF Transfer
<1>5. CASE UNCHANGED slashPool
  BY <1>1, <1>5
<1>6. ASSUME NEW o \in OrderIds,
             \/ \E sender \in Users : ConfirmOrder(sender, o)
             \/ \E arb \in Users, resolution \in {0, 1} : ResolveFull(arb, o, resolution)
             \/ \E arb \in Users : ResolveSplit(arb, o)
             \/ FinishSplit(o)
             \/ RefundExpiredOrder(o)
      PROVE  Grows
  <2>1. orders[o].amount \in Nat /\ ClientShare(o) \in Nat /\ AgentShare(o) \in Nat
    BY OrderTypes DEF TypeOK
  <2> QED
    BY <1>4, <1>6, <2>1
    DEF ConfirmOrder, ResolveFull, ResolveSplit, FinishSplit, RefundExpiredOrder
<1> QED
  BY <1>3, <1>5, <1>6 DEF EscrowNext, SetArbitrator, CreateOrder, DisputeOrder

\* Every bond ever slashed is in the escrow's pool, whatever else the pool got and
\* whatever the escrow's orders did.
THEOREM SlashesArePooled == Spec => []SlashesPooled
<1> DEFINE count == Cardinality(InPhase({"slashed"}))
<1>1. Init => SlashesPooled
  <2> SUFFICES ASSUME Init PROVE SlashesPooled
    OBVIOUS
  <2>1. InPhase({"slashed"}) = {}
    BY DEF Init, SettlerInit, NoCommit, Bonds, CommitOf, PhaseOf, InPhase
  <2>2. count = 0 /\ BOND_AMOUNT * 0 = 0
    BY <2>1, FS_EmptySet, ConstantTypes
  <2> QED
    BY <2>2 DEF SlashesPooled, Init, EscrowInit
<1>2. TypeOK /\ RecordInv /\ SlashesPooled /\ [Next]_vars => SlashesPooled'
  <2> SUFFICES ASSUME TypeOK, RecordInv, SlashesPooled, [Next]_vars,
                      slashRecipient = Escrow
               PROVE  slashPool' >= BOND_AMOUNT * count'
    BY DEF SlashesPooled
  <2>1. /\ count \in Nat /\ BOND_AMOUNT \in Nat /\ slashPool \in Nat
        /\ slashPool >= BOND_AMOUNT * count
    BY BondsFinite, ConstantTypes DEF TypeOK, EscrowTypeOK, SlashesPooled
  <2>2. ASSUME slashPool' = slashPool, InPhase({"slashed"})' = InPhase({"slashed"})
        PROVE  slashPool' >= BOND_AMOUNT * count'
    BY <2>1, <2>2
  <2>3. ASSUME UNCHANGED settlerVars
        PROVE  InPhase({"slashed"})' = InPhase({"slashed"})
    BY <2>3 DEF settlerVars, InPhase, CommitOf, PhaseOf
  <2>4. CASE SlashingCall
    <3>1. slashPool' = slashPool + BOND_AMOUNT
      BY <2>4 DEF SlashingCall, Receive, PoolAfter
    <3>2. PICK b \in Bonds : /\ Phase[b] = "posted"
                             /\ Phase' = [Phase EXCEPT ![b] = "slashed"]
      BY <2>4, SlashingMove DEF SlashingCall
    <3>3. count' = count + 1
      BY <3>2, CountMove
    <3> QED
      BY <2>1, <3>1, <3>3
  <2>5. CASE SettlerCall
    <3>1. \A b \in Bonds : (Phase[b] = "slashed") = (Phase'[b] = "slashed")
      BY <2>5, OtherMoves DEF SettlerCall, Phase
    <3>2. InPhase({"slashed"})' = InPhase({"slashed"})
      BY <3>1 DEF InPhase, Phase
    <3> QED
      BY <2>2, <2>5, <3>2 DEF SettlerCall, escrowVars
  <2>6. CASE EscrowCall
    <3>1. slashPool' \in Nat /\ slashPool' >= slashPool
      BY <2>6, PoolOnlyGrows DEF EscrowCall
    <3>2. count' = count
      BY <2>3, <2>6 DEF EscrowCall
    <3> QED
      BY <2>1, <3>1, <3>2
  <2>7. CASE BlockTick \/ RegistryCall \/ UNCHANGED vars
    BY <2>2, <2>3, <2>7 DEF BlockTick, RegistryCall, vars, escrowVars
  <2> QED
    BY <2>4, <2>5, <2>6, <2>7 DEF Next
<1> QED
  BY <1>1, <1>2, TypeCorrect, RecordsCorrect, PTL DEF Spec

\* A bond that is slashed goes to slashRecipient and one that is claimed to its own
\* node, in full and in the same step.
THEOREM BondsComeHome == Spec => BondsGoHome
<1>1. TypeOK /\ RecordInv /\ Next => \A b \in Bonds : GoesHome(b)
  <2> SUFFICES ASSUME TypeOK, RecordInv, Next, NEW b \in Bonds
               PROVE  GoesHome(b)
    OBVIOUS
  <2>1. PhaseOf(CommitOf(b)) = Phase[b] /\ PhaseOf(CommitOf(b)') = Phase'[b]
    BY DEF Phase, PhaseOf
  <2>2. CASE Phase'[b] = Phase[b]
    BY <2>1, <2>2 DEF GoesHome
  <2>3. CASE SlashingCall
    <3>1. PICK c \in Bonds : /\ Phase[c] = "posted"
                             /\ Phase' = [Phase EXCEPT ![c] = "slashed"]
      BY <2>3, SlashingMove DEF SlashingCall
    <3>2. balance'[Native][slashRecipient] = balance[Native][slashRecipient] + BOND_AMOUNT
      BY <2>3, SlashingMove DEF SlashingCall
    <3>3. Phase'[b] = Phase[b] \/ Phase'[b] = "slashed"
      BY <3>1 DEF Phase
    <3> QED
      BY <2>1, <2>2, <3>2, <3>3 DEF GoesHome
  <2>4. CASE SettlerCall
    <3>1. \/ Phase'[b] \in {Phase[b], "posted", "revealed"}
          \/ /\ Phase'[b] = "claimed"
             /\ balance'[Native][b[2]] = balance[Native][b[2]] + BOND_AMOUNT
      BY <2>4, OtherMoves DEF SettlerCall, Phase
    <3> QED
      BY <2>1, <2>2, <3>1 DEF GoesHome
  <2>5. CASE BlockTick \/ RegistryCall \/ EscrowCall
    <3>1. Phase'[b] = Phase[b]
      BY <2>5 DEF BlockTick, RegistryCall, EscrowCall, settlerVars, Phase, CommitOf, PhaseOf
    <3> QED
      BY <2>2, <3>1
  <2> QED
    BY <2>3, <2>4, <2>5 DEF Next
<1> QED
  BY <1>1, TypeCorrect, RecordsCorrect, PTL DEF Spec, BondsGoHome

-----------------------------------------------------------------------------
HIDE DEF Accounts

(* Adding up a finite table of amounts: the sum of d over S is the number of    *)
(* the pairs of a member of S and one of its units.                             *)

Units(S, d) == {u \in S \X Nat : u[2] \in 1..d[u[1]]}

\* A finite set has finitely many units.
LEMMA UnitsFinite ==
    ASSUME NEW S, IsFiniteSet(S), NEW d \in [S -> Nat]
    PROVE  IsFiniteSet(Units(S, d)) /\ Cardinality(Units(S, d)) \in Nat
<1> DEFINE Of == [x \in S |-> {x} \X (1..d[x])]
           Parts == {Of[x] : x \in S}
<1>1. Of \in Surjection(S, Parts)
  BY DEF Surjection
<1>2. IsFiniteSet(Parts)
  BY <1>1, FS_Surjection
<1>3. ASSUME NEW P \in Parts
      PROVE  IsFiniteSet(P)
  <2>1. PICK x \in S : P = {x} \X (1..d[x])
    OBVIOUS
  <2>2. d[x] \in Int
    OBVIOUS
  <2>3. IsFiniteSet(1..d[x])
    BY <2>2, FS_Interval
  <2>4. IsFiniteSet({x})
    BY FS_Singleton
  <2> QED
    BY <2>1, <2>3, <2>4, FS_Product
<1>4. IsFiniteSet(UNION Parts)
  BY <1>2, <1>3, FS_UNION
<1>5. Units(S, d) \subseteq UNION Parts
  <2> SUFFICES ASSUME NEW u \in Units(S, d) PROVE u \in UNION Parts
    OBVIOUS
  <2>1. PICK x \in S, i \in Nat : u = <<x, i>> /\ i \in 1..d[x]
    BY DEF Units
  <2>2. u \in Of[x] /\ Of[x] \in Parts
    BY <2>1
  <2> QED
    BY <2>2
<1> QED
  BY <1>4, <1>5, FS_Subset, FS_CardinalityType

\* The units of one member and the units of the others.
LEMMA UnitsSplit ==
    ASSUME NEW S, IsFiniteSet(S), NEW d \in [S -> Nat], NEW o \in S
    PROVE  Cardinality(Units(S, d)) = Cardinality(Units(S \ {o}, d)) + d[o]
<1> DEFINE Own == {o} \X (1..d[o])
           Rest == Units(S \ {o}, d)
<1>1. Units(S, d) = Rest \cup Own /\ Rest \cap Own = {}
  BY DEF Units
<1>2. IsFiniteSet({o}) /\ Cardinality({o}) = 1
  BY FS_Singleton
<1>3. IsFiniteSet(1..d[o]) /\ Cardinality(1..d[o]) = d[o]
  BY FS_Interval
<1>4. IsFiniteSet(Own) /\ Cardinality(Own) = 1 * d[o]
  BY <1>2, <1>3, FS_Product
<1>5. Rest \subseteq Units(S, d)
  BY DEF Units
<1>6. IsFiniteSet(Rest) /\ Cardinality(Rest) \in Nat
  BY <1>5, UnitsFinite, FS_Subset, FS_CardinalityType
<1>7. Cardinality(Rest \cup Own) = Cardinality(Rest) + Cardinality(Own) - Cardinality(Rest \cap Own)
  BY <1>4, <1>6, FS_Union
<1>8. Cardinality(Rest \cap Own) = 0
  BY <1>1, FS_EmptySet
<1>9. d[o] \in Nat /\ 1 * d[o] = d[o]
  OBVIOUS
<1> HIDE DEF Own, Rest
<1>10. Cardinality(Rest \cup Own) = Cardinality(Rest) + d[o]
  BY <1>4, <1>6, <1>7, <1>8, <1>9
<1> QED
  BY <1>1, <1>10 DEF Rest

\* One amount changes, and the sum by as much.
LEMMA UnitsChange ==
    ASSUME NEW S, IsFiniteSet(S), NEW d \in [S -> Nat], NEW e \in [S -> Nat],
           NEW o \in S, \A x \in S \ {o} : e[x] = d[x]
    PROVE  Cardinality(Units(S, e)) = Cardinality(Units(S, d)) + (e[o] - d[o])
<1>1. Units(S \ {o}, e) = Units(S \ {o}, d)
  BY DEF Units
<1>2. Cardinality(Units(S, d)) = Cardinality(Units(S \ {o}, d)) + d[o]
  BY UnitsSplit
<1>3. Cardinality(Units(S, e)) = Cardinality(Units(S \ {o}, e)) + e[o]
  BY UnitsSplit
<1>4. Units(S \ {o}, d) \subseteq Units(S, d)
  BY DEF Units
<1>5. Cardinality(Units(S \ {o}, d)) \in Nat
  BY <1>4, UnitsFinite, FS_Subset, FS_CardinalityType
<1> QED
  BY <1>1, <1>2, <1>3, <1>5

-----------------------------------------------------------------------------
(* The inductive invariant of the escrow. *)

\* A split runs inside a resolved order; the ids below a client's nonce are its
\* orders, whose agent is some other account (the escrow itself is not excluded),
\* and the others were never created, though one may have been "refunded".
EscrowInv ==
    /\ \A o \in splits : orders[o].status = "Resolved"
    /\ \A o \in OrderIds :
        IF o[2] < nonces[o[1]]
        THEN orders[o].client = o[1] /\ orders[o].agent \notin {ZeroAddr, o[1]}
        ELSE orders[o] \in {EmptyOrder, [EmptyOrder EXCEPT !.status = "Refunded"]}

\* A call that settles order o, in whole or by one of the two halves of a split.
Settles(o) ==
    \/ \E sender \in Users : ConfirmOrder(sender, o)
    \/ \E arb \in Users, resolution \in {0, 1} : ResolveFull(arb, o, resolution)
    \/ \E arb \in Users : ResolveSplit(arb, o)
    \/ FinishSplit(o)
    \/ RefundExpiredOrder(o)

\* Writing the status of one order leaves the others, and its other fields, alone.
LEMMA SetStatus ==
    ASSUME EscrowTypeOK, NEW o \in OrderIds, NEW status, Set(o, status)
    PROVE  /\ orders'[o] = [orders[o] EXCEPT !.status = status]
           /\ orders'[o].status = status
           /\ orders'[o].client = orders[o].client
           /\ orders'[o].agent = orders[o].agent
           /\ orders'[o].paymentToken = orders[o].paymentToken
           /\ orders'[o].amount = orders[o].amount
           /\ \A x \in OrderIds \ {o} : orders'[x] = orders[x]
<1>1. orders \in [OrderIds -> Order] /\ orders[o] \in Order
  BY DEF EscrowTypeOK
<1>2. orders'[o] = [orders[o] EXCEPT !.status = status]
  BY <1>1 DEF Set
<1>3. /\ orders'[o].status = status
      /\ orders'[o].client = orders[o].client
      /\ orders'[o].agent = orders[o].agent
      /\ orders'[o].paymentToken = orders[o].paymentToken
      /\ orders'[o].amount = orders[o].amount
  BY <1>1, <1>2 DEF Order
<1>4. \A x \in OrderIds \ {o} : orders'[x] = orders[x]
  BY <1>1 DEF Set
<1> QED
  BY <1>2, <1>3, <1>4

\* Such a call pays one party of its order what the escrow then owes less on it,
\* and changes nothing of the other orders.
LEMMA SettlingPays ==
    ASSUME TypeOK, EscrowInv, NEW o \in OrderIds, Settles(o)
    PROVE  /\ Due(o) \in Nat /\ Due(o)' \in Nat /\ Due(o)' <= Due(o)
           /\ \E to \in {orders[o].client, orders[o].agent} :
                /\ Transfer(orders[o].paymentToken, to, Due(o) - Due(o)')
                /\ orders'[o].status = "Confirmed" => to = orders[o].agent
                /\ orders'[o].status = "Refunded" => to = orders[o].client
           /\ orders'[o].paymentToken = orders[o].paymentToken
           /\ \A x \in OrderIds \ {o} :
                orders'[x] = orders[x] /\ (x \in splits') = (x \in splits)
<1> DEFINE order == orders[o]
<1>0. /\ order.amount \in Nat /\ ClientShare(o) \in Nat /\ AgentShare(o) \in Nat
      /\ ClientShare(o) + AgentShare(o) = order.amount
      /\ EscrowTypeOK
  BY OrderTypes DEF TypeOK
<1> DEFINE Goal ==
        /\ Due(o) \in Nat /\ Due(o)' \in Nat /\ Due(o)' <= Due(o)
        /\ \E to \in {orders[o].client, orders[o].agent} :
            /\ Transfer(orders[o].paymentToken, to, Due(o) - Due(o)')
            /\ orders'[o].status = "Confirmed" => to = orders[o].agent
            /\ orders'[o].status = "Refunded" => to = orders[o].client
        /\ orders'[o].paymentToken = orders[o].paymentToken
        /\ \A x \in OrderIds \ {o} :
            orders'[x] = orders[x] /\ (x \in splits') = (x \in splits)
<1>1. ASSUME NEW status \in {"Confirmed", "Resolved", "Refunded"}, Set(o, status),
             order.status \in {"Pending", "Disputed"}, UNCHANGED splits,
             NEW to \in {order.client, order.agent},
             Transfer(order.paymentToken, to, order.amount),
             status = "Confirmed" => to = order.agent,
             status = "Refunded" => to = order.client
      PROVE  Goal
  <2>1. o \notin splits
    BY <1>1 DEF EscrowInv
  <2>2. /\ orders'[o].status = status /\ orders'[o].paymentToken = order.paymentToken
        /\ \A x \in OrderIds \ {o} : orders'[x] = orders[x]
    BY <1>0, <1>1, SetStatus
  <2>3. Due(o) = order.amount /\ Due(o)' = 0
    BY <1>1, <2>1, <2>2 DEF Due
  <2>4. Due(o) - Due(o)' = order.amount
    BY <1>0, <2>3
  <2> QED
    BY <1>0, <1>1, <2>2, <2>3, <2>4
<1>2. ASSUME NEW sender \in Users, ConfirmOrder(sender, o)
      PROVE  Goal
  BY <1>1, <1>2 DEF ConfirmOrder
<1>3. ASSUME NEW arb \in Users, NEW resolution \in {0, 1}, ResolveFull(arb, o, resolution)
      PROVE  Goal
  BY <1>1, <1>3 DEF ResolveFull
<1>4. CASE RefundExpiredOrder(o)
  BY <1>1, <1>4 DEF RefundExpiredOrder
<1>5. ASSUME NEW arb \in Users, ResolveSplit(arb, o)
      PROVE  Goal
  <2>1. /\ Set(o, "Resolved") /\ order.status = "Disputed"
        /\ Transfer(order.paymentToken, order.client, ClientShare(o))
        /\ splits' = splits \cup {o}
    BY <1>5 DEF ResolveSplit
  <2>2. /\ orders'[o].status = "Resolved" /\ orders'[o].paymentToken = order.paymentToken
        /\ orders'[o].amount = order.amount
        /\ \A x \in OrderIds \ {o} : orders'[x] = orders[x]
    BY <1>0, <2>1, SetStatus
  <2>3. Due(o) = order.amount
    BY <2>1 DEF Due, EscrowInv
  <2>4. Due(o)' = AgentShare(o)
    BY <2>1, <2>2 DEF Due, AgentShare, ClientShare
  <2>5. Due(o) - Due(o)' = ClientShare(o) /\ Due(o)' <= Due(o)
    BY <1>0, <2>3, <2>4
  <2> QED
    BY <1>0, <2>1, <2>2, <2>3, <2>4, <2>5
<1>6. CASE FinishSplit(o)
  <2>1. /\ o \in splits /\ splits' = splits \ {o} /\ UNCHANGED orders
        /\ Transfer(order.paymentToken, order.agent, AgentShare(o))
    BY <1>6 DEF FinishSplit
  <2>2. order.status = "Resolved"
    BY <2>1 DEF EscrowInv
  <2>3. Due(o) = AgentShare(o) /\ Due(o)' = 0
    BY <2>1, <2>2 DEF Due
  <2>4. Due(o) - Due(o)' = AgentShare(o)
    BY <1>0, <2>3
  <2> QED
    BY <1>0, <2>1, <2>2, <2>3, <2>4
<1> QED
  BY <1>2, <1>3, <1>4, <1>5, <1>6 DEF Settles

\* Every step keeps EscrowInv: the escrow's calls one by one, and no other call
\* touches the orders.
LEMMA EscrowInvStep ==
    ASSUME TypeOK, EscrowInv, [Next]_vars
    PROVE  EscrowInv'
<1> DEFINE Unused == {EmptyOrder, [EmptyOrder EXCEPT !.status = "Refunded"]}
           RowOK(o) == IF o[2] < nonces[o[1]]
                       THEN orders[o].client = o[1] /\ orders[o].agent \notin {ZeroAddr, o[1]}
                       ELSE orders[o] \in Unused
<1>1. /\ EscrowTypeOK
      /\ \A o \in OrderIds : RowOK(o)
      /\ \A o \in splits : o \in OrderIds /\ orders[o].status = "Resolved"
      /\ \A u \in Users : u # ZeroAddr
  BY ChainAssumption DEF TypeOK, EscrowTypeOK, EscrowInv
<1>2. ASSUME UNCHANGED <<orders, nonces, splits>>
      PROVE  EscrowInv'
  BY <1>2 DEF EscrowInv
<1>3. ASSUME NEW o \in OrderIds, NEW status, Set(o, status), UNCHANGED nonces,
             orders[o] \in Unused => status = "Refunded",
             \/ UNCHANGED splits /\ orders[o].status # "Resolved"
             \/ status = "Resolved" /\ splits' = splits \cup {o}
      PROVE  EscrowInv'
  <2>1. /\ orders'[o] = [orders[o] EXCEPT !.status = status]
        /\ orders'[o].status = status /\ orders'[o].client = orders[o].client
        /\ orders'[o].agent = orders[o].agent
        /\ \A x \in OrderIds \ {o} : orders'[x] = orders[x]
    BY <1>1, <1>3, SetStatus
  <2>2. \A x \in splits' : orders'[x].status = "Resolved"
    <3>1. CASE status = "Resolved"
      <4>1. \A x \in splits' : x = o \/ x \in splits
        BY <1>3
      <4>2. \A x \in splits : x = o \/ (x \in OrderIds \ {o} /\ orders[x].status = "Resolved")
        BY <1>1
      <4> QED
        BY <2>1, <3>1, <4>1, <4>2
    <3>2. CASE status # "Resolved"
      <4>1. UNCHANGED splits /\ o \notin splits
        BY <1>1, <1>3, <3>2
      <4>2. \A x \in splits : x \in OrderIds \ {o} /\ orders[x].status = "Resolved"
        BY <1>1, <4>1
      <4> QED
        BY <2>1, <4>1, <4>2
    <3> QED
      BY <3>1, <3>2
  <2>3. ASSUME NEW x \in OrderIds PROVE RowOK(x)'
    <3>1. CASE x # o
      BY <1>1, <1>3, <2>1, <3>1
    <3>2. CASE x = o /\ o[2] < nonces[o[1]]
      BY <1>1, <1>3, <2>1, <3>2
    <3>3. CASE x = o /\ ~(o[2] < nonces[o[1]])
      <4>1. orders[o] \in Unused
        BY <1>1, <3>3
      <4>2. [orders[o] EXCEPT !.status = "Refunded"] \in Unused
        BY <4>1 DEF EmptyOrder
      <4> QED
        BY <1>3, <2>1, <3>3, <4>1, <4>2
    <3> QED
      BY <3>1, <3>2, <3>3
  <2> QED
    BY <2>2, <2>3 DEF EscrowInv
<1>4. ASSUME NEW o \in OrderIds, orders[o] \in Unused
      PROVE  /\ orders[o].client = ZeroAddr /\ orders[o].agent = ZeroAddr
             /\ orders[o].status \in {"Pending", "Refunded"}
  BY <1>4 DEF EmptyOrder
<1>5. ASSUME NEW o \in OrderIds, NEW sender \in Users,
             ConfirmOrder(sender, o) \/ DisputeOrder(sender, o)
      PROVE  EscrowInv'
  <2>1. orders[o] \notin Unused
    BY <1>1, <1>4, <1>5 DEF ConfirmOrder, DisputeOrder
  <2> QED
    BY <1>3, <1>5, <2>1 DEF ConfirmOrder, DisputeOrder
<1>6. ASSUME NEW o \in OrderIds, NEW arb \in Users,
             \/ \E resolution \in {0, 1} : ResolveFull(arb, o, resolution)
             \/ ResolveSplit(arb, o)
      PROVE  EscrowInv'
  <2>1. orders[o] \notin Unused
    BY <1>4, <1>6 DEF ResolveFull, ResolveSplit
  <2> QED
    BY <1>3, <1>6, <2>1 DEF ResolveFull, ResolveSplit
<1>7. ASSUME NEW o \in OrderIds, FinishSplit(o)
      PROVE  EscrowInv'
  BY <1>1, <1>7 DEF FinishSplit, EscrowInv
<1>8. ASSUME NEW o \in OrderIds, RefundExpiredOrder(o)
      PROVE  EscrowInv'
  BY <1>3, <1>8 DEF RefundExpiredOrder
<1>9. ASSUME NEW client \in Clients, NEW agent \in Agents, NEW t \in Tokens,
             NEW amount \in Amounts, NEW deadline \in now + 1 .. MaxTime - 1,
             CreateOrder(client, agent, t, amount, deadline)
      PROVE  EscrowInv'
  <2> DEFINE o == <<client, nonces[client]>>
             new == [client |-> client, agent |-> agent, paymentToken |-> t,
                     amount |-> amount, deadline |-> deadline, status |-> "Pending"]
  <2>1. /\ nonces \in [Clients -> 0..MaxOrders] /\ MaxOrders \in Nat
        /\ nonces[client] < MaxOrders /\ agent \notin {ZeroAddr, client}
    BY <1>9, ConstantTypes DEF CreateOrder, TypeOK, EscrowTypeOK
  <2>2. o \in OrderIds /\ o[1] = client /\ o[2] = nonces[client]
    BY <2>1 DEF OrderIds
  <2>3. /\ \A x \in OrderIds : orders'[x] = IF x = o THEN new ELSE orders[x]
        /\ \A u \in Clients : nonces'[u] = IF u = client THEN nonces[u] + 1 ELSE nonces[u]
        /\ splits' = splits
    BY <1>1, <1>9, <2>1 DEF CreateOrder, EscrowTypeOK
  <2>4. orders[o] \in Unused
    BY <1>1, <2>1, <2>2
  <2>5. o \notin splits
    BY <1>1, <1>4, <2>2, <2>4
  <2>6. \A x \in splits' : orders'[x].status = "Resolved"
    BY <1>1, <2>3, <2>5
  <2>7. ASSUME NEW x \in OrderIds PROVE RowOK(x)'
    <3>1. PICK u \in Clients, i \in 0..MaxOrders - 1 : x = <<u, i>>
      BY DEF OrderIds
    <3>2. x[1] = u /\ x[2] = i /\ nonces[u] \in Nat /\ i \in Nat
      BY <2>1, <3>1
    <3>3. CASE u = client /\ i = nonces[client]
      <4>1. orders'[x] = new /\ nonces'[u] = i + 1
        BY <2>3, <3>1, <3>3
      <4>2. i < nonces'[u]
        BY <3>2, <4>1
      <4> QED
        BY <2>1, <3>2, <3>3, <4>1, <4>2
    <3>4. CASE ~(u = client /\ i = nonces[client])
      <4>1. orders'[x] = orders[x]
        BY <2>3, <3>1, <3>4
      <4>2. (i < nonces'[u]) = (i < nonces[u])
        BY <2>3, <3>2, <3>4
      <4>3. RowOK(x)
        BY <1>1
      <4> QED
        BY <3>2, <4>1, <4>2, <4>3
    <3> QED
      BY <3>3, <3>4
  <2> QED
    BY <2>6, <2>7 DEF EscrowInv
<1>10. CASE EscrowCall
  <2>1. ASSUME NEW sender \in Users, NEW arb \in Arbiters, NEW active \in BOOLEAN,
               SetArbitrator(sender, arb, active)
        PROVE  EscrowInv'
    BY <1>2, <2>1 DEF SetArbitrator
  <2>2. ASSUME NEW u \in Donors, NEW t \in Tokens, NEW amount \in Amounts,
               Donate(u, t, amount)
        PROVE  EscrowInv'
    BY <1>2, <2>2 DEF Donate
  <2> QED
    BY <1>5, <1>6, <1>7, <1>8, <1>9, <1>10, <2>1, <2>2 DEF EscrowCall, EscrowNext
<1>11. CASE SlashingCall
  BY <1>2, <1>11 DEF SlashingCall, Receive, PoolAfter, escrowVars
<1>12. CASE BlockTick \/ RegistryCall \/ SettlerCall \/ UNCHANGED vars
  BY <1>2, <1>12 DEF BlockTick, RegistryCall, SettlerCall, vars, escrowVars
<1> QED
  BY <1>10, <1>11, <1>12 DEF Next

\* An id stands for one order of its client, whose agent is another account (any
\* contract too, the escrow included), and only a resolved order is ever between
\* the two transfers of a split.
THEOREM EscrowOrdersCorrect == Spec => []EscrowInv
<1>1. Init => EscrowInv
  BY DEF Init, EscrowInit, EscrowInv, OrderIds
<1>2. TypeOK /\ EscrowInv /\ [Next]_vars => EscrowInv'
  BY EscrowInvStep
<1> QED
  BY <1>1, <1>2, TypeCorrect, PTL DEF Spec
-----------------------------------------------------------------------------
(* Where the escrow's money is, and where it goes. *)

\* What the escrow holds beside its orders' money.
PoolIn(t) == IF t = Native THEN slashPool ELSE 0

\* Outside its own calls the escrow's orders stay, it pays nothing, and what it
\* gets is a slashed bond, which the pool counts.
LEMMA OutsideEscrow ==
    ASSUME TypeOK, [Next]_vars, ~EscrowCall
    PROVE  /\ UNCHANGED <<orders, nonces, splits>>
           /\ slashPool' \in Nat /\ slashPool' >= slashPool
           /\ \A t \in Tokens : balance'[t][Escrow] - PoolIn(t)'
                                 = balance[t][Escrow] - PoolIn(t)
<1> DEFINE Goal == /\ UNCHANGED <<orders, nonces, splits>>
                   /\ slashPool' \in Nat /\ slashPool' >= slashPool
                   /\ \A t \in Tokens : balance'[t][Escrow] - PoolIn(t)'
                                         = balance[t][Escrow] - PoolIn(t)
<1>1. /\ ChainTypeOK /\ slashPool \in Nat /\ BOND_AMOUNT \in Nat /\ Native \in Tokens
      /\ Settler \in Accounts /\ Escrow \in Accounts \ {Settler}
      /\ Nodes \subseteq Accounts \ {Settler, Escrow}
      /\ slashRecipient \in Accounts \ {Settler}
  BY ConstantTypes, ChainAssumption, SettlerAssumption DEF TypeOK, EscrowTypeOK
<1>2. \A t \in Tokens : balance[t][Escrow] \in Nat
  BY <1>1 DEF ChainTypeOK
<1>3. ASSUME UNCHANGED <<orders, nonces, splits, slashPool>>,
             \A t \in Tokens : balance'[t][Escrow] = balance[t][Escrow]
      PROVE  Goal
  BY <1>1, <1>3 DEF PoolIn
<1>4. CASE SlashingCall
  <2>1. balance' = Paid(Native, Settler, slashRecipient, BOND_AMOUNT)
    BY <1>4 DEF SlashingCall, SettlerSlashing, RevealMismatch, SlashUnrevealed, Slash
  <2>2. /\ balance'[Native][slashRecipient] = balance[Native][slashRecipient] + BOND_AMOUNT
        /\ \A s \in Tokens, a \in Accounts :
                s # Native \/ a \notin {Settler, slashRecipient} =>
                    balance'[s][a] = balance[s][a]
    BY <1>1, <2>1, PaidBalances
  <2>3. CASE slashRecipient = Escrow
    <3>1. UNCHANGED <<orders, nonces, splits>> /\ slashPool' = slashPool + BOND_AMOUNT
      BY <1>4, <2>3 DEF SlashingCall, Receive, PoolAfter
    <3>2. ASSUME NEW t \in Tokens
          PROVE  balance'[t][Escrow] - PoolIn(t)' = balance[t][Escrow] - PoolIn(t)
      BY <1>1, <1>2, <2>2, <2>3, <3>1 DEF PoolIn
    <3>3. slashPool' \in Nat /\ slashPool' >= slashPool
      BY <1>1, <3>1
    <3> QED
      BY <3>1, <3>2, <3>3
  <2>4. CASE slashRecipient # Escrow
    BY <1>1, <1>3, <1>4, <2>2, <2>4 DEF SlashingCall, escrowVars
  <2> QED
    BY <2>3, <2>4
<1>5. CASE SettlerCall
  <2>1. UNCHANGED <<orders, nonces, splits, slashPool>>
    BY <1>5 DEF SettlerCall, escrowVars
  <2>2. \A t \in Tokens : balance'[t][Escrow] = balance[t][Escrow]
    <3> PICK p \in Periods, n \in Nodes :
            \/ \E hash \in Hashes : SubmitCommit(p, n, hash)
            \/ \E root \in Roots : RevealMatch(p, n, root)
            \/ Challenge(p, n)
            \/ ClaimBond(p, n)
      BY <1>5 DEF SettlerCall, SettlerOther
    <3>1. n \in Accounts \ {Settler} /\ n # Escrow /\ Settler \in Accounts \ {n}
          /\ Settler # Escrow
      BY <1>1
    <3>2. \/ balance' = balance
          \/ balance' = Paid(Native, n, Settler, BOND_AMOUNT)
          \/ balance' = Paid(Native, Settler, n, BOND_AMOUNT)
      BY DEF SubmitCommit, RevealMatch, Challenge, ClaimBond
    <3>3. ASSUME balance' = Paid(Native, n, Settler, BOND_AMOUNT), NEW t \in Tokens
          PROVE  balance'[t][Escrow] = balance[t][Escrow]
      BY <1>1, <3>1, <3>3, PaidBalances
    <3>4. ASSUME balance' = Paid(Native, Settler, n, BOND_AMOUNT), NEW t \in Tokens
          PROVE  balance'[t][Escrow] = balance[t][Escrow]
      BY <1>1, <3>1, <3>4, PaidBalances
    <3> QED
      BY <3>2, <3>3, <3>4
  <2> QED
    BY <1>3, <2>1, <2>2
<1>6. CASE BlockTick \/ RegistryCall \/ UNCHANGED vars
  BY <1>3, <1>6 DEF BlockTick, Tick, RegistryCall, vars, chainVars, escrowVars
<1> QED
  BY <1>4, <1>5, <1>6 DEF Next

\* The accounts of the escrow's transfers: it pays others, and others pay it.
LEMMA EscrowPayments ==
    ASSUME TypeOK, NEW t \in Tokens, NEW a \in Accounts \ {Escrow}, NEW amount \in Nat
    PROVE  /\ balance' = Paid(t, Escrow, a, amount) =>
                /\ balance'[t][Escrow] = balance[t][Escrow] - amount
                /\ balance'[t][a] = balance[t][a] + amount
                /\ \A s \in Tokens, b \in Accounts :
                        s # t \/ b \notin {Escrow, a} => balance'[s][b] = balance[s][b]
           /\ balance' = Paid(t, a, Escrow, amount) =>
                /\ balance'[t][Escrow] = balance[t][Escrow] + amount
                /\ \A s \in Tokens \ {t} : balance'[s][Escrow] = balance[s][Escrow]
<1>1. /\ ChainTypeOK /\ Escrow \in Accounts \ {a} /\ a \in Accounts \ {Escrow}
      /\ a \in Accounts /\ Escrow \in Accounts
  BY ChainAssumption DEF TypeOK, Accounts
<1>2. ASSUME balance' = Paid(t, Escrow, a, amount)
      PROVE  /\ balance'[t][Escrow] = balance[t][Escrow] - amount
             /\ balance'[t][a] = balance[t][a] + amount
             /\ \A s \in Tokens, b \in Accounts :
                    s # t \/ b \notin {Escrow, a} => balance'[s][b] = balance[s][b]
  BY <1>1, <1>2, PaidBalances
<1>3. ASSUME balance' = Paid(t, a, Escrow, amount)
      PROVE  /\ balance'[t][Escrow] = balance[t][Escrow] + amount
             /\ \A s \in Tokens \ {t} : balance'[s][Escrow] = balance[s][Escrow]
  BY <1>1, <1>3, PaidBalances
<1> QED
  BY <1>2, <1>3

\* What the escrow owes on an order is an amount.
LEMMA DueType ==
    ASSUME EscrowTypeOK, EscrowInv, NEW o \in OrderIds
    PROVE  Due(o) \in Nat
<1>1. orders[o].amount \in Nat /\ AgentShare(o) \in Nat
  BY OrderTypes
<1>2. orders[o].status \in {"Pending", "Disputed"} => o \notin splits
  BY DEF EscrowInv
<1> QED
  BY <1>1, <1>2 DEF Due

\* What is owed in token t, order by order.
DuesIn(t) == [o \in OrderIds |-> IF orders[o].paymentToken = t THEN Due(o) ELSE 0]

\* The units of Settlement are those of this table; there are finitely many.
LEMMA UnitsOfDues ==
    ASSUME EscrowTypeOK, EscrowInv, NEW t
    PROVE  /\ IsFiniteSet(OrderIds)
           /\ DuesIn(t) \in [OrderIds -> Nat]
           /\ UnitsDue(t) = Units(OrderIds, DuesIn(t))
           /\ Cardinality(UnitsDue(t)) \in Nat
<1>1. DuesIn(t) \in [OrderIds -> Nat]
  BY DueType DEF DuesIn
<1>2. UnitsDue(t) \subseteq Units(OrderIds, DuesIn(t))
  <2> SUFFICES ASSUME NEW u \in UnitsDue(t) PROVE u \in Units(OrderIds, DuesIn(t))
    OBVIOUS
  <2>1. PICK o \in OrderIds : orders[o].paymentToken = t /\ u \in {o} \X (1..Due(o))
    BY DEF UnitsDue
  <2>2. PICK i \in 1..Due(o) : u = <<o, i>>
    BY <2>1
  <2>3. DuesIn(t)[o] = Due(o) /\ Due(o) \in Nat
    BY <2>1, DueType DEF DuesIn
  <2> QED
    BY <2>2, <2>3 DEF Units
<1>3. Units(OrderIds, DuesIn(t)) \subseteq UnitsDue(t)
  <2> SUFFICES ASSUME NEW u \in Units(OrderIds, DuesIn(t)) PROVE u \in UnitsDue(t)
    OBVIOUS
  <2>1. PICK o \in OrderIds, i \in Nat : u = <<o, i>> /\ i \in 1..DuesIn(t)[o]
    BY DEF Units
  <2>2. orders[o].paymentToken = t /\ DuesIn(t)[o] = Due(o)
    BY <2>1 DEF DuesIn
  <2>3. u \in {o} \X (1..Due(o))
    BY <2>1, <2>2
  <2> QED
    BY <2>2, <2>3 DEF UnitsDue
<1>4. IsFiniteSet(OrderIds)
  <2>1. IsFiniteSet(Clients) /\ MaxOrders - 1 \in Int
    BY ConstantTypes, ChainAssumption, FS_Subset
  <2>2. IsFiniteSet(0..MaxOrders - 1)
    BY <2>1, FS_Interval
  <2> QED
    BY <2>1, <2>2, FS_Product DEF OrderIds
<1>5. UnitsDue(t) = Units(OrderIds, DuesIn(t))
  BY <1>2, <1>3
<1>6. Cardinality(Units(OrderIds, DuesIn(t))) \in Nat
  BY <1>1, <1>4, UnitsFinite
<1> QED
  BY <1>1, <1>4, <1>5, <1>6

\* The same, in the shape that also holds of the state a step leads to.
DuesCounted ==
    \A t \in Tokens :
        /\ DuesIn(t) \in [OrderIds -> Nat]
        /\ UnitsDue(t) = Units(OrderIds, DuesIn(t))
        /\ \A o \in OrderIds : Due(o) \in Nat

LEMMA DuesAreCounted == EscrowTypeOK /\ EscrowInv => DuesCounted
BY UnitsOfDues, DueType DEF DuesCounted

LEMMA DuesStayCounted == EscrowTypeOK' /\ EscrowInv' => DuesCounted'
BY DuesAreCounted, PTL

\* One order's due changes, and what is owed in its token by as much.
LEMMA OwedChange ==
    ASSUME EscrowTypeOK, EscrowInv, EscrowTypeOK', EscrowInv', NEW o \in OrderIds,
           orders'[o].paymentToken = orders[o].paymentToken \/ Due(o) = 0,
           \A x \in OrderIds \ {o} :
                orders'[x] = orders[x] /\ (x \in splits') = (x \in splits),
           NEW t \in Tokens
    PROVE  Cardinality(UnitsDue(t)') = Cardinality(UnitsDue(t))
                + (IF t = orders'[o].paymentToken THEN Due(o)' - Due(o) ELSE 0)
<1>1. /\ IsFiniteSet(OrderIds) /\ DuesIn(t) \in [OrderIds -> Nat]
      /\ UnitsDue(t) = Units(OrderIds, DuesIn(t))
      /\ Cardinality(UnitsDue(t)) \in Nat
  BY UnitsOfDues
<1>2. DuesIn(t)' \in [OrderIds -> Nat] /\ UnitsDue(t)' = Units(OrderIds, DuesIn(t)')
  BY DuesStayCounted DEF DuesCounted
<1>3. ASSUME NEW x \in OrderIds \ {o}
      PROVE  DuesIn(t)'[x] = DuesIn(t)[x]
  <2>1. Due(x)' = Due(x)
    BY DEF Due, AgentShare, ClientShare
  <2> QED
    BY <2>1 DEF DuesIn
<1>4. DuesIn(t)'[o] - DuesIn(t)[o]
        = IF t = orders'[o].paymentToken THEN Due(o)' - Due(o) ELSE 0
  BY DueType DEF DuesIn
<1>5. Cardinality(Units(OrderIds, DuesIn(t)')) =
        Cardinality(Units(OrderIds, DuesIn(t))) + (DuesIn(t)'[o] - DuesIn(t)[o])
  BY <1>1, <1>2, <1>3, UnitsChange
<1> QED
  BY <1>1, <1>2, <1>4, <1>5

\* The escrow's calls keep its books: what an order is owed comes in with it, what
\* is paid out is owed no more, and everything else is the pool's.
LEMMA CallsStayBacked ==
    ASSUME TypeOK, EscrowInv, EscrowTypeOK', EscrowInv', EscrowNext,
           EscrowBacked, NEW t \in Tokens
    PROVE  balance'[t][Escrow] >= Cardinality(UnitsDue(t)') + PoolIn(t)'
<1> DEFINE Goal == balance'[t][Escrow] >= Cardinality(UnitsDue(t)') + PoolIn(t)'
<1>1. /\ EscrowTypeOK /\ slashPool \in Nat /\ balance[t][Escrow] \in Nat
      /\ Amounts \subseteq Nat
      /\ Clients \subseteq Accounts \ {Escrow} /\ Donors \subseteq Accounts \ {Escrow}
      /\ Cardinality(UnitsDue(t)) \in Nat /\ Native \in Tokens
      /\ balance[t][Escrow] >= Cardinality(UnitsDue(t)) + PoolIn(t)
  <2>1. Escrow \in Accounts
    BY ConstantTypes
  <2>2. Cardinality(UnitsDue(t)) \in Nat
    BY UnitsOfDues DEF TypeOK
  <2> QED
    BY <2>1, <2>2, ConstantTypes, UsersAreOutside
    DEF TypeOK, ChainTypeOK, EscrowTypeOK, EscrowBacked, PoolIn
<1>2. PoolIn(t) \in Nat
  BY <1>1 DEF PoolIn
<1>3. ASSUME UNCHANGED <<orders, splits>>
      PROVE  UnitsDue(t)' = UnitsDue(t)
  BY <1>3 DEF UnitsDue, Due, AgentShare, ClientShare
<1>4. ASSUME NEW sender \in Users, NEW arb \in Arbiters, NEW active \in BOOLEAN,
             SetArbitrator(sender, arb, active)
      PROVE  Goal
  BY <1>1, <1>3, <1>4 DEF SetArbitrator, PoolIn
<1>5. ASSUME NEW u \in Donors, NEW s \in Tokens, NEW amount \in Amounts,
             Donate(u, s, amount)
      PROVE  Goal
  <2>1. /\ balance' = Paid(s, u, Escrow, amount) /\ amount \in Nat
        /\ slashPool' = PoolAfter(s, amount) /\ UnitsDue(t)' = UnitsDue(t)
    BY <1>1, <1>3, <1>5 DEF Donate
  <2>2. /\ balance'[s][Escrow] = balance[s][Escrow] + amount
        /\ \A r \in Tokens \ {s} : balance'[r][Escrow] = balance[r][Escrow]
    BY <1>1, <2>1, EscrowPayments
  <2>3. PoolIn(t)' = IF t = Native /\ s = Native THEN PoolIn(t) + amount ELSE PoolIn(t)
    BY <1>1, <2>1 DEF PoolIn, PoolAfter
  <2> QED
    BY <1>1, <1>2, <2>1, <2>2, <2>3
<1>6. ASSUME NEW client \in Clients, NEW agent \in Agents, NEW s \in Tokens,
             NEW amount \in Amounts, NEW deadline \in now + 1 .. MaxTime - 1,
             CreateOrder(client, agent, s, amount, deadline)
      PROVE  Goal
  <2> DEFINE new == [client |-> client, agent |-> agent, paymentToken |-> s,
                     amount |-> amount, deadline |-> deadline, status |-> "Pending"]
  <2>1. /\ nonces \in [Clients -> 0..MaxOrders] /\ MaxOrders \in Nat
        /\ nonces[client] < MaxOrders
    BY <1>6, ConstantTypes DEF CreateOrder, TypeOK, EscrowTypeOK
  <2>2. PICK o \in OrderIds : o = <<client, nonces[client]>>
    <3>1. nonces[client] \in 0..MaxOrders - 1
      BY <2>1
    <3> QED
      BY <3>1 DEF OrderIds
  <2>3. /\ orders'[o] = new
        /\ \A x \in OrderIds \ {o} : orders'[x] = orders[x]
        /\ UNCHANGED <<splits, slashPool>>
    BY <1>1, <1>6, <2>2 DEF CreateOrder, EscrowTypeOK
  <2>4. orders[o] \in {EmptyOrder, [EmptyOrder EXCEPT !.status = "Refunded"]}
    BY <2>1, <2>2 DEF EscrowInv
  <2>5. orders[o].status \in {"Pending", "Refunded"} /\ orders[o].amount = 0
    BY <2>4 DEF EmptyOrder
  <2>6. o \notin splits
    BY <2>5 DEF EscrowInv
  <2>7. Due(o) = 0 /\ Due(o)' = amount
    BY <2>3, <2>5, <2>6 DEF Due
  <2>8. Cardinality(UnitsDue(t)') = Cardinality(UnitsDue(t))
                + (IF t = s THEN Due(o)' - Due(o) ELSE 0)
    BY <1>1, <2>2, <2>3, <2>7, OwedChange
  <2>9. /\ balance'[s][Escrow] = balance[s][Escrow] + amount
        /\ \A r \in Tokens \ {s} : balance'[r][Escrow] = balance[r][Escrow]
    BY <1>1, <1>6, EscrowPayments DEF CreateOrder
  <2>10. PoolIn(t)' = PoolIn(t) /\ amount \in Nat
    BY <1>1, <2>3 DEF PoolIn
  <2> QED
    BY <1>1, <1>2, <2>7, <2>8, <2>9, <2>10
<1>7. ASSUME NEW o \in OrderIds, NEW sender \in Users, DisputeOrder(sender, o)
      PROVE  Goal
  <2>1. /\ Set(o, "Disputed") /\ orders[o].status = "Pending"
        /\ UNCHANGED <<splits, slashPool, balance>>
    BY <1>7 DEF DisputeOrder
  <2>2. /\ orders'[o].status = "Disputed" /\ orders'[o].amount = orders[o].amount
        /\ orders'[o].paymentToken = orders[o].paymentToken
        /\ \A x \in OrderIds \ {o} : orders'[x] = orders[x]
    BY <1>1, <2>1, SetStatus
  <2>3. o \notin splits
    BY <2>1 DEF EscrowInv
  <2>4. Due(o)' = Due(o)
    BY <2>1, <2>2, <2>3 DEF Due
  <2>5. Due(o) \in Nat
    BY <1>1, DueType
  <2>6. Cardinality(UnitsDue(t)') = Cardinality(UnitsDue(t))
                + (IF t = orders'[o].paymentToken THEN Due(o)' - Due(o) ELSE 0)
    BY <1>1, <2>1, <2>2, OwedChange
  <2>7. Cardinality(UnitsDue(t)') = Cardinality(UnitsDue(t))
    BY <1>1, <2>4, <2>5, <2>6
  <2> QED
    BY <1>1, <2>1, <2>7 DEF PoolIn
<1>8. ASSUME NEW o \in OrderIds, Settles(o)
      PROVE  Goal
  <2> DEFINE token == orders[o].paymentToken
             paid == Due(o) - Due(o)'
  <2>1. /\ Due(o) \in Nat /\ Due(o)' \in Nat /\ Due(o)' <= Due(o)
        /\ orders'[o].paymentToken = token
        /\ \A x \in OrderIds \ {o} :
                orders'[x] = orders[x] /\ (x \in splits') = (x \in splits)
    BY <1>8, SettlingPays
  <2>2. PICK to \in {orders[o].client, orders[o].agent} : Transfer(token, to, paid)
    BY <1>8, SettlingPays
  <2>3. to \in Accounts /\ token \in Tokens
    BY <1>1, OrderTypes
  <2>4. paid \in Nat
    BY <2>1
  <2>5. /\ balance' = Paid(token, Escrow, to, paid)
        /\ slashPool' = IF to = Escrow THEN PoolAfter(token, paid) ELSE slashPool
    BY <2>2 DEF Transfer
  <2>7. Cardinality(UnitsDue(t)') = Cardinality(UnitsDue(t))
                + (IF t = orders'[o].paymentToken THEN Due(o)' - Due(o) ELSE 0)
    BY <1>1, <2>1, OwedChange
  <2>8. Escrow \in Accounts /\ ChainTypeOK
    BY ConstantTypes DEF TypeOK
  <2>9. CASE to # Escrow
    <3>1. /\ balance'[token][Escrow] = balance[token][Escrow] - paid
          /\ \A s \in Tokens \ {token} : balance'[s][Escrow] = balance[s][Escrow]
      <4> HIDE DEF paid
      <4> QED
        BY <2>3, <2>4, <2>5, <2>8, <2>9, EscrowPayments
    <3>2. PoolIn(t)' = PoolIn(t)
      BY <2>5, <2>9 DEF PoolIn
    <3> QED
      BY <1>1, <1>2, <2>1, <2>7, <3>1, <3>2
  <2>10. CASE to = Escrow
    <3>1. balance'[t][Escrow] = balance[t][Escrow]
      <4> HIDE DEF paid
      <4> QED
        BY <2>3, <2>4, <2>5, <2>8, <2>10, PaidToSelf
    <3>2. PoolIn(t)' = IF t = Native /\ token = Native THEN PoolIn(t) + paid ELSE PoolIn(t)
      BY <1>1, <2>5, <2>10 DEF PoolIn, PoolAfter
    <3> QED
      BY <1>1, <1>2, <2>1, <2>7, <3>1, <3>2
  <2> QED
    BY <2>9, <2>10
<1> QED
  BY <1>4, <1>5, <1>6, <1>7, <1>8 DEF EscrowNext, Settles

\* The escrow holds, in every token and also between the two halves of a split,
\* at least what it owes on its orders and the slash pool: no order of calls lets one
\* order be paid with another's funds or with slashed bonds.
THEOREM EscrowIsBacked == Spec => []EscrowBacked
<1>1. Init => EscrowBacked
  <2> SUFFICES ASSUME Init, NEW t \in Tokens
               PROVE  balance[t][Escrow] >=
                        Cardinality(UnitsDue(t)) + (IF t = Native THEN slashPool ELSE 0)
    BY DEF EscrowBacked
  <2>1. balance[t][Escrow] = 0
    BY ChainAssumption, ConstantTypes DEF Init, ChainInit
  <2>2. \A o \in OrderIds : Due(o) = 0
    BY DEF Init, EscrowInit, EmptyOrder, Due
  <2>3. UnitsDue(t) = {}
    BY <2>2 DEF UnitsDue
  <2>4. Cardinality(UnitsDue(t)) = 0
    BY <2>3, FS_EmptySet
  <2> QED
    BY <2>1, <2>4 DEF Init, EscrowInit
<1>2. /\ TypeOK /\ TypeOK' /\ EscrowInv /\ EscrowInv' /\ EscrowBacked /\ [Next]_vars
      => EscrowBacked'
  <2> SUFFICES ASSUME TypeOK, TypeOK', EscrowInv, EscrowInv', EscrowBacked, [Next]_vars,
                      NEW t \in Tokens
               PROVE  balance'[t][Escrow] >= Cardinality(UnitsDue(t)') + PoolIn(t)'
    BY DEF EscrowBacked, PoolIn
  <2>1. CASE EscrowCall
    BY <2>1, CallsStayBacked DEF EscrowCall, TypeOK
  <2>2. CASE ~EscrowCall
    <3>1. /\ UNCHANGED <<orders, splits>>
          /\ balance'[t][Escrow] - PoolIn(t)' = balance[t][Escrow] - PoolIn(t)
      BY <2>2, OutsideEscrow
    <3>2. UnitsDue(t)' = UnitsDue(t)
      BY <3>1 DEF UnitsDue, Due, AgentShare, ClientShare
    <3>3. balance[t][Escrow] >= Cardinality(UnitsDue(t)) + PoolIn(t)
      BY DEF EscrowBacked, PoolIn
    <3>4. /\ balance[t][Escrow] \in Nat /\ balance'[t][Escrow] \in Nat
          /\ slashPool \in Nat /\ slashPool' \in Nat
      BY ConstantTypes DEF TypeOK, ChainTypeOK, EscrowTypeOK
    <3>5. PoolIn(t) \in Nat /\ PoolIn(t)' \in Nat
      BY <3>4 DEF PoolIn
    <3>6. Cardinality(UnitsDue(t)) \in Nat
      BY UnitsOfDues DEF TypeOK
    <3> QED
      BY <3>1, <3>2, <3>3, <3>4, <3>5, <3>6
  <2> QED
    BY <2>1, <2>2
<1> QED
  BY <1>1, <1>2, TypeCorrect, EscrowOrdersCorrect, PTL DEF Spec

\* The escrow's balance shrinks only by a call that settles an order.
LEMMA PaysBySettling ==
    ASSUME TypeOK, EscrowNext, NEW t \in Tokens, balance'[t][Escrow] < balance[t][Escrow]
    PROVE  \E o \in OrderIds : Settles(o)
<1>1. /\ balance[t][Escrow] \in Nat /\ Amounts \subseteq Nat
      /\ Clients \subseteq Accounts \ {Escrow} /\ Donors \subseteq Accounts \ {Escrow}
  BY ConstantTypes, UsersAreOutside DEF TypeOK, ChainTypeOK
<1>2. ASSUME NEW u \in Accounts \ {Escrow}, NEW s \in Tokens, NEW amount \in Amounts,
             balance' = Paid(s, u, Escrow, amount)
      PROVE  FALSE
  <2>1. /\ balance'[s][Escrow] = balance[s][Escrow] + amount /\ amount \in Nat
        /\ \A r \in Tokens \ {s} : balance'[r][Escrow] = balance[r][Escrow]
    BY <1>1, <1>2, EscrowPayments
  <2> QED
    BY <1>1, <2>1
<1>3. ASSUME UNCHANGED balance PROVE FALSE
  BY <1>1, <1>3
<1> QED
  BY <1>1, <1>2, <1>3 DEF EscrowNext, SetArbitrator, Donate, CreateOrder, DisputeOrder, Settles

\* Money leaves the escrow only to the two parties of the order settled by that
\* step, who get just what it owed: all to the agent when confirmed, all to the
\* client when refunded.  What an order owes to the escrow itself leaves it for nobody.
THEOREM PartiesArePaid == Spec => PaysPartiesOnly
<1>1. TypeOK /\ TypeOK' /\ EscrowInv /\ Next =>
        \A t \in Tokens :
            balance'[t][Escrow] < balance[t][Escrow] =>
                \E o \in OrderIds :
                    LET order == orders[o]
                        Gain(a) == IF a = Escrow THEN 0
                                   ELSE balance'[t][a] - balance[t][a] IN
                    /\ order.paymentToken = t
                    /\ Gain(order.client) + Gain(order.agent) = Due(o) - Due(o)'
                    /\ Gain(order.client) >= 0 /\ Gain(order.agent) >= 0
                    /\ orders'[o].status = "Confirmed" => Gain(order.client) = 0
                    /\ orders'[o].status = "Refunded" => Gain(order.agent) = 0
  <2> SUFFICES ASSUME TypeOK, TypeOK', EscrowInv, Next, NEW t \in Tokens,
                      balance'[t][Escrow] < balance[t][Escrow]
               PROVE  \E o \in OrderIds :
                    LET order == orders[o]
                        Gain(a) == IF a = Escrow THEN 0
                                   ELSE balance'[t][a] - balance[t][a] IN
                    /\ order.paymentToken = t
                    /\ Gain(order.client) + Gain(order.agent) = Due(o) - Due(o)'
                    /\ Gain(order.client) >= 0 /\ Gain(order.agent) >= 0
                    /\ orders'[o].status = "Confirmed" => Gain(order.client) = 0
                    /\ orders'[o].status = "Refunded" => Gain(order.agent) = 0
    OBVIOUS
  <2>1. EscrowNext
    <3> SUFFICES ASSUME ~EscrowCall PROVE FALSE
      BY DEF EscrowCall
    <3>1. /\ slashPool' \in Nat /\ slashPool' >= slashPool
          /\ balance'[t][Escrow] - PoolIn(t)' = balance[t][Escrow] - PoolIn(t)
      BY OutsideEscrow
    <3>2. /\ slashPool \in Nat /\ balance[t][Escrow] \in Nat
          /\ balance'[t][Escrow] \in Nat
      BY ConstantTypes DEF TypeOK, ChainTypeOK, EscrowTypeOK
    <3> QED
      BY <3>1, <3>2 DEF PoolIn
  <2>2. PICK o \in OrderIds : Settles(o)
    BY <2>1, PaysBySettling
  <2> DEFINE order == orders[o]
             token == orders[o].paymentToken
             paid == Due(o) - Due(o)'
  <2>3. Due(o) \in Nat /\ Due(o)' \in Nat /\ Due(o)' <= Due(o)
    BY <2>2, SettlingPays
  <2>4. PICK to \in {order.client, order.agent} :
            /\ Transfer(token, to, paid)
            /\ orders'[o].status = "Confirmed" => to = order.agent
            /\ orders'[o].status = "Refunded" => to = order.client
    BY <2>2, SettlingPays
  <2>5. /\ token \in Tokens /\ paid \in Nat
        /\ order.client \in Accounts \ {Escrow} /\ order.agent \in Accounts
        /\ Escrow \in Accounts
    <3>1. order.client \in Users \cup {ZeroAddr}
      BY OrderTypes DEF TypeOK, Order
    <3> QED
      BY <2>3, <3>1, OrderTypes, UsersAreOutside, ConstantTypes DEF TypeOK
  <2>6. balance' = Paid(token, Escrow, to, paid) /\ to \in Accounts \ {Escrow}
    <3>1. balance' = Paid(token, Escrow, to, paid)
      BY <2>4 DEF Transfer
    <3>2. to # Escrow
      <4> SUFFICES ASSUME to = Escrow PROVE FALSE
        OBVIOUS
      <4>1. ChainTypeOK /\ balance[t][Escrow] \in Nat
        BY <2>5 DEF TypeOK, ChainTypeOK
      <4>2. balance'[t][Escrow] = balance[t][Escrow]
        <5> HIDE DEF paid
        <5> QED
          BY <2>5, <3>1, <4>1, PaidToSelf
      <4> QED
        BY <4>1, <4>2
    <3> QED
      BY <2>4, <2>5, <3>1, <3>2
  <2>7. /\ balance'[token][Escrow] = balance[token][Escrow] - paid
        /\ balance'[token][to] = balance[token][to] + paid
        /\ \A s \in Tokens, b \in Accounts :
                s # token \/ b \notin {Escrow, to} => balance'[s][b] = balance[s][b]
    <3> HIDE DEF paid
    <3> QED
      BY <2>4, <2>5, <2>6, EscrowPayments
  <2>8. \A s \in Tokens, a \in Accounts : balance[s][a] \in Nat
    BY DEF TypeOK, ChainTypeOK
  <2>9. token = t /\ paid > 0
    BY <2>5, <2>7, <2>8
  <2>10. order.client # order.agent
    <3>1. order.client = order.agent => order.amount = 0
      BY DEF EscrowInv, EmptyOrder
    <3>2. order.amount = 0 => Due(o) = 0
      BY OrderTypes DEF Due, TypeOK, EscrowInv, AgentShare, ClientShare
    <3> QED
      BY <2>3, <2>9, <3>1, <3>2
  <2> DEFINE Gain(a) == IF a = Escrow THEN 0 ELSE balance'[t][a] - balance[t][a]
  <2>11. \A a \in {order.client, order.agent} : Gain(a) = IF a = to THEN paid ELSE 0
    <3> HIDE DEF paid
    <3> QED
      BY <2>5, <2>6, <2>7, <2>8, <2>9
  <2>12. /\ order.paymentToken = t
         /\ Gain(order.client) + Gain(order.agent) = paid
         /\ Gain(order.client) >= 0 /\ Gain(order.agent) >= 0
         /\ orders'[o].status = "Confirmed" => Gain(order.client) = 0
         /\ orders'[o].status = "Refunded" => Gain(order.agent) = 0
    <3> HIDE DEF paid, Gain
    <3> QED
      BY <2>4, <2>5, <2>9, <2>10, <2>11
  <2> QED
    BY <2>12
<1> QED
  BY <1>1, TypeCorrect, EscrowOrdersCorrect, PTL DEF Spec, PaysPartiesOnly

\* An order that was confirmed, refunded or resolved is never written again, not by
\* a late dispute, a second refund or a later order of the same client.
THEOREM SettledStays == Spec => SettledOrdersStay
<1>1. TypeOK /\ EscrowInv /\ Next =>
        \A o \in OrderIds :
            orders[o].client # ZeroAddr
            /\ orders[o].status \in {"Confirmed", "Refunded", "Resolved"}
                => orders'[o] = orders[o]
  <2> SUFFICES ASSUME TypeOK, EscrowInv, Next, NEW o \in OrderIds,
                      orders[o].client # ZeroAddr,
                      orders[o].status \in {"Confirmed", "Refunded", "Resolved"}
               PROVE  orders'[o] = orders[o]
    OBVIOUS
  <2>1. EscrowTypeOK
    BY DEF TypeOK
  <2>2. ASSUME NEW x \in OrderIds, NEW status, Set(x, status),
               orders[x].status \in {"Pending", "Disputed"}
        PROVE  orders'[o] = orders[o]
    BY <2>1, <2>2, SetStatus
  <2>3. ASSUME NEW client \in Clients, NEW agent \in Agents, NEW t \in Tokens,
               NEW amount \in Amounts, NEW deadline \in now + 1 .. MaxTime - 1,
               CreateOrder(client, agent, t, amount, deadline)
        PROVE  orders'[o] = orders[o]
    <3>1. nonces \in [Clients -> 0..MaxOrders] /\ nonces[client] \in Nat
      BY <2>1 DEF EscrowTypeOK
    <3>2. o # <<client, nonces[client]>>
      <4> SUFFICES ASSUME o = <<client, nonces[client]>> PROVE FALSE
        OBVIOUS
      <4>1. ~(o[2] < nonces[o[1]])
        BY <3>1
      <4>2. orders[o] \in {EmptyOrder, [EmptyOrder EXCEPT !.status = "Refunded"]}
        BY <4>1 DEF EscrowInv
      <4> QED
        BY <4>2 DEF EmptyOrder
    <3> QED
      BY <2>1, <2>3, <3>2 DEF CreateOrder, EscrowTypeOK
  <2>4. CASE EscrowCall
    BY <2>2, <2>3, <2>4
    DEF EscrowCall, EscrowNext, SetArbitrator, Donate, ConfirmOrder, DisputeOrder,
        ResolveFull, ResolveSplit, FinishSplit, RefundExpiredOrder
  <2>5. CASE ~EscrowCall
    BY <2>5, OutsideEscrow
  <2> QED
    BY <2>4, <2>5
<1> QED
  BY <1>1, TypeCorrect, EscrowOrdersCorrect, PTL DEF Spec, SettledOrdersStay
-----------------------------------------------------------------------------
(* The registry's list of signers. *)

\* Whatever nodes register, re-register and change type, the list names every
\* registered signer, once.
THEOREM SignersAreListedOnce == Spec => []SignersListedOnce
<1> DEFINE Listed == {n \in Nodes : nodeType[n] # "None"}
<1>1. Init => SignersListedOnce
  BY DEF Init, RegistryInit, SignersListedOnce, IsInjective, ToSet
<1>2. TypeOK /\ SignersListedOnce /\ [Next]_vars => SignersListedOnce'
  <2> SUFFICES ASSUME TypeOK, SignersListedOnce, [Next]_vars PROVE SignersListedOnce'
    OBVIOUS
  <2>1. CASE RegistryCall
    <3>1. PICK n \in Nodes, type \in NodeType : Register(n, type)
      BY <2>1 DEF RegistryCall
    <3>2. /\ nodeType \in [Nodes -> NodeType \cup {"None"}] /\ signers \in Seq(Nodes)
          /\ type # "None" /\ nodeType' = [nodeType EXCEPT ![n] = type]
      BY <3>1 DEF TypeOK, RegistryTypeOK, NodeType, Register
    <3>3. Listed' = Listed \cup {n}
      BY <3>2
    <3>4. CASE nodeType[n] # "None"
      <4>1. signers' = signers /\ Listed' = Listed
        BY <3>1, <3>3, <3>4 DEF Register
      <4> QED
        BY <4>1 DEF SignersListedOnce
    <3>5. CASE nodeType[n] = "None"
      <4>1. signers' = Append(signers, n)
        BY <3>1, <3>5 DEF Register
      <4>2. n \notin ToSet(signers) /\ ToSet(signers) = Listed
        BY <3>5 DEF SignersListedOnce
      <4>3. /\ Len(signers) \in Nat /\ DOMAIN signers = 1..Len(signers)
            /\ DOMAIN signers' = 1..Len(signers) + 1
            /\ \A i \in 1..Len(signers) : signers'[i] = signers[i]
            /\ signers'[Len(signers) + 1] = n
        BY <3>2, <4>1
      <4>4. IsInjective(signers')
        BY <4>2, <4>3 DEF IsInjective, ToSet, SignersListedOnce
      <4>5. ToSet(signers') = ToSet(signers) \cup {n}
        BY <4>3 DEF ToSet
      <4> QED
        BY <3>3, <4>2, <4>4, <4>5 DEF SignersListedOnce
    <3> QED
      BY <3>4, <3>5
  <2>2. CASE BlockTick \/ SlashingCall \/ SettlerCall \/ EscrowCall \/ UNCHANGED vars
    BY <2>2 DEF BlockTick, SlashingCall, SettlerCall, EscrowCall, vars, registryVars,
                SignersListedOnce
  <2> QED
    BY <2>1, <2>2 DEF Next
<1> QED
  BY <1>1, <1>2, TypeCorrect, PTL DEF Spec

\* Position i of a list read in pages of limit is position j of page p.
LEMMA PositionOnPage ==
    ASSUME NEW limit \in Nat \ {0}, NEW i \in Nat \ {0}
    PROVE  \E p \in 0..i : \E j \in 1..limit : p * limit + j = i
<1> DEFINE p == (i - 1) \div limit
           j == ((i - 1) % limit) + 1
<1>1. /\ p \in Nat /\ j \in 1..limit
      /\ i - 1 = limit * p + (j - 1)
  BY SMT
<1>2. p <= limit * p
  BY <1>1, SMT
<1>3. p \in 0..i /\ p * limit + j = i
  <2> HIDE DEF p, j
  <2> QED
    BY <1>1, <1>2, SMT
<1> QED
  BY <1>1, <1>3

\* What a page of the list holds: the signers from its offset on, limit of them or
\* as many as are left.
LEMMA PageHolds ==
    ASSUME signers \in Seq(Nodes), NEW limit \in Nat \ {0}, NEW p \in Nat
    PROVE  /\ Len(Page(p, limit)) \in 0..limit
           /\ \A j \in Nat \ {0} :
                  j <= Len(Page(p, limit))
                      <=> j <= limit /\ p * limit + j <= Len(signers)
           /\ \A j \in 1..Len(Page(p, limit)) : Page(p, limit)[j] = signers[p * limit + j]
<1> DEFINE offset == p * limit
           end == IF offset + limit > Len(signers) THEN Len(signers) ELSE offset + limit
<1>1. offset \in Nat /\ Len(signers) \in Nat /\ end \in Nat /\ end <= Len(signers)
  BY SMT
<1>2. Page(p, limit) = SubSeq(signers, offset + 1, end)
  BY DEF Page, GetNodes
<1> HIDE DEF offset
<1>3. /\ Len(Page(p, limit)) = IF offset + 1 <= end THEN end - offset ELSE 0
      /\ \A j \in 1..Len(Page(p, limit)) : Page(p, limit)[j] = signers[offset + j]
  <2> HIDE DEF end
  <2>1. \A i \in (offset + 1)..end : signers[i] \in Nodes
    BY <1>1
  <2>2. /\ Len(Page(p, limit)) = IF offset + 1 <= end THEN end - (offset + 1) + 1 ELSE 0
        /\ \A i \in 1..end - (offset + 1) + 1 :
               Page(p, limit)[i] = signers[(offset + 1) + i - 1]
    <3>1. offset + 1 \in Int /\ end \in Int
      BY <1>1
    <3> QED
      BY <1>2, <2>1, <3>1, SubSeqProperties
  <2> QED
    BY <1>1, <2>2
<1>4. /\ Len(Page(p, limit)) \in 0..limit
      /\ \A j \in Nat \ {0} :
             j <= Len(Page(p, limit)) <=> j <= limit /\ offset + j <= Len(signers)
  BY <1>1, <1>3
<1> QED
  BY <1>3, <1>4 DEF offset

\* Whatever the list has grown to, its pages of any size are the whole list and
\* nothing else: no signer is skipped, repeated or made up at a page boundary.
THEOREM PagesAreTheList == Spec => []PagesCoverList
<1>1. TypeOK => PagesCoverList
  <2> SUFFICES ASSUME signers \in Seq(Nodes), NEW limit \in 1..Len(signers) + 1
               PROVE  /\ \A p \in 0..Len(signers) :
                          /\ Len(Page(p, limit)) <= limit
                          /\ \A j \in 1..Len(Page(p, limit)) :
                                 /\ p * limit + j \in 1..Len(signers)
                                 /\ Page(p, limit)[j] = signers[p * limit + j]
                      /\ \A i \in 1..Len(signers) : \E p \in 0..Len(signers) :
                             \E j \in 1..Len(Page(p, limit)) : p * limit + j = i
    BY DEF TypeOK, RegistryTypeOK, PagesCoverList
  <2>1. limit \in Nat \ {0} /\ Len(signers) \in Nat
    OBVIOUS
  <2>2. ASSUME NEW p \in 0..Len(signers)
        PROVE  /\ Len(Page(p, limit)) <= limit
               /\ \A j \in 1..Len(Page(p, limit)) :
                      /\ p * limit + j \in 1..Len(signers)
                      /\ Page(p, limit)[j] = signers[p * limit + j]
    <3>1. p \in Nat /\ p * limit \in Nat
      BY <2>1
    <3>2. Len(Page(p, limit)) \in 0..limit
      BY <2>1, <3>1, PageHolds
    <3>3. ASSUME NEW j \in 1..Len(Page(p, limit))
          PROVE  /\ p * limit + j \in 1..Len(signers)
                 /\ Page(p, limit)[j] = signers[p * limit + j]
      <4>1. j \in Nat \ {0} /\ j <= Len(Page(p, limit))
        BY <3>2
      <4>2. p * limit + j <= Len(signers) /\ Page(p, limit)[j] = signers[p * limit + j]
        BY <2>1, <3>1, <4>1, PageHolds
      <4> DEFINE offset == p * limit
      <4> HIDE DEF offset
      <4>3. offset \in Nat /\ offset + j <= Len(signers)
        BY <3>1, <4>2 DEF offset
      <4>4. offset + j \in 1..Len(signers)
        BY <2>1, <4>1, <4>3
      <4> QED
        BY <4>2, <4>4 DEF offset
    <3> QED
      BY <2>1, <3>2, <3>3
  <2>3. ASSUME NEW i \in 1..Len(signers)
        PROVE  \E p \in 0..Len(signers) : \E j \in 1..Len(Page(p, limit)) : p * limit + j = i
    <3>1. PICK p \in 0..i : \E k \in 1..limit : p * limit + k = i
      <4>1. i \in Nat \ {0}
        BY <2>1
      <4> QED
        BY <2>1, <4>1, PositionOnPage, Zenon
    <3>2. PICK j \in 1..limit : p * limit + j = i
      BY <3>1
    <3>3. p \in 0..Len(signers) /\ j <= limit /\ p * limit + j <= Len(signers)
      BY <2>1, <3>2
    <3>4. j \in 1..Len(Page(p, limit))
      <4>1. p \in Nat /\ j \in Nat \ {0}
        BY <2>1
      <4>2. j <= Len(Page(p, limit)) /\ Len(Page(p, limit)) \in 0..limit
        BY <2>1, <3>3, <4>1, PageHolds
      <4> QED
        BY <4>1, <4>2
    <3> QED
      BY <3>2, <3>3, <3>4
  <2> QED
    BY <2>2, <2>3
<1> QED
  BY <1>1, TypeCorrect, PTL

-----------------------------------------------------------------------------
(* The settler with bonds implements the one without. *)

\* The bond settler's table as the plain settler sees it.
PlainRecord(c, root) == [commitmentHash |-> c.commitmentHash, committedAt |-> c.committedAt,
                         revealedAt |-> c.revealedAt, recordHash |-> root]

PlainCommits ==
    [p \in Periods |-> [n \in Nodes |-> PlainRecord(commits[p][n], snapshotRoots[p][n])]]

\* A record revealed now, and a plain one, with its root.
RevealedNow(c) == [c EXCEPT !.revealedAt = now]
PlainRevealed(c, root) == [c EXCEPT !.revealedAt = now, !.recordHash = root]

\* A reveal writes the same in both tables.
LEMMA PlainReveal ==
    ASSUME SettlerTypeOK, NEW p \in Periods, NEW n \in Nodes, NEW root
    PROVE  PlainRecord(RevealedNow(commits[p][n]), root)
                = PlainRevealed(PlainCommits[p][n], root)
<1> DEFINE c == commits[p][n]
           e == [c EXCEPT !.revealedAt = now]
           R == PlainCommits[p][n]
           r1 == [commitmentHash |-> c.commitmentHash, committedAt |-> c.committedAt,
                  revealedAt |-> now, recordHash |-> snapshotRoots[p][n]]
           r == [commitmentHash |-> c.commitmentHash, committedAt |-> c.committedAt,
                 revealedAt |-> now, recordHash |-> root]
<1>1. /\ e.commitmentHash = c.commitmentHash /\ e.committedAt = c.committedAt
      /\ e.revealedAt = now
  BY DEF CommitRecord, SettlerTypeOK
<1>2. R = PlainRecord(c, snapshotRoots[p][n])
  BY DEF PlainCommits
<1> HIDE DEF c, e
<1>3. PlainRecord(e, root) = r
  BY <1>1 DEF PlainRecord
<1> HIDE DEF R
<1>4. [R EXCEPT !.revealedAt = now] = r1
  BY <1>2 DEF PlainRecord
<1>5. [R EXCEPT !.revealedAt = now, !.recordHash = root]
        = [[R EXCEPT !.revealedAt = now] EXCEPT !.recordHash = root]
  BY <1>2 DEF PlainRecord
<1>6. [r1 EXCEPT !.recordHash = root] = r
  OBVIOUS
<1> HIDE DEF r, r1
<1>7. PlainRecord(e, root) = [R EXCEPT !.revealedAt = now, !.recordHash = root]
  BY <1>3, <1>4, <1>5, <1>6, Zenon
<1> QED
  BY <1>7 DEF c, e, R, RevealedNow, PlainRevealed

\* A call that writes one record, and its root, writes one plain record.
LEMMA PlainPut ==
    ASSUME SettlerTypeOK, NEW p \in Periods, NEW n \in Nodes, NEW c, NEW s,
           SetCommit(p, n, c),
           \/ snapshotRoots' = [snapshotRoots EXCEPT ![p] = [@ EXCEPT ![n] = s]]
           \/ UNCHANGED snapshotRoots /\ s = snapshotRoots[p][n]
    PROVE  PlainCommits' = [PlainCommits EXCEPT ![p] =
                                [@ EXCEPT ![n] = PlainRecord(c, s)]]
<1>1. ASSUME NEW q \in Periods, NEW m \in Nodes
      PROVE  /\ commits'[q][m] = IF q = p /\ m = n THEN c ELSE commits[q][m]
             /\ snapshotRoots'[q][m] = IF q = p /\ m = n THEN s ELSE snapshotRoots[q][m]
  BY DEF SetCommit, SettlerTypeOK
<1>2. \A q \in Periods : [m \in Nodes |-> PlainRecord(commits'[q][m], snapshotRoots'[q][m])]
            = IF q = p THEN [PlainCommits[p] EXCEPT ![n] = PlainRecord(c, s)] ELSE PlainCommits[q]
  BY <1>1 DEF PlainCommits
<1> QED
  BY <1>2 DEF PlainCommits

\* The plain settler's actions, said of that table.
LEMMA PlainActions ==
    ASSUME NEW p \in Periods, NEW n \in Nodes
    PROVE  /\ \A hash :
                /\ hash # NoHash
                /\ PlainCommits[p][n].committedAt = 0
                /\ PlainCommits' = [PlainCommits EXCEPT ![p] = [@ EXCEPT ![n] =
                        [commitmentHash |-> hash, committedAt |-> now,
                         revealedAt |-> 0, recordHash |-> NoHash]]]
                /\ UNCHANGED <<now, challenges>>
                => Generic!Commit(p, n, hash)
           /\ \A record :
                LET c == PlainCommits[p][n] IN
                /\ c.committedAt # 0 /\ c.revealedAt = 0
                /\ now <= c.committedAt + REVEAL_WINDOW
                /\ Hash(record, p, n) = c.commitmentHash
                /\ PlainCommits' = [PlainCommits EXCEPT ![p] = [@ EXCEPT ![n] =
                        PlainRevealed(c, record)]]
                /\ UNCHANGED <<now, challenges>>
                => Generic!Reveal(p, n, record)
           /\ /\ PlainCommits[p][n].revealedAt # 0
              /\ now <= PlainCommits[p][n].revealedAt + CHALLENGE_PERIOD
              /\ challenges' = [challenges EXCEPT ![p] =
                    [@ EXCEPT ![n] = Append(challenges[p][n], now)]]
              /\ UNCHANGED <<now, PlainCommits>>
              => Generic!Contest(p, n)
<1>1. ASSUME NEW hash,
             hash # NoHash, PlainCommits[p][n].committedAt = 0,
             PlainCommits' = [PlainCommits EXCEPT ![p] = [@ EXCEPT ![n] =
                    [commitmentHash |-> hash, committedAt |-> now,
                     revealedAt |-> 0, recordHash |-> NoHash]]],
             UNCHANGED <<now, challenges>>
      PROVE  Generic!Commit(p, n, hash)
  BY <1>1 DEF Generic!Commit, Generic!Put, Generic!Empty, PlainCommits, PlainRecord
<1>2. ASSUME NEW record,
             PlainCommits[p][n].committedAt # 0, PlainCommits[p][n].revealedAt = 0,
             now <= PlainCommits[p][n].committedAt + REVEAL_WINDOW,
             Hash(record, p, n) = PlainCommits[p][n].commitmentHash,
             PlainCommits' = [PlainCommits EXCEPT ![p] = [@ EXCEPT ![n] =
                    PlainRevealed(PlainCommits[p][n], record)]],
             UNCHANGED <<now, challenges>>
      PROVE  Generic!Reveal(p, n, record)
  BY <1>2 DEF Generic!Reveal, Generic!Put, Generic!Preimage, Hash, PlainCommits, PlainRecord,
              PlainRevealed
<1>3. ASSUME PlainCommits[p][n].revealedAt # 0,
             now <= PlainCommits[p][n].revealedAt + CHALLENGE_PERIOD,
             challenges' = [challenges EXCEPT ![p] =
                [@ EXCEPT ![n] = Append(challenges[p][n], now)]],
             UNCHANGED <<now, PlainCommits>>
      PROVE  Generic!Contest(p, n)
  BY <1>3 DEF Generic!Contest, PlainCommits, PlainRecord
<1> QED
  BY <1>1, <1>2, <1>3

\* Every step of the settlement is a step of the plain settler or a stutter of it.
LEMMA GenericStep ==
    ASSUME TypeOK, RecordInv, [Next]_vars
    PROVE  Generic!GenericNext \/ UNCHANGED <<now, PlainCommits, challenges>>
<1> DEFINE Stays == UNCHANGED <<now, PlainCommits, challenges>>
           Goal == Generic!GenericNext \/ Stays
<1>0. SettlerTypeOK /\ now \in Nat
  BY DEF TypeOK, ChainTypeOK
<1>1. ASSUME UNCHANGED settlerVars, UNCHANGED now PROVE Stays
  BY <1>1 DEF settlerVars, PlainCommits, PlainRecord
<1>2. CASE BlockTick
  <2>1. now' > now /\ UNCHANGED <<PlainCommits, challenges>>
    BY <1>0, <1>2 DEF BlockTick, Tick, settlerVars, PlainCommits, PlainRecord
  <2> QED
    BY <2>1 DEF Generic!GenericNext, Generic!NextBlock, PlainCommits, PlainRecord
<1>3. ASSUME NEW p \in Periods, NEW n \in Nodes,
             SetCommit(p, n, [commits[p][n] EXCEPT !.bondReleased = TRUE]),
             UNCHANGED <<now, snapshotRoots, challenges>>
      PROVE  Stays
  <2> DEFINE c == [commits[p][n] EXCEPT !.bondReleased = TRUE]
  <2>1. commits[p][n] \in CommitRecord
    BY <1>0 DEF SettlerTypeOK
  <2>2. PlainRecord(c, snapshotRoots[p][n]) = PlainRecord(commits[p][n], snapshotRoots[p][n])
    BY <2>1 DEF PlainRecord, CommitRecord
  <2>3. PlainCommits' = [PlainCommits EXCEPT ![p] =
                [@ EXCEPT ![n] = PlainRecord(c, snapshotRoots[p][n])]]
    BY <1>0, <1>3, PlainPut
  <2>4. PlainCommits[p][n] = PlainRecord(c, snapshotRoots[p][n])
    BY <2>2 DEF PlainCommits
  <2>5. \E F : PlainCommits \in [Periods -> [Nodes -> F]]
    <3> DEFINE F == {PlainRecord(commits[q][m], snapshotRoots[q][m]) : q \in Periods, m \in Nodes}
    <3>1. PlainCommits \in [Periods -> [Nodes -> F]]
      BY DEF PlainCommits
    <3> HIDE DEF F
    <3> QED
      BY <3>1
  <2> HIDE DEF c
  <2>6. PlainCommits' = PlainCommits
    BY <2>3, <2>4, <2>5
  <2> QED
    BY <1>3, <2>6
<1>4. CASE SlashingCall
  BY <1>3, <1>4 DEF SlashingCall, SettlerSlashing, RevealMismatch, SlashUnrevealed
<1>5. CASE SettlerCall
  <2> PICK p \in Periods, n \in Nodes :
        \/ \E hash \in Hashes : SubmitCommit(p, n, hash)
        \/ \E root \in Roots : RevealMatch(p, n, root)
        \/ Challenge(p, n)
        \/ ClaimBond(p, n)
    BY <1>5 DEF SettlerCall, SettlerOther
  <2> DEFINE old == commits[p][n]
             plain == PlainCommits[p][n]
  <2>1. /\ old \in CommitRecord /\ UNCHANGED now
        /\ plain = PlainRecord(old, snapshotRoots[p][n])
        /\ plain.committedAt = old.committedAt /\ plain.revealedAt = old.revealedAt
        /\ plain.commitmentHash = old.commitmentHash
    BY <1>0, <1>5 DEF SettlerCall, SettlerTypeOK, PlainCommits, PlainRecord
  <2>2. ASSUME NEW hash \in Hashes, SubmitCommit(p, n, hash)
        PROVE  Goal
    <3> DEFINE new == [commitmentHash |-> hash, committedAt |-> now,
                       revealedAt |-> 0, bondReleased |-> FALSE]
    <3>1. /\ SetCommit(p, n, new) /\ UNCHANGED <<snapshotRoots, challenges>>
          /\ hash # NoHash /\ old.committedAt = 0
      BY <2>2 DEF SubmitCommit
    <3>2. snapshotRoots[p][n] = NoHash
      BY <3>1 DEF RecordInv, RecordOK
    <3>3. PlainRecord(new, snapshotRoots[p][n]) =
            [commitmentHash |-> hash, committedAt |-> now,
             revealedAt |-> 0, recordHash |-> NoHash]
      BY <3>2 DEF PlainRecord
    <3>4. PlainCommits' = [PlainCommits EXCEPT ![p] =
                [@ EXCEPT ![n] = PlainRecord(new, snapshotRoots[p][n])]]
      BY <1>0, <3>1, PlainPut
    <3>5. Generic!Commit(p, n, hash)
      BY <2>1, <3>1, <3>3, <3>4, PlainActions
    <3>6. PICK root \in Roots, q \in Periods, m \in Nodes :
            hash = [root |-> root, period |-> q, node |-> m]
      BY DEF Hashes
    <3> QED
      BY <3>5, <3>6 DEF Generic!GenericNext, Generic!Preimage
  <2>3. ASSUME NEW root \in Roots, RevealMatch(p, n, root)
        PROVE  Goal
    <3> DEFINE new == RevealedNow(old)
    <3>1. /\ SetCommit(p, n, new) /\ UNCHANGED challenges
          /\ snapshotRoots' = [snapshotRoots EXCEPT ![p] = [@ EXCEPT ![n] = root]]
          /\ old.committedAt # 0 /\ old.revealedAt = 0
          /\ now <= old.committedAt + REVEAL_WINDOW
          /\ Hash(root, p, n) = old.commitmentHash
      BY <2>3 DEF RevealMatch, RevealAllowed, RevealedNow
    <3>2. PlainRecord(new, root) = PlainRevealed(plain, root)
      BY <1>0, PlainReveal
    <3>3. PlainCommits' = [PlainCommits EXCEPT ![p] = [@ EXCEPT ![n] = PlainRecord(new, root)]]
      BY <1>0, <3>1, PlainPut
    <3>4. Generic!Reveal(p, n, root)
      BY <2>1, <3>1, <3>2, <3>3, PlainActions
    <3> QED
      BY <3>4 DEF Generic!GenericNext
  <2>4. CASE Challenge(p, n)
    <3>1. /\ UNCHANGED <<commits, snapshotRoots>>
          /\ old.revealedAt # 0 /\ now <= old.revealedAt + CHALLENGE_PERIOD
          /\ challenges' = [challenges EXCEPT ![p] =
                [@ EXCEPT ![n] = Append(challenges[p][n], now)]]
      BY <2>4 DEF Challenge, ChallengeAllowed
    <3>2. UNCHANGED PlainCommits
      BY <3>1 DEF PlainCommits, PlainRecord
    <3>3. Generic!Contest(p, n)
      BY <2>1, <3>1, <3>2, PlainActions
    <3> QED
      BY <3>3 DEF Generic!GenericNext
  <2>5. CASE ClaimBond(p, n)
    BY <1>3, <2>1, <2>5 DEF ClaimBond
  <2> QED
    BY <2>2, <2>3, <2>4, <2>5
<1>6. CASE RegistryCall \/ EscrowCall \/ UNCHANGED vars
  BY <1>1, <1>6 DEF RegistryCall, EscrowCall, vars, chainVars
<1> QED
  BY <1>2, <1>4, <1>5, <1>6 DEF Next

\* The bonds add to the plain settler and take nothing from it: commitments, reveals
\* and challenges happen only when, and as, GenericCommitRevealSettler has them.
THEOREM RefinesGeneric == Spec => ImplementsGeneric
<1>1. Init => Generic!GenericInit
  BY DEF Init, ChainInit, SettlerInit, NoCommit, Generic!GenericInit, Generic!Empty
<1>2. TypeOK /\ RecordInv /\ [Next]_vars => [Generic!GenericNext]_(Generic!genericVars)
  BY GenericStep DEF Generic!genericVars, PlainCommits, PlainRecord
<1> QED
  BY <1>1, <1>2, TypeCorrect, RecordsCorrect, PTL
  DEF Spec, ImplementsGeneric, Generic!GenericSpec
=============================================================================
