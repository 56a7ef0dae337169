------------------------------- MODULE EscrowV1 -------------------------------
(***************************************************************************)
(* contracts/EscrowV1.sol: a client locks a payment for an agent; it is    *)
(* confirmed, disputed and arbitrated, or refunded after its deadline.  The *)
(* contract is also where CommitRevealSettlerV2 sends slashed bonds.       *)
(*                                                                         *)
(* An order id is the keccak256 of client, agentId, timestamp and the      *)
(* client's nonce; the client and the nonce alone make it unique, so the   *)
(* pair stands for it.  An order that was never created reads as           *)
(* EmptyOrder, whose status is Pending, the first of the enum.             *)
(***************************************************************************)
EXTENDS Chain

CONSTANTS
    Amounts,        \* the amounts an order, or a plain transfer, may have
    Clients,        \* the users who place orders
    Agents,         \* the accounts they may name as their agent
    Donors,         \* the users who send it something outside an order
    MaxOrders,      \* bound on the orders of one client
    owner,          \* set by the constructor, never changed
    Arbiters        \* the users the owner may appoint as arbitrators

OrderIds == Clients \X (0..MaxOrders - 1)

OrderStatus == {"Pending", "Confirmed", "Disputed", "Refunded", "Resolved"}

ASSUME EscrowAssumption ==
    /\ Amounts \subseteq Nat \ {0} /\ IsFiniteSet(Amounts)
    /\ Clients \subseteq Users
    /\ Agents \subseteq Accounts
    /\ Donors \subseteq Users
    /\ MaxOrders \in Nat
    /\ owner \in Users
    /\ Arbiters \subseteq Users

VARIABLES
    orders,         \* orders[orderId]
    nonces,         \* _nonces[client]
    arbitrators,
    slashPool,
    splits          \* the orders whose split is between its two transfers

escrowVars == <<orders, nonces, arbitrators, slashPool, splits>>

Order == [client : Users \cup {ZeroAddr}, agent : Accounts,
          paymentToken : Tokens, amount : Amounts \cup {0}, deadline : Nat,
          status : OrderStatus]

EmptyOrder == [client |-> ZeroAddr, agent |-> ZeroAddr, paymentToken |-> Native,
               amount |-> 0, deadline |-> 0, status |-> "Pending"]

EscrowInit ==
    /\ orders = [o \in OrderIds |-> EmptyOrder]
    /\ nonces = [u \in Clients |-> 0]
    /\ arbitrators = {}
    /\ slashPool = 0
    /\ splits = {}

EscrowTypeOK ==
    /\ orders \in [OrderIds -> Order]
    /\ nonces \in [Clients -> 0..MaxOrders]
    /\ arbitrators \subseteq Users
    /\ slashPool \in Nat
    /\ splits \subseteq OrderIds

-----------------------------------------------------------------------------
\* Mutant: the pool is overwritten.
PoolAfterOverwrites(t, amount) == IF t = Native THEN amount ELSE slashPool

\* The slash pool after the escrow was sent amount of token t: native coin runs
\* its receive(), an ERC-20 token runs no code of it.
PoolAfter(t, amount) == IF t = Native THEN slashPool + amount ELSE slashPool

\* _transfer out of the escrow; one that fails reverts the whole call.  The agent
\* of an order may be the escrow itself, which then pays itself.
Transfer(t, to, amount) ==
    /\ CanPay(t, Escrow, to, amount)
    /\ balance' = Paid(t, Escrow, to, amount)
    /\ slashPool' = IF to = Escrow THEN PoolAfter(t, amount) ELSE slashPool

Set(o, status) == orders' = [orders EXCEPT ![o] = [@ EXCEPT !.status = status]]

SetArbitrator(sender, arb, active) ==
    /\ sender = owner
    /\ arbitrators' = IF active THEN arbitrators \cup {arb} ELSE arbitrators \ {arb}
    /\ UNCHANGED <<orders, nonces, slashPool, splits, balance>>

\* Mutant: the pool is decreased.
ReceiveSubtracts(amount) ==
    /\ slashPool' = slashPool - amount
    /\ UNCHANGED <<orders, nonces, arbitrators, splits>>

\* receive(): what the escrow's own code does with native coin sent to it.
Receive(amount) ==
    /\ slashPool' = PoolAfter(Native, amount)
    /\ UNCHANGED <<orders, nonces, arbitrators, splits>>

\* A user sends something to the escrow outside an order: native coin is not
\* told apart from a slash, and a token just stays there.
Donate(u, t, amount) ==
    /\ balance[t][u] >= amount
    /\ balance' = Paid(t, u, Escrow, amount)
    /\ slashPool' = PoolAfter(t, amount)
    /\ UNCHANGED <<orders, nonces, arbitrators, splits>>

\* Mutant: the nonce is read and not incremented.
CreateOrderSameNonce(client, agent, t, amount, deadline) ==
    LET o == <<client, nonces[client]>> IN
    /\ nonces[client] < MaxOrders
    /\ deadline > now
    /\ agent \notin {ZeroAddr, client}
    /\ balance[t][client] >= amount
    /\ balance' = Paid(t, client, Escrow, amount)
    /\ orders' = [orders EXCEPT ![o] =
                    [client |-> client, agent |-> agent, paymentToken |-> t,
                     amount |-> amount, deadline |-> deadline,
                     status |-> "Pending"]]
    /\ UNCHANGED <<nonces, arbitrators, slashPool, splits>>

\* The id is taken from the nonce, which is then incremented.
CreateOrder(client, agent, t, amount, deadline) ==
    LET o == <<client, nonces[client]>> IN
    /\ nonces[client] < MaxOrders
    /\ deadline > now
    /\ agent \notin {ZeroAddr, client}
    /\ balance[t][client] >= amount
    /\ balance' = Paid(t, client, Escrow, amount)
    /\ orders' = [orders EXCEPT ![o] =
                    [client |-> client, agent |-> agent, paymentToken |-> t,
                     amount |-> amount, deadline |-> deadline,
                     status |-> "Pending"]]
    /\ nonces' = [nonces EXCEPT ![client] = @ + 1]
    /\ UNCHANGED <<arbitrators, slashPool, splits>>

ConfirmOrder(sender, o) ==
    LET order == orders[o] IN
    /\ sender = order.client
    /\ order.status = "Pending"
    /\ Set(o, "Confirmed")
    /\ Transfer(order.paymentToken, order.agent, order.amount)
    /\ UNCHANGED <<nonces, arbitrators, splits>>

\* Mutant: an order may be disputed whatever its status.
DisputeOrderAnyStatus(sender, o) ==
    /\ sender \in {orders[o].client, orders[o].agent}
    /\ Set(o, "Disputed")
    /\ UNCHANGED <<nonces, arbitrators, slashPool, splits, balance>>

DisputeOrder(sender, o) ==
    /\ sender \in {orders[o].client, orders[o].agent}
    /\ orders[o].status = "Pending"
    /\ Set(o, "Disputed")
    /\ UNCHANGED <<nonces, arbitrators, slashPool, splits, balance>>

\* resolution 0 pays the client, 1 the agent.
ResolveFull(arb, o, resolution) ==
    LET order == orders[o]
        to == IF resolution = 0 THEN order.client ELSE order.agent IN
    /\ arb \in arbitrators
    /\ order.status = "Disputed"
    /\ Set(o, "Resolved")
    /\ Transfer(order.paymentToken, to, order.amount)
    /\ UNCHANGED <<nonces, arbitrators, splits>>

ClientShare(o) == orders[o].amount \div 2
AgentShare(o) == orders[o].amount - ClientShare(o)

\* resolution 2 pays both.  The client's receive hook runs between the two
\* transfers and may call any contract, so the two are separate steps; nested
\* splits end innermost first, here in any order.  Had the second transfer
\* failed, the first would be undone, so the agent must take what it is due.
ResolveSplit(arb, o) ==
    LET order == orders[o] IN
    /\ arb \in arbitrators
    /\ order.status = "Disputed"
    /\ Takes(order.paymentToken, order.agent)
    /\ Set(o, "Resolved")
    /\ Transfer(order.paymentToken, order.client, ClientShare(o))
    /\ splits' = splits \cup {o}
    /\ UNCHANGED <<nonces, arbitrators>>

FinishSplit(o) ==
    /\ o \in splits
    /\ Transfer(orders[o].paymentToken, orders[o].agent, AgentShare(o))
    /\ splits' = splits \ {o}
    /\ UNCHANGED <<orders, nonces, arbitrators>>

\* Mutant: the refund goes to the agent.
RefundToAgent(o) ==
    LET order == orders[o] IN
    /\ order.status = "Pending"
    /\ now > order.deadline
    /\ Set(o, "Refunded")
    /\ Transfer(order.paymentToken, order.agent, order.amount)
    /\ UNCHANGED <<nonces, arbitrators, splits>>

\* The caller is anyone and the id any id: one that was never created has
\* deadline 0 and is "refunded" with a transfer of 0 to address(0).
RefundExpiredOrder(o) ==
    LET order == orders[o] IN
    /\ order.status = "Pending"
    /\ now > order.deadline
    /\ Set(o, "Refunded")
    /\ Transfer(order.paymentToken, order.client, order.amount)
    /\ UNCHANGED <<nonces, arbitrators, splits>>

EscrowNext ==
    \/ \E sender \in Users, arb \in Arbiters, active \in BOOLEAN :
            SetArbitrator(sender, arb, active)
    \/ \E u \in Donors, t \in Tokens, amount \in Amounts : Donate(u, t, amount)
    \/ \E client \in Clients, agent \in Agents, t \in Tokens, amount \in Amounts,
          deadline \in now + 1 .. MaxTime - 1 :
            CreateOrder(client, agent, t, amount, deadline)
    \/ \E o \in OrderIds :
        \/ \E sender \in Users : ConfirmOrder(sender, o) \/ DisputeOrder(sender, o)
        \/ \E arb \in Users, resolution \in {0, 1} : ResolveFull(arb, o, resolution)
        \/ \E arb \in Users : ResolveSplit(arb, o)
        \/ FinishSplit(o)
        \/ RefundExpiredOrder(o)
=============================================================================
