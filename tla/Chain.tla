-------------------------------- MODULE Chain --------------------------------
(***************************************************************************)
(* The part of the EVM the contracts of contracts/ rely on: a clock        *)
(* (block.timestamp) and the balance of every account in the native coin   *)
(* and in each ERC-20 token.  It is external code: what is said here is    *)
(* what the contracts' calls assume of it.  A transaction that reverts     *)
(* leaves no trace, so a reverting path is an action that is not enabled.  *)
(***************************************************************************)
EXTENDS Integers, FiniteSets

CONSTANTS
    Users,      \* externally owned accounts and contracts outside contracts/
    Settler,    \* the address of CommitRevealSettlerV2
    Escrow,     \* the address of EscrowV1
    ZeroAddr,   \* address(0), also the value of every unset address slot
    Native,     \* the native coin, address(0) as a paymentToken
    Tokens,     \* the native coin and the ERC-20 tokens
    Accepting,  \* the users whose receive hook takes a native transfer
    Wealth,     \* what each user owns of each token at the start
    MaxTime     \* bound on the clock

Accounts == Users \cup {Settler, Escrow, ZeroAddr}

ASSUME ChainAssumption ==
    /\ {Settler, Escrow, ZeroAddr} \cap Users = {}
    /\ Settler # Escrow /\ Settler # ZeroAddr /\ Escrow # ZeroAddr
    /\ IsFiniteSet(Users)
    /\ Native \in Tokens
    /\ Accepting \subseteq Users
    /\ Wealth \in Nat
    /\ MaxTime \in Nat \ {0}

VARIABLES
    now,        \* block.timestamp of the transaction being executed
    balance     \* balance[t][a] is what account a owns of token t

chainVars == <<now, balance>>

\* Time 0 is what an unset timestamp reads as, so no block carries it.
ChainInit ==
    /\ now = 1
    /\ balance = [t \in Tokens |->
                    [a \in Accounts |-> IF a \in Users THEN Wealth ELSE 0]]

ChainTypeOK ==
    /\ now \in Nat \ {0}
    /\ balance \in [Tokens -> [Accounts -> Nat]]

\* A native transfer runs the recipient's receive hook; an ERC-20 transfer runs
\* no code of the recipient.  The settler has no receive function, the escrow's
\* takes anything, and nothing is deployed at address(0).
Takes(t, a) == t = Native => a \in Accepting \cup {Escrow, ZeroAddr}

CanPay(t, from, to, amount) == balance[t][from] >= amount /\ Takes(t, to)

\* balance after amount of token t went from one account to another, or to itself.
Moved(row, from, to, amount) ==
    [row EXCEPT ![from] = @ - amount, ![to] = @ + amount]

Paid(t, from, to, amount) ==
    [balance EXCEPT ![t] = Moved(@, from, to, amount)]

Tick ==
    /\ now < MaxTime
    /\ now' = now + 1
    /\ UNCHANGED balance
=============================================================================
