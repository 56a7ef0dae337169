\* Orders: one client, whose agent is a user or the escrow itself, and one bond.
SPECIFICATION Spec
CONSTANTS
    alice = alice
    bob = bob
    carol = carol
    p1 = p1
    p2 = p2
    r1 = r1
    r2 = r2
    tok = tok
    Users = {alice, bob}
    Nodes = {bob}
    Settler = Settler
    Escrow = Escrow
    ZeroAddr = ZeroAddr
    Native = Native
    Tokens = {Native, tok}
    Accepting = {alice, bob}
    Wealth = 3
    MaxTime = 3
    Periods = {p1}
    Roots = {r1}
    NoHash = NoHash
    BOND_AMOUNT = 2
    REVEAL_WINDOW = 0
    CHALLENGE_PERIOD = 0
    slashRecipient = Escrow
    MaxChallenges = 1
    Amounts <- MCAmounts
    Arbiters = {bob}
    Agents = {bob, Escrow}
    Clients = {alice}
    Donors = {alice}
    MaxOrders = 2
    owner = alice
INVARIANTS TypeOK EscrowBacked SlashesPooled
PROPERTIES ImplementsGeneric PaysPartiesOnly SettledOrdersStay
CHECK_DEADLOCK FALSE
