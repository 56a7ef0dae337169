\* Bonds: two nodes and two periods, no orders. A node can pay for one bond at a
\* time, so it commits to a second period only after it claimed the first bond.
SPECIFICATION Spec
CONSTANTS
    alice = alice
    bob = bob
    carol = carol
    p1 = p1
    p2 = p2
    r1 = r1
    r2 = r2
    tok = tok
    Users = {alice, bob, carol}
    Nodes = {alice, bob}
    Settler = Settler
    Escrow = Escrow
    ZeroAddr = ZeroAddr
    Native = Native
    Tokens = {Native}
    Accepting = {alice, bob, carol}
    Wealth = 2
    MaxTime = 4
    Periods = {p1, p2}
    Roots = {r1}
    NoHash = NoHash
    BOND_AMOUNT = 2
    REVEAL_WINDOW = 1
    CHALLENGE_PERIOD = 1
    slashRecipient = Escrow
    MaxChallenges = 1
    Amounts = {}
    Arbiters = {}
    Agents = {}
    Clients = {}
    Donors = {}
    MaxOrders = 0
    owner = carol
INVARIANTS SettlerBacked RootsBound WindowsPartition
INVARIANTS SignersListedOnce PagesCoverList
PROPERTIES ImplementsBondVault BondsGoHome
SYMMETRY BondSymmetry
CHECK_DEADLOCK FALSE
