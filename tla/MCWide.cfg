CONSTANTS
    Node = {n1, n2}
    Archival = {n1, n2}
    BlockId = {1, 2, 3, 4, 5, 6}
    Tx = {}
    Coin = {c}
    SeedCoins = {c}
    EscrowCoin = {}
    Spends <- MCSpends
    Makes <- MCMakes
    GHOSTDAG_K = 2
    FINALITY_DEPTH = 3
    MAX_BLOCK_PARENTS = 2
    MAX_MERGESET_SIZE = 3
    MaxBody = 1
    HashWindow = 2
    None = None
SPECIFICATION Spec
SYMMETRY Symmetry
CHECK_DEADLOCK FALSE
INVARIANTS
    BluesFormKCluster
    OnlyRedsComeLate
PROPERTIES
    ImplementsFinalityChain
