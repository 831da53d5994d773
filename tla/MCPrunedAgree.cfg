CONSTANTS
    Node = {n1, n2}
    Archival = {n1}
    BlockId = {1, 2, 3, 4, 5}
    Tx = {t1, t2}
    Coin = {c}
    SeedCoins = {c}
    EscrowCoin = {}
    Spends <- MCSpends
    Makes <- MCMakes
    GHOSTDAG_K = 0
    FINALITY_DEPTH = 2
    MAX_BLOCK_PARENTS = 2
    MAX_MERGESET_SIZE = 3
    MaxBody = 1
    HashWindow = 2
    None = None
SPECIFICATION Spec
SYMMETRY TxSymmetry
CHECK_DEADLOCK FALSE
INVARIANT
    SameDagSameState
