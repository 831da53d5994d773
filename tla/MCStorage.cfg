CONSTANTS
    Node = {n1, n2}
    Archival = {n1}
    BlockId = {1, 2, 3, 4, 5, 6}
    Tx = {}
    Coin = {c}
    SeedCoins = {c}
    EscrowCoin = {}
    Spends <- MCSpends
    Makes <- MCMakes
    GHOSTDAG_K = 1
    FINALITY_DEPTH = 2
    MAX_BLOCK_PARENTS = 2
    MAX_MERGESET_SIZE = 3
    MaxBody = 1
    HashWindow = 1
    Thread = {"saver"}
    Inode = {1, 2, 3, 4, 5, 6, 7}
    MaxFaults = 1
    MaxVersion = 2
    None = None
    Absent = Absent
    Empty = Empty
    Garbage = Garbage
SPECIFICATION MCSpec
CHECK_DEADLOCK FALSE
INVARIANT
    LoadFromRecovers
PROPERTIES
    FinalityNeverReverts
    HeightGetsSaved
