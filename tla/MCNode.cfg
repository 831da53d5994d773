CONSTANTS
    Parts = {"mempool", "sync", "peers", "proofs", "coldstart", "relay"}
    txParent = txParent
    txChild = txChild
    txRival = txRival
    txSingle = txSingle
    Tx <- MCTx
    TxId <- MCTxId
    Spends <- MCSpends
    Makes <- MCMakes
    Fee <- MCFee
    Size <- MCSize
    Expires <- MCExpires
    SeedCoins <- MCSeedCoins
    Op <- MCOp
    MAX_MEMPOOL_SIZE = 2
    MAX_MEMPOOL_BYTES = 6
    MAX_UTXO_PACKAGE_COUNT = 2
    MAX_UTXO_PACKAGE_BYTES = 4
    MAX_BLOCK_PARENTS = 2
    MAX_MERGESET_SIZE = 1
    MIN_TX_FEE = 1
    MAX_QUEUE = 1
    MaxBlockSize = 3
    MaxChain = 3
    p1 = p1
    p2 = p2
    blkA = blkA
    blkB = blkB
    blkC = blkC
    blkD = blkD
    blkE = blkE
    SyncPeer = {p1, p2}
    SyncBlock = {blkA, blkB, blkC, blkD, blkE}
    ParentsOf <- MCParentsOf
    Holds <- MCHolds
    HeaderOnly <- MCHeaderOnly
    MAX_ORPHANS = 3
    MAX_IN_FLIGHT_BODIES = 2
    MAX_PENDING_HEADERS = 2
    BlueOf <- MCBlue
    INVALID_BLOCK_PENALTY = 20
    INVALID_STARK_PENALTY = 50
    STARK_VERIFY_BUDGET = 1
    BAN_SCORE_THRESHOLD = 40
    SendsHeaders = {p1}
    MaxDrops = 1
    r1 = r1
    r2 = r2
    Remote = {r1, r2}
    ListenAt <- MCListenAt
    GroupOf <- MCGroupOf
    MayAdvertise <- MCMayAdvertise
    Undialable = {"y1"}
    Pinned = {r2}
    Slot = {1, 2}
    MAX_PEERS = 2
    MAX_PEERS_PER_GROUP = 1
    MAX_KNOWN_ADDRS = 1
    MaxBans = 1
    DAA_WINDOW = 2
    TARGET_BLOCK_TIME = 2
    GENESIS_DIFFICULTY = 1
    BOOTSTRAP_MIN_DIFFICULTY = 4
    HARD_ERA_MIN_DIFFICULTY = 5
    BOOTSTRAP_ERA_END = 17
    BLOCK_REWARD = 4
    HALVING_INTERVAL = 3
    MAX_SUPPLY = 17
    MAX_LEVEL = 1
    MAX_MULTILEVEL_HOPS = 8
    BlockTime = {1, 4}
    MaxHeaders = 6
    s1 = s1
    s2 = s2
    Server = {s1, s2}
    PP = {1, 2}
    LinearWork <- MCLinearWork
    VerifiedWork <- MCVerifiedWork
    STALENESS = 0
    MaxRequests = 2
    n1 = n1
    n2 = n2
    t1 = t1
    t2 = t2
    RelayNode = {n1, n2}
    RelayTx = {t1, t2}
    RelayFee <- MCRelayFee
    FilterOf <- MCFilterOf
    MAX_IN_FLIGHT_TX_GETS = 1
    MaxEvents = 4
SPECIFICATION MCSpec
CHECK_DEADLOCK FALSE
INVARIANTS
    PanicsAreKnown
    StallExplained
    ReservationsExplained
    FlatChainProves
    EraEndDividesBelowFloor
    WrongLedgerIsKnown
    PropagationExplained
PROPERTIES
    ReplacementStrandsNobody
