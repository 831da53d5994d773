CONSTANTS
    Parts = {"finality", "addresses", "limits", "versions", "stratum", "index", "reach", "vault", "fees", "http", "wire", "socks", "budget"}
    Block = {0, 1, 2, 3, 4, 5}
    Root = 0
    Gain = {1, 2}
    Depth = 2
    a1 = a1
    a2 = a2
    a3 = a3
    a4 = a4
    Addr = {a1, a2, a3, a4}
    NEW_BUCKETS = 2
    TRIED_BUCKETS = 2
    NewBucketOf <- MCNewBucketOf
    TriedBucketOf <- MCTriedBucketOf
    ADDRS_PER_BUCKET = 2
    MAX_ADDRS_TOTAL = 3
    MaxFeelers = 4
    Client = {1}
    MAX_REQUESTS_PER_WINDOW = 2
    WINDOW = 2
    BAN_THRESHOLD = 4
    BAN_DURATION = 3
    IP_ENTRY_TTL = 4
    MaxClock = 8
    SIGNAL_WINDOW = 3
    SIGNAL_THRESHOLD = 2
    Start = 2
    Timeout = 8
    MaxBlue = 10
    MaxStep = 3
    Worker = {"w1", "w2"}
    ShareNonce = {2, 3}
    WorkOf <- MCWorkOf
    NetDifficulty = 4
    DEFAULT_SHARE_DIFFICULTY = 3
    MIN_SHARE_DIFFICULTY = 1
    MAX_SHARE_DIFFICULTY = 6
    MAX_STRATUM_WORKERS = 2
    MAX_SUBMITS_PER_WINDOW = 2
    SUBMIT_WINDOW_MS = 2
    MAX_CONSECUTIVE_REJECTS = 2
    WORKER_BAN_MS = 1
    MAX_JOB_AGE_MS = 1
    MAX_NONCES_PER_JOB = 1
    MaxJobs = 1
    RaiseEvery = 2
    LowerAfter = 1
    MaxNow = 2
    MaxJobId = 2
    g0 = g0
    b1 = b1
    b2 = b2
    c1 = c1
    c2 = c2
    c3 = c3
    ChainBlock = {g0, b1, b2, c1, c2, c3}
    Genesis = g0
    SelectedParent <- MCSelectedParent
    FinalityDepth = 2
    MAX_SERIES_POINTS = 2
    MaxRestarts = 1
    SCALE = 3
    SIBLING_RESERVE = 1
    SPACE_START = 1
    BURIED = 2
    FORGOTTEN = 3
    MaxParents = 2
    MaxIndexed = 7
    MaxReloaded = 4
    Party <- MCParty
    Buyer = "buyer"
    Seller = "seller"
    SeedCoins <- MCVaultCoins
    Witnesses <- MCWitnesses
    Candidates <- MCCandidates
    UTXO_DUST = 2
    COINBASE_MATURITY_BLUES = 1
    MAX_PRED_DEPTH = 4
    MAX_STACK = 2
    Amount = 5
    TimeoutBlue = 2
    MaxVaultBlue = 2
    MaxApplied = 3
    MaxPool = 2
    FeeTx = {"t1", "t2"}
    Feerate <- MCFeerate
    FeeTarget <- MCFeeTarget
    RelayFloor = 1
    MAX_FEE_BLOCKS = 2
    MAX_TRACKED = 1
    FeePoolSize = 2
    SUCCESS_PCT = 60
    MaxFeeBlocks = 3
    HttpConn = {1, 2, 3}
    HttpRequest <- MCHttpRequest
    TokenSet = TRUE
    MAX_API_CONNECTIONS = 2
    MAX_SSE_STREAMS = 1
    MAX_REQUEST_BYTES = 5
    CHUNK = 3
    PartsOf <- MCPartsOf
    SocketFrames = 2
    MaxAnnounced = 1
    UseProxy = {TRUE, FALSE}
    Host <- MCHost
    MaxName = 3
    IP4 = 2
    IP6 = 3
    MaxPeerData = 4
    PEER_MSG_LIMIT = 2
    PEER_RATE_WINDOW = 2
    STARK_LIMIT = 1
    STARK_WINDOW = 2
    INVALID_TX_PENALTY = 2
    INVALID_BLOCK_PENALTY = 2
    INVALID_STARK_PENALTY = 3
    BAN_SCORE_THRESHOLD = 6
    BAN_DECAY_POINTS = 1
    BAN_DECAY_INTERVAL = 3
    MaxMessages = 4
    MaxSeconds = 6
SPECIFICATION MCSpec
CHECK_DEADLOCK FALSE
INVARIANTS
    OnePlaceOnly
    GrantsAreBounded
    LockInIsEarned
    ShareCreditedOnce
    IndexErrsAboveCutsOnly
    WitnessesFollowLaw
    BuiltApplies
    EstimateIsSupported
    SlotsAccounted
    DeliveredInOrder
    StuckOnlyWhenBothAnswer
    StreamStartsAtPeer
    BansAreEarned
PROPERTIES
    FinalGrows
    IndexIsOneChain
    VaultByLawOnly
