CONSTANTS
    Addr = {alice, bob}
    Seed = {s1}
    Amount = {1, 2}
    Fee = {1}
    Timeout = {0, 2}
    BLOCK_REWARD = 2
    HALVING_INTERVAL = 2
    MAX_SUPPLY = 2
    MaxBlue = 2
    MaxNonce = 3
    None = None
SPECIFICATION Spec
SYMMETRY Symmetry
INVARIANT
    SupplyInvariantOk
