\* Nobody but the vault trades with the pool.
CONSTANTS
    alice = alice
    bob = bob
    vault = vault
    pool = pool
    None = None
    Accounts <- MCAccounts
    Pools <- MCPools
    Addresses <- MCAddresses
    Delegates <- MCDelegates
    PoolChoices <- MCPools
    Vault = vault
    DeployedPool = pool
    SeedAmount = 8
    Amounts <- MCAmounts
    MinOuts <- MCMinOuts
    InitialReserve = 12
    InitialPurse <- MCPurses
    MaxU512 = 100
    FeeNum = 9
    FeeDen = 10
    Texts <- MCPair
    TextLen <- MCTextLen
    CSPR = "CSPR"
    MAX_ACTIONS = 0
    MAX_SWAPS = 4
    MAX_TYPE_LEN = 8
    MAX_PARAMS_LEN = 8
    MAX_TOKEN_LEN = 8
SPECIFICATION PrivateSpec
SYMMETRY MCSymmetry
INVARIANTS
    BooksAgree
    NoYieldFromOwnTrades
    SwapTrailExplainsPosition
PROPERTIES
    RecordNeverBeatsQuote
CHECK_DEADLOCK FALSE
