\* The agent, the chain and other accounts.
CONSTANTS
    deployer = deployer
    depositor = depositor
    vault = vault
    pool = pool
    None = None
    Accounts <- MCAccounts
    Pools <- MCPools
    Addresses <- MCAddresses
    Delegates <- MCNobody
    PoolChoices <- MCNobody
    Vault = vault
    DeployedPool = pool
    SeedAmount = 4
    Amounts <- MCAmounts
    MinOuts <- MCMinOuts
    InitialReserve = 12
    InitialPurse <- MCPurses
    MaxU512 = 50
    FeeNum = 9
    FeeDen = 10
    Texts <- MCTexts
    TextLen <- MCTextLen
    CSPR = "CSPR"
    SCSPR = "sCSPR"
    MAX_ACTIONS = 1
    MAX_SWAPS = 2
    MAX_TYPE_LEN = 8
    MAX_PARAMS_LEN = 8
    MAX_TOKEN_LEN = 8
    Signer = deployer
    Specialists = {risk, yield, liquidity}
    VoteThreshold = 2
    MotesPerCspr = 2
    Unread = Unread
    Balances <- MCNobody
    Quotes <- MCQuotes
    HISTORY_LIMIT = 1
    ERROR_LIMIT = 0
    MaxDeploys = 2
SPECIFICATION ChainSpec
INVARIANT OnlyVotedSwapsOnTrail
CHECK_DEADLOCK FALSE
