\* No money; every setter, every text and every refused length.
CONSTANTS
    alice = alice
    bob = bob
    vault = vault
    pool = pool
    None = None
    Accounts <- MCAccounts
    Pools <- OnePool
    Addresses <- OnePoolAddresses
    Delegates <- MCDelegates
    PoolChoices <- MCPoolChoices
    Vault = vault
    Amounts = {4}
    MinOuts <- NoMinimum
    InitialReserve = 12
    InitialPurse <- NoMoney
    MaxU512 = 50
    FeeNum = 9
    FeeDen = 10
    Texts <- MCTexts
    TextLen <- MCTextLen
    CSPR = "CSPR"
    MAX_ACTIONS = 2
    MAX_SWAPS = 2
    MAX_TYPE_LEN = 8
    MAX_PARAMS_LEN = 8
    MAX_TOKEN_LEN = 8
SPECIFICATION Spec
SYMMETRY MCSymmetry
INVARIANTS
    AuditTrailReadable
PROPERTIES
    ImplementsActionLog
    ImplementsSwapLog
CHECK_DEADLOCK FALSE
