\* The vault with a pool anyone may trade with.
CONSTANTS
    alice = alice
    bob = bob
    vault = vault
    pool = pool
    None = None
    Accounts <- MCAccounts
    Pools <- OnePool
    Addresses <- OnePoolAddresses
    Delegates <- MCNobody
    PoolChoices <- OnePool
    Vault = vault
    Amounts = {4}
    MinOuts <- NoMinimum
    InitialReserve = 12
    InitialPurse <- OneUnit
    MaxU512 = 50
    FeeNum = 9
    FeeDen = 10
    Texts <- MCPair
    TextLen <- MCPairLen
    CSPR = "CSPR"
    MAX_ACTIONS = 0
    MAX_SWAPS = 2
    MAX_TYPE_LEN = 8
    MAX_PARAMS_LEN = 8
    MAX_TOKEN_LEN = 8
SPECIFICATION Spec
SYMMETRY MCSymmetry
INVARIANTS
    TypeOK
    VaultSolvent
    WholeUntilPooled
PROPERTIES
    ClaimsChangeAgainstPayment
    CashLeavesAgainstRecord
    PausedMeansFrozen
    ImplementsFundLedger
CHECK_DEADLOCK FALSE
