\* A fee of 1/10, so that amounts below ten feel both the fee and the floors;
\* MaxU512 is low enough for a quote's product and the sCSPR side to overflow.
CONSTANTS
    alice = alice
    bob = bob
    pool = pool
    Accounts <- MCAccounts
    Pools <- MCPools
    Addresses <- MCAddresses
    Amounts <- MCAmounts
    MinOuts <- MCMinOuts
    InitialReserve = 9
    InitialPurse <- MCPurse
    MaxU512 = 90
    FeeNum = 9
    FeeDen = 10
    MaxOrder = 12
SPECIFICATION PoolSpec
SYMMETRY MCSymmetry
INVARIANTS
    PoolTypeOK
    ReserveBacked
    SettlesAtMostTheQuote
    RoundTripNeverProfits
PROPERTIES
    ProductNeverDrops
    LiquidityIsForever
CHECK_DEADLOCK FALSE
