CONSTANTS
    Keys = {k1, k2}
    NoKey = NoKey
    MotesPerCspr = 2
    Amounts = {1, 3}
    MaxOrders = 2
SPECIFICATION FairPanelSpec
INVARIANTS PanelTypeOK NoMoreThanOrdered AlertsTellTheTruth
PROPERTIES DepositIsAnswered
CHECK_DEADLOCK FALSE
