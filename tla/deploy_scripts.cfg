CONSTANTS
    MaxTx = 8
    MaxRuns = 4
SPECIFICATION DeploySpec
INVARIANTS CompletedStaysWired RerunsCannotFinish UpgradeReachesThePair
CHECK_DEADLOCK FALSE
