CONSTANTS
    Balances <- MCBalances
    Quotes <- MCQuotes
    Hashes <- MCHashes
    Tallies <- MCTallies
    VoteThreshold = 2
    HISTORY_LIMIT = 2
    RowsShown = 1
    StatusesSeen <- MCStatuses
    MaxUpdates = 4
    MaxPolls = 2
    MaxClicks = 1
SPECIFICATION FairConsoleSpec
INVARIANTS ConsoleTypeOK ClaimsAreBacked PanelsAgree NoDefaultAfterServed
PROPERTIES RegressNeedsOverlap EventuallyCurrent
CHECK_DEADLOCK FALSE
