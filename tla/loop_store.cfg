CONSTANTS
    Specialists = {risk, yield, liquidity}
    VoteThreshold = 2
    MotesPerCspr = 2
    Unread = Unread
    Balances <- MCBalances
    Quotes <- MCQuotes
    HISTORY_LIMIT = 2
    ERROR_LIMIT = 1
    MaxDeploys = 2
SPECIFICATION FairLoopSpec
INVARIANTS LoopTypeOK HistoryMatchesDeploys
PROPERTIES KeepsObserving ImplementsFeed
