CONSTANTS
    Keys = {k1, k2}
    NoKey = NoKey
    MaxChanges = 3
    MaxCalls = 2
SPECIFICATION WalletSpec
INVARIANTS SessionTypeOK
PROPERTIES OnlyOvertakenAnswersMislead
CHECK_DEADLOCK FALSE
