\* Three tool calls at a time over at most three sessions.
SPECIFICATION FairSpec
CONSTANTS
    Callers = {c1, c2, c3}
    MaxSessions = 3
    None = None
INVARIANTS NoSessionLeft SurvivesOneLoss
PROPERTIES OnlyLostReplaced EveryCallReturns
CHECK_DEADLOCK FALSE
