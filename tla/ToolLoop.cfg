SPECIFICATION Spec
CONSTANTS
    Names = {"a", "b"}
    MaxRounds = 2
    MaxCalls = 2
INVARIANT CallerWins
CHECK_DEADLOCK FALSE
