CONSTANT SettleAttempts = 2

SPECIFICATION Spec

INVARIANT FinishedClaim

CHECK_DEADLOCK FALSE
