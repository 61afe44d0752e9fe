CONSTANT SettleAttempts = 2

SPECIFICATION FairSpec

INVARIANT TypeOK
INVARIANT NoRequestLeftWaiting
INVARIANT HappyRunGrants
INVARIANT CleanupHonest
INVARIANT KindComplete
INVARIANT TriggerApplies
PROPERTY ImplementsGate
PROPERTY KindKeepsEntries
PROPERTY DriverEnds

CHECK_DEADLOCK FALSE
