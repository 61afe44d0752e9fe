CONSTANTS
  Scripts = {"cases", "race", "idempotency", "types"}
  RaceSlots <- MCRaceSlots
  CancelAttempts = 2
  MaxMishaps = 1

SPECIFICATION FairSpec

INVARIANT TypeOK
INVARIANT EveryKeptCancelled
INVARIANT CasesAsLabelled
PROPERTY ScriptEnds

CHECK_DEADLOCK FALSE
