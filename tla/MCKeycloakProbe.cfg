CONSTANTS
  l1 = l1
  l2 = l2
  Logins = {l1, l2}
  MaxCallbacks = 3
  FlowChoices <- MCFlowChoices
SPECIFICATION Spec
INVARIANTS
  TypeOK
  LateCallbackHarmless
  PassHasCause
  SuccessNeedsTokens
PROPERTY
  ProbeEnds
CHECK_DEADLOCK FALSE
