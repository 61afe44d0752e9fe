CONSTANTS
  Requests = {r1, r2}
SPECIFICATION Spec
INVARIANTS
  TypeOK
  NoCallAfterStop
  NoRequestCut
  EverythingStopped
PROPERTY
  SignalEnds
CHECK_DEADLOCK FALSE
