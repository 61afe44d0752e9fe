CONSTANTS
  p1 = p1
  p2 = p2
  x1 = x1
  x2 = x2
  Pods <- MCPods
  XRDs <- MCXRDs
  Identified <- MCIdentified
  MaxChanges = 1
  MaxExits = 1

SPECIFICATION FairSpec

INVARIANT TypeOK
INVARIANT SnapshotsAuthentic
INVARIANT PollsGoForward
PROPERTY ImplementsView
PROPERTY ServesCurrentInTheEnd
PROPERTY RowCurrentInTheEnd
