CONSTANTS
  p1 = p1
  p2 = p2
  x1 = x1
  x2 = x2
  Pods <- MCPods
  XRDs <- MCXRDs
  Identified <- MCIdentified
  MaxChanges = 1
  MaxExits = 0

SPECIFICATION Spec

PROPERTY RowNeverGoesBack
