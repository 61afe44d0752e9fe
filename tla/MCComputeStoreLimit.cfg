CONSTANTS
  c1 = c1
  c2 = c2
  c3 = c3
  n1 = n1
  n2 = n2
  t1 = t1
  t2 = t2
  Calls <- MCCalls
  Names = {n1, n2}
  Tenants = {t1, t2}
  Limits <- MCLimits
  DefaultLimit = 2
  MaxLimit = 2
  Wanted <- MCWanted

SPECIFICATION Spec

INVARIANT LimitAsDocumented

CHECK_DEADLOCK FALSE
