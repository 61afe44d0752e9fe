--------------------------- MODULE MCComputeStore ---------------------------
\* Three calls around one name: two creations, or a creation and a deletion, meet
\* deletions, reads and pages of several sizes.
EXTENDS ComputeStore

CONSTANTS c1, c2, c3, n1, n2, t1, t2

MCCalls == {c1, c2, c3}
MCLimits == {0, 1, 2}

Creation(n, t) == [op |-> "create", name |-> n, tenant |-> t, flaw |-> "none"]
OddCreation == [op |-> "create", name |-> n1, tenant |-> t2, flaw |-> "odd"]
Deletion == [op |-> "delete", name |-> n1, flaw |-> "none"]
Reading == [op |-> "get", name |-> n1, flaw |-> "none"]
Paging(limit) == [op |-> "list", tenant |-> t1, limit |-> limit, flaw |-> "none"]
NoTenantPaging == [op |-> "list", tenant |-> t1, limit |-> 1, flaw |-> "unusable"]

MCWanted ==
  [c \in MCCalls |->
     CASE c = c1 -> {Creation(n1, t1)}
       [] c = c2 -> {Creation(n1, t2), Creation(n2, t1), Creation(n2, t2), OddCreation, Deletion}
       [] c = c3 -> {Creation(n1, t1), Deletion, Reading, Paging(0), Paging(1), Paging(2),
                     NoTenantPaging}]
=============================================================================
