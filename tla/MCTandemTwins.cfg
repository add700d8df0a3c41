\* Two todos with one title, a lagging mirror, copies that are completed.
CONSTANTS
  bradley = bradley
  jill = jill
  s1 = s1
  s2 = s2
  Member = {bradley, jill}
  TenantOf <- MCTenantOf
  HandleOf <- MCHandleOf
  CanSend = {bradley}
  CanReceive = {bradley, jill}
  SrcUuid = {s1, s2}
  DstUuid <- MCCopies
  Limit = 10
  None = None
  Todo <- MCTodo
  Assignee <- MCAssignee
  Title <- MCTitle
  Gateway = {}
  Faults = {"lag", "async"}
  Acts = {"completed"}
SPECIFICATION TandemSpec
INVARIANTS DistinctCopies CopyIsOwn
CHECK_DEADLOCK FALSE
