\* One todo, every fault, every act.
CONSTANTS
  bradley = bradley
  jill = jill
  s1 = s1
  s2 = s2
  Member = {bradley, jill}
  TenantOf <- MCTenantOf
  HandleOf <- MCHandleOf
  CanSend = {bradley}
  CanReceive = {bradley, jill}
  SrcUuid = {s1}
  DstUuid <- MCCopies
  Limit = 10
  None = None
  Todo <- MCTodo
  Assignee <- MCAssignee
  Title <- MCTitle
  Gateway = {bradley}
  Faults = {"crash", "request", "reply", "write", "unverified", "async", "late", "lag"}
  Acts = {"completed", "canceled", "trashed"}
SPECIFICATION TandemSpec
INVARIANTS NoDup TagIsRetryQueue BothSidesClosed NothingLeftOver
CHECK_DEADLOCK FALSE
