\* The copy is not found in time and its sender cancels.
CONSTANTS
  bradley = bradley
  jill = jill
  s1 = s1
  s2 = s2
  Member = {bradley, jill}
  TenantOf <- MCTenantOf
  HandleOf <- MCHandleOf
  CanSend = {bradley}
  CanReceive = {bradley, jill}
  SrcUuid = {s1}
  DstUuid <- MCCopies
  Limit = 10
  None = None
  Todo <- MCTodo
  Assignee <- MCAssignee
  Title <- MCTitle
  Gateway = {}
  Faults = {"lag"}
  Acts = {"canceled"}
SPECIFICATION TandemSpec
INVARIANTS NoDeadTodo
CHECK_DEADLOCK FALSE
