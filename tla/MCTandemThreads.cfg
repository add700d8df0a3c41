\* No fault: bradley's two threads race.
CONSTANTS
  bradley = bradley
  jill = jill
  s1 = s1
  s2 = s2
  Member = {bradley, jill}
  TenantOf <- MCTenantOf
  HandleOf <- MCHandleOf
  CanSend = {bradley}
  CanReceive = {bradley, jill}
  SrcUuid = {s1}
  DstUuid <- MCCopies
  Limit = 10
  None = None
  Todo <- MCTodo
  Assignee <- MCAssignee
  Title <- MCTitle
  Gateway = {bradley}
  Faults = {}
  Acts = {"canceled"}
SPECIFICATION TandemSpec
INVARIANTS ReportsArePeoples
CHECK_DEADLOCK FALSE
