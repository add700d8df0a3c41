\* One write to Things fails without effect.
CONSTANTS
  bradley = bradley
  jill = jill
  Member = {bradley, jill}
  TenantOf <- MCTenantOf
  HandleOf <- MCHandleOf
  CanSend = {bradley}
  CanReceive = {bradley, jill}
  SrcUuid = {s1}
  DstUuid <- MCCopies
  Limit = 10
  None = None
  Todo <- MCTodo
  Assignee <- MCAssignee
  Title <- MCTitle
  Gateway = {}
  Faults = {"write"}
  Acts = {}
SPECIFICATION TandemLiveSpec
PROPERTIES Delivered
CHECK_DEADLOCK FALSE
