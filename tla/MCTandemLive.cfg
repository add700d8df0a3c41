\* Lost calls, a lagging mirror, copies that are made late.
CONSTANTS
  bradley = bradley
  jill = jill
  Member = {bradley, jill}
  TenantOf <- MCTenantOf
  HandleOf <- MCHandleOf
  CanSend = {bradley}
  CanReceive = {bradley, jill}
  SrcUuid = {s1}
  DstUuid <- MCCopies
  Limit = 10
  None = None
  Todo <- MCTodo
  Assignee <- MCAssignee
  Title <- MCTitle
  Gateway = {}
  Faults = {"request", "reply", "lag", "async", "late"}
  Acts = {"completed", "canceled"}
SPECIFICATION TandemLiveSpec
INVARIANTS ReportsArePeoples
PROPERTIES Delivered EveryEndEchoes
CHECK_DEADLOCK FALSE
