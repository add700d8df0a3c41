\* Either member delegates one todo to the other; every call is tried again.
CONSTANTS
  bradley = bradley
  jill = jill
  Member = {bradley, jill}
  TenantOf <- MCTenantOf
  HandleOf <- MCHandleOf
  CanSend = {bradley, jill}
  CanReceive = {bradley, jill}
  SrcUuid = {s1}
  DstUuid <- MCCopies
  Limit = 10
  None = None
  Todo <- MCTodo
  Assignee <- MCAssignee
  Title <- MCTitle
  Gateway = {bradley}
  Faults = {"write", "async"}
  QueueFaults = {"late", "restart", "amnesia"}
  Retries = 1
  Losses = 1
  Acts = {"trashed"}
SPECIFICATION QueueSpec
INVARIANTS QueueTypeOK DuplicateNeedsAmnesia BothSidesClosed
PROPERTIES DeliveredOrOutOfSight EchoLandsOrFailed
CHECK_DEADLOCK FALSE
