\* One delegation from bradley (in-process) to jill (long poll).
CONSTANTS
  bradley = bradley
  jill = jill
  Member = {bradley, jill}
  TenantOf <- MCTenantOf
  HandleOf <- MCHandleOf
  CanSend = {bradley}
  CanReceive = {bradley, jill}
  SrcUuid = {s1}
  DstUuid = {u1}
  Limit = 10
  None = None
  Gateway = {bradley}
SPECIFICATION PushSpec
INVARIANTS PushTypeOK
PROPERTIES FreshIsLeased ParkedReaderIsWoken
CHECK_DEADLOCK FALSE
