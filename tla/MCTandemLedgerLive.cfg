\* Two delegations, one of which may fail forever; a batch has room for both.
CONSTANTS
  bradley = bradley
  jill = jill
  s1 = s1
  s2 = s2
  Member = {bradley, jill}
  TenantOf <- MCTenantOf
  HandleOf <- MCHandleOf
  CanSend = {bradley}
  CanReceive = {bradley, jill}
  SrcUuid = {s1, s2}
  DstUuid = {u1}
  Limit = 2
  None = None
  Poison <- MCPoison
SPECIFICATION LiveSpec
PROPERTIES CreateSettled TerminalResolved
CHECK_DEADLOCK FALSE
