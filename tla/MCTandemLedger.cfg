\* One todo of each of two members, two uuids a create may be acked with.
CONSTANTS
  bradley = bradley
  jill = jill
  Member = {bradley, jill}
  TenantOf <- MCTenantOf
  HandleOf <- MCHandleOf
  CanSend = {bradley, jill}
  CanReceive = {bradley, jill}
  SrcUuid = {s1}
  DstUuid = {u1, u2}
  Limit = 10
  None = None
SPECIFICATION Spec
INVARIANTS TypeOK NoLoss EchoFollowsTerminal EchoAfterCopy TerminalNotLost
PROPERTIES DstSetOnce SettledIsFinal ImplementsLifecycle
CHECK_DEADLOCK FALSE
