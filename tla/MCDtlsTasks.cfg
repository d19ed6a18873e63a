\* Three tasks of one address that reconnects once and joins a group.
CONSTANTS
  a1 = a1
  c1 = c1
  c2 = c2
  g1 = g1
  t1 = t1
  t2 = t2
  t3 = t3
  NoAddr = NoAddr
  NoClient = NoClient
  Frequency <- NoRates
  Addr <- OneAddr
  Client <- TwoClients
  Groups <- OneGroup
  Task <- ThreeTasks
  Roles <- MembersOnly
SPECIFICATION FairSpec
INVARIANTS
  NoOrphan
PROPERTIES
  OnlyLateConnectShutsDown
  DeletedByOwnOrPredecessor
  ImplementsLifecycle
  TasksEnd
  DownIsDeleted
CHECK_DEADLOCK FALSE
