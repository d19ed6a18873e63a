\* No declared senders: one user, two groups, one clock rate, two addresses and clients.
CONSTANTS
  a1 = a1
  a2 = a2
  c1 = c1
  c2 = c2
  g1 = g1
  g2 = g2
  f1 = f1
  u1 = u1
  NoAddr = NoAddr
  NoClient = NoClient
  Addr <- TwoAddrs
  Client <- TwoClients
  Groups <- TwoGroups
  Frequency <- OneRate
  Roles <- MembersOnly
  User <- OneUser
  MaxMessages = 2
SPECIFICATION ServerFairSpec
INVARIANTS
  MediaStaysInGroup
PROPERTIES
  MemberFed
  MediaArrives
CHECK_DEADLOCK FALSE
