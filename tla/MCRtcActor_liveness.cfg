\* No declared senders: two clients, two threads that share locks.
CONSTANTS
  a1 = a1
  a2 = a2
  a3 = a3
  c1 = c1
  c2 = c2
  c3 = c3
  g1 = g1
  g2 = g2
  w1 = w1
  w2 = w2
  NoAddr = NoAddr
  NoClient = NoClient
  Addr <- TwoAddrs
  Client <- TwoClients
  Groups <- OneGroup
  Frequency <- NoRates
  Roles <- MembersOnly
  Worker <- TwoWorkers
SPECIFICATION RtcFairSpec
PROPERTIES
  HandlersEnd
  PacketsEnd
CHECK_DEADLOCK FALSE
