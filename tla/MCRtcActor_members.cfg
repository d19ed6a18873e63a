\* No declared senders: two groups, three addresses and clients, one thread.
CONSTANTS
  a1 = a1
  a2 = a2
  a3 = a3
  c1 = c1
  c2 = c2
  c3 = c3
  g1 = g1
  g2 = g2
  w1 = w1
  w2 = w2
  NoAddr = NoAddr
  NoClient = NoClient
  Addr <- ThreeAddrs
  Client <- ThreeClients
  Groups <- TwoGroups
  Frequency <- NoRates
  Roles <- MembersOnly
  Worker <- OneWorker
SPECIFICATION RtcSpec
SYMMETRY Symmetry
INVARIANTS
  NoEcho
  FeederIsGroupSender
  
PROPERTIES
  NobodyMissed
  
CHECK_DEADLOCK FALSE
