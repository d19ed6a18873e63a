\* One group, three addresses, four clients; sessions may declare a sender.
CONSTANTS
  a1 = a1
  a2 = a2
  a3 = a3
  c1 = c1
  c2 = c2
  c3 = c3
  c4 = c4
  g1 = g1
  NoAddr = NoAddr
  NoClient = NoClient
  Addr <- ThreeAddrs
  Client <- FourClients
  Groups <- OneGroup
  Frequency <- NoRates
  Roles <- Anyone
SPECIFICATION ActorSpec
SYMMETRY AddrClientSymmetry
INVARIANTS
  
  LeakFree
PROPERTY DeletedStaysOut
CHECK_DEADLOCK FALSE
