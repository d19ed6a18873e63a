\* Two offers of one user with two lines each; the mailbox may be full.
CONSTANTS
  o1 = o1
  o2 = o2
  u1 = u1
  None = None
  Offer <- TwoOffers
  User <- OneUser
  Minute = 2
  Latency = 1
  MaxLines = 2
  Capacity = 3
SPECIFICATION UdpFairSpec
INVARIANTS
  AnsweredHasSession
  AnsweredHasMedia
  NoOrphanMedia
PROPERTIES
  OffersAnswered
  ForgottenInTheEnd
