\* RtcActor handles a flushed buffer at once, before the next flush is due, or
\* takes as long as it likes; Clients are replaced; the peer goes on sending.
CONSTANTS
  Packet = {p1, p2, p3}
  Start = 2
  Volatile = 1
  Word = 8
  Transits = {0, 2, 4}
  MaxDelay = 3
  MaxDeficit = 2
  MaxBuffer = 2
  MaxPending = 2
  Drains = {1, 9}
SPECIFICATION JitterFairSpec
INVARIANTS
  LineKept
  HandledInOrder
  DelayCoversEstimate
  
PROPERTY KeepsFlowing
