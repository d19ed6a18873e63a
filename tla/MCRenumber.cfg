\* Numbers of two bits, and streams that may wrap around twice.
CONSTANTS
  Stream <- Streams
  Rate <- Rates
  RateOf <- RatesOf
  Word = 4
  First = {1, 3}
  MaxJump = 2
  MaxTravel = 5
SPECIFICATION RtpSpec
INVARIANTS
  OffsetKept
  NeverAhead
CHECK_DEADLOCK FALSE
