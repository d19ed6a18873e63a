\* Requests of up to 72 bytes; responses in buffers that are one byte short, exact, and the code's.
CONSTANTS
  Sizes <- SomeSizes
  FirstBytes = {0, 1, 19, 20, 63, 64, 65, 127, 128, 191, 192}
  Lengths <- SomeLengths
  Payloads = {0, 1, 4, 5, 12, 20, 21, 24}
  Buffers = {63, 64, 75, 76, 1200}
SPECIFICATION StunSpec
INVARIANTS
  ReadsInside
  OnlyTheTailIsLost
  
  SentIsWritten
  CoversPrefix
CHECK_DEADLOCK FALSE
