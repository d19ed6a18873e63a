\* Two clients that number the same codecs differently.
CONSTANTS
  Peer = {p1, p2}
  PayloadType = {96, 97}
  Name = {"VP8", "H264"}
  ClockRate = {90}
  Supported <- Formats
  Ignored = 111
  MaxLines = 1
  None = None
SPECIFICATION ListSpec
INVARIANT PayloadPrepared
