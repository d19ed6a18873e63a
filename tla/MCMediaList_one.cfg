\* One client, with up to three lines.
CONSTANTS
  Peer = {p1}
  PayloadType = {96, 97, 111}
  Name = {"VP8", "H264"}
  ClockRate = {8, 90}
  Supported <- Formats
  Ignored = 111
  MaxLines = 3
  None = None
SPECIFICATION ListSpec
INVARIANTS
  LastLinesWin
  AnsweredIsForwarded
