\* Two clients, two records each: one that overtakes another.
CONSTANTS
  Client = {c1, c2}
  MaxRecords = 2
SPECIFICATION OutgoingFairSpec
PROPERTIES
  WrittenLeaves
  StreamEnds
CHECK_DEADLOCK FALSE
