CONSTANTS
  Files = {"long", "short"}
  Length <- MCLength
  Room <- MCFull
  Bytes = 3
  MaxFaults = 2
  RX = TRUE
SPECIFICATION FairSpec
INVARIANTS TypeOK FilesIntact
PROPERTY SentMeansReceived TransfersEnd
