CONSTANTS
  Files = {"long", "short"}
  Length <- MCLength
  Room <- MCRoom
  Bytes = 2
  MaxFaults = 1
  RX = TRUE
SPECIFICATION SpecToHost
PROPERTY HostEventuallyReceives
