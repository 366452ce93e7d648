CONSTANTS
  Moves <- SmallMoves
  Buttons = {0, 1}
  Windows <- OneWindow
  MaxPackets = 4
  MaxWire = 6
  MaxLost = 2
  EnableMidPacket = TRUE
SPECIFICATION Spec
INVARIANT DriverKeepsUp
