SPECIFICATION GamesSpec
CONSTANTS
 Lines <- MCLines
 Players = {"lake", "cave", "ship"}
 Actions <- MCActions
 Exits <- MCExits
 InitialLoc <- MCItems
 AutoGet <- MCAutoGet
 Verbs <- MCVerbs
 Nouns <- MCNouns
 Header <- MCHeader
 TreasureItems = {1}
 Typists = {"taker", "rubber"}
 Typed <- MCTyped
 Side = 4
 MaxHandicap = 1
 LineCells <- MCLineCells
 PlaneCells <- MCPlaneCells
 Diags <- MCDiags
 FreeSide = {0}
 XSIZE = 7
 YSIZE = 7
 Drawings <- MCDrawings
 MaxGen = 6
 MaxRow = 3
 MaxCol = 7
 StartRow = 3
 Boards <- MCBoards
 MaxLevel = 2
INVARIANTS AdventureSound ScottSound  SnakeSound
PROPERTIES OthelloFair LifeIsConways
CHECK_DEADLOCK FALSE
