SPECIFICATION ToolsSpec
CONSTANTS
 SPEOF = 6
 DLE = 4
 MaxRun = 5
 Word = 16
 MaxBits = 3
 Octet = 8
 SqFiles <- MCSqFiles
 DirSlots = 5
 SqzDirs <- MCDirs
 SqzPatterns <- MCNamePatterns
 Counts = {0, 1}
 DiskFull = {TRUE, FALSE}
 SqzCommands = 4
 Disk <- MCDisk
 Parent <- MCParent
 NameLen <- MCNameLen
 Extension <- MCExtension
 CutNames <- MCCut
 ExPath = "COMMANDS"
 Configs <- MCConfigs
 EolLen = 2
 MaxActions = 3
 OldActions <- MCOld
 Slots = 4
 Height = 2
 PageStep = 2
 NameRoom = 12
 Words = 10
 Names = {"a", "b"}
 Contents <- MCContents
 Modes <- MCModes
 Chunks <- MCChunks
 Sizes = {1, 2}
 Offsets <- MCOffsets
 MaxLength = 3
 Patterns <- MCGrepPatterns
 Flags <- MCFlags
 Texts <- MCTexts
 MaxFiles = 2
 LMAX = 7
 PMAX = 18
 Inputs <- MCInputs
 Options <- MCOptions
 KeyLists <- MCKeys
 LINES = 5
 MAXKEYS = 2
 MAXLINE = 8
 IntValues = 65536
 PadKeys <- MCPadKeys
 InputMap <- MCInputMap
 PadPackets <- MCPadPackets
 PressedSlots = 2
 PadWidth = 3
 PadHeight = 2
 Step = 1
 PosMax = 1
 Colours = 2
 MaxEvents = 2
INVARIANTS SqueezeSound DataKeepsItsName BrowserSound  GrepSound SortSound 
PROPERTIES  ToolsEnd
CHECK_DEADLOCK FALSE
