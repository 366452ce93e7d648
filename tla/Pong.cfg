SPECIFICATION PongPartsSpec
CONSTANTS
 AnimPool <- MCAnims
 RocketPool <- MCRockets
 Slots = 14
 Sprites = 16
 Emeralds = 1
 Field <- MCField
 BatSize <- MCBat
 RocketSize <- MCRocketSize
 Ball <- MCBall
 Thrust <- MCThrust
 Fix = 1
 Bounces = {1}
 BallDying = 0
 BatDying = 1
 Moves = {"up", "down"}
 BangTime = 1
 BlinkTime = 0
 Blinks <- MCBlinks
 MaxScore = 2
 Ammo = 1
 Keys = {"X", "1", "ESC"}
 JoyMoves = {{}, {"fire"}}
 Index <- MCIndex
 Loads <- MCLoads
 IndexSize = 3
 Entries = 20
 Chunk = 4
 Pictures <- MCPictures
INVARIANTS  LoadedFilesIntact StatesAndInputAgree ScreenSound
PROPERTIES StepsAreClean
CHECK_DEADLOCK FALSE
