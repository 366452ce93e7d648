-------------------------------- MODULE MCPong --------------------------------
(* The parts of Pong, one at a time: the objects of a level, the states of    *)
(* the game with keyboard and joysticks, the screen, sound and disk, and the  *)
(* bulk file all of its data come from.                                       *)
EXTENDS PongLevel, PongMenu, PongScreen, BulkFile

VARIABLE part

(* PongLevel: a field a rocket crosses in three frames *)
MCAnims == <<"a1","a2","a3","a4","a5">>
MCRockets == <<"r1","r2">>
MCField == [w |-> 24, h |-> 5, border |-> 3]
MCBat == [w |-> 2, h |-> 4]
MCRocketSize == [w |-> 3, h |-> 2]
MCBall == [x |-> 12, y |-> 3, vx |-> 9, r |-> 1]
MCThrust == [speed |-> 20, acc |-> 0, top |-> 20]
MCBlinks == [round |-> 1, win |-> 2]

(* BulkFile: an index that ends in the middle of a chunk, four files *)
MCIndex == << [name |-> "MENU.TIL", size |-> 6], [name |-> "PONG.SPR", size |-> 3], [name |-> "CREDITS.TIL", size |-> 5], [name |-> "B1.TIL", size |-> 2] >>
MCLoads == { [name |-> "MENU.TIL", at |-> 0], [name |-> "CREDITS.TIL", at |-> 8], [name |-> "PONG.SPR", at |-> 16], [name |-> "B1.TIL", at |-> 0] }

(* PongScreen: three pictures of the level *)
MCPictures ==
  {[batA |-> 1, batB |-> 1, ball |-> 1, scoreA |-> 0, scoreB |-> 10, hidden |-> {}, rocketsA |-> 3, rocketsB |-> 3,
    pool |-> 0, debug |-> 0],
   [batA |-> 1, batB |-> 1, ball |-> 1, scoreA |-> 10, scoreB |-> 9, hidden |-> {}, rocketsA |-> 2, rocketsB |-> 0,
    pool |-> 36, debug |-> 1],
   [batA |-> 1, batB |-> 1, ball |-> 1, scoreA |-> 3, scoreB |-> 4, hidden |-> {"scoreA"}, rocketsA |-> 0, rocketsB |-> 1,
    pool |-> 20, debug |-> 0]}

-----------------------------------------------------------------------------
Parts == {"level", "menu", "screen", "bulk"}

PongPartsInit == part \in Parts /\ PongInit /\ PmInit /\ ScreenInit /\ BulkInit

PongPartsNext ==
    \/ part = "level" /\ PongNext /\ UNCHANGED <<part, pm, sc, bulk>>
    \/ part = "menu" /\ PmNext /\ UNCHANGED <<part, pong, sc, bulk>>
    \/ part = "screen" /\ ScreenNext /\ UNCHANGED <<part, pong, pm, bulk>>
    \/ part = "bulk" /\ BulkNext /\ UNCHANGED <<part, pong, pm, sc>>

PongPartsSpec == PongPartsInit /\ [][PongPartsNext]_<<part, pong, pm, sc, bulk>>

\* From frame to frame and from state to state: the shown bank is not drawn in,
\* and no level begins with a key of the menu still in the flags.
StepsAreClean == [][LiveIsQuiet]_sc /\ [][LevelStartsQuiet]_pm
=============================================================================
