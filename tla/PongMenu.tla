------------------------------ MODULE PongMenu ------------------------------
(***************************************************************************)
(* The states of PONG (Contributions/Valen/c_programs/src/pong) and the two *)
(* sources of its input.  The keyboard interrupt sets and clears the flags  *)
(* of the players between any two steps of a frame; the frame reads the     *)
(* joysticks into the same flags, lets the menu or the level ask for a      *)
(* change of state, and carries it out: it loads the data of the new state  *)
(* and starts the keyboard afresh.                                          *)
(* A flag is "off", or "key" or "joy" for who set it; to the program the    *)
(* last two are the same.                                                   *)
(***************************************************************************)
EXTENDS Naturals, Sequences

CONSTANTS
  Keys,        \* the keys of the model, among KeyNames
  JoyMoves     \* what a joystick may report, among the sets of Flags

VARIABLE pm

KeyNames == {"A", "Z", "X", "J", "M", "COMMA", "P", "D", "1", "ESC"}

States == {"STARTUP", "MENU", "CREDITS", "LEVEL"}
None2 == "none"
Flags == {"up", "down", "fire"}
ASSUME PongMenuAssumption == Keys \subseteq KeyNames /\ JoyMoves \subseteq SUBSET Flags
Release == "F0"

\* keyboard_input_map: the player and the flag of a key; SC_P is the pause.
InputMap ==
  [A |-> <<1, "up">>, Z |-> <<1, "down">>, X |-> <<1, "fire">>,
   J |-> <<2, "up">>, M |-> <<2, "down">>, COMMA |-> <<2, "fire">>]

ClearInput == [n \in 1..2 |-> [up |-> "off", down |-> "off", fire |-> "off", type |-> "KEYBOARD"]]
Set(f) == f # "off"
Mapped(k) == k \in DOMAIN InputMap

-----------------------------------------------------------------------------
(* keyboard.c *)

\* A slip: the key typed before is not told.
ReleasedTyped(m, k) ==
  IF Mapped(k) /\ m.prev = k THEN [m EXCEPT !.second = FALSE, !.in[InputMap[k][1]][InputMap[k][2]] = "off"]
  ELSE [m EXCEPT !.second = FALSE]

\* The second byte of a release: the flag of the key falls; a key released
\* right after it was pressed has been typed.
Released(m, k) ==
  LET c == [m EXCEPT !.second = FALSE, !.typed = IF m.prev = k THEN k ELSE @] IN
  IF Mapped(k) THEN [c EXCEPT !.in[InputMap[k][1]][InputMap[k][2]] = "off"]
  ELSE IF k = "P" THEN [c EXCEPT !.pausePressed = FALSE] ELSE c

\* A press takes the player over from the joystick, player 2 only where there is one.
Pressed(m, k) ==
  LET c == [m EXCEPT !.prev = k, !.exit = @ \/ k = "ESC"]
      n == InputMap[k][1]
      f == [c EXCEPT !.in[n][InputMap[k][2]] = "key"]
  IN CASE Mapped(k) -> IF n = 1 \/ ~m.one THEN [f EXCEPT !.in[n].type = "KEYBOARD"] ELSE f
       [] k = "P" -> [c EXCEPT !.pausePressed = TRUE]
       [] OTHER -> c

Keyboard_IRQ_Handler(m, byte) ==
  CASE byte = Release -> [m EXCEPT !.second = TRUE]
    [] byte # Release /\ m.second -> Released(m, byte)
    [] OTHER -> Pressed(m, byte)

\* cut remembers that a release had come half way when the keyboard was started
\* afresh; its second byte will be taken for a press.
Keyboard_Init(m) ==
  [m EXCEPT !.cut = @ \/ m.second, !.second = FALSE, !.prev = None2, !.in = ClearInput]

-----------------------------------------------------------------------------
(* joystick.c: joy[n] is what port n shows, the set of its contacts. *)

SecondJoyNeedsReading(m) == ~m.one \/ m.state \in {"MENU", "CREDITS"}

Joystick_ReadOne(m, n, contacts) ==
  LET type == IF contacts # {} THEN "JOY" ELSE m.in[n].type IN
  IF type # "JOY" THEN m
  ELSE [m EXCEPT !.in[n] = [f \in Flags \cup {"type"} |->
          IF f = "type" THEN "JOY" ELSE IF f \in contacts THEN "joy" ELSE "off"]]

Joystick_GetInput(m, joy) ==
  LET first == Joystick_ReadOne(m, 1, joy[1]) IN
  IF SecondJoyNeedsReading(m) THEN Joystick_ReadOne(first, 2, joy[2]) ELSE first

-----------------------------------------------------------------------------
(* data_loader.c, pong.c *)

\* The rows of gameStateData: what is loaded going from one state to another.
Rows == [to : {"MENU"}, from : {"STARTUP", "LEVEL"}, data : {"menu"}]
        \cup [to : {"LEVEL"}, from : {"MENU"}, data : {"level"}]

\* Tiles, sprites and music, then the palette; TileMap_Clear comes first and
\* Background_InitTilemap(0) last.
DataLoader_LoadData(m, to, from) ==
  LET row == {r \in Rows : r.to = to /\ r.from = from} IN
  IF row = {} THEN m
  ELSE LET r == CHOOSE r \in row : TRUE IN
       [m EXCEPT !.tiles = r.data, !.song = r.data, !.palette = r.data, !.map = "main"]

Game_RequestSetState(m, s) == [m EXCEPT !.request = s]

\* Game_Initialize clears the pause.
Game_SetState(m, s) ==
  LET from  == m.state
      to    == [m EXCEPT !.state = s]
      fresh == [to EXCEPT !.paused = FALSE, !.pausePressed = FALSE, !.debug = FALSE, !.won = FALSE]
      entered ==
        CASE s = "LEVEL" -> DataLoader_LoadData([fresh EXCEPT !.music = FALSE, !.fx = TRUE], s, from)
          [] s = "MENU" ->
               DataLoader_LoadData([fresh EXCEPT !.music = TRUE, !.fx = FALSE,
                                                 !.map = IF from = "CREDITS" THEN "main" ELSE @], s, from)
          [] s = "CREDITS" -> [to EXCEPT !.map = "credits"]
          [] OTHER -> [to EXCEPT !.map = "clear"]
  IN IF s = from THEN m ELSE Keyboard_Init(entered)

Game_HandlePlayerInput_PauseMode(m) ==
  LET p == IF m.pausePressed THEN [m EXCEPT !.pausePressed = FALSE, !.paused = ~@] ELSE m IN
  IF p.typed = "D" THEN [p EXCEPT !.typed = None2, !.debug = ~@, !.paused = ~@] ELSE p

\* obj_gamemenu.c: player 2's fire overrides player 1's, fire overrides the credits.
GameObjGameMenu_Move(m) ==
  LET fires == {n \in 1..2 : Set(m.in[n].fire)}
      credits == IF m.prev = "1" THEN Game_RequestSetState(m, "CREDITS") ELSE m
  IN CASE m.state = "MENU" ->
            IF fires = {} THEN credits
            ELSE [Game_RequestSetState(credits, "LEVEL") EXCEPT
                    !.one = 2 \notin fires,
                    !.in = [n \in 1..2 |-> IF n \in fires THEN [@[n] EXCEPT !.fire = "off"] ELSE @[n]]]
       [] m.state = "CREDITS" ->
            IF m.prev # None2 \/ fires # {} THEN Game_RequestSetState(m, "MENU") ELSE m
       [] OTHER -> m

\* The level is PongLevel's; here it may be won: the winner's animation has music,
\* and ends by a fire.
YouWin_Starts(m) == [m EXCEPT !.won = TRUE, !.music = TRUE, !.fx = FALSE]

Level_Move(m) ==
  IF m.won /\ \E n \in 1..2 : Set(m.in[n].fire) THEN Game_RequestSetState(m, "MENU") ELSE m

PmStart ==
  [state |-> "STARTUP", request |-> None2, one |-> FALSE, paused |-> FALSE, pausePressed |-> FALSE,
   debug |-> FALSE, won |-> FALSE, music |-> FALSE, fx |-> FALSE, tiles |-> None2, song |-> None2,
   palette |-> None2, map |-> "clear", second |-> FALSE, prev |-> None2, typed |-> None2,
   in |-> ClearInput, exit |-> FALSE, cut |-> FALSE, held |-> {}, wire |-> <<>>, pc |-> "input"]

PmInit == pm = Game_SetState(PmStart, "MENU")

Running == pm.pc # "ended"

\* The keyboard sends the code of a key that goes down, or is held, and two
\* bytes for one that comes up.
KeyDown(k) ==
  /\ Running /\ pm.wire = <<>>
  /\ pm' = [pm EXCEPT !.held = @ \cup {k}, !.wire = <<k>>]

KeyUp(k) ==
  /\ Running /\ pm.wire = <<>> /\ k \in pm.held
  /\ pm' = [pm EXCEPT !.held = @ \ {k}, !.wire = <<Release, k>>]

KeyInterrupt ==
  /\ Running /\ pm.wire # <<>>
  /\ pm' = [Keyboard_IRQ_Handler(pm, Head(pm.wire)) EXCEPT !.wire = Tail(@)]

\* The loop ends on request_exit, tested once a frame.
FrameInput(joy) ==
  /\ pm.pc = "input" /\ ~pm.exit
  /\ LET p == Game_HandlePlayerInput_PauseMode(pm) IN
     pm' = [(IF p.paused THEN p ELSE Joystick_GetInput(p, joy)) EXCEPT !.pc = "move"]

FrameMove ==
  /\ pm.pc = "move"
  /\ LET moved == IF pm.paused THEN pm ELSE Level_Move(GameObjGameMenu_Move(pm)) IN
     \E won \in IF pm.state = "LEVEL" /\ ~pm.paused THEN BOOLEAN ELSE {FALSE} :
       pm' = [(IF won THEN YouWin_Starts(moved) ELSE moved) EXCEPT !.pc = "state"]

FrameState ==
  /\ pm.pc = "state"
  /\ pm' = [(IF pm.request = None2 THEN pm
             ELSE Game_SetState([pm EXCEPT !.request = None2], pm.request)) EXCEPT !.pc = "input"]

\* Data that cannot be loaded end the program.
LoadFails ==
  /\ pm.pc = "state" /\ pm.request # None2
  /\ \E r \in Rows : r.to = pm.request /\ r.from = pm.state
  /\ pm' = [PmStart EXCEPT !.pc = "ended"]

Leave2 == pm.pc = "input" /\ pm.exit /\ pm' = [PmStart EXCEPT !.pc = "ended"]

PmNext ==
  \/ \E k \in Keys : KeyDown(k) \/ KeyUp(k)
  \/ KeyInterrupt
  \/ \E joy \in [1..2 -> JoyMoves] : FrameInput(joy)
  \/ FrameMove \/ FrameState \/ LoadFails \/ Leave2

PmSpec == PmInit /\ [][PmNext]_pm

-----------------------------------------------------------------------------
(* Properties *)

\* Whatever the way a state was reached, its data are in memory and on the
\* screen: only three of the changes load anything, the credits share the
\* data of the menu, and coming back from them only the map is rebuilt.
DataMatchesState ==
  Running =>
    LET data == IF pm.state = "LEVEL" THEN "level" ELSE "menu" IN
    /\ pm.tiles = data /\ pm.song = data /\ pm.palette = data
    /\ pm.map = IF pm.state = "CREDITS" THEN "credits" ELSE "main"
    /\ pm.music = ~pm.fx /\ (pm.state # "LEVEL" \/ pm.won <=> pm.music)

\* A flag the keyboard has set stands for a key that is down, or whose release
\* is on its way, unless a change of state cut a release in two: after that a
\* player may fire without a finger on the keys.
KeysBacked ==
  ~pm.cut => \A k \in DOMAIN InputMap :
    pm.in[InputMap[k][1]][InputMap[k][2]] = "key" =>
      k \in pm.held \/ k \in {pm.wire[i] : i \in DOMAIN pm.wire}

\* In a game of one player the second joystick moves nothing, although the
\* menu reads it and the choice of the mode comes after that reading.
OnePlayerIsAlone ==
  (Running /\ pm.state = "LEVEL" /\ pm.one) =>
    pm.in[2].type = "KEYBOARD" /\ \A f \in Flags : pm.in[2][f] # "joy"

\* A level is entered with the flags down: the fire that chose it fires no rocket.
LevelStartsQuiet ==
  pm.state # "LEVEL" /\ pm'.state = "LEVEL" =>
       \A n \in 1..2, f \in Flags : ~Set(pm'.in[n][f])

\* States, their data and the input agree, however keys, joysticks and changes
\* of state fall together.
StatesAndInputAgree == DataMatchesState /\ KeysBacked /\ OnePlayerIsAlone
=============================================================================
