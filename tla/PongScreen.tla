------------------------------ MODULE PongScreen -----------------------------
(***************************************************************************)
(* The screen of PONG and its way in and out of the machine               *)
(* (Contributions/Valen/c_programs/src/pong): the two banks of sprite      *)
(* registers, one shown while the other is drawn; the video memory that    *)
(* tiles, credits and FLOS's font share; the memory bank at 8000H, where    *)
(* the program runs and where sound code and samples are switched in; the   *)
(* interrupt vector, taken from FLOS and given back.                         *)
(* The program is a list of small steps, todo.  A step that is a C function *)
(* puts the steps of its body in front of what follows it.                  *)
(***************************************************************************)
EXTENDS Naturals, Sequences, FiniteSets

CONSTANTS
  Pictures     \* what a frame of the level may show

VARIABLE sc

Objects == {"batA", "batB", "ball", "scoreA", "scoreB", "rocketsA", "rocketsB", "pool", "debug"}

\* A score is ten at the most and is hidden now and then, a player has three
\* rockets at the most; animations ask for any number of sprites.
ASSUME PicturesAssumption ==
  Pictures \subseteq [batA : 0..1, batB : 0..1, ball : 0..1, scoreA : 0..10, scoreB : 0..10,
                      hidden : SUBSET {"scoreA", "scoreB"},
                      rocketsA : 0..3, rocketsB : 0..3, pool : Nat, debug : 0..1]

Nothing == [o \in Objects |-> 0]
MenuPicture == [o \in Objects \cup {"hidden"} |-> IF o = "hidden" THEN {"scoreA", "scoreB"} ELSE 0]
Registers == 0..63
Cleared == [r \in Registers |-> "zero"]

\* sprites.h, pool_sprites.h: the first register of an object's sprites.
FirstSprite ==
  [batA |-> 0, batB |-> 1, ball |-> 3, scoreA |-> 4, scoreB |-> 6, rocketsA |-> 8,
   rocketsB |-> 11, pool |-> 14, debug |-> 14 + 35 + 1]
PoolSprites == 35

\* background.h, pong.h, in pages of 4K: the area of FLOS, where it is kept, and
\* where the tiles of the screens start; 345 tiles of 256 bytes fill 22 chunks.
FlosPages   == 16..31
StoreAt     == 96
CreditsAt   == 22
TileChunks  == 22
Pages       == 0..(CreditsAt + TileChunks - 1) \cup StoreAt..(StoreAt + 15)
Page(what, n) == [what |-> what, page |-> n]

-----------------------------------------------------------------------------
(* sprites.c, pool_sprites.c, obj_score.c, debug.c: drawing *)

Live(s) == IF "live" \in s.control THEN 1 ELSE 0

\* Game_SetReg_SprCtrl writes the register and its copy; only the bank changes.
SetLive(s, b) == [s EXCEPT !.control = (@ \ {"live"}) \cup (IF b = 1 THEN {"live"} ELSE {})]

Game_EnableMatteMode(s, on) == [s EXCEPT !.control = IF on THEN @ \cup {"matte"} ELSE @ \ {"matte"}]

clear_sprite_regs(s) == [s EXCEPT !.regs = [b \in 0..1 |-> Cleared], !.drawn = [b \in 0..1 |-> Nothing]]

\* A slip: one byte in two of the registers is cleared.
clear_shadow_halfway(s) ==
  [s EXCEPT !.regs[s.shadow] = [r \in Registers |-> IF r < 32 THEN "zero" ELSE @[r]],
            !.drawn[s.shadow] = Nothing]

clear_shadow_sprite_regs(s) ==
  [s EXCEPT !.regs[s.shadow] = Cleared, !.drawn[s.shadow] = Nothing]

\* A slip: a sprite goes to the bank that is shown.
set_sprite_regs_live(s, o, count) ==
  [s EXCEPT !.regs[Live(s)] =
     [r \in Registers |-> IF r \in FirstSprite[o]..(FirstSprite[o] + count - 1) THEN o ELSE @[r]]]

\* A sprite goes to the shadow bank.
set_sprite_regs(s, o, count) ==
  [s EXCEPT !.regs[s.shadow] =
     [r \in Registers |-> IF r \in FirstSprite[o]..(FirstSprite[o] + count - 1) THEN o ELSE @[r]]]

\* The pool gives the numbers it has, and no more.
PoolSprites_AllocateSpriteNumber(asked) == IF asked > PoolSprites THEN PoolSprites ELSE asked

\* The digits of the score, and none while it blinks.
GameObjScore_draw_score(picture, o) ==
  IF o \in picture.hidden THEN 0 ELSE IF picture[o] < 10 THEN 1 ELSE 2

GameObjScore_Draw_PlayerRocketsIndicator(picture, o) == picture[o]

SpritesOf(picture) ==
  [o \in Objects |->
    CASE o \in {"scoreA", "scoreB"} -> GameObjScore_draw_score(picture, o)
      [] o \in {"rocketsA", "rocketsB"} -> GameObjScore_Draw_PlayerRocketsIndicator(picture, o)
      [] o = "pool" -> PoolSprites_AllocateSpriteNumber(picture[o])
      [] OTHER -> picture[o]]

DrawOrder == <<"batA", "batB", "ball", "scoreA", "rocketsA", "scoreB", "rocketsB", "pool", "debug">>

DrawPicture(s, picture) ==
  LET p == SpritesOf(picture)
      after[i \in 0..9] == IF i = 0 THEN s ELSE set_sprite_regs(after[i - 1], DrawOrder[i], p[DrawOrder[i]])
  IN [after[9] EXCEPT !.drawn[s.shadow] = p]

-----------------------------------------------------------------------------
(* low_memory_container.c, sound_fx.c: the sound code lives in its own bank. *)

InMusicBank == << <<"di">>, <<"bank", "music">>, <<"call">>, <<"bank", "pong">>, <<"ei">> >>

Music_InitTracker          == InMusicBank
Music_PlayTracker          == InMusicBank
Music_UpdateSoundHardware  == InMusicBank
Music_SetForceSampleBase   == InMusicBank
Sound_AddFxDesc            == InMusicBank
MUSIC_Silence              == Music_InitTracker \o Music_UpdateSoundHardware
MUSIC_Init                 == Music_SetForceSampleBase \o Music_InitTracker
Sound_PlayFx(s)            == IF s.fx THEN InMusicBank ELSE <<>>
Sound_NewFx(s)             == IF s.fx THEN InMusicBank ELSE <<>>

RECURSIVE Sound_InitFx(_)
Sound_InitFx(n) == IF n = 0 THEN <<>> ELSE Sound_AddFxDesc \o Sound_InitFx(n - 1)

\* FLOS switches the bank of the data in while it loads them.
LoadFile(bank) == << <<"in", bank>>, <<"out">> >>

Sound_LoadSoundCode     == LoadFile("music")
Sound_LoadSounds        == LoadFile("samples")
Sound_LoadFxDescriptors == LoadFile("music")

\* The header into the program, the patterns beside the sound code, the samples
\* into audio memory; the size of the file has to be found first.
Mod_LoadMusicModule == << <<"size">> >> \o LoadFile("pong") \o LoadFile("music") \o LoadFile("samples")

-----------------------------------------------------------------------------
(* background.c, loading_icon.c, sprites.c, data_loader.c: loading *)

TileMap_Clear(s) == [s EXCEPT !.map = "clear"]

Background_InitTilemap(s, map) == [s EXCEPT !.map = map]

\* A chunk of 4K at a time, by way of a buffer.
Background_LoadTiles(what, at) == << <<"size">>, <<"tiles", what, at, 0>> >>

TilesChunk(s, what, at, n) ==
  IF n = TileChunks THEN s
  ELSE [s EXCEPT !.todo = LoadFile("pong") \o << <<"tile", what, at, n>>, <<"tiles", what, at, n + 1>> >> \o @]

Sprites_LoadSprites == << <<"size">> >> \o LoadFile("pong")

\* The icon takes over the bank that is shown, wherever the frame had come to.
LoadingIcon_Enable(s) ==
  LET clean == clear_sprite_regs(SetLive([s EXCEPT !.shadow = 0], 0)) IN
  [clean EXCEPT !.regs[0] = [r \in Registers |-> IF r < 3 THEN "icon" ELSE "zero"]]

LoadingIcon_LoadSprites == LoadFile("pong")
LoadingIcon_Load == LoadingIcon_LoadSprites \o LoadFile("pong")

Game_LoadSinTable == LoadFile("pong")
Util_LoadPalette  == LoadFile("pong")

MenuTiles == Background_LoadTiles("menu", 0) \o Background_LoadTiles("credits", CreditsAt)

LoadDataSteps(to) ==
  << <<"map", "clear">>, <<"icon">> >>
  \o (IF to = "MENU" THEN MenuTiles ELSE Background_LoadTiles("level", 0) \o Sprites_LoadSprites)
  \o Mod_LoadMusicModule \o MUSIC_Init
  \o << <<"no icon">> >> \o Util_LoadPalette \o << <<"map", "main">> >>

ResetShadow(s) == [s EXCEPT !.shadow = 0]

\* Out of the credits the data of the menu are still there.
SetStateSteps(s, to) ==
  LET entered == Game_EnableMatteMode([s EXCEPT !.state = to, !.music = to = "MENU", !.fx = to = "LEVEL"],
                                      to = "MENU")
      loads == CASE to = "LEVEL" -> MUSIC_Silence \o LoadDataSteps("LEVEL")
                 [] to = "MENU" /\ s.state = "LEVEL" -> MUSIC_Silence \o LoadDataSteps("MENU")
                 [] to = "MENU" /\ s.state = "STARTUP" -> LoadDataSteps("MENU")
                 [] OTHER -> << <<"map", "main">> >>
  IN CASE to = "CREDITS" -> Background_InitTilemap([s EXCEPT !.state = to], "credits")
       [] to = "STARTUP" -> TileMap_Clear([s EXCEPT !.state = to])
       [] OTHER -> [entered EXCEPT !.todo = loads \o << <<"initialize">> >> \o @]

-----------------------------------------------------------------------------
(* background.c, keyboard.c, disk_io.c: taking the machine and giving it back *)

Game_StoreFLOSVIdeoRam(s) ==
  [s EXCEPT !.vram = [p \in Pages |-> IF p >= StoreAt THEN @[p - StoreAt + 16] ELSE @[p]]]

Game_RestoreFLOSVIdeoRam(s) ==
  [s EXCEPT !.vram = [p \in Pages |-> IF p \in FlosPages THEN @[p - 16 + StoreAt] ELSE @[p]]]

install_irq_handler == << <<"di">>, <<"take">>, <<"ei">> >>
deinstall_irq_handler == << <<"di">>, <<"give">>, <<"ei">> >>

initgraph(s) == [clear_sprite_regs(s) EXCEPT !.control = {"enable", "double"}]

\* The display of FLOS comes with its interrupt vector and clear sprites.
FLOS_FlosDisplay(s) == [clear_sprite_regs(s) EXCEPT !.control = {}, !.vector = "flos", !.irq = TRUE]

ShowDiskErrorAndStopProgramExecution ==
  << <<"flos display">>, <<"restore">>, <<"message">> >> \o deinstall_irq_handler \o << <<"exit", "flos">> >>

Handle_Resource_Error == ShowDiskErrorAndStopProgramExecution

\* The data file's index is read, and nobody asks whether it could be.
main ==
  << <<"store">> >> \o LoadFile("pong")
  \o << <<"initgraph">>, <<"state", "STARTUP">> >>
  \o LoadingIcon_Load \o Game_LoadSinTable
  \o Sound_LoadSoundCode \o Sound_LoadSounds \o Sound_LoadFxDescriptors \o Sound_InitFx(16)
  \o install_irq_handler
  \o << <<"state", "MENU">>, <<"play">> >>

Do(s, op) ==
  CASE op[1] = "di"       -> [s EXCEPT !.irq = FALSE]
    [] op[1] = "ei"       -> [s EXCEPT !.irq = TRUE]
    [] op[1] = "bank"     -> [s EXCEPT !.bank = op[2]]
    [] op[1] = "in"       -> [s EXCEPT !.bank = op[2], !.disk = TRUE]
    [] op[1] = "out"      -> [s EXCEPT !.bank = "pong", !.disk = FALSE]
    [] op[1] = "store"    -> Game_StoreFLOSVIdeoRam(s)
    [] op[1] = "restore"  -> Game_RestoreFLOSVIdeoRam(s)
    [] op[1] = "initgraph" -> initgraph(s)
    [] op[1] = "take"     -> [s EXCEPT !.original = s.vector, !.vector = "pong"]
    [] op[1] = "give"     -> [s EXCEPT !.vector = s.original]
    [] op[1] = "flos display" -> FLOS_FlosDisplay(s)
    [] op[1] = "map"      -> [s EXCEPT !.map = op[2]]
    [] op[1] = "icon"     -> LoadingIcon_Enable(s)
    [] op[1] = "no icon"  -> clear_sprite_regs(s)
    [] op[1] = "tiles"    -> TilesChunk(s, op[2], op[3], op[4])
    [] op[1] = "tile"     -> [s EXCEPT !.vram[op[3] + op[4]] = Page(op[2], op[4])]
    [] op[1] = "state"    -> SetStateSteps(s, op[2])
    [] op[1] = "initialize" -> ResetShadow(s)
    [] op[1] = "flip"     -> SetLive(s, 1 - s.shadow)
    [] op[1] = "clear"    -> clear_shadow_sprite_regs(s)
    [] op[1] = "draw"     -> DrawPicture(s, op[2])
    [] op[1] = "end"      -> [s EXCEPT !.shadow = 1 - @]
    [] op[1] = "play"     -> [s EXCEPT !.playing = TRUE]
    [] op[1] = "exit"     -> [s EXCEPT !.pc = op[2]]
    [] OTHER              -> s            \* the sound code, the size of a file, the message

Ready == sc.pc = "running" /\ sc.todo # <<>>
Now == Head(sc.todo)

Step == Ready /\ sc' = Do([sc EXCEPT !.todo = Tail(@)], Now)

\* A load fails: the program says so and ends; only the index may be missing.
FileFails ==
  /\ Ready /\ Now[1] = "in" /\ sc.control # {}
  /\ sc' = [sc EXCEPT !.todo = Handle_Resource_Error]

\* A file is not there: the change of state fails.  The first one ends as an
\* error does, a later one ends the game, as ESC does.
SizeFails ==
  /\ Ready /\ Now[1] = "size"
  /\ sc' = [sc EXCEPT !.todo = IF sc.playing THEN << <<"exit", "reboot">> >>
                               ELSE ShowDiskErrorAndStopProgramExecution]

\* What a frame may ask for: another state, or a new ball.
Requests(s) ==
  { << >> } \cup (CASE s.state = "MENU" -> { << <<"state", "LEVEL">> >>, << <<"state", "CREDITS">> >> }
             [] s.state = "CREDITS" -> { << <<"state", "MENU">> >> }
             [] s.state = "LEVEL" -> IF s.music THEN { << <<"state", "MENU">> >> } ELSE { << <<"initialize">> >> }
             [] OTHER -> {})

\* Game_Play, a turn of the loop; a level that is won has music.
Game_Play(picture, request, fx, won) ==
  /\ sc.pc = "running" /\ sc.todo = <<>>
  /\ picture = MenuPicture <=> sc.state # "LEVEL"
  /\ request \in Requests(sc)
  /\ won => sc.fx
  /\ LET s == IF won THEN [sc EXCEPT !.fx = FALSE, !.music = TRUE] ELSE sc IN
     sc' = [s EXCEPT !.todo =
              << <<"flip">>, <<"clear">> >> \o Sound_PlayFx(sc) \o (IF fx THEN Sound_NewFx(s) ELSE <<>>)
              \o << <<"draw", picture>> >>
              \o (IF request = << <<"initialize">> >> THEN request ELSE <<>>)
              \o (IF s.music THEN Music_PlayTracker \o Music_UpdateSoundHardware ELSE <<>>)
              \o (IF request = << <<"initialize">> >> THEN <<>> ELSE request)
              \o << <<"end">> >>]

Game_Exit ==
  /\ sc.pc = "running" /\ sc.todo = <<>>
  /\ sc' = [sc EXCEPT !.pc = "reboot"]

ScreenStart ==
  [pc |-> "running", todo |-> main, playing |-> FALSE, state |-> "LEVEL", control |-> {},
   shadow |-> 0, regs |-> [b \in 0..1 |-> Cleared], drawn |-> [b \in 0..1 |-> Nothing],
   music |-> FALSE, fx |-> FALSE, bank |-> "pong", disk |-> FALSE, irq |-> TRUE,
   vector |-> "flos", original |-> "unset", map |-> "flos",
   vram |-> [p \in Pages |-> IF p \in FlosPages THEN Page("flos", p) ELSE Page("free", 0)]]

ScreenInit == sc = ScreenStart

ScreenNext ==
  \/ Step \/ FileFails \/ SizeFails \/ Game_Exit
  \/ \E p \in Pictures \cup {MenuPicture}, r \in Requests(sc), fx \in BOOLEAN, won \in BOOLEAN :
       Game_Play(p, r, fx, won)

ScreenSpec == ScreenInit /\ [][ScreenNext]_sc

-----------------------------------------------------------------------------
(* Properties *)

Loading == \E r \in Registers : sc.regs[Live(sc)][r] = "icon"

\* The bank that is shown holds one frame, the whole of it and nothing of the
\* frame that was drawn there before: each object has its number of sprites, no
\* two objects share a register, and animations stop at the end of their pool.
ShownIsWhole ==
  LET shown == sc.regs[Live(sc)] IN
  Loading \/ \A o \in Objects : Cardinality({r \in Registers : shown[r] = o}) = sc.drawn[Live(sc)][o]

\* Nothing is drawn where the eye sees it, whatever a new ball or a change of
\* state did to the number of the shadow bank in the middle of a frame: the
\* shown bank changes only when it is cleared for good or given the icon.
LiveIsQuiet ==
  sc'.regs[Live(sc)] # sc.regs[Live(sc)] =>
       sc'.regs[1] = Cleared /\ sc'.regs[0] \in {Cleared, LoadingIcon_Enable(sc).regs[0]}

\* The background never shows tiles half loaded, nor those of another screen.
NothingHalfLoadedShown ==
  /\ sc.map = "main" => \E what \in {"menu", "level"} : \A n \in 0..(TileChunks - 1) : sc.vram[n] = Page(what, n)
  /\ sc.map = "credits" => \A n \in 0..(TileChunks - 1) : sc.vram[CreditsAt + n] = Page("credits", n)

\* The matte mode belongs to the menu and its credits, and turning the banks over
\* frame by frame does not lose it, nor the sprites themselves.
ControlKept ==
  (sc.pc = "running" /\ sc.playing /\ sc.control # {}) =>
    {"enable", "double"} \subseteq sc.control /\ ("matte" \in sc.control <=> sc.state # "LEVEL")

\* An interrupt finds its handler: with the program's handler in the vector, the
\* program's bank is at 8000H whenever interrupts are enabled, except while FLOS
\* loads a file into another bank, which happens with interrupts enabled.
HandlerReachable ==
  (sc.vector = "pong" /\ sc.irq /\ sc.pc = "running" /\ ~sc.disk) => sc.bank = "pong"

\* The error message can be read: FLOS gets its font back, from memory that no
\* tile has been loaded over.
FontGivenBack ==
  sc.pc = "flos" \/ (sc.todo # <<>> /\ Now[1] = "message") => \A p \in FlosPages : sc.vram[p] = Page("flos", p)

\* "Gracefully exits to FLOS" (pong.c): FLOS has its interrupt handler back.
GracefulExit == sc.pc = "flos" => sc.vector = "flos"

\* The eye never sees half a frame or half a picture, and an interrupt or the
\* way out never finds a bank or a font that is not there.
ScreenSound == ShownIsWhole /\ NothingHalfLoadedShown /\ ControlKept /\ HandlerReachable /\ FontGivenBack
=============================================================================
