----------------------------- MODULE PongLevel -----------------------------
(***************************************************************************)
(* A level of PONG (Contributions/Valen/c_programs/src/pong): the ball, the *)
(* two bats, their rockets, the scores and the "you win" animation, which   *)
(* all live in fixed pools and in one list of active objects.  A frame of   *)
(* Game_Play moves every active object in the order of the list, draws them *)
(* in the same order, and lets the watcher start a new round or leave for   *)
(* the menu.  Objects enter and leave the list while it is being walked.    *)
(***************************************************************************)
EXTENDS Integers, Sequences, FiniteSets, SequencesExt

CONSTANTS
  AnimPool, RocketPool,  \* the pools, in the order of their arrays
  Slots,                 \* POOL_OBJ__MAX_OBJECTS
  Sprites,               \* POOL_SPR__MAX_SPRITES
  Emeralds,              \* NUM_EMERLADS
  Field,                 \* [w, h, border]: the field
  BatSize, RocketSize,   \* [w, h]
  Ball,                  \* [x, y, vx, r]: where a ball starts, its speed, its radius
  Thrust,                \* [speed, acc, top]: a rocket, in 1/Fix of a pixel
  Fix,                   \* 256, the fixed point
  Bounces,               \* rand() % 3
  BallDying, BatDying, BangTime, BlinkTime,   \* in frames
  Blinks,                \* [round, win]: after how many blinks of a score they begin: 4, 8
  Moves,                 \* what the players ask of their bats: "up", "down" or neither
  MaxScore, Ammo         \* MAX_SCORE_FOR_LEVEL and the rockets of a level

VARIABLE pong

ASSUME PongAssumption ==
  /\ {Slots, Sprites, Emeralds, Fix, MaxScore, Ammo} \subseteq Nat \ {0}
  /\ Bounces \subseteq Nat
  /\ "up" \in Moves

Nobody == "NULL"
Players == {"A", "B"}
Other(p) == IF p = "A" THEN "B" ELSE "A"
BatOf(p) == IF p = "A" THEN "batA" ELSE "batB"
ScoreOf(p) == IF p = "A" THEN "scoreA" ELSE "scoreB"
BatX(p) == IF p = "A" THEN Field.border - BatSize.w ELSE Field.w - Field.border
AnimSet == ToSet(AnimPool)
RocketSet == ToSet(RocketPool)

-----------------------------------------------------------------------------
(* pool_gameobj.c *)

AddObjToActiveObjects(g, o) ==
  LET free == {i \in 1..Slots : g.active[i] = Nobody} IN
  IF free = {} THEN g
  ELSE [g EXCEPT !.active[CHOOSE i \in free : \A j \in free : i <= j] = o]

RemoveObjFromActiveObjects(g, o) ==
  LET at == {i \in 1..Slots : g.active[i] = o} IN
  IF at = {} THEN g
  ELSE [g EXCEPT !.active[CHOOSE i \in at : \A j \in at : i <= j] = Nobody]

NoRocket == [owner |-> Nobody, x |-> 0, y |-> 0, v |-> 0, anims |-> <<Nobody, Nobody>>]
NoAnim == [count |-> 0, loop |-> FALSE, shown |-> 0]

\* The first object of a pool that is not in use; NULL when all are.
FreeIn(g, pool) ==
  LET free == SelectSeq(pool, LAMBDA o : o \notin g.used) IN
  IF free = <<>> THEN Nobody ELSE Head(free)

AllocateGameObj(g, o) ==
  IF o = Nobody THEN g
  ELSE AddObjToActiveObjects([g EXCEPT !.used = @ \cup {o}], o)

\* What a freed object still holds is not looked at again, and is forgotten here.
FreeGameObj(g, o) ==
  [RemoveObjFromActiveObjects(g, o) EXCEPT
     !.used = @ \ {o},
     !.anim = [a \in AnimSet |-> IF a = o THEN NoAnim ELSE @[a]],
     !.rocket = [r \in RocketSet |-> IF r = o THEN NoRocket ELSE @[r]]]

\* The step one object after the other takes from g, in the order of the list.
ApplyFuncToObjects(f(_, _), g) ==
  LET after[i \in 0..Slots] ==
        IF i = 0 THEN g
        ELSE LET acc == after[i - 1] IN
             IF acc.active[i] = Nobody THEN acc ELSE f(acc, acc.active[i])
  IN after[Slots]

\* An animation: how many sprites a frame of it takes, whether it starts again
\* at its end, and for how many drawn frames it has been shown.
NewAnim(g, count, loop) ==
  LET o == FreeIn(g, AnimPool) IN
  IF o = Nobody THEN g
  ELSE [AllocateGameObj(g, o) EXCEPT !.anim[o] = [count |-> count, loop |-> loop, shown |-> 0]]

-----------------------------------------------------------------------------
(* obj_.c, obj_rocket.c, obj_bat.c *)

\* 80 % of a size, as the multiplier computes it, and the offset of that box.
Box(size) == (13107 * size) \div 16384
BoxOffset(size) == (size - Box(size)) \div 2

\* The vertical offset of the rocket is used for both objects.
Collide(rx, ry, p, by) ==
  LET l1 == rx + BoxOffset(RocketSize.w)
      l2 == BatX(p) + BoxOffset(BatSize.w)
      t1 == ry + BoxOffset(RocketSize.h)
      t2 == by + BoxOffset(RocketSize.h)
  IN /\ t1 + Box(RocketSize.h) >= t2 /\ t1 <= t2 + Box(BatSize.h)
     /\ l1 + Box(RocketSize.w) >= l2 /\ l1 <= l2 + Box(BatSize.w)

Bat_Dying(g, p) ==
  IF g.bat[p].st = "DYING" THEN g
  ELSE NewAnim([g EXCEPT !.bat[p].st = "DYING"], 2, FALSE)

Bat_Move(g, p) ==
  IF g.bat[p].st # "DYING" THEN g
  ELSE [g EXCEPT !.bat[p].t = @ + 1,
                 !.bat[p].st = IF g.bat[p].t >= BatDying THEN "DIE" ELSE @]

Bat_Steer(g, p, dir) ==
  LET y == g.bat[p].y IN
  IF g.bat[p].st # "NORMAL" THEN g
  ELSE CASE dir = "up" /\ y > 0 -> [g EXCEPT !.bat[p].y = y - 1]
         [] dir = "down" /\ y + BatSize.h < Field.h -> [g EXCEPT !.bat[p].y = y + 1]
         [] OTHER -> g

\* A rocket of the pool may have been given to the other bat since it was this one's.
IsCanFireWithRocket(g, p) ==
  LET r == g.bat[p].rocket IN
  /\ r = Nobody \/ r \notin g.used \/ g.rocket[r].owner # p
  /\ g.score[p].ammo # 0

Rocket_Init(g, r, p) ==
  LET first  == NewAnim(g, 1, TRUE)
      second == NewAnim(first, 1, TRUE)
  IN [second EXCEPT !.rocket[r] =
        [owner |-> p, x |-> BatX(p) * Fix, y |-> g.bat[p].y,
         v |-> IF p = "A" THEN Thrust.speed ELSE -Thrust.speed,
         anims |-> <<FreeIn(g, AnimPool), FreeIn(first, AnimPool)>>]]

Bat_Fire(g, p) ==
  LET r == FreeIn(g, RocketPool) IN
  IF g.bat[p].st # "NORMAL" \/ ~IsCanFireWithRocket(g, p) THEN g
  ELSE [(IF r = Nobody THEN g
         ELSE [Rocket_Init(AllocateGameObj(g, r), r, p) EXCEPT !.bat[p].rocket = r])
        EXCEPT !.score[p].ammo = @ - 1]

\* A slip: only one of the two animations of a rocket is freed.
Rocket_FreeOne(g, r) == FreeGameObj(FreeGameObj(g, g.rocket[r].anims[1]), r)

Rocket_Free(g, r) ==
  FreeGameObj(FreeGameObj(FreeGameObj(g, g.rocket[r].anims[1]), g.rocket[r].anims[2]), r)

\* A rocket that has left the screen is freed and then tested all the same.
Rocket_Move(g, r) ==
  LET k     == g.rocket[r]
      right == k.owner = "A"
      mx    == k.x + k.v
      x     == mx \div Fix
      v     == IF (right /\ k.v < Thrust.top) \/ (~right /\ k.v > -Thrust.top)
               THEN k.v + (IF right THEN Thrust.acc ELSE -Thrust.acc) ELSE k.v
      moved == [g EXCEPT !.rocket[r].x = mx, !.rocket[r].v = v]
      gone  == IF x > Field.w \/ x + RocketSize.w < 0 THEN Rocket_Free(moved, r) ELSE moved
      p     == Other(k.owner)
  IN IF g.bat[p].st = "NORMAL" /\ Collide(x, k.y, p, g.bat[p].y) THEN Bat_Dying(gone, p) ELSE gone

\* ai.c: out of the way of a rocket, after the ball, and a shot at the bat it left.
Ai_Update(g) ==
  LET b == g.bat["B"]
      r == g.bat["A"].rocket
      middle == b.y + BatSize.h \div 2
      follow == IF g.ball.y < middle THEN Bat_Steer(g, "B", "up") ELSE g
      along  == IF g.ball.y > follow.bat["B"].y + BatSize.h \div 2
                THEN Bat_Steer(follow, "B", "down") ELSE follow
      y      == along.bat["B"].y
  IN IF /\ r # Nobody /\ r \in g.used
        /\ g.rocket[r].y > b.y /\ g.rocket[r].y < b.y + BatSize.h
        /\ g.rocket[r].x \div Fix > Field.w \div 2
     THEN Bat_Steer(g, "B", "up")
     ELSE IF /\ IsCanFireWithRocket(along, "B") /\ g.ball.vx < 0 /\ g.ball.vy = 0
             /\ g.ball.y > y /\ g.ball.y < y + BatSize.h
          THEN Bat_Fire(along, "B") ELSE along

HandlePlayerInput_Bat(g, dir, fire) ==
  LET a  == Bat_Steer(g, "A", dir["A"])
      fa == IF "A" \in fire THEN Bat_Fire(a, "A") ELSE a
      fb == IF "B" \in fire THEN Bat_Fire(fa, "B") ELSE fa
  IN IF g.one THEN Ai_Update(fb) ELSE Bat_Steer(fb, "B", dir["B"])

-----------------------------------------------------------------------------
(* obj_ball.c, obj_score.c, obj_youwin.c *)

Score_Blink(g, p) ==
  IF g.score[p].st = "BLINKING" THEN g
  ELSE [g EXCEPT !.score[p].st = "BLINKING", !.score[p].off = 0, !.score[p].sw = 0]

Ball_Die(g) ==
  LET loser == {p \in Players : g.score[Other(p)].score >= MaxScore}
      dying == FoldLeft(LAMBDA acc, p : IF p \in loser THEN Bat_Dying(acc, p) ELSE acc,
                        [g EXCEPT !.ball.st = "DIE"], <<"B", "A">>)
  IN Score_Blink(dying, g.blink)

\* The side whose border the ball has come to; Nobody's in the field.
SideOf(x) ==
  CASE x - Ball.r <= Field.border -> "A"
    [] x + Ball.r > Field.w - Field.border -> "B"
    [] OTHER -> Nobody

Caught(g, p, y) == y > g.bat[p].y /\ y < g.bat[p].y + BatSize.h /\ g.bat[p].st = "NORMAL"

\* v is the vertical speed a bat gives to the ball.
Ball_CheckCollision(g, v) ==
  LET p == SideOf(g.ball.x) IN
  CASE p = Nobody -> g
    [] p # Nobody /\ Caught(g, p, g.ball.y) -> [g EXCEPT !.ball.vx = -@, !.ball.vy = v]
    [] OTHER -> [g EXCEPT !.ball.st = "DYING", !.score[Other(p)].score = @ + 1, !.blink = Other(p)]

\* Whether the next move lets a bat choose a speed.
BouncesNext(g) ==
  LET p == SideOf(g.ball.x + g.ball.vx) IN
  g.ball.st = "NORMAL" /\ p # Nobody /\ Caught(g, p, g.ball.y + g.ball.vy)

Ball_Move(g, v) ==
  LET b == g.ball
      y == b.y + b.vy
      one == IF y - Ball.r < 0 THEN -b.vy ELSE b.vy
      two == IF y + Ball.r > Field.h THEN -one ELSE one
  IN CASE b.st = "DYING" ->
            IF b.t >= BallDying THEN Ball_Die([g EXCEPT !.ball.t = @ + 1])
            ELSE [g EXCEPT !.ball.t = @ + 1]
       [] b.st = "NORMAL" ->
            Ball_CheckCollision([g EXCEPT !.ball.x = @ + b.vx, !.ball.y = y, !.ball.vy = two], v)
       [] OTHER -> g

\* The winner's name and the emeralds; the scores stop blinking.
YouWin_StartAnimation(g) ==
  IF g.win.use THEN g
  ELSE LET title == NewAnim([g EXCEPT !.win = [use |-> TRUE, st |-> "NORMAL", gems |-> {}]], 6, TRUE)
           gems  == FoldLeft(LAMBDA acc, i :
                       [NewAnim(acc, 2, TRUE) EXCEPT !.win.gems = @ \cup {FreeIn(acc, AnimPool)}],
                       title, [i \in 1..Emeralds |-> i])
       IN [AddObjToActiveObjects(gems, "win") EXCEPT
             !.score = [p \in Players |-> [@[p] EXCEPT !.st = "NORMAL"]]]

Score_Move(g, p) ==
  LET s == g.score[p]
      turn == s.off > BlinkTime
      sw == IF turn THEN s.sw + 1 ELSE s.sw
      blunk == [g EXCEPT !.score[p].sw = sw, !.score[p].off = IF turn THEN 1 ELSE @ + 1]
  IN IF s.st # "BLINKING" THEN g
     ELSE IF s.score >= MaxScore /\ sw >= Blinks.win THEN YouWin_StartAnimation(blunk) ELSE blunk

IsScoreBlinkedAtLeast(g, n) ==
  \E p \in Players : g.score[p].st = "BLINKING" /\ g.score[p].sw >= n

\* Either player's fire ends the animation.
YouWin_Move(g, fire) == IF fire # {} THEN [g EXCEPT !.win.st = "DIE"] ELSE g

MoveObject(g, o, v, fire) ==
  CASE o = "ball" -> Ball_Move(g, v)
    [] o = "win" -> YouWin_Move(g, fire)
    [] o \in RocketSet -> Rocket_Move(g, o)
    [] o \in {BatOf(p) : p \in Players} -> Bat_Move(g, IF o = "batA" THEN "A" ELSE "B")
    [] o \in {ScoreOf(p) : p \in Players} -> Score_Move(g, IF o = "scoreA" THEN "A" ELSE "B")
    [] OTHER -> g

\* Sprites are handed out by the frame; an animation that gets too few keeps
\* those it got and is not drawn, nor does it advance.
DrawObject(g, o) ==
  LET a == g.anim[o] IN
  IF o \notin AnimSet THEN g
  ELSE IF g.sprites + a.count > Sprites THEN [g EXCEPT !.sprites = Sprites]
  ELSE LET drawn == [g EXCEPT !.sprites = @ + a.count] IN
       IF a.loop THEN drawn
       ELSE IF a.shown + 1 >= BangTime THEN FreeGameObj(drawn, o)
       ELSE [drawn EXCEPT !.anim[o].shown = @ + 1]

-----------------------------------------------------------------------------
(* pong.c *)

\* Game_Initialize: the pools and the list are wiped.
Game_Initialize(g) ==
  [g EXCEPT !.active = [i \in 1..Slots |-> Nobody], !.used = {},
            !.rocket = [r \in RocketSet |-> NoRocket], !.anim = [a \in AnimSet |-> NoAnim],
            !.win = [use |-> FALSE, st |-> "NORMAL", gems |-> {}]]

\* vx is the direction the ball leaves in; its vertical speed, rand() % 1, is 0.
InitializeLevelGameObjects(g, vx) ==
  FoldLeft(AddObjToActiveObjects,
    [g EXCEPT
       !.bat = [p \in Players |-> [y |-> (Field.h - 3) \div 2, st |-> "NORMAL", t |-> 0, rocket |-> Nobody]],
       !.ball = [x |-> Ball.x, y |-> Ball.y, vx |-> vx, vy |-> 0, st |-> "NORMAL", t |-> 0],
       !.score = [p \in Players |-> [@[p] EXCEPT !.st = "NORMAL", !.off = 0, !.sw = 0]]],
    <<"batA", "batB", "ball", "scoreA", "scoreB">>)

StartLevel(g, vx) ==
  InitializeLevelGameObjects(Game_Initialize(
    [g EXCEPT !.mode = "LEVEL",
              !.score = [p \in Players |-> [@[p] EXCEPT !.score = 0, !.ammo = Ammo]]]), vx)

StartMenu(g) == AddObjToActiveObjects(Game_Initialize([g EXCEPT !.mode = "MENU"]), "menu")

LevelWon(g) == \E p \in Players : g.score[p].score >= MaxScore
NewRound(g) == ~LevelWon(g) /\ g.ball.st = "DIE" /\ IsScoreBlinkedAtLeast(g, Blinks.round)

ReInit_Watcher(g, vx) ==
  CASE LevelWon(g) /\ g.win.use /\ g.win.st = "DIE" -> StartMenu(g)
    [] NewRound(g) -> InitializeLevelGameObjects(Game_Initialize(g), vx)
    [] OTHER -> g

Draw(g) == [ApplyFuncToObjects(DrawObject, [g EXCEPT !.sprites = 0]) EXCEPT !.sprites = 0]

Blank == [mode |-> "MENU", one |-> FALSE, active |-> [i \in 1..Slots |-> Nobody], used |-> {},
          rocket |-> [r \in RocketSet |-> NoRocket], anim |-> [a \in AnimSet |-> NoAnim],
          win |-> [use |-> FALSE, st |-> "NORMAL", gems |-> {}], sprites |-> 0, blink |-> "A",
          bat |-> [p \in Players |-> [y |-> 0, st |-> "NORMAL", t |-> 0, rocket |-> Nobody]],
          ball |-> [x |-> 0, y |-> 0, vx |-> 0, vy |-> 0, st |-> "NORMAL", t |-> 0],
          score |-> [p \in Players |-> [st |-> "NORMAL", score |-> 0, ammo |-> 0, off |-> 0, sw |-> 0]]]

PongInit == pong = StartMenu(Blank)

\* One press of fire in the menu; who pressed decides the mode.
PongStart ==
  /\ pong.mode = "MENU"
  /\ \E one \in BOOLEAN, vx \in {Ball.vx, -Ball.vx} : pong' = StartLevel([pong EXCEPT !.one = one], vx)

\* The directions a ball may leave in: rand() is only called where one starts.
Starts(g) == IF NewRound(g) THEN {Ball.vx, -Ball.vx} ELSE {Ball.vx}

Steer(g) == {dir \in [Players -> Moves] : g.one => dir["B"] = "up"}

PongFrame(dir, fire) ==
  /\ pong.mode = "LEVEL"
  /\ LET played == HandlePlayerInput_Bat(pong, dir, fire) IN
     \E v \in IF BouncesNext(played) THEN Bounces \cup {-b : b \in Bounces} ELSE {0} :
       LET drawn == Draw(ApplyFuncToObjects(LAMBDA g, o : MoveObject(g, o, v, fire), played)) IN
       \E vx \in Starts(drawn) : pong' = ReInit_Watcher(drawn, vx)

\* A paused frame draws, and so lets the animations run on.
PongPaused ==
  /\ pong.mode = "LEVEL"
  /\ LET drawn == Draw(pong) IN \E vx \in Starts(drawn) : pong' = ReInit_Watcher(drawn, vx)

PongPlay == \E dir \in Steer(pong), fire \in SUBSET Players : PongFrame(dir, fire)

PongNext == PongStart \/ PongPlay \/ PongPaused

PongSpec == PongInit /\ [][PongNext]_pong

-----------------------------------------------------------------------------
(* Properties *)

\* Shape of the state, and the assertion of draw_score: a score never passes
\* the one that ends the level.
PongTypeOK ==
  /\ pong.mode \in {"MENU", "LEVEL"} /\ pong.used \subseteq AnimSet \cup RocketSet
  /\ \A p \in Players : pong.score[p].score \in 0..MaxScore /\ pong.score[p].ammo \in 0..Ammo
  /\ \A p \in Players : pong.bat[p].y \in 0..(Field.h - BatSize.h)

\* The list of active objects and the in_use marks never part: every object
\* taken from a pool stands in the list exactly once and nothing else of a
\* pool does, although objects are taken and freed while the list is walked.
ListAgreesWithPools ==
  \A o \in AnimSet \cup RocketSet \cup {"win"} :
    Cardinality({i \in 1..Slots : pong.active[i] = o}) =
      IF o \in pong.used \/ (o = "win" /\ pong.win.use) THEN 1 ELSE 0

\* No animation is leaked: each one in use is one of the two of a rocket in
\* flight, or the title or an emerald, or an explosion that still has frames
\* to show; and each belongs to one owner only.
AnimsOwned ==
  LET flying == RocketSet \cap pong.used
      ofRockets == {pong.rocket[r].anims[i] : r \in flying, i \in 1..2}
      looping == {a \in AnimSet \cap pong.used : pong.anim[a].loop}
  IN /\ ofRockets \subseteq looping
     /\ Cardinality(ofRockets) = 2 * Cardinality(flying)
     /\ Cardinality(looping \ ofRockets) = IF pong.win.use THEN Emeralds + 1 ELSE 0
     /\ ofRockets \cap pong.win.gems = {}

\* The pools are large enough for whatever a level asks of them: no rocket and
\* no emerald is left with a null animation, which its move would write
\* through, no draw runs out of sprites.
PoolsSuffice ==
  /\ \A r \in RocketSet \cap pong.used : Nobody \notin ToSet(pong.rocket[r].anims)
  /\ Nobody \notin pong.win.gems
  /\ MapThenSumSet(LAMBDA a : pong.anim[a].count, AnimSet \cap pong.used) <= Sprites

\* A bat never has two rockets in flight, though the rocket it remembers may
\* have been freed and given to the other bat; and a bat out of rockets has
\* fired no more than it was given.
OneRocketEach ==
  \A p \in Players :
    LET mine == {r \in RocketSet \cap pong.used : pong.rocket[r].owner = p} IN
    /\ Cardinality(mine) <= 1
    /\ mine # {} => pong.bat[p].rocket \in mine /\ pong.score[p].ammo < Ammo

\* Objects and the pools they come from: one list, one owner, enough for all,
\* over any order of shots, hits, deaths and frees during a walk of the list.
PoolsSound == PongTypeOK /\ ListAgreesWithPools /\ AnimsOwned /\ PoolsSuffice /\ OneRocketEach
=============================================================================
