-------------------------------- MODULE Snake --------------------------------
(***************************************************************************)
(* The snake of Contributions/Stefano/textgames/snake.c.  The snake is the   *)
(* array's first length segments, the head last; eating makes it longer by   *)
(* a segment the array happens to hold.  The walls are tested by number,     *)
(* then the grid is read at a place computed from the same numbers, whether   *)
(* the snake is dead or not.                                                 *)
(***************************************************************************)
EXTENDS Integers

CONSTANTS
  MaxRow, MaxCol,   \* maxrow, maxcol: the size of the grid
  StartRow,         \* snake_start_row
  Boards,           \* the grids a level may begin with
  MaxLevel          \* bound: no level is played after this one; 17 is the last
                    \* one whose snake fits into its row in the source

VARIABLE snk

FieldCells == (2..(MaxRow + 1)) \X (2..(MaxCol + 1))
Inside(p) == p \in FieldCells

ASSUME SnakeAssumption ==
  /\ MaxRow \in Nat \ {0} /\ MaxCol \in Nat /\ MaxCol >= 4
  /\ MaxLevel \in Nat \ {0} /\ (MaxCol \div 2) + MaxLevel + 3 <= MaxCol + 1
  /\ StartRow \in 2..(MaxRow + 1)
  /\ Boards \subseteq [FieldCells -> {" ", "X", "o"}]

SteeringKeys == {"q", "a", "o", "p"}
Segments == 0..((MaxLevel + 3) * 2)
Stale == <<0, 0>>
Goal(level) == (level + 3) * 2

Ahead(p, direction) ==
  CASE direction = "p" -> <<p[1], p[2] + 1>>
    [] direction = "o" -> <<p[1], p[2] - 1>>
    [] direction = "q" -> <<p[1] - 1, p[2]>>
    [] direction = "a" -> <<p[1] + 1, p[2]>>

add_segment(s) == [s EXCEPT !.seg[s.length] = Ahead(s.seg[s.length - 1], s.direction)]

\* The snake of a level lies from the middle of its row to the right.  What an
\* earlier snake left in the array beyond it is Stale here, which is nowhere on
\* the board.  Obstacles and food may lie under the snake.
setup_level(s, board) ==
  LET length == s.level + 4 IN
  [s EXCEPT !.length = length, !.direction = "p", !.firstpress = TRUE, !.grid = board,
            !.seg = [i \in Segments |-> IF i < length THEN <<StartRow, (MaxCol \div 2) + i>> ELSE Stale]]

SnakeAtRest ==
  [level |-> 1, length |-> 5, direction |-> "p", firstpress |-> TRUE, over |-> FALSE,
   grid |-> [p \in FieldCells |-> " "], seg |-> [i \in Segments |-> Stale]]

\* Segment 0 goes, the one just added comes in.
MoveOn(s) ==
  LET a == add_segment(s) IN
  [a EXCEPT !.seg = [i \in Segments |-> IF i < a.length THEN a.seg[i + 1] ELSE a.seg[i]]]

SnakeHead(s) == s.seg[s.length - 1]

Hits(s) ==
  \/ ~Inside(SnakeHead(s)) \/ s.grid[SnakeHead(s)] = "X"
  \/ \E i \in 0..(s.length - 2) : s.seg[i] = SnakeHead(s)

\* screen_grid[row - 2 + maxrow * (col - 2)]: a row past the edge is the end of a
\* neighbouring column; before and after the array there may be anything.
OnFood(s) ==
  LET at  == (SnakeHead(s)[1] - 2) + MaxRow * (SnakeHead(s)[2] - 2) IN
  IF at \in 0..(MaxRow * MaxCol - 1) THEN {s.grid[<<(at % MaxRow) + 2, (at \div MaxRow) + 2>>] = "o"}
  ELSE BOOLEAN

\* A slip: the snake grows by two and moves on by one.
EatTwo(s) == add_segment([s EXCEPT !.length = @ + 2])

\* The food stays where it is.
Eat(s) == add_segment([s EXCEPT !.length = @ + 1])

\* The last food of a level is the end of it, even for a snake that has just died.
Fed(s, board) ==
  LET e == Eat(s) IN
  IF e.length = Goal(e.level) THEN setup_level([e EXCEPT !.level = @ + 1], board) ELSE e

\* One turn of the main loop: "none" is no key, "x" leaves the game.  The first
\* turn of a level ends in waiting for a key, and the snake then goes right.
Turn(key, board) ==
  /\ ~snk.over /\ snk.level <= MaxLevel
  /\ LET turned == [snk EXCEPT !.direction = IF key \in SteeringKeys THEN key ELSE @]
         moved  == MoveOn(turned)
         ready  == IF moved.firstpress THEN [moved EXCEPT !.firstpress = FALSE, !.direction = "p"] ELSE moved
     IN \E food \in OnFood(ready) :
          LET fed == IF food THEN Fed(ready, board) ELSE ready IN
          snk' = [fed EXCEPT !.over = (key = "x") \/ Hits(ready)]

\* Another game, if the player wants one.
Another(board) == snk.over /\ snk' = setup_level([snk EXCEPT !.level = 1, !.over = FALSE], board)

SnakeInit == \E board \in Boards : snk = setup_level(SnakeAtRest, board)

SnakeNext ==
  \E board \in Boards :
    (\E key \in SteeringKeys \cup {"none", "x"} : Turn(key, board)) \/ Another(board)

SnakeSpec == SnakeInit /\ [][SnakeNext]_snk

-----------------------------------------------------------------------------
(* Properties *)

Distance(p, q) == LET d(i) == IF p[i] < q[i] THEN q[i] - p[i] ELSE p[i] - q[i] IN d(1) + d(2)

\* A snake that lives is in one piece and inside the walls: each segment is next
\* to the one before it, or on top of it where it has eaten, although a segment
\* gained is whatever the array held; and its head is on nothing but the
\* segments it has gained.
SnakeIsWhole ==
  (~snk.over /\ snk.level <= MaxLevel /\ ~snk.firstpress) =>
    /\ \A i \in 0..(snk.length - 1) : Inside(snk.seg[i])
    /\ \A i \in 1..(snk.length - 1) : Distance(snk.seg[i - 1], snk.seg[i]) <= 1
    /\ snk.grid[SnakeHead(snk)] # "X"
    /\ \A i \in 0..(snk.length - 2) :
         snk.seg[i] = SnakeHead(snk) => \A j \in i..(snk.length - 1) : snk.seg[j] = SnakeHead(snk)

\* The length that ends a level is asked for by equality: it is still ahead
\* of a snake that lives, on every level.
LevelsEnd ==
  (~snk.over /\ snk.level <= MaxLevel) => snk.length \in (snk.level + 4)..(Goal(snk.level) - 1)

\* A snake that lives is whole, on the board, and can still end its level.
SnakeSound == SnakeIsWhole /\ LevelsEnd
=============================================================================
