-------------------------------- MODULE Life --------------------------------
(***************************************************************************)
(* life (Contributions/Stefano): Conway's game in an array of cells, of     *)
(* which only a box around the living ones is looked at; the box grows,     *)
(* shrinks, and is moved back to the middle when it touches an edge.        *)
(* A cell is 0 dead, 1 being born, 2 alive, 3 dying.                        *)
(***************************************************************************)
EXTENDS Integers, Sequences, FiniteSets

CONSTANTS
  XSIZE, YSIZE,  \* rows and columns of the array
  Drawings,      \* what may be typed: sequences of lines, a line being a
                 \* sequence of BOOLEAN, TRUE for anything but a blank
  MaxGen         \* bound: a game is watched for this many generations

VARIABLE life

ASSUME LifeAssumption == {XSIZE, YSIZE, MaxGen} \subseteq Nat /\ XSIZE > 4 /\ YSIZE > 4

Rows == 0..XSIZE - 1
Columns == 0..YSIZE - 1
adj == <<<<-1, -1>>, <<-1, 0>>, <<-1, 1>>, <<0, -1>>, <<0, 1>>, <<1, -1>>, <<1, 0>>, <<1, 1>>>>

CellAt(w, i, j) == w.cell[i * YSIZE + j]
Clear == [cell |-> [k \in 0..XSIZE * YSIZE - 1 |-> 0], minx |-> 0, maxx |-> 0, miny |-> 0, maxy |-> 0,
          pop |-> 0, gen |-> 0, phase |-> "setup"]

-----------------------------------------------------------------------------
\* setup: the lines as far as they fit; the box begins in the corner.
Setup(lines) ==
  LET height == IF Len(lines) < XSIZE THEN Len(lines) ELSE XSIZE
      Width(i) == IF Len(lines[i]) < YSIZE THEN Len(lines[i]) ELSE YSIZE
      on == {p \in Rows \X Columns : /\ p[1] < height /\ p[2] < Width(p[1] + 1)
                                     /\ lines[p[1] + 1][p[2] + 1]}
      last == {0} \cup {Width(i) - 1 : i \in 1..height}
  IN [Clear EXCEPT !.cell = [k \in DOMAIN @ |-> IF <<k \div YSIZE, k % YSIZE>> \in on THEN 2 ELSE 0],
                   !.pop = Cardinality(on), !.maxx = height - 1,
                   !.maxy = CHOOSE y \in last : \A z \in last : z <= y]

\* pcol, prow: is anything in a line, as far as the box and one cell around it goes?
pcol(w, n) == LET hi == IF w.maxx = XSIZE - 1 THEN w.maxx ELSE w.maxx + 1
              IN \E i \in (IF w.minx > 0 THEN w.minx - 1 ELSE 0)..hi : CellAt(w, i, n) # 0
prow(w, n) == LET hi == IF w.maxy = YSIZE - 1 THEN w.maxy ELSE w.maxy + 1
              IN \E j \in (IF w.miny > 0 THEN w.miny - 1 ELSE 0)..hi : CellAt(w, n, j) # 0

\* The first half of display lets the box grow by a line on each side ...
Grow(w0) ==
  LET w1 == IF w0.minx > 0 /\ prow(w0, w0.minx - 1) THEN [w0 EXCEPT !.minx = @ - 1] ELSE w0
      w2 == IF w1.miny > 0 /\ pcol(w1, w1.miny - 1) THEN [w1 EXCEPT !.miny = @ - 1] ELSE w1
      w3 == IF w2.maxx < XSIZE - 1 /\ prow(w2, w2.maxx + 1) THEN [w2 EXCEPT !.maxx = @ + 1] ELSE w2
  IN IF w3.maxy < YSIZE - 1 /\ pcol(w3, w3.maxy + 1) THEN [w3 EXCEPT !.maxy = @ + 1] ELSE w3

Least(S) == CHOOSE x \in S : \A y \in S : x <= y
Greatest(S) == CHOOSE x \in S : \A y \in S : x >= y

\* ... and then draws in the lines that have nothing in them.
Shrink(w0) ==
  LET w1 == [w0 EXCEPT !.minx = Least({n \in w0.minx..XSIZE - 1 : prow(w0, n)})]
      w2 == [w1 EXCEPT !.maxx = Greatest({n \in 0..w1.maxx : prow(w1, n)})]
      w3 == [w2 EXCEPT !.miny = Least({n \in w2.miny..YSIZE - 1 : pcol(w2, n)})]
  IN [w3 EXCEPT !.maxy = Greatest({n \in 0..w3.maxy : pcol(w3, n)})]

InBox(w, k) == k \div YSIZE \in w.minx..w.maxx /\ k % YSIZE \in w.miny..w.maxy

\* What is drawn is settled: the born live, the dying are dead.
display(w0) ==
  LET w == Shrink(Grow(w0))
  IN [w EXCEPT !.gen = @ + 1,
               !.cell = [k \in DOMAIN @ |-> IF ~InBox(w, k) THEN @[k] ELSE CASE @[k] = 1 -> 2 [] @[k] = 3 -> 0 [] OTHER -> @[k]]]

-----------------------------------------------------------------------------
Wrapped(a, b) == IF a < 0 THEN b + a ELSE IF a < b THEN a ELSE a - b

Big(w) == w.minx < 2 \/ w.maxx > XSIZE - 3 \/ w.miny < 2 \/ w.maxy > YSIZE - 3

\* friends: near an edge the parentheses of the code do something else than wrap.
Friend(w, big, i, j, d) ==
  LET value == IF big THEN w.cell[Wrapped(i + d[1], XSIZE)] * YSIZE + Wrapped(j + d[2], YSIZE)
               ELSE CellAt(w, i + d[1], j + d[2])
  IN value % 4 >= 2
Friends(w, big, i, j) == Cardinality({n \in DOMAIN adj : Friend(w, big, i, j, adj[n])})

\* A slip: a new cell is alive at once.
StepCellBorn(w, big, i, j) ==
  LET friends == Friends(w, big, i, j)  k == i * YSIZE + j
  IN IF w.cell[k] >= 2
     THEN IF friends < 2 \/ friends > 3 THEN [w EXCEPT !.cell[k] = 3, !.pop = @ - 1] ELSE w
     ELSE IF friends = 3 THEN [w EXCEPT !.cell[k] = 2, !.pop = @ + 1] ELSE w

StepCell(w, big, i, j) ==
  LET friends == Friends(w, big, i, j)  k == i * YSIZE + j
  IN IF w.cell[k] >= 2
     THEN IF friends < 2 \/ friends > 3 THEN [w EXCEPT !.cell[k] = 3, !.pop = @ - 1] ELSE w
     ELSE IF friends = 3 THEN [w EXCEPT !.cell[k] = 1, !.pop = @ + 1] ELSE w

\* dogen: the cells of the box and around it, one after the other in the same array.
dogen(w) ==
  LET top == IF w.minx > 0 THEN w.minx - 1 ELSE 0
      left == IF w.miny > 0 THEN w.miny - 1 ELSE 0
      i2 == IF w.maxx = XSIZE - 1 THEN w.maxx ELSE w.maxx + 1
      j2 == IF w.maxy = YSIZE - 1 THEN w.maxy ELSE w.maxy + 1
      width == j2 - left + 1
      after[n \in 0..(i2 - top + 1) * width] ==
        IF n = 0 THEN w ELSE StepCell(after[n - 1], Big(w), top + ((n - 1) \div width), left + ((n - 1) % width))
  IN after[(i2 - top + 1) * width]

-----------------------------------------------------------------------------
\* The rows from..to of the box begin at first; what was there before is dead.
MoveRows(w, from, to, first) ==
  [w EXCEPT !.minx = first + w.minx - from, !.maxx = first + to - from,
            !.cell = [k \in DOMAIN @ |->
               LET i == k \div YSIZE  j == k % YSIZE  src == i - first + from
               IN IF j \notin w.miny..w.maxy THEN @[k]
                  ELSE IF src \in from..to THEN CellAt(w, src, j) ELSE IF i \in from..to THEN 0 ELSE @[k]]]

MoveColumns(w, from, to, first) ==
  [w EXCEPT !.miny = first + w.miny - from, !.maxy = first + to - from,
            !.cell = [k \in DOMAIN @ |->
               LET i == k \div YSIZE  j == k % YSIZE  src == j - first + from
               IN IF i \notin w.minx..w.maxx THEN @[k]
                  ELSE IF src \in from..to THEN CellAt(w, i, src) ELSE IF j \in from..to THEN 0 ELSE @[k]]]

\* adjx and adjy: a box that touches an edge goes to the middle, if it has room.
adjx(w) ==
  IF w.maxx - w.minx + 1 > XSIZE - 2 THEN w
  ELSE IF w.minx = 0 THEN MoveRows(w, 0, w.maxx, (XSIZE - w.maxx) \div 2)
  ELSE IF w.maxx = XSIZE - 1 THEN MoveRows(w, w.minx, w.maxx, w.minx \div 2) ELSE w

adjy(w) ==
  IF w.maxy - w.miny + 1 > YSIZE - 2 THEN w
  ELSE IF w.miny = 0 THEN MoveColumns(w, 0, w.maxy, (YSIZE - w.maxy) \div 2)
  ELSE IF w.maxy = YSIZE - 1 THEN MoveColumns(w, w.miny, w.maxy, w.miny \div 2) ELSE w

adjust(w) == adjy(adjx(w))

-----------------------------------------------------------------------------
Begin(lines) ==
  LET w == Setup(lines)
  IN life' = IF w.pop = 0 THEN [Clear EXCEPT !.phase = "over"] ELSE [display(adjust(w)) EXCEPT !.phase = "run"]

Generation ==
  /\ life.phase = "run" /\ life.pop > 0 /\ life.gen <= MaxGen
  /\ life' = display(dogen(adjust(life)))

\* Nothing is left, or the blank was pressed: another drawing.
Again == life.phase = "run" /\ life' = Clear

LifeInit == life = Clear
LifeNext == (life.phase = "setup" /\ \E lines \in Drawings : Begin(lines)) \/ Generation \/ Again
LifeSpec == LifeInit /\ [][LifeNext]_life

-----------------------------------------------------------------------------
Living(w) == {<<k \div YSIZE, k % YSIZE>> : k \in {n \in DOMAIN w.cell : w.cell[n] # 0}}

Conway(S) ==
  LET around(p) == {<<p[1] + adj[n][1], p[2] + adj[n][2]>> : n \in DOMAIN adj}
      near == S \cup UNION {around(p) : p \in S}
  IN {p \in near : LET n == Cardinality(around(p) \cap S) IN n = 3 \/ (n = 2 /\ p \in S)}

\* The same living cells, with the top one in row 0 and the left one in column 0.
Shape(S) == IF S = {} THEN {} ELSE LET x == Least({p[1] : p \in S})  y == Least({p[2] : p \in S})
                                   IN {<<p[1] - x, p[2] - y>> : p \in S}

\* The box holds all that lives, in lines that are its own, and the population is
\* what it is said to be: what is outside the box would never be looked at again.
BoxHoldsLife ==
  life.phase = "run" =>
    /\ life.pop = Cardinality(Living(life))
    /\ \A k \in DOMAIN life.cell : life.cell[k] \in {0, 2} /\ (life.cell[k] = 2 => InBox(life, k))
    /\ {life.minx, life.maxx} \subseteq Rows /\ {life.miny, life.maxy} \subseteq Columns

\* Every generation away from the edges is the one Conway's rules make of the last,
\* wherever it was moved to, although it is made in place.
GenerationIsConway ==
  (Generation /\ ~Big(adjust(life))) => Shape(Living(life')) = Shape(Conway(Living(life)))

\* Centering never loses or makes a cell, and moves all of them alike.
CenteringKeepsShape ==
  life.phase = "run" /\ life.pop > 0 => Shape(Living(adjust(life))) = Shape(Living(life))

Torus(S) ==
  LET around(p) == {<<(p[1] + adj[n][1] + XSIZE) % XSIZE, (p[2] + adj[n][2] + YSIZE) % YSIZE>> : n \in DOMAIN adj}
  IN {p \in Rows \X Columns : LET n == Cardinality(around(p) \cap S) IN n = 3 \/ (n = 2 /\ p \in S)}

\* What the first comment of the program says: "the Universe is a toroid; the left
\* extreme is adjacent to the right extreme, the top is adjacent to the bottom".
UniverseIsATorus ==
  life.phase = "run" /\ life.pop > 0 =>
    LET w == adjust(life) IN Living(display(dogen(w))) = Torus(Living(w))

\* Generations are Conway's, of all that lives, wherever it was drawn.
LifeIsConways == [][GenerationIsConway /\ BoxHoldsLife' /\ CenteringKeepsShape']_life
=============================================================================
