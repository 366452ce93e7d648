--------------------------------- MODULE Ox3d ---------------------------------
(***************************************************************************)
(* ox3d.c, four in a row: the tables that update keeps with every move, the *)
(* machine's choice of a move, and the loop of a game.  The geometry is a   *)
(* constant.  rand is any choice; a sub-choice that the tables make for the *)
(* machine is a set of outcomes.  lcells marks the cells that are taken and *)
(* is read off the board here; the table entries of a taken cell are dead   *)
(* and cleared.  sign is 1 or -1, player 1 or 0 with it.                    *)
(***************************************************************************)
EXTENDS Integers, Sequences, FiniteSets, SequencesExt

CONSTANTS
    LineCells,    \* ilcell: the four cells of each line, lines from zero
    PlaneCells,   \* icplan: the cells of each plane
    Diags,        \* diags: the body diagonals, sequences of four cells
    FreeSide      \* the sides a person may play

VARIABLE ox

Cells == UNION {LineCells[l] : l \in DOMAIN LineCells}
OxLines == DOMAIN LineCells
Spoilt == 99
None == -1
Sides == {0, 1}
Sign(player) == 2 * player - 1
Scores == -3 .. 3
Worst == -100

ThroughCell == [c \in Cells |-> {l \in OxLines : c \in LineCells[l]}]
FirstLine(S) == CHOOSE l \in S : \A m \in S : l <= m

\* init
OxBoard ==
    [board |-> [c \in Cells |-> 0], linsco |-> [l \in OxLines |-> 0],
     clinh |-> [c \in Cells |-> [k \in Scores |-> IF k = 0 THEN Cardinality(ThroughCell[c]) ELSE 0]],
     clines |-> [c \in Cells |-> ThroughCell[c]], plnsco |-> [p \in DOMAIN PlaneCells |-> 0],
     lincnt |-> Cardinality(OxLines), movcnt |-> 0, player |-> 0, winner |-> None,
     win |-> [p \in Sides |-> None], kkill |-> [p \in Sides |-> None]]

-----------------------------------------------------------------------------
(* update                                                                   *)

\* a forced cell that is taken makes room for the second one
DropFlags(t, m) ==
    LET kill == [p \in Sides |-> IF t.kkill[p] = m THEN None ELSE t.kkill[p]]
    IN  [t EXCEPT !.kkill = kill,
                  !.win = [p \in Sides |-> IF t.win[p] \in {m, None} THEN kill[p] ELSE t.win[p]]]

\* A slip: a single cell does not spoil the line.
SpoilsTwo(score, me) == score * me < -1
Spoils(score, me) == score * me < 0

\* one line through the cell m
UpdateLine(t, l, m) ==
    LET me == Sign(t.player)
        score == t.linsco[l]
        spoilt == Spoils(score, me)
        newsco == IF spoilt THEN Spoilt ELSE score + me
        free == {c \in LineCells[l] \ {m} : t.board[c] = 0}
        hist == [c \in Cells |-> IF c \notin free THEN t.clinh[c]
                   ELSE LET less == [t.clinh[c] EXCEPT ![score] = @ - 1]
                        IN  IF spoilt THEN less ELSE [less EXCEPT ![newsco] = @ + 1]]
        u == [t EXCEPT !.linsco[l] = newsco, !.lincnt = IF spoilt THEN @ - 1 ELSE @]
        cell == CHOOSE c \in free : TRUE
        v == [u EXCEPT !.clinh = hist,
                       !.clines = [c \in Cells |-> IF spoilt /\ c \in free THEN @[c] \ {l} ELSE @[c]]]
    IN  IF ~spoilt /\ newsco * me = 4
        THEN [u EXCEPT !.winner = t.player,
                       !.board = [c \in Cells |-> IF c \in LineCells[l] THEN 3 ELSE @[c]]]
        ELSE IF ~spoilt /\ newsco * me = 3
        THEN IF t.win[t.player] # None THEN [v EXCEPT !.kkill[t.player] = cell]
             ELSE [v EXCEPT !.win[t.player] = cell]
        ELSE v

RECURSIVE UpdateLines(_, _, _)
UpdateLines(t, todo, m) ==
    IF todo = {} \/ t.winner # None THEN t
    ELSE LET l == FirstLine(todo) IN UpdateLines(UpdateLine(t, l, m), todo \ {l}, m)

update(t, m) ==
    LET u == [DropFlags(t, m) EXCEPT !.winner = None,
                 !.plnsco = [p \in DOMAIN @ |-> @[p] + IF m \in PlaneCells[p] THEN Sign(t.player) ELSE 0]]
        Put(v) ==
            IF v.winner # None THEN v
            ELSE [v EXCEPT !.board[m] = Sign(t.player), !.movcnt = @ + 1, !.player = 1 - @,
                           !.clinh[m] = [k \in Scores |-> 0], !.clines[m] = {}]
    IN  Put(UpdateLines(u, t.clines[m], m))

-----------------------------------------------------------------------------
(* eval: what a free cell is worth                                          *)

PlaneHistogram(t, c) ==
    LET me == Sign(t.player)
        at(p) == me * t.plnsco[p] + 3
        clamp(k) == IF k < 0 THEN 0 ELSE IF k > 6 THEN 6 ELSE k
    IN  [k \in 0 .. 6 |-> Cardinality({p \in DOMAIN PlaneCells : c \in PlaneCells[p] /\ clamp(at(p)) = k})]

\* a forcing move that lets the opponent answer with a threat of his own
NoGood(t, c) ==
    LET me == Sign(t.player)
        twos == {l \in t.clines[c] : me * t.linsco[l] = 2}
    IN  /\ t.clinh[c][2 * me] = 1
        /\ twos # {}
        /\ \E d \in LineCells[FirstLine(twos)] \ {c} :
              t.board[d] = 0 /\ t.clinh[d][-2 * me] > 0

\* [tac, str]: the tactical and, for a forcing cell, the strategic value
CellValue(t, c, mute) ==
    LET me == Sign(t.player)
        h == t.clinh[c]
        minus2 == h[-2 * me]  minus1 == h[-me]  zero == h[0]  plus1 == h[me]  plus2 == h[2 * me]
        p == PlaneHistogram(t, c)
        base == 2 * (minus1 + 8 * (zero + 8 * (minus2 + 8 * plus1)))
        bold == t.player = 1 /\ mute <= 0 /\ zero + 2 * p[5] + p[0] > 4
        adjust == IF ~bold /\ minus1 > plus1 /\ t.lincnt # 74 THEN minus1 - plus1 ELSE 0
        p0 == p[0] + IF bold THEN minus2 ELSE 0
        planes == p[6] + 8 * (IF p0 = 1 /\ minus1 + 2 * minus2 < 3 THEN 0 ELSE p0)
        value == base + 8198 * planes
    IN  [tac |-> IF mute > 0 THEN Worst
                 ELSE value + 1020 * adjust + IF minus2 > 2 THEN 262144 ELSE 0,
         str |-> IF plus2 = 0 THEN Worst
                 ELSE value + 128 * (p[5] + 512 * (plus1 + 8 * plus2))]

\* [tacval, strmov]
eval(t, mute) ==
    LET good == {c \in Cells : t.board[c] = 0 /\ ~NoGood(t, c)}
        value == [c \in good |-> CellValue(t, c, mute)]
    IN  [tacval |-> [c \in Cells |-> IF c \in good THEN value[c].tac ELSE Worst],
         strmov |-> {c \in good : /\ value[c].str # Worst
                                  /\ \A d \in good : value[d].str <= value[c].str}]

-----------------------------------------------------------------------------
(* strsel and prune: a sequence of forcing moves                            *)

\* does the sequence still force a win?  The moves left out are no part of it.
RECURSIVE StillForces(_, _)
StillForces(t, moves) ==
    LET Blocked(v) ==
            IF v.winner = None /\ v.win[v.player] # None THEN TRUE
            ELSE IF v.win[1 - v.player] # None \/ v.winner # None THEN FALSE
            ELSE StillForces(v, Tail(moves))
        Threatens(u) == u.win[1 - u.player] # None /\ u.winner = None
        Moved(u) == Threatens(u) /\ Blocked(update(u, u.win[1 - u.player]))
    IN  moves # <<>> /\ t.board[moves[1]] = 0 /\ Moved(update(t, moves[1]))

\* each move in turn is left out when the rest forces a win without it
prune(t, moves) ==
    LET without(S) == SelectSeq([k \in DOMAIN moves |-> IF k \in S THEN None ELSE moves[k]],
                                LAMBDA m : m # None)
        gone[k \in 0 .. Len(moves)] ==
            IF k = 0 THEN {}
            ELSE gone[k - 1] \cup IF StillForces(t, without(gone[k - 1] \cup {k})) THEN {k} ELSE {}
    IN  without(gone[Len(moves)])

\* the outcomes of strsel's loop from strategic moves on: sequences of moves, or
\* <<>>; a sequence counts as found too when the opponent now has a forced cell
RECURSIVE Forcing(_, _, _, _)
Forcing(t, strmov, moves, mute) ==
    LET Blocked(v, so) ==
            IF v.winner # None THEN { <<>> }
            ELSE IF v.win[v.player] # None THEN { Append(so, v.win[v.player]) }
            ELSE Forcing(v, eval(v, mute).strmov, so, mute)
        Moved(u, so) ==
            IF u.win[u.player] # None THEN {so}
            ELSE Blocked(update(u, u.win[1 - u.player]), so)
    IN  IF strmov = {} THEN { <<>> }
        ELSE UNION {Moved(update(t, m), Append(moves, m)) : m \in strmov}

\* outcomes [move, frcmov, frccnt]
strsel(t, strmov, mute) ==
    LET Sequence(moves, left) ==
            [move |-> IF left = <<>> THEN moves[1] ELSE left[1], frcmov |-> left,
             frccnt |-> IF mute = 2 THEN Len(left) ELSE Len(left) + 1]
    IN  { IF moves = <<>> THEN [move |-> None, frcmov |-> <<>>, frccnt |-> 0]
          ELSE Sequence(moves, IF mute = 2 THEN moves ELSE prune(t, moves))
          : moves \in Forcing(t, strmov, <<>>, mute)}

\* tacsel: the cells in the order of their values until they fall below the
\* best adjusted one; w = [best, moves]
RECURSIVE Tactical(_, _, _, _, _)
Tactical(t, order, tacval, w, mute) ==
    LET c == order[1]
        raw == tacval[c]
        top == (95 * tacval[FirstLine({d \in Cells : \A e \in Cells : tacval[e] <= tacval[d]})]) \div 100
        Smaller(n) == IF n < 0 THEN 0 ELSE n \div 128
        Values(u) == IF u.win[1 - u.player] # None
                     THEN {IF raw < 200 \/ raw < top THEN Smaller(raw) ELSE raw}
                     ELSE {IF o.move > 0 THEN o.frccnt ELSE raw :
                              o \in strsel(u, eval(u, mute).strmov, mute)}
        Take(v) == IF v > w.best THEN [best |-> v, moves |-> {c}]
                   ELSE IF v = w.best THEN [w EXCEPT !.moves = @ \cup {c}] ELSE w
    IN  IF order = <<>> \/ raw < w.best THEN {w}
        ELSE UNION {Tactical(t, Tail(order), tacval, Take(v), mute) : v \in Values(update(t, c))}

tacsel(t, tacval, mute) ==
    LET free == {c \in Cells : t.board[c] = 0}
        order == SetToSortSeq(free, LAMBDA c, d : tacval[c] > tacval[d] \/ (tacval[c] = tacval[d] /\ c < d))
    IN  UNION {w.moves : w \in Tactical(t, order, tacval, [best |-> Worst, moves |-> {}],
                                        IF mute >= 0 THEN 2 ELSE mute)}

-----------------------------------------------------------------------------
(* opening                                                                  *)

AllDiags == FlattenSeq(Diags)

\* where one's own or the other's cells are in a diagonal: k for the k-th alone,
\* -k for the first when there are two, and so on, turning with each of them
Position(t, d, who) ==
    LET seen[k \in 0 .. 4] ==
            IF k = 0 THEN 0
            ELSE IF t.board[Diags[d][k]] # who THEN seen[k - 1]
            ELSE IF seen[k - 1] = 0 THEN k ELSE -seen[k - 1]
    IN  seen[4]

\* moves of the first five; an index behind the table can hold anything
opening(t) ==
    LET me == Sign(t.player)
        mineAt(d) == Position(t, d, me)
        hisAt(d) == Position(t, d, -me)
        owned == {d \in DOMAIN Diags : (mineAt(d) = 0) # (hisAt(d) = 0)}
        crowded == {d \in DOMAIN Diags : mineAt(d) # 0 /\ hisAt(d) # 0}
        d0 == CHOOSE d \in owned : \A e \in owned : d <= e
        last == CHOOSE d \in crowded : \A e \in crowded : d >= e
        index == 5 - mineAt(d0) + 4 * (d0 - 1)
    IN  IF t.movcnt <= 0 THEN ToSet(AllDiags)
        ELSE IF owned # {}
        THEN IF hisAt(d0) = 0 THEN IF index \in DOMAIN AllDiags THEN {AllDiags[index]} ELSE Cells
             ELSE IF hisAt(d0) \in {1, 4} THEN {Diags[d0][2], Diags[d0][3]}
             ELSE {Diags[d0][1], Diags[d0][4]}
        ELSE IF crowded = {} THEN ToSet(AllDiags)
        ELSE {c \in UNION {ToSet(Diags[d]) : d \in DOMAIN Diags \ {last}} : t.board[c] = 0}

-----------------------------------------------------------------------------
NextForced(f) == IF f.frcpnt < Len(f.frcmov) THEN f.frcmov[f.frcpnt + 1] ELSE None

\* select_move: outcomes [move, frcmov, frccnt, frcpnt]; f is the forced sequence
select_move(t, f, mute) ==
    LET e == eval(t, mute)
        quiet == IF mute = 0 THEN 1 ELSE mute
        found == strsel(t, e.strmov, quiet)
        Keep(m) == [f EXCEPT !.move = m]
    IN  IF t.movcnt <= 4 THEN {Keep(m) : m \in opening(t)}
        ELSE IF t.win[t.player] # None THEN {Keep(t.win[t.player])}
        ELSE IF t.win[1 - t.player] # None THEN {Keep(t.win[1 - t.player])}
        ELSE IF f.frccnt # 0
        THEN {[f EXCEPT !.move = NextForced(f), !.frcpnt = @ + 1]}
        ELSE UNION { IF o.move # None
                     THEN {[move |-> o.move, frcmov |-> o.frcmov, frccnt |-> o.frccnt, frcpnt |-> 1]}
                     ELSE {[Keep(m) EXCEPT !.frccnt = 0] : m \in tacsel(t, e.tacval, quiet)}
                     : o \in found}

NoForce == [move |-> 0, frcmov |-> <<>>, frccnt |-> 0, frcpnt |-> 0]
OxStart(people) == [t |-> OxBoard, f |-> NoForce, people |-> people, state |-> "playing"]
OxInit == \E people \in SUBSET FreeSide : ox = OxStart(people)

After(t, f) == [ox EXCEPT !.t = t, !.f = f,
                   !.state = IF t.winner # None \/ t.lincnt = 0 THEN "over" ELSE "playing"]

\* get_move asks until the cell is free
OxPerson ==
    /\ ox.state = "playing" /\ ox.t.player \in ox.people
    /\ \E c \in Cells : ox.t.board[c] = 0 /\ ox' = After(update(ox.t, c), ox.f)

LogicError(t, m) == m \notin Cells \/ t.board[m] # 0

OxMachine ==
    /\ ox.state = "playing" /\ ox.t.player \notin ox.people
    /\ \E o \in select_move(ox.t, ox.f, 0) :
          ox' = IF LogicError(ox.t, o.move) THEN [ox EXCEPT !.state = "logic error"]
                ELSE After(update(ox.t, o.move), o)

\* s: what the machine would do here; the tables are put back, and a forced
\* sequence is forgotten.  Only an error shows.
OxSuggest ==
    /\ ox.state = "playing" /\ ox.t.player \in ox.people
    /\ \E o \in select_move(ox.t, ox.f, -1) :
          ox' = IF LogicError(ox.t, o.move) THEN [ox EXCEPT !.state = "logic error"]
                ELSE [ox EXCEPT !.f = IF o.frccnt > 0 THEN [NoForce EXCEPT !.frcpnt = o.frcpnt] ELSE o]

\* a: the machine takes the side over
OxTakeOver ==
    /\ ox.state = "playing" /\ ox.t.player \in ox.people
    /\ ox' = [ox EXCEPT !.people = @ \ {ox.t.player}]

OxNext == OxPerson \/ OxMachine \/ OxSuggest \/ OxTakeOver
OxSpec == OxInit /\ [][OxNext]_ox

-----------------------------------------------------------------------------
Sum4(t, l) == LET S == LineCells[l]
              IN  Cardinality({c \in S : t.board[c] = 1}) - Cardinality({c \in S : t.board[c] = -1})
Mixed(t, l) == {1, -1} \subseteq {t.board[c] : c \in LineCells[l]}

\* The tables that update carries along are what the board says: the score of
\* each line, the lines left, and for each free cell the live lines and their
\* histogram by score.
TablesMatchBoard ==
    ox.t.winner = None =>
      /\ \A l \in OxLines : ox.t.linsco[l] = IF Mixed(ox.t, l) THEN Spoilt ELSE Sum4(ox.t, l)
      /\ ox.t.lincnt = Cardinality({l \in OxLines : ~Mixed(ox.t, l)})
      /\ \A c \in Cells : ox.t.board[c] = 0 =>
            LET live == {l \in ThroughCell[c] : ~Mixed(ox.t, l)}
            IN  /\ ox.t.clines[c] = live
                /\ \A k \in Scores : ox.t.clinh[c][k] = Cardinality({l \in live : ox.t.linsco[l] = k})

\* A forced cell is one: it is free, and three of that side wait in a line
\* through it.
ForcedCellsAreReal ==
    ox.t.winner = None => \A p \in Sides : \A c \in {ox.t.win[p], ox.t.kkill[p]} \ {None} :
      /\ ox.t.board[c] = 0
      /\ \E l \in ThroughCell[c] : Sum4(ox.t, l) = 3 * Sign(p)

\* A line of three of a side that only the machine plays, with its fourth cell
\* free, is known as forced.  (Of three at once in a person's hands the tables
\* remember two.)
NoThreatOverlooked ==
    ox.t.winner = None => \A l \in OxLines, p \in Sides \ FreeSide :
      Sum4(ox.t, l) = 3 * Sign(p) => ox.t.win[p] # None

\* "just in case": the machine never selects a cell that is taken or is none.
NoLogicError == ox.state # "logic error"

\* Once the opening is over no forced sequence, pruned, interrupted by a block
\* or forgotten after a suggestion, ends in the logic error.
LogicErrorOnlyInOpening == ox.state = "logic error" => ox.t.movcnt <= 4

\* What the search is based on is true of the board, after moves of both sides,
\* suggestions and the copies the search goes back to.
TablesSound == TablesMatchBoard /\ ForcedCellsAreReal /\ NoThreatOverlooked /\ LogicErrorOnlyInOpening
=============================================================================
