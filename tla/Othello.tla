------------------------------- MODULE Othello -------------------------------
(***************************************************************************)
(* othello.c: the board, the rules, the computer's evaluation of its moves  *)
(* and the loop of a game.  A player's command and the computer's answer    *)
(* are one action each.  Commands that only print (B, S, A) are left out.   *)
(***************************************************************************)
EXTENDS Integers, FiniteSets, FiniteSetsExt

CONSTANTS
    Side,          \* the board is Side by Side, 8 in the program
    MaxHandicap    \* bound on the pieces given away in a game

VARIABLE oth

BLACK == "*"
WHITE == "O"
EMPTY == "-"
Squares == (0 .. Side - 1) \X (0 .. Side - 1)
Directions == ((-1 .. 1) \X (-1 .. 1)) \ { <<0, 0>> }
Opponent(p) == IF p = BLACK THEN WHITE ELSE BLACK
OnEdge(c) == c \in {0, Side - 1}

Away(sq, d, k) == <<sq[1] + k * d[1], sq[2] + k * d[2]>>

\* where the opponent's pieces end in a direction
Stop1(b, p, sq, d) ==
    Min({k \in 1 .. Side : Away(sq, d, k) \notin Squares \/ b[Away(sq, d, k)] \in {EMPTY, p}})

\* chkmv1 and putmv1: the pieces taken in one direction
Taken1(b, p, sq, d) ==
    LET Between(k) == {Away(sq, d, j) : j \in {i \in 1 .. k - 1 :
                          Away(sq, d, k) \in Squares /\ b[Away(sq, d, k)] = p}}
    IN  Between(Stop1(b, p, sq, d))

\* what a taken piece counts, ten on the edge of the board
Worth(S) == Cardinality(S) + 9 * Cardinality({s \in S : OnEdge(s[1]) \/ OnEdge(s[2])})

TakenBy(b, p, sq) == UNION {Taken1(b, p, sq, d) : d \in Directions}
chkmov(b, p, sq) == IF b[sq] # EMPTY THEN 0 ELSE Worth(TakenBy(b, p, sq))
CanMove(b, p) == \E sq \in Squares : chkmov(b, p, sq) > 0                   \* chkmvs
cntbrd(b, p) == Cardinality({sq \in Squares : b[sq] = p})

clrbrd ==
    LET low == Side \div 2 - 1
        high == Side \div 2
    IN  [sq \in Squares |-> CASE sq \in { <<low, low>>, <<high, high>> } -> BLACK
                              [] sq \in { <<low, high>>, <<high, low>> } -> WHITE
                              [] OTHER -> EMPTY]

\* A slip: the row is turned and the slanting lines are forgotten.
putmovStraight(b, p, sq) ==
    LET won == {sq} \cup UNION {Taken1(b, p, sq, d) : d \in {e \in Directions : 0 \in {e[1], e[2]}}}
    IN  [s \in Squares |-> IF s \in won THEN p ELSE b[s]]

putmov(b, p, sq) == LET won == {sq} \cup TakenBy(b, p, sq)
                    IN  [s \in Squares |-> IF s \in won THEN p ELSE b[s]]

-----------------------------------------------------------------------------
(* The computer's opinion of a move                                         *)

\* what stands behind p's pieces; its search over zeroes never runs, because
\* an empty square is a character
notak2(b, p, sq, d) ==
    LET Piece(s) == IF s \notin Squares THEN p ELSE b[s]
    IN  Piece(Away(sq, d, Min({j \in 1 .. Side : Away(sq, d, j) \notin Squares
                                                 \/ b[Away(sq, d, j)] # p})))

notak1(b, p, sq, d) ==
    {notak2(b, p, sq, d), notak2(b, p, sq, <<-d[1], -d[2]>>)} # {Opponent(p), EMPTY}

notake(b, p, sq) == \A d \in { <<0, 1>>, <<1, 1>>, <<1, 0>>, <<1, -1>> } : notak1(b, p, sq, d)

Edges(sq) == (IF OnEdge(sq[1]) THEN 1 ELSE 0) + (IF OnEdge(sq[2]) THEN 1 ELSE 0)

\* what the other side can answer on board a, and what each answer counts
Answers(a, o) == [s \in {t \in Squares : chkmov(a, o, t) # 0} |-> chkmov(a, o, s)]

\* what the answers cost, those counted that cannot be taken back; never more
\* than oside
s0(gain, counted) ==
    LET Loss(s) == (IF Edges(s) = 2 THEN 10 ELSE 1 + 2 * Edges(s))
                   + (IF gain[s] >= 10 THEN 4 ELSE 0)
        oside == (IF \E s \in DOMAIN gain : Edges(s) > 0 THEN 4 ELSE 0)
                 + (IF \E s \in DOMAIN gain : Edges(s) = 2 THEN 16 ELSE 0)
                 + (IF counted # {} THEN 1 ELSE 0)
                 + (IF \E s \in counted : gain[s] >= 10 THEN 8 ELSE 0)
    IN  Max({-oside, FoldSet(LAMBDA s, sum : sum - Loss(s), 0, counted)})

s_move(b, p, sq) ==
    LET Near(c) == (IF sq[1] \in c THEN 1 ELSE 0) + (IF sq[2] \in c THEN 1 ELSE 0)
        ok == IF Edges(sq) = 2 \/ notake(b, p, sq) THEN 1 ELSE 0
        Counted(a, o, gain) == s0(gain, {s \in DOMAIN gain : Edges(s) = 2 \/ notake(a, o, s)})
        Answered(a, o) == Counted(a, o, Answers(a, o))
    IN  Answered(putmov(b, p, sq), Opponent(p))
        + IF Edges(sq) > 0 THEN Edges(sq) - 7 + 10 * ok
          ELSE IF Near({1, Side - 2}) > 0 THEN -Near({1, Side - 2})
          ELSE Near({2, Side - 3})

\* my_mov: any of the moves that fillmt and cmpmov put first
Highest(f) == LET top == Max({f[s] : s \in DOMAIN f}) IN {s \in DOMAIN f : f[s] = top}
BestMoves(b, p) ==
    LET best == Highest([s \in {t \in Squares : chkmov(b, p, t) > 0} |-> s_move(b, p, s)])
    IN  Highest([s \in best |-> chkmov(b, p, s)])

-----------------------------------------------------------------------------
his == IF oth.mefirst THEN WHITE ELSE BLACK
mine == IF oth.mefirst THEN BLACK ELSE WHITE
Full64(b) == cntbrd(b, EMPTY) = 0

NewGame(first) == [b |-> clrbrd, n |-> 4, handicap |-> 0, ff |-> {}, mefirst |-> first,
                   turn |-> IF first THEN "Istart" ELSE "top"]

OthInit == \E first \in BOOLEAN : oth = NewGame(first)

\* the head of the loop
GameTop ==
    /\ oth.turn = "top"
    /\ oth' = IF Full64(oth.b) THEN [oth EXCEPT !.turn = "D"]
              ELSE IF ~CanMove(oth.b, his) THEN [oth EXCEPT !.ff = @ \cup {"his"}, !.turn = "Istart"]
              ELSE [oth EXCEPT !.turn = "getmov"]

\* M, and G, for which the computer chooses
PlayerMoves ==
    /\ oth.turn = "getmov"
    /\ \E sq \in Squares :
          /\ chkmov(oth.b, his, sq) > 0
          /\ oth' = [oth EXCEPT !.b = putmov(@, his, sq), !.turn = "Istart"]

\* n > (unsigned)handicap + 4 is illegal; a negative handicap wraps round, so
\* that anything is more than the sum once a piece has been given away
Illegal == oth.n > oth.handicap + 4

Forfeit ==
    /\ oth.turn = "getmov" /\ ~Illegal
    /\ oth' = [oth EXCEPT !.turn = "Istart"]

\* h[j*2] and h[j*2+2]: the third piece goes where the first one stands.  The
\* fourth is written outside the board and is left out.
Corners == << <<0, Side - 1>>, <<Side - 1, 0>>, <<0, Side - 1>> >>
Handicap ==
    /\ oth.turn = "getmov" /\ ~Illegal
    /\ \E k \in 1 .. 3, sign \in {1, -1} :
          /\ oth.handicap + k \in 1 .. MaxHandicap
          /\ oth' = [oth EXCEPT !.n = @ + k, !.handicap = @ + sign * k, !.turn = "top",
                       !.b = [s \in Squares |-> IF \E j \in 1 .. k : s = Corners[j]
                                                THEN IF sign = 1 THEN BLACK ELSE WHITE
                                                ELSE oth.b[s]]]

ForfeitsAfter(ff) == {}

\* Istart: the computer's half, and the foot of the loop
ComputerMoves ==
    /\ oth.turn = "Istart"
    /\ LET Foot(s) == IF s.ff = {"his", "mine"} \/ s.n > Side * Side THEN [s EXCEPT !.turn = "D"]
                      ELSE [s EXCEPT !.turn = "top", !.ff = ForfeitsAfter(@)]
       IN  \/ Full64(oth.b) /\ oth' = [oth EXCEPT !.turn = "D"]
           \/ /\ ~Full64(oth.b) /\ ~CanMove(oth.b, mine)
              /\ oth' = Foot([oth EXCEPT !.ff = @ \cup {"mine"}])
           \/ \E sq \in BestMoves(oth.b, mine) :
                 oth' = Foot([oth EXCEPT !.b = putmov(@, mine, sq), !.n = @ + 1])

\* Q, or another game with the other side first
AnotherGame ==
    /\ oth.turn \in {"getmov", "D"}
    /\ oth' = NewGame(~oth.mefirst)

OthNext == GameTop \/ PlayerMoves \/ Forfeit \/ Handicap \/ ComputerMoves \/ AnotherGame
OthSpec == OthInit /\ [][OthNext]_oth

-----------------------------------------------------------------------------
\* A move that chkmov allows turns, in putmov, at least one piece of the other
\* side and nothing else; all pieces stay on the board until the game is over.
MoveTurnsPieces ==
       oth'.b # oth.b => \A p \in {BLACK, WHITE} :
          /\ cntbrd(oth'.b, EMPTY) = cntbrd(oth.b, EMPTY) - 1
          /\ oth'.n - oth.n \in {0, 1} /\ oth'.handicap = oth.handicap
          /\ cntbrd(oth'.b, p) > cntbrd(oth.b, p)
          => LET turned == {s \in Squares : oth.b[s] = Opponent(p) /\ oth'.b[s] = p}
             IN  /\ turned # {}
                 /\ \A s \in turned : \E d \in Directions, j \in 1 .. Side - 1, k \in 1 .. Side - 1 :
                       /\ Away(s, d, j) \in Squares
                       /\ oth.b[Away(s, d, j)] = EMPTY /\ oth'.b[Away(s, d, j)] = p
                       /\ Away(s, <<-d[1], -d[2]>>, k) \in Squares
                       /\ oth.b[Away(s, <<-d[1], -d[2]>>, k)] = p

\* A game is declared over only on a full board, or when neither side can move:
\* a forfeit of an earlier round does not count.
EndsOnlyWhenStuck ==
    oth.turn = "D" => Full64(oth.b) \/ (~CanMove(oth.b, BLACK) /\ ~CanMove(oth.b, WHITE))

\* A game is fair from the first move to the verdict: moves turn pieces as the
\* rules say, and it is over only when nobody can move.
OthelloFair == [][MoveTurnsPieces /\ EndsOnlyWhenStuck']_oth
=============================================================================
