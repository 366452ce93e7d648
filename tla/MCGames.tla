------------------------------- MODULE MCGames -------------------------------
(* The text games, one of which is played at a time: program says which, and *)
(* the others rest in a first state.  Below, what each is given to work on.  *)
EXTENDS AdventureA, ScottFree, Othello, Ox3d, Life, Snake

VARIABLE program

(* AdventureA: three players who know a part of the game each *)
Walk == { <<"N">>, <<"E">>, <<"S">>, <<"W">> }
Cave == { <<"BREA","BARS">>, <<"GET","BAR">>, <<"DROP","BAR">>, <<"GET","ICE">>, <<"USE","ICE">>, <<"UP">> , <<"USE","GUN">>, <<"GET","MAN">>, <<"GET", "MIRR">>}
Lake == {<<"D">>, <<"PICK", "BOOT">>, <<"WEAR","BOOT">>, <<"REMO","BOOT">>, <<"DROP","BOOT">>, <<"WATE">>, <<"USE","COIN">>, <<"GET","BOAR">>, <<"USE","BOAR">>, <<"DROP","BOAR">>, <<"GET","BROK">>,<<"FIRE","BROK">>, <<"JUMP", "RAVI">>, <<"GET","FLIN">>}
Ship == {<<"D">>, <<"GET","BOAR">>, <<"USE","BOAR">>, <<"GET","GUN">>, <<"GET","ICE">>, <<"USE","ICE">>, <<"GET","MAN">>, <<"GET","MIRR">>, <<"FIEL">>, <<"DANC">>, <<"GET","KEY">>, <<"USE","KEY">>,<<"OPEN","DOOR">>, <<"PUSH","3">>, <<"PUSH","2">>, <<"PUSH","1">>, <<"SHIP">>, <<"KILL","SECU">>, <<"PUSH","AUX">>, <<"PUSH","4">>, <<"GET","STAR">>}
MCLines == [cave |-> Walk \cup Cave, lake |-> Walk \cup Lake, ship |-> Walk \cup Ship]

(* ScottFree: a small database with each opcode in it, and two players *)
SWord(t) == [text |-> t, synonym |-> FALSE]
SSyn(t) == [text |-> t, synonym |-> TRUE]
SLine(v, n, cs, as) == [verb |-> v, noun |-> n, conds |-> cs, acts |-> as]
MCVerbs == <<SWord("GO"), SWord("RUB"), SWord("FILL"), SWord("SAY"), SWord("SCORE"), SWord("SWAP"),
             SWord("DIG"), SWord("WISH"), SWord("JUMP"), SWord("GET"), SSyn("TAKE"), SWord("c"),
             SWord("d"), SWord("e"), SWord("f"), SWord("g"), SWord("h"), SWord("DROP")>>
MCNouns == <<SWord("NORTH"), SWord("SOUTH"), SWord("EAST"), SWord("WEST"), SWord("UP"),
             SWord("DOWN"), SWord("GOLD"), SSyn("COIN"), SWord("RUG"), SWord("LAMP")>>
MCExits == [r \in 0..4 |-> CASE r = 1 -> <<2, 0, 0, 0, 0, 0>>
                             [] r = 2 -> <<0, 1, 0, 0, 0, 3>>
                             [] r = 3 -> <<0, 0, 0, 0, 2, 0>>
                             [] OTHER -> <<0, 0, 0, 0, 0, 0>>]
MCItems == [i \in 0..9 |-> CASE i = 1 -> 3 [] i = 2 -> 1 [] i = 3 -> 0 [] i = 9 -> 1 [] OTHER -> 0]
MCAutoGet == [i \in 0..9 |-> CASE i = 1 -> 7 [] i = 2 -> 9 [] i = 9 -> 10 [] OTHER -> 0]
MCHeader == [MaxCarry |-> 2, PlayerRoom |-> 1, LightTime |-> 3, TreasureRoom |-> 1, Treasures |-> 1]
MCActions == <<
  SLine(0, 100, << <<4, 3>> >>, <<56>>),
  SLine(0, 100, << <<7, 3>> >>, <<57, 73>>),
  SLine(0, 0, << <<16, 0>>, <<8, 3>> >>, <<77>>),
  SLine(0, 50, << <<8, 3>>, <<0, 3>> >>, <<60, 64>>),
  SLine(2, 10, << <<3, 9>>, <<15, 1>>, <<0, 2>>, <<0, 3>> >>, <<82, 58, 73>>),
  SLine(0, 0, << <<0, 1>> >>, <<81>>),
  SLine(0, 0, << <<19, 0>>, <<0, 3>> >>, <<83>>),
  SLine(2, 0, <<>>, <<1>>),
  SLine(3, 10, << <<1, 9>> >>, <<69>>),
  SLine(4, 0, << <<12, 1>> >>, <<80, 67>>),
  SLine(5, 0, <<>>, <<65, 64>>),
  SLine(6, 9, << <<1, 2>>, <<14, 3>>, <<0, 2>>, <<0, 3>> >>, <<72>>),
  SLine(6, 0, << <<13, 3>>, <<0, 3>>, <<0, 0>> >>, <<62>>),
  SLine(7, 0, << <<0, 1>>, <<5, 1>>, <<9, 0>> >>, <<87, 68>>),
  SLine(8, 7, << <<6, 1>>, <<10, 0>>, <<17, 1>>, <<1, 9>>, <<0, 9>>, <<0, 1>> >>, <<55, 74>>),
  SLine(8, 0, << <<11, 0>>, <<0, 2>> >>, <<79>>),
  SLine(9, 0, <<  <<18, 1>> >>, <<61, 63>>),
  SLine(10, 9, << <<2, 2>>, <<0, 2>>, <<0, 1>> >>, <<52, 53>>),
  SLine(10, 7, << <<2, 1>>, <<0, 1>> >>, <<52>>),
  SLine(18, 7, << <<1, 1>>, <<4, 2>>, <<0, 1>>, <<0, 9>> >>, <<59, 75>>) >>
MCTyped ==
    LET moves == {<<"NORTH", "">>, <<"DOWN", "">>, <<"UP", "">>, <<"SOUTH", "">>}
    IN  [taker |-> moves \cup {<<"GO", "">>, <<"FILL", "LAMP">>, <<"SCORE", "">>, <<"SWAP", "RUG">>, <<"SWAP", "">>,
            <<"WISH", "GOLD">>, <<"GET", "ALL">>, <<"TAKE", "COIN">>, <<"GET", "RUG">>,
            <<"GET", "LAMP">>, <<"GET", "">>, <<"DROP", "ALL">>, <<"DROP", "LAMP">>,
            <<"DROP", "GOLD">>, <<"JUMP", "">>, <<"XYZZY", "">>},
         rubber |-> moves \cup {<<"RUB", "LAMP">>, <<"SAY", "">>, <<"DIG", "">>, <<"WISH", "">>, 
            <<"JUMP", "">>, <<"GET", "LAMP">>}]

(* Ox3d: seven lines and three planes over ten cells *)
MCLineCells ==
    [l \in 0..6 |-> CASE l = 0 -> {0, 1, 2, 3} [] l = 1 -> {4, 5, 6, 7} [] l = 2 -> {0, 4, 8, 9}
                      [] l = 3 -> {1, 5, 8, 9} [] l = 4 -> {2, 6, 8, 9} [] l = 5 -> {3, 7, 8, 0}
                      [] OTHER -> {3, 6, 9, 4}]
MCPlaneCells == [p \in 0..2 |-> CASE p = 0 -> {0, 1, 2, 3, 4, 8} [] p = 1 -> {4, 5, 6, 7} [] OTHER -> {0, 4, 8}]
MCDiags == << <<0, 1, 2, 3>>, <<4, 5, 6, 7>> >>

(* Life: every drawing of three by three, some that do not fit and a longer one *)
X == TRUE
o == FALSE
MCDrawings ==
    [1..3 -> [1..3 -> BOOLEAN]] \cup
    {<<>>, << <<o, X, o>>, <<o, o, X>>, <<X, X, X>> >>, << <<o, o>>, <<X, X>>, <<X>> >>,
     << <<X, X, X>>, <<X, o>>, <<o, X, o>>, <<X, X, X>>, <<o, X, X>>, <<X, X, X>>, <<o, X, o>>, <<X, X, X>> >>,
     << <<o, X, X, X, o, X, o, X, o>> >>}

(* Snake: two boards of three rows by seven columns *)
MCBoards ==
    {[p \in FieldCells |-> IF p = <<2, 4>> THEN "X" ELSE IF p \in {<<4, 3>>, <<3, 8>>} THEN "o" ELSE " "],
     [p \in FieldCells |-> IF p = <<3, 5>> THEN "X" ELSE IF p \in {<<2, 7>>, <<4, 8>>, <<4, 7>>} THEN "o" ELSE " "]}

-----------------------------------------------------------------------------
Programs == {"adventure", "scott", "othello", "ox3d", "life", "snake"}

\* A game that is not played is over.
OxAtRest == [OxStart({}) EXCEPT !.state = "over", !.t.winner = 0]

GamesInit ==
    /\ program \in Programs
    /\ IF program = "adventure" THEN AdvInit ELSE adv = Fresh("cave")
    /\ IF program = "scott" THEN ScottInit ELSE scott = ScottStart("taker")
    /\ IF program = "othello" THEN OthInit ELSE oth = NewGame(TRUE)
    /\ IF program = "ox3d" THEN OxInit ELSE ox = OxAtRest
    /\ LifeInit
    /\ IF program = "snake" THEN SnakeInit ELSE snk = [setup_level(SnakeAtRest, CHOOSE b \in Boards : TRUE) EXCEPT !.over = TRUE]

GamesNext ==
    \/ program = "adventure" /\ AdvNext /\ UNCHANGED <<program, scott, oth, ox, life, snk>>
    \/ program = "scott" /\ ScottNext /\ UNCHANGED <<program, adv, oth, ox, life, snk>>
    \/ program = "othello" /\ OthNext /\ UNCHANGED <<program, adv, scott, ox, life, snk>>
    \/ program = "ox3d" /\ OxNext /\ UNCHANGED <<program, adv, scott, oth, life, snk>>
    \/ program = "life" /\ LifeNext /\ UNCHANGED <<program, adv, scott, oth, ox, snk>>
    \/ program = "snake" /\ SnakeNext /\ UNCHANGED <<program, adv, scott, oth, ox, life>>

GamesSpec == GamesInit /\ [][GamesNext]_<<program, adv, scott, oth, ox, life, snk>>
=============================================================================
