------------------------------ MODULE AdventureA ------------------------------
(***************************************************************************)
(* Adventure A (adv_a.c), built without PICS, TAPE or DISK.  The game is a  *)
(* table of verb and noun entries, each guarded by predicates and carried   *)
(* out by a list of action codes.  It reads a line at the prompt of SH_TELL *)
(* and an answer after SH_QUIT and SH_DEAD; whatever lies between two reads *)
(* is one action here.  Words are the first four letters that GET_TOK keeps, *)
(* texts are left out.                                                      *)
(***************************************************************************)
EXTENDS Integers, Sequences, FiniteSets, TLC

CONSTANTS Players,  \* who plays
          Lines     \* Lines[p]: the lines p types, sequences of words

VARIABLE adv        \* [rm, loc, gv, next]: CUR_RM, naItemLoc, GVARS and
                    \* nNextParseAction, or the question being asked; p: who plays

NOTX == 252
ITEM_WORN == 253
ITEM_HELD == 254
Items == 0..27
Rooms == 0..20
Gvars == 0..12                \* the game uses none above GVAR_0c
NO_ITEMS == 1
MaxHeld == 6
Nothing == "????"             \* 0xff: a word that is no token, or no word
Pairs == {7, 14, 16, 18, 20}  \* the first items of the pairs SH_SWAP exchanges

naItemStart ==
    LET start == <<5, 17, 14, 6, 17, NOTX, NOTX, 12, NOTX, 13, NOTX, 5, NOTX, NOTX,
                   11, NOTX, 12, NOTX, 19, NOTX, 19, NOTX, 16, 16, 0, 1, 2, 15>>
    IN  [i \in Items |-> start[i + 1]]

Synonyms == ("D" :> "DOWN" @@ "N" :> "NORT" @@ "S" :> "SOUT" @@ "E" :> "EAST" @@ "W" :> "WEST"
    @@ "PICK" :> "GET" @@ "PUT" :> "DROP" @@ "SHOO" :> "FIRE" @@ "MOTO" :> "STAR" @@ "LASE" :> "GUN"
    @@ "BARS" :> "BAR" @@ "GOLD" :> "COIN" @@ "FLOO" :> "BOAR" @@ "PLAN" :> "BOAR" @@ "BLOC" :> "ICE"
    @@ "POOL" :> "WATE" @@ "LAKE" :> "WATE" @@ "SLEE" :> "MAN" @@ "GREE" :> "MAN" @@ "UNLO" :> "OPEN"
    @@ "SMAL" :> "SHIP" @@ "SPAC" :> "SHIP" @@ "I" :> "INVE" @@ "STOP" :> "QUIT" @@ "ABOR" :> "QUIT"
    @@ "Y" :> "YES" @@ "KEYB" :> "COMP" @@ "WALT" :> "DANC" @@ "KICK" :> "BREA" @@ "HIT" :> "BREA"
    @@ "BANG" :> "BREA" @@ "WITH" :> "USE" @@ "3" :> "THRE" @@ "2" :> "TWO" @@ "1" :> "ONE"
    @@ "FIX" :> "MEND" @@ "REPA" :> "MEND" @@ "4" :> "FOUR" @@ "SAW" :> "CUT" @@ "U" :> "UP"
    @@ "CLIM" :> "UP" @@ "R" :> "REDE" @@ "SHIE" :> "FIEL")

Tokens == {"DOWN", "NORT", "SOUT", "EAST", "WEST", "GET", "DROP", "FIRE", "BOOT", "STAR", "KEY",
    "GUN", "USED", "BAR", "COIN", "MIRR", "BROK", "GLOV", "ROPE", "BOAR", "STAL", "ICE", "WATE",
    "MAN", "DOOR", "OPEN", "WIND", "SHIP", "SECU", "FLIN", "STON", "DRAW", "HELP", "INVE", "QUIT",
    "YES", "NO", "COMP", "TYPE", "TURN", "HAND", "KILL", "DANC", "REMO", "BREA", "BRIB", "USE",
    "PUSH", "THRE", "TWO", "ONE", "MEND", "FOUR", "LOOK", "STAN", "TREE", "CUT", "WEAR", "CROS",
    "JUMP", "RAVI", "UP", "FUSE", "REDE", "MAIN", "AUX", "FIEL"}

GET_TOK(word) ==
    IF word \in Tokens THEN word
    ELSE IF word \in DOMAIN Synonyms THEN Synonyms[word] ELSE Nothing

\* DIR_V: the exits of each room; room 20 shares the empty list of room 19
DIR_V ==
    LET Maze(n, s, e, w) == "DOWN" :> 7 @@ "NORT" :> n @@ "SOUT" :> s @@ "EAST" :> e @@ "WEST" :> w
    IN  0 :> ("DOWN" :> 3 @@ "EAST" :> 2 @@ "WEST" :> 1) @@ 1 :> ("EAST" :> 0)
     @@ 2 :> ("NORT" :> 7 @@ "WEST" :> 0) @@ 3 :> ("SOUT" :> 4 @@ "WEST" :> 0)
     @@ 4 :> ("NORT" :> 3 @@ "EAST" :> 5) @@ 5 :> ("NORT" :> 4)
     @@ 7 :> Maze(8, 7, 7, 7) @@ 8 :> Maze(7, 9, 7, 7) @@ 9 :> Maze(7, 7, 10, 7)
     @@ 10 :> Maze(2, 7, 7, 11) @@ 11 :> ("EAST" :> 7)
     @@ 12 :> ("SOUT" :> 15 @@ "EAST" :> 13 @@ "WEST" :> 19) @@ 14 :> ("WEST" :> 13)
     @@ 15 :> ("EAST" :> 19 @@ "WEST" :> 19)
     @@ 16 :> ("NORT" :> 15 @@ "SOUT" :> 19 @@ "EAST" :> 17)
     @@ 17 :> ("WEST" :> 16) @@ 18 :> ("EAST" :> 16)
     @@ [r \in {6, 13, 19, 20} |-> <<>>]

-----------------------------------------------------------------------------
(* Predicates: <<code, parameter, second parameter>>, PRED_V.              *)

Held(g, i) == g.loc[i] \in {ITEM_HELD, ITEM_WORN}
Present(g, i) == g.loc[i] = g.rm \/ g.loc[i] >= ITEM_WORN

Holds(g, p) ==
    CASE p[1] = "ROOM" -> g.rm = p[2]
      [] p[1] = "HERE" -> Present(g, p[2])
      [] p[1] = "AWAY" -> ~Present(g, p[2])
      [] p[1] = "WORN" -> g.loc[p[2]] = ITEM_WORN
      [] p[1] = "HELD" -> Held(g, p[2])
      [] p[1] = "SETF" -> g.gv[p[2]] # 0
      [] p[1] = "CLRF" -> g.gv[p[2]] = 0
      [] p[1] = "GVAR" -> g.gv[p[2]] = p[3]

R(n) == <<"ROOM", n>>
H(n) == <<"HERE", n>>
A(n) == <<"AWAY", n>>
W(n) == <<"WORN", n>>
C(n) == <<"HELD", n>>
F(n) == <<"SETF", n>>
Z(n) == <<"CLRF", n>>
T(n, v) == <<"GVAR", n, v>>

-----------------------------------------------------------------------------
(* Action codes.  A handler that leaves nNextParseAction at NA_CONTINUE     *)
(* lets the list go on; any other value ends it.                            *)

Stop(g, next) == [g EXCEPT !.next = next]
Put(g, i, where) == [g EXCEPT !.loc[i] = where]

SH_REMO(g, i) ==
    IF g.loc[i] # ITEM_WORN \/ g.gv[NO_ITEMS] = MaxHeld THEN Stop(g, "AUTO")
    ELSE [Put(g, i, ITEM_HELD) EXCEPT !.gv[NO_ITEMS] = @ + 1]

SH_GET(g, i) ==
    IF g.gv[NO_ITEMS] = MaxHeld \/ g.loc[i] # g.rm THEN Stop(g, "AUTO")
    ELSE [Put(g, i, ITEM_HELD) EXCEPT !.gv[NO_ITEMS] = @ + 1]

SH_DROP(g, i) ==
    CASE g.loc[i] = ITEM_WORN -> Put(g, i, g.rm)
      [] g.loc[i] = ITEM_HELD -> [Put(g, i, g.rm) EXCEPT !.gv[NO_ITEMS] = @ - 1]
      [] OTHER -> Stop(g, "AUTO")

SH_WEAR(g, i) ==
    IF g.loc[i] = ITEM_HELD
    THEN [Put(g, i, ITEM_WORN) EXCEPT !.gv[NO_ITEMS] = @ - 1]
    ELSE Stop(g, "AUTO")

\* A slip: the first location is overwritten before it is kept.
SH_SWAPHalf(g, i) == [g EXCEPT !.loc[i + 1] = g.loc[i]]
SH_SWAP(g, i) == [g EXCEPT !.loc[i] = g.loc[i + 1], !.loc[i + 1] = g.loc[i]]
SH_CREA(g, i) == Put(g, i, g.rm)
SH_DEST(g, i) == Put(g, i, NOTX)
SH_SETV(g, v, n) == [g EXCEPT !.gv[v] = n]

\* SYS_V
Perform(g, a) ==
    CASE a[1] = "REMO" -> SH_REMO(g, a[2])
      [] a[1] = "GET"  -> SH_GET(g, a[2])
      [] a[1] = "DROP" -> SH_DROP(g, a[2])
      [] a[1] = "WEAR" -> SH_WEAR(g, a[2])
      [] a[1] = "GOTO" -> [g EXCEPT !.rm = a[2]]
      [] a[1] = "SETV" -> SH_SETV(g, a[2], a[3])
      [] a[1] = "SWAP" -> SH_SWAP(g, a[2])
      [] a[1] = "CREA" -> SH_CREA(g, a[2])
      [] a[1] = "DEST" -> SH_DEST(g, a[2])
      [] a[1] = "NEXT" -> Stop(g, a[2])

Get(i) == <<"GET", i>>
Drop(i) == <<"DROP", i>>
Goto(r) == <<"GOTO", r>>
Setv(v, n) == <<"SETV", v, n>>
Setf(v) == Setv(v, 255)
Clrf(v) == Setv(v, 0)
Swap(i) == <<"SWAP", i>>
Crea(i) == <<"CREA", i>>
Dest(i) == <<"DEST", i>>
Auto == <<"NEXT", "AUTO">>     \* SH_AUTO, SH_OK and SH_INVE
Rede == <<"NEXT", "MAIN">>     \* SH_REDE
Dead == <<"NEXT", "DEAD">>     \* SH_DEAD asks whether to try again
Quit == <<"NEXT", "QUIT">>     \* SH_QUIT asks whether to continue

-----------------------------------------------------------------------------
(* vndDefinitions: verb, noun, predicates, actions; the first entry that    *)
(* fits is carried out.                                                     *)

Portable == << <<"BOOT", 0>>, <<"STAR", 1>>, <<"KEY", 2>>, <<"GUN", 3>>, <<"BAR", 5>>,
    <<"COIN", 6>>, <<"MIRR", 7>>, <<"MIRR", 8>>, <<"BROK", 8>>, <<"GLOV", 9>>, <<"ROPE", 10>>,
    <<"BOAR", 11>>, <<"BOAR", 12>>, <<"BROK", 12>>, <<"STAL", 13>>, <<"ICE", 14>>,
    <<"FLIN", 24>>, <<"STON", 25>> >>

GetEntries == [k \in DOMAIN Portable |->
    LET i == Portable[k][2]
    IN  <<"GET", Portable[k][1], IF i = 7 THEN <<H(i), A(16)>> ELSE <<H(i)>>,
          IF i = 14 THEN <<Get(i), Setv(2, 9), Auto>> ELSE <<Get(i), Auto>> >>]

\* the entry that should drop the broken board answers to FIRE
DropEntries == [k \in DOMAIN Portable |->
    <<IF Portable[k] = <<"BROK", 12>> THEN "FIRE" ELSE "DROP", Portable[k][1],
      <<H(Portable[k][2])>>, <<Drop(Portable[k][2]), Auto>> >>]

UseEntries == <<
    <<"USE", "ICE", <<R(2), H(14)>>, <<Crea(13), Auto>> >>,
    <<"USE", "FLIN", <<R(3), H(24)>>, <<Crea(10), Auto>> >>,
    <<"WEAR", "BOOT", <<>>, << <<"WEAR", 0>>, Auto>> >>,
    <<"REMO", "BOOT", <<>>, << <<"REMO", 0>>, Auto>> >>,
    <<"USE", "BOAR", <<R(4), H(11)>>, <<Goto(6), Rede>> >>,
    <<"USE", "BOAR", <<R(6), H(11)>>, <<Goto(4), Dest(11), Crea(12), Rede>> >>,
    <<"JUMP", "RAVI", <<R(4), H(11)>>, <<Dead>> >>,
    <<"JUMP", "RAVI", <<R(6)>>, <<Dead>> >>,
    <<"USE", "ICE", <<R(11), C(14)>>, <<Goto(12), Drop(14), Swap(14), Setv(2, 7), Rede>> >>,
    <<"GET", "MAN", <<H(16), H(9), W(9)>>, <<Get(16), Swap(16), Setv(5, 10), Clrf(6), Auto>> >>,
    <<"GET", "MAN", <<H(16), H(9)>>, <<Get(16), Swap(16), Auto>> >>,
    <<"GET", "MAN", <<H(16)>>, <<Get(16), Swap(16), Setv(5, 10), Clrf(6), Auto>> >>,
    <<"DROP", "MAN", <<H(17)>>, <<Drop(17), Auto>> >>,
    <<"USE", "GUN", <<H(16), H(3)>>, <<Dest(16), Swap(7), Auto>> >>,
    <<"USE", "GUN", <<H(17), H(3), C(17)>>, <<Auto>> >>,
    <<"USE", "GUN", <<H(17), H(3)>>, <<Dest(17), Auto>> >>,
    <<"FIEL", Nothing, <<R(15), Z(7), H(3)>>, <<Setf(7), Auto>> >>,
    <<"FIEL", Nothing, <<F(7), Z(8), R(15), H(3)>>, <<Setf(8), Auto>> >>,
    <<"DANC", Nothing, <<R(15), C(7), F(8)>>, <<Goto(16), Setv(2, 9), Rede>> >>,
    <<"DANC", Nothing, <<R(15)>>, <<Goto(19), Rede>> >> >>

ShipEntries == <<
    <<"USE", "KEY", <<R(16), H(2)>>, <<Goto(18), Rede>> >>,
    <<"KILL", "SECU", <<R(16), H(3)>>, <<Dest(23), Auto>> >>,
    <<"BREA", "BAR", <<R(19)>>, <<Swap(20), Crea(5), Rede>> >>,
    <<"UP", Nothing, <<R(19), H(21)>>, <<Goto(12), Swap(20), Rede>> >>,
    <<"USE", "COIN", <<R(19), H(6)>>, <<Swap(18), Dest(6), Rede>> >>,
    <<"DOOR", Nothing, <<R(19), H(19)>>, <<Goto(12), Swap(18), Rede>> >>,
    <<"WATE", Nothing, <<R(4), A(6), W(0), H(0)>>, <<Crea(6), Get(6), Auto>> >>,
    <<"OPEN", "DOOR", <<R(13)>>, <<Goto(14), Rede>> >> >>

LiftEntries == <<
    <<"PUSH", "THRE", <<R(18), Z(9), Z(10)>>, <<Setv(9, 1), Auto>> >>,
    <<"PUSH", "THRE", <<R(18), Z(10)>>, <<Clrf(9), Setf(10), Auto>> >>,
    <<"PUSH", "TWO", <<R(18), T(9, 1), Z(10)>>, <<Setv(9, 2), Auto>> >>,
    <<"PUSH", "TWO", <<R(18), Z(10)>>, <<Clrf(9), Setf(10), Auto>> >>,
    <<"PUSH", "ONE", <<R(18), T(9, 2), Z(10)>>, <<Setv(9, 3), Auto>> >>,
    <<"PUSH", "ONE", <<R(18), Z(10)>>, <<Clrf(9), Setf(10), Auto>> >>,
    <<"USE", "BAR", <<R(18), H(5), F(10)>>, <<Clrf(10), Dest(5), Auto>> >>,
    <<"WEST", Nothing, <<R(13)>>, <<Goto(12), Setv(2, 7), Rede>> >>,
    <<"NORT", Nothing, <<R(15)>>, <<Goto(12), Setv(2, 7), Rede>> >>,
    <<"WEAR", "GLOV", <<>>, << <<"WEAR", 9>>, Auto>> >>,
    <<"REMO", "GLOV", <<>>, << <<"REMO", 9>>, Auto>> >>,
    <<"REDE", Nothing, <<>>, <<Rede>> >>,
    <<"USE", "ROPE", <<R(1), C(10)>>, <<Setf(11), Drop(10), Goto(12), Rede>> >>,
    <<"UP", "ROPE", <<R(12), F(11)>>, <<Goto(1), Rede>> >>,
    <<"SHIP", Nothing, <<H(22)>>, <<Goto(20), Rede>> >>,
    <<"PUSH", "MAIN", <<R(20), H(1)>>, <<Dead>> >>,
    <<"PUSH", "AUX", <<R(20), H(1)>>, <<Setf(12), Auto>> >>,
    <<"PUSH", "THRE", <<R(20), F(12)>>, <<Dead>> >>,
    <<"PUSH", "TWO", <<R(20), F(12)>>, <<Dead>> >>,
    <<"PUSH", "FOUR", <<R(20), F(12), T(9, 3)>>, <<Quit>> >>,
    <<"PUSH", "ONE", <<R(20), F(12), W(0), T(9, 3)>>, <<Quit>> >>,
    <<"PUSH", "ONE", <<R(20), F(12), T(9, 3)>>, <<Dead>> >> >>

\* the entries left out only print (LOOK, HELP, INVE and the like)
vndDefinitions == GetEntries \o << <<"QUIT", Nothing, <<>>, <<Quit>> >> >>
                  \o DropEntries \o UseEntries \o ShipEntries \o LiftEntries

\* AUT_LST up to its last entry, SH_TELL, which always fits
AUT_LST == <<
    << <<T(5, 1), F(6)>>, <<Dead>> >>,
    << <<T(2, 1), H(16)>>, <<Dead>> >>,
    << <<T(2, 1), H(17)>>, <<Dead>> >>,
    << <<T(2, 1), H(23)>>, <<Dead>> >>,
    << <<T(2, 1), H(14)>>, <<Swap(14)>> >> >>

-----------------------------------------------------------------------------
Satisfied(g, preds) == \A k \in DOMAIN preds : Holds(g, preds[k])

Fits(g, e, verb, noun) ==
    /\ e[1] = verb
    /\ e[2] \in {Nothing, noun}
    /\ Satisfied(g, e[3])

Carry(g, actions) ==
    LET after[k \in 0..Len(actions)] ==
            IF k = 0 THEN [g EXCEPT !.next = "CONTINUE"]
            ELSE IF after[k - 1].next # "CONTINUE" THEN after[k - 1]
            ELSE Perform(after[k - 1], actions[k])
    IN  after[Len(actions)]

First(S) == CHOOSE k \in S : \A j \in S : k <= j

\* PARSE_LP until an entry is carried out or the list ends
Parse(g, verb, noun) ==
    LET fitting == {k \in DOMAIN vndDefinitions : Fits(g, vndDefinitions[k], verb, noun)}
    IN  IF fitting = {} THEN Stop(g, "AUTO")
        ELSE Carry(g, vndDefinitions[First(fitting)][4])

\* the first token of the line is the verb, the next one the noun
Words(line) == LET toks == [k \in DOMAIN line |-> GET_TOK(line[k])]
               IN  SelectSeq(toks, LAMBDA t : t # Nothing)

SH_TELL(g, line) ==
    LET toks == Words(line)
        verb == toks[1]
        noun == IF Len(toks) > 1 THEN toks[2] ELSE Nothing
    IN  IF toks = <<>> THEN Stop(g, "AUTO")
        ELSE IF verb \in DOMAIN DIR_V[g.rm]
        THEN [g EXCEPT !.rm = DIR_V[g.rm][verb], !.next = "MAIN"]
        ELSE Parse(g, verb, noun)

Less(n) == IF n > 0 THEN n - 1 ELSE 0

\* main: a dark room uses up GVAR_03, and GVAR_04 when item 0 is not there
EnterRoom(g) ==
    IF g.gv[0] = 0 THEN g
    ELSE [g EXCEPT !.gv[3] = Less(@), !.gv[4] = IF g.loc[0] = g.rm THEN @ ELSE Less(@)]

\* the automatic entries, then the countdowns SH_TELL begins with
Automatic(g) ==
    LET fitting == {k \in DOMAIN AUT_LST : Satisfied(g, AUT_LST[k][1])}
        done == IF fitting = {} THEN g ELSE Carry(g, AUT_LST[First(fitting)][2])
    IN  IF done.next = "DEAD" THEN done
        ELSE [done EXCEPT !.next = "TELL", !.gv[2] = Less(@), !.gv[5] = Less(@)]

Proceed(g) ==
    CASE g.next = "MAIN" -> Automatic(EnterRoom(g))
      [] g.next = "AUTO" -> Automatic(g)
      [] OTHER -> g

Fresh(p) == Automatic([rm |-> 0, loc |-> naItemStart, gv |-> [v \in Gvars |-> 0],
                       next |-> "AUTO", player |-> p])

AdvInit == \E p \in Players : adv = Fresh(p)

Command ==
    /\ adv.next = "TELL"
    /\ \E line \in Lines[adv.player] : adv' = Proceed(SH_TELL(adv, line))

\* "do you wish to continue"
Continue ==
    /\ adv.next = "QUIT"
    /\ \/ adv' = Automatic(adv)
       \/ adv' = Stop(adv, "DEAD")

\* "do you wish to try again": main clears everything, or the program exits
TryAgain ==
    /\ adv.next = "DEAD"
    /\ \/ adv' = Fresh(adv.player)
       \/ adv' = Stop(adv, "EXIT")

AdvNext == Command \/ Continue \/ TryAgain
AdvSpec == AdvInit /\ [][AdvNext]_adv

-----------------------------------------------------------------------------
AdvTypeOK ==
    /\ adv.rm \in Rooms
    /\ adv.loc \in [Items -> Rooms \cup {NOTX, ITEM_WORN, ITEM_HELD}]
    /\ adv.gv \in [Gvars -> 0..255]
    /\ adv.next \in {"TELL", "QUIT", "DEAD", "EXIT"}

\* The count the hands are compared with covers what they hold and never passes
\* six.  (It may exceed it: SH_DEST and SH_CREA take a held item away and leave
\* the count, so a bar that is broken off again and again fills empty hands.)
HandsCountCovers ==
    /\ Cardinality({i \in Items : adv.loc[i] = ITEM_HELD}) <= adv.gv[NO_ITEMS]
    /\ adv.gv[NO_ITEMS] <= MaxHeld

\* Of two items that SH_SWAP exchanges (mirror and glass, ice and water, the man
\* on and off the mirror, door shut and open, window and hole) one at most is in
\* play, whatever was got, dropped, destroyed and created in between.
OneOfEachPair == \A i \in Pairs : adv.loc[i] = NOTX \/ adv.loc[i + 1] = NOTX

\* The lift code is never half entered while the fuse is blown, and once it is
\* complete only a restart or another push of a switch can undo it.
FuseResetsCode ==
    /\ adv.gv[10] # 0 => adv.gv[9] = 0
    /\ adv.gv[9] = 3 => adv.gv[10] = 0

\* Whatever order the table's lines are carried out in, the world stays one the
\* story knows: items, the count of those held, and the lift's code agree.
AdventureSound == AdvTypeOK /\ HandsCountCovers /\ OneOfEachPair /\ FuseResetsCode
=============================================================================
