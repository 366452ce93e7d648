------------------------------- MODULE ScottFree -------------------------------
(***************************************************************************)
(* The Scott Adams adventure interpreter (ScottZX-OSCA.c).  The database is *)
(* a constant.  A pass of PerformActions is one action: the automatic pass  *)
(* that opens a turn, and the pass over a typed command together with the   *)
(* lamp's countdown behind it.  Output and the word length are left out; an *)
(* int has 16 bits, which the shifts of BitFlags depend on.                 *)
(***************************************************************************)
EXTENDS Integers, Sequences, FiniteSets

CONSTANTS
    Actions,      \* lines [verb, noun, conds, acts]; verb 0: noun is a percentage
    Exits,        \* Exits[room]: the rooms behind the six directions, or 0
    InitialLoc,   \* InitialLoc[item]
    AutoGet,      \* AutoGet[item]: the noun that gets it, or 0
    Verbs, Nouns, \* words [text, synonym], a synonym standing for the word before
    Header,       \* [MaxCarry, PlayerRoom, LightTime, TreasureRoom, Treasures]
    TreasureItems,\* items whose text begins with a star
    Typists,      \* who plays
    Typed         \* Typed[p]: what p types, pairs of words

VARIABLE scott    \* the interpreter's globals; `ran` records the lines of the
                  \* last pass that were carried out

CARRIED == 255
DESTROYED == 0
LIGHT_SOURCE == 9
DARKBIT == 15
LIGHTOUTBIT == 16
LongBits == 0..31
ScItems == DOMAIN InitialLoc
Slots == 0..15
NoText == ""

\* 1 << b in 16 bits, widened to the long BitFlags: bit 15 is the sign and fills
\* the upper half, and nothing is left of a one that is shifted further
Shifted(b) == IF b < 15 THEN {b} ELSE IF b = 15 THEN 15..31 ELSE {}

Carried(s) == {i \in ScItems : s.loc[i] = CARRIED}
CountCarried(s) == Cardinality(Carried(s))
\* A slip: compared after the item was counted.
FullLate(s) == CountCarried(s) = Header.MaxCarry + 1
Full(s) == CountCarried(s) = Header.MaxCarry
ItemHere(s, i) == s.loc[i] = s.room
AtHand(s, i) == s.loc[i] \in {CARRIED, s.room}
Limbo == CHOOSE r \in DOMAIN Exits : r + 1 \notin DOMAIN Exits
TooDark(s) == DARKBIT \in s.flags /\ ~AtHand(s, LIGHT_SOURCE)

\* a word's number is that of the last word before it that is no synonym
WhichWord(word, list) ==
    LET same == {n \in DOMAIN list : list[n].text = word}
        main(k) == {n \in 1..k : ~list[n].synonym}
        first == CHOOSE n \in same : \A m \in same : n <= m
    IN  IF same = {} THEN -1
        ELSE CHOOSE n \in main(first) : \A m \in main(first) : m <= n

\* MapSynonym and MatchUpItem: the first item at a place that the noun gets
MatchUpItem(s, word, where) ==
    LET n == WhichWord(word, Nouns)
        found == {i \in ScItems : s.loc[i] = where /\ AutoGet[i] = n}
    IN  IF n = -1 \/ found = {} THEN -1 ELSE CHOOSE i \in found : \A j \in found : i <= j

-----------------------------------------------------------------------------
(* PerformLine                                                             *)

Condition(s, c) ==
    LET v == c[2]
    IN  CASE c[1] = 0 -> TRUE
          [] c[1] = 1 -> s.loc[v] = CARRIED
          [] c[1] = 2 -> ItemHere(s, v)
          [] c[1] = 3 -> AtHand(s, v)
          [] c[1] = 4 -> s.room = v
          [] c[1] = 5 -> ~ItemHere(s, v)
          [] c[1] = 6 -> s.loc[v] # CARRIED
          [] c[1] = 7 -> s.room # v
          [] c[1] = 8 -> s.flags \cap Shifted(v) # {}
          [] c[1] = 9 -> s.flags \cap Shifted(v) = {}
          [] c[1] = 10 -> CountCarried(s) # 0
          [] c[1] = 11 -> CountCarried(s) = 0
          [] c[1] = 12 -> ~AtHand(s, v)
          [] c[1] = 13 -> s.loc[v] # 0
          [] c[1] = 14 -> s.loc[v] = 0
          [] c[1] = 15 -> s.cur <= v
          [] c[1] = 16 -> s.cur > v
          [] c[1] = 17 -> s.loc[v] = InitialLoc[v]
          [] c[1] = 18 -> s.loc[v] # InitialLoc[v]
          [] c[1] = 19 -> s.cur = v

Params(line) == SelectSeq(line.conds, LAMBDA c : c[1] = 0)

AtLeast(n, low) == IF n < low THEN low ELSE n
MoveItem(s, i, where) == [s EXCEPT !.loc[i] = where]

\* the codes for the lamp, the counters and the rooms kept; the rest are messages
LateCode(s, code, x, y) ==
    LET Used(t, n) == [t EXCEPT !.at = s.at + n]
    IN  CASE code = 69 -> [MoveItem(s, LIGHT_SOURCE, CARRIED) EXCEPT
                              !.light = Header.LightTime, !.flags = @ \ Shifted(LIGHTOUTBIT)]
          [] code = 72 -> Used([s EXCEPT !.loc[x] = s.loc[y], !.loc[y] = s.loc[x]], 2)
          [] code = 73 -> [s EXCEPT !.again = TRUE]
          [] code = 74 -> Used(MoveItem(s, x, CARRIED), 1)
          [] code = 75 -> Used(MoveItem(s, x, s.loc[y]), 2)
          [] code = 77 -> [s EXCEPT !.cur = IF @ >= 0 THEN @ - 1 ELSE @]
          [] code = 79 -> Used([s EXCEPT !.cur = x], 1)
          [] code = 80 -> [s EXCEPT !.room = s.saved, !.saved = s.room]
          [] code = 81 -> Used([s EXCEPT !.cur = s.counters[x], !.counters[x] = s.cur], 1)
          [] code = 82 -> Used([s EXCEPT !.cur = @ + x], 1)
          [] code = 83 -> Used([s EXCEPT !.cur = AtLeast(@ - x, -1)], 1)
          [] code = 87 -> Used([s EXCEPT !.room = s.rooms[x], !.rooms[x] = s.room], 1)
          [] code = 89 -> Used(s, 1)
          [] OTHER -> s

\* one action code; x and y are the parameters at the pointer `at`
ActionCode(s, code, x, y) ==
    LET Used(t, n) == [t EXCEPT !.at = s.at + n]
    IN  CASE code = 52 -> IF Full(s) THEN s   \* no parameter used
                          ELSE Used(MoveItem(s, x, CARRIED), 1)
          [] code = 53 -> Used(MoveItem(s, x, s.room), 1)
          [] code = 54 -> Used([s EXCEPT !.room = x], 1)
          [] code \in {55, 59} -> Used(MoveItem(s, x, DESTROYED), 1)
          [] code = 56 -> [s EXCEPT !.flags = @ \cup Shifted(DARKBIT)]
          [] code = 57 -> [s EXCEPT !.flags = @ \ Shifted(DARKBIT)]
          [] code = 58 -> Used([s EXCEPT !.flags = @ \cup Shifted(x)], 1)
          [] code = 60 -> Used([s EXCEPT !.flags = @ \ Shifted(x)], 1)
          [] code = 61 -> [s EXCEPT !.flags = @ \ Shifted(DARKBIT),
                                    !.room = Limbo]
          [] code = 62 -> Used(MoveItem(s, x, y), 2)
          [] code = 63 -> [s EXCEPT !.over = TRUE]
          [] code = 65 -> [s EXCEPT !.over = Header.Treasures = Cardinality(
                              {i \in TreasureItems : s.loc[i] = Header.TreasureRoom})]
          [] code = 67 -> [s EXCEPT !.flags = @ \cup {0}]
          [] code = 68 -> [s EXCEPT !.flags = @ \ {0}]
          [] OTHER -> LateCode(s, code, x, y)

\* the four codes in order, until one of them ends the game
FourCodes(s, line) ==
    LET p == Params(line)
        Param(k) == IF k \in DOMAIN p THEN p[k][2] ELSE 0
        after[k \in 0..Len(line.acts)] ==
            IF k = 0 THEN [s EXCEPT !.at = 1, !.again = FALSE]
            ELSE LET t == after[k - 1]
                 IN  IF t.over THEN t ELSE ActionCode(t, line.acts[k], Param(t.at), Param(t.at + 1))
    IN  after[Len(line.acts)]

PerformLine(s, line) == IF \A k \in DOMAIN line.conds : Condition(s, line.conds[k])
                        THEN [s |-> FourCodes(s, line), done |-> TRUE]
                        ELSE [s |-> s, done |-> FALSE]

-----------------------------------------------------------------------------
(* PerformActions                                                          *)

Vocab(ct) == <<Actions[ct].verb, Actions[ct].noun>>
Continues(ct) == ct \in DOMAIN Actions /\ Vocab(ct) = <<0, 0>>

Leave(w, ct, vb) == vb # 0 /\ IF w.doagain THEN ~Continues(ct) ELSE w.fl = 0

\* w = [s, fl, doagain, stop]; luck: the percentages that RandomPercent grants
TryLine(w, ct, vb, no, luck) ==
    LET a == Actions[ct]
        chosen == \/ w.doagain /\ (Continues(ct) \/ a.verb = vb)
                  \/ a.verb = vb /\ vb = 0 /\ (a.noun = 100 \/ ct \in luck)
                  \/ a.verb = vb /\ vb # 0 /\ a.noun \in {no, 0}
        Tried(r) ==
            IF ~r.done THEN [w EXCEPT !.fl = IF @ = -1 THEN -2 ELSE @, !.stop = r.s.over]
            ELSE LET again == w.doagain \/ r.s.again
                 IN  [s |-> [r.s EXCEPT !.ran = Append(@, ct)], fl |-> 0, doagain |-> again,
                      stop |-> r.s.over \/ (vb # 0 /\ ~again)]
    IN  IF w.stop \/ Leave(w, ct, vb) THEN [w EXCEPT !.stop = TRUE]
        ELSE [(IF chosen THEN Tried(PerformLine(w.s, a)) ELSE w)
                 EXCEPT !.doagain = @ /\ Continues(ct + 1)]

RunLines(s, vb, no, luck) ==
    LET after[ct \in 0..Len(Actions)] ==
            IF ct = 0 THEN [s |-> s, fl |-> -1, doagain |-> FALSE, stop |-> FALSE]
            ELSE TryLine(after[ct - 1], ct, vb, no, luck)
    IN  after[Len(Actions)]

\* a direction; in the dark a way that does not exist breaks the neck
GoDirection(s, no) ==
    LET nl == Exits[s.room][no]
    IN  IF nl # 0 THEN [s EXCEPT !.room = nl]
        ELSE IF TooDark(s) THEN [s EXCEPT !.over = TRUE] ELSE s

\* GET ALL and DROP ALL: the lines for each item first, then the item itself
GetDropAll(s, vb) ==
    LET from(t) == IF vb = 10 THEN t.room ELSE CARRIED
        last == Cardinality(ScItems) - 1
        Moved(t, i) ==
            IF t.over THEN [s |-> t, full |-> FALSE]
            ELSE IF vb = 10 /\ Full(t) THEN [s |-> t, full |-> TRUE]
            ELSE [s |-> MoveItem(t, i, IF vb = 10 THEN CARRIED ELSE t.room), full |-> FALSE]
        each[i \in -1..last] ==
            IF i = -1 THEN [s |-> s, full |-> FALSE]
            ELSE LET b == each[i - 1]
                 IN  IF b.full \/ b.s.over \/ b.s.loc[i] # from(b.s) \/ AutoGet[i] = 0 THEN b
                     ELSE Moved([RunLines(b.s, vb, AutoGet[i], {}).s EXCEPT !.ran = b.s.ran], i)
    IN  each[last].s

\* the built in GET (verb 10) and DROP (verb 18), when no line took the command
BuiltIn(s, vb, no, text, dark) ==
    LET i == MatchUpItem(s, text, IF vb = 10 THEN s.room ELSE CARRIED)
    IN  IF text = "ALL" THEN IF vb = 10 /\ dark THEN s ELSE GetDropAll(s, vb)
        ELSE IF no = -1 \/ i = -1 THEN s
        ELSE IF vb = 18 THEN MoveItem(s, i, s.room)
        ELSE IF Full(s) THEN s ELSE MoveItem(s, i, CARRIED)

PerformActions(s, vb, no, text, luck) ==
    LET fresh == [s EXCEPT !.ran = <<>>]
        Untaken(w) == w.fl # 0 /\ ~w.s.over /\ vb \in {10, 18}
        Done(w) ==
            IF Untaken(w)
            THEN BuiltIn(w.s, vb, no, text, DARKBIT \in s.flags /\ ~AtHand(w.s, LIGHT_SOURCE))
            ELSE w.s
    IN  IF vb = 1 /\ no = -1 THEN fresh
        ELSE IF vb = 1 /\ no \in 1..6 THEN GoDirection(fresh, no)
        ELSE Done(RunLines(fresh, vb, no, luck))

\* the lamp burns after every command while it is anywhere; -1 is for ever
Burn(s) ==
    IF s.loc[LIGHT_SOURCE] = DESTROYED \/ s.light = -1 THEN s
    ELSE [s EXCEPT !.light = @ - 1,
                   !.flags = IF s.light - 1 < 1 THEN @ \cup Shifted(LIGHTOUTBIT) ELSE @]

-----------------------------------------------------------------------------
\* LoadDatabase, and the globals C clears
ScottStart(p) ==
    [loc |-> InitialLoc, room |-> Header.PlayerRoom, light |-> Header.LightTime,
     flags |-> {}, cur |-> 0, counters |-> [k \in Slots |-> 0], saved |-> 0,
     rooms |-> [k \in Slots |-> 0], over |-> FALSE, turn |-> "auto",
     at |-> 1, again |-> FALSE, ran |-> <<>>, vb |-> 0, player |-> p]

ScottInit == \E p \in Typists : scott = ScottStart(p)

Settled(s, turn, vb) == [s EXCEPT !.turn = turn, !.vb = vb, !.at = 1, !.again = FALSE]

ScottAuto ==
    /\ scott.turn = "auto" /\ ~scott.over
    /\ \E luck \in SUBSET {ct \in DOMAIN Actions : Actions[ct].verb = 0 /\ Actions[ct].noun \in 1..99} :
           scott' = Settled(PerformActions(scott, 0, 0, NoText, luck), "input", 0)

\* GetInput asks again while the verb is unknown; a direction needs no verb
ScottInput ==
    /\ scott.turn = "input" /\ ~scott.over
    /\ \E line \in Typed[scott.player] :
         LET nc == WhichWord(line[1], Nouns)
             vb == IF nc \in 1..6 THEN 1 ELSE WhichWord(line[1], Verbs)
             no == IF nc \in 1..6 THEN nc ELSE WhichWord(line[2], Nouns)
             Lit(s) == IF s.over THEN s ELSE Burn(s)
         IN  /\ vb # -1
             /\ scott' = Settled(Lit(PerformActions(scott, vb, no, line[2], {})), "auto", vb)

ScottNext == ScottAuto \/ ScottInput
ScottSpec == ScottInit /\ [][ScottNext]_scott

-----------------------------------------------------------------------------
ScottTypeOK ==
    /\ scott.loc \in [ScItems -> 0..255]
    /\ scott.room \in DOMAIN Exits
    /\ scott.flags \subseteq LongBits
    /\ scott.turn \in {"auto", "input"}

\* A command carries out the first of its lines whose conditions hold, and
\* besides it only lines without a vocabulary; such a line never runs on its own,
\* but directly behind the line that asked for it or another such line.
OneLinePerCommand ==
    LET ran == scott.ran
    IN  \A k \in DOMAIN ran :
           /\ Continues(ran[k]) =>
                 \E j \in 1 .. k - 1 : /\ ~Continues(ran[j])
                                       /\ \A ct \in ran[j] + 1 .. ran[k] : Continues(ct)
           /\ scott.vb # 0 /\ k > 1 => Continues(ran[k])

\* However often items are got, taken by lines and by ALL, the hands never hold
\* more than MaxCarry, which the code compares for equality (in a database whose
\* lines give nothing away over the limit; actions 69, 72 and 74 do not ask).
HandsWithinLimit == CountCarried(scott) <= Header.MaxCarry

\* Counters never fall below -1, the value a database tests for "run out",
\* whatever is added, taken off, and swapped with the saved ones.
CountersRunOut ==
    /\ scott.cur >= -1
    /\ \A k \in Slots : scott.counters[k] >= -1

\* The lamp's countdown stops at -1 and the darkness flag is one: the bits the
\* sign fills are set and cleared together, so no flag of the upper half of
\* BitFlags outlives the darkness.
LampAndDarkness ==
    /\ scott.light >= -1
    /\ scott.flags \cap (15..31) \in {{}, 15..31}

\* The interpreter keeps the database's own bounds: lines, hands, counters and
\* lamp, over any sequence of commands and of lines that run by chance.
ScottSound ==
    ScottTypeOK /\ OneLinePerCommand /\ HandsWithinLimit /\ CountersRunOut /\ LampAndDarkness
=============================================================================
