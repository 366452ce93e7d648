-------------------------------- MODULE Grep --------------------------------
(***************************************************************************)
(* grep (Contributions/Stefano/grep): the pattern is compiled to bytes, a   *)
(* matcher that calls itself walks bytes and line together, and the lines   *)
(* of each file are printed, counted, numbered or left out by the flags.    *)
(* A character is its code; the line buffer keeps what longer lines left    *)
(* behind the zero that ends the line in it.                                *)
(***************************************************************************)
EXTENDS Integers, Sequences, FiniteSets

CONSTANTS
  Patterns,   \* patterns tried: sequences of character codes
  Flags,      \* the sets of flags given: subsets of {"c", "f", "n", "v"}
  Texts,      \* what the files hold: a set of sequences of lines
  MaxFiles,   \* bound: this many files are named
  LMAX, PMAX  \* sizes of the line and of the pattern buffer

VARIABLE g

ASSUME GrepAssumption == {LMAX, PMAX, MaxFiles} \subseteq Nat /\ LMAX > 2

NL == 10
Dollar == 36
Star == 42
Plus == 43
Minus == 45
Dot == 46
Colon == 58
OpenBracket == 91
Quote == 92
CloseBracket == 93
Caret == 94

CHAR == 1
BOL == 2
EOL == 3
ANY == 4
CLASS == 5
NCLASS == 6
STAR == 7
PLUS == 8
MINUS == 9
ALPHA == 10
DIGIT == 11
NALPHA == 12
PUNCT == 13
RANGE == 14
ENDPAT == 15

tolower(c) == IF c \in 65..90 THEN c + 32 ELSE c

-----------------------------------------------------------------------------
(* compile.  A state of it is [s, pp, lp, bad]: the source still to read, the
   bytes stored, where the last element begins, and what was wrong. *)

store(b, bytes) == IF Len(b.pp) + Len(bytes) > PMAX THEN [b EXCEPT !.bad = "too complex", !.s = <<>>]
                   ELSE [b EXCEPT !.pp = @ \o bytes]
badpat(b, why) == [b EXCEPT !.bad = why, !.s = <<>>]
Skip(b, n) == [b EXCEPT !.s = SubSeq(@, n + 1, Len(@))]

\* The inside of [ ], from the count byte at position cp on.
RECURSIVE ClassBody(_, _)
ClassBody(b, cp) ==
  LET n == Len(b.pp)
  IN IF b.s = <<>> THEN IF b.bad # "" THEN b ELSE badpat(b, "unterminated")
     ELSE IF b.s[1] = CloseBracket THEN Skip([b EXCEPT !.pp[cp] = n - cp + 1], 1)
     ELSE IF b.s[1] = Quote
          THEN IF Len(b.s) = 1 THEN badpat(b, "terminates badly")
               ELSE ClassBody(store(Skip(b, 2), <<tolower(b.s[2])>>), cp)
     ELSE IF b.s[1] = Minus /\ n - cp + 1 > 1 /\ Len(b.s) > 1 /\ b.s[2] # CloseBracket
          THEN ClassBody(store([Skip(b, 2) EXCEPT !.pp[n] = RANGE], <<b.pp[n], tolower(b.s[2])>>), cp)
     ELSE ClassBody(store(Skip(b, 1), <<tolower(b.s[1])>>), cp)

cclass(b) ==
  LET negated == b.s # <<>> /\ b.s[1] = Caret
      opened  == store(IF negated THEN Skip(b, 1) ELSE b, <<IF negated THEN NCLASS ELSE CLASS, 0>>)
      done    == ClassBody(opened, Len(opened.pp))
  IN IF opened.bad # "" THEN opened
     ELSE IF done.bad = "" /\ Len(done.pp) - Len(opened.pp) + 1 >= 256 THEN badpat(done, "too large") ELSE done

OccurrenceFails(b) == b.pp = <<>> \/ b.pp[Len(b.pp)] \in {BOL, EOL, STAR, PLUS, MINUS}

\* *, + and - go before the element they follow, which gets an end of its own.
Occurrence(b, op) ==
  IF OccurrenceFails(b) THEN badpat(b, "illegal occurrence")
  ELSE LET room == store(b, <<ENDPAT, ENDPAT>>)
       IN IF room.bad # "" THEN room
          ELSE [room EXCEPT !.pp = SubSeq(b.pp, 1, b.lp - 1) \o <<op>> \o SubSeq(b.pp, b.lp, Len(b.pp)) \o <<ENDPAT>>]

Types == [c \in {97, 100, 110, 32} |->
            CASE c = 97 -> ALPHA [] c = 100 -> DIGIT [] c = 110 -> NALPHA [] OTHER -> PUNCT]

Typed(b) == IF b.s = <<>> THEN badpat(b, "no type")
            ELSE IF tolower(b.s[1]) \in DOMAIN Types THEN store(Skip(b, 1), <<Types[tolower(b.s[1])]>>)
            ELSE badpat(b, "unknown type")

Element(b0, c) ==
  LET b == [b0 EXCEPT !.lp = Len(b0.pp) + 1]
  IN CASE c = Caret  -> store(b, <<BOL>>)
       [] c = Dollar -> store(b, <<EOL>>)
       [] c = Dot    -> store(b, <<ANY>>)
       [] c = OpenBracket   -> cclass(b)
       [] c = Colon  -> Typed(b)
       [] c = Quote /\ b.s # <<>> -> store(Skip(b, 1), <<CHAR, tolower(b.s[1])>>)
       [] OTHER -> store(b, <<CHAR, tolower(c)>>)

RECURSIVE CompileOn(_)
CompileOn(b) ==
  IF b.s = <<>> THEN IF b.bad = "" THEN store(b, <<ENDPAT, 0>>) ELSE b
  ELSE LET c == b.s[1]  rest == Skip(b, 1)
       IN CompileOn(CASE c = Star -> Occurrence(rest, STAR)
                      [] c = Plus -> Occurrence(rest, PLUS)
                      [] c = Minus -> Occurrence(rest, MINUS)
                      [] OTHER -> Element(rest, c))

compile(source) == CompileOn([s |-> source, pp |-> <<>>, lp |-> 0, bad |-> ""])

-----------------------------------------------------------------------------
(* pmatch: the position after the match, None, or Forever when the loop of a *)
(* STAR does not advance, or Fatal.  Positions count from 1 in the buffers lb and pb.  *)

None == 0
Forever == -1
Fatal == -2   \* a byte that is no operation: the program gives up
Stuck == {Forever, Fatal}
ByteOf(buf, i) == IF i \in DOMAIN buf THEN buf[i] ELSE 0

RECURSIVE AfterEnd(_, _)
AfterEnd(pb, p) == IF ByteOf(pb, p) = ENDPAT THEN p + 1 ELSE AfterEnd(pb, p + 1)

\* The do-while of a class: p and n as they are when it ends.
RECURSIVE ClassScan(_, _, _, _)
ClassScan(pb, c, p, n) ==
  LET range == pb[p] = RANGE
      hit   == IF range THEN c >= pb[p + 1] /\ c <= pb[p + 2] ELSE c = pb[p]
      p2    == IF range THEN p + 3 ELSE p + 1
      n2    == IF range THEN n - 2 ELSE n
  IN IF hit THEN [p |-> p2, n |-> n2] ELSE IF n2 - 1 > 1 THEN ClassScan(pb, c, p2, n2 - 1) ELSE [p |-> p2, n |-> n2 - 1]

Letter(c) == tolower(c) \in 97..122
Digit(c) == c \in 48..57

One(op, c) ==
  CASE op = ANY -> c # 0
    [] op = DIGIT -> Digit(c)
    [] op = ALPHA -> Letter(c)
    [] op = NALPHA -> Letter(c) \/ Digit(c)
    [] op = PUNCT -> c # 0 /\ c <= 32

RECURSIVE pmatch(_, _, _, _), Longest(_, _, _, _), Back(_, _, _, _, _)
pmatch(lb, pb, l, p) ==
  LET op == ByteOf(pb, p)
      c  == ByteOf(lb, l)
  IN CASE op = ENDPAT -> l
       [] op = CHAR -> IF tolower(c) # pb[p + 1] THEN None ELSE pmatch(lb, pb, l + 1, p + 2)
       [] op = BOL -> IF l # 1 THEN None ELSE pmatch(lb, pb, l, p + 1)
       [] op = EOL -> IF c # 0 THEN None ELSE pmatch(lb, pb, l, p + 1)
       [] op \in {ANY, DIGIT, ALPHA, NALPHA, PUNCT} ->
            IF One(op, c) THEN pmatch(lb, pb, l + 1, p + 1) ELSE None
       [] op \in {CLASS, NCLASS} ->
            LET end == ClassScan(pb, tolower(c), p + 2, pb[p + 1])
            IN IF (op = CLASS) = (end.n <= 1) THEN None
               ELSE pmatch(lb, pb, l + 1, IF op = CLASS THEN end.p + end.n - 2 ELSE end.p)
       [] op = MINUS ->
            LET e == pmatch(lb, pb, l, p + 1)
            IN IF e \in Stuck THEN e
               ELSE pmatch(lb, pb, IF e = None THEN l ELSE e, AfterEnd(pb, p + 1))
       [] op = STAR -> LET top == Longest(lb, pb, l, p + 1)
                       IN IF top \in Stuck THEN top ELSE Back(lb, pb, l, top, AfterEnd(pb, p + 1))
       [] op = PLUS ->
            LET first == pmatch(lb, pb, l, p + 1)
                top   == Longest(lb, pb, first, p + 1)
            IN IF first \in {None} \cup Stuck THEN first
               ELSE IF top \in Stuck THEN top ELSE Back(lb, pb, first, top, AfterEnd(pb, p + 1))
       [] OTHER -> Fatal

Longest(lb, pb, l, p) ==
  LET e == pmatch(lb, pb, l, p)
  IN IF ByteOf(lb, l) = 0 THEN l
     ELSE CASE e = None -> l [] e = Fatal -> Fatal [] e \in {l, Forever} -> Forever [] OTHER -> Longest(lb, pb, e, p)

\* A slip: only the longest match is tried.
BackNot(lb, pb, are, l, p) == pmatch(lb, pb, l, p)

\* The rest of the pattern is tried after the longest match, then after shorter ones.
Back(lb, pb, are, l, p) ==
  LET e == pmatch(lb, pb, l, p)
  IN IF l < are THEN None ELSE IF e # None THEN e ELSE Back(lb, pb, are, l - 1, p)

\* match: at every character of the line, the newline too.
RECURSIVE MatchFrom(_, _, _)
MatchFrom(lb, pb, l) ==
  IF ByteOf(lb, l) = 0 THEN None
  ELSE LET e == pmatch(lb, pb, l, 1) IN IF e # None THEN e ELSE MatchFrom(lb, pb, l + 1)
match(lb, pb) == MatchFrom(lb, pb, 1)

-----------------------------------------------------------------------------
(* main and grep, a line at a time.  files: what was named, from which fopen   *)
(* gets nothing where it is Missing; file: which of them is read; text: what is *)
(* left of it; out: what was printed, as [what, file, n, text].                *)

Missing == <<<<-1>>>>
Idle == [phase |-> "idle", pattern |-> <<>>, pb |-> <<>>, flags |-> {}, fflag |-> FALSE, files |-> <<>>,
         file |-> 0, text |-> <<>>, lb |-> [i \in 1..LMAX |-> 0], lno |-> 0, count |-> 0, named |-> FALSE, out |-> <<>>]

\* The order of flags and pattern does not matter: the first argument that is no
\* flag is the pattern, the others are files.
Begin(pattern, flags, files) ==
  LET b == compile(pattern)
  IN g' = IF b.bad # "" THEN [Idle EXCEPT !.phase = "bad pattern", !.pattern = pattern]
          ELSE [Idle EXCEPT !.phase = "files", !.pattern = pattern, !.pb = b.pp, !.flags = flags,
                            !.fflag = ("f" \in flags) # (files # <<>>), !.files = files]

NextFile ==
  /\ g.phase = "files" /\ g.file < Len(g.files)
  /\ LET f == g.file + 1
     IN g' = IF g.files[f] = Missing THEN [g EXCEPT !.file = f]
             ELSE [g EXCEPT !.phase = "lines", !.file = f, !.text = g.files[f], !.lno = 0, !.count = 0, !.named = FALSE]

\* fgets: up to a newline or to a full buffer; what is behind the zero stays.
Taken(line) == IF Len(line) < LMAX THEN Len(line) ELSE LMAX - 1
Buffer(lb, line, n) == [i \in 1..LMAX |-> IF i <= n THEN line[i] ELSE IF i = n + 1 THEN 0 ELSE lb[i]]

PrintLine(what, n, text) == <<[what |-> what, file |-> g.file, n |-> n, text |-> text]>>

\* A line is selected when it matches, or with v when it does not.
Selected(m) == (m /\ "v" \notin g.flags) \/ (~m /\ "v" \in g.flags)

ReadLine ==
  /\ g.phase = "lines" /\ g.text # <<>>
  /\ LET line == Head(g.text)
         n    == Taken(line)
         lb   == Buffer(g.lb, line, n)
         m    == match(lb, g.pb)
         sel  == Selected(m # None)
         show == sel /\ "c" \notin g.flags
         name == show /\ g.fflag /\ ~g.named
         rest == SubSeq(line, n + 1, Len(line))
     IN g' = IF m \in Stuck THEN [g EXCEPT !.phase = IF m = Forever THEN "forever" ELSE "cannot happen", !.lb = lb]
             ELSE [g EXCEPT !.lb = lb, !.lno = @ + 1, !.count = IF sel THEN @ + 1 ELSE @, !.named = @ \/ name,
                            !.text = IF rest = <<>> THEN Tail(@) ELSE <<rest>> \o Tail(@),
                            !.out = @ \o (IF name THEN PrintLine("name", 0, <<>>) ELSE <<>>)
                                      \o (IF show THEN PrintLine("line", IF "n" \in g.flags THEN g.lno + 1 ELSE 0, SubSeq(lb, 1, n)) ELSE <<>>)]

EndOfFile ==
  /\ g.phase = "lines" /\ g.text = <<>>
  /\ g' = [g EXCEPT !.phase = "files",
                    !.out = IF "c" \in g.flags THEN @ \o (IF g.fflag THEN PrintLine("name", 0, <<>>) ELSE <<>>) \o PrintLine("count", g.count, <<>>)
                            ELSE @]

GrepInit == g = Idle
GrepNext ==
  \/ /\ g.phase = "idle"
     /\ \E pattern \in Patterns, flags \in Flags, n \in 1..MaxFiles :
           \E files \in [1..n -> Texts] : Begin(pattern, flags, files)
  \/ NextFile \/ ReadLine \/ EndOfFile
GrepSpec == GrepInit /\ [][GrepNext]_g

-----------------------------------------------------------------------------
(* What a plain pattern describes: letters, . and [ ] with letters, each once, *)
(* any number of times or at least once.  A class of fourteen is not plain:    *)
(* its count byte is ENDPAT, where the search for the end of a * stops.        *)

Plain(s) == /\ \A i \in DOMAIN s : s[i] \in 97..122 \cup {Dot, Star, Plus, OpenBracket, CloseBracket}
            /\ \A i \in DOMAIN s : s[i] \in {Star, Plus} => i > 1 /\ s[i - 1] \notin {Star, Plus}
            /\ \A i \in DOMAIN s : s[i] = OpenBracket => \E j \in i + 2..Len(s) : /\ s[j] = CloseBracket /\ j # i + 15
                                                                          /\ \A k \in i + 1..j - 1 : s[k] \in 97..122
            /\ \A j \in DOMAIN s : s[j] = CloseBracket => \E i \in 1..j - 1 : s[i] = OpenBracket /\ \A k \in i + 1..j - 1 : s[k] # CloseBracket

\* The positions reached from those of from when the elements that begin at i are
\* matched against the line in every possible way.
RECURSIVE Reached(_, _, _, _)
Reached(s, i, line, from) ==
  IF i > Len(s) THEN from
  ELSE LET close == CHOOSE j \in i..Len(s) : (s[i] = OpenBracket => s[j] = CloseBracket) /\ \A k \in i..j - 1 : s[i] = OpenBracket /\ s[k] # CloseBracket
           set   == IF s[i] = OpenBracket THEN {s[k] : k \in i + 1..close - 1} ELSE {s[i]}
           many  == IF close < Len(s) THEN s[close + 1] ELSE 0
           ok(k) == k \in DOMAIN line /\ (s[i] = Dot \/ tolower(line[k]) \in set)
           runs  == {q \in 1..Len(line) + 1 : \E p \in from : p < q /\ \A k \in p..q - 1 : ok(k)}
       IN CASE many = Star -> Reached(s, close + 2, line, from \cup runs)
            [] many = Plus -> Reached(s, close + 2, line, runs)
            [] OTHER -> Reached(s, close + 1, line, {p + 1 : p \in {k \in from : ok(k)}})

Described(s, line) == \E p \in DOMAIN line : Reached(s, 1, line, {p}) # {}

\* The lines of the file being read that were read so far.
LinesRead == SubSeq(g.files[g.file], 1, Len(g.files[g.file]) - Len(g.text))
Short(f) == \A i \in DOMAIN g.files[f] : Len(g.files[f][i]) < LMAX

\* For every plain pattern, what is counted and printed of a file with lines that
\* fit in the buffer is exactly what the pattern describes, or with v the rest.
PrintsWhatIsDescribed ==
  (g.phase = "lines" /\ Plain(g.pattern) /\ Short(g.file)) =>
    LET chosen(line) == Described(g.pattern, line) # ("v" \in g.flags)
        lines == SelectSeq(LinesRead, chosen)
        mine(e) == e.what = "line" /\ e.file = g.file
        shown == SelectSeq(g.out, mine)
    IN /\ g.count = Len(lines)
       /\ [i \in DOMAIN shown |-> shown[i].text] = IF "c" \in g.flags THEN <<>> ELSE lines

\* What is printed of a file is under its name, written once before it, if names
\* are asked for, and nothing is under a name if not.
UnderTheirName ==
  \A i \in DOMAIN g.out :
    g.out[i].what # "name" =>
      Cardinality({j \in 1..i - 1 : g.out[j].what = "name" /\ g.out[j].file = g.out[i].file}) = IF g.fflag THEN 1 ELSE 0

\* A number printed before a line is that of the line in its file.
NumbersAreLines ==
  \A i \in DOMAIN g.out :
    (g.out[i].what = "line" /\ g.out[i].n > 0 /\ Short(g.out[i].file)) => g.files[g.out[i].file][g.out[i].n] = g.out[i].text

\* The matcher goes round for ever only on a repetition of a repetition, which
\* compile lets pass since the end of the inner one hides what it is.
StuckOnlyWhenNested ==
  g.phase = "forever" =>
    \E i \in 2..Len(g.pattern) : {g.pattern[i - 1], g.pattern[i]} \subseteq {Star, Plus, Minus} /\ g.pattern[i] # Minus

\* The lines printed are those the pattern describes, under the right name and
\* number, and only a repetition of a repetition never ends.
GrepSound == PrintsWhatIsDescribed /\ UnderTheirName /\ NumbersAreLines /\ StuckOnlyWhenNested
=============================================================================
