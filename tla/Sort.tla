-------------------------------- MODULE Sort --------------------------------
(***************************************************************************)
(* sort (Contributions/Stefano/sort): reads lines up to a table's size,     *)
(* sorts the pointers to them with a shell sort, and writes them, or one of *)
(* each group that the comparison calls equal.                              *)
(* A line is a sequence of character codes, a key is <<start, end>>.        *)
(***************************************************************************)
EXTENDS Integers, Sequences, FiniteSets

CONSTANTS
  Inputs,    \* what standard input may be: sequences of lines, each with its newline if it has one
  Options,   \* the sets of options tried: subsets of {"F", "K", "R", "N", "U"}
  KeyLists,  \* the key arguments tried: sequences of pairs of numbers
  LINES, MAXKEYS, MAXLINE,  \* sizes of the tables and of a line
  IntValues      \* how many values an int has

VARIABLE sort

\* Lines are of text, and an int holds the difference of two characters.
ASSUME SortAssumption ==
  /\ {LINES, MAXKEYS, MAXLINE, IntValues} \subseteq Nat /\ MAXKEYS > 1 /\ IntValues >= 256
  /\ Inputs \subseteq Seq(Seq(1..127))

Newline == 10

Int16(x) == ((x + IntValues \div 2) % IntValues) - IntValues \div 2
toupper(c) == IF c \in 97..122 THEN c - 32 ELSE c

\* atoi, of blanks, a sign and digits.
ATOI(s) ==
  LET digits == {i \in DOMAIN s : s[i] \in 48..57}
      sign == s # <<>> /\ s[1] = 45
      first == IF sign THEN 2 ELSE 1
      value[i \in 0..Len(s)] ==
        IF i < first \/ \E j \in first..i : j \notin digits THEN IF i < first THEN 0 ELSE value[i - 1]
        ELSE Int16(value[i - 1] * 10 + s[i] - 48)
  IN Int16((IF sign THEN -1 ELSE 1) * value[Len(s)])

-----------------------------------------------------------------------------
(* Comparison: negative, zero or positive. *)

At(s, i) == IF i \in DOMAIN s THEN s[i] ELSE 0
Fold(c) == IF "F" \in sort.opt THEN toupper(c) ELSE c

\* xstrcmp walks both lines as long as the first has characters.
xstrcmp(s, t) ==
  LET differ == {i \in DOMAIN s : Fold(s[i]) # Fold(At(t, i))}
      i == CHOOSE j \in differ : \A k \in differ : j <= k
  IN IF differ # {} THEN Fold(s[i]) - Fold(At(t, i))
     ELSE IF Len(t) = Len(s) THEN 0 ELSE -1

\* strcmpaf goes through the keys up to the first start that is negative.
strcmpaf(s, t) ==
  LET used == {n \in 0..MAXKEYS - 1 : \A m \in 0..n : sort.keys[m] >= 0}
      fields == {f \in used \X (0..MAXLINE - 1) : sort.keys[f[1]] <= f[2] /\ f[2] <= sort.keys[MAXKEYS + f[1]]}
      differ == {f \in fields : Fold(At(s, f[2] + 1)) # Fold(At(t, f[2] + 1))}
      f == CHOOSE d \in differ : \A e \in differ : d[1] < e[1] \/ (d[1] = e[1] /\ d[2] <= e[2])
  IN IF differ = {} THEN 0 ELSE Fold(At(s, f[2] + 1)) - Fold(At(t, f[2] + 1))

scmp(s, t) ==
  LET result == IF "N" \in sort.opt THEN Int16(ATOI(s) - ATOI(t))
                ELSE IF "K" \in sort.opt THEN strcmpaf(s, t) ELSE xstrcmp(s, t)
  IN IF "R" \in sort.opt THEN Int16(-result) ELSE result

-----------------------------------------------------------------------------
NoKeys == [n \in 0..2 * MAXKEYS - 1 |-> 0]
Fresh == [phase |-> "start", opt |-> {}, keys |-> NoKeys, in |-> <<>>, read |-> <<>>, v |-> <<>>,
          gap |-> 0, i |-> 0, j |-> 0, out |-> <<>>]

\* dokey stores in the places of key n; those behind the table belong to what is
\* read later.  The loop of main leaves its own n at MAXKEYS and never counts it.
dokey(keys, n, key) ==
  [k \in DOMAIN keys |-> IF k = MAXKEYS * n THEN key[2] - 1 ELSE IF k = n THEN key[1] - 1 ELSE keys[k]]
KeyFails(key) == key[1] < 1 \/ key[2] < 1 \/ key[1] > MAXLINE \/ key[2] > MAXLINE
Keyed(list) ==
  LET after[k \in 0..Len(list)] ==
        IF k = 0 THEN [n \in DOMAIN NoKeys |-> -1] ELSE dokey(after[k - 1], MAXKEYS, list[k])
  IN after[Len(list)]

Refused(opt, list) ==
  \/ "N" \in opt /\ {"K", "F"} \cap opt # {}
  \/ "K" \in opt /\ (list = <<>> \/ Len(list) > MAXKEYS \/ \E n \in DOMAIN list : KeyFails(list[n]))

BeginSort(opt, list, input) ==
  sort' = [Fresh EXCEPT !.phase = IF Refused(opt, list) THEN "refused" ELSE "read", !.opt = opt, !.in = input,
                        !.keys = IF "K" \in opt THEN Keyed(list) ELSE NoKeys]

\* What the program holds of a line: all but its last character.
Held(line) == SubSeq(line, 1, Len(line) - 1)

FileIn ==
  /\ sort.phase = "read" /\ sort.in # <<>>
  /\ sort' = IF Len(sort.read) > LINES THEN [sort EXCEPT !.phase = "too much"]
             ELSE [sort EXCEPT !.read = Append(@, Held(Head(sort.in))), !.in = Tail(@)]

\* A slip: gaps are rounded up and never come to 0.
HalfUp(n) == (n + 1) \div 2
Half(n) == n \div 2

\* xsort begins when all is read; its loops end where their conditions say.
Gap(n, gap) ==
  IF gap = 0 THEN [sort EXCEPT !.phase = "output", !.v = n, !.gap = 0, !.i = 0, !.j = 0]
  ELSE [sort EXCEPT !.phase = "sort", !.v = n, !.gap = gap, !.i = gap, !.j = 0]

EndOfInput ==
  /\ sort.phase = "read" /\ sort.in = <<>>
  /\ sort' = IF sort.read = <<>> THEN [sort EXCEPT !.phase = "empty"] ELSE Gap(sort.read, Half(Len(sort.read)))

\* A slip: the last line is left out.
NextLineShort(v) == LET i == sort.i + 1 IN
  IF i < Len(v) - 1 THEN [sort EXCEPT !.v = v, !.i = i, !.j = i - sort.gap] ELSE Gap(v, Half(sort.gap))

swap(v, a, b) == [v EXCEPT ![a] = v[b], ![b] = v[a]]

\* The next line of this gap, or the next gap.
NextLine(v) == LET i == sort.i + 1 IN
  IF i < Len(v) THEN [sort EXCEPT !.v = v, !.i = i, !.j = i - sort.gap] ELSE Gap(v, Half(sort.gap))

\* One comparison: in order, or swapped and compared again one gap before.
Sift ==
  /\ sort.phase = "sort"
  /\ LET v == sort.v  a == sort.j + 1  b == sort.j + sort.gap + 1
         swapped == swap(v, a, b)
     IN sort' = IF sort.i >= Len(v) THEN Gap(v, Half(sort.gap))
                ELSE IF scmp(v[a], v[b]) <= 0 THEN NextLine(v)
                ELSE IF sort.j - sort.gap >= 0 THEN [sort EXCEPT !.v = swapped, !.j = @ - sort.gap]
                ELSE NextLine(swapped)

\* output: every line, or with U those that are not equal to the one before.
Kept(i) == i = 1 \/ scmp(sort.v[i], sort.v[i - 1]) # 0

Output ==
  /\ sort.phase = "output"
  /\ sort' = [sort EXCEPT !.phase = "done",
                !.out = IF "U" \in sort.opt
                        THEN LET which[i \in 0..Len(sort.v)] == IF i = 0 THEN <<>> ELSE IF Kept(i) THEN Append(which[i - 1], sort.v[i]) ELSE which[i - 1]
                             IN which[Len(sort.v)]
                        ELSE sort.v]

SortInit == sort = Fresh
SortNext ==
  \/ /\ sort.phase = "start"
     /\ \E opt \in Options, input \in Inputs :
           \E list \in IF "K" \in opt THEN KeyLists ELSE {<<>>} : BeginSort(opt, list, input)
  \/ FileIn \/ EndOfInput \/ Sift \/ Output
SortSpec == SortInit /\ [][SortNext]_sort /\ WF_sort(FileIn \/ EndOfInput \/ Sift \/ Output)

-----------------------------------------------------------------------------
Times(s, x) == Cardinality({i \in DOMAIN s : s[i] = x})
Same(s, t) == Len(s) = Len(t) /\ \A x \in {s[i] : i \in DOMAIN s} : Times(s, x) = Times(t, x)

\* Numbers so far apart that their difference does not fit in an int.
FarApart == "N" \in sort.opt /\ \E i, k \in DOMAIN sort.read :
  ATOI(sort.read[i]) - ATOI(sort.read[k]) # Int16(ATOI(sort.read[i]) - ATOI(sort.read[k]))

\* What is written is in order, and without U it is what was read, every line as
\* often: for a comparison that never wraps.
WritesSorted ==
  (sort.phase = "done" /\ ~FarApart) =>
    /\ \A i \in 1..Len(sort.out) - 1 : scmp(sort.out[i], sort.out[i + 1]) <= 0
    /\ "U" \notin sort.opt => Same(sort.out, sort.read)

\* With U, every line that is left out is equal to one that is written, and no
\* two lines that are written are equal.
OneOfEachKind ==
  (sort.phase = "done" /\ "U" \in sort.opt /\ ~FarApart) =>
    /\ \A i \in DOMAIN sort.read : \E k \in DOMAIN sort.out : scmp(sort.read[i], sort.out[k]) = 0
    /\ \A i, k \in DOMAIN sort.out : i # k => scmp(sort.out[i], sort.out[k]) # 0

\* A sort that is begun ends, whatever the comparison says.
SortEnds == (sort.phase \in {"read", "sort", "output"}) ~> (sort.phase \in {"done", "empty", "too much"})

\* The output is the input in order, and with U one line of each kind.
SortSound == WritesSorted /\ OneOfEachKind
=============================================================================
