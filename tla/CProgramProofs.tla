--------------------------- MODULE CProgramProofs ---------------------------
(***************************************************************************)
(* Proofs about C programs of OSCA: the standard files of the C library,   *)
(* the states and the input of Pong, Snake, sort, and the loader of bulk   *)
(* files; for all files, modes, keys, boards, lines and plans of memory.   *)
(* Where a file of a bulk file begins is a recursive function: what it     *)
(* computes is proved by induction, from the least counterexample.         *)
(***************************************************************************)
EXTENDS Stdio, PongMenu, Snake, Sort, BulkFile, SequenceTheorems, FiniteSetTheorems, Induction

(* The standard files.                                                     *)
StreamFlags == {"RD", "WR", "RW", "EOF", "ERR"}
Disks  == [Names -> Seq(Nat) \cup {Absent}]
Places == [file : Names \cup {NoFile}, off : Nat]
FlosSet == [file : Names \cup {NoFile}, len : Nat, ptr : Nat, valid : BOOLEAN, at : Places]
StreamSet == [allocated : BOOLEAN, name : Names \cup {NoFile}, pos : Nat, size : Nat,
              flag : SUBSET StreamFlags]
IoSet == [disk : Disks, f : FlosSet, s : StreamSet, ok : BOOLEAN, got : Seq(Nat), from : Nat,
          held : {"none", "held"}, clean : BOOLEAN, wrote : BOOLEAN, written : Seq(Nat)]

(* What a mode asks for: a stream that is only written is never one that   *)
(* is also read.                                                           *)
OpenFlags == {"WRONLY", "RDWR", "CREAT", "TRUNC", "APPEND", "TEXT", "BINARY", "S", "R", "T", "D"}
GoodMode(m) ==
  /\ m \in [flags : SUBSET OpenFlags, stream : {{"RD"}, {"WR"}, {"RW"}}]
  /\ "WRONLY" \in m.flags => m.stream = {"WR"}

LEMMA GoodIs ==
  ASSUME NEW F \in SUBSET OpenFlags, NEW S \in {{"RD"}, {"WR"}, {"RW"}},
         "WRONLY" \in F => S = {"WR"}
  PROVE  GoodMode([flags |-> F, stream |-> S])
BY DEF GoodMode

LEMMA FirstIsGood ==
  ASSUME NEW c
  PROVE  FirstLetter(c) = BadMode \/ GoodMode(FirstLetter(c))
<1>1. CASE c = "r"
  <2>1. FirstLetter(c) = [flags |-> {}, stream |-> {"RD"}]
    BY <1>1 DEF FirstLetter
  <2> QED BY <2>1, GoodIs
<1>2. CASE c = "w"
  <2>1. FirstLetter(c) = [flags |-> {"WRONLY", "CREAT", "TRUNC"}, stream |-> {"WR"}]
    BY <1>2 DEF FirstLetter
  <2>2. {"WRONLY", "CREAT", "TRUNC"} \in SUBSET OpenFlags
    BY DEF OpenFlags
  <2> QED BY <2>1, <2>2, GoodIs
<1>3. CASE c = "a"
  <2>1. FirstLetter(c) = [flags |-> {"WRONLY", "CREAT", "APPEND"}, stream |-> {"WR"}]
    BY <1>3 DEF FirstLetter
  <2>2. {"WRONLY", "CREAT", "APPEND"} \in SUBSET OpenFlags
    BY DEF OpenFlags
  <2> QED BY <2>1, <2>2, GoodIs
<1>4. CASE c \notin {"r", "w", "a"}
  BY <1>4 DEF FirstLetter
<1> QED BY <1>1, <1>2, <1>3, <1>4

LEMMA NextIsGood ==
  ASSUME NEW m, NEW c, GoodMode(m)
  PROVE  NextLetter(m, c) = BadMode \/ GoodMode(NextLetter(m, c))
<1>1. /\ m \in [flags : SUBSET OpenFlags, stream : {{"RD"}, {"WR"}, {"RW"}}]
      /\ m = [flags |-> m.flags, stream |-> m.stream]
      /\ m.flags \in SUBSET OpenFlags /\ m.stream \in {{"RD"}, {"WR"}, {"RW"}}
      /\ "WRONLY" \in m.flags => m.stream = {"WR"}
  BY DEF GoodMode
<1>2. CASE c = "+"
  <2> DEFINE F == (m.flags \cup {"RDWR"}) \ {"WRONLY"}
             S == (m.stream \cup {"RW"}) \ {"RD", "WR"}
  <2>1. NextLetter(m, c) = [flags |-> F, stream |-> S]
    BY <1>2 DEF NextLetter
  <2>2. F \in SUBSET OpenFlags /\ "WRONLY" \notin F
    BY <1>1 DEF OpenFlags
  <2>3. S = {"RW"}
    BY <1>1
  <2> HIDE DEF F, S
  <2> QED BY <2>1, <2>2, <2>3, GoodIs
<1>3. ASSUME NEW F, NextLetter(m, c) = [m EXCEPT !.flags = F],
             F \in SUBSET OpenFlags, "WRONLY" \in F => "WRONLY" \in m.flags
      PROVE  GoodMode(NextLetter(m, c))
  <2>1. NextLetter(m, c) = [flags |-> F, stream |-> m.stream]
    BY <1>1, <1>3
  <2> QED BY <1>1, <1>3, <2>1, GoodIs, ZenonT(40)
<1>4. CASE c = "t"
  <2>1. NextLetter(m, c) = [m EXCEPT !.flags = (m.flags \ {"BINARY"}) \cup {"TEXT"}]
    BY <1>4 DEF NextLetter
  <2>2. (m.flags \ {"BINARY"}) \cup {"TEXT"} \in SUBSET OpenFlags
    BY <1>1 DEF OpenFlags
  <2>3. "WRONLY" \in (m.flags \ {"BINARY"}) \cup {"TEXT"} => "WRONLY" \in m.flags
    OBVIOUS
  <2> QED BY <1>3, <2>1, <2>2, <2>3
<1>5. CASE c = "b"
  <2>1. NextLetter(m, c) = [m EXCEPT !.flags = (m.flags \ {"TEXT"}) \cup {"BINARY"}]
    BY <1>5 DEF NextLetter
  <2>2. (m.flags \ {"TEXT"}) \cup {"BINARY"} \in SUBSET OpenFlags
    BY <1>1 DEF OpenFlags
  <2>3. "WRONLY" \in (m.flags \ {"TEXT"}) \cup {"BINARY"} => "WRONLY" \in m.flags
    OBVIOUS
  <2> QED BY <1>3, <2>1, <2>2, <2>3
<1>6. CASE c \in {"c", "n", " "}
  BY <1>6 DEF NextLetter
<1>7. CASE c \in {"S", "R", "T", "D"}
  <2>1. NextLetter(m, c) = [m EXCEPT !.flags = m.flags \cup {c}]
    BY <1>7 DEF NextLetter
  <2>2. m.flags \cup {c} \in SUBSET OpenFlags
    BY <1>1, <1>7 DEF OpenFlags
  <2>3. "WRONLY" \in m.flags \cup {c} => "WRONLY" \in m.flags
    BY <1>7
  <2> QED BY <1>3, <2>1, <2>2, <2>3
<1>8. CASE c \notin {"+", "t", "b", "c", "n", " ", "S", "R", "T", "D"}
  BY <1>8 DEF NextLetter
<1> QED BY <1>2, <1>4, <1>5, <1>6, <1>7, <1>8

(* What a mode is after each of its first letters.                         *)
Letter(mode, i, m) ==
  IF i = 1 THEN FirstLetter(mode[1]) ELSE IF m = BadMode THEN BadMode ELSE NextLetter(m, mode[i])
IsModes(mode, n, f) == f = [i \in 1 .. n |-> Letter(mode, i, f[i - 1])]

LEMMA ModesExist ==
  ASSUME NEW mode, NEW n \in Nat
  PROVE  \E f : IsModes(mode, n, f)
<1> DEFINE S == {m \in Nat : \E f : IsModes(mode, m, f)}
<1>1. 0 \in S
  <2> DEFINE f == [j \in 1 .. 0 |-> BadMode]
  <2>1. f = [i \in 1 .. 0 |-> Letter(mode, i, f[i - 1])]
    OBVIOUS
  <2> QED BY <2>1 DEF IsModes
<1>2. ASSUME NEW m \in Nat, m \in S PROVE m + 1 \in S
  <2>1. PICK g : g = [i \in 1 .. m |-> Letter(mode, i, g[i - 1])]
    BY <1>2 DEF IsModes
  <2>2. \A i \in 1 .. m : g[i] = Letter(mode, i, g[i - 1])
    BY <2>1
  <2> DEFINE f == [j \in 1 .. m + 1 |-> IF j = m + 1 THEN Letter(mode, m + 1, g[m]) ELSE g[j]]
  <2>3. ASSUME NEW j \in 1 .. m + 1
        PROVE  f[j] = Letter(mode, j, f[j - 1])
    <3>1. CASE j = 1
      <4>1. \A x, y : Letter(mode, 1, x) = Letter(mode, 1, y)
        BY DEF Letter
      <4>2. f[1] = IF m = 0 THEN Letter(mode, 1, g[0]) ELSE g[1]
        BY <3>1
      <4>3. m # 0 => g[1] = Letter(mode, 1, g[0])
        BY <2>2
      <4> HIDE DEF f
      <4> QED BY <3>1, <4>1, <4>2, <4>3
    <3>2. CASE j \in 2 .. m
      <4>1. g[j] = Letter(mode, j, g[j - 1])
        BY <2>2, <3>2
      <4>2. f[j] = g[j] /\ f[j - 1] = g[j - 1]
        BY <3>2
      <4> QED BY <4>1, <4>2
    <3>3. CASE j = m + 1 /\ j # 1
      <4>1. f[j] = Letter(mode, m + 1, g[m]) /\ f[j - 1] = g[m]
        BY <3>3
      <4> QED BY <3>3, <4>1
    <3> QED BY <3>1, <3>2, <3>3
  <2>4. f = [j \in 1 .. m + 1 |-> Letter(mode, j, f[j - 1])]
    BY <2>3
  <2> HIDE DEF f
  <2>5. IsModes(mode, m + 1, f)
    BY <2>4 DEF IsModes
  <2> QED BY <2>5
<1> HIDE DEF S
<1>3. n \in S
  BY <1>1, <1>2, Induct
<1> QED BY <1>3 DEF S

\* A mode is refused or good.
LEMMA ModeIsGood ==
  ASSUME NEW mode \in Modes
  PROVE  ModeOf(mode) = BadMode \/ GoodMode(ModeOf(mode))
<1>1. mode \in Seq(STRING) /\ mode # <<>> /\ Len(mode) \in Nat /\ Len(mode) >= 1
  BY StdioAssumption
<1> DEFINE h == CHOOSE f : IsModes(mode, Len(mode), f)
<1>2. ModeOf(mode) = h[Len(mode)]
  BY DEF ModeOf, IsModes, Letter
<1>3. IsModes(mode, Len(mode), h)
  BY <1>1, ModesExist
<1> HIDE DEF h
<1>4. \A i \in 1 .. Len(mode) : h[i] = Letter(mode, i, h[i - 1])
  BY <1>3 DEF IsModes
<1> DEFINE Good(m) == m = BadMode \/ GoodMode(m)
           S == {k \in Nat : k + 1 <= Len(mode) => Good(h[k + 1])}
<1>5. 0 \in S
  <2>1. h[1] = FirstLetter(mode[1])
    BY <1>1, <1>4 DEF Letter
  <2>2. 0 + 1 = 1
    OBVIOUS
  <2> QED BY <2>1, <2>2, FirstIsGood
<1>6. ASSUME NEW k \in Nat, k \in S PROVE k + 1 \in S
  <2> SUFFICES ASSUME (k + 1) + 1 <= Len(mode) PROVE Good(h[(k + 1) + 1])
    OBVIOUS
  <2> DEFINE i == k + 2
  <2>1. i = (k + 1) + 1 /\ i \in 1 .. Len(mode) /\ i # 1 /\ i - 1 = k + 1 /\ k + 1 <= Len(mode)
    BY <1>1
  <2>2. Good(h[k + 1])
    BY <1>6, <2>1
  <2> HIDE DEF i
  <2>3. h[i] = IF h[k + 1] = BadMode THEN BadMode ELSE NextLetter(h[k + 1], mode[i])
    BY <1>4, <2>1 DEF Letter
  <2>4. Good(h[i])
    BY <2>2, <2>3, NextIsGood
  <2> QED BY <2>1, <2>4
<1> HIDE DEF S
<1>7. Len(mode) - 1 \in S
  <2>1. Len(mode) - 1 \in Nat
    BY <1>1
  <2> QED BY <1>5, <1>6, <2>1, Induct
<1>8. (Len(mode) - 1) + 1 = Len(mode)
  BY <1>1
<1> QED BY <1>1, <1>2, <1>7, <1>8 DEF S

-----------------------------------------------------------------------------
(* A stream the program has, and FLOS behind one that is read.             *)
Opened(w) ==
  /\ w.s.name \in Names
  /\ ~({"WR", "RW"} \subseteq w.s.flag)
  /\ "RD" \in w.s.flag => "WR" \notin w.s.flag /\ ~w.wrote
  /\ "WR" \in w.s.flag /\ w.s.size = 0 => w.disk[w.s.name] = w.written
  /\ w.clean => ~w.wrote

InStep(w) == w.s.pos = w.f.ptr \/ (w.s.pos < w.f.ptr /\ w.f.ptr = w.f.len)

Followed(w) ==
  "WR" \notin w.s.flag /\ ~w.wrote =>
    /\ w.f.file = w.s.name /\ w.disk[w.s.name] # Absent
    /\ w.s.size = w.f.len /\ w.f.len = Len(w.disk[w.s.name])
    /\ "ERR" \notin w.s.flag => InStep(w)
    /\ "ERR" \notin w.s.flag /\ w.clean /\ w.f.valid =>
         w.f.at = [file |-> w.s.name, off |-> w.f.ptr]

Delivers(w) ==
  w.got # <<>> /\ w.clean /\ "ERR" \notin w.s.flag =>
    \A i \in DOMAIN w.got : w.from + i \in DOMAIN w.disk[w.s.name]
                              /\ w.got[i] = w.disk[w.s.name][w.from + i]

StreamInv(w) ==
  /\ w \in IoSet
  /\ w.s.allocated = (w.held = "held")
  /\ Delivers(w)
  /\ w.held = "none" => w.got = <<>>
  /\ w.held = "held" => Opened(w) /\ Followed(w)

LEMMA IoHas ==
  ASSUME NEW w \in IoSet
  PROVE  /\ w.disk \in Disks /\ w.f \in FlosSet /\ w.s \in StreamSet /\ w.ok \in BOOLEAN
         /\ w.got \in Seq(Nat) /\ w.from \in Nat /\ w.held \in {"none", "held"}
         /\ w.clean \in BOOLEAN /\ w.wrote \in BOOLEAN /\ w.written \in Seq(Nat)
         /\ w.f.file \in Names \cup {NoFile} /\ w.f.len \in Nat /\ w.f.ptr \in Nat
         /\ w.f.valid \in BOOLEAN /\ w.f.at \in Places
         /\ w.s.allocated \in BOOLEAN /\ w.s.name \in Names \cup {NoFile}
         /\ w.s.pos \in Nat /\ w.s.size \in Nat /\ w.s.flag \in SUBSET StreamFlags
BY DEF IoSet, FlosSet, StreamSet

LEMMA DiskHas ==
  ASSUME NEW d \in Disks, NEW n \in Names
  PROVE  d[n] = Absent \/ (d[n] \in Seq(Nat) /\ d[n] # Absent)
<1>1. d[n] \in Seq(Nat) \cup {Absent}
  BY DEF Disks
<1> QED BY <1>1

LEMMA DiskPut ==
  ASSUME NEW d \in Disks, NEW n \in Names, NEW x \in Seq(Nat) \cup {Absent}
  PROVE  [d EXCEPT ![n] = x] \in Disks /\ [d EXCEPT ![n] = x][n] = x
BY DEF Disks

LEMMA PlaceIs ==
  ASSUME NEW n \in Names \cup {NoFile}, NEW k \in Nat
  PROVE  [file |-> n, off |-> k] \in Places
BY DEF Places

\* The program has no stream, and nothing was delivered to it.
LEMMA Without ==
  ASSUME NEW w \in IoSet, w.held = "none", w.got = <<>>, ~w.s.allocated
  PROVE  StreamInv(w)
<1>1. w.s.allocated = (w.held = "held")
  BY IoHas
<1> QED BY <1>1 DEF StreamInv, Delivers

\* open opens a file that is there, or makes one anew.
LEMMA OpenGives ==
  ASSUME NEW w \in IoSet, NEW n \in Names, NEW flags, NEW works \in BOOLEAN
  PROVE  LET o == Open(w, n, flags, works)
         IN  /\ o \in IoSet /\ o.s = w.s /\ o.held = w.held
             /\ o.ok /\ WRITE_BINARY \subseteq flags => o.disk[n] = <<>>
             /\ o.ok /\ ~(WRITE_BINARY \subseteq flags) =>
                  /\ o.f.file = n /\ o.disk[n] # Absent /\ o.f.len = Len(o.disk[n])
                  /\ o.f.ptr = 0 /\ ~o.f.valid
<1> USE IoHas
<1>1. CASE WRITE_BINARY \subseteq flags
  <2> DEFINE d  == [w.disk EXCEPT ![n] = Absent]
             e  == [d EXCEPT ![n] = <<>>]
             f  == [w.f EXCEPT !.at = Lost]
             er == [w EXCEPT !.disk[n] = Absent, !.f.at = Lost]
             ma == [er EXCEPT !.disk[n] = <<>>]
  <2>1. Open(w, n, flags, works) = IF works THEN [ma EXCEPT !.ok = TRUE] ELSE [er EXCEPT !.ok = FALSE]
    BY <1>1 DEF Open
  <2>2. d \in Disks /\ e \in Disks /\ e[n] = <<>>
    <3>1. Absent \in Seq(Nat) \cup {Absent} /\ <<>> \in Seq(Nat) \cup {Absent}
      OBVIOUS
    <3>2. d \in Disks
      BY <3>1, DiskPut
    <3> HIDE DEF d
    <3>3. e \in Disks /\ e[n] = <<>>
      BY <3>1, <3>2 DEF Disks
    <3> QED BY <3>2, <3>3
  <2>3. f \in FlosSet
    <3>1. Lost \in Places
      BY PlaceIs DEF Lost
    <3> QED BY <3>1 DEF FlosSet
  <2>4. er \in IoSet /\ er.s = w.s /\ er.held = w.held /\ er.disk = d
    BY <2>2, <2>3 DEF IoSet
  <2> HIDE DEF er
  <2>5. ma \in IoSet /\ ma.s = w.s /\ ma.held = w.held /\ ma.disk = e
    BY <2>2, <2>4 DEF IoSet
  <2> HIDE DEF ma, d, e
  <2>6. [ma EXCEPT !.ok = TRUE] \in IoSet /\ [ma EXCEPT !.ok = TRUE].s = w.s
        /\ [ma EXCEPT !.ok = TRUE].held = w.held /\ [ma EXCEPT !.ok = TRUE].disk = e
    BY <2>5 DEF IoSet
  <2>7. [er EXCEPT !.ok = FALSE] \in IoSet /\ [er EXCEPT !.ok = FALSE].s = w.s
        /\ [er EXCEPT !.ok = FALSE].held = w.held /\ [er EXCEPT !.ok = FALSE].ok = FALSE
    BY <2>4 DEF IoSet
  <2> QED BY <1>1, <2>1, <2>2, <2>6, <2>7
<1>2. CASE ~(WRITE_BINARY \subseteq flags) /\ READ_BINARY \subseteq flags /\ w.disk[n] # Absent
  <2> DEFINE f  == [file |-> n, len |-> Len(w.disk[n]), ptr |-> 0, valid |-> FALSE, at |-> Lost]
             o  == [[w EXCEPT !.f = f] EXCEPT !.ok = TRUE]
  <2>1. Open(w, n, flags, works) = o
    BY <1>2 DEF Open, FindFile, FileLength
  <2>2. w.disk[n] \in Seq(Nat) /\ Len(w.disk[n]) \in Nat
    BY <1>2, DiskHas
  <2>3. f \in FlosSet
    <3>1. Lost \in Places
      BY PlaceIs DEF Lost
    <3> QED BY <2>2, <3>1 DEF FlosSet
  <2>4. f.file = n /\ f.len = Len(w.disk[n]) /\ f.ptr = 0 /\ f.valid = FALSE
    OBVIOUS
  <2> HIDE DEF f
  <2>5. o \in IoSet /\ o.s = w.s /\ o.held = w.held /\ o.disk = w.disk /\ o.f = f
    BY <2>3 DEF IoSet
  <2> HIDE DEF o
  <2> QED BY <1>2, <2>1, <2>4, <2>5
<1>3. CASE ~(WRITE_BINARY \subseteq flags) /\ ~(READ_BINARY \subseteq flags /\ w.disk[n] # Absent)
  <2> DEFINE o == [w EXCEPT !.ok = FALSE]
  <2>1. Open(w, n, flags, works) = o
    BY <1>3 DEF Open
  <2>2. o \in IoSet /\ o.s = w.s /\ o.held = w.held /\ o.ok = FALSE
    BY DEF IoSet
  <2> HIDE DEF o
  <2> QED BY <2>1, <2>2
<1> QED BY <1>1, <1>2, <1>3

\* The program opens a file, or fails to.
LEMMA FopenStep ==
  ASSUME NEW w, StreamInv(w), w.held = "none",
         NEW n \in Names, NEW mode \in Modes, NEW works \in BOOLEAN
  PROVE  StreamInv(fopen(w, n, mode, works))
<1> DEFINE m  == ModeOf(mode)
           al == allocateMemoryForFILE(w)
           o  == Open(al, n, m.flags, works)
           u  == open_file(al, n, mode, works)
           p  == [u EXCEPT !.held = "held", !.clean = TRUE, !.wrote = FALSE, !.written = <<>>,
                           !.got = <<>>, !.from = 0]
           q  == [freeMemoryForFILE(u) EXCEPT !.held = "none", !.got = <<>>, !.from = 0]
<1>1. w \in IoSet /\ ~w.s.allocated
  BY DEF StreamInv
<1>2. fopen(w, n, mode, works) = IF u.ok THEN p ELSE q
  BY <1>1 DEF fopen
<1>3. al \in IoSet
  <2>1. [w.s EXCEPT !.allocated = TRUE] \in StreamSet
    BY <1>1, IoHas DEF StreamSet
  <2> QED BY <1>1, <2>1 DEF IoSet, allocateMemoryForFILE
<1>4. ASSUME u \in IoSet
      PROVE  StreamInv(q)
  <2> DEFINE fr == freeMemoryForFILE(u)
  <2>1. [u.s EXCEPT !.allocated = FALSE] \in StreamSet
    BY <1>4, IoHas DEF StreamSet
  <2>2. fr \in IoSet /\ fr.s = [u.s EXCEPT !.allocated = FALSE]
    BY <1>4, <2>1 DEF IoSet, freeMemoryForFILE
  <2>3. fr.s.allocated = FALSE
    BY <1>4, <2>2, IoHas DEF StreamSet
  <2> HIDE DEF fr
  <2>4. q \in IoSet /\ q.held = "none" /\ q.got = <<>> /\ q.s = fr.s
    <3>1. q = [fr EXCEPT !.held = "none", !.got = <<>>, !.from = 0]
      BY DEF fr
    <3>2. <<>> \in Seq(Nat)
      OBVIOUS
    <3> QED BY <2>2, <3>1, <3>2 DEF IoSet
  <2> HIDE DEF q
  <2> QED BY <2>3, <2>4, Without
<1>5. CASE m = BadMode
  <2>1. u = [al EXCEPT !.ok = FALSE]
    BY <1>5 DEF open_file
  <2> HIDE DEF al, u
  <2>2. u \in IoSet /\ ~u.ok
    BY <1>3, <2>1 DEF IoSet
  <2> HIDE DEF q
  <2> QED BY <1>2, <1>4, <2>2
<1>6. CASE m # BadMode /\ ~o.ok
  <2>1. u = o
    BY <1>6 DEF open_file
  <2>2. u \in IoSet /\ ~u.ok
    <3> HIDE DEF al
    <3> QED BY <1>3, <1>6, <2>1, OpenGives
  <2> HIDE DEF q, u
  <2> QED BY <1>2, <1>4, <2>2
<1>7. CASE m # BadMode /\ o.ok
  <2> DEFINE writes == WRITE_BINARY \subseteq m.flags
             s == FreshStream(n, m, IF writes THEN 0 ELSE o.f.len)
  <2>1. u = [o EXCEPT !.s = s]
    BY <1>7 DEF open_file
  <2>2. /\ o \in IoSet
        /\ writes => o.disk[n] = <<>>
        /\ ~writes => /\ o.f.file = n /\ o.disk[n] # Absent /\ o.f.len = Len(o.disk[n])
                      /\ o.f.ptr = 0 /\ ~o.f.valid
    <3> HIDE DEF al
    <3> QED BY <1>3, <1>7, OpenGives
  <2> HIDE DEF o, u, writes
  <2>3. /\ m.stream \in {{"RD"}, {"WR"}, {"RW"}}
        /\ writes => m.stream = {"WR"}
    <3>1. GoodMode(m)
      BY <1>7, ModeIsGood
    <3> QED BY <3>1 DEF GoodMode, writes, WRITE_BINARY
  <2> HIDE DEF m
  <2>4. /\ s \in StreamSet /\ s.allocated = TRUE /\ s.name = n /\ s.pos = 0 /\ s.flag = m.stream
        /\ s.size = IF writes THEN 0 ELSE o.f.len
    <3>1. m.stream \in SUBSET StreamFlags
      BY <2>3 DEF StreamFlags
    <3>2. (IF writes THEN 0 ELSE o.f.len) \in Nat
      BY <2>2, IoHas
    <3> QED BY <3>1, <3>2 DEF FreshStream, StreamSet
  <2> HIDE DEF s
  <2>5. u \in IoSet /\ u.s = s /\ u.disk = o.disk /\ u.f = o.f /\ u.ok = o.ok
    BY <2>1, <2>2, <2>4 DEF IoSet
  <2>6. /\ p \in IoSet /\ p.s = s /\ p.disk = o.disk /\ p.f = o.f /\ p.held = "held"
        /\ p.clean = TRUE /\ p.wrote = FALSE /\ p.written = <<>> /\ p.got = <<>>
    <3>1. <<>> \in Seq(Nat)
      OBVIOUS
    <3> QED BY <2>5, <3>1 DEF IoSet
  <2>7. fopen(w, n, mode, works) = p
    BY <1>2, <1>7, <2>5
  <2> HIDE DEF p
  <2>8. Opened(p)
    <3>1. ~({"WR", "RW"} \subseteq p.s.flag) /\ ("RD" \in p.s.flag => "WR" \notin p.s.flag)
      BY <2>3, <2>4, <2>6
    <3>2. "WR" \in p.s.flag /\ p.s.size = 0 => p.disk[p.s.name] = p.written
      <4>1. CASE writes
        BY <2>2, <2>4, <2>6, <4>1
      <4>2. CASE ~writes
        <5> SUFFICES ASSUME o.f.len = 0 PROVE o.disk[n] = <<>>
          BY <2>4, <2>6, <4>2
        <5>1. o.disk[n] \in Seq(Nat) /\ Len(o.disk[n]) = 0
          BY <2>2, <4>2, IoHas, DiskHas
        <5> QED BY <5>1
      <4> QED BY <4>1, <4>2
    <3> QED BY <2>4, <2>6, <3>1, <3>2 DEF Opened
  <2>9. Followed(p)
    <3> SUFFICES ASSUME "WR" \notin p.s.flag PROVE Followed(p)
      BY DEF Followed
    <3>1. ~writes
      BY <2>3, <2>4, <2>6
    <3> QED BY <2>2, <2>4, <2>6, <3>1 DEF Followed, InStep
  <2>10. StreamInv(p)
    BY <2>4, <2>6, <2>8, <2>9 DEF StreamInv, Delivers
  <2> QED BY <2>7, <2>10
<1> QED BY <1>5, <1>6, <1>7

\* The program gives its stream back.
LEMMA FcloseStep ==
  ASSUME NEW w, StreamInv(w)
  PROVE  StreamInv(fclose(w))
<1> DEFINE fr == freeMemoryForFILE(w)
           q  == [fr EXCEPT !.held = "none", !.got = <<>>, !.from = 0]
<1>1. w \in IoSet
  BY DEF StreamInv
<1>2. [w.s EXCEPT !.allocated = FALSE] \in StreamSet
  BY <1>1, IoHas DEF StreamSet
<1>3. fr \in IoSet /\ fr.s = [w.s EXCEPT !.allocated = FALSE]
  BY <1>1, <1>2 DEF IoSet, freeMemoryForFILE
<1>4. fr.s.allocated = FALSE
  BY <1>1, <1>3, IoHas DEF StreamSet
<1>5. fclose(w) = q
  BY DEF fclose
<1> HIDE DEF fr
<1>6. q \in IoSet /\ q.held = "none" /\ q.got = <<>> /\ q.s = fr.s
  <2>1. <<>> \in Seq(Nat)
    OBVIOUS
  <2> QED BY <1>3, <2>1 DEF IoSet
<1> HIDE DEF q
<1> QED BY <1>4, <1>5, <1>6, Without

\* Another disk call of the program: FLOS reads on from somewhere else.
LEMMA OtherCallStep ==
  ASSUME NEW w, StreamInv(w)
  PROVE  StreamInv([w EXCEPT !.f.at = Lost, !.clean = FALSE, !.got = <<>>, !.from = 0])
<1> DEFINE f == [w.f EXCEPT !.at = Lost]
           q == [w EXCEPT !.f.at = Lost, !.clean = FALSE, !.got = <<>>, !.from = 0]
<1>1. w \in IoSet
  BY DEF StreamInv
<1>2. f \in FlosSet /\ f.file = w.f.file /\ f.len = w.f.len /\ f.ptr = w.f.ptr
  <2>1. Lost \in Places
    BY PlaceIs DEF Lost
  <2> QED BY <1>1, <2>1, IoHas DEF FlosSet
<1>3. /\ q \in IoSet /\ q.f = f /\ q.clean = FALSE /\ q.got = <<>> /\ q.s = w.s /\ q.disk = w.disk
      /\ q.held = w.held /\ q.wrote = w.wrote /\ q.written = w.written
  <2>1. <<>> \in Seq(Nat)
    OBVIOUS
  <2> QED BY <1>1, <1>2, <2>1 DEF IoSet
<1> HIDE DEF q, f
<1>4. w.held = "held" => Opened(q) /\ Followed(q)
  BY <1>2, <1>3 DEF StreamInv, Opened, Followed, InStep
<1>5. StreamInv(q)
  BY <1>3, <1>4 DEF StreamInv, Delivers
<1> QED BY <1>5 DEF q

\* The program writes: FLOS appends to the file.
LEMMA FwriteStep ==
  ASSUME NEW w, StreamInv(w), w.held = "held", w.s.flag \cap {"RD"} = {},
         w.disk[w.s.name] # Absent, NEW data \in Seq(Nat), NEW works \in BOOLEAN
  PROVE  StreamInv(fwrite(w, data, works))
<1> DEFINE n == w.s.name
           x == w.disk[n] \o data
           b == WriteBytes(w, n, data, works)
           r == [b EXCEPT !.clean = FALSE, !.wrote = TRUE, !.got = <<>>, !.from = 0]
           u == fwrite(w, data, works)
<1>1. w \in IoSet /\ Opened(w) /\ Len(data) \in Nat /\ n \in Names
  BY DEF StreamInv, Opened
<1>2. w.disk[n] \in Seq(Nat) /\ x \in Seq(Nat)
  BY <1>1, IoHas, DiskHas
<1>3. /\ b \in IoSet /\ b.s = w.s /\ b.held = w.held /\ b.written = w.written
      /\ b.disk = IF b.ok THEN [w.disk EXCEPT ![n] = x] ELSE w.disk
  <2> DEFINE f == [w.f EXCEPT !.at = Lost, !.len = Len(data)]
             g == [w.f EXCEPT !.len = Len(data), !.ptr = w.f.ptr + Len(data), !.at = Lost]
             d == [w.disk EXCEPT ![n] = x]
  <2>1. f \in FlosSet /\ g \in FlosSet
    <3>1. Lost \in Places
      BY PlaceIs DEF Lost
    <3>2. w.f \in FlosSet /\ w.f.ptr + Len(data) \in Nat
      BY <1>1, IoHas
    <3> QED BY <1>1, <3>1, <3>2 DEF FlosSet
  <2>2. d \in Disks
    BY <1>1, <1>2, IoHas, DiskPut
  <2>3. CASE ~works
    <3>1. b = [w EXCEPT !.ok = FALSE, !.f.at = Lost, !.f.len = Len(data)]
      BY <2>3 DEF WriteBytes
    <3>2. b = [w EXCEPT !.ok = FALSE, !.f = f]
      BY <1>1, <3>1 DEF IoSet
    <3> HIDE DEF b, f, x
    <3> QED BY <1>1, <2>1, <3>2 DEF IoSet
  <2>4. CASE works
    <3>1. b = [w EXCEPT !.disk = d, !.ok = TRUE, !.f = g]
      <4>1. b = [w EXCEPT !.disk[n] = @ \o data, !.ok = TRUE,
                 !.f.len = Len(data), !.f.ptr = @ + Len(data), !.f.at = Lost]
        BY <2>4, Zenon DEF WriteBytes
      <4> HIDE DEF b
      <4> QED BY <1>1, <4>1 DEF IoSet
    <3> HIDE DEF b, d, g
    <3>2. b \in IoSet /\ b.s = w.s /\ b.held = w.held /\ b.written = w.written /\ b.disk = d /\ b.ok
      BY <1>1, <2>1, <2>2, <3>1 DEF IoSet
    <3> QED BY <3>2 DEF d
  <2> QED BY <2>3, <2>4
<1> HIDE DEF b
<1>4. /\ r \in IoSet /\ r.s = w.s /\ r.held = w.held /\ r.written = w.written /\ r.disk = b.disk
      /\ r.ok = b.ok /\ r.clean = FALSE /\ r.wrote = TRUE /\ r.got = <<>>
  <2>1. <<>> \in Seq(Nat)
    OBVIOUS
  <2> QED BY <1>3, <2>1 DEF IoSet
<1>5. fwrite(w, data, works)
        = IF r.ok THEN [r EXCEPT !.s.pos = w.s.pos + Len(data), !.written = w.written \o data]
          ELSE [r EXCEPT !.s.flag = w.s.flag \cup {"ERR"}]
  <2>1. r = [WriteBytes(w, w.s.name, data, works) EXCEPT !.clean = FALSE, !.wrote = TRUE, !.got = <<>>, !.from = 0]
    BY DEF b
  <2> HIDE DEF r
  <2>2. fwrite(w, data, works)
          = IF r.ok THEN [r EXCEPT !.s.pos = @ + Len(data), !.written = @ \o data]
            ELSE [r EXCEPT !.s.flag = @ \cup {"ERR"}]
    BY <2>1 DEF fwrite
  <2> QED BY <1>4, <2>2
<1> HIDE DEF r
<1>6. /\ u \in IoSet /\ u.held = w.held /\ u.disk = b.disk /\ u.clean = FALSE /\ u.wrote = TRUE
      /\ u.got = <<>> /\ u.s.allocated = w.s.allocated /\ u.s.name = n /\ u.s.size = w.s.size
      /\ u.s.flag \cup {"ERR"} = w.s.flag \cup {"ERR"}
      /\ u.written = IF b.ok THEN w.written \o data ELSE w.written
  <2> DEFINE s == [w.s EXCEPT !.pos = w.s.pos + Len(data)]
             t == [w.s EXCEPT !.flag = w.s.flag \cup {"ERR"}]
  <2>1. /\ s \in StreamSet /\ s.allocated = w.s.allocated /\ s.name = n /\ s.size = w.s.size
        /\ s.flag = w.s.flag
    <3>1. w.s \in StreamSet /\ w.s.pos + Len(data) \in Nat
      BY <1>1, IoHas
    <3> QED BY <3>1 DEF StreamSet
  <2>2. /\ t \in StreamSet /\ t.allocated = w.s.allocated /\ t.name = n /\ t.size = w.s.size
        /\ t.flag = w.s.flag \cup {"ERR"}
    <3>1. w.s \in StreamSet /\ w.s.flag \cup {"ERR"} \in SUBSET StreamFlags
      BY <1>1, IoHas DEF StreamFlags
    <3> QED BY <3>1 DEF StreamSet
  <2>3. CASE r.ok
    <3>1. u = [r EXCEPT !.s = s, !.written = w.written \o data]
      BY <1>4, <1>5, <2>3
    <3>2. w.written \o data \in Seq(Nat)
      BY <1>1, IoHas
    <3> HIDE DEF u, s
    <3> QED BY <1>4, <2>1, <2>3, <3>1, <3>2 DEF IoSet
  <2>4. CASE ~r.ok
    <3>1. u = [r EXCEPT !.s = t]
      BY <1>4, <1>5, <2>4
    <3> HIDE DEF u, t
    <3> QED BY <1>4, <2>2, <2>4, <3>1 DEF IoSet
  <2> QED BY <2>3, <2>4
<1> HIDE DEF u
<1>7. \A c \in {"WR", "RW", "RD"} : c \in u.s.flag <=> c \in w.s.flag
  BY <1>6
<1>8. Opened(u)
  <2>1. ~({"WR", "RW"} \subseteq u.s.flag) /\ "RD" \notin u.s.flag
    BY <1>1, <1>7 DEF Opened
  <2>2. "WR" \in u.s.flag /\ u.s.size = 0 => u.disk[n] = u.written
    <3> SUFFICES ASSUME "WR" \in w.s.flag, w.s.size = 0 PROVE u.disk[n] = u.written
      BY <1>6, <1>7
    <3>1. w.disk[n] = w.written
      BY <1>1 DEF Opened
    <3>2. b.ok => b.disk[n] = x
      <4>1. w.disk \in Disks
        BY <1>1, IoHas
      <4> QED BY <1>1, <1>3, <4>1 DEF Disks
    <3> QED BY <1>3, <1>6, <3>1, <3>2
  <2> HIDE DEF n
  <2> QED BY <1>1, <1>6, <2>1, <2>2 DEF Opened
<1>9. Followed(u) /\ Delivers(u)
  BY <1>6 DEF Followed, Delivers
<1> QED BY <1>6, <1>8, <1>9 DEF StreamInv, u

\* The program seeks: FLOS is told the place and starts to read there.
LEMMA FseekStep ==
  ASSUME NEW w, StreamInv(w), w.held = "held", NEW offset \in Offsets,
         NEW whence \in {"SET", "CUR", "END"}
  PROVE  StreamInv(fseek(w, offset, whence))
<1> DEFINE to == SeekTo(w, offset, whence)
           F  == (w.s.flag \ {"EOF"}) \ (IF "RW" \in w.s.flag THEN {"WR", "RD"} ELSE {})
           c  == [w EXCEPT !.s.flag = F, !.got = <<>>, !.from = 0]
           q  == [SetFilePointer(c, to) EXCEPT !.s.pos = to, !.clean = ~w.wrote]
<1>1. w \in IoSet /\ Opened(w) /\ Followed(w) /\ to \in Int
  <2>1. w \in IoSet /\ Opened(w) /\ Followed(w) /\ offset \in Int
    BY StdioAssumption DEF StreamInv
  <2>2. w.s.pos \in Nat /\ w.s.size \in Nat
    BY <2>1, IoHas
  <2>3. CASE whence = "SET"
    BY <2>1, <2>3 DEF SeekTo
  <2>4. CASE whence = "CUR"
    BY <2>1, <2>2, <2>4 DEF SeekTo
  <2>5. CASE whence = "END"
    BY <2>1, <2>2, <2>5 DEF SeekTo
  <2> QED BY <2>1, <2>3, <2>4, <2>5
<1>2. fseek(w, offset, whence) = IF to < 0 THEN c ELSE q
  BY DEF fseek
<1> HIDE DEF to
<1>3. F \in SUBSET StreamFlags /\ \A x \in {"WR", "ERR"} : x \in F <=> x \in w.s.flag
  BY <1>1, IoHas DEF Opened
<1>4. "RD" \in F => "RD" \in w.s.flag
  OBVIOUS
<1>5. "RW" \in F => "RW" \in w.s.flag
  OBVIOUS
<1> HIDE DEF F
<1>6. /\ c \in IoSet /\ c.held = w.held /\ c.disk = w.disk /\ c.clean = w.clean
      /\ c.wrote = w.wrote /\ c.written = w.written /\ c.f = w.f
      /\ c.got = <<>> /\ c.s.allocated = w.s.allocated /\ c.s.name = w.s.name
      /\ c.s.size = w.s.size /\ c.s.pos = w.s.pos /\ c.s.flag = F
  <2> DEFINE s == [w.s EXCEPT !.flag = F]
  <2>1. /\ s \in StreamSet /\ s.allocated = w.s.allocated /\ s.name = w.s.name
        /\ s.size = w.s.size /\ s.pos = w.s.pos /\ s.flag = F
    <3>1. w.s \in StreamSet
      BY <1>1, IoHas
    <3> QED BY <1>3, <3>1 DEF StreamSet
  <2>2. c = [w EXCEPT !.s = s, !.got = <<>>, !.from = 0]
    OBVIOUS
  <2>3. <<>> \in Seq(Nat)
    OBVIOUS
  <2> HIDE DEF c, s
  <2> QED BY <1>1, <2>1, <2>2, <2>3 DEF IoSet
<1> HIDE DEF c
<1>7. ASSUME NEW u, u \in IoSet, u.held = w.held, u.disk = w.disk, u.wrote = w.wrote,
             u.written = w.written, u.s.name = w.s.name, u.s.size = w.s.size, u.s.flag = F,
             u.clean => ~u.wrote
      PROVE  Opened(u)
  <2>1. ~({"WR", "RW"} \subseteq F) /\ ("RD" \in F => "WR" \notin F /\ ~w.wrote)
    BY <1>1, <1>3, <1>4, <1>5 DEF Opened
  <2> QED BY <1>1, <1>3, <1>7, <2>1 DEF Opened
<1>8. CASE to < 0
  <2>1. Opened(c)
    <3>1. c.clean => ~c.wrote
      BY <1>1, <1>6 DEF Opened
    <3> QED BY <1>6, <1>7, <3>1
  <2>2. Followed(c)
    BY <1>1, <1>3, <1>6 DEF Followed, InStep
  <2>3. StreamInv(c)
    BY <1>6, <2>1, <2>2 DEF StreamInv, Delivers
  <2> QED BY <1>2, <1>8, <2>3
<1>9. CASE ~(to < 0)
  <2> DEFINE f == [c.f EXCEPT !.ptr = to, !.valid = FALSE]
             s == [c.s EXCEPT !.pos = to]
  <2>1. to \in Nat
    BY <1>1, <1>9
  <2>2. f \in FlosSet /\ f.file = w.f.file /\ f.len = w.f.len /\ f.ptr = to /\ f.valid = FALSE
    <3>1. c.f \in FlosSet /\ c.f = w.f
      BY <1>6, IoHas
    <3> QED BY <2>1, <3>1 DEF FlosSet
  <2>3. /\ s \in StreamSet /\ s.allocated = w.s.allocated /\ s.name = w.s.name
        /\ s.size = w.s.size /\ s.pos = to /\ s.flag = F
    <3>1. c.s \in StreamSet
      BY <1>6, IoHas
    <3> QED BY <1>6, <2>1, <3>1 DEF StreamSet
  <2>4. SetFilePointer(c, to) = [c EXCEPT !.f = f]
    BY DEF SetFilePointer
  <2>5. q = [c EXCEPT !.f = f, !.s = s, !.clean = ~w.wrote]
    <3>1. q = [[c EXCEPT !.f = f] EXCEPT !.s.pos = to, !.clean = ~w.wrote]
      BY <2>4
    <3> HIDE DEF q, f
    <3> QED BY <1>6, <3>1 DEF IoSet
  <2> HIDE DEF q, f, s
  <2>6. /\ q \in IoSet /\ q.held = w.held /\ q.disk = w.disk /\ q.clean = ~w.wrote
        /\ q.wrote = w.wrote /\ q.written = w.written /\ q.f = f /\ q.s = s /\ q.got = <<>>
    <3>1. (~w.wrote) \in BOOLEAN
      BY <1>1, IoHas
    <3> QED BY <1>6, <2>2, <2>3, <2>5, <3>1 DEF IoSet
  <2>7. Opened(q)
    BY <1>7, <2>3, <2>6
  <2>8. Followed(q)
    BY <1>1, <1>3, <2>2, <2>3, <2>6 DEF Followed, InStep
  <2>9. StreamInv(q)
    BY <1>6, <2>3, <2>6, <2>7, <2>8 DEF StreamInv, Delivers
  <2> QED BY <1>2, <1>9, <2>9
<1> QED BY <1>8, <1>9

(* FLOS delivers k bytes to r, reading on from the given place.            *)
Loaded(w, r, n, k, from) ==
  /\ k = IF w.f.ptr + n <= w.f.len THEN n
         ELSE IF w.f.ptr < w.f.len THEN w.f.len - w.f.ptr ELSE 0
  /\ from = IF w.f.valid THEN w.f.at ELSE [file |-> w.f.file, off |-> w.f.ptr]
  /\ r.ok = (k = n) /\ r.f.ptr = w.f.ptr + k /\ r.f.valid
  /\ from # Lost => r.f.at = [file |-> from.file, off |-> from.off + k]
  /\ r.got = [i \in 1 .. k |-> ByteAt(w, from, i)]

\* FLOS delivers what it has, or nothing.
LEMMA LoadGives ==
  ASSUME NEW w \in IoSet, NEW n \in Nat, NEW works \in BOOLEAN
  PROVE  LET r == ForceLoad(w, n, works)
         IN  /\ r \in IoSet /\ r.disk = w.disk /\ r.s = w.s /\ r.held = w.held
             /\ r.clean = w.clean /\ r.wrote = w.wrote /\ r.written = w.written
             /\ r.f.file = w.f.file /\ r.f.len = w.f.len
             /\ ~works => r.got = <<>> /\ ~r.ok /\ r.f.ptr = w.f.ptr
             /\ works => \E k \in Nat, from \in Places : Loaded(w, r, n, k, from)
<1> DEFINE r == ForceLoad(w, n, works)
<1>1. /\ w.f \in FlosSet /\ w.f.file \in Names \cup {NoFile} /\ w.f.len \in Nat /\ w.f.ptr \in Nat
      /\ w.f.valid \in BOOLEAN /\ w.f.at \in Places /\ w.disk \in Disks
  BY IoHas
<1>2. Lost \in Places
  BY PlaceIs DEF Lost
<1>3. CASE ~works
  <2> DEFINE f == [w.f EXCEPT !.valid = TRUE, !.at = Lost]
  <2>1. f \in FlosSet /\ f.file = w.f.file /\ f.len = w.f.len /\ f.ptr = w.f.ptr
    BY <1>1, <1>2 DEF FlosSet
  <2>2. r = [w EXCEPT !.f = f, !.ok = FALSE, !.got = <<>>, !.from = 0]
    <3>1. r = [w EXCEPT !.f.valid = TRUE, !.f.at = Lost, !.ok = FALSE, !.got = <<>>, !.from = 0]
      BY <1>3 DEF ForceLoad
    <3> HIDE DEF r
    <3> QED BY <3>1 DEF IoSet
  <2>3. <<>> \in Seq(Nat)
    OBVIOUS
  <2> HIDE DEF r, f
  <2>4. /\ r \in IoSet /\ r.disk = w.disk /\ r.s = w.s /\ r.held = w.held /\ r.clean = w.clean
        /\ r.wrote = w.wrote /\ r.written = w.written /\ r.f = f /\ r.got = <<>> /\ r.ok = FALSE
    BY <2>1, <2>2, <2>3 DEF IoSet
  <2>5. /\ r.f.file = w.f.file /\ r.f.len = w.f.len /\ r.f.ptr = w.f.ptr
    BY <2>1, <2>4
  <2> QED BY <1>3, <2>4, <2>5 DEF r
<1>4. CASE works
  <2> DEFINE k == IF w.f.ptr + n <= w.f.len THEN n
                  ELSE IF w.f.ptr < w.f.len THEN w.f.len - w.f.ptr ELSE 0
             from == IF w.f.valid THEN w.f.at ELSE [file |-> w.f.file, off |-> w.f.ptr]
             next == IF from = Lost THEN Lost ELSE [from EXCEPT !.off = from.off + k]
             got == [i \in 1 .. k |-> ByteAt(w, from, i)]
             f == [w.f EXCEPT !.ptr = w.f.ptr + k, !.valid = TRUE, !.at = next]
  <2>1. k \in Nat /\ w.f.ptr + k \in Nat
    BY <1>1
  <2>2. from \in Places
    BY <1>1, PlaceIs
  <2>3. r = [w EXCEPT !.f = f, !.ok = (k = n), !.got = got]
    <3>1. r = [w EXCEPT !.f.ptr = w.f.ptr + k, !.f.valid = TRUE, !.f.at = next,
                        !.ok = (k = n), !.got = got]
      BY <1>4, Zenon DEF ForceLoad
    <3> HIDE DEF r, k, from, next, got
    <3> QED BY <3>1 DEF IoSet
  <2> HIDE DEF k, from
  <2>4. next \in Places /\ (from # Lost => next = [file |-> from.file, off |-> from.off + k])
    <3>1. from = [file |-> from.file, off |-> from.off]
          /\ from.file \in Names \cup {NoFile} /\ from.off \in Nat
      BY <2>2 DEF Places
    <3>2. from.off + k \in Nat
      BY <2>1, <3>1
    <3>3. [from EXCEPT !.off = from.off + k] = [file |-> from.file, off |-> from.off + k]
      BY <3>1
    <3>4. [file |-> from.file, off |-> from.off + k] \in Places
      BY <3>1, <3>2, PlaceIs
    <3> QED BY <1>2, <3>3, <3>4
  <2>5. got \in Seq(Nat)
    <3> SUFFICES ASSUME NEW i \in 1 .. k PROVE ByteAt(w, from, i) \in Nat
      BY <2>1
    <3>1. CASE from.file \in Names /\ w.disk[from.file] # Absent /\ from.off + i <= Len(w.disk[from.file])
      <4>1. w.disk[from.file] \in Seq(Nat)
        BY <1>1, <3>1, DiskHas
      <4>2. from.off \in Nat /\ i \in Nat /\ i >= 1
        BY <2>1, <2>2 DEF Places
      <4>3. Len(w.disk[from.file]) \in Nat
        BY <4>1
      <4>4. from.off + i \in 1 .. Len(w.disk[from.file])
        BY <3>1, <4>2, <4>3
      <4>5. w.disk[from.file][from.off + i] \in Nat
        BY <4>1, <4>4
      <4> QED BY <3>1, <4>5 DEF ByteAt
    <3>2. CASE ~(from.file \in Names /\ w.disk[from.file] # Absent /\ from.off + i <= Len(w.disk[from.file]))
      BY <3>2 DEF ByteAt
    <3> QED BY <3>1, <3>2
  <2> HIDE DEF next
  <2>6. /\ f \in FlosSet /\ f.file = w.f.file /\ f.len = w.f.len /\ f.ptr = w.f.ptr + k
        /\ f.valid = TRUE /\ f.at = next
    BY <1>1, <2>1, <2>4 DEF FlosSet
  <2>7. (k = n) \in BOOLEAN
    OBVIOUS
  <2> HIDE DEF r, f, got
  <2>8. /\ r \in IoSet /\ r.disk = w.disk /\ r.s = w.s /\ r.held = w.held /\ r.clean = w.clean
        /\ r.wrote = w.wrote /\ r.written = w.written /\ r.f = f /\ r.got = got /\ r.ok = (k = n)
    BY <2>3, <2>5, <2>6, <2>7 DEF IoSet
  <2>9. /\ k \in Nat /\ from \in Places
        /\ k = IF w.f.ptr + n <= w.f.len THEN n
               ELSE IF w.f.ptr < w.f.len THEN w.f.len - w.f.ptr ELSE 0
        /\ from = IF w.f.valid THEN w.f.at ELSE [file |-> w.f.file, off |-> w.f.ptr]
        /\ r.ok = (k = n) /\ r.f.ptr = w.f.ptr + k /\ r.f.valid
        /\ from # Lost => r.f.at = [file |-> from.file, off |-> from.off + k]
        /\ r.got = [i \in 1 .. k |-> ByteAt(w, from, i)]
    BY <2>1, <2>2, <2>4, <2>6, <2>8 DEF k, from, got
  <2>11. Loaded(w, r, n, k, from)
    BY <2>9 DEF Loaded
  <2>10. r.f.file = w.f.file /\ r.f.len = w.f.len
    BY <2>6, <2>8
  <2> QED BY <1>4, <2>8, <2>9, <2>10, <2>11 DEF r
<1> QED BY <1>3, <1>4

\* The program reads.
LEMMA FreadStep ==
  ASSUME NEW w, StreamInv(w), w.held = "held", w.s.flag \cap {"WR"} = {},
         NEW n \in Sizes, n > 0, NEW works \in BOOLEAN
  PROVE  StreamInv(fread(w, n, works))
<1> DEFINE r == ForceLoad(w, n, works)
           u == fread(w, n, works)
           atEnd == w.s.pos + n > w.s.size
           F == IF atEnd THEN w.s.flag \cup {"EOF"}
                ELSE IF ~r.ok THEN w.s.flag \cup {"ERR"} ELSE w.s.flag
           P == IF atEnd \/ ~r.ok THEN w.s.pos ELSE w.s.pos + n
           s == [w.s EXCEPT !.pos = P, !.flag = F]
           from == IF r.got = <<>> THEN 0 ELSE w.s.pos
<1>1. /\ w \in IoSet /\ Opened(w) /\ Followed(w) /\ n \in Nat /\ "WR" \notin w.s.flag
      /\ w.s.name \in Names /\ w.s.allocated
  BY StdioAssumption DEF StreamInv, Opened
<1>2. /\ w.s \in StreamSet /\ w.s.pos \in Nat /\ w.s.size \in Nat /\ w.s.flag \in SUBSET StreamFlags
      /\ w.f.len \in Nat /\ w.f.ptr \in Nat /\ w.clean \in BOOLEAN /\ w.disk \in Disks
  BY <1>1, IoHas
<1>3. /\ r \in IoSet /\ r.disk = w.disk /\ r.s = w.s /\ r.held = w.held
      /\ r.clean = w.clean /\ r.wrote = w.wrote /\ r.written = w.written
      /\ r.f.file = w.f.file /\ r.f.len = w.f.len
      /\ ~works => r.got = <<>> /\ ~r.ok /\ r.f.ptr = w.f.ptr
  BY <1>1, LoadGives
<1>4. /\ s \in StreamSet /\ s.allocated = w.s.allocated /\ s.name = w.s.name
      /\ s.pos = P /\ s.size = w.s.size /\ s.flag = F
  <2>1. P \in Nat /\ F \in SUBSET StreamFlags
    BY <1>1, <1>2 DEF StreamFlags
  <2> HIDE DEF P, F
  <2> QED BY <1>2, <2>1 DEF StreamSet
<1>5. /\ u \in IoSet /\ u.s = s /\ u.f = r.f /\ u.disk = w.disk /\ u.got = r.got /\ u.from = from
      /\ u.held = w.held /\ u.clean = (w.clean /\ works) /\ u.wrote = w.wrote /\ u.written = w.written
  <2> DEFINE asked == [r EXCEPT !.from = from, !.clean = r.clean /\ works]
  <2>1. u = IF atEnd THEN [asked EXCEPT !.s.flag = asked.s.flag \cup {"EOF"}]
            ELSE IF ~r.ok THEN [asked EXCEPT !.s.flag = asked.s.flag \cup {"ERR"}]
            ELSE [asked EXCEPT !.s.pos = asked.s.pos + n]
    BY Zenon DEF fread
  <2>2. from \in Nat /\ (w.clean /\ works) \in BOOLEAN
    BY <1>2
  <2> HIDE DEF from, r
  <2>3. /\ asked \in IoSet /\ asked.s = w.s /\ asked.f = r.f /\ asked.disk = w.disk
        /\ asked.got = r.got /\ asked.from = from /\ asked.held = w.held
        /\ asked.clean = (w.clean /\ works) /\ asked.wrote = w.wrote /\ asked.written = w.written
    BY <1>3, <2>2 DEF IoSet
  <2> HIDE DEF asked
  <2>4. u = [asked EXCEPT !.s = s]
    <3>1. CASE atEnd
      <4>1. s = [w.s EXCEPT !.flag = w.s.flag \cup {"EOF"}]
        BY <1>2, <3>1 DEF StreamSet
      <4>2. u = [asked EXCEPT !.s.flag = asked.s.flag \cup {"EOF"}]
        BY <2>1, <3>1
      <4> HIDE DEF s, u
      <4> QED BY <2>3, <4>1, <4>2
    <3>2. CASE ~atEnd /\ ~r.ok
      <4>1. s = [w.s EXCEPT !.flag = w.s.flag \cup {"ERR"}]
        BY <1>2, <3>2 DEF StreamSet
      <4>2. u = [asked EXCEPT !.s.flag = asked.s.flag \cup {"ERR"}]
        BY <2>1, <3>2
      <4> HIDE DEF s, u
      <4> QED BY <2>3, <4>1, <4>2
    <3>3. CASE ~atEnd /\ r.ok
      <4>1. s = [w.s EXCEPT !.pos = w.s.pos + n]
        BY <1>2, <3>3 DEF StreamSet
      <4>2. u = [asked EXCEPT !.s.pos = asked.s.pos + n]
        BY <2>1, <3>3
      <4> HIDE DEF s, u
      <4> QED BY <2>3, <4>1, <4>2
    <3> QED BY <3>1, <3>2, <3>3
  <2> HIDE DEF s, u
  <2> QED BY <1>4, <2>3, <2>4 DEF IoSet
<1>6. /\ \A c \in {"WR", "RW", "RD"} : c \in F <=> c \in w.s.flag
      /\ "ERR" \in w.s.flag => "ERR" \in F
      /\ "ERR" \notin F => atEnd \/ r.ok
  OBVIOUS
<1> HIDE DEF u, s
<1>7. Opened(u)
  <2>1. ~({"WR", "RW"} \subseteq F) /\ ("RD" \in F => "WR" \notin F /\ ~w.wrote) /\ "WR" \notin F
    BY <1>1, <1>6 DEF Opened
  <2> HIDE DEF F
  <2> QED BY <1>1, <1>4, <1>5, <2>1 DEF Opened
<1>8. CASE w.wrote
  <2>1. ~w.clean
    BY <1>1, <1>8 DEF Opened
  <2>2. Followed(u) /\ Delivers(u)
    BY <1>5, <1>8, <2>1 DEF Followed, Delivers
  <2>3. u.held = "none" => u.got = <<>>
    BY <1>5
  <2> QED BY <1>1, <1>4, <1>5, <1>7, <2>2, <2>3 DEF StreamInv, u
<1>9. CASE ~w.wrote
  <2>1. /\ w.f.file = w.s.name /\ w.disk[w.s.name] # Absent
        /\ w.s.size = w.f.len /\ w.f.len = Len(w.disk[w.s.name])
        /\ "ERR" \notin w.s.flag => InStep(w)
        /\ "ERR" \notin w.s.flag /\ w.clean /\ w.f.valid =>
             w.f.at = [file |-> w.s.name, off |-> w.f.ptr]
    BY <1>1, <1>9 DEF Followed
  <2>2. CASE ~works
    <3>1. Followed(u)
      <4>1. "ERR" \notin F => P = w.s.pos
        BY <1>3, <1>6, <2>2
      <4>2. u.f.ptr = w.f.ptr /\ u.f.len = w.f.len /\ u.f.file = w.f.file
        BY <1>3, <1>5, <2>2
      <4>3. "ERR" \notin F => InStep(u)
        <5> SUFFICES ASSUME "ERR" \notin F PROVE InStep(u)
          OBVIOUS
        <5>1. InStep(w) /\ u.s.pos = w.s.pos
          BY <1>4, <1>5, <1>6, <2>1, <4>1
        <5> QED BY <4>2, <5>1 DEF InStep
      <4> HIDE DEF F
      <4> QED BY <1>4, <1>5, <2>1, <2>2, <4>2, <4>3 DEF Followed
    <3>2. Delivers(u)
      BY <1>5, <2>2 DEF Delivers
    <3> HIDE DEF F, P, r
    <3> QED BY <1>1, <1>4, <1>5, <1>7, <3>1, <3>2 DEF StreamInv, u
  <2>3. CASE works
    <3>7. \E k \in Nat, a \in Places : Loaded(w, r, n, k, a)
      BY <1>1, <2>3, LoadGives
    <3>8. PICK k \in Nat, a \in Places : Loaded(w, r, n, k, a)
      BY <3>7
    <3>1. /\ k = IF w.f.ptr + n <= w.f.len THEN n
                 ELSE IF w.f.ptr < w.f.len THEN w.f.len - w.f.ptr ELSE 0
          /\ a = IF w.f.valid THEN w.f.at ELSE [file |-> w.f.file, off |-> w.f.ptr]
          /\ r.ok = (k = n) /\ r.f.ptr = w.f.ptr + k /\ r.f.valid
          /\ a # Lost => r.f.at = [file |-> a.file, off |-> a.off + k]
          /\ r.got = [i \in 1 .. k |-> ByteAt(w, a, i)]
      BY <3>8 DEF Loaded
    <3> HIDE DEF r
    <3>2. "ERR" \notin w.s.flag /\ w.clean =>
            a = [file |-> w.s.name, off |-> w.f.ptr]
      BY <2>1, <3>1
    <3>3. ASSUME a = [file |-> w.s.name, off |-> w.f.ptr]
          PROVE  a # Lost /\ a.file = w.s.name /\ a.off = w.f.ptr
      BY <1>1, <3>3, StdioAssumption DEF Lost
    <3>4. ASSUME "ERR" \notin F
          PROVE  InStep(u)
      <4>1. InStep(w) /\ (atEnd \/ r.ok)
        BY <1>6, <2>1, <3>4
      <4>2. u.s.pos = P /\ u.f.ptr = w.f.ptr + k /\ u.f.len = w.f.len
        BY <1>3, <1>4, <1>5, <3>1
      <4>3. CASE atEnd
        <5>1. P = w.s.pos
          BY <4>3
        <5>2. w.s.pos + n > w.f.len
          BY <2>1, <4>3
        <5> HIDE DEF P, F, atEnd
        <5>3. CASE w.s.pos = w.f.ptr
          BY <1>1, <1>2, <3>1, <4>2, <5>1, <5>2, <5>3 DEF InStep
        <5>4. CASE w.s.pos < w.f.ptr /\ w.f.ptr = w.f.len
          BY <1>1, <1>2, <3>1, <4>2, <5>1, <5>4 DEF InStep
        <5> QED BY <4>1, <5>3, <5>4 DEF InStep
      <4>4. CASE ~atEnd /\ r.ok
        <5>1. P = w.s.pos + n /\ k = n
          BY <3>1, <4>4
        <5>2. w.s.pos = w.f.ptr
          <6>1. k = n /\ w.f.ptr < w.f.len
            BY <1>1, <1>2, <3>1, <5>1
          <6> QED BY <1>2, <4>1, <6>1 DEF InStep
        <5> HIDE DEF P, F, atEnd
        <5> QED BY <4>2, <5>1, <5>2 DEF InStep
      <4> QED BY <4>1, <4>3, <4>4
    <3>5. Followed(u)
      <4>1. "ERR" \notin F => InStep(u)
        BY <3>4
      <4>2. u.f.file = w.f.file /\ u.f.len = w.f.len /\ u.f.ptr = w.f.ptr + k
        BY <1>3, <1>5, <3>1
      <4>3. "ERR" \notin F /\ w.clean => u.f.at = [file |-> w.s.name, off |-> u.f.ptr]
        <5> SUFFICES ASSUME "ERR" \notin F, w.clean
                     PROVE  r.f.at = [file |-> w.s.name, off |-> w.f.ptr + k]
          BY <1>5, <4>2
        <5>1. "ERR" \notin w.s.flag
          BY <1>6
        <5> HIDE DEF F
        <5> QED BY <3>1, <3>2, <3>3, <5>1
      <4> HIDE DEF F
      <4> QED BY <1>4, <1>5, <2>1, <4>1, <4>2, <4>3 DEF Followed
    <3>6. Delivers(u)
      <4> SUFFICES ASSUME u.got # <<>>, u.clean, "ERR" \notin F, NEW i \in DOMAIN u.got
                   PROVE  /\ u.from + i \in DOMAIN w.disk[w.s.name]
                          /\ u.got[i] = w.disk[w.s.name][u.from + i]
        <5> HIDE DEF F
        <5> QED BY <1>4, <1>5 DEF Delivers
      <4>1. w.clean /\ "ERR" \notin w.s.flag
        BY <1>5, <1>6
      <4> HIDE DEF F, P, atEnd
      <4>2. a.file = w.s.name /\ a.off = w.f.ptr
        BY <3>2, <3>3, <4>1
      <4>3. u.got = [j \in 1 .. k |-> ByteAt(w, a, j)]
        BY <1>5, <3>1
      <4>4. i \in 1 .. k
        BY <4>3
      <4>5. w.f.ptr < w.f.len /\ w.f.ptr + k <= w.f.len
        BY <1>1, <1>2, <3>1, <4>4, SMTT(40)
      <4>6. w.s.pos = w.f.ptr
        BY <1>2, <2>1, <4>1, <4>5 DEF InStep
      <4>7. u.from = w.f.ptr
        BY <1>5, <4>6
      <4> DEFINE d == w.disk[w.s.name]
      <4>8. d \in Seq(Nat) /\ Len(d) = w.f.len
        BY <1>1, <1>2, <2>1, DiskHas
      <4>9. w.f.ptr + i <= Len(d) /\ w.f.ptr + i \in 1 .. Len(d)
        <5>1. i \in Nat /\ 1 <= i /\ i <= k
          BY <4>4
        <5>3. i <= k /\ k \in Nat /\ i \in Int /\ w.f.ptr \in Int /\ w.f.len \in Int
          BY <1>2, <5>1
        <5> HIDE DEF d
        <5>2. Len(d) \in Nat /\ w.f.ptr + i <= w.f.len /\ w.f.ptr + i \in Nat /\ 1 <= w.f.ptr + i
          BY <1>2, <4>5, <4>8, <5>1, <5>3, SMTT(40)
        <5> QED BY <4>8, <5>2
      <4>10. ByteAt(w, a, i) = d[w.f.ptr + i]
        BY <1>1, <2>1, <4>2, <4>9 DEF ByteAt
      <4>11. u.got[i] = ByteAt(w, a, i)
        BY <4>3, <4>4
      <4> QED BY <4>7, <4>8, <4>9, <4>10, <4>11
    <3> HIDE DEF F, P, atEnd
    <3> QED BY <1>1, <1>4, <1>5, <1>7, <3>5, <3>6 DEF StreamInv, u
  <2> QED BY <2>2, <2>3
<1> QED BY <1>8, <1>9

IoInv == StreamInv(io)

LEMMA IoStarts == IoInit => StreamInv(io)
<1> SUFFICES ASSUME IoInit PROVE StreamInv(io)
  OBVIOUS
<1>1. Lost \in Places /\ <<>> \in Seq(Nat)
  BY PlaceIs DEF Lost
<1> DEFINE f == [file |-> NoFile, len |-> 0, ptr |-> 0, valid |-> FALSE, at |-> Lost]
<1>2. f \in FlosSet
  BY <1>1 DEF FlosSet
<1>3. NoStream \in StreamSet /\ NoStream.allocated = FALSE
  BY DEF NoStream, StreamSet
<1>4. Contents \in Disks
  BY StdioAssumption DEF Disks
<1>5. io \in IoSet /\ io.held = "none" /\ io.got = <<>> /\ io.s = NoStream
  <2>1. io = [disk |-> Contents, f |-> f, s |-> NoStream, ok |-> TRUE, got |-> <<>>, from |-> 0,
              held |-> "none", clean |-> TRUE, wrote |-> FALSE, written |-> <<>>]
    BY DEF IoInit, IoStart
  <2> HIDE DEF f
  <2> QED BY <1>1, <1>2, <1>3, <1>4, <2>1 DEF IoSet
<1> QED BY <1>3, <1>5, Without

LEMMA IoSteps == StreamInv(io) /\ [IoNext]_io => StreamInv(io')
<1> SUFFICES ASSUME StreamInv(io), [IoNext]_io PROVE StreamInv(io')
  OBVIOUS
<1>1. CASE UNCHANGED io
  BY <1>1
<1>2. CASE IoClose
  BY <1>2, FcloseStep DEF IoClose
<1>3. CASE OtherDiskCall
  BY <1>3, OtherCallStep DEF OtherDiskCall
<1>4. ASSUME NEW n \in Names, NEW mode \in Modes, IoOpenSecond(n, mode)
      PROVE  StreamInv(io')
  <2>1. io.s.allocated
    BY <1>4 DEF IoOpenSecond, StreamInv
  <2> QED BY <1>4, <2>1 DEF IoOpenSecond, fopen
<1>5. ASSUME NEW offset \in Offsets, NEW whence \in {"SET", "CUR", "END"}, IoSeek(offset, whence)
      PROVE  StreamInv(io')
  BY <1>5, FseekStep DEF IoSeek
<1>6. ASSUME NEW works \in BOOLEAN, NEW n \in Names, NEW mode \in Modes, IoOpen(n, mode, works)
      PROVE  StreamInv(io')
  BY <1>6, FopenStep DEF IoOpen
<1>7. ASSUME NEW works \in BOOLEAN, NEW n \in Sizes, IoRead(n, works)
      PROVE  StreamInv(io')
  BY <1>7, FreadStep DEF IoRead
<1>8. ASSUME NEW works \in BOOLEAN, NEW data \in Chunks, IoWrite(data, works)
      PROVE  StreamInv(io')
  <2>1. data \in Seq(Nat)
    BY StdioAssumption
  <2> QED BY <1>8, <2>1, FwriteStep DEF IoWrite
<1> QED BY <1>1, <1>2, <1>3, <1>4, <1>5, <1>6, <1>7, <1>8 DEF IoNext

\* A stream is the file behind it: what fread delivers are the bytes at its own
\* position, what was written is in the file in order, its size and position
\* are those of FLOS, and its slot is taken while the program has it.
THEOREM StreamsAreFiles == IoSpec => []StreamSound
<1>1. StreamInv(io) => StreamSound
  <2> SUFFICES ASSUME StreamInv(io) PROVE StreamSound
    OBVIOUS
  <2>1. SlotFollowsProgram /\ ReadsAreRight
    BY DEF StreamInv, SlotFollowsProgram, ReadsAreRight, Delivers
  <2>2. StreamFollowsFlos
    BY DEF StreamInv, StreamFollowsFlos, Opened, Followed, InStep
  <2>3. WritesAppend
    BY DEF StreamInv, WritesAppend, Opened
  <2> QED BY <2>1, <2>2, <2>3 DEF StreamSound
<1>2. IoInit => IoInv
  BY IoStarts DEF IoInv
<1>3. IoInv /\ [IoNext]_io => IoInv'
  BY IoSteps DEF IoInv
<1>4. IoInv => StreamSound
  BY <1>1 DEF IoInv
<1> QED BY <1>2, <1>3, <1>4, PTL DEF IoSpec

-----------------------------------------------------------------------------
(* The states and the input of Pong.                                       *)
FlagValues == {"off", "key", "joy"}
PlayerSet == [up : FlagValues, down : FlagValues, fire : FlagValues, type : {"KEYBOARD", "JOY"}]
PlayerInputs == [1 .. 2 -> PlayerSet]
Codes  == Keys \cup {Release}
PmSet ==
  [state : States, request : States \cup {None2}, one : BOOLEAN, paused : BOOLEAN,
   pausePressed : BOOLEAN, debug : BOOLEAN, won : BOOLEAN, music : BOOLEAN, fx : BOOLEAN,
   tiles : {None2, "menu", "level"}, song : {None2, "menu", "level"},
   palette : {None2, "menu", "level"}, map : {"clear", "main", "credits"}, second : BOOLEAN,
   prev : Keys \cup {None2}, typed : Keys \cup {None2}, in : PlayerInputs, exit : BOOLEAN,
   cut : BOOLEAN, held : SUBSET Keys, wire : Seq(Codes),
   pc : {"input", "move", "state", "ended"}]

(* The data of the state are there, only the changes of state the game     *)
(* knows are asked for, and who plays alone meets no joystick.             *)
DataThere(m) ==
  LET data == IF m.state = "LEVEL" THEN "level" ELSE "menu"
  IN  /\ m.tiles = data /\ m.song = data /\ m.palette = data
      /\ m.map = IF m.state = "CREDITS" THEN "credits" ELSE "main"
      /\ m.music = ~m.fx /\ (m.state # "LEVEL" \/ m.won <=> m.music)
      /\ m.won => m.state = "LEVEL"
Requests(m) ==
  /\ m.state \in {"MENU", "CREDITS", "LEVEL"}
  /\ m.pc # "state" => m.request = None2
  /\ m.request \in IF m.state = "MENU" THEN {None2, "LEVEL", "CREDITS"} ELSE {None2, "MENU"}
Alone(m) ==
  m.state = "LEVEL" /\ m.one => m.in[2].type = "KEYBOARD" /\ \A f \in Flags : m.in[2][f] # "joy"

(* What the keyboard is sending, and the keys the flags stand for.         *)
Sending(m) ==
  \/ m.wire = <<>> /\ ~m.second
  \/ \E k \in Keys : \/ m.wire = <<k>> /\ ~m.second /\ k \in m.held
                     \/ m.wire = <<Release, k>> /\ ~m.second
                     \/ m.wire = <<k>> /\ m.second
OnWire(m) == {m.wire[i] : i \in DOMAIN m.wire}
FlagOf(m, k) == m.in[InputMap[k][1]][InputMap[k][2]]
Backed(m) == \A k \in DOMAIN InputMap : FlagOf(m, k) = "key" => k \in m.held \cup OnWire(m)

PmInv(m) ==
  /\ m \in PmSet
  /\ m.pc # "ended" => DataThere(m) /\ Requests(m) /\ Alone(m)
  /\ ~m.cut => Sending(m) /\ Backed(m)

(* Nothing but what keeps the game going is different.                     *)
SameGame(m, u) ==
  /\ u.state = m.state /\ u.tiles = m.tiles /\ u.song = m.song /\ u.palette = m.palette
  /\ u.map = m.map /\ u.music = m.music /\ u.fx = m.fx /\ u.won = m.won
SameKeys(m, u) == u.second = m.second /\ u.cut = m.cut /\ u.held = m.held /\ u.wire = m.wire
NoNewKeys(m, u) == \A n \in 1 .. 2, f \in Flags : u.in[n][f] = "key" => m.in[n][f] = "key"

LEMMA KeyMapHas ==
  /\ \A k \in DOMAIN InputMap : InputMap[k][1] \in 1 .. 2 /\ InputMap[k][2] \in Flags
  /\ \A k, l \in DOMAIN InputMap :
       k # l => InputMap[k][1] # InputMap[l][1] \/ InputMap[k][2] # InputMap[l][2]
BY DEF InputMap, Flags

LEMMA PlayerHas ==
  ASSUME NEW in \in PlayerInputs, NEW n \in 1 .. 2
  PROVE  /\ in[n] \in PlayerSet /\ in[n].type \in {"KEYBOARD", "JOY"}
         /\ \A f \in Flags : in[n][f] \in FlagValues
BY DEF PlayerInputs, PlayerSet, Flags

LEMMA SetFlag ==
  ASSUME NEW in \in PlayerInputs, NEW n \in 1 .. 2, NEW f \in Flags, NEW v \in FlagValues
  PROVE  /\ [in EXCEPT ![n][f] = v] \in PlayerInputs
         /\ \A p \in 1 .. 2, g \in Flags :
              [in EXCEPT ![n][f] = v][p][g] = IF p = n /\ g = f THEN v ELSE in[p][g]
         /\ \A p \in 1 .. 2 : [in EXCEPT ![n][f] = v][p].type = in[p].type
BY DEF PlayerInputs, PlayerSet, Flags

FlagDown(in, k) == [in EXCEPT ![InputMap[k][1]][InputMap[k][2]] = "off"]

LEMMA FlagFalls ==
  ASSUME NEW in \in PlayerInputs, NEW k \in DOMAIN InputMap
  PROVE  /\ FlagDown(in, k) \in PlayerInputs
         /\ \A p \in 1 .. 2, g \in Flags :
              FlagDown(in, k)[p][g]
                = IF p = InputMap[k][1] /\ g = InputMap[k][2] THEN "off" ELSE in[p][g]
         /\ \A p \in 1 .. 2 : FlagDown(in, k)[p].type = in[p].type
<1>1. "off" \in FlagValues /\ InputMap[k][1] \in 1 .. 2 /\ InputMap[k][2] \in Flags
  BY KeyMapHas DEF FlagValues
<1> QED BY <1>1, SetFlag DEF FlagDown

LEMMA SetType ==
  ASSUME NEW in \in PlayerInputs, NEW n \in 1 .. 2
  PROVE  /\ [in EXCEPT ![n].type = "KEYBOARD"] \in PlayerInputs
         /\ \A p \in 1 .. 2, g \in Flags : [in EXCEPT ![n].type = "KEYBOARD"][p][g] = in[p][g]
         /\ \A p \in 1 .. 2 : [in EXCEPT ![n].type = "KEYBOARD"][p].type \in {in[p].type, "KEYBOARD"}
BY DEF PlayerInputs, PlayerSet, Flags

LEMMA ClearIs ==
  /\ ClearInput \in PlayerInputs
  /\ \A n \in 1 .. 2 : ClearInput[n].type = "KEYBOARD" /\ \A f \in Flags : ClearInput[n][f] = "off"
BY DEF ClearInput, PlayerInputs, PlayerSet, Flags, FlagValues

LEMMA PmHas ==
  ASSUME NEW m \in PmSet
  PROVE  /\ m.state \in States /\ m.request \in States \cup {None2} /\ m.one \in BOOLEAN
         /\ m.paused \in BOOLEAN /\ m.pausePressed \in BOOLEAN /\ m.debug \in BOOLEAN
         /\ m.won \in BOOLEAN /\ m.music \in BOOLEAN /\ m.fx \in BOOLEAN
         /\ m.second \in BOOLEAN /\ m.prev \in Keys \cup {None2} /\ m.typed \in Keys \cup {None2}
         /\ m.in \in PlayerInputs /\ m.exit \in BOOLEAN /\ m.cut \in BOOLEAN /\ m.held \in SUBSET Keys
         /\ m.wire \in Seq(Codes) /\ m.pc \in {"input", "move", "state", "ended"}
BY DEF PmSet

\* What an unchanged part says goes on to hold.
LEMMA GameKeeps ==
  ASSUME NEW m, NEW u, SameGame(m, u), DataThere(m)
  PROVE  DataThere(u)
BY DEF SameGame, DataThere

LEMMA KeysKeep ==
  ASSUME NEW m, NEW u, SameKeys(m, u), NoNewKeys(m, u), Sending(m), Backed(m)
  PROVE  Sending(u) /\ Backed(u)
<1>1. Sending(u) /\ OnWire(u) = OnWire(m)
  BY DEF SameKeys, Sending, OnWire
<1>2. Backed(u)
  BY <1>1, KeyMapHas DEF Backed, FlagOf, NoNewKeys, SameKeys
<1> QED BY <1>1, <1>2

LEMMA KeyStep ==
  ASSUME NEW m, PmInv(m), NEW k \in Keys, m.wire = <<>>, m.pc # "ended"
  PROVE  /\ PmInv([m EXCEPT !.held = m.held \cup {k}, !.wire = <<k>>])
         /\ k \in m.held => PmInv([m EXCEPT !.held = m.held \ {k}, !.wire = <<Release, k>>])
<1>1. m \in PmSet
  BY DEF PmInv
<1>2. ASSUME NEW H \in SUBSET Keys, NEW w \in Seq(Codes), NEW u, u = [m EXCEPT !.held = H, !.wire = w],
             ~m.cut => Sending(u) /\ Backed(u)
      PROVE  PmInv(u)
  <2>1. /\ u \in PmSet /\ SameGame(m, u) /\ u.in = m.in /\ u.one = m.one /\ u.request = m.request
        /\ u.pc = m.pc /\ u.cut = m.cut
    BY <1>1, <1>2, ZenonT(40) DEF PmSet, SameGame
  <2>2. DataThere(u) /\ Requests(u) /\ Alone(u)
    BY <2>1, GameKeeps DEF PmInv, Requests, Alone, SameGame
  <2> QED BY <1>2, <2>1, <2>2 DEF PmInv
<1>4. <<k>> \in Seq(Codes) /\ <<Release, k>> \in Seq(Codes)
  BY DEF Codes
<1>5. ~m.cut => ~m.second
  BY DEF PmInv, Sending
<1>6. PmInv([m EXCEPT !.held = m.held \cup {k}, !.wire = <<k>>])
  <2> DEFINE u == [m EXCEPT !.held = m.held \cup {k}, !.wire = <<k>>]
  <2>1. m.held \cup {k} \in SUBSET Keys
    BY <1>1, PmHas
  <2>2. u.held = m.held \cup {k} /\ u.wire = <<k>> /\ u.second = m.second /\ u.in = m.in
    BY <1>1 DEF PmSet
  <2> HIDE DEF u
  <2>3. ~m.cut => Sending(u)
    BY <1>5, <2>2 DEF Sending
  <2>4. ~m.cut => Backed(u)
    BY <2>2 DEF PmInv, Backed, OnWire, FlagOf
  <2> QED BY <1>2, <1>4, <2>1, <2>3, <2>4 DEF u
<1>7. ASSUME k \in m.held PROVE PmInv([m EXCEPT !.held = m.held \ {k}, !.wire = <<Release, k>>])
  <2> DEFINE u == [m EXCEPT !.held = m.held \ {k}, !.wire = <<Release, k>>]
  <2>1. m.held \ {k} \in SUBSET Keys
    BY <1>1, PmHas
  <2>2. u.held = m.held \ {k} /\ u.wire = <<Release, k>> /\ u.second = m.second /\ u.in = m.in
    BY <1>1 DEF PmSet
  <2> HIDE DEF u
  <2>3. ~m.cut => Sending(u)
    BY <1>5, <2>2 DEF Sending
  <2>4. k \in OnWire(u)
    <3>1. 2 \in DOMAIN u.wire /\ u.wire[2] = k
      BY <2>2
    <3> QED BY <3>1 DEF OnWire
  <2>5. ~m.cut => Backed(u)
    BY <2>2, <2>4 DEF PmInv, Backed, OnWire, FlagOf
  <2> QED BY <1>2, <1>4, <2>1, <2>3, <2>5 DEF u
<1> QED BY <1>6, <1>7

\* The second byte of a release: the flag of its key falls.
LEMMA ReleasedGives ==
  ASSUME NEW m \in PmSet, NEW k \in Keys
  PROVE  LET u == Released(m, k)
         IN  /\ u \in PmSet /\ SameGame(m, u) /\ u.request = m.request /\ u.pc = m.pc /\ u.one = m.one
             /\ u.cut = m.cut /\ u.held = m.held /\ u.wire = m.wire /\ u.second = FALSE
             /\ u.in = IF Mapped(k) THEN FlagDown(m.in, k) ELSE m.in
<1> DEFINE u == Released(m, k)
           t == IF m.prev = k THEN k ELSE m.typed
           c == [m EXCEPT !.second = FALSE, !.typed = t]
           in == FlagDown(m.in, k)
<1>1. u = IF Mapped(k) THEN [c EXCEPT !.in[InputMap[k][1]][InputMap[k][2]] = "off"]
          ELSE IF k = "P" THEN [c EXCEPT !.pausePressed = FALSE] ELSE c
  BY Zenon DEF Released
<1>2. /\ c \in PmSet /\ SameGame(m, c) /\ c.request = m.request /\ c.pc = m.pc /\ c.one = m.one
      /\ c.cut = m.cut /\ c.held = m.held /\ c.wire = m.wire /\ c.second = FALSE /\ c.in = m.in
  <2>1. t \in Keys \cup {None2}
    BY PmHas
  <2> HIDE DEF t
  <2> QED BY <2>1, ZenonT(40) DEF PmSet, SameGame
<1> HIDE DEF c
<1>3. CASE Mapped(k)
  <2>1. u = [c EXCEPT !.in = in]
    <3>1. u = [c EXCEPT !.in = [c.in EXCEPT ![InputMap[k][1]][InputMap[k][2]] = "off"]]
      BY <1>1, <1>3
    <3> QED BY <1>2, <3>1 DEF FlagDown
  <2>2. in \in PlayerInputs
    <3>1. k \in DOMAIN InputMap /\ m.in \in PlayerInputs
      BY <1>3, PmHas DEF Mapped
    <3> QED BY <3>1, FlagFalls
  <2> HIDE DEF u, in
  <2>3. /\ u \in PmSet /\ SameGame(c, u) /\ u.request = c.request /\ u.pc = c.pc /\ u.one = c.one
        /\ u.cut = c.cut /\ u.held = c.held /\ u.wire = c.wire /\ u.second = c.second /\ u.in = in
    BY <1>2, <2>1, <2>2 DEF PmSet, SameGame
  <2> QED BY <1>2, <1>3, <2>3 DEF u, in, SameGame
<1>4. CASE ~Mapped(k) /\ k = "P"
  <2>1. u = [c EXCEPT !.pausePressed = FALSE]
    BY <1>1, <1>4
  <2> HIDE DEF u, in
  <2>2. /\ u \in PmSet /\ SameGame(c, u) /\ u.request = c.request /\ u.pc = c.pc /\ u.one = c.one
        /\ u.cut = c.cut /\ u.held = c.held /\ u.wire = c.wire /\ u.second = c.second /\ u.in = c.in
    BY <1>2, <2>1, ZenonT(40) DEF PmSet, SameGame
  <2> QED BY <1>2, <1>4, <2>2 DEF u, SameGame
<1>5. CASE ~Mapped(k) /\ k # "P"
  <2>1. u = c
    BY <1>1, <1>5
  <2> HIDE DEF u
  <2> QED BY <1>2, <1>5, <2>1 DEF u
<1> QED BY <1>3, <1>4, <1>5

\* A press: the flag of the key rises.
LEMMA PressedGives ==
  ASSUME NEW m \in PmSet, NEW k \in Keys
  PROVE  LET u == Pressed(m, k)
         IN  /\ u \in PmSet /\ SameGame(m, u) /\ SameKeys(m, u)
             /\ u.request = m.request /\ u.pc = m.pc /\ u.one = m.one
             /\ ~Mapped(k) => u.in = m.in
             /\ Mapped(k) => \A p \in 1 .. 2, g \in Flags :
                  u.in[p][g] = IF p = InputMap[k][1] /\ g = InputMap[k][2] THEN "key" ELSE m.in[p][g]
             /\ \A p \in 1 .. 2 : u.in[p].type \in {m.in[p].type, "KEYBOARD"}
<1> DEFINE u == Pressed(m, k)
           n == InputMap[k][1]
           x == m.exit \/ k = "ESC"
           c == [m EXCEPT !.prev = k, !.exit = x]
           in == [m.in EXCEPT ![n][InputMap[k][2]] = "key"]
           f == [c EXCEPT !.in = in]
<1>1. /\ c \in PmSet /\ SameGame(m, c) /\ SameKeys(m, c) /\ c.request = m.request /\ c.pc = m.pc
      /\ c.one = m.one /\ c.in = m.in
  <2>1. x \in BOOLEAN
    OBVIOUS
  <2> HIDE DEF x
  <2> QED BY <2>1, ZenonT(40) DEF PmSet, SameGame, SameKeys
<1>2. /\ Mapped(k) => u = IF n = 1 \/ ~m.one
                          THEN [[c EXCEPT !.in[n][InputMap[k][2]] = "key"] EXCEPT !.in[n].type = "KEYBOARD"]
                          ELSE [c EXCEPT !.in[n][InputMap[k][2]] = "key"]
      /\ ~Mapped(k) => u = IF k = "P" THEN [c EXCEPT !.pausePressed = TRUE] ELSE c
  <2>1. Mapped(k) => k # "P"
    BY DEF Mapped, InputMap
  <2> DEFINE a == [c EXCEPT !.in[n][InputMap[k][2]] = "key"]
             b == IF n = 1 \/ ~m.one THEN [a EXCEPT !.in[n].type = "KEYBOARD"] ELSE a
             e == [c EXCEPT !.pausePressed = TRUE]
  <2>2. u = CASE Mapped(k) -> b [] k = "P" -> e [] OTHER -> c
    BY DEF Pressed
  <2> HIDE DEF b, e, c, u
  <2>3. (Mapped(k) => u = b) /\ (~Mapped(k) => u = IF k = "P" THEN e ELSE c)
    BY <2>1, <2>2
  <2> QED BY <2>3 DEF b, e
<1> HIDE DEF c
<1>3. CASE Mapped(k)
  <2>1. n \in 1 .. 2 /\ InputMap[k][2] \in Flags /\ m.in \in PlayerInputs
    BY <1>3, KeyMapHas, PmHas DEF Mapped
  <2>2. [c EXCEPT !.in[n][InputMap[k][2]] = "key"] = f
    BY <1>1
  <2>3. /\ in \in PlayerInputs
        /\ \A p \in 1 .. 2, g \in Flags :
             in[p][g] = IF p = n /\ g = InputMap[k][2] THEN "key" ELSE m.in[p][g]
        /\ \A p \in 1 .. 2 : in[p].type = m.in[p].type
    <3>1. "key" \in FlagValues
      BY DEF FlagValues
    <3> DEFINE mi == m.in
               fl == InputMap[k][2]
    <3>2. mi \in PlayerInputs /\ n \in 1 .. 2 /\ fl \in Flags
      BY <2>1
    <3>3. in = [mi EXCEPT ![n][fl] = "key"]
      OBVIOUS
    <3> HIDE DEF n, mi, fl, in
    <3>4. /\ [mi EXCEPT ![n][fl] = "key"] \in PlayerInputs
          /\ \A p \in 1 .. 2, g \in Flags :
               [mi EXCEPT ![n][fl] = "key"][p][g] = IF p = n /\ g = fl THEN "key" ELSE mi[p][g]
          /\ \A p \in 1 .. 2 : [mi EXCEPT ![n][fl] = "key"][p].type = mi[p].type
      BY <3>1, <3>2, SetFlag
    <3>5. /\ in \in PlayerInputs
          /\ \A p \in 1 .. 2, g \in Flags : in[p][g] = IF p = n /\ g = fl THEN "key" ELSE mi[p][g]
          /\ \A p \in 1 .. 2 : in[p].type = mi[p].type
      BY <3>3, <3>4, Zenon
    <3> QED BY <3>5 DEF mi, fl
  <2> HIDE DEF in
  <2> DEFINE ty == [in EXCEPT ![n].type = "KEYBOARD"]
             z == IF n = 1 \/ ~m.one THEN ty ELSE in
  <2>4. /\ ty \in PlayerInputs
        /\ \A p \in 1 .. 2, g \in Flags : ty[p][g] = in[p][g]
        /\ \A p \in 1 .. 2 : ty[p].type \in {in[p].type, "KEYBOARD"}
    <3> HIDE DEF n
    <3> QED BY <2>1, <2>3, SetType
  <2>5. u = [c EXCEPT !.in = z]
    <3>1. f.in = in
      BY <1>1 DEF PmSet
    <3>2. [f EXCEPT !.in[n].type = "KEYBOARD"] = [f EXCEPT !.in = ty]
      BY <3>1
    <3>3. [f EXCEPT !.in = ty] = [c EXCEPT !.in = ty]
      OBVIOUS
    <3> HIDE DEF u, n, f, ty
    <3> QED BY <1>2, <1>3, <2>2, <3>2, <3>3 DEF f
  <2> HIDE DEF ty
  <2>6. /\ z \in PlayerInputs
        /\ \A p \in 1 .. 2, g \in Flags :
             z[p][g] = IF p = n /\ g = InputMap[k][2] THEN "key" ELSE m.in[p][g]
        /\ \A p \in 1 .. 2 : z[p].type \in {m.in[p].type, "KEYBOARD"}
    BY <2>3, <2>4
  <2> HIDE DEF u, z
  <2>7. /\ u \in PmSet /\ SameGame(c, u) /\ SameKeys(c, u) /\ u.request = c.request /\ u.pc = c.pc
        /\ u.one = c.one /\ u.in = z
    BY <1>1, <2>5, <2>6 DEF PmSet, SameGame, SameKeys
  <2>8. SameGame(m, u) /\ SameKeys(m, u)
    BY <1>1, <2>7 DEF SameGame, SameKeys
  <2> QED BY <1>1, <1>3, <2>6, <2>7, <2>8 DEF u
<1>4. CASE ~Mapped(k)
  <2> DEFINE e == [c EXCEPT !.pausePressed = TRUE]
  <2> HIDE DEF u
  <2>3. /\ e \in PmSet /\ SameGame(c, e) /\ SameKeys(c, e) /\ e.request = c.request /\ e.pc = c.pc
        /\ e.one = c.one /\ e.in = c.in
    BY <1>1, ZenonT(40) DEF PmSet, SameGame, SameKeys
  <2>4. u = e \/ u = c
    BY <1>2, <1>4
  <2> HIDE DEF e
  <2>1. /\ u \in PmSet /\ SameGame(c, u) /\ SameKeys(c, u) /\ u.request = c.request /\ u.pc = c.pc
        /\ u.one = c.one /\ u.in = c.in
    <3>1. CASE u = e
      BY <2>3, <3>1
    <3>2. CASE u = c
      BY <1>1, <3>2 DEF SameGame, SameKeys
    <3> QED BY <2>4, <3>1, <3>2
  <2>2. SameGame(m, u) /\ SameKeys(m, u)
    BY <1>1, <2>1 DEF SameGame, SameKeys
  <2> QED BY <1>1, <1>4, <2>1, <2>2 DEF u
<1> QED BY <1>3, <1>4

\* The interrupt takes a byte from the keyboard.
LEMMA InterruptStep ==
  ASSUME NEW m, PmInv(m), m.pc # "ended", m.wire # <<>>
  PROVE  PmInv([Keyboard_IRQ_Handler(m, Head(m.wire)) EXCEPT !.wire = Tail(m.wire)])
<1> DEFINE b == Head(m.wire)
           w == Tail(m.wire)
           h == Keyboard_IRQ_Handler(m, b)
           u == [h EXCEPT !.wire = w]
<1>1. m \in PmSet /\ DataThere(m) /\ Requests(m) /\ Alone(m)
  BY DEF PmInv
<1>2. m.wire \in Seq(Codes) /\ b \in Codes /\ w \in Seq(Codes) /\ m.in \in PlayerInputs
  <2>1. m.wire \in Seq(Codes) /\ m.in \in PlayerInputs
    BY <1>1, PmHas
  <2> QED BY <2>1
<1> HIDE DEF b, w
<1>3. /\ b = Release => h = [m EXCEPT !.second = TRUE]
      /\ b # Release /\ m.second => h = Released(m, b)
      /\ b # Release /\ ~m.second => h = Pressed(m, b)
  BY DEF Keyboard_IRQ_Handler
<1> HIDE DEF h
<1>4. ASSUME h \in PmSet
      PROVE  /\ u \in PmSet /\ SameGame(h, u) /\ u.request = h.request /\ u.pc = h.pc /\ u.one = h.one
             /\ u.cut = h.cut /\ u.held = h.held /\ u.wire = w /\ u.second = h.second /\ u.in = h.in
  BY <1>2, <1>4, ZenonT(40) DEF PmSet, SameGame
<1> SUFFICES PmInv(u)
  BY DEF u, h, b, w
<1> HIDE DEF u
\* What is common to the three kinds of byte.
<1>9. ASSUME h \in PmSet, SameGame(m, h), h.request = m.request, h.pc = m.pc, h.one = m.one,
             h.cut = m.cut,
             \A p \in 1 .. 2 : h.in[p].type \in {m.in[p].type, "KEYBOARD"},
             \A p \in 1 .. 2, g \in Flags : h.in[p][g] = "joy" => m.in[p][g] = "joy",
             ~m.cut => Sending(u) /\ Backed(u)
      PROVE  PmInv(u)
  <2>1. /\ u \in PmSet /\ SameGame(h, u) /\ u.request = h.request /\ u.pc = h.pc /\ u.one = h.one
        /\ u.cut = h.cut /\ u.in = h.in
    BY <1>4, <1>9
  <2>2. SameGame(m, u)
    BY <1>9, <2>1 DEF SameGame
  <2>3. DataThere(u) /\ Requests(u)
    BY <1>1, <1>9, <2>1, <2>2, GameKeeps DEF Requests, SameGame
  <2>4. Alone(u)
    BY <1>1, <1>9, <2>1, <2>2 DEF Alone, SameGame
  <2> QED BY <1>9, <2>1, <2>3, <2>4 DEF PmInv
\* What the wire holds when no release was cut in two.
<1>5. ASSUME ~m.cut
      PROVE  \/ \E k \in Keys : m.wire = <<k>> /\ b = k /\ w = <<>> /\ k # Release
                                  /\ (m.second \/ k \in m.held)
             \/ \E k \in Keys : m.wire = <<Release, k>> /\ b = Release /\ w = <<k>> /\ ~m.second
  <2>1. Sending(m)
    BY <1>5 DEF PmInv
  <2>2. PICK k \in Keys : \/ m.wire = <<k>> /\ ~m.second /\ k \in m.held
                          \/ m.wire = <<Release, k>> /\ ~m.second
                          \/ m.wire = <<k>> /\ m.second
    BY <2>1 DEF Sending
  <2>3. k # Release
    BY PongMenuAssumption DEF KeyNames, Release
  <2>4. CASE m.wire = <<k>>
    BY <2>2, <2>3, <2>4 DEF b, w
  <2>5. CASE m.wire = <<Release, k>>
    BY <2>2, <2>3, <2>5 DEF b, w
  <2> QED BY <2>2, <2>4, <2>5
<1>6. CASE b = Release
  <2>1. h = [m EXCEPT !.second = TRUE]
    BY <1>3, <1>6
  <2>2. /\ h \in PmSet /\ SameGame(m, h) /\ h.request = m.request /\ h.pc = m.pc /\ h.one = m.one
        /\ h.cut = m.cut /\ h.held = m.held /\ h.in = m.in /\ h.second = TRUE
    BY <1>1, <2>1, ZenonT(40) DEF PmSet, SameGame
  <2>4. u.wire = w /\ u.second = h.second /\ u.held = h.held /\ u.in = h.in
    BY <1>4, <2>2
  <2>3. ASSUME ~m.cut PROVE Sending(u) /\ Backed(u)
    <3>1. PICK k \in Keys : m.wire = <<Release, k>> /\ w = <<k>>
      BY <1>5, <1>6, <2>3
    <3>2. Sending(u)
      BY <2>2, <2>3, <2>4, <3>1 DEF Sending
    <3>3. OnWire(m) \subseteq {Release, k} /\ k \in OnWire(u)
      <4>1. \A i \in DOMAIN m.wire : m.wire[i] \in {Release, k}
        BY <3>1
      <4>2. 1 \in DOMAIN u.wire /\ u.wire[1] = k
        BY <2>4, <3>1
      <4> QED BY <4>1, <4>2 DEF OnWire
    <3>4. \A l \in DOMAIN InputMap : l # Release
      BY DEF InputMap, Release
    <3>5. Backed(m)
      BY <2>3 DEF PmInv
    <3>6. Backed(u)
      BY <2>2, <2>3, <2>4, <3>3, <3>4, <3>5 DEF Backed, FlagOf
    <3> QED BY <3>2, <3>6
  <2> QED BY <1>9, <2>2, <2>3
<1>7. CASE b # Release /\ m.second
  <2>1. b \in Keys
    BY <1>2, <1>7 DEF Codes
  <2>2. h = Released(m, b)
    BY <1>3, <1>7
  <2>3. /\ h \in PmSet /\ SameGame(m, h) /\ h.request = m.request /\ h.pc = m.pc /\ h.one = m.one
        /\ h.cut = m.cut /\ h.held = m.held /\ h.second = FALSE
        /\ h.in = IF Mapped(b) THEN FlagDown(m.in, b) ELSE m.in
    BY <1>1, <2>1, <2>2, ReleasedGives
  <2>4. /\ \A p \in 1 .. 2 : h.in[p].type = m.in[p].type
        /\ \A p \in 1 .. 2, g \in Flags :
             h.in[p][g] = IF Mapped(b) /\ p = InputMap[b][1] /\ g = InputMap[b][2]
                          THEN "off" ELSE m.in[p][g]
    <3>1. CASE Mapped(b)
      <4>1. b \in DOMAIN InputMap /\ h.in = FlagDown(m.in, b)
        BY <2>3, <3>1 DEF Mapped
      <4> QED BY <1>2, <3>1, <4>1, FlagFalls
    <3>2. CASE ~Mapped(b)
      BY <2>3, <3>2
    <3> QED BY <3>1, <3>2
  <2>7. u.wire = w /\ u.second = h.second /\ u.held = h.held /\ u.in = h.in
    BY <1>4, <2>3
  <2>5. ASSUME ~m.cut PROVE Sending(u) /\ Backed(u)
    <3>1. m.wire = <<b>> /\ w = <<>>
      BY <1>5, <1>7, <2>5
    <3>2. Sending(u)
      BY <2>3, <2>5, <2>7, <3>1 DEF Sending
    <3>3. OnWire(m) = {b}
      BY <3>1 DEF OnWire
    <3>4. Backed(m)
      BY <2>5 DEF PmInv
    <3>5. ASSUME NEW l \in DOMAIN InputMap, FlagOf(u, l) = "key"
          PROVE  l \in u.held
      <4>1. InputMap[l][1] \in 1 .. 2 /\ InputMap[l][2] \in Flags
        BY KeyMapHas
      <4>2. FlagOf(u, l) = IF Mapped(b) /\ InputMap[l][1] = InputMap[b][1] /\ InputMap[l][2] = InputMap[b][2]
                           THEN "off" ELSE FlagOf(m, l)
        BY <2>4, <2>5, <2>7, <4>1 DEF FlagOf
      <4>3. FlagOf(m, l) = "key" /\ l # b
        BY <3>5, <4>2 DEF Mapped
      <4> QED BY <2>3, <2>5, <2>7, <3>3, <3>4, <4>3 DEF Backed
    <3> QED BY <3>2, <3>5 DEF Backed
  <2>6. \A p \in 1 .. 2, g \in Flags : h.in[p][g] = "joy" => m.in[p][g] = "joy"
    BY <2>4
  <2> QED BY <1>9, <2>3, <2>4, <2>5, <2>6
<1>8. CASE b # Release /\ ~m.second
  <2>1. b \in Keys
    BY <1>2, <1>8 DEF Codes
  <2>2. h = Pressed(m, b)
    BY <1>3, <1>8
  <2>3. /\ h \in PmSet /\ SameGame(m, h) /\ SameKeys(m, h)
        /\ h.request = m.request /\ h.pc = m.pc /\ h.one = m.one
        /\ ~Mapped(b) => h.in = m.in
        /\ Mapped(b) => \A p \in 1 .. 2, g \in Flags :
             h.in[p][g] = IF p = InputMap[b][1] /\ g = InputMap[b][2] THEN "key" ELSE m.in[p][g]
        /\ \A p \in 1 .. 2 : h.in[p].type \in {m.in[p].type, "KEYBOARD"}
    BY <1>1, <2>1, <2>2, PressedGives
  <2>4. \A p \in 1 .. 2, g \in Flags : h.in[p][g] = "joy" => m.in[p][g] = "joy"
    BY <2>3
  <2>7. u.wire = w /\ u.second = h.second /\ u.held = h.held /\ u.in = h.in
    BY <1>4, <2>3
  <2>5. ASSUME ~m.cut PROVE Sending(u) /\ Backed(u)
    <3>1. m.wire = <<b>> /\ w = <<>> /\ b \in m.held
      BY <1>5, <1>8, <2>5
    <3>2. Sending(u)
      BY <1>8, <2>3, <2>5, <2>7, <3>1 DEF Sending, SameKeys
    <3>3. OnWire(m) = {b}
      BY <3>1 DEF OnWire
    <3>4. Backed(m)
      BY <2>5 DEF PmInv
    <3>5. ASSUME NEW l \in DOMAIN InputMap, FlagOf(u, l) = "key"
          PROVE  l \in u.held
      <4>1. InputMap[l][1] \in 1 .. 2 /\ InputMap[l][2] \in Flags
        BY KeyMapHas
      <4>2. CASE l = b
        BY <2>3, <2>5, <2>7, <3>1, <4>2 DEF SameKeys
      <4>3. CASE l # b
        <5>1. FlagOf(m, l) = "key"
          BY <2>3, <2>5, <2>7, <3>5, <4>1, <4>3, KeyMapHas DEF FlagOf, Mapped
        <5> QED BY <2>3, <2>5, <2>7, <3>3, <3>4, <4>3, <5>1 DEF Backed, SameKeys
      <4> QED BY <4>2, <4>3
    <3> QED BY <3>2, <3>5 DEF Backed
  <2> QED BY <1>9, <2>3, <2>4, <2>5 DEF SameKeys
<1> QED BY <1>6, <1>7, <1>8

\* A joystick is read into the flags of its player.
LEMMA ReadOneGives ==
  ASSUME NEW m \in PmSet, NEW n \in 1 .. 2, NEW contacts
  PROVE  LET u == Joystick_ReadOne(m, n, contacts)
         IN  /\ u \in PmSet /\ u = [m EXCEPT !.in = u.in] /\ NoNewKeys(m, u)
             /\ \A p \in 1 .. 2 : p # n => u.in[p] = m.in[p]
<1> DEFINE u == Joystick_ReadOne(m, n, contacts)
           pl == [f \in Flags \cup {"type"} |->
                    IF f = "type" THEN "JOY" ELSE IF f \in contacts THEN "joy" ELSE "off"]
           in == [m.in EXCEPT ![n] = pl]
<1>1. m.in \in PlayerInputs
  BY PmHas
<1>2. pl \in PlayerSet /\ \A f \in Flags : pl[f] # "key"
  BY DEF Flags, PlayerSet, FlagValues
<1>3. u = m \/ u = [m EXCEPT !.in[n] = pl]
  BY DEF Joystick_ReadOne
<1>4. CASE u = m
  <2>1. m = [m EXCEPT !.in = m.in]
    BY DEF PmSet
  <2> HIDE DEF u
  <2> QED BY <1>4, <2>1 DEF NoNewKeys, u
<1>5. CASE u = [m EXCEPT !.in[n] = pl]
  <2>1. u = [m EXCEPT !.in = in]
    BY <1>5
  <2> HIDE DEF u, pl
  <2>2. /\ in \in PlayerInputs /\ \A p \in 1 .. 2 : p # n => in[p] = m.in[p]
        /\ in[n] = pl
    BY <1>1, <1>2 DEF PlayerInputs
  <2> HIDE DEF in
  <2>3. u \in PmSet /\ u.in = in
    BY <2>1, <2>2 DEF PmSet
  <2>4. NoNewKeys(m, u)
    BY <1>2, <2>2, <2>3 DEF NoNewKeys
  <2> QED BY <2>1, <2>2, <2>3, <2>4 DEF u
<1> QED BY <1>3, <1>4, <1>5

LEMMA GetInputGives ==
  ASSUME NEW m \in PmSet, NEW joy
  PROVE  LET u == Joystick_GetInput(m, joy)
         IN  /\ u \in PmSet /\ u = [m EXCEPT !.in = u.in] /\ NoNewKeys(m, u)
             /\ ~SecondJoyNeedsReading(m) => u.in[2] = m.in[2]
<1> DEFINE a == Joystick_ReadOne(m, 1, joy[1])
           b == Joystick_ReadOne(a, 2, joy[2])
           u == Joystick_GetInput(m, joy)
<1>1. a \in PmSet /\ a = [m EXCEPT !.in = a.in] /\ NoNewKeys(m, a) /\ a.in[2] = m.in[2]
  BY ReadOneGives
<1>2. u = IF SecondJoyNeedsReading(m) THEN b ELSE a
  BY DEF Joystick_GetInput
<1> HIDE DEF a
<1>3. b \in PmSet /\ b = [a EXCEPT !.in = b.in] /\ NoNewKeys(a, b)
  BY <1>1, ReadOneGives
<1> HIDE DEF b
<1>4. b = [m EXCEPT !.in = b.in]
  BY <1>1, <1>3
<1>5. NoNewKeys(m, b)
  BY <1>1, <1>3 DEF NoNewKeys
<1> HIDE DEF u
<1> QED BY <1>1, <1>2, <1>3, <1>4, <1>5 DEF u

\* A part of a frame that leaves the keyboard and the game alone.
LEMMA QuietStep ==
  ASSUME NEW m, PmInv(m), NEW u \in PmSet, SameGame(m, u), SameKeys(m, u), NoNewKeys(m, u),
         u.pc # "ended", m.pc # "ended", Requests(u), Alone(u)
  PROVE  PmInv(u)
<1>1. DataThere(u)
  BY GameKeeps DEF PmInv
<1>2. ~u.cut => Sending(u) /\ Backed(u)
  BY KeysKeep DEF PmInv, SameKeys
<1> QED BY <1>1, <1>2 DEF PmInv

LEMMA Unpressed ==
  ASSUME NEW m \in PmSet, NEW e, e = [m EXCEPT !.pausePressed = FALSE]
  PROVE  e \in PmSet
BY ZenonT(40) DEF PmSet

\* The frame takes its input.
LEMMA InputStep ==
  ASSUME NEW m, PmInv(m), m.pc = "input", NEW joy
  PROVE  LET p == Game_HandlePlayerInput_PauseMode(m)
             u == [(IF p.paused THEN p ELSE Joystick_GetInput(p, joy)) EXCEPT !.pc = "move"]
         IN  PmInv(u) /\ u.state = m.state
<1> DEFINE p == Game_HandlePlayerInput_PauseMode(m)
           g == Joystick_GetInput(p, joy)
           h == IF p.paused THEN p ELSE g
           u == [h EXCEPT !.pc = "move"]
<1>1. m \in PmSet /\ Requests(m) /\ Alone(m) /\ m.request = None2
  BY DEF PmInv, Requests
<1>2. /\ p \in PmSet /\ SameGame(m, p) /\ SameKeys(m, p) /\ p.request = m.request /\ p.one = m.one
      /\ p.in = m.in /\ p.pc = m.pc
  <2> DEFINE x == ~m.paused
             a == [m EXCEPT !.pausePressed = FALSE, !.paused = x]
             b == IF m.pausePressed THEN a ELSE m
             y == ~b.debug
             z == ~b.paused
             c == [b EXCEPT !.typed = None2, !.debug = y, !.paused = z]
  <2>1. /\ a \in PmSet /\ SameGame(m, a) /\ SameKeys(m, a) /\ a.request = m.request /\ a.one = m.one
        /\ a.in = m.in /\ a.pc = m.pc
    <3>1. x \in BOOLEAN
      OBVIOUS
    <3> HIDE DEF x
    <3> DEFINE e == [m EXCEPT !.pausePressed = FALSE]
    <3>5. a = [e EXCEPT !.paused = x] /\ e = [m EXCEPT !.pausePressed = FALSE]
      OBVIOUS
    <3> HIDE DEF e
    <3>4. e \in PmSet
      BY <1>1, <3>5, Unpressed
    <3>6. [e EXCEPT !.paused = x] \in PmSet
      BY <3>1, <3>4 DEF PmSet
    <3>2. a \in PmSet
      BY <3>5, <3>6
    <3>3. /\ a.request = m.request /\ a.one = m.one /\ a.in = m.in /\ a.pc = m.pc
          /\ SameGame(m, a) /\ SameKeys(m, a)
      BY <1>1 DEF PmSet, SameGame, SameKeys
    <3> QED BY <3>2, <3>3
  <2>2. p = IF b.typed = "D" THEN c ELSE b
    BY Zenon DEF Game_HandlePlayerInput_PauseMode
  <2>3. /\ b \in PmSet /\ SameGame(m, b) /\ SameKeys(m, b) /\ b.request = m.request /\ b.one = m.one
        /\ b.in = m.in /\ b.pc = m.pc
    <3> HIDE DEF a
    <3> QED BY <1>1, <2>1 DEF SameGame, SameKeys
  <2> HIDE DEF b
  <2>4. /\ c \in PmSet /\ SameGame(b, c) /\ SameKeys(b, c) /\ c.request = b.request /\ c.one = b.one
        /\ c.in = b.in /\ c.pc = b.pc
    <3>1. y \in BOOLEAN /\ z \in BOOLEAN
      OBVIOUS
    <3> HIDE DEF y, z
    <3> QED BY <2>3, <3>1, ZenonT(40) DEF PmSet, SameGame, SameKeys
  <2> HIDE DEF c, p
  <2>5. SameGame(m, c) /\ SameKeys(m, c)
    BY <2>3, <2>4 DEF SameGame, SameKeys
  <2> QED BY <2>2, <2>3, <2>4, <2>5
<1> HIDE DEF p
<1>3. /\ g \in PmSet /\ g = [p EXCEPT !.in = g.in] /\ NoNewKeys(p, g)
      /\ ~SecondJoyNeedsReading(p) => g.in[2] = p.in[2]
  BY <1>2, GetInputGives
<1> HIDE DEF g
<1>4. /\ SameGame(p, g) /\ SameKeys(p, g) /\ g.request = p.request /\ g.one = p.one /\ g.pc = p.pc
  BY <1>2, <1>3 DEF PmSet, SameGame, SameKeys
<1>5. /\ h \in PmSet /\ SameGame(m, h) /\ SameKeys(m, h) /\ h.request = m.request /\ h.one = m.one
      /\ NoNewKeys(m, h) /\ (~SecondJoyNeedsReading(m) => h.in[2] = m.in[2])
  <2>1. SecondJoyNeedsReading(p) = SecondJoyNeedsReading(m)
    BY <1>2 DEF SecondJoyNeedsReading, SameGame
  <2>2. CASE h = p
    BY <1>2, <2>2 DEF NoNewKeys
  <2>3. CASE h = g
    <3>1. SameGame(m, g) /\ SameKeys(m, g) /\ NoNewKeys(m, g)
      BY <1>2, <1>3, <1>4 DEF SameGame, SameKeys, NoNewKeys
    <3> HIDE DEF h
    <3> QED BY <1>2, <1>3, <1>4, <2>1, <2>3, <3>1
  <2> QED BY <2>2, <2>3
<1> HIDE DEF h
<1>6. /\ u \in PmSet /\ SameGame(h, u) /\ SameKeys(h, u) /\ u.request = h.request /\ u.one = h.one
      /\ u.in = h.in /\ u.pc = "move"
  BY <1>5 DEF PmSet, SameGame, SameKeys
<1> SUFFICES PmInv(u) /\ u.state = m.state
  BY DEF u, h, g, p
<1> HIDE DEF u
<1>7. SameGame(m, u) /\ SameKeys(m, u) /\ NoNewKeys(m, u)
  BY <1>5, <1>6 DEF SameGame, SameKeys, NoNewKeys
<1>8. Requests(u)
  BY <1>1, <1>5, <1>6, <1>7 DEF Requests, SameGame
<1>9. Alone(u)
  <2> SUFFICES ASSUME u.state = "LEVEL", u.one
               PROVE  u.in[2].type = "KEYBOARD" /\ \A f \in Flags : u.in[2][f] # "joy"
    BY DEF Alone
  <2>1. m.state = "LEVEL" /\ m.one
    BY <1>5, <1>6, <1>7 DEF SameGame
  <2>2. u.in[2] = m.in[2]
    BY <1>5, <1>6, <2>1 DEF SecondJoyNeedsReading
  <2> QED BY <1>1, <2>1, <2>2 DEF Alone
<1> QED BY <1>6, <1>7, <1>8, <1>9, QuietStep DEF SameGame

\* A fire taken by the menu is off, and no other flag changes.
LEMMA FireTaken ==
  ASSUME NEW in \in PlayerInputs, NEW fires \in SUBSET (1 .. 2),
         NEW out, out = [n \in 1 .. 2 |-> IF n \in fires THEN [in[n] EXCEPT !.fire = "off"] ELSE in[n]]
  PROVE  /\ out \in PlayerInputs
         /\ \A n \in 1 .. 2, f \in Flags : out[n][f] = "key" => in[n][f] = "key"
<1>1. ASSUME NEW n \in 1 .. 2
      PROVE  /\ out[n] \in PlayerSet
             /\ \A f \in Flags : out[n][f] = "key" => in[n][f] = "key"
  <2>1. out[n] = IF n \in fires THEN [in[n] EXCEPT !.fire = "off"] ELSE in[n]
    OBVIOUS
  <2>2. in[n] \in PlayerSet
    BY PlayerHas
  <2>3. [in[n] EXCEPT !.fire = "off"] \in PlayerSet
    BY <2>2 DEF PlayerSet, FlagValues
  <2>4. \A f \in Flags : [in[n] EXCEPT !.fire = "off"][f] = "key" => in[n][f] = "key"
    BY <2>2 DEF PlayerSet, Flags
  <2> QED BY <2>1, <2>2, <2>3, <2>4
<1>2. out \in PlayerInputs
  BY <1>1 DEF PlayerInputs
<1> QED BY <1>1, <1>2

\* What the menu, the credits and the level may do to the game when they move.
Moved(m, u) ==
  /\ u \in PmSet /\ SameGame(m, u) /\ SameKeys(m, u) /\ NoNewKeys(m, u) /\ u.pc = m.pc
  /\ u.request = m.request
     \/ u.request \in IF m.state = "MENU" THEN {"LEVEL", "CREDITS"} ELSE {"MENU"}
  /\ m.state = "LEVEL" => u.one = m.one /\ u.in = m.in

LEMMA Requested ==
  ASSUME NEW m \in PmSet, NEW s \in States, NEW u, u = Game_RequestSetState(m, s)
  PROVE  /\ u \in PmSet /\ SameGame(m, u) /\ SameKeys(m, u) /\ NoNewKeys(m, u) /\ u.pc = m.pc
         /\ u.request = s /\ u.one = m.one /\ u.in = m.in
BY DEF Game_RequestSetState, PmSet, SameGame, SameKeys, NoNewKeys

LEMMA MenuMoves ==
  ASSUME NEW m \in PmSet, m.state \in {"MENU", "CREDITS", "LEVEL"}
  PROVE  Moved(m, GameObjGameMenu_Move(m))
<1> DEFINE fires == {n \in 1 .. 2 : Set(m.in[n].fire)}
           credits == IF m.prev = "1" THEN Game_RequestSetState(m, "CREDITS") ELSE m
           asked == Game_RequestSetState(credits, "LEVEL")
           x == 2 \notin fires
           out == [n \in 1 .. 2 |-> IF n \in fires THEN [asked.in[n] EXCEPT !.fire = "off"] ELSE asked.in[n]]
           started == [asked EXCEPT !.one = x, !.in = out]
           back == Game_RequestSetState(m, "MENU")
           u == GameObjGameMenu_Move(m)
<1>0. States = {"STARTUP", "MENU", "CREDITS", "LEVEL"} /\ fires \in SUBSET (1 .. 2)
  BY DEF States
<1>1. u = CASE m.state = "MENU" -> (IF fires = {} THEN credits ELSE started)
            [] m.state = "CREDITS" -> (IF m.prev # None2 \/ fires # {} THEN back ELSE m)
            [] OTHER -> m
  BY DEF GameObjGameMenu_Move
<1>2. Moved(m, m)
  BY DEF Moved, SameGame, SameKeys, NoNewKeys
<1> HIDE DEF fires
<1>3. m.state # "MENU" /\ m.state # "LEVEL" => Moved(m, back)
  BY <1>0, Requested DEF Moved
<1>4. /\ credits \in PmSet /\ SameGame(m, credits) /\ SameKeys(m, credits) /\ NoNewKeys(m, credits)
      /\ credits.pc = m.pc /\ credits.in = m.in /\ credits.request \in {m.request, "CREDITS"}
  <2>1. CASE m.prev = "1"
    BY <1>0, <2>1, Requested
  <2>2. CASE m.prev # "1"
    BY <2>2 DEF SameGame, SameKeys, NoNewKeys
  <2> QED BY <2>1, <2>2
<1> HIDE DEF credits
<1>5. /\ asked \in PmSet /\ SameGame(credits, asked) /\ SameKeys(credits, asked)
      /\ asked.pc = credits.pc /\ asked.request = "LEVEL" /\ asked.in = credits.in
  BY <1>0, <1>4, Requested
<1> HIDE DEF asked
<1>6. m.state = "MENU" => Moved(m, started)
  <2>1. x \in BOOLEAN
    OBVIOUS
  <2>2. /\ out \in PlayerInputs
        /\ \A n \in 1 .. 2, f \in Flags : out[n][f] = "key" => asked.in[n][f] = "key"
    <3>1. asked.in \in PlayerInputs
      BY <1>5, PmHas
    <3> HIDE DEF out
    <3>2. out = [n \in 1 .. 2 |-> IF n \in fires THEN [asked.in[n] EXCEPT !.fire = "off"] ELSE asked.in[n]]
      BY DEF out
    <3> QED BY <1>0, <3>1, <3>2, FireTaken
  <2> HIDE DEF x, out
  <2>3. /\ started \in PmSet /\ SameGame(asked, started) /\ SameKeys(asked, started)
        /\ started.pc = asked.pc /\ started.request = asked.request /\ started.in = out
    BY <1>5, <2>1, <2>2, ZenonT(40) DEF PmSet, SameGame, SameKeys
  <2> HIDE DEF started
  <2>4. SameGame(m, started) /\ SameKeys(m, started)
    BY <1>4, <1>5, <2>3 DEF SameGame, SameKeys
  <2>5. NoNewKeys(m, started)
    BY <1>4, <1>5, <2>2, <2>3 DEF NoNewKeys
  <2> QED BY <1>4, <1>5, <2>3, <2>4, <2>5 DEF Moved
<1>7. m.state = "MENU" => Moved(m, credits)
  BY <1>4 DEF Moved
<1> HIDE DEF started, back, u
<1>8. CASE m.state = "MENU"
  <2>1. u = IF fires = {} THEN credits ELSE started
    BY <1>1, <1>8
  <2>2. Moved(m, u)
    BY <1>6, <1>7, <1>8, <2>1
  <2> QED BY <2>2 DEF u
<1>9. CASE m.state = "CREDITS"
  <2>1. u = IF m.prev # None2 \/ fires # {} THEN back ELSE m
    BY <1>1, <1>9
  <2>2. Moved(m, u)
    BY <1>2, <1>3, <1>9, <2>1
  <2> QED BY <2>2 DEF u
<1>10. CASE m.state = "LEVEL"
  <2>1. u = m
    BY <1>1, <1>10
  <2>2. Moved(m, u)
    BY <1>2, <2>1
  <2> QED BY <2>2 DEF u
<1> QED BY <1>8, <1>9, <1>10

\* The frame lets the menu or the level move.
LEMMA MoveStep ==
  ASSUME NEW m, PmInv(m), m.pc = "move",
         NEW won \in (IF m.state = "LEVEL" /\ ~m.paused THEN BOOLEAN ELSE {FALSE})
  PROVE  LET moved == IF m.paused THEN m ELSE Level_Move(GameObjGameMenu_Move(m))
             u == [(IF won THEN YouWin_Starts(moved) ELSE moved) EXCEPT !.pc = "state"]
         IN  PmInv(u) /\ u.state = m.state
<1> DEFINE a == GameObjGameMenu_Move(m)
           b == Level_Move(a)
           moved == IF m.paused THEN m ELSE b
           y == YouWin_Starts(moved)
           h == IF won THEN y ELSE moved
           u == [h EXCEPT !.pc = "state"]
<1>1. m \in PmSet /\ DataThere(m) /\ Requests(m) /\ Alone(m) /\ m.request = None2
  BY DEF PmInv, Requests
<1>0. m.state \in {"MENU", "CREDITS", "LEVEL"} /\ States = {"STARTUP", "MENU", "CREDITS", "LEVEL"}
  BY <1>1 DEF Requests, States
<1>2. Moved(m, a)
  BY <1>0, <1>1, MenuMoves
<1> HIDE DEF a
<1>3. Moved(m, b)
  <2>1. a \in PmSet /\ a.state = m.state /\ a.won = m.won
    BY <1>2 DEF Moved, SameGame
  <2>2. b = a \/ (b = Game_RequestSetState(a, "MENU") /\ m.won)
    BY <2>1 DEF Level_Move
  <2>3. CASE b = a
    BY <1>2, <2>3
  <2>4. CASE b = Game_RequestSetState(a, "MENU") /\ m.won
    <3>1. m.state = "LEVEL"
      BY <1>1, <2>4 DEF DataThere
    <3>2. /\ b \in PmSet /\ SameGame(a, b) /\ SameKeys(a, b) /\ NoNewKeys(a, b) /\ b.pc = a.pc
          /\ b.request = "MENU" /\ b.one = a.one /\ b.in = a.in
      BY <1>0, <2>1, <2>4, Requested
    <3>3. /\ SameGame(m, a) /\ SameKeys(m, a) /\ NoNewKeys(m, a) /\ a.pc = m.pc
          /\ a.one = m.one /\ a.in = m.in
      BY <1>2, <3>1 DEF Moved
    <3>4. SameGame(m, b) /\ SameKeys(m, b) /\ NoNewKeys(m, b)
      BY <3>2, <3>3 DEF SameGame, SameKeys, NoNewKeys
    <3> QED BY <3>1, <3>2, <3>3, <3>4 DEF Moved
  <2> QED BY <2>2, <2>3, <2>4
<1> HIDE DEF b
<1>4. Moved(m, moved)
  <2>1. Moved(m, m)
    BY <1>1 DEF Moved, SameGame, SameKeys, NoNewKeys
  <2> QED BY <1>3, <2>1
<1> HIDE DEF moved
<1>5. ASSUME won
      PROVE  /\ y \in PmSet /\ SameKeys(moved, y) /\ y.in = moved.in /\ y.request = moved.request
             /\ y.one = moved.one /\ y.pc = moved.pc /\ y.state = moved.state /\ y.tiles = moved.tiles
             /\ y.song = moved.song /\ y.palette = moved.palette /\ y.map = moved.map
             /\ y.won /\ y.music /\ ~y.fx
  BY <1>4, ZenonT(40) DEF YouWin_Starts, Moved, PmSet, SameKeys
<1> HIDE DEF y
<1>6. /\ h \in PmSet /\ SameKeys(m, h) /\ NoNewKeys(m, h) /\ h.request = moved.request
      /\ h.state = m.state /\ DataThere(h) /\ (m.state = "LEVEL" => h.one = m.one /\ h.in = m.in)
  <2>1. CASE won
    <3>1. m.state = "LEVEL"
      BY <2>1
    <3>2. h = y /\ moved.state = "LEVEL"
      BY <1>4, <2>1, <3>1 DEF Moved, SameGame
    <3>3. DataThere(moved)
      BY <1>1, <1>4, GameKeeps DEF Moved
    <3>4. DataThere(h)
      BY <1>5, <2>1, <3>2, <3>3 DEF DataThere
    <3>5. SameKeys(m, moved) /\ NoNewKeys(m, moved) /\ moved.one = m.one /\ moved.in = m.in
      BY <1>4, <3>1 DEF Moved
    <3> QED BY <1>5, <2>1, <3>1, <3>2, <3>4, <3>5 DEF SameKeys, NoNewKeys
  <2>2. CASE ~won
    <3>1. h = moved
      BY <2>2
    <3>2. DataThere(h)
      BY <1>1, <1>4, <3>1, GameKeeps DEF Moved
    <3> QED BY <1>4, <3>1, <3>2 DEF Moved, SameGame
  <2> QED BY <2>1, <2>2
<1> HIDE DEF h
<1>7. /\ u \in PmSet /\ SameGame(h, u) /\ SameKeys(h, u) /\ u.in = h.in /\ u.request = h.request
      /\ u.one = h.one /\ u.pc = "state"
  BY <1>6 DEF PmSet, SameGame, SameKeys
<1> SUFFICES PmInv(u) /\ u.state = m.state
  BY DEF u, h, y, moved, b, a
<1> HIDE DEF u
<1>8. DataThere(u) /\ u.state = m.state
  BY <1>6, <1>7, GameKeeps DEF SameGame
<1>9. Requests(u)
  BY <1>0, <1>1, <1>4, <1>6, <1>7, <1>8 DEF Requests, Moved
<1>10. Alone(u)
  BY <1>1, <1>6, <1>7, <1>8 DEF Alone
<1>11. ~u.cut => Sending(u) /\ Backed(u)
  <2>1. SameKeys(m, u) /\ NoNewKeys(m, u)
    BY <1>6, <1>7 DEF SameKeys, NoNewKeys
  <2> QED BY <2>1, KeysKeep DEF PmInv, SameKeys
<1> QED BY <1>7, <1>8, <1>9, <1>10, <1>11 DEF PmInv

\* One row at most answers a change of state.
WithData(m, data) == [m EXCEPT !.tiles = data, !.song = data, !.palette = data, !.map = "main"]

LEMMA RowsHave ==
  /\ \A r \in Rows : r.to = "MENU" => r.data = "menu" /\ r.from \in {"STARTUP", "LEVEL"}
  /\ \A r \in Rows : r.to = "LEVEL" => r.data = "level" /\ r.from = "MENU"
  /\ \A r \in Rows : r.to \in {"MENU", "LEVEL"}
  /\ \A f \in {"STARTUP", "LEVEL"} : \E r \in Rows : r.to = "MENU" /\ r.from = f
  /\ \E r \in Rows : r.to = "LEVEL" /\ r.from = "MENU"
<1>1. \A f \in {"STARTUP", "LEVEL"} : [to |-> "MENU", from |-> f, data |-> "menu"] \in Rows
  BY DEF Rows
<1>2. [to |-> "LEVEL", from |-> "MENU", data |-> "level"] \in Rows
  BY DEF Rows
<1>3. \A f \in {"STARTUP", "LEVEL"} : \E r \in Rows : r.to = "MENU" /\ r.from = f
  BY <1>1
<1>4. \E r \in Rows : r.to = "LEVEL" /\ r.from = "MENU"
  BY <1>2
<1>5. \A r \in Rows : \/ r.to = "MENU" /\ r.from \in {"STARTUP", "LEVEL"} /\ r.data = "menu"
                      \/ r.to = "LEVEL" /\ r.from = "MENU" /\ r.data = "level"
  BY DEF Rows
<1> QED BY <1>3, <1>4, <1>5

LEMMA DataLoaded ==
  ASSUME NEW m, NEW to, NEW from
  PROVE  /\ to = "MENU" /\ from \in {"STARTUP", "LEVEL"} =>
              DataLoader_LoadData(m, to, from) = WithData(m, "menu")
         /\ to = "MENU" /\ from = "CREDITS" => DataLoader_LoadData(m, to, from) = m
         /\ to = "LEVEL" /\ from = "MENU" => DataLoader_LoadData(m, to, from) = WithData(m, "level")
<1> DEFINE row == {r \in Rows : r.to = to /\ r.from = from}
           r == CHOOSE r \in row : TRUE
<1>1. DataLoader_LoadData(m, to, from)
        = IF row = {} THEN m
          ELSE [m EXCEPT !.tiles = r.data, !.song = r.data, !.palette = r.data, !.map = "main"]
  BY DEF DataLoader_LoadData
<1>2. row # {} => r \in row
  OBVIOUS
<1> HIDE DEF r
<1>3. ASSUME to = "MENU", from \in {"STARTUP", "LEVEL"}
      PROVE  row # {} /\ r.data = "menu"
  BY <1>2, <1>3, RowsHave
<1>4. ASSUME to = "MENU", from = "CREDITS"
      PROVE  row = {}
  BY <1>4, RowsHave
<1>5. ASSUME to = "LEVEL", from = "MENU"
      PROVE  row # {} /\ r.data = "level"
  BY <1>2, <1>5, RowsHave
<1> HIDE DEF row
<1> QED BY <1>1, <1>3, <1>4, <1>5 DEF WithData

LEMMA LoadedGives ==
  ASSUME NEW m \in PmSet, NEW data \in {"menu", "level"}, NEW u, u = WithData(m, data)
  PROVE  /\ u \in PmSet /\ SameKeys(m, u) /\ u.state = m.state /\ u.request = m.request
         /\ u.pc = m.pc /\ u.music = m.music /\ u.fx = m.fx /\ u.won = m.won
         /\ u.tiles = data /\ u.song = data /\ u.palette = data /\ u.map = "main"
BY ZenonT(40) DEF WithData, PmSet, SameKeys

\* The state that is entered, before the keyboard is started afresh.
Entering(m, s, p) ==
  [m EXCEPT !.state = s, !.paused = FALSE, !.pausePressed = FALSE, !.debug = FALSE,
            !.won = FALSE, !.music = (s = "MENU"), !.fx = (s = "LEVEL"), !.map = p]

LEMMA FreshGives ==
  ASSUME NEW m \in PmSet, NEW s \in States, NEW p \in {"clear", "main", "credits"}
  PROVE  LET u == Entering(m, s, p)
         IN  /\ u \in PmSet /\ SameKeys(m, u) /\ u.state = s /\ u.request = m.request /\ u.pc = m.pc
             /\ (u.music <=> s = "MENU") /\ (u.fx <=> s = "LEVEL") /\ ~u.won /\ u.map = p
             /\ u.tiles = m.tiles /\ u.song = m.song /\ u.palette = m.palette
<1> DEFINE u == Entering(m, s, p)
           mu == (s = "MENU")
           f == (s = "LEVEL")
           a == [m EXCEPT !.state = s, !.music = mu, !.fx = f, !.map = p]
           b == [a EXCEPT !.paused = FALSE, !.pausePressed = FALSE]
<1>1. a \in PmSet
  <2>1. mu \in BOOLEAN /\ f \in BOOLEAN
    OBVIOUS
  <2> HIDE DEF mu, f
  <2> QED BY <2>1, ZenonT(40) DEF PmSet
<1>2. u = [b EXCEPT !.debug = FALSE, !.won = FALSE]
  BY DEF Entering
<1>3. b \in PmSet
  <2> HIDE DEF a
  <2> QED BY <1>1, ZenonT(40) DEF PmSet
<1>4. u \in PmSet
  <2> HIDE DEF b, u
  <2> QED BY <1>2, <1>3, ZenonT(40) DEF PmSet
<1>5. SameKeys(m, u)
  BY DEF PmSet, SameKeys, Entering
<1>6. u.music = mu /\ u.fx = f
  <2> HIDE DEF mu, f
  <2>1. u = [m EXCEPT !.state = s, !.paused = FALSE, !.pausePressed = FALSE, !.debug = FALSE,
                      !.won = FALSE, !.music = mu, !.fx = f, !.map = p]
    BY DEF Entering, mu, f
  <2> QED BY <2>1 DEF PmSet
<1>7. /\ u.state = s /\ u.request = m.request /\ u.pc = m.pc /\ ~u.won /\ u.map = p
      /\ u.tiles = m.tiles /\ u.song = m.song /\ u.palette = m.palette
  BY DEF PmSet, Entering
<1> QED BY <1>4, <1>5, <1>6, <1>7

LEMMA KeyboardStarts ==
  ASSUME NEW m \in PmSet, NEW u, u = Keyboard_Init(m)
  PROVE  /\ u \in PmSet /\ SameGame(m, u) /\ u.request = m.request /\ u.pc = m.pc
         /\ u.held = m.held /\ u.wire = m.wire /\ ~u.second /\ u.cut = (m.cut \/ m.second)
         /\ u.in = ClearInput
<1> DEFINE x == m.cut \/ m.second
<1>1. u = [m EXCEPT !.cut = x, !.second = FALSE, !.prev = None2, !.in = ClearInput]
  BY DEF Keyboard_Init
<1>2. x \in BOOLEAN
  OBVIOUS
<1> HIDE DEF x
<1>3. u \in PmSet
  <2> DEFINE a == [m EXCEPT !.prev = None2, !.in = ClearInput]
             b == [a EXCEPT !.second = FALSE]
  <2>1. a \in PmSet
    BY ClearIs, ZenonT(40) DEF PmSet
  <2>2. u = [b EXCEPT !.cut = x]
    BY <1>1
  <2>3. b \in PmSet
    <3> HIDE DEF a
    <3> QED BY <2>1, ZenonT(40) DEF PmSet
  <2> HIDE DEF b
  <2> QED BY <1>2, <2>2, <2>3 DEF PmSet
<1>4. SameGame(m, u) /\ u.request = m.request /\ u.pc = m.pc /\ u.held = m.held /\ u.wire = m.wire
      /\ ~u.second /\ u.cut = x /\ u.in = ClearInput
  BY <1>1 DEF PmSet, SameGame
<1> QED BY <1>3, <1>4 DEF x

LEMMA EnteredGives ==
  ASSUME NEW m \in PmSet, DataThere(m) \/ m.state = "STARTUP",
         NEW to \in {"MENU", "LEVEL"},
         to = "LEVEL" => m.state = "MENU",
         to = "MENU" => m.state \in {"STARTUP", "CREDITS", "LEVEL"},
         NEW fresh, fresh = Entering(m, to, IF m.state = "CREDITS" THEN "main" ELSE m.map),
         NEW u, u = DataLoader_LoadData(fresh, to, m.state)
  PROVE  /\ u \in PmSet /\ SameKeys(m, u) /\ u.state = to /\ u.request = m.request /\ u.pc = m.pc
         /\ DataThere(u)
<1> DEFINE p == IF m.state = "CREDITS" THEN "main" ELSE m.map
<1>1. p \in {"clear", "main", "credits"} /\ to \in States
  BY DEF PmSet, States
<1>2. fresh = Entering(m, to, p)
  OBVIOUS
<1> HIDE DEF p
<1>4. /\ fresh \in PmSet /\ SameKeys(m, fresh) /\ fresh.state = to /\ fresh.request = m.request
      /\ fresh.pc = m.pc /\ (fresh.music <=> to = "MENU") /\ (fresh.fx <=> to = "LEVEL") /\ ~fresh.won
      /\ fresh.map = p /\ fresh.tiles = m.tiles /\ fresh.song = m.song /\ fresh.palette = m.palette
  <2> DEFINE e == Entering(m, to, p)
  <2>1. e \in PmSet /\ SameKeys(m, e) /\ e.state = to /\ e.request = m.request /\ e.pc = m.pc
    <3>1. e \in PmSet /\ SameKeys(m, e)
      BY <1>1, FreshGives, ZenonT(40)
    <3>2. e.request = m.request /\ e.pc = m.pc
      BY <1>1, FreshGives, SMTT(40)
    <3>3. e.state = to
      BY DEF Entering, PmSet
    <3> QED BY <3>1, <3>2, <3>3
  <2>2. (e.music <=> to = "MENU") /\ (e.fx <=> to = "LEVEL") /\ ~e.won /\ e.map = p
    BY <1>1, FreshGives, SMTT(40)
  <2>3. e.tiles = m.tiles /\ e.song = m.song /\ e.palette = m.palette
    BY <1>1, FreshGives, SMTT(40)
  <2>4. fresh = e
    BY <1>2
  <2> HIDE DEF e
  <2> QED BY <2>1, <2>2, <2>3, <2>4
<1>5. fresh.music = ~fresh.fx
  <2>1. fresh.music \in BOOLEAN /\ fresh.fx \in BOOLEAN
    BY <1>4, PmHas
  <2> QED BY <1>4, <2>1
<1>6. CASE to = "MENU" /\ m.state = "CREDITS"
  <2>1. u = fresh
    BY <1>6, DataLoaded
  <2>2. DataThere(m)
    BY <1>6
  <2>3. DataThere(u)
    BY <1>4, <1>5, <1>6, <2>1, <2>2 DEF DataThere, p
  <2> QED BY <1>4, <2>1, <2>3
<1>7. ASSUME NEW data \in {"menu", "level"}, data = IF to = "LEVEL" THEN "level" ELSE "menu",
             u = WithData(fresh, data)
      PROVE  u \in PmSet /\ SameKeys(m, u) /\ u.state = to /\ u.request = m.request /\ u.pc = m.pc
             /\ DataThere(u)
  <2>1. /\ u \in PmSet /\ SameKeys(fresh, u) /\ u.state = fresh.state /\ u.request = fresh.request
        /\ u.pc = fresh.pc /\ u.music = fresh.music /\ u.fx = fresh.fx /\ u.won = fresh.won
        /\ u.tiles = data /\ u.song = data /\ u.palette = data /\ u.map = "main"
    BY <1>4, <1>7, LoadedGives
  <2>2. DataThere(u)
    BY <1>4, <1>5, <1>7, <2>1 DEF DataThere
  <2>3. SameKeys(m, u)
    BY <1>4, <2>1 DEF SameKeys
  <2> QED BY <1>4, <2>1, <2>2, <2>3
<1>8. CASE to = "MENU" /\ m.state # "CREDITS"
  <2>1. u = WithData(fresh, "menu")
    BY <1>8, DataLoaded
  <2> QED BY <1>7, <1>8, <2>1
<1>9. CASE to = "LEVEL"
  <2>1. u = WithData(fresh, "level")
    BY <1>9, DataLoaded
  <2> QED BY <1>7, <1>9, <2>1
<1> QED BY <1>6, <1>8, <1>9

\* A change of state the game asks for.
LEMMA SetStateGives ==
  ASSUME NEW m \in PmSet, NEW s,
         \/ m.state = "STARTUP" /\ s = "MENU"
         \/ DataThere(m) /\ m.state = "MENU" /\ s \in {"LEVEL", "CREDITS"}
         \/ DataThere(m) /\ m.state \in {"CREDITS", "LEVEL"} /\ s = "MENU",
         NEW u, u = Game_SetState(m, s)
  PROVE  /\ u \in PmSet /\ u.state = s /\ DataThere(u) /\ u.request = m.request /\ u.pc = m.pc
         /\ u.held = m.held /\ u.wire = m.wire /\ ~u.second /\ u.cut = (m.cut \/ m.second)
         /\ u.in = ClearInput
<1>1. ASSUME NEW e \in PmSet, SameKeys(m, e), e.state = s, e.request = m.request, e.pc = m.pc,
             DataThere(e), u = Keyboard_Init(e)
      PROVE  /\ u \in PmSet /\ u.state = s /\ DataThere(u) /\ u.request = m.request /\ u.pc = m.pc
             /\ u.held = m.held /\ u.wire = m.wire /\ ~u.second /\ u.cut = (m.cut \/ m.second)
             /\ u.in = ClearInput
  <2>1. /\ u \in PmSet /\ SameGame(e, u) /\ u.request = e.request /\ u.pc = e.pc
        /\ u.held = e.held /\ u.wire = e.wire /\ ~u.second /\ u.cut = (e.cut \/ e.second)
        /\ u.in = ClearInput
    BY <1>1, KeyboardStarts
  <2>2. DataThere(u)
    BY <1>1, <2>1, GameKeeps
  <2> QED BY <1>1, <2>1, <2>2 DEF SameGame, SameKeys
<1> DEFINE to == [m EXCEPT !.state = s]
           fresh == [to EXCEPT !.paused = FALSE, !.pausePressed = FALSE, !.debug = FALSE, !.won = FALSE]
           play == [fresh EXCEPT !.music = FALSE, !.fx = TRUE]
           menu == [fresh EXCEPT !.music = TRUE, !.fx = FALSE,
                                 !.map = IF m.state = "CREDITS" THEN "main" ELSE @]
           entered ==
             CASE s = "LEVEL"   -> DataLoader_LoadData(play, s, m.state)
               [] s = "MENU"    -> DataLoader_LoadData(menu, s, m.state)
               [] s = "CREDITS" -> [to EXCEPT !.map = "credits"]
               [] OTHER         -> [to EXCEPT !.map = "clear"]
<1>2. u = IF s = m.state THEN m ELSE Keyboard_Init(entered)
  BY Zenon DEF Game_SetState
<1> HIDE DEF entered
<1>3. u = Keyboard_Init(entered)
  BY <1>2
<1>4. CASE s = "CREDITS"
  <2>1. entered = [m EXCEPT !.state = s, !.map = "credits"]
    BY <1>4 DEF entered
  <2>2. DataThere(m) /\ m.state = "MENU"
    BY <1>4
  <2>3. entered \in PmSet
    BY <1>4, <2>1, ZenonT(40) DEF PmSet, States
  <2>4. /\ SameKeys(m, entered) /\ entered.state = s /\ entered.request = m.request
        /\ entered.pc = m.pc /\ DataThere(entered)
    BY <1>4, <2>1, <2>2 DEF PmSet, SameKeys, DataThere
  <2> QED BY <1>1, <1>3, <2>3, <2>4
<1>5. CASE s = "LEVEL"
  <2> DEFINE mapped == IF m.state = "CREDITS" THEN "main" ELSE m.map
             full == Entering(m, s, mapped)
  <2>1. entered = DataLoader_LoadData(play, s, m.state)
    BY <1>5 DEF entered
  <2>2. play = full
    <3>1. mapped = m.map
      BY <1>5
    <3>2. (s = "MENU") = FALSE /\ (s = "LEVEL") = TRUE
      BY <1>5
    <3> HIDE DEF mapped
    <3> QED BY <3>1, <3>2, ZenonT(40) DEF PmSet, Entering
  <2> HIDE DEF entered, play
  <2>3. /\ entered \in PmSet /\ SameKeys(m, entered) /\ entered.state = s /\ entered.request = m.request
        /\ entered.pc = m.pc /\ DataThere(entered)
    BY <1>5, <2>1, <2>2, EnteredGives
  <2> QED BY <1>1, <1>3, <2>3
<1>6. CASE s = "MENU"
  <2> DEFINE mapped == IF m.state = "CREDITS" THEN "main" ELSE m.map
             full == Entering(m, s, mapped)
  <2>1. entered = DataLoader_LoadData(menu, s, m.state)
    BY <1>6 DEF entered
  <2>2. menu = full
    <3>1. fresh.map = m.map
      BY DEF PmSet
    <3>2. (s = "MENU") = TRUE /\ (s = "LEVEL") = FALSE
      BY <1>6
    <3>3. menu = [fresh EXCEPT !.music = TRUE, !.fx = FALSE, !.map = mapped]
      BY <3>1
    <3> HIDE DEF mapped, menu
    <3> QED BY <3>2, <3>3 DEF PmSet, Entering
  <2> HIDE DEF entered, menu
  <2>3. /\ entered \in PmSet /\ SameKeys(m, entered) /\ entered.state = s /\ entered.request = m.request
        /\ entered.pc = m.pc /\ DataThere(entered)
    BY <1>6, <2>1, <2>2, EnteredGives
  <2> QED BY <1>1, <1>3, <2>3
<1> QED BY <1>4, <1>5, <1>6

\* The frame carries out the change of state that was asked for.
LEMMA StateStep ==
  ASSUME NEW m, PmInv(m), m.pc = "state"
  PROVE  LET u == [(IF m.request = None2 THEN m
                    ELSE Game_SetState([m EXCEPT !.request = None2], m.request)) EXCEPT !.pc = "input"]
         IN  PmInv(u) /\ (u.state = m.state \/ u.in = ClearInput)
<1> DEFINE a == [m EXCEPT !.request = None2]
           s == Game_SetState(a, m.request)
           h == IF m.request = None2 THEN m ELSE s
           u == [h EXCEPT !.pc = "input"]
<1>1. m \in PmSet /\ DataThere(m) /\ Requests(m) /\ Alone(m)
  BY DEF PmInv
<1>2. /\ a \in PmSet /\ SameGame(m, a) /\ SameKeys(m, a) /\ a.request = None2
  BY <1>1, ZenonT(40) DEF PmSet, SameGame, SameKeys
<1> SUFFICES PmInv(u) /\ (u.state = m.state \/ u.in = ClearInput)
  BY DEF u, h, s, a
<1> HIDE DEF a
<1>3. ASSUME h \in PmSet
      PROVE  /\ u \in PmSet /\ SameGame(h, u) /\ SameKeys(h, u) /\ u.in = h.in /\ u.request = h.request
             /\ u.one = h.one /\ u.pc = "input"
  BY <1>3 DEF PmSet, SameGame, SameKeys
<1>4. CASE m.request = None2
  <2>1. h = m
    BY <1>4
  <2> HIDE DEF h, u
  <2>2. /\ u \in PmSet /\ SameGame(m, u) /\ SameKeys(m, u) /\ u.in = m.in /\ u.request = m.request
        /\ u.one = m.one /\ u.pc = "input"
    BY <1>1, <1>3, <2>1
  <2>3. NoNewKeys(m, u)
    BY <2>2 DEF NoNewKeys
  <2>4. Requests(u) /\ Alone(u)
    BY <1>1, <1>4, <2>2 DEF Requests, Alone, SameGame
  <2> QED BY <1>4, <2>2, <2>3, <2>4, QuietStep DEF SameGame
<1>5. CASE m.request # None2
  <2>1. h = s
    BY <1>5
  <2>2. \/ m.state = "MENU" /\ m.request \in {"LEVEL", "CREDITS"}
        \/ m.state \in {"CREDITS", "LEVEL"} /\ m.request = "MENU"
    BY <1>1, <1>5 DEF Requests
  <2>3. DataThere(a) /\ a.state = m.state
    BY <1>1, <1>2, GameKeeps DEF SameGame
  <2>4. /\ s \in PmSet /\ s.state = m.request /\ DataThere(s) /\ s.request = None2
        /\ s.held = a.held /\ s.wire = a.wire /\ ~s.second /\ s.cut = (a.cut \/ a.second)
        /\ s.in = ClearInput
    BY <1>2, <2>2, <2>3, SetStateGives
  <2> HIDE DEF s, h, u
  <2>5. /\ u \in PmSet /\ SameGame(s, u) /\ SameKeys(s, u) /\ u.in = ClearInput /\ u.request = None2
        /\ u.pc = "input"
    BY <1>3, <2>1, <2>4
  <2>6. DataThere(u)
    BY <2>4, <2>5, GameKeeps
  <2>7. Requests(u)
    BY <2>2, <2>4, <2>5 DEF Requests, SameGame
  <2>8. Alone(u)
    BY <2>5, ClearIs DEF Alone
  <2>9. ASSUME ~u.cut PROVE Sending(u) /\ Backed(u)
    <3>1. ~m.cut /\ ~m.second /\ u.held = m.held /\ u.wire = m.wire /\ ~u.second
      BY <1>2, <2>4, <2>5, <2>9 DEF SameKeys
    <3>2. Sending(m)
      BY <3>1 DEF PmInv
    <3>3. Sending(u)
      BY <3>1, <3>2 DEF Sending
    <3>4. Backed(u)
      BY <2>5, ClearIs, KeyMapHas DEF Backed, FlagOf
    <3> QED BY <3>3, <3>4
  <2> QED BY <2>5, <2>6, <2>7, <2>8, <2>9 DEF PmInv
<1> QED BY <1>4, <1>5

LEMMA StartIs ==
  /\ PmStart \in PmSet /\ PmStart.state = "STARTUP" /\ PmStart.request = None2 /\ ~PmStart.second
  /\ ~PmStart.cut /\ PmStart.wire = <<>> /\ PmStart.in = ClearInput /\ PmStart.pc = "input"
  /\ PmStart.held = {}
<1>1. <<>> \in Seq(Codes) /\ {} \in SUBSET Keys /\ "STARTUP" \in States
  BY DEF States
<1> QED BY <1>1, ClearIs DEF PmStart, PmSet

LEMMA QuietKeys ==
  ASSUME NEW u \in PmSet, u.wire = <<>>, ~u.second, u.in = ClearInput
  PROVE  Sending(u) /\ Backed(u)
<1>1. Backed(u)
  BY ClearIs, KeyMapHas DEF Backed, FlagOf
<1> QED BY <1>1 DEF Sending

\* The program over: nothing of the game is said any more.
LEMMA EndStep == PmInv([PmStart EXCEPT !.pc = "ended"])
<1> DEFINE u == [PmStart EXCEPT !.pc = "ended"]
<1>1. /\ u \in PmSet /\ u.pc = "ended" /\ u.wire = <<>> /\ ~u.second /\ u.in = ClearInput
  BY StartIs DEF PmSet
<1> HIDE DEF u
<1>2. Sending(u) /\ Backed(u)
  BY <1>1, QuietKeys
<1> QED BY <1>1, <1>2 DEF PmInv, u

LEMMA StartStep == PmInv(Game_SetState(PmStart, "MENU"))
<1> DEFINE u == Game_SetState(PmStart, "MENU")
<1>1. /\ u \in PmSet /\ u.state = "MENU" /\ DataThere(u) /\ u.request = None2 /\ u.pc = "input"
      /\ u.wire = <<>> /\ ~u.second /\ u.in = ClearInput
  BY StartIs, SetStateGives
<1> HIDE DEF u
<1>2. Sending(u) /\ Backed(u)
  BY <1>1, QuietKeys
<1>3. Requests(u) /\ Alone(u)
  BY <1>1 DEF Requests, Alone
<1> QED BY <1>1, <1>2, <1>3 DEF PmInv, u

LEMMA HandlerKeeps ==
  ASSUME NEW m \in PmSet, m.wire # <<>>
  PROVE  LET h == Keyboard_IRQ_Handler(m, Head(m.wire))
         IN  h.wire = m.wire /\ h.state = m.state /\ h \in PmSet
<1> DEFINE b == Head(m.wire)
<1>1. b \in Codes
  BY PmHas
<1> HIDE DEF b
<1>2. CASE b = Release
  <2>1. Keyboard_IRQ_Handler(m, b) = [m EXCEPT !.second = TRUE]
    BY <1>2 DEF Keyboard_IRQ_Handler
  <2>2. /\ [m EXCEPT !.second = TRUE].wire = m.wire /\ [m EXCEPT !.second = TRUE].state = m.state
        /\ [m EXCEPT !.second = TRUE] \in PmSet
    BY ZenonT(40) DEF PmSet
  <2> QED BY <2>1, <2>2 DEF b
<1>3. CASE b # Release /\ m.second
  <2>1. Keyboard_IRQ_Handler(m, b) = Released(m, b)
    BY <1>3 DEF Keyboard_IRQ_Handler
  <2>2. Released(m, b).wire = m.wire /\ Released(m, b).state = m.state /\ Released(m, b) \in PmSet
    BY <1>1, <1>3, ReleasedGives DEF Codes, SameGame
  <2> QED BY <2>1, <2>2 DEF b
<1>4. CASE b # Release /\ ~m.second
  <2>1. Keyboard_IRQ_Handler(m, b) = Pressed(m, b)
    BY <1>4 DEF Keyboard_IRQ_Handler
  <2>2. Pressed(m, b).wire = m.wire /\ Pressed(m, b).state = m.state /\ Pressed(m, b) \in PmSet
    BY <1>1, <1>4, PressedGives DEF Codes, SameKeys, SameGame
  <2> QED BY <2>1, <2>2 DEF b
<1> QED BY <1>2, <1>3, <1>4

PmStateInv == PmInv(pm)

\* A change of state clears the input; nothing else changes the state, but the end.
Steady(m, u) == u.state = m.state \/ u.in = ClearInput

LEMMA PmInductive == PmStateInv /\ [PmNext]_pm => PmStateInv' /\ Steady(pm, pm')
<1> SUFFICES ASSUME PmInv(pm), [PmNext]_pm
             PROVE  PmInv(pm') /\ Steady(pm, pm')
  BY DEF PmStateInv
<1>1. CASE UNCHANGED pm
  BY <1>1 DEF Steady
<1>2. ASSUME NEW k \in Keys, KeyDown(k) PROVE PmInv(pm') /\ Steady(pm, pm')
  <2>1. pm' = [pm EXCEPT !.held = pm.held \cup {k}, !.wire = <<k>>] /\ pm.wire = <<>> /\ pm.pc # "ended"
    BY <1>2, Zenon DEF KeyDown, Running
  <2>2. PmInv([pm EXCEPT !.held = pm.held \cup {k}, !.wire = <<k>>])
    BY <2>1, KeyStep
  <2>3. [pm EXCEPT !.held = pm.held \cup {k}, !.wire = <<k>>].state = pm.state
    BY DEF PmInv, PmSet
  <2> QED BY Zenon, <2>1, <2>2, <2>3 DEF Steady
<1>3. ASSUME NEW k \in Keys, KeyUp(k) PROVE PmInv(pm') /\ Steady(pm, pm')
  <2>1. /\ pm' = [pm EXCEPT !.held = pm.held \ {k}, !.wire = <<Release, k>>]
        /\ pm.wire = <<>> /\ pm.pc # "ended" /\ k \in pm.held
    BY <1>3, Zenon DEF KeyUp, Running
  <2>2. PmInv([pm EXCEPT !.held = pm.held \ {k}, !.wire = <<Release, k>>])
    BY <2>1, KeyStep
  <2>3. [pm EXCEPT !.held = pm.held \ {k}, !.wire = <<Release, k>>].state = pm.state
    BY DEF PmInv, PmSet
  <2> QED BY Zenon, <2>1, <2>2, <2>3 DEF Steady
<1>4. ASSUME KeyInterrupt PROVE PmInv(pm') /\ Steady(pm, pm')
  <2> DEFINE h == Keyboard_IRQ_Handler(pm, Head(pm.wire))
  <2>1. pm.wire # <<>> /\ pm.pc # "ended"
    BY <1>4 DEF KeyInterrupt, Running
  <2>2. PmInv([h EXCEPT !.wire = Tail(pm.wire)])
    BY <2>1, InterruptStep
  <2>3. h.wire = pm.wire /\ h.state = pm.state /\ h \in PmSet
    BY <2>1, HandlerKeeps DEF PmInv
  <2>4. pm' = [h EXCEPT !.wire = Tail(h.wire)]
    BY <1>4 DEF KeyInterrupt
  <2> HIDE DEF h
  <2>5. pm' = [h EXCEPT !.wire = Tail(pm.wire)]
    BY <2>3, <2>4
  <2>6. [h EXCEPT !.wire = Tail(pm.wire)].state = pm.state
    BY <2>3 DEF PmSet
  <2> QED BY Zenon, <2>2, <2>5, <2>6 DEF Steady
<1>5. ASSUME NEW joy, FrameInput(joy) PROVE PmInv(pm') /\ Steady(pm, pm')
  <2> DEFINE p == Game_HandlePlayerInput_PauseMode(pm)
             u == [(IF p.paused THEN p ELSE Joystick_GetInput(p, joy)) EXCEPT !.pc = "move"]
  <2>1. pm.pc = "input" /\ pm' = u
    BY <1>5 DEF FrameInput
  <2>2. PmInv(u) /\ u.state = pm.state
    BY <2>1, InputStep
  <2> HIDE DEF u
  <2> QED BY <2>1, <2>2 DEF Steady
<1>6. ASSUME FrameMove PROVE PmInv(pm') /\ Steady(pm, pm')
  <2> DEFINE moved == IF pm.paused THEN pm ELSE Level_Move(GameObjGameMenu_Move(pm))
             u(won) == [(IF won THEN YouWin_Starts(moved) ELSE moved) EXCEPT !.pc = "state"]
  <2>1. /\ pm.pc = "move"
        /\ \E won \in IF pm.state = "LEVEL" /\ ~pm.paused THEN BOOLEAN ELSE {FALSE} : pm' = u(won)
    BY <1>6 DEF FrameMove
  <2>2. PICK won \in IF pm.state = "LEVEL" /\ ~pm.paused THEN BOOLEAN ELSE {FALSE} : pm' = u(won)
    BY <2>1
  <2>3. PmInv(u(won)) /\ u(won).state = pm.state
    BY <2>1, MoveStep
  <2> HIDE DEF u
  <2> QED BY <2>2, <2>3 DEF Steady
<1>7. ASSUME FrameState PROVE PmInv(pm') /\ Steady(pm, pm')
  <2> DEFINE u == [(IF pm.request = None2 THEN pm
                    ELSE Game_SetState([pm EXCEPT !.request = None2], pm.request)) EXCEPT !.pc = "input"]
  <2>1. pm.pc = "state" /\ pm' = u
    BY <1>7 DEF FrameState
  <2>2. PmInv(u) /\ (u.state = pm.state \/ u.in = ClearInput)
    BY <2>1, StateStep
  <2> HIDE DEF u
  <2> QED BY <2>1, <2>2 DEF Steady
<1>8. ASSUME LoadFails \/ Leave2 PROVE PmInv(pm') /\ Steady(pm, pm')
  <2>1. pm' = [PmStart EXCEPT !.pc = "ended"]
    BY <1>8 DEF LoadFails, Leave2
  <2>2. [PmStart EXCEPT !.pc = "ended"].in = ClearInput
    BY DEF PmStart
  <2> QED BY <2>1, <2>2, EndStep DEF Steady
<1> QED BY <1>1, <1>2, <1>3, <1>4, <1>5, <1>6, <1>7, <1>8 DEF PmNext

LEMMA PmInvSays == PmStateInv => StatesAndInputAgree
<1> SUFFICES ASSUME PmInv(pm) PROVE StatesAndInputAgree
  BY DEF PmStateInv
<1>1. DataMatchesState
  BY DEF PmInv, DataThere, DataMatchesState, Running
<1>2. OnePlayerIsAlone
  BY DEF PmInv, Alone, OnePlayerIsAlone, Running
<1>3. KeysBacked
  <2> SUFFICES ASSUME ~pm.cut, NEW k \in DOMAIN InputMap,
                      pm.in[InputMap[k][1]][InputMap[k][2]] = "key"
               PROVE  k \in pm.held \/ k \in {pm.wire[i] : i \in DOMAIN pm.wire}
    BY DEF KeysBacked
  <2> QED BY DEF PmInv, Backed, FlagOf, OnWire
<1> QED BY <1>1, <1>2, <1>3 DEF StatesAndInputAgree

(***************************************************************************)
(* Whatever keys, joysticks and changes of state fall together, the data   *)
(* of Pong's state are loaded, a flag of the keyboard stands for a key     *)
(* (unless a restart of the keyboard cut a release in two), and the second *)
(* joystick moves nothing in a game of one.                                *)
(***************************************************************************)
THEOREM StatesAgree == PmSpec => []StatesAndInputAgree
<1>1. PmInit => PmStateInv
  BY StartStep DEF PmInit, PmStateInv
<1>2. PmStateInv /\ [PmNext]_pm => PmStateInv'
  BY PmInductive
<1>3. PmStateInv => StatesAndInputAgree
  BY PmInvSays
<1> QED BY <1>1, <1>2, <1>3, PTL DEF PmSpec

(***************************************************************************)
(* A level is entered with every flag of the players down, however the     *)
(* interrupt and the joysticks set them before: the fire that chose it     *)
(* fires no rocket.                                                        *)
(***************************************************************************)
THEOREM LevelsStartQuiet == PmSpec => [][LevelStartsQuiet]_pm
<1>1. PmInit => PmStateInv
  BY StartStep DEF PmInit, PmStateInv
<1>2. PmStateInv /\ [PmNext]_pm => PmStateInv'
  BY PmInductive
<1>3. PmStateInv /\ [PmNext]_pm => [LevelStartsQuiet]_pm
  <2> SUFFICES ASSUME PmStateInv, [PmNext]_pm, pm.state # "LEVEL", pm'.state = "LEVEL"
               PROVE  \A n \in 1 .. 2, f \in Flags : ~Set(pm'.in[n][f])
    BY DEF LevelStartsQuiet
  <2>1. pm'.in = ClearInput
    BY PmInductive DEF Steady
  <2> QED BY <2>1, ClearIs DEF Set
<1> QED BY <1>1, <1>2, <1>3, PTL DEF PmSpec


-----------------------------------------------------------------------------
(* The snake.                                                              *)
Points == Int \X Int
Grids  == [FieldCells -> {" ", "X", "o"}]
SnakeSet ==
  [level : 1 .. MaxLevel + 1, length : Nat, direction : SteeringKeys, firstpress : BOOLEAN,
   over : BOOLEAN, grid : Grids, seg : [Segments -> Points]]

(* The first n segments lie on the board, each next to the one before it.  *)
InOnePiece(seg, n) ==
  /\ \A i \in 0 .. n - 1 : Inside(seg[i])
  /\ \A i \in 1 .. n - 1 : Distance(seg[i - 1], seg[i]) <= 1
HeadIsFree(s) ==
  /\ s.grid[SnakeHead(s)] # "X"
  /\ \A i \in 0 .. s.length - 2 :
       s.seg[i] = SnakeHead(s) => \A j \in i .. s.length - 1 : s.seg[j] = SnakeHead(s)

Alive(s) == ~s.over /\ s.level <= MaxLevel
SnakeInv(s) ==
  /\ s \in SnakeSet
  /\ Alive(s) => /\ s.length \in (s.level + 4) .. (Goal(s.level) - 1)
                 /\ InOnePiece(s.seg, s.length)
                 /\ ~s.firstpress => HeadIsFree(s)

LEMMA SnakeSizes ==
  /\ MaxRow \in Nat /\ MaxCol \in Nat /\ MaxLevel \in Nat /\ MaxLevel >= 1
  /\ StartRow \in 2 .. MaxRow + 1
  /\ MaxCol \div 2 \in Int /\ MaxCol \div 2 >= 2
  /\ (MaxCol \div 2) + MaxLevel + 3 <= MaxCol + 1
  /\ Boards \subseteq Grids
<1>1. MaxRow \in Nat /\ MaxCol \in Nat /\ MaxCol >= 4 /\ MaxLevel \in Nat /\ MaxLevel >= 1
  <2>1. MaxRow \in Nat \ {0} /\ MaxCol \in Nat /\ MaxCol >= 4 /\ MaxLevel \in Nat \ {0}
    BY SnakeAssumption, Zenon
  <2> QED BY <2>1
<1>2. MaxCol \div 2 \in Int /\ MaxCol \div 2 >= 2
  BY <1>1
<1>3. StartRow \in 2 .. MaxRow + 1 /\ (MaxCol \div 2) + MaxLevel + 3 <= MaxCol + 1
  BY SnakeAssumption
<1>4. Boards \subseteq Grids
  BY SnakeAssumption DEF Grids
<1> QED BY <1>1, <1>2, <1>3, <1>4

LEMMA SegmentIs ==
  /\ Segments \subseteq Nat
  /\ \A n \in Segments : \A i \in 0 .. n : i \in Segments
  /\ \A level \in 1 .. MaxLevel : Goal(level) \in Segments
<1>1. MaxLevel \in Nat /\ (MaxLevel + 3) * 2 \in Nat
  BY SnakeSizes
<1>2. Segments \subseteq Nat /\ \A n \in Segments : \A i \in 0 .. n : i \in Segments
  BY <1>1 DEF Segments
<1>3. \A level \in 1 .. MaxLevel : Goal(level) \in Segments
  BY <1>1 DEF Segments, Goal
<1> QED BY <1>2, <1>3

LEMMA SnakeHas ==
  ASSUME NEW s \in SnakeSet
  PROVE  /\ s.level \in 1 .. MaxLevel + 1 /\ s.length \in Nat /\ s.direction \in SteeringKeys
         /\ s.firstpress \in BOOLEAN /\ s.over \in BOOLEAN /\ s.grid \in Grids
         /\ s.seg \in [Segments -> Points]
BY DEF SnakeSet

LEMMA AheadIs ==
  ASSUME NEW p \in Points, NEW d \in SteeringKeys
  PROVE  Ahead(p, d) \in Points /\ Distance(p, Ahead(p, d)) = 1
<1>1. CASE d = "p"
  BY <1>1 DEF Points, Ahead, Distance
<1>2. CASE d = "o"
  BY <1>2 DEF Points, Ahead, Distance
<1>3. CASE d = "q"
  BY <1>3 DEF Points, Ahead, Distance
<1>4. CASE d = "a"
  BY <1>4 DEF Points, Ahead, Distance
<1> QED BY <1>1, <1>2, <1>3, <1>4 DEF SteeringKeys

LEMMA SamePlace ==
  ASSUME NEW p \in Points
  PROVE  Distance(p, p) = 0
BY DEF Points, Distance

\* A level, before its first turn.
LEMMA SetupGives ==
  ASSUME NEW s \in SnakeSet, NEW board \in Boards, NEW v, v = setup_level(s, board)
  PROVE  /\ v \in SnakeSet /\ v.level = s.level /\ v.over = s.over /\ v.length = s.level + 4
         /\ v.firstpress
         /\ s.level <= MaxLevel =>
              v.length \in (v.level + 4) .. (Goal(v.level) - 1) /\ InOnePiece(v.seg, v.length)
<1> DEFINE n == s.level + 4
           mid == MaxCol \div 2
           seg == [i \in Segments |-> IF i < n THEN <<StartRow, mid + i>> ELSE Stale]
<1>1. v = [s EXCEPT !.length = n, !.direction = "p", !.firstpress = TRUE, !.grid = board, !.seg = seg]
  BY DEF setup_level
<1>2. s.level \in Nat /\ s.level >= 1 /\ MaxLevel \in Nat /\ n \in Nat
  <2>1. s.level \in 1 .. MaxLevel + 1
    BY SnakeHas
  <2> QED BY <2>1, SnakeSizes
<1>3. StartRow \in Int /\ mid \in Int /\ mid >= 2 /\ mid + MaxLevel + 3 <= MaxCol + 1
      /\ StartRow \in 2 .. MaxRow + 1 /\ MaxCol \in Nat /\ MaxRow \in Nat
  BY SnakeSizes
<1> HIDE DEF mid, n
<1>4. seg \in [Segments -> Points]
  <2>1. \A i \in Segments : i \in Int
    BY <1>2 DEF Segments
  <2>2. \A i \in Segments : <<StartRow, mid + i>> \in Points /\ Stale \in Points
    BY <1>3, <2>1 DEF Points, Stale
  <2> QED BY <2>2
<1>5. board \in Grids /\ "p" \in SteeringKeys
  BY SnakeSizes DEF SteeringKeys
<1> HIDE DEF seg
<1>6. /\ v \in SnakeSet /\ v.level = s.level /\ v.over = s.over /\ v.length = n /\ v.firstpress
      /\ v.seg = seg
  BY <1>1, <1>2, <1>4, <1>5 DEF SnakeSet
<1>7. ASSUME s.level <= MaxLevel
      PROVE  n \in (s.level + 4) .. (Goal(s.level) - 1) /\ InOnePiece(seg, n)
  <2>1. n \in (s.level + 4) .. (Goal(s.level) - 1)
    BY <1>2 DEF n, Goal
  <2>2. \A i \in 0 .. n - 1 : i \in Segments /\ i \in Int /\ seg[i] = <<StartRow, mid + i>> /\ i <= MaxLevel + 3
    BY <1>2, <1>7 DEF n, seg, Segments
  <2>3. \A i \in 0 .. n - 1 : Inside(seg[i])
    <3>1. \A i \in 0 .. n - 1 : mid + i \in 2 .. MaxCol + 1
      BY <1>2, <1>3, <2>2
    <3> QED BY <1>3, <2>2, <3>1 DEF Inside, FieldCells
  <2>4. \A i \in 1 .. n - 1 : Distance(seg[i - 1], seg[i]) <= 1
    <3> SUFFICES ASSUME NEW i \in 1 .. n - 1 PROVE Distance(seg[i - 1], seg[i]) <= 1
      OBVIOUS
    <3>1. i \in Int /\ i - 1 \in 0 .. n - 1 /\ i \in 0 .. n - 1
      BY <1>2
    <3>2. seg[i - 1] = <<StartRow, mid + (i - 1)>> /\ seg[i] = <<StartRow, mid + i>>
      BY <2>2, <3>1
    <3> QED BY <1>3, <3>1, <3>2 DEF Distance
  <2> QED BY <2>1, <2>3, <2>4 DEF InOnePiece
<1> QED BY <1>6, <1>7 DEF n

\* The snake one step on: its head twice, at the end and beyond it.
LEMMA MoveOnGives ==
  ASSUME NEW s \in SnakeSet, s.length >= 1, s.length \in Segments, NEW v, v = MoveOn(s)
  PROVE  /\ v \in SnakeSet /\ v.level = s.level /\ v.over = s.over /\ v.length = s.length
         /\ v.firstpress = s.firstpress /\ v.grid = s.grid /\ v.direction = s.direction
         /\ \A i \in 0 .. s.length - 2 : v.seg[i] = s.seg[i + 1]
         /\ v.seg[s.length - 1] = Ahead(s.seg[s.length - 1], s.direction)
         /\ v.seg[s.length] = v.seg[s.length - 1]
<1> DEFINE n == s.length
           d == Ahead(s.seg[n - 1], s.direction)
           grown == [s.seg EXCEPT ![n] = d]
           seg == [i \in Segments |-> IF i < n THEN grown[i + 1] ELSE grown[i]]
<1>1. n \in Nat /\ n >= 1 /\ n \in Segments /\ \A i \in Segments : i \in Nat
  BY SegmentIs
<1>2. s.seg \in [Segments -> Points] /\ s.direction \in SteeringKeys
  BY SnakeHas
<1>3. \A i \in 0 .. n : i \in Segments
  BY <1>1, SegmentIs
<1>4. d \in Points
  <2>1. n - 1 \in Segments
    BY <1>1, <1>3
  <2> QED BY <1>2, <2>1, AheadIs
<1>5. add_segment(s) = [s EXCEPT !.seg = grown]
  BY DEF add_segment
<1> HIDE DEF d
<1>6. grown \in [Segments -> Points] /\ grown[n] = d /\ \A i \in Segments : i # n => grown[i] = s.seg[i]
  BY <1>1, <1>2, <1>4
<1> HIDE DEF grown
<1>7. seg \in [Segments -> Points]
  <2>1. \A i \in Segments : i < n => i + 1 \in Segments
    BY <1>1, <1>3
  <2> QED BY <1>6, <2>1
<1>8. v = [s EXCEPT !.seg = seg]
  <2> DEFINE a == add_segment(s)
  <2>1. v = [a EXCEPT !.seg = [i \in Segments |-> IF i < a.length THEN a.seg[i + 1] ELSE a.seg[i]]]
    BY DEF MoveOn
  <2>2. a.length = n /\ a.seg = grown
    BY <1>5 DEF SnakeSet
  <2>3. v = [a EXCEPT !.seg = seg]
    BY <2>1, <2>2
  <2> HIDE DEF seg
  <2> QED BY <1>5, <2>3
<1>9. /\ \A i \in 0 .. n - 2 : seg[i] = s.seg[i + 1]
      /\ seg[n - 1] = d /\ seg[n] = d
  <2>1. ASSUME NEW i \in 0 .. n - 2 PROVE seg[i] = s.seg[i + 1]
    <3>1. i \in Segments /\ i < n /\ i + 1 \in Segments /\ i + 1 # n
      BY <1>1, <1>3
    <3> QED BY <1>6, <3>1
  <2>2. seg[n - 1] = d
    <3>1. n - 1 \in Segments /\ n - 1 < n /\ (n - 1) + 1 = n
      BY <1>1, <1>3
    <3> QED BY <1>6, <3>1
  <2>3. seg[n] = d
    <3>1. ~(n < n)
      BY <1>1
    <3> QED BY <1>1, <1>6, <3>1
  <2> QED BY <2>1, <2>2, <2>3
<1> HIDE DEF seg
<1>10. /\ v \in SnakeSet /\ v.level = s.level /\ v.over = s.over /\ v.length = s.length
       /\ v.firstpress = s.firstpress /\ v.grid = s.grid /\ v.direction = s.direction /\ v.seg = seg
  BY <1>7, <1>8 DEF SnakeSet
<1> QED BY <1>9, <1>10 DEF d

\* A segment more behind the head changes only what lies beyond it.
LEMMA EatGives ==
  ASSUME NEW s \in SnakeSet, s.length >= 1, s.length + 1 \in Segments, NEW v, v = Eat(s)
  PROVE  /\ v \in SnakeSet /\ v.level = s.level /\ v.over = s.over /\ v.length = s.length + 1
         /\ v.firstpress = s.firstpress /\ v.grid = s.grid
         /\ \A i \in 0 .. s.length : v.seg[i] = s.seg[i]
<1> DEFINE n == s.length + 1
           d == Ahead(s.seg[n - 1], s.direction)
           longer == [s EXCEPT !.length = n]
           seg == [s.seg EXCEPT ![n] = d]
<1>1. s.length \in Nat /\ n \in Nat /\ s.seg \in [Segments -> Points] /\ s.direction \in SteeringKeys
  BY SnakeHas
<1>2. d \in Points
  <2>1. n - 1 \in 0 .. s.length + 1
    BY <1>1
  <2>2. n - 1 \in Segments
    BY <2>1, SegmentIs
  <2> QED BY <1>1, <2>2, AheadIs
<1>3. longer \in SnakeSet /\ longer.length = n /\ longer.seg = s.seg /\ longer.direction = s.direction
  BY <1>1 DEF SnakeSet
<1>4. v = [longer EXCEPT !.seg = seg]
  <2>1. v = add_segment(longer)
    BY DEF Eat
  <2> HIDE DEF longer
  <2> QED BY <1>3, <2>1 DEF add_segment
<1>5. seg \in [Segments -> Points] /\ \A i \in 0 .. s.length : seg[i] = s.seg[i]
  <2> HIDE DEF d
  <2>1. \A i \in 0 .. s.length : i \in Segments /\ i # n
    BY <1>1, SegmentIs
  <2> QED BY <1>1, <1>2, <2>1
<1> HIDE DEF seg, d
<1>6. longer.level = s.level /\ longer.over = s.over /\ longer.firstpress = s.firstpress
      /\ longer.grid = s.grid
  BY DEF SnakeSet
<1> HIDE DEF longer
<1>7. /\ v \in SnakeSet /\ v.level = longer.level /\ v.over = longer.over /\ v.length = longer.length
      /\ v.firstpress = longer.firstpress /\ v.grid = longer.grid /\ v.seg = seg
  BY <1>3, <1>4, <1>5 DEF SnakeSet
<1> QED BY <1>3, <1>5, <1>6, <1>7

\* A living snake one step on, if it hits nothing.
LEMMA StepLives ==
  ASSUME NEW s \in SnakeSet, InOnePiece(s.seg, s.length), s.length >= 2, s.length \in Segments,
         NEW v, v = MoveOn(s), NEW w \in SnakeSet, w.seg = v.seg, w.length = v.length, w.grid = v.grid,
         ~Hits(w)
  PROVE  /\ InOnePiece(w.seg, w.length + 1)
         /\ HeadIsFree(w)
         /\ \A i \in 0 .. w.length - 2 : w.seg[i] # SnakeHead(w)
         /\ w.seg[w.length] = SnakeHead(w)
<1> DEFINE n == s.length
<1>1. /\ v.length = n /\ (\A i \in 0 .. n - 2 : v.seg[i] = s.seg[i + 1])
      /\ v.seg[n - 1] = Ahead(s.seg[n - 1], s.direction) /\ v.seg[n] = v.seg[n - 1]
  <2>1. s.length \in Nat /\ s.length >= 1
    BY SnakeHas
  <2> QED BY <2>1, MoveOnGives
<1>2. s.seg \in [Segments -> Points] /\ s.direction \in SteeringKeys /\ n \in Nat /\ n >= 2
  BY SnakeHas
<1>3. \A i \in 0 .. n : i \in Segments
  BY SegmentIs
<1>4. SnakeHead(w) = w.seg[n - 1] /\ w.length = n
  BY <1>1 DEF SnakeHead
<1>5. Inside(w.seg[n - 1]) /\ w.grid[SnakeHead(w)] # "X" /\ \A i \in 0 .. n - 2 : w.seg[i] # SnakeHead(w)
  BY <1>4 DEF Hits
<1> HIDE DEF n
<1>6. \A i \in 0 .. n : Inside(w.seg[i])
  <2> SUFFICES ASSUME NEW i \in 0 .. n PROVE Inside(w.seg[i])
    OBVIOUS
  <2>1. CASE i <= n - 2
    <3>1. i \in 0 .. n - 2 /\ i + 1 \in 0 .. n - 1
      BY <1>2, <2>1
    <3> QED BY <1>1, <3>1 DEF InOnePiece, n
  <2>2. CASE i = n - 1 \/ i = n
    BY <1>1, <1>5, <2>2
  <2> QED BY <1>2, <2>1, <2>2
<1>7. \A i \in 1 .. n : Distance(w.seg[i - 1], w.seg[i]) <= 1
  <2> SUFFICES ASSUME NEW i \in 1 .. n PROVE Distance(w.seg[i - 1], w.seg[i]) <= 1
    OBVIOUS
  <2>1. CASE i <= n - 2
    <3>1. i - 1 \in 0 .. n - 2 /\ i \in 0 .. n - 2 /\ i + 1 \in 1 .. n - 1
      BY <1>2, <2>1
    <3>2. w.seg[i - 1] = s.seg[(i - 1) + 1] /\ w.seg[i] = s.seg[i + 1]
      BY <1>1, <3>1
    <3>3. (i - 1) + 1 = (i + 1) - 1
      BY <1>2
    <3> QED BY <3>1, <3>2, <3>3 DEF InOnePiece, n
  <2>2. CASE i = n - 1
    <3>1. i - 1 \in 0 .. n - 2 /\ (i - 1) + 1 = n - 1
      BY <1>2, <2>2
    <3>2. w.seg[i - 1] = s.seg[n - 1] /\ w.seg[i] = Ahead(s.seg[n - 1], s.direction)
      BY <1>1, <2>2, <3>1
    <3>3. s.seg[n - 1] \in Points
      <4>1. n - 1 \in 0 .. n
        BY <1>2
      <4> QED BY <1>2, <1>3, <4>1
    <3>4. Distance(s.seg[n - 1], Ahead(s.seg[n - 1], s.direction)) = 1
      BY <1>2, <3>3, AheadIs
    <3> QED BY <3>2, <3>4
  <2>3. CASE i = n
    <3>1. w.seg[i - 1] = w.seg[n - 1] /\ w.seg[i] = w.seg[n - 1]
      BY <1>1, <2>3
    <3>2. w.seg[n - 1] \in Points
      <4>1. n - 1 \in 0 .. n /\ w.seg \in [Segments -> Points]
        BY <1>2, SnakeHas
      <4> QED BY <1>3, <4>1
    <3> QED BY <3>1, <3>2, SamePlace
  <2> QED BY <1>2, <2>1, <2>2, <2>3
<1>8. InOnePiece(w.seg, w.length + 1)
  <2>1. (n + 1) - 1 = n
    BY <1>2
  <2> QED BY <1>4, <1>6, <1>7, <2>1 DEF InOnePiece
<1>9. HeadIsFree(w)
  BY <1>4, <1>5 DEF HeadIsFree
<1> QED BY <1>1, <1>4, <1>5, <1>8, <1>9

\* One turn of the main loop.
LEMMA TurnKeeps ==
  ASSUME SnakeInv(snk), NEW key \in SteeringKeys \cup {"none", "x"}, NEW board \in Boards,
         Turn(key, board)
  PROVE  SnakeInv(snk')
<1> DEFINE dir    == IF key \in SteeringKeys THEN key ELSE snk.direction
           turned == [snk EXCEPT !.direction = dir]
           moved  == MoveOn(turned)
           ready  == IF moved.firstpress THEN [moved EXCEPT !.firstpress = FALSE, !.direction = "p"]
                     ELSE moved
           ends   == (key = "x") \/ Hits(ready)
<1>1. snk \in SnakeSet /\ ~snk.over /\ snk.level <= MaxLevel
  BY DEF Turn, SnakeInv
<1>2. snk.length \in (snk.level + 4) .. (Goal(snk.level) - 1) /\ InOnePiece(snk.seg, snk.length)
  BY <1>1 DEF SnakeInv, Alive
<1>3. /\ snk.level \in 1 .. MaxLevel /\ snk.level \in Int /\ snk.length \in Int /\ snk.length >= 2
      /\ snk.length \in Segments /\ snk.length + 1 \in Segments /\ Goal(snk.level) = (snk.level + 3) * 2
  <2>1. snk.level \in 1 .. MaxLevel /\ snk.level \in Int
    BY <1>1, SnakeHas, SnakeSizes
  <2>2. Goal(snk.level) \in Segments /\ Goal(snk.level) = (snk.level + 3) * 2
    BY <2>1, SegmentIs DEF Goal
  <2>3. snk.length \in Int /\ snk.length >= 2 /\ snk.length \in 0 .. Goal(snk.level)
        /\ snk.length + 1 \in 0 .. Goal(snk.level)
    BY <1>2, <2>1, <2>2
  <2> QED BY <2>1, <2>2, <2>3, SegmentIs
<1>4. \E food \in BOOLEAN :
        snk' = [(IF food THEN Fed(ready, board) ELSE ready) EXCEPT !.over = ends]
  <2>1. OnFood(ready) \subseteq BOOLEAN
    BY DEF OnFood
  <2>2. turned = [snk EXCEPT !.direction = IF key \in SteeringKeys THEN key ELSE @]
    OBVIOUS
  <2> HIDE DEF turned, ends
  <2>3. \E food \in OnFood(ready) :
          snk' = [(IF food THEN Fed(ready, board) ELSE ready) EXCEPT !.over = (key = "x") \/ Hits(ready)]
    BY <2>2 DEF Turn
  <2> HIDE DEF ready
  <2> QED BY <2>1, <2>3 DEF ends
<1>5. /\ turned \in SnakeSet /\ turned.level = snk.level /\ turned.length = snk.length
      /\ turned.seg = snk.seg
  <2>1. dir \in SteeringKeys
    BY <1>1, SnakeHas
  <2> HIDE DEF dir
  <2> QED BY <1>1, <2>1 DEF SnakeSet
<1> HIDE DEF turned
<1>6. /\ moved \in SnakeSet /\ moved.level = snk.level /\ moved.length = snk.length
  BY <1>3, <1>5, MoveOnGives
<1>7. /\ ready \in SnakeSet /\ ready.level = snk.level /\ ready.length = snk.length
      /\ ready.seg = moved.seg /\ ready.grid = moved.grid /\ ~ready.firstpress
  <2> HIDE DEF moved
  <2>1. CASE moved.firstpress
    <3>1. ready = [moved EXCEPT !.firstpress = FALSE, !.direction = "p"]
      BY <2>1
    <3> HIDE DEF ready
    <3>2. "p" \in SteeringKeys
      BY DEF SteeringKeys
    <3> QED BY <1>6, <3>1, <3>2 DEF SnakeSet
  <2>2. CASE ~moved.firstpress
    BY <1>6, <2>2
  <2> QED BY <2>1, <2>2
<1>8. ASSUME ~Hits(ready)
      PROVE  /\ InOnePiece(ready.seg, ready.length + 1) /\ HeadIsFree(ready)
             /\ \A i \in 0 .. ready.length - 2 : ready.seg[i] # SnakeHead(ready)
             /\ ready.seg[ready.length] = SnakeHead(ready)
  <2> HIDE DEF ready
  <2>1. moved.length = snk.length /\ InOnePiece(turned.seg, turned.length)
    BY <1>2, <1>5, <1>6
  <2>2. ready.length = moved.length /\ turned.length >= 2 /\ turned.length \in Segments
    BY <1>3, <1>5, <1>6, <1>7
  <2> QED BY <1>5, <1>7, <1>8, <2>1, <2>2, StepLives
<1> HIDE DEF moved, ready
<1>9. ends \in BOOLEAN
  BY DEF ends
<1>10. ~ends => ~Hits(ready)
  BY DEF ends
<1> HIDE DEF ends
\* What is left to do once the snake has or has not eaten.
<1>11. ASSUME NEW f \in SnakeSet, snk' = [f EXCEPT !.over = ends],
              ~ends => /\ f.level <= MaxLevel =>
                            f.length \in (f.level + 4) .. (Goal(f.level) - 1) /\ InOnePiece(f.seg, f.length)
                       /\ f.level <= MaxLevel /\ ~f.firstpress => HeadIsFree(f)
       PROVE  SnakeInv(snk')
  <2>1. /\ snk' \in SnakeSet /\ snk'.over = ends /\ snk'.level = f.level /\ snk'.length = f.length
        /\ snk'.seg = f.seg /\ snk'.grid = f.grid /\ snk'.firstpress = f.firstpress
    BY <1>9, <1>11 DEF SnakeSet
  <2>2. HeadIsFree(f) => HeadIsFree(snk')
    BY <2>1 DEF HeadIsFree, SnakeHead
  <2> QED BY <1>11, <2>1, <2>2 DEF SnakeInv, Alive
<1>12. PICK food \in BOOLEAN : snk' = [(IF food THEN Fed(ready, board) ELSE ready) EXCEPT !.over = ends]
  BY <1>4
<1>13. CASE ~food
  <2>1. snk' = [ready EXCEPT !.over = ends]
    BY <1>12, <1>13
  <2>2. ASSUME ~ends PROVE InOnePiece(ready.seg, ready.length) /\ HeadIsFree(ready)
    <3>1. InOnePiece(ready.seg, ready.length + 1) /\ HeadIsFree(ready)
      BY <1>8, <1>10, <2>2
    <3> QED BY <1>3, <1>7, <3>1 DEF InOnePiece
  <2> QED BY <1>2, <1>7, <1>11, <2>1, <2>2
<1>14. CASE food
  <2> DEFINE e == Eat(ready)
             up == [e EXCEPT !.level = e.level + 1]
             f == Fed(ready, board)
  <2>1. snk' = [f EXCEPT !.over = ends]
    BY <1>12, <1>14
  <2>2. /\ e \in SnakeSet /\ e.level = snk.level /\ e.length = snk.length + 1
        /\ ~e.firstpress /\ e.grid = ready.grid /\ \A i \in 0 .. snk.length : e.seg[i] = ready.seg[i]
    <3>1. ready.length >= 1 /\ ready.length + 1 \in Segments
      BY <1>3, <1>7
    <3> HIDE DEF e
    <3> QED BY <1>7, <3>1, EatGives DEF e
  <2>3. f = IF e.length = Goal(e.level) THEN setup_level(up, board) ELSE e
    BY DEF Fed
  <2> HIDE DEF e
  <2>4. CASE e.length = Goal(e.level)
    <3>1. f = setup_level(up, board)
      BY <2>3, <2>4
    <3>2. up \in SnakeSet
      <4>1. e.level + 1 \in 1 .. MaxLevel + 1
        BY <1>3, <2>2, SnakeSizes
      <4> QED BY <2>2, <4>1 DEF SnakeSet
    <3> HIDE DEF up, f
    <3>3. /\ f \in SnakeSet /\ f.level = up.level /\ f.firstpress
          /\ up.level <= MaxLevel =>
               f.length \in (f.level + 4) .. (Goal(f.level) - 1) /\ InOnePiece(f.seg, f.length)
      BY <3>1, <3>2, SetupGives
    <3> QED BY <1>11, <2>1, <3>3
  <2>5. CASE e.length # Goal(e.level)
    <3>1. f = e
      BY <2>3, <2>5
    <3>2. e.length \in (e.level + 4) .. (Goal(e.level) - 1)
      BY <1>2, <1>3, <2>2, <2>5
    <3>3. ASSUME ~ends PROVE InOnePiece(e.seg, e.length) /\ HeadIsFree(e)
      <4>1. /\ InOnePiece(ready.seg, snk.length + 1) /\ HeadIsFree(ready)
            /\ \A i \in 0 .. snk.length - 2 : ready.seg[i] # ready.seg[snk.length - 1]
            /\ ready.seg[snk.length] = ready.seg[snk.length - 1]
            /\ ready.grid[ready.seg[snk.length - 1]] # "X"
        BY <1>7, <1>8, <1>10, <3>3 DEF HeadIsFree, SnakeHead
      <4>2. InOnePiece(e.seg, e.length)
        <5>1. \A i \in 0 .. (snk.length + 1) - 1 : i \in 0 .. snk.length
          BY <1>3
        <5>2. \A i \in 1 .. (snk.length + 1) - 1 : i \in 0 .. snk.length /\ i - 1 \in 0 .. snk.length
          BY <1>3
        <5> QED BY <2>2, <4>1, <5>1, <5>2 DEF InOnePiece
      <4>3. SnakeHead(e) = e.seg[snk.length]
        <5>1. (snk.length + 1) - 1 = snk.length
          BY <1>3
        <5> QED BY <2>2, <5>1 DEF SnakeHead
      <4>4. e.seg[snk.length] = ready.seg[snk.length - 1] /\ e.seg[snk.length - 1] = ready.seg[snk.length - 1]
        <5>1. snk.length \in 0 .. snk.length /\ snk.length - 1 \in 0 .. snk.length
          BY <1>3
        <5> QED BY <2>2, <4>1, <5>1
      <4>5. ASSUME NEW i \in 0 .. e.length - 2, e.seg[i] = SnakeHead(e)
            PROVE  \A j \in i .. e.length - 1 : e.seg[j] = SnakeHead(e)
        <5>1. i \in 0 .. snk.length - 1 /\ i \in 0 .. snk.length /\ i \in Int
          BY <1>3, <2>2
        <5>2. i = snk.length - 1
          <6>1. ready.seg[i] = ready.seg[snk.length - 1]
            BY <2>2, <4>3, <4>4, <4>5, <5>1
          <6>2. i \notin 0 .. snk.length - 2
            BY <4>1, <6>1
          <6> QED BY <1>3, <5>1, <6>2
        <5>3. \A j \in i .. e.length - 1 : j = snk.length - 1 \/ j = snk.length
          BY <1>3, <2>2, <5>2
        <5> QED BY <4>3, <4>4, <5>3
      <4>6. e.grid[SnakeHead(e)] # "X"
        BY <2>2, <4>1, <4>3, <4>4
      <4> QED BY <4>2, <4>5, <4>6 DEF HeadIsFree
    <3> HIDE DEF f
    <3> QED BY <1>11, <2>1, <2>2, <3>1, <3>2, <3>3
  <2> QED BY <2>4, <2>5
<1> QED BY <1>13, <1>14

\* The snakes a game and a level begin with.
LEMMA AnotherKeeps ==
  ASSUME NEW s \in SnakeSet, s.level = 1, NEW board \in Boards
  PROVE  SnakeInv(setup_level(s, board))
<1>1. 1 <= MaxLevel
  BY SnakeSizes
<1> DEFINE v == setup_level(s, board)
<1>2. /\ v \in SnakeSet /\ v.firstpress
      /\ v.length \in (v.level + 4) .. (Goal(v.level) - 1) /\ InOnePiece(v.seg, v.length)
  BY <1>1, SetupGives
<1> HIDE DEF v
<1> QED BY <1>2 DEF SnakeInv, v

SnakeStateInv == SnakeInv(snk)

(***************************************************************************)
(* A living snake is in one piece on the board, its head on nothing but    *)
(* what it has just gained, and its length is still below the one that     *)
(* ends the level, whatever the size of the board, the keys and the food.  *)
(***************************************************************************)
THEOREM SnakeIsSound == SnakeSpec => []SnakeSound
<1>1. SnakeInit => SnakeStateInv
  <2> SUFFICES ASSUME NEW board \in Boards, snk = setup_level(SnakeAtRest, board)
               PROVE  SnakeInv(snk)
    BY DEF SnakeInit, SnakeStateInv
  <2>1. SnakeAtRest \in SnakeSet
    <3>1. [i \in Segments |-> Stale] \in [Segments -> Points]
      BY DEF Stale, Points
    <3>2. [p \in FieldCells |-> " "] \in Grids
      BY DEF Grids
    <3>3. 1 \in 1 .. MaxLevel + 1 /\ "p" \in SteeringKeys
      BY SnakeSizes DEF SteeringKeys
    <3> QED BY <3>1, <3>2, <3>3 DEF SnakeAtRest, SnakeSet
  <2>2. SnakeAtRest.level = 1
    BY DEF SnakeAtRest
  <2> QED BY <2>1, <2>2, AnotherKeeps
<1>2. SnakeStateInv /\ [SnakeNext]_snk => SnakeStateInv'
  <2> SUFFICES ASSUME SnakeInv(snk), [SnakeNext]_snk
               PROVE  SnakeInv(snk')
    BY DEF SnakeStateInv
  <2>1. CASE UNCHANGED snk
    BY <2>1
  <2>2. ASSUME NEW board \in Boards, NEW key \in SteeringKeys \cup {"none", "x"}, Turn(key, board)
        PROVE  SnakeInv(snk')
    BY <2>2, TurnKeeps
  <2>3. ASSUME NEW board \in Boards, Another(board) PROVE SnakeInv(snk')
    <3> DEFINE s == [snk EXCEPT !.level = 1, !.over = FALSE]
    <3>1. snk' = setup_level(s, board)
      BY <2>3 DEF Another
    <3>2. s \in SnakeSet /\ s.level = 1
      <4>1. 1 \in 1 .. MaxLevel + 1 /\ FALSE \in BOOLEAN
        BY SnakeSizes
      <4>2. snk \in SnakeSet
        BY DEF SnakeInv
      <4> QED BY <4>1, <4>2 DEF SnakeSet
    <3> HIDE DEF s
    <3> QED BY <3>1, <3>2, AnotherKeeps
  <2> QED BY <2>1, <2>2, <2>3 DEF SnakeNext
<1>3. SnakeStateInv => SnakeSound
  <2> SUFFICES ASSUME SnakeInv(snk) PROVE SnakeIsWhole /\ LevelsEnd
    BY DEF SnakeStateInv, SnakeSound
  <2>1. SnakeIsWhole
    BY DEF SnakeInv, Alive, InOnePiece, HeadIsFree, SnakeIsWhole
  <2>2. LevelsEnd
    BY DEF SnakeInv, Alive, LevelsEnd
  <2> QED BY <2>1, <2>2
<1> QED BY <1>1, <1>2, <1>3, PTL DEF SnakeSpec
(* Sorting.  A line of text, and the order the comparison goes by: at each *)
(* spot, a key and a place in it, a letter; the first that differs counts. *)
Chars == 1..127
Texts == Seq(Chars)
Spots == Nat \X Nat
NoLater(d, e) == d[1] < e[1] \/ (d[1] = e[1] /\ d[2] <= e[2])
Below(a, b) == \E d \in Spots : a[d] < b[d] /\ \A e \in Spots : ~NoLater(d, e) => a[e] = b[e]

LEMMA LeastSpot ==
  ASSUME NEW T \in SUBSET Spots, T # {}
  PROVE  \E d \in T : \A e \in T : NoLater(d, e)
<1> DEFINE N == {e[1] : e \in T}
<1>1. N \in SUBSET Nat /\ N # {}
  BY DEF Spots
<1>2. PICK n \in N : \A m \in N : n <= m
  BY <1>1, Least
<1> DEFINE J == {j \in Nat : <<n, j>> \in T}
<1>3. PICK f \in T : f[1] = n
  BY <1>2
<1>4. f = <<n, f[2]>> /\ f[2] \in Nat /\ n \in Nat
  BY <1>3 DEF Spots
<1>5. J \in SUBSET Nat /\ J # {}
  BY <1>4
<1>6. PICK j \in J : \A k \in J : j <= k
  BY <1>5, Least
<1>7. <<n, j>> \in T
  BY <1>6
<1>8. ASSUME NEW e \in T PROVE NoLater(<<n, j>>, e)
  <2>1. e = <<e[1], e[2]>> /\ e[1] \in Nat /\ e[2] \in Nat /\ e[1] \in N
    BY DEF Spots
  <2>2. n <= e[1]
    BY <1>2, <2>1
  <2>3. CASE e[1] = n
    <3>1. e[2] \in J
      BY <2>1, <2>3
    <3> QED BY <1>4, <1>6, <2>3, <3>1 DEF NoLater
  <2>4. CASE e[1] # n
    BY <1>4, <2>1, <2>2, <2>4 DEF NoLater
  <2> QED BY <2>3, <2>4
<1> QED BY <1>7, <1>8

LEMMA BelowIsAnOrder ==
  ASSUME NEW a \in [Spots -> Int], NEW b \in [Spots -> Int], NEW c \in [Spots -> Int]
  PROVE  /\ a = b \/ Below(a, b) \/ Below(b, a)
         /\ ~(Below(a, b) /\ Below(b, a)) /\ (a = b => ~Below(a, b))
         /\ Below(a, b) /\ Below(b, c) => Below(a, c)
<1>1. a = b \/ Below(a, b) \/ Below(b, a)
  <2> SUFFICES ASSUME a # b PROVE Below(a, b) \/ Below(b, a)
    OBVIOUS
  <2> DEFINE T == {e \in Spots : a[e] # b[e]}
  <2>1. T \in SUBSET Spots /\ T # {}
    OBVIOUS
  <2>2. PICK d \in T : \A e \in T : NoLater(d, e)
    BY <2>1, LeastSpot
  <2>3. \A e \in Spots : ~NoLater(d, e) => a[e] = b[e]
    BY <2>2
  <2>4. d \in Spots /\ a[d] \in Int /\ b[d] \in Int /\ a[d] # b[d]
    BY <2>2
  <2>5. a[d] < b[d] \/ b[d] < a[d]
    BY <2>4
  <2> QED BY <2>3, <2>4, <2>5 DEF Below
<1> DEFINE First(f, g, d) == d \in Spots /\ f[d] < g[d] /\ \A e \in Spots : ~NoLater(d, e) => f[e] = g[e]
<1>2. \A f, g : Below(f, g) <=> \E d \in Spots : First(f, g, d)
  BY DEF Below
<1>3. \A d, e \in Spots : NoLater(d, e) \/ NoLater(e, d)
  BY DEF NoLater, Spots
<1>4. \A d, e \in Spots : NoLater(d, e) /\ NoLater(e, d) => d = e
  BY DEF NoLater, Spots
<1>5. \A d, e, g \in Spots : NoLater(d, e) /\ NoLater(e, g) => NoLater(d, g)
  BY DEF NoLater, Spots
<1>6. \A d \in Spots : a[d] \in Int /\ b[d] \in Int /\ c[d] \in Int
  OBVIOUS
<1>7. ~(Below(a, b) /\ Below(b, a))
  <2> SUFFICES ASSUME NEW d \in Spots, First(a, b, d), NEW e \in Spots, First(b, a, e) PROVE FALSE
    BY <1>2
  <2>1. NoLater(d, e)
    BY <1>6
  <2>2. NoLater(e, d)
    BY <1>6
  <2>3. d = e
    BY <1>4, <2>1, <2>2
  <2> QED BY <1>6, <2>3
<1>8. a = b => ~Below(a, b)
  BY <1>6 DEF Below
<1>9. ASSUME Below(a, b), Below(b, c) PROVE Below(a, c)
  <2>1. PICK d \in Spots : First(a, b, d)
    BY <1>2, <1>9
  <2>2. PICK e \in Spots : First(b, c, e)
    BY <1>2, <1>9
  <2>3. CASE d = e
    <3>1. a[d] < c[d]
      BY <1>6, <2>1, <2>2, <2>3
    <3>2. \A g \in Spots : ~NoLater(d, g) => a[g] = c[g]
      BY <2>1, <2>2, <2>3
    <3> QED BY <3>1, <3>2 DEF Below
  <2>4. CASE ~NoLater(d, e)
    <3>1. NoLater(e, d)
      BY <1>3, <2>4
    <3>2. a[e] < c[e]
      BY <1>6, <2>1, <2>2, <2>4
    <3>3. \A g \in Spots : ~NoLater(e, g) => ~NoLater(d, g)
      BY <1>5, <3>1
    <3>4. \A g \in Spots : ~NoLater(e, g) => a[g] = c[g]
      BY <2>1, <2>2, <3>3
    <3> QED BY <3>2, <3>4 DEF Below
  <2>5. CASE ~NoLater(e, d)
    <3>1. NoLater(d, e)
      BY <1>3, <2>5
    <3>2. a[d] < c[d]
      BY <1>6, <2>1, <2>2, <2>5
    <3>3. \A g \in Spots : ~NoLater(d, g) => ~NoLater(e, g)
      BY <1>5, <3>1
    <3>4. \A g \in Spots : ~NoLater(d, g) => a[g] = c[g]
      BY <2>1, <2>2, <3>3
    <3> QED BY <3>2, <3>4 DEF Below
  <2> QED BY <1>4, <2>3, <2>4, <2>5
<1> QED BY <1>1, <1>7, <1>8, <1>9

(* The comparison for given options and keys.                              *)
Glyph(o, c) == IF "F" \in o THEN toupper(c) ELSE c
Whole(o, s, t) ==
  LET differ == {i \in DOMAIN s : Glyph(o, s[i]) # Glyph(o, At(t, i))}
      i == CHOOSE j \in differ : \A k \in differ : j <= k
  IN IF differ # {} THEN Glyph(o, s[i]) - Glyph(o, At(t, i))
     ELSE IF Len(t) = Len(s) THEN 0 ELSE -1
UsedKeys(keys) == {n \in 0..MAXKEYS - 1 : \A m \in 0..n : keys[m] >= 0}
KeyFields(keys) ==
  {f \in UsedKeys(keys) \X (0..MAXLINE - 1) : keys[f[1]] <= f[2] /\ f[2] <= keys[MAXKEYS + f[1]]}
ByKeys(o, keys, s, t) ==
  LET differ == {f \in KeyFields(keys) : Glyph(o, At(s, f[2] + 1)) # Glyph(o, At(t, f[2] + 1))}
      f == CHOOSE d \in differ : \A e \in differ : d[1] < e[1] \/ (d[1] = e[1] /\ d[2] <= e[2])
  IN IF differ = {} THEN 0 ELSE Glyph(o, At(s, f[2] + 1)) - Glyph(o, At(t, f[2] + 1))
Plain(o, keys, s, t) ==
  IF "N" \in o THEN Int16(ATOI(s) - ATOI(t))
  ELSE IF "K" \in o THEN ByKeys(o, keys, s, t) ELSE Whole(o, s, t)
Compare(o, keys, s, t) == IF "R" \in o THEN Int16(-Plain(o, keys, s, t)) ELSE Plain(o, keys, s, t)

LEMMA ComparesSo ==
  ASSUME NEW s, NEW t
  PROVE  scmp(s, t) = Compare(sort.opt, sort.keys, s, t)
<1>1. strcmpaf(s, t) = ByKeys(sort.opt, sort.keys, s, t)
  BY DEF strcmpaf, ByKeys, KeyFields, UsedKeys, Fold, Glyph
<1>2. xstrcmp(s, t) = Whole(sort.opt, s, t)
  BY DEF xstrcmp, Whole, Fold, Glyph
<1> QED BY <1>1, <1>2 DEF scmp, Compare, Plain

LEMMA GlyphRange ==
  ASSUME NEW o, NEW c \in 0..127
  PROVE  Glyph(o, c) \in 0..127 /\ (Glyph(o, c) = 0 <=> c = 0)
BY DEF Glyph, toupper

LEMMA GlyphOfNone ==
  ASSUME NEW o
  PROVE  Glyph(o, 0) = 0
BY DEF Glyph, toupper

LEMMA TextIs ==
  ASSUME NEW s \in Texts
  PROVE  /\ Len(s) \in Nat /\ DOMAIN s = 1..Len(s)
         /\ \A i \in 1..Len(s) : s[i] \in 0..127 /\ s[i] # 0 /\ s[i] \in Int
<1>1. \A x \in Chars : x \in 0..127 /\ x # 0 /\ x \in Int
  BY DEF Chars
<1>2. Len(s) \in Nat /\ DOMAIN s = 1..Len(s) /\ \A i \in 1..Len(s) : s[i] \in Chars
  BY DEF Texts
<1> QED BY <1>1, <1>2

LEMMA AtRange ==
  ASSUME NEW s \in Texts, NEW i \in Nat
  PROVE  At(s, i) \in 0..127 /\ (At(s, i) = 0 <=> i \notin 1..Len(s))
<1>1. CASE i \in 1..Len(s)
  BY <1>1, TextIs DEF At
<1>2. CASE i \notin 1..Len(s)
  BY <1>2, TextIs, 0 \in 0..127 DEF At
<1> QED BY <1>1, <1>2

(* What a comparison says of two lines that are so spelled at the spots.   *)
Says(r, a, b) == r \in -127..127 /\ (r < 0 <=> Below(a, b)) /\ (r = 0 <=> a = b)

LEMMA SaysBySpot ==
  ASSUME NEW a \in [Spots -> 0..127], NEW b \in [Spots -> 0..127], NEW d \in Spots, a[d] # b[d],
         \A e \in Spots : ~NoLater(d, e) => a[e] = b[e]
  PROVE  Says(a[d] - b[d], a, b)
<1>1. a \in [Spots -> Int] /\ b \in [Spots -> Int]
  OBVIOUS
<1>2. a[d] \in 0..127 /\ b[d] \in 0..127
  OBVIOUS
<1>3. a # b
  OBVIOUS
<1> DEFINE x == a[d]
           y == b[d]
<1> HIDE DEF x, y
<1>4. x \in 0..127 /\ y \in 0..127 /\ x # y
  BY <1>2 DEF x, y
<1>5. x - y \in -127..127 /\ x - y # 0 /\ (x - y < 0 <=> x < y) /\ (x < y \/ y < x)
  BY <1>4
<1>6. CASE x < y
  <2>1. Below(a, b)
    BY <1>6 DEF Below, x, y
  <2> QED BY <1>3, <1>5, <1>6, <2>1 DEF Says, x, y
<1>7. CASE y < x
  <2>1. Below(b, a)
    BY <1>7 DEF Below, x, y
  <2>2. ~Below(a, b)
    BY <1>1, <2>1, BelowIsAnOrder
  <2>3. ~(x < y)
    BY <1>4, <1>7
  <2> QED BY <1>3, <1>5, <2>2, <2>3 DEF Says, x, y
<1> QED BY <1>5, <1>6, <1>7

WholeSpelling(o, s) == [d \in Spots |-> IF d[1] = 0 THEN Glyph(o, At(s, d[2] + 1)) ELSE 0]
KeySpelling(o, keys, s) == [d \in Spots |-> IF d \in KeyFields(keys) THEN Glyph(o, At(s, d[2] + 1)) ELSE 0]

LEMMA SpellingTypes ==
  ASSUME NEW o, NEW keys, NEW s \in Texts
  PROVE  WholeSpelling(o, s) \in [Spots -> 0..127] /\ KeySpelling(o, keys, s) \in [Spots -> 0..127]
<1>1. ASSUME NEW d \in Spots PROVE Glyph(o, At(s, d[2] + 1)) \in 0..127
  <2>1. d[2] + 1 \in Nat
    BY DEF Spots
  <2> QED BY <2>1, AtRange, GlyphRange
<1> QED BY <1>1 DEF WholeSpelling, KeySpelling

LEMMA SaysEqual ==
  ASSUME NEW a \in [Spots -> 0..127]
  PROVE  Says(0, a, a)
<1>1. a \in [Spots -> Int]
  OBVIOUS
<1>2. ~Below(a, a)
  BY <1>1, BelowIsAnOrder
<1> QED BY <1>2 DEF Says

LEMMA WholeSays ==
  ASSUME NEW o, NEW keys, NEW s \in Texts, NEW t \in Texts
  PROVE  Says(Whole(o, s, t), WholeSpelling(o, s), WholeSpelling(o, t))
<1> DEFINE a == WholeSpelling(o, s)
           b == WholeSpelling(o, t)
           D == {i \in DOMAIN s : Glyph(o, s[i]) # Glyph(o, At(t, i))}
           c == CHOOSE j \in D : \A k \in D : j <= k
<1>1. Len(s) \in Nat /\ Len(t) \in Nat /\ DOMAIN s = 1..Len(s)
  BY DEF Texts
<1>2. Whole(o, s, t) = IF D # {} THEN Glyph(o, s[c]) - Glyph(o, At(t, c))
                       ELSE IF Len(t) = Len(s) THEN 0 ELSE -1
  BY DEF Whole
<1>3. a \in [Spots -> 0..127] /\ b \in [Spots -> 0..127]
  BY SpellingTypes
<1>4. \A i \in DOMAIN s : At(s, i) = s[i]
  BY DEF At
<1>5. ASSUME NEW d \in Spots
      PROVE  /\ d = <<d[1], d[2]>> /\ d[1] \in Nat /\ d[2] \in Nat
             /\ d[1] = 0 => a[d] = Glyph(o, At(s, d[2] + 1)) /\ b[d] = Glyph(o, At(t, d[2] + 1))
             /\ d[1] # 0 => a[d] = b[d]
  BY DEF Spots, WholeSpelling
<1>6. ASSUME NEW i \in 1..Len(s), i \notin D PROVE Glyph(o, At(s, i)) = Glyph(o, At(t, i))
  BY <1>1, <1>4, <1>6
<1>7. ASSUME NEW n \in Nat, \A i \in 1..n : Glyph(o, At(s, i)) = Glyph(o, At(t, i)),
             NEW e \in Spots, ~NoLater(<<0, n>>, e)
      PROVE  a[e] = b[e]
  <2>1. e[1] # 0 \/ (e[1] = 0 /\ e[2] < n)
    BY <1>5, <1>7 DEF NoLater
  <2>2. CASE e[1] # 0
    BY <1>5, <2>2
  <2>3. CASE e[1] = 0 /\ e[2] < n
    <3>1. e[2] + 1 \in 1..n
      BY <1>5, <2>3
    <3> QED BY <1>5, <1>7, <2>3, <3>1
  <2> QED BY <2>1, <2>2, <2>3
<1> HIDE DEF a, b
<1>8. CASE D # {}
  <2>1. D \in SUBSET Nat
    BY <1>1
  <2>2. \E j \in D : \A k \in D : j <= k
    BY <1>8, <2>1, Least
  <2>3. c \in D /\ \A k \in D : c <= k
    BY <2>2
  <2> HIDE DEF c
  <2>4. c \in 1..Len(s) /\ c \in Nat /\ c - 1 \in Nat /\ (c - 1) + 1 = c
    BY <1>1, <2>3
  <2>5. ASSUME NEW i \in 1..c - 1 PROVE Glyph(o, At(s, i)) = Glyph(o, At(t, i))
    <3>1. i \in 1..Len(s) /\ ~ (c <= i)
      BY <1>1, <2>4
    <3> QED BY <1>6, <2>3, <3>1
  <2> DEFINE d == <<0, c - 1>>
  <2>6. d \in Spots /\ d[1] = 0 /\ d[2] = c - 1
    BY <2>4 DEF Spots
  <2>7. a[d] = Glyph(o, s[c]) /\ b[d] = Glyph(o, At(t, c))
    BY <1>1, <1>4, <1>5, <2>4, <2>6
  <2>8. a[d] # b[d]
    BY <2>3, <2>7
  <2>9. \A e \in Spots : ~NoLater(d, e) => a[e] = b[e]
    BY <1>7, <2>4, <2>5
  <2>10. Says(a[d] - b[d], a, b)
    BY <1>3, <2>6, <2>8, <2>9, SaysBySpot
  <2> QED BY <1>2, <1>8, <2>7, <2>10 DEF a, b
<1>9. CASE D = {} /\ Len(t) = Len(s)
  <2>1. ASSUME NEW i \in Nat PROVE Glyph(o, At(s, i)) = Glyph(o, At(t, i))
    <3>1. CASE i \in 1..Len(s)
      BY <1>6, <1>9, <3>1
    <3>2. CASE i \notin 1..Len(s)
      BY <1>9, <3>2, AtRange
    <3> QED BY <3>1, <3>2
  <2>2. ASSUME NEW d \in Spots PROVE a[d] = b[d]
    <3>1. d[2] + 1 \in Nat
      BY <1>5
    <3> QED BY <1>5, <2>1, <3>1
  <2>3. a = b
    BY <1>3, <2>2
  <2> QED BY <1>2, <1>3, <1>9, <2>3, SaysEqual DEF a, b
<1>10. CASE D = {} /\ Len(t) # Len(s)
  <2>1. \A i \in 1..Len(s) : Glyph(o, At(s, i)) = Glyph(o, At(t, i))
    BY <1>6, <1>10
  <2>2. Len(s) < Len(t)
    <3> SUFFICES ASSUME Len(t) < Len(s) PROVE FALSE
      BY <1>1, <1>10
    <3> DEFINE i == Len(t) + 1
    <3>1. i \in 1..Len(s) /\ i \in Nat /\ i \notin 1..Len(t)
      BY <1>1
    <3>2. At(s, i) \in 0..127 /\ At(s, i) # 0 /\ At(t, i) = 0
      BY <3>1, AtRange
    <3>3. Glyph(o, At(s, i)) # 0 /\ Glyph(o, At(t, i)) = 0
      <4>1. Glyph(o, At(s, i)) # 0
        BY <3>2, GlyphRange
      <4> QED BY <3>2, <4>1, GlyphOfNone
    <3> QED BY <2>1, <3>1, <3>3
  <2> DEFINE d == <<0, Len(s)>>
             i == Len(s) + 1
  <2>3. d \in Spots /\ d[1] = 0 /\ d[2] = Len(s)
    BY <1>1 DEF Spots
  <2>4. i \in 1..Len(t) /\ i \in Nat /\ i \notin 1..Len(s)
    BY <1>1, <2>2
  <2>5. At(t, i) \in 0..127 /\ At(t, i) # 0 /\ At(s, i) = 0
    BY <2>4, AtRange
  <2>6. a[d] = Glyph(o, At(s, i)) /\ b[d] = Glyph(o, At(t, i))
    BY <1>5, <2>3
  <2>7. a[d] = 0 /\ b[d] # 0
    <3>1. Glyph(o, At(t, i)) # 0
      BY <2>5, GlyphRange
    <3> QED BY <2>5, <2>6, <3>1, GlyphOfNone
  <2>8. \A e \in Spots : ~NoLater(d, e) => a[e] = b[e]
    BY <1>1, <1>7, <2>1
  <2>9. Says(a[d] - b[d], a, b)
    BY <1>3, <2>3, <2>7, <2>8, SaysBySpot
  <2>10. b[d] \in 0..127
    BY <1>3, <2>3
  <2> HIDE DEF d
  <2>11. Says(-1, a, b)
    BY <2>7, <2>9, <2>10 DEF Says
  <2> QED BY <1>2, <1>10, <2>11 DEF a, b
<1> QED BY <1>8, <1>9, <1>10

LEMMA KeysSay ==
  ASSUME NEW o, NEW keys, NEW s \in Texts, NEW t \in Texts
  PROVE  Says(ByKeys(o, keys, s, t), KeySpelling(o, keys, s), KeySpelling(o, keys, t))
<1> DEFINE a == KeySpelling(o, keys, s)
           b == KeySpelling(o, keys, t)
           D == {f \in KeyFields(keys) : Glyph(o, At(s, f[2] + 1)) # Glyph(o, At(t, f[2] + 1))}
           c == CHOOSE d \in D : \A e \in D : NoLater(d, e)
<1>1. ByKeys(o, keys, s, t) = IF D = {} THEN 0
                              ELSE Glyph(o, At(s, c[2] + 1)) - Glyph(o, At(t, c[2] + 1))
  BY DEF ByKeys, NoLater
<1>2. a \in [Spots -> 0..127] /\ b \in [Spots -> 0..127]
  BY SpellingTypes
<1>3. KeyFields(keys) \subseteq Spots
  BY SortAssumption DEF KeyFields, UsedKeys, Spots
<1>4. ASSUME NEW d \in Spots
      PROVE  /\ a[d] = b[d] <=> d \notin D
             /\ d \in D => a[d] = Glyph(o, At(s, d[2] + 1)) /\ b[d] = Glyph(o, At(t, d[2] + 1))
  BY DEF KeySpelling
<1> HIDE DEF a, b
<1>5. CASE D = {}
  <2>1. a = b
    BY <1>2, <1>4, <1>5
  <2> QED BY <1>1, <1>2, <1>5, <2>1, SaysEqual DEF a, b
<1>6. CASE D # {}
  <2>1. D \in SUBSET Spots
    BY <1>3
  <2>2. \E d \in D : \A e \in D : NoLater(d, e)
    BY <1>6, <2>1, LeastSpot
  <2>3. c \in D /\ \A e \in D : NoLater(c, e)
    BY <2>2
  <2> HIDE DEF c
  <2>4. c \in Spots /\ a[c] # b[c] /\ \A e \in Spots : ~NoLater(c, e) => a[e] = b[e]
    BY <1>4, <2>1, <2>3
  <2>5. Says(a[c] - b[c], a, b)
    BY <1>2, <2>4, SaysBySpot
  <2> QED BY <1>1, <1>4, <1>6, <2>3, <2>4, <2>5 DEF a, b
<1> QED BY <1>5, <1>6

(* A function that goes from each number to the next.                      *)
Recurs(X, b, n, G, f) ==
  f \in [0..n -> X] /\ f[0] = b /\ \A i \in 1..n : f[i] = G[<<i, f[i - 1]>>]

LEMMA Recursion ==
  ASSUME NEW X, NEW b \in X, NEW n \in Nat, NEW G \in [(1..n) \X X -> X]
  PROVE  \E f : Recurs(X, b, n, G, f)
<1> DEFINE S == {k \in Nat : k <= n => \E f : Recurs(X, b, k, G, f)}
<1>1. 0 \in S
  <2> DEFINE f == [j \in 0..0 |-> b]
  <2>1. Recurs(X, b, 0, G, f)
    BY DEF Recurs
  <2> HIDE DEF f
  <2> QED BY <2>1
<1>2. ASSUME NEW k \in Nat, k \in S PROVE k + 1 \in S
  <2> SUFFICES ASSUME k + 1 <= n PROVE \E f : Recurs(X, b, k + 1, G, f)
    OBVIOUS
  <2>1. PICK g : Recurs(X, b, k, G, g)
    BY <1>2
  <2> USE DEF Recurs
  <2>2. <<k + 1, g[k]>> \in (1..n) \X X
    BY <2>1
  <2> DEFINE f == [j \in 0..k + 1 |-> IF j = k + 1 THEN G[<<k + 1, g[k]>>] ELSE g[j]]
  <2>3. f \in [0..k + 1 -> X]
    BY <2>1, <2>2
  <2>4. f[0] = b
    BY <2>1
  <2>5. ASSUME NEW i \in 1..k + 1 PROVE f[i] = G[<<i, f[i - 1]>>]
    <3>1. CASE i = k + 1
      <4>1. f[i] = G[<<k + 1, g[k]>>] /\ f[i - 1] = g[k] /\ i - 1 = k
        BY <3>1
      <4> HIDE DEF f
      <4> QED BY <3>1, <4>1
    <3>2. CASE i \in 1..k
      <4>1. f[i] = g[i] /\ f[i - 1] = g[i - 1]
        BY <3>2
      <4>2. g[i] = G[<<i, g[i - 1]>>]
        BY <2>1, <3>2
      <4> HIDE DEF f
      <4> QED BY <4>1, <4>2
    <3> QED BY <3>1, <3>2
  <2>6. Recurs(X, b, k + 1, G, f)
    BY <2>3, <2>4, <2>5 DEF Recurs
  <2> HIDE DEF f
  <2> QED BY <2>6
<1>3. n \in S
  <2> HIDE DEF S
  <2> QED BY <1>1, <1>2, Induct
<1> QED BY <1>3

LEMMA Int16Type ==
  ASSUME NEW x \in Int
  PROVE  Int16(x) \in Int /\ (x \in -127..127 => Int16(x) = x)
<1> DEFINE N == IntValues
           H == N \div 2
<1>1. N \in Nat /\ N >= 256
  BY SortAssumption
<1>2. H \in Nat /\ 128 <= H /\ H + 127 < N
  BY <1>1
<1>3. Int16(x) = ((x + H) % N) - H
  BY DEF Int16
<1> HIDE DEF N, H
<1>4. (x + H) % N \in Int
  BY <1>1, <1>2
<1>5. ASSUME x \in -127..127 PROVE (x + H) % N = x + H
  <2> DEFINE y == x + H
  <2>1. y \in 0..N - 1
    BY <1>1, <1>2, <1>5
  <2> HIDE DEF y
  <2>2. y % N = y
    BY <1>1, <2>1
  <2> QED BY <2>2 DEF y
<1> QED BY <1>2, <1>3, <1>4, <1>5

LEMMA AtoiType ==
  ASSUME NEW s \in Texts
  PROVE  ATOI(s) \in Int
<1> DEFINE digits == {i \in DOMAIN s : s[i] \in 48..57}
           sign == s # <<>> /\ s[1] = 45
           first == IF sign THEN 2 ELSE 1
           n == Len(s)
           Stops(i) == \E j \in first..i : j \notin digits
           Step(i, x) == IF i < first \/ Stops(i) THEN IF i < first THEN 0 ELSE x
                         ELSE Int16(x * 10 + s[i] - 48)
           Is(f) == f = [i \in 0..n |-> Step(i, f[i - 1])]
           value == CHOOSE f : Is(f)
<1>1. ATOI(s) = Int16((IF sign THEN -1 ELSE 1) * value[n])
  BY DEF ATOI
<1>2. n \in Nat /\ first \in {1, 2}
  BY DEF Texts
<1> HIDE DEF first, digits
<1>3. ASSUME NEW i \in 1..n PROVE s[i] \in Int
  BY TextIs
<1>4. ASSUME NEW i \in 1..n, NEW x \in Int PROVE Step(i, x) \in Int
  <2>1. x * 10 + s[i] - 48 \in Int
    BY <1>3
  <2>2. Int16(x * 10 + s[i] - 48) \in Int
    BY <2>1, Int16Type
  <2> QED BY <2>2
<1>5. \A x : Step(0, x) = 0
  BY <1>2
<1> HIDE DEF Step
<1>6. \E f : Is(f)
  <2> DEFINE G == [p \in (1..n) \X Int |-> Step(p[1], p[2])]
  <2>1. G \in [(1..n) \X Int -> Int]
    BY <1>4
  <2>2. \A i \in 1..n : \A x \in Int : G[<<i, x>>] = Step(i, x)
    OBVIOUS
  <2> HIDE DEF G, n
  <2>0. 0 \in Int /\ n \in Nat
    BY <1>2
  <2>3. PICK f : Recurs(Int, 0, n, G, f)
    BY <2>0, <2>1, Recursion
  <2>4. \A i \in 0..n : f[i] = Step(i, f[i - 1])
    <3>1. ASSUME NEW i \in 1..n PROVE f[i] = Step(i, f[i - 1])
      <4>1. f[i - 1] \in Int
        BY <2>0, <2>3 DEF Recurs
      <4> QED BY <2>2, <2>3, <4>1 DEF Recurs
    <3>2. f[0] = Step(0, f[0 - 1])
      BY <1>5, <2>3 DEF Recurs
    <3> QED BY <2>0, <3>1, <3>2
  <2>5. Is(f)
    BY <2>3, <2>4 DEF Recurs
  <2> QED BY <2>5
<1>7. Is(value)
  BY <1>6
<1> HIDE DEF value
<1>8. \A i \in 0..n : value[i] = Step(i, value[i - 1])
  BY <1>7
<1> DEFINE S == {k \in Nat : k <= n => value[k] \in Int}
<1>9. 0 \in S
  BY <1>2, <1>5, <1>8
<1>10. ASSUME NEW k \in Nat, k \in S PROVE k + 1 \in S
  <2> SUFFICES ASSUME k + 1 <= n PROVE value[k + 1] \in Int
    OBVIOUS
  <2>1. value[k] \in Int /\ k + 1 \in 1..n /\ (k + 1) - 1 = k
    BY <1>2, <1>10
  <2>2. k + 1 \in 0..n
    BY <2>1
  <2>3. value[k + 1] = Step(k + 1, value[k])
    BY <1>8, <2>1, <2>2
  <2> QED BY <1>4, <2>1, <2>3
<1>11. value[n] \in Int
  <2> HIDE DEF S
  <2>1. n \in S
    BY <1>2, <1>9, <1>10, Induct
  <2> QED BY <2>1, <1>2 DEF S
<1>12. (IF sign THEN -1 ELSE 1) * value[n] \in Int
  <2> HIDE DEF n
  <2> QED BY <1>11
<1> QED BY <1>1, <1>12, Int16Type

(* The comparison is an order of lines, numbers too far apart excepted.    *)
FarIn(o, L) == "N" \in o /\ \E s, t \in L : ATOI(s) - ATOI(t) # Int16(ATOI(s) - ATOI(t))
IsOrder(o, keys, L) ==
  /\ \A s, t \in L : Compare(o, keys, s, t) \in Int
                     /\ (Compare(o, keys, s, t) < 0 <=> Compare(o, keys, t, s) > 0)
  /\ \A s, t, u \in L : Compare(o, keys, s, t) <= 0 /\ Compare(o, keys, t, u) <= 0
                          => Compare(o, keys, s, u) <= 0

LEMMA NumbersAreOrdered ==
  ASSUME NEW o, NEW keys, NEW L \in SUBSET Texts, ~FarIn(o, L), "N" \in o
  PROVE  IsOrder(o, keys, L)
<1>1. \A s \in L : ATOI(s) \in Int
  BY AtoiType
<1>2. ASSUME NEW s \in L, NEW t \in L
      PROVE  Compare(o, keys, s, t) = IF "R" \in o THEN ATOI(t) - ATOI(s) ELSE ATOI(s) - ATOI(t)
  <2>1. Plain(o, keys, s, t) = ATOI(s) - ATOI(t)
    BY DEF Plain, FarIn
  <2>2. -(ATOI(s) - ATOI(t)) = ATOI(t) - ATOI(s)
    BY <1>1
  <2>3. Int16(ATOI(t) - ATOI(s)) = ATOI(t) - ATOI(s)
    BY DEF FarIn
  <2> QED BY <2>1, <2>2, <2>3 DEF Compare
<1>3. CASE "R" \in o
  <2>1. \A s, t \in L : Compare(o, keys, s, t) = ATOI(t) - ATOI(s)
    BY <1>2, <1>3
  <2> QED BY <1>1, <2>1 DEF IsOrder
<1>4. CASE "R" \notin o
  <2>1. \A s, t \in L : Compare(o, keys, s, t) = ATOI(s) - ATOI(t)
    BY <1>2, <1>4
  <2> QED BY <1>1, <2>1 DEF IsOrder
<1> QED BY <1>3, <1>4

LEMMA LettersAreOrdered ==
  ASSUME NEW o, NEW keys, NEW L \in SUBSET Texts, "N" \notin o
  PROVE  IsOrder(o, keys, L)
<1> DEFINE Sp(s) == IF "K" \in o THEN KeySpelling(o, keys, s) ELSE WholeSpelling(o, s)
           P(s, t) == Plain(o, keys, s, t)
           C(s, t) == Compare(o, keys, s, t)
<1>1. ASSUME NEW s \in L, NEW t \in L PROVE Says(P(s, t), Sp(s), Sp(t))
  <2>1. CASE "K" \in o
    BY <2>1, KeysSay DEF Plain
  <2>2. CASE "K" \notin o
    BY <2>2, WholeSays DEF Plain
  <2> QED BY <2>1, <2>2
<1>2. ASSUME NEW s \in L PROVE Sp(s) \in [Spots -> Int]
  <2>1. Sp(s) \in [Spots -> 0..127]
    BY SpellingTypes
  <2>2. 0..127 \subseteq Int
    OBVIOUS
  <2> HIDE DEF Sp
  <2> QED BY <2>1, <2>2
<1>3. ASSUME NEW s \in L, NEW t \in L
      PROVE  P(s, t) \in Int /\ C(s, t) = IF "R" \in o THEN -P(s, t) ELSE P(s, t)
  <2>1. P(s, t) \in -127..127
    BY <1>1 DEF Says
  <2> HIDE DEF P
  <2>2. P(s, t) \in Int /\ -P(s, t) \in Int /\ -P(s, t) \in -127..127
    BY <2>1
  <2>3. Int16(-P(s, t)) = -P(s, t)
    BY <2>2, Int16Type
  <2>4. C(s, t) = IF "R" \in o THEN Int16(-P(s, t)) ELSE P(s, t)
    BY DEF Compare, P
  <2> HIDE DEF C
  <2> QED BY <2>2, <2>3, <2>4
<1> HIDE DEF Sp, P, C
<1>4. ASSUME NEW s \in L, NEW t \in L PROVE P(s, t) < 0 <=> P(t, s) > 0
  <2>1. P(s, t) \in Int /\ P(t, s) \in Int
    BY <1>3
  <2>2. P(s, t) < 0 <=> Below(Sp(s), Sp(t))
    BY <1>1 DEF Says
  <2>3. (P(t, s) < 0 <=> Below(Sp(t), Sp(s))) /\ (P(t, s) = 0 <=> Sp(t) = Sp(s))
    BY <1>1 DEF Says
  <2>4. Sp(t) = Sp(s) \/ Below(Sp(t), Sp(s)) <=> ~Below(Sp(s), Sp(t))
    BY <1>2, BelowIsAnOrder
  <2> QED BY <2>1, <2>2, <2>3, <2>4
<1>5. ASSUME NEW s \in L, NEW t \in L, NEW u \in L, P(s, t) <= 0, P(t, u) <= 0 PROVE P(s, u) <= 0
  <2>1. P(s, t) \in Int /\ P(t, u) \in Int /\ P(s, u) \in Int
    BY <1>3
  <2>2. (P(s, t) < 0 <=> Below(Sp(s), Sp(t))) /\ (P(s, t) = 0 <=> Sp(s) = Sp(t))
    BY <1>1 DEF Says
  <2>3. (P(t, u) < 0 <=> Below(Sp(t), Sp(u))) /\ (P(t, u) = 0 <=> Sp(t) = Sp(u))
    BY <1>1 DEF Says
  <2>4. (P(s, u) < 0 <=> Below(Sp(s), Sp(u))) /\ (P(s, u) = 0 <=> Sp(s) = Sp(u))
    BY <1>1 DEF Says
  <2>5. Below(Sp(s), Sp(t)) \/ Sp(s) = Sp(t)
    BY <1>5, <2>1, <2>2
  <2>6. Below(Sp(t), Sp(u)) \/ Sp(t) = Sp(u)
    BY <1>5, <2>1, <2>3
  <2>7. Below(Sp(s), Sp(u)) \/ Sp(s) = Sp(u)
    <3>1. Below(Sp(s), Sp(t)) /\ Below(Sp(t), Sp(u)) => Below(Sp(s), Sp(u))
      BY <1>2, BelowIsAnOrder
    <3> QED BY <2>5, <2>6, <3>1
  <2> QED BY <2>1, <2>4, <2>7
<1>6. ASSUME NEW s \in L, NEW t \in L PROVE C(s, t) \in Int /\ (C(s, t) < 0 <=> C(t, s) > 0)
  <2>1. P(s, t) \in Int /\ P(t, s) \in Int
    BY <1>3
  <2>2. (P(s, t) < 0 <=> P(t, s) > 0) /\ (P(t, s) < 0 <=> P(s, t) > 0)
    BY <1>4
  <2>3. C(s, t) = IF "R" \in o THEN -P(s, t) ELSE P(s, t)
    BY <1>3
  <2>4. C(t, s) = IF "R" \in o THEN -P(t, s) ELSE P(t, s)
    BY <1>3
  <2>5. CASE "R" \in o
    BY <2>1, <2>2, <2>3, <2>4, <2>5
  <2>6. CASE "R" \notin o
    BY <2>1, <2>2, <2>3, <2>4, <2>6
  <2> QED BY <2>5, <2>6
<1>7. ASSUME NEW s \in L, NEW t \in L, NEW u \in L, C(s, t) <= 0, C(t, u) <= 0 PROVE C(s, u) <= 0
  <2>1. P(s, t) \in Int /\ P(t, u) \in Int /\ P(s, u) \in Int
        /\ P(t, s) \in Int /\ P(u, t) \in Int /\ P(u, s) \in Int
    BY <1>3
  <2>2. CASE "R" \notin o
    <3>1. C(s, t) = P(s, t) /\ C(t, u) = P(t, u) /\ C(s, u) = P(s, u)
      BY <1>3, <2>2
    <3> QED BY <1>5, <1>7, <3>1
  <2>3. CASE "R" \in o
    <3>1. C(s, t) = -P(s, t) /\ C(t, u) = -P(t, u) /\ C(s, u) = -P(s, u)
      BY <1>3, <2>3
    <3>2. P(u, t) <= 0 /\ P(t, s) <= 0
      <4>1. (P(t, s) > 0 <=> P(s, t) < 0) /\ (P(u, t) > 0 <=> P(t, u) < 0)
        BY <1>4
      <4> QED BY <1>7, <2>1, <3>1, <4>1
    <3>3. P(u, s) <= 0
      BY <1>5, <3>2
    <3>4. P(s, u) < 0 <=> P(u, s) > 0
      BY <1>4
    <3> QED BY <2>1, <3>1, <3>3, <3>4
  <2> QED BY <2>2, <2>3
<1> QED BY <1>6, <1>7 DEF IsOrder, C

LEMMA LinesAreOrdered ==
  ASSUME NEW o, NEW keys, NEW L \in SUBSET Texts, ~FarIn(o, L)
  PROVE  IsOrder(o, keys, L)
BY NumbersAreOrdered, LettersAreOrdered

LEMMA OrderFacts ==
  ASSUME NEW o, NEW keys, NEW L, IsOrder(o, keys, L), NEW x \in L, NEW y \in L, NEW z \in L
  PROVE  /\ Compare(o, keys, x, x) = 0
         /\ Compare(o, keys, x, y) \in Int
         /\ Compare(o, keys, x, y) > 0 => Compare(o, keys, y, x) < 0
         /\ Compare(o, keys, x, y) < 0 => Compare(o, keys, y, x) > 0
         /\ Compare(o, keys, x, y) = 0 => Compare(o, keys, y, x) = 0
         /\ Compare(o, keys, x, y) = 0 /\ Compare(o, keys, y, z) = 0 => Compare(o, keys, x, z) = 0
         /\ Compare(o, keys, x, y) <= 0 /\ Compare(o, keys, y, z) <= 0 => Compare(o, keys, x, z) <= 0
         /\ Compare(o, keys, x, y) <= 0 /\ Compare(o, keys, y, z) < 0 => Compare(o, keys, x, z) < 0
<1> DEFINE C(s, t) == Compare(o, keys, s, t)
<1>1. /\ \A s, t \in L : C(s, t) \in Int /\ (C(s, t) < 0 <=> C(t, s) > 0)
      /\ \A s, t, u \in L : C(s, t) <= 0 /\ C(t, u) <= 0 => C(s, u) <= 0
  BY DEF IsOrder
<1> HIDE DEF C
<1>2. C(x, x) = 0
  <2>1. C(x, x) \in Int /\ (C(x, x) < 0 <=> C(x, x) > 0)
    BY <1>1
  <2> QED BY <2>1
<1>3. \A s, t \in L : /\ C(s, t) > 0 => C(t, s) < 0
                      /\ C(s, t) < 0 => C(t, s) > 0
                      /\ C(s, t) = 0 => C(t, s) = 0
  <2> TAKE s \in L, t \in L
  <2>1. C(s, t) \in Int /\ C(t, s) \in Int /\ (C(s, t) < 0 <=> C(t, s) > 0) /\ (C(t, s) < 0 <=> C(s, t) > 0)
    BY <1>1
  <2> QED BY <2>1
<1>4. ASSUME C(x, y) = 0, C(y, z) = 0 PROVE C(x, z) = 0
  <2>1. C(y, x) = 0 /\ C(z, y) = 0
    BY <1>3, <1>4
  <2>2. C(x, z) <= 0
    BY <1>1, <1>4
  <2>3. C(z, x) <= 0
    BY <1>1, <2>1
  <2>4. C(x, z) \in Int /\ (C(x, z) < 0 => C(z, x) > 0) /\ C(z, x) \in Int
    BY <1>1, <1>3
  <2> QED BY <2>2, <2>3, <2>4
<1>5. ASSUME C(x, y) <= 0, C(y, z) < 0 PROVE C(x, z) < 0
  <2>1. C(y, z) \in Int /\ C(x, z) \in Int /\ C(z, x) \in Int /\ C(z, y) \in Int
    BY <1>1
  <2>2. C(x, z) <= 0
    BY <1>1, <1>5, <2>1
  <2>3. C(z, y) > 0
    BY <1>3, <1>5
  <2>4. C(x, z) = 0 => C(z, x) = 0
    BY <1>3
  <2>5. C(x, z) = 0 => C(z, y) <= 0
    BY <1>1, <1>5, <2>4
  <2> QED BY <2>1, <2>2, <2>3, <2>5
<1>6. C(x, y) \in Int
  BY <1>1
<1>7. C(x, y) <= 0 /\ C(y, z) <= 0 => C(x, z) <= 0
  BY <1>1
<1> QED BY <1>2, <1>3, <1>4, <1>5, <1>6, <1>7 DEF C

(* The same lines in another order.                                        *)
LinesOf(v) == {v[i] : i \in DOMAIN v}
SameLines(v, r) ==
  /\ v \in Seq(Texts) /\ Len(v) = Len(r) /\ LinesOf(v) = LinesOf(r)
  /\ \A x \in LinesOf(r) : Times(v, x) = Times(r, x)

LEMMA SwapIs ==
  ASSUME NEW S, NEW v \in Seq(S), NEW a \in 1..Len(v), NEW b \in 1..Len(v), a # b
  PROVE  /\ swap(v, a, b) \in Seq(S) /\ Len(swap(v, a, b)) = Len(v)
         /\ swap(v, a, b)[a] = v[b] /\ swap(v, a, b)[b] = v[a]
         /\ \A i \in 1..Len(v) : i # a /\ i # b => swap(v, a, b)[i] = v[i]
BY DEF swap

LEMMA SwapKeepsLines ==
  ASSUME NEW v \in Seq(Texts), NEW a \in 1..Len(v), NEW b \in 1..Len(v), a # b
  PROVE  LinesOf(swap(v, a, b)) = LinesOf(v)
<1> DEFINE w == swap(v, a, b)
<1>1. w \in Seq(Texts) /\ Len(w) = Len(v) /\ w[a] = v[b] /\ w[b] = v[a]
      /\ \A i \in 1..Len(v) : i # a /\ i # b => w[i] = v[i]
  BY SwapIs
<1> HIDE DEF w
<1>2. DOMAIN w = 1..Len(v) /\ DOMAIN v = 1..Len(v)
  BY <1>1
<1> QED BY <1>1, <1>2 DEF LinesOf, w

LEMMA SwapKeepsTimes ==
  ASSUME NEW v \in Seq(Texts), NEW a \in 1..Len(v), NEW b \in 1..Len(v), a # b, NEW x
  PROVE  Times(swap(v, a, b), x) = Times(v, x)
<1> DEFINE w == swap(v, a, b)
           A == {i \in 1..Len(v) : v[i] = x}
           B == {i \in 1..Len(v) : w[i] = x}
<1>1. w \in Seq(Texts) /\ Len(w) = Len(v) /\ w[a] = v[b] /\ w[b] = v[a]
      /\ \A i \in 1..Len(v) : i # a /\ i # b => w[i] = v[i]
  BY SwapIs
<1> HIDE DEF w
<1>2. DOMAIN w = 1..Len(v) /\ DOMAIN v = 1..Len(v) /\ Len(v) \in Nat
  BY <1>1
<1>3. Times(v, x) = Cardinality(A) /\ Times(w, x) = Cardinality(B)
  BY <1>2 DEF Times
<1>4. IsFiniteSet(1..Len(v))
  BY <1>2, FS_Interval
<1>5. IsFiniteSet(A) /\ IsFiniteSet(B)
  BY <1>4, FS_Subset
<1>6. CASE v[a] = x /\ v[b] # x
  <2>1. B = (A \ {a}) \cup {b} /\ a \in A /\ b \notin A \ {a}
    BY <1>1, <1>6
  <2> HIDE DEF A, B
  <2>2. Cardinality(A \ {a}) = Cardinality(A) - 1 /\ IsFiniteSet(A \ {a}) /\ Cardinality(A) \in Nat
    BY <1>5, <2>1, FS_RemoveElement, FS_CardinalityType
  <2>3. Cardinality(B) = Cardinality(A \ {a}) + 1
    BY <2>1, <2>2, FS_AddElement
  <2> QED BY <1>3, <2>2, <2>3 DEF w
<1>7. CASE v[a] # x /\ v[b] = x
  <2>1. B = (A \ {b}) \cup {a} /\ b \in A /\ a \notin A \ {b}
    BY <1>1, <1>7
  <2> HIDE DEF A, B
  <2>2. Cardinality(A \ {b}) = Cardinality(A) - 1 /\ IsFiniteSet(A \ {b}) /\ Cardinality(A) \in Nat
    BY <1>5, <2>1, FS_RemoveElement, FS_CardinalityType
  <2>3. Cardinality(B) = Cardinality(A \ {b}) + 1
    BY <2>1, <2>2, FS_AddElement
  <2> QED BY <1>3, <2>2, <2>3 DEF w
<1>8. CASE v[a] = x <=> v[b] = x
  <2>1. A = B
    BY <1>1, <1>8
  <2> QED BY <1>3, <2>1 DEF w
<1> QED BY <1>6, <1>7, <1>8

LEMMA SwapSame ==
  ASSUME NEW v, NEW r, SameLines(v, r), NEW a \in 1..Len(v), NEW b \in 1..Len(v), a # b
  PROVE  SameLines(swap(v, a, b), r)
<1>1. v \in Seq(Texts)
  BY DEF SameLines
<1>2. swap(v, a, b) \in Seq(Texts) /\ Len(swap(v, a, b)) = Len(v)
  BY <1>1, SwapIs
<1>3. LinesOf(swap(v, a, b)) = LinesOf(v)
  BY <1>1, SwapKeepsLines
<1>4. \A x : Times(swap(v, a, b), x) = Times(v, x)
  BY <1>1, SwapKeepsTimes
<1> QED BY <1>2, <1>3, <1>4 DEF SameLines

(* In order up to place n but for place b, whose line is no later than     *)
(* those behind it.                                                        *)
InOrder(u, v, n) == \A p, q \in 1..n : p < q => Compare(u.opt, u.keys, v[p], v[q]) <= 0
Inserting(u, v, n, b) ==
  \A p, q \in 1..n : p < q /\ q # b => Compare(u.opt, u.keys, v[p], v[q]) <= 0

Far(u) == FarIn(u.opt, LinesOf(u.read))
Shape(u) ==
  u = [phase |-> u.phase, opt |-> u.opt, keys |-> u.keys, in |-> u.in, read |-> u.read, v |-> u.v,
       gap |-> u.gap, i |-> u.i, j |-> u.j, out |-> u.out]
Sorting(u) ==
  /\ u.gap \in Nat /\ u.gap >= 1 /\ u.i \in Nat /\ u.gap <= u.i /\ u.i < Len(u.v)
  /\ u.j \in Nat /\ u.j + u.gap <= u.i
  /\ u.gap = 1 /\ ~Far(u) => Inserting(u, u.v, u.i + 1, u.j + 2)
Written(u) ==
  ~Far(u) =>
    /\ \A p \in 1..Len(u.out) - 1 : Compare(u.opt, u.keys, u.out[p], u.out[p + 1]) <= 0
    /\ "U" \notin u.opt => Same(u.out, u.read)
    /\ "U" \in u.opt =>
         /\ \A p \in DOMAIN u.read : \E k \in DOMAIN u.out : Compare(u.opt, u.keys, u.read[p], u.out[k]) = 0
         /\ \A p, k \in DOMAIN u.out : p # k => Compare(u.opt, u.keys, u.out[p], u.out[k]) # 0
SortInv(u) ==
  /\ Shape(u)
  /\ u.in \in Seq(Texts) /\ u.read \in Seq(Texts)
  /\ u.phase \in {"sort", "output"} => u.read # <<>> /\ SameLines(u.v, u.read)
  /\ u.phase = "sort" => Sorting(u)
  /\ u.phase = "output" => (~Far(u) => InOrder(u, u.v, Len(u.v)))
  /\ u.phase = "done" => Written(u)

\* What the program changes in a step, and what it leaves.
Regap(u, p, n, g, i, j) == [u EXCEPT !.phase = p, !.v = n, !.gap = g, !.i = i, !.j = j]
Move(u, n, i, j) == [u EXCEPT !.v = n, !.i = i, !.j = j]
SameTask(w, u) == w.in = u.in /\ w.read = u.read /\ w.opt = u.opt /\ w.keys = u.keys /\ w.out = u.out

LEMMA RegapIs ==
  ASSUME NEW u, Shape(u), NEW p, NEW n, NEW g, NEW i, NEW j, NEW w, w = Regap(u, p, n, g, i, j)
  PROVE  Shape(w) /\ SameTask(w, u) /\ w.phase = p /\ w.v = n /\ w.gap = g /\ w.i = i /\ w.j = j
<1>1. Shape(w)
  BY Zenon DEF Shape, Regap
<1>2. SameTask(w, u) /\ w.phase = p /\ w.v = n /\ w.gap = g /\ w.i = i /\ w.j = j
  BY Zenon DEF Shape, Regap, SameTask
<1> QED BY <1>1, <1>2

LEMMA MoveIs ==
  ASSUME NEW u, Shape(u), NEW n, NEW i, NEW j, NEW w, w = Move(u, n, i, j)
  PROVE  Shape(w) /\ SameTask(w, u) /\ w.phase = u.phase /\ w.gap = u.gap /\ w.v = n /\ w.i = i /\ w.j = j
<1>1. Shape(w)
  BY Zenon DEF Shape, Move
<1>2. SameTask(w, u) /\ w.phase = u.phase /\ w.gap = u.gap /\ w.v = n /\ w.i = i /\ w.j = j
  BY Zenon DEF Shape, Move, SameTask
<1> QED BY <1>1, <1>2

LEMMA SeqHas ==
  ASSUME NEW v \in Seq(Texts)
  PROVE  /\ Len(v) \in Nat /\ DOMAIN v = 1..Len(v) /\ LinesOf(v) \subseteq Texts
         /\ \A i \in 1..Len(v) : v[i] \in LinesOf(v)
BY DEF LinesOf

\* The next gap, or the output after the last.
LEMMA GapIs ==
  ASSUME Shape(sort), sort.in \in Seq(Texts), sort.read \in Seq(Texts), sort.read # <<>>,
         NEW n, SameLines(n, sort.read), NEW g \in Nat, g < Len(n),
         g = 0 /\ ~Far(sort) => InOrder(sort, n, Len(n))
  PROVE  SortInv(Gap(n, g))
<1>1. Len(n) \in Nat
  BY DEF SameLines
<1>2. CASE g = 0
  <2> DEFINE w == Regap(sort, "output", n, 0, 0, 0)
  <2>1. Gap(n, g) = w
    BY <1>2 DEF Gap, Regap
  <2> HIDE DEF w
  <2>0. Shape(w) /\ SameTask(w, sort) /\ w.phase = "output" /\ w.v = n
    BY RegapIs DEF w
  <2>2. w.in = sort.in /\ w.read = sort.read /\ w.opt = sort.opt /\ w.keys = sort.keys
    BY <2>0 DEF SameTask
  <2>3. Far(w) = Far(sort) /\ InOrder(w, n, Len(n)) = InOrder(sort, n, Len(n))
    BY <2>0, <2>2 DEF Far, InOrder
  <2> QED BY <1>2, <2>1, <2>0, <2>2, <2>3 DEF SortInv
<1>3. CASE g # 0
  <2> DEFINE w == Regap(sort, "sort", n, g, g, 0)
  <2>1. Gap(n, g) = w
    BY <1>3 DEF Gap, Regap
  <2> HIDE DEF w
  <2>0. Shape(w) /\ SameTask(w, sort) /\ w.phase = "sort" /\ w.v = n /\ w.gap = g /\ w.i = g /\ w.j = 0
    BY RegapIs DEF w
  <2>2. w.in = sort.in /\ w.read = sort.read /\ w.opt = sort.opt /\ w.keys = sort.keys
    BY <2>0 DEF SameTask
  <2>3. g = 1 => Inserting(w, n, 1 + 1, 0 + 2)
    BY DEF Inserting
  <2>4. Sorting(w)
    BY <1>1, <1>3, <2>0, <2>2, <2>3 DEF Sorting
  <2> QED BY <1>3, <2>1, <2>0, <2>2, <2>4 DEF SortInv
<1> QED BY <1>2, <1>3

\* The next line of a gap, when those so far are in order.
LEMMA NextLineIs ==
  ASSUME SortInv(sort), sort.phase = "sort", NEW n, SameLines(n, sort.read),
         sort.gap = 1 /\ ~Far(sort) => InOrder(sort, n, sort.i + 1)
  PROVE  SortInv(NextLine(n))
<1>1. Shape(sort) /\ sort.in \in Seq(Texts) /\ sort.read \in Seq(Texts) /\ sort.read # <<>>
      /\ SameLines(sort.v, sort.read) /\ Sorting(sort)
  BY DEF SortInv
<1>2. Len(n) \in Nat /\ Len(sort.v) = Len(n)
  BY <1>1 DEF SameLines
<1>3. sort.gap \in Nat /\ sort.gap >= 1 /\ sort.i \in Nat /\ sort.gap <= sort.i /\ sort.i < Len(n)
  BY <1>1, <1>2 DEF Sorting
<1>4. CASE sort.i + 1 < Len(n)
  <2> DEFINE w == Move(sort, n, sort.i + 1, (sort.i + 1) - sort.gap)
  <2>1. NextLine(n) = w
    BY <1>4 DEF NextLine, Move
  <2> HIDE DEF w
  <2>0. Shape(w) /\ SameTask(w, sort) /\ w.phase = "sort" /\ w.gap = sort.gap /\ w.v = n
        /\ w.i = sort.i + 1 /\ w.j = (sort.i + 1) - sort.gap
    BY <1>1, MoveIs DEF w
  <2>2. w.in = sort.in /\ w.read = sort.read /\ w.opt = sort.opt /\ w.keys = sort.keys
    BY <2>0 DEF SameTask
  <2>3. Far(w) = Far(sort)
    BY <2>0, <2>2 DEF Far
  <2>4. ASSUME sort.gap = 1, ~Far(sort) PROVE Inserting(w, n, w.i + 1, w.j + 2)
    <3>1. w.j + 2 = sort.i + 2 /\ w.i + 1 = sort.i + 2
      BY <1>3, <2>0, <2>2, <2>4
    <3>2. InOrder(w, n, sort.i + 1)
      BY <2>0, <2>2, <2>4 DEF InOrder
    <3>3. ASSUME NEW p \in 1..sort.i + 2, NEW q \in 1..sort.i + 2, p < q, q # sort.i + 2
          PROVE  p \in 1..sort.i + 1 /\ q \in 1..sort.i + 1
      BY <1>3, <3>3
    <3> QED BY <3>1, <3>2, <3>3 DEF Inserting, InOrder
  <2>5. w.j \in Nat /\ w.j + w.gap <= w.i /\ w.gap <= w.i /\ w.i \in Nat /\ w.i < Len(w.v)
    BY <1>3, <1>4, <2>0, <2>2
  <2>6. Sorting(w)
    BY <1>3, <2>0, <2>2, <2>3, <2>4, <2>5 DEF Sorting
  <2> QED BY <1>1, <2>1, <2>0, <2>2, <2>6 DEF SortInv
<1>5. CASE ~(sort.i + 1 < Len(n))
  <2>1. NextLine(n) = Gap(n, Half(sort.gap))
    BY <1>5 DEF NextLine
  <2>2. Half(sort.gap) \in Nat /\ Half(sort.gap) < Len(n) /\ (Half(sort.gap) = 0 => sort.gap = 1)
    BY <1>2, <1>3 DEF Half
  <2>3. sort.i + 1 = Len(n)
    BY <1>2, <1>3, <1>5
  <2> QED BY <1>1, <2>1, <2>2, <2>3, GapIs
<1> QED BY <1>4, <1>5

LEMMA SwapInserts ==
  ASSUME NEW u, NEW L, IsOrder(u.opt, u.keys, L), NEW v \in Seq(Texts), LinesOf(v) = L,
         NEW n \in Nat, n <= Len(v), NEW a \in Nat, 1 <= a, a + 1 <= n,
         Inserting(u, v, n, a + 1), Compare(u.opt, u.keys, v[a], v[a + 1]) > 0
  PROVE  Inserting(u, swap(v, a, a + 1), n, a)
<1> DEFINE b == a + 1
           s == swap(v, a, b)
           C(x, y) == Compare(u.opt, u.keys, x, y)
<1>1. Len(v) \in Nat /\ a \in 1..Len(v) /\ b \in 1..Len(v) /\ a # b
  OBVIOUS
<1>2. s[a] = v[b] /\ s[b] = v[a] /\ \A i \in 1..Len(v) : i # a /\ i # b => s[i] = v[i]
  BY <1>1, SwapIs
<1>3. \A i \in 1..n : i \in 1..Len(v) /\ v[i] \in L
  BY <1>1, SeqHas
<1>4. \A p, q \in 1..n : p < q /\ q # b => C(v[p], v[q]) <= 0
  BY DEF Inserting
<1>5. C(v[b], v[a]) <= 0
  <2>1. v[a] \in L /\ v[b] \in L
    BY <1>1, SeqHas
  <2>2. C(v[b], v[a]) < 0 /\ C(v[b], v[a]) \in Int
    BY <2>1, OrderFacts
  <2> HIDE DEF C
  <2> QED BY <2>2
<1> HIDE DEF C, s
<1>6. ASSUME NEW p \in 1..n, NEW q \in 1..n, p < q, q # a PROVE C(s[p], s[q]) <= 0
  <2>1. CASE q = b /\ p = a
    BY <1>2, <1>5, <2>1
  <2>2. CASE q = b /\ p # a
    <3>1. s[p] = v[p] /\ s[q] = v[a] /\ p < a /\ a \in 1..n
      BY <1>2, <1>3, <1>6, <2>2
    <3> QED BY <1>4, <3>1
  <2>3. CASE q # b /\ p = a
    <3>1. s[p] = v[b] /\ s[q] = v[q] /\ b < q /\ b \in 1..n
      BY <1>2, <1>3, <1>6, <2>3
    <3> QED BY <1>4, <2>3, <3>1
  <2>4. CASE q # b /\ p = b
    <3>1. s[p] = v[a] /\ s[q] = v[q] /\ a < q /\ a \in 1..n
      BY <1>2, <1>3, <1>6, <2>4
    <3> QED BY <1>4, <2>4, <3>1
  <2>5. CASE q # b /\ p # a /\ p # b
    <3>1. s[p] = v[p] /\ s[q] = v[q]
      BY <1>2, <1>3, <1>6, <2>5
    <3> QED BY <1>4, <1>6, <2>5, <3>1
  <2> QED BY <2>1, <2>2, <2>3, <2>4, <2>5
<1> QED BY <1>6 DEF Inserting, C, s

LEMMA InsertsHere ==
  ASSUME NEW u, NEW L, IsOrder(u.opt, u.keys, L), NEW v \in Seq(Texts), LinesOf(v) = L,
         NEW n \in Nat, n <= Len(v), NEW a \in Nat, 1 <= a, a + 1 <= n,
         Inserting(u, v, n, a + 1), Compare(u.opt, u.keys, v[a], v[a + 1]) <= 0
  PROVE  InOrder(u, v, n)
<1> DEFINE C(x, y) == Compare(u.opt, u.keys, x, y)
<1>1. \A i \in 1..n : v[i] \in L
  BY SeqHas
<1>2. \A p, q \in 1..n : p < q /\ q # a + 1 => C(v[p], v[q]) <= 0
  BY DEF Inserting
<1>3. ASSUME NEW p \in 1..n, p < a + 1 PROVE C(v[p], v[a + 1]) <= 0
  <2>1. CASE p = a
    BY <2>1
  <2>2. CASE p # a
    <3>1. p < a /\ a \in 1..n /\ a + 1 \in 1..n /\ a # a + 1
      BY <1>3, <2>2
    <3>2. C(v[p], v[a]) <= 0
      BY <1>2, <3>1
    <3>3. v[p] \in L /\ v[a] \in L /\ v[a + 1] \in L
      BY <1>1, <3>1
    <3> QED BY <3>2, <3>3, OrderFacts
  <2> QED BY <2>1, <2>2
<1> QED BY <1>2, <1>3 DEF InOrder

\* The lines that are read, and the order they are put in.
LEMMA TaskHas ==
  ASSUME SortInv(sort), sort.phase \in {"sort", "output"}
  PROVE  /\ sort.v \in Seq(Texts) /\ Len(sort.v) \in Nat /\ LinesOf(sort.v) = LinesOf(sort.read)
         /\ Len(sort.v) = Len(sort.read) /\ Len(sort.v) >= 1 /\ SameLines(sort.v, sort.read)
         /\ ~Far(sort) => IsOrder(sort.opt, sort.keys, LinesOf(sort.read))
<1>1. sort.read \in Seq(Texts) /\ sort.read # <<>> /\ SameLines(sort.v, sort.read)
  BY DEF SortInv
<1>2. Len(sort.read) \in Nat /\ Len(sort.read) >= 1
  BY <1>1
<1>3. LinesOf(sort.read) \in SUBSET Texts
  BY <1>1, SeqHas
<1>4. ~Far(sort) => IsOrder(sort.opt, sort.keys, LinesOf(sort.read))
  BY <1>3, LinesAreOrdered DEF Far
<1> QED BY <1>1, <1>2, <1>4 DEF SameLines

Back(u, n, j) == [u EXCEPT !.v = n, !.j = j]
LEMMA BackIs ==
  ASSUME NEW u, Shape(u), NEW n, NEW j, NEW w, w = Back(u, n, j)
  PROVE  Shape(w) /\ SameTask(w, u) /\ w.phase = u.phase /\ w.gap = u.gap /\ w.i = u.i /\ w.v = n /\ w.j = j
<1>1. Shape(w)
  BY Zenon DEF Shape, Back
<1>2. SameTask(w, u) /\ w.phase = u.phase /\ w.gap = u.gap /\ w.i = u.i /\ w.v = n /\ w.j = j
  BY Zenon DEF Shape, Back, SameTask
<1> QED BY <1>1, <1>2

LEMMA SiftStep ==
  ASSUME SortInv(sort), Sift
  PROVE  SortInv(sort')
<1> DEFINE v == sort.v
           a == sort.j + 1
           b == sort.j + sort.gap + 1
           s == swap(v, a, b)
           L == LinesOf(sort.read)
<1>1. /\ sort.phase = "sort"
      /\ sort' = IF sort.i >= Len(v) THEN Gap(v, Half(sort.gap))
                 ELSE IF scmp(v[a], v[b]) <= 0 THEN NextLine(v)
                 ELSE IF sort.j - sort.gap >= 0 THEN Back(sort, s, sort.j - sort.gap)
                 ELSE NextLine(s)
  BY DEF Sift, Back
<1>2. /\ v \in Seq(Texts) /\ Len(v) \in Nat /\ LinesOf(v) = L /\ SameLines(v, sort.read)
      /\ ~Far(sort) => IsOrder(sort.opt, sort.keys, L)
  BY <1>1, TaskHas
<1>3. /\ Shape(sort) /\ sort.in \in Seq(Texts) /\ sort.read \in Seq(Texts) /\ sort.read # <<>>
      /\ Sorting(sort)
  BY <1>1 DEF SortInv
<1>4. /\ sort.gap \in Nat /\ sort.gap >= 1 /\ sort.i \in Nat /\ sort.i < Len(v)
      /\ sort.j \in Nat /\ sort.j + sort.gap <= sort.i
      /\ sort.gap = 1 /\ ~Far(sort) => Inserting(sort, v, sort.i + 1, sort.j + 2)
  BY <1>3 DEF Sorting
<1>5. /\ a \in 1..Len(v) /\ b \in 1..Len(v) /\ a # b /\ a \in Nat /\ 1 <= a /\ b <= sort.i + 1
      /\ sort.i + 1 \in Nat /\ sort.i + 1 <= Len(v) /\ ~(sort.i >= Len(v))
      /\ sort.gap = 1 => b = a + 1 /\ b = sort.j + 2
  BY <1>2, <1>4, SMTT(40)
<1>6. scmp(v[a], v[b]) = Compare(sort.opt, sort.keys, v[a], v[b])
  BY ComparesSo
<1> HIDE DEF v, a, b, L
<1>7. SameLines(s, sort.read)
  BY <1>2, <1>5, SwapSame
<1>8. CASE scmp(v[a], v[b]) <= 0
  <2>1. sort' = NextLine(v)
    BY <1>1, <1>5, <1>8
  <2>2. ASSUME sort.gap = 1, ~Far(sort) PROVE InOrder(sort, v, sort.i + 1)
    BY <1>2, <1>4, <1>5, <1>6, <1>8, <2>2, InsertsHere
  <2> QED BY <1>1, <1>2, <2>1, <2>2, NextLineIs
<1>9. ASSUME ~(scmp(v[a], v[b]) <= 0), sort.gap = 1, ~Far(sort) PROVE Inserting(sort, s, sort.i + 1, a)
  <2>1. v[a] \in L /\ v[b] \in L
    BY <1>2, <1>5, SeqHas
  <2>2. Compare(sort.opt, sort.keys, v[a], v[b]) \in Int
    BY <1>2, <1>9, <2>1, OrderFacts
  <2>3. Compare(sort.opt, sort.keys, v[a], v[b]) > 0
    BY <1>6, <1>9, <2>2
  <2> QED BY <1>2, <1>4, <1>5, <1>9, <2>3, SwapInserts
<1>10. CASE ~(scmp(v[a], v[b]) <= 0) /\ sort.j - sort.gap >= 0
  <2> DEFINE w == Back(sort, s, sort.j - sort.gap)
  <2>1. sort' = w
    BY <1>1, <1>5, <1>10
  <2> HIDE DEF w, s
  <2>2. Shape(w) /\ SameTask(w, sort) /\ w.phase = "sort" /\ w.gap = sort.gap /\ w.i = sort.i /\ w.v = s
        /\ w.j = sort.j - sort.gap
    BY <1>1, <1>3, BackIs DEF w
  <2>3. w.in = sort.in /\ w.read = sort.read /\ w.opt = sort.opt /\ w.keys = sort.keys
    BY <2>2 DEF SameTask
  <2>4. Len(s) = Len(v)
    BY <1>2, <1>7 DEF SameLines
  <2>5. ASSUME sort.gap = 1, ~Far(sort) PROVE Inserting(w, s, w.i + 1, w.j + 2)
    <3>1. Inserting(sort, s, sort.i + 1, a)
      BY <1>9, <1>10, <2>5
    <3>2. w.j + 2 = a /\ w.i + 1 = sort.i + 1
      BY <1>4, <2>2, <2>5 DEF a
    <3> QED BY <2>3, <3>1, <3>2 DEF Inserting
  <2>6. Far(w) = Far(sort)
    BY <2>3 DEF Far
  <2>7. w.gap \in Nat /\ w.gap >= 1 /\ w.i \in Nat /\ w.gap <= w.i /\ w.i < Len(w.v)
        /\ w.j \in Nat /\ w.j + w.gap <= w.i
    BY <1>4, <1>10, <2>2, <2>4
  <2>8. Sorting(w)
    BY <2>2, <2>5, <2>6, <2>7 DEF Sorting
  <2> QED BY <1>3, <1>7, <2>1, <2>2, <2>3, <2>8 DEF SortInv
<1>11. CASE ~(scmp(v[a], v[b]) <= 0) /\ ~(sort.j - sort.gap >= 0)
  <2>1. sort' = NextLine(s)
    BY <1>1, <1>5, <1>11
  <2> HIDE DEF s
  <2>2. ASSUME sort.gap = 1, ~Far(sort) PROVE InOrder(sort, s, sort.i + 1)
    <3>1. a = 1
      BY <1>4, <1>11, <2>2 DEF a
    <3>2. Inserting(sort, s, sort.i + 1, 1)
      BY <1>9, <1>11, <2>2, <3>1
    <3>3. \A p, q \in 1..sort.i + 1 : p < q => q # 1
      BY <1>4
    <3> QED BY <3>2, <3>3 DEF Inserting, InOrder
  <2> QED BY <1>1, <1>7, <2>1, <2>2, NextLineIs
<1> QED BY <1>8, <1>10, <1>11

(* What is written with U after the first lines: one line of each kind.    *)
OneEach(u, v, i, s) ==
  /\ s \in Seq(Texts) /\ \A k \in 1..Len(s) : s[k] \in LinesOf(v)
  /\ \A p, q \in 1..Len(s) : p < q => Compare(u.opt, u.keys, s[p], s[q]) < 0
  /\ \A p \in 1..i : \E k \in 1..Len(s) : Compare(u.opt, u.keys, v[p], s[k]) = 0
  /\ i = 0 => Len(s) = 0
  /\ i >= 1 => Len(s) >= 1 /\ Compare(u.opt, u.keys, s[Len(s)], v[i]) = 0

LEMMA AppendIs ==
  ASSUME NEW S, NEW s \in Seq(S), NEW x \in S
  PROVE  /\ Append(s, x) \in Seq(S) /\ Len(Append(s, x)) = Len(s) + 1 /\ Append(s, x)[Len(s) + 1] = x
         /\ Len(s) \in Nat
         /\ \A k \in 1..Len(s) : Append(s, x)[k] = s[k]
OBVIOUS

LEMMA OneMore ==
  ASSUME NEW u, NEW v \in Seq(Texts), IsOrder(u.opt, u.keys, LinesOf(v)), NEW i \in Nat, i + 1 <= Len(v),
         NEW s, OneEach(u, v, i, s), InOrder(u, v, Len(v)),
         i = 0 \/ Compare(u.opt, u.keys, v[i + 1], v[i]) # 0
  PROVE  OneEach(u, v, i + 1, Append(s, v[i + 1]))
<1> DEFINE C(x, y) == Compare(u.opt, u.keys, x, y)
           x == v[i + 1]
           n == Len(s)
           t == Append(s, x)
<1>1. Len(v) \in Nat /\ i + 1 \in 1..Len(v) /\ LinesOf(v) \subseteq Texts
      /\ \A k \in 1..Len(v) : v[k] \in LinesOf(v)
  BY SeqHas
<1>2. x \in LinesOf(v) /\ x \in Texts
  BY <1>1
<1>3. s \in Seq(Texts) /\ (\A k \in 1..n : s[k] \in LinesOf(v))
      /\ (\A p, q \in 1..n : p < q => C(s[p], s[q]) < 0)
      /\ (\A p \in 1..i : \E k \in 1..n : C(v[p], s[k]) = 0)
      /\ (i >= 1 => n >= 1 /\ C(s[n], v[i]) = 0) /\ (i = 0 => n = 0)
  BY DEF OneEach
<1> HIDE DEF x
<1>4. t \in Seq(Texts) /\ Len(t) = n + 1 /\ t[n + 1] = x /\ n \in Nat /\ \A k \in 1..n : t[k] = s[k]
  BY <1>2, <1>3, AppendIs
<1>5. C(x, x) = 0
  BY <1>2, OrderFacts
<1>6. ASSUME NEW p \in 1..n PROVE C(s[p], x) < 0
  <2>1. CASE i = 0
    BY <1>3, <2>1
  <2>2. CASE i >= 1
    <3>1. i \in 1..Len(v) /\ v[i] \in LinesOf(v) /\ n \in 1..n /\ i < i + 1
      BY <1>1, <1>3, <1>4, <2>2
    <3>2. C(v[i], x) <= 0
      BY <1>1, <3>1 DEF InOrder, x
    <3>3. C(x, v[i]) # 0
      BY <2>2 DEF x
    <3>4. C(v[i], x) \in Int /\ (C(v[i], x) = 0 => C(x, v[i]) = 0)
      BY <1>2, <3>1, OrderFacts
    <3>5. C(v[i], x) < 0
      BY <3>2, <3>3, <3>4
    <3>6. s[p] \in LinesOf(v) /\ s[n] \in LinesOf(v)
      BY <1>3, <3>1
    <3>7. C(s[p], s[n]) <= 0
      <4>1. CASE p = n
        BY <3>6, <4>1, OrderFacts
      <4>2. CASE p # n
        <5>1. C(s[p], s[n]) < 0 /\ C(s[p], s[n]) \in Int
          BY <1>3, <1>4, <3>1, <3>6, <4>2, OrderFacts
        <5> HIDE DEF C
        <5> QED BY <5>1
      <4> QED BY <4>1, <4>2
    <3>8. C(s[n], v[i]) <= 0
      BY <1>3, <2>2
    <3>9. C(s[p], v[i]) <= 0
      BY <3>1, <3>6, <3>7, <3>8, OrderFacts
    <3> QED BY <1>2, <3>1, <3>5, <3>6, <3>9, OrderFacts
  <2> QED BY <2>1, <2>2
<1> HIDE DEF C, t, n
<1>7. ASSUME NEW p \in 1..n + 1, NEW q \in 1..n + 1, p < q PROVE C(t[p], t[q]) < 0
  <2>1. p \in 1..n /\ t[p] = s[p]
    BY <1>4, <1>7
  <2>2. CASE q = n + 1
    BY <1>4, <1>6, <2>1, <2>2
  <2>3. CASE q \in 1..n
    BY <1>3, <1>4, <1>7, <2>1, <2>3
  <2> QED BY <1>4, <2>2, <2>3
<1>8. ASSUME NEW p \in 1..i + 1 PROVE \E k \in 1..n + 1 : C(v[p], t[k]) = 0
  <2>1. CASE p = i + 1
    <3>1. n + 1 \in 1..n + 1
      BY <1>4
    <3> QED BY <1>4, <1>5, <2>1, <3>1 DEF x
  <2>2. CASE p \in 1..i
    <3>1. PICK k \in 1..n : C(v[p], s[k]) = 0
      BY <1>3, <2>2
    <3>2. k \in 1..n + 1 /\ t[k] = s[k]
      BY <1>4
    <3> QED BY <3>1, <3>2
  <2> QED BY <2>1, <2>2
<1>9. ASSUME NEW k \in 1..n + 1 PROVE t[k] \in LinesOf(v)
  <2>1. CASE k = n + 1
    BY <1>2, <1>4, <2>1
  <2>2. CASE k \in 1..n
    BY <1>3, <1>4, <2>2
  <2> QED BY <1>4, <2>1, <2>2
<1>10. Len(t) = n + 1 /\ n + 1 >= 1 /\ C(t[n + 1], v[i + 1]) = 0 /\ t \in Seq(Texts) /\ i + 1 # 0
  BY <1>4, <1>5 DEF x
<1>11. OneEach(u, v, i + 1, t)
  BY <1>7, <1>8, <1>9, <1>10 DEF OneEach, C
<1> QED BY <1>11 DEF t, x

LEMMA NoMore ==
  ASSUME NEW u, NEW v \in Seq(Texts), IsOrder(u.opt, u.keys, LinesOf(v)), NEW i \in Nat, i + 1 <= Len(v),
         NEW s, OneEach(u, v, i, s), i # 0, Compare(u.opt, u.keys, v[i + 1], v[i]) = 0
  PROVE  OneEach(u, v, i + 1, s)
<1> DEFINE C(x, y) == Compare(u.opt, u.keys, x, y)
           n == Len(s)
<1>1. Len(v) \in Nat /\ i + 1 \in 1..Len(v) /\ i \in 1..Len(v) /\ \A k \in 1..Len(v) : v[k] \in LinesOf(v)
  BY SeqHas
<1>2. s \in Seq(Texts) /\ (\A k \in 1..n : s[k] \in LinesOf(v))
      /\ (\A p \in 1..i : \E k \in 1..n : C(v[p], s[k]) = 0)
      /\ n >= 1 /\ C(s[n], v[i]) = 0 /\ n \in Nat
  <2>1. i >= 1
    OBVIOUS
  <2>2. s \in Seq(Texts) /\ n >= 1 /\ C(s[n], v[i]) = 0
    BY <2>1 DEF OneEach
  <2>3. n \in Nat
    BY <2>2
  <2> QED BY <2>2, <2>3 DEF OneEach
<1>3. n \in 1..n /\ s[n] \in LinesOf(v) /\ v[i] \in LinesOf(v) /\ v[i + 1] \in LinesOf(v)
  BY <1>1, <1>2
<1>4. C(v[i], v[i + 1]) = 0
  BY <1>3, OrderFacts
<1>5. C(s[n], v[i + 1]) = 0
  BY <1>2, <1>3, <1>4, OrderFacts
<1>6. C(v[i + 1], s[n]) = 0
  BY <1>3, <1>5, OrderFacts
<1> HIDE DEF C
<1>7. ASSUME NEW p \in 1..i + 1 PROVE \E k \in 1..n : C(v[p], s[k]) = 0
  <2>1. CASE p = i + 1
    BY <1>3, <1>6, <2>1
  <2>2. CASE p \in 1..i
    BY <1>2, <2>2
  <2> QED BY <2>1, <2>2
<1> QED BY <1>2, <1>5, <1>7 DEF OneEach, C

Listed == IF "U" \in sort.opt
          THEN LET which[i \in 0..Len(sort.v)] ==
                     IF i = 0 THEN <<>> ELSE IF Kept(i) THEN Append(which[i - 1], sort.v[i]) ELSE which[i - 1]
               IN which[Len(sort.v)]
          ELSE sort.v

LEMMA ListedIs ==
  ASSUME SortInv(sort), sort.phase = "output", ~Far(sort), "U" \in sort.opt
  PROVE  OneEach(sort, sort.v, Len(sort.v), Listed)
<1> DEFINE v == sort.v
           n == Len(v)
           L == LinesOf(sort.read)
           Step(i, x) == IF Kept(i) THEN Append(x, v[i]) ELSE x
           Is(f) == f = [i \in 0..n |-> IF i = 0 THEN <<>> ELSE Step(i, f[i - 1])]
           which == CHOOSE f : Is(f)
<1>1. v \in Seq(Texts) /\ n \in Nat /\ n >= 1 /\ LinesOf(v) = L /\ IsOrder(sort.opt, sort.keys, LinesOf(v))
  BY TaskHas
<1>2. InOrder(sort, v, n)
  BY DEF SortInv
<1>3. Listed = which[n]
  BY DEF Listed
<1>4. \A i \in 1..n : v[i] \in Texts
  BY <1>1
<1>5. ASSUME NEW i \in 1..n, NEW x \in Seq(Texts) PROVE Step(i, x) \in Seq(Texts)
  BY <1>4, AppendIs
<1>6. ASSUME NEW i \in Nat, i + 1 <= n, NEW s, OneEach(sort, v, i, s)
      PROVE  OneEach(sort, v, i + 1, Step(i + 1, s))
  <2>1. Kept(i + 1) <=> i = 0 \/ Compare(sort.opt, sort.keys, v[i + 1], v[i]) # 0
    <3>1. scmp(v[i + 1], v[(i + 1) - 1]) = Compare(sort.opt, sort.keys, v[i + 1], v[(i + 1) - 1])
      BY ComparesSo
    <3>2. (i + 1) - 1 = i /\ (i + 1 = 1 <=> i = 0)
      OBVIOUS
    <3> QED BY <3>1, <3>2 DEF Kept
  <2>2. CASE Kept(i + 1)
    BY <1>1, <1>2, <1>6, <2>1, <2>2, OneMore
  <2>3. CASE ~Kept(i + 1)
    BY <1>1, <1>6, <2>1, <2>3, NoMore
  <2> QED BY <2>2, <2>3
<1> HIDE DEF v, n, L, Step
<1>7. \E f : Is(f)
  <2> DEFINE G == [p \in (1..n) \X Seq(Texts) |-> Step(p[1], p[2])]
  <2>1. G \in [(1..n) \X Seq(Texts) -> Seq(Texts)]
    BY <1>5
  <2>2. \A i \in 1..n : \A x \in Seq(Texts) : G[<<i, x>>] = Step(i, x)
    OBVIOUS
  <2> HIDE DEF G
  <2>3. <<>> \in Seq(Texts)
    OBVIOUS
  <2>4. PICK f : Recurs(Seq(Texts), <<>>, n, G, f)
    BY <1>1, <2>1, <2>3, Recursion
  <2>5. ASSUME NEW i \in 0..n PROVE f[i] = IF i = 0 THEN <<>> ELSE Step(i, f[i - 1])
    <3>1. CASE i = 0
      BY <2>4, <3>1 DEF Recurs
    <3>2. CASE i # 0
      <4>1. i \in 1..n /\ i - 1 \in 0..n
        BY <1>1, <3>2
      <4>2. f[i - 1] \in Seq(Texts) /\ f[i] = G[<<i, f[i - 1]>>]
        BY <2>4, <4>1 DEF Recurs
      <4> QED BY <2>2, <3>2, <4>1, <4>2
    <3> QED BY <3>1, <3>2
  <2>6. Is(f)
    BY <2>4, <2>5 DEF Recurs
  <2> QED BY <2>6
<1>8. Is(which)
  BY <1>7
<1> HIDE DEF which
<1>9. which[0] = <<>> /\ \A i \in Nat : i + 1 <= n => which[i + 1] = Step(i + 1, which[i])
  <2>1. ASSUME NEW i \in Nat, i + 1 <= n PROVE which[i + 1] = Step(i + 1, which[i])
    <3>1. i + 1 \in 0..n /\ i + 1 # 0 /\ (i + 1) - 1 = i
      BY <1>1, <2>1
    <3> QED BY <1>8, <3>1
  <2>2. 0 \in 0..n
    BY <1>1
  <2> QED BY <1>8, <2>1, <2>2
<1> DEFINE S == {k \in Nat : k <= n => OneEach(sort, v, k, which[k])}
<1>10. 0 \in S
  <2>1. OneEach(sort, v, 0, <<>>)
    BY DEF OneEach
  <2> QED BY <1>9, <2>1
<1>11. ASSUME NEW k \in Nat, k \in S PROVE k + 1 \in S
  <2> SUFFICES ASSUME k + 1 <= n PROVE OneEach(sort, v, k + 1, which[k + 1])
    OBVIOUS
  <2>1. k <= n
    BY <1>1
  <2>2. OneEach(sort, v, k, which[k])
    BY <1>11, <2>1
  <2> QED BY <1>6, <1>9, <2>2
<1>12. n \in S
  <2> HIDE DEF S
  <2> QED BY <1>1, <1>10, <1>11, Induct
<1>13. n <= n
  BY <1>1
<1> QED BY <1>3, <1>12, <1>13 DEF v, n

Printed(u, out) == [u EXCEPT !.phase = "done", !.out = out]
LEMMA PrintedIs ==
  ASSUME NEW u, Shape(u), NEW out, NEW w, w = Printed(u, out)
  PROVE  /\ Shape(w) /\ w.phase = "done" /\ w.out = out
         /\ w.in = u.in /\ w.read = u.read /\ w.opt = u.opt /\ w.keys = u.keys
<1>1. Shape(w)
  BY Zenon DEF Shape, Printed
<1>2. w.phase = "done" /\ w.out = out /\ w.in = u.in /\ w.read = u.read /\ w.opt = u.opt /\ w.keys = u.keys
  BY Zenon DEF Shape, Printed
<1> QED BY <1>1, <1>2

LEMMA OutputStep ==
  ASSUME SortInv(sort), Output
  PROVE  SortInv(sort')
<1> DEFINE w == Printed(sort, Listed)
           C(x, y) == Compare(sort.opt, sort.keys, x, y)
<1>1. sort.phase = "output" /\ sort' = w
  BY DEF Output, Printed, Listed
<1>2. Shape(sort) /\ sort.in \in Seq(Texts) /\ sort.read \in Seq(Texts)
      /\ (~Far(sort) => InOrder(sort, sort.v, Len(sort.v)))
  BY <1>1 DEF SortInv
<1> HIDE DEF w
<1>3. /\ Shape(w) /\ w.phase = "done" /\ w.out = Listed
      /\ w.in = sort.in /\ w.read = sort.read /\ w.opt = sort.opt /\ w.keys = sort.keys
  BY <1>2, PrintedIs DEF w
<1>4. ASSUME ~Far(sort), "U" \notin sort.opt
      PROVE  (\A p \in 1..Len(Listed) - 1 : C(Listed[p], Listed[p + 1]) <= 0) /\ Same(Listed, sort.read)
  <2>1. Listed = sort.v
    BY <1>4 DEF Listed
  <2>2. SameLines(sort.v, sort.read) /\ Len(sort.v) \in Nat
    BY <1>1, TaskHas
  <2>3. Same(sort.v, sort.read)
    BY <2>2 DEF SameLines, Same, LinesOf
  <2>4. ASSUME NEW p \in 1..Len(sort.v) - 1 PROVE C(sort.v[p], sort.v[p + 1]) <= 0
    <3>1. p \in 1..Len(sort.v) /\ p + 1 \in 1..Len(sort.v) /\ p < p + 1
      BY <2>2
    <3> QED BY <1>2, <1>4, <3>1 DEF InOrder
  <2> QED BY <2>1, <2>3, <2>4
<1>5. ASSUME ~Far(sort), "U" \in sort.opt
      PROVE  /\ \A p \in 1..Len(Listed) - 1 : C(Listed[p], Listed[p + 1]) <= 0
             /\ \A p \in DOMAIN sort.read : \E k \in DOMAIN Listed : C(sort.read[p], Listed[k]) = 0
             /\ \A p, k \in DOMAIN Listed : p # k => C(Listed[p], Listed[k]) # 0
  <2> DEFINE s == Listed
             v == sort.v
             n == Len(s)
  <2>1. OneEach(sort, v, Len(v), s)
    BY <1>1, <1>5, ListedIs
  <2>2. v \in Seq(Texts) /\ Len(v) \in Nat /\ LinesOf(v) = LinesOf(sort.read) /\ Len(v) = Len(sort.read)
        /\ IsOrder(sort.opt, sort.keys, LinesOf(v))
    BY <1>1, <1>5, TaskHas
  <2> HIDE DEF s, v
  <2>3. s \in Seq(Texts) /\ n \in Nat /\ DOMAIN s = 1..n /\ \A k \in 1..n : s[k] \in LinesOf(v)
    BY <2>1 DEF OneEach
  <2>4. \A p, q \in 1..n : p < q => C(s[p], s[q]) < 0
    BY <2>1 DEF OneEach
  <2>5. ASSUME NEW p \in 1..n - 1 PROVE C(s[p], s[p + 1]) <= 0
    <3>1. p \in 1..n /\ p + 1 \in 1..n /\ p < p + 1
      BY <2>3
    <3>2. C(s[p], s[p + 1]) < 0 /\ C(s[p], s[p + 1]) \in Int
      BY <2>2, <2>3, <2>4, <3>1, OrderFacts
    <3> HIDE DEF C
    <3> QED BY <3>2
  <2>6. ASSUME NEW p \in DOMAIN sort.read PROVE \E k \in DOMAIN s : C(sort.read[p], s[k]) = 0
    <3>1. sort.read[p] \in LinesOf(v)
      BY <2>2 DEF LinesOf
    <3>2. PICK q \in 1..Len(v) : v[q] = sort.read[p]
      BY <2>2, <3>1 DEF LinesOf
    <3>3. \E k \in 1..n : C(v[q], s[k]) = 0
      BY <2>1 DEF OneEach
    <3> QED BY <2>3, <3>2, <3>3
  <2>7. ASSUME NEW p \in DOMAIN s, NEW k \in DOMAIN s, p # k PROVE C(s[p], s[k]) # 0
    <3>1. p \in 1..n /\ k \in 1..n /\ p \in Int /\ k \in Int /\ s[p] \in LinesOf(v) /\ s[k] \in LinesOf(v)
      BY <2>3
    <3>2. C(s[p], s[k]) \in Int /\ C(s[k], s[p]) \in Int
          /\ (C(s[p], s[k]) = 0 => C(s[k], s[p]) = 0)
      BY <2>2, <3>1, OrderFacts
    <3>3. p < k \/ k < p
      BY <2>7, <3>1
    <3>4. C(s[p], s[k]) < 0 \/ C(s[k], s[p]) < 0
      BY <2>4, <3>1, <3>3
    <3> HIDE DEF C
    <3> QED BY <3>2, <3>4
  <2> QED BY <2>5, <2>6, <2>7 DEF s
<1> HIDE DEF C
<1>6. Far(w) = Far(sort)
  BY <1>3 DEF Far
<1>7. Written(w)
  <2> SUFFICES ASSUME ~Far(sort)
               PROVE  /\ \A p \in 1..Len(Listed) - 1 : C(Listed[p], Listed[p + 1]) <= 0
                      /\ "U" \notin sort.opt => Same(Listed, sort.read)
                      /\ "U" \in sort.opt =>
                           /\ \A p \in DOMAIN sort.read : \E k \in DOMAIN Listed : C(sort.read[p], Listed[k]) = 0
                           /\ \A p, k \in DOMAIN Listed : p # k => C(Listed[p], Listed[k]) # 0
    BY <1>3, <1>6 DEF Written, C
  <2> QED BY <1>4, <1>5
<1> QED BY <1>1, <1>2, <1>3, <1>7 DEF SortInv

LEMMA HeldIs ==
  ASSUME NEW line \in Texts
  PROVE  Held(line) \in Texts
<1>1. \A k \in 1..Len(line) - 1 : line[k] \in Chars
  BY DEF Texts
<1>2. Len(line) \in Nat
  BY DEF Texts
<1>3. CASE Len(line) >= 1
  BY <1>1, <1>2, <1>3 DEF Held, Texts
<1>4. CASE Len(line) = 0
  BY <1>2, <1>4 DEF Held, Texts
<1> QED BY <1>2, <1>3, <1>4

\* Steps that neither sort nor write.
Begun(p, o, k, i) == [Fresh EXCEPT !.phase = p, !.opt = o, !.in = i, !.keys = k]
LEMMA BegunIs ==
  ASSUME NEW p, NEW o, NEW k, NEW i, NEW w, w = Begun(p, o, k, i)
  PROVE  Shape(w) /\ w.phase = p /\ w.in = i /\ w.read = <<>>
BY DEF Begun, Fresh, Shape

LEMMA FreshIs == Shape(Fresh) /\ Fresh.in = <<>> /\ Fresh.read = <<>> /\ Fresh.phase = "start"
BY DEF Shape, Fresh

LEMMA BeginStep ==
  ASSUME NEW opt, NEW list, NEW input \in Inputs, BeginSort(opt, list, input)
  PROVE  SortInv(sort')
<1> DEFINE p == IF Refused(opt, list) THEN "refused" ELSE "read"
           k == IF "K" \in opt THEN Keyed(list) ELSE NoKeys
           w == Begun(p, opt, k, input)
<1>1. input \in Seq(Texts)
  BY SortAssumption DEF Texts, Chars
<1>2. sort' = w
  BY DEF BeginSort, Begun
<1>3. p \in {"refused", "read"}
  OBVIOUS
<1> HIDE DEF p, k, w
<1>4. Shape(w) /\ w.phase = p /\ w.in = input /\ w.read = <<>>
  BY BegunIs DEF w
<1> QED BY <1>1, <1>2, <1>3, <1>4 DEF SortInv

Phased(u, p) == [u EXCEPT !.phase = p]
Taken(u, i, r) == [u EXCEPT !.in = i, !.read = r]
LEMMA PhasedIs ==
  ASSUME NEW u, Shape(u), NEW p, NEW w, w = Phased(u, p)
  PROVE  Shape(w) /\ w.phase = p /\ w.in = u.in /\ w.read = u.read
<1>1. Shape(w)
  BY Zenon DEF Shape, Phased
<1>2. w.phase = p /\ w.in = u.in /\ w.read = u.read
  BY Zenon DEF Shape, Phased
<1> QED BY <1>1, <1>2

LEMMA TakenIs ==
  ASSUME NEW u, Shape(u), NEW i, NEW r, NEW w, w = Taken(u, i, r)
  PROVE  Shape(w) /\ w.phase = u.phase /\ w.in = i /\ w.read = r
<1>1. Shape(w)
  BY Zenon DEF Shape, Taken
<1>2. w.phase = u.phase /\ w.in = i /\ w.read = r
  BY Zenon DEF Shape, Taken
<1> QED BY <1>1, <1>2

LEMMA FileInStep ==
  ASSUME SortInv(sort), FileIn
  PROVE  SortInv(sort')
<1>1. Shape(sort) /\ sort.in \in Seq(Texts) /\ sort.read \in Seq(Texts)
  BY DEF SortInv
<1>2. sort.phase = "read" /\ sort.in # <<>>
  BY DEF FileIn
<1>3. sort' = IF Len(sort.read) > LINES THEN Phased(sort, "too much")
              ELSE Taken(sort, Tail(sort.in), Append(sort.read, Held(Head(sort.in))))
  BY DEF FileIn, Phased, Taken
<1>4. CASE Len(sort.read) > LINES
  <2> DEFINE w == Phased(sort, "too much")
  <2>1. sort' = w
    BY <1>3, <1>4
  <2> HIDE DEF w
  <2>2. Shape(w) /\ w.phase = "too much" /\ w.in = sort.in /\ w.read = sort.read
    BY <1>1, PhasedIs DEF w
  <2> QED BY <1>1, <2>1, <2>2 DEF SortInv
<1>5. CASE ~(Len(sort.read) > LINES)
  <2> DEFINE i == Tail(sort.in)
             r == Append(sort.read, Held(Head(sort.in)))
             w == Taken(sort, i, r)
  <2>1. sort' = w
    BY <1>3, <1>5
  <2>2. Head(sort.in) \in Texts /\ i \in Seq(Texts)
    BY <1>1, <1>2
  <2>3. Held(Head(sort.in)) \in Texts
    BY <2>2, HeldIs
  <2>4. r \in Seq(Texts)
    BY <1>1, <2>3
  <2> HIDE DEF w, i, r
  <2>5. Shape(w) /\ w.phase = "read" /\ w.in = i /\ w.read = r
    BY <1>1, <1>2, TakenIs DEF w
  <2> QED BY <2>1, <2>2, <2>4, <2>5 DEF SortInv
<1> QED BY <1>4, <1>5

LEMMA EndOfInputStep ==
  ASSUME SortInv(sort), EndOfInput
  PROVE  SortInv(sort')
<1>1. Shape(sort) /\ sort.in \in Seq(Texts) /\ sort.read \in Seq(Texts)
  BY DEF SortInv
<1>2. sort.phase = "read"
      /\ sort' = IF sort.read = <<>> THEN Phased(sort, "empty") ELSE Gap(sort.read, Half(Len(sort.read)))
  BY DEF EndOfInput, Phased
<1>3. CASE sort.read = <<>>
  <2> DEFINE w == Phased(sort, "empty")
  <2>1. sort' = w
    BY <1>2, <1>3
  <2> HIDE DEF w
  <2>2. Shape(w) /\ w.phase = "empty" /\ w.in = sort.in /\ w.read = sort.read
    BY <1>1, PhasedIs DEF w
  <2> QED BY <1>1, <2>1, <2>2 DEF SortInv
<1>4. CASE sort.read # <<>>
  <2> DEFINE n == Len(sort.read)
             g == Half(n)
  <2>1. n \in Nat /\ n >= 1
    BY <1>1, <1>4
  <2>2. g \in Nat /\ g < n /\ (g = 0 => n = 1)
    <3> HIDE DEF n
    <3> QED BY <2>1 DEF Half
  <2>3. SameLines(sort.read, sort.read)
    BY <1>1 DEF SameLines
  <2>4. n = 1 => InOrder(sort, sort.read, n)
    BY DEF InOrder
  <2> QED BY <1>1, <1>2, <1>4, <2>2, <2>3, <2>4, GapIs
<1> QED BY <1>3, <1>4

SortHolds == SortInv(sort)

LEMMA SortBegins == SortInit => SortHolds
<1> SUFFICES ASSUME SortInit PROVE SortInv(Fresh)
  BY DEF SortInit, SortHolds
<1>1. <<>> \in Seq(Texts)
  OBVIOUS
<1> QED BY <1>1, FreshIs DEF SortInv

LEMMA SortGoesOn == SortHolds /\ [SortNext]_sort => SortHolds'
<1> SUFFICES ASSUME SortInv(sort), [SortNext]_sort PROVE SortInv(sort')
  BY DEF SortHolds
<1>1. ASSUME sort.phase = "start", NEW opt \in Options, NEW input \in Inputs,
             NEW list, BeginSort(opt, list, input)
      PROVE  SortInv(sort')
  BY <1>1, BeginStep
<1>2. CASE FileIn
  BY <1>2, FileInStep
<1>3. CASE EndOfInput
  BY <1>3, EndOfInputStep
<1>4. CASE Sift
  BY <1>4, SiftStep
<1>5. CASE Output
  BY <1>5, OutputStep
<1>6. CASE UNCHANGED sort
  BY <1>6
<1> QED BY <1>1, <1>2, <1>3, <1>4, <1>5, <1>6 DEF SortNext

LEMMA SortImplies == SortHolds => SortSound
<1> SUFFICES ASSUME SortInv(sort), sort.phase = "done", ~FarApart PROVE SortSound
  BY DEF SortHolds, SortSound, WritesSorted, OneOfEachKind
<1>1. sort.read \in Seq(Texts) /\ Written(sort)
  BY DEF SortInv
<1>2. ~Far(sort)
  BY DEF FarApart, Far, FarIn, LinesOf
<1>3. \A s, t : scmp(s, t) = Compare(sort.opt, sort.keys, s, t)
  BY ComparesSo
<1>4. WritesSorted
  BY <1>1, <1>2, <1>3 DEF WritesSorted, Written
<1>5. OneOfEachKind
  BY <1>1, <1>2, <1>3 DEF OneOfEachKind, Written
<1> QED BY <1>4, <1>5 DEF SortSound

\* For every input, set of options and keys: what is written is in order, and it is
\* the lines that were read, or with U one line of each kind (main, xsort, output).
THEOREM SortSorts == SortSpec => []SortSound
<1>1. SortInit => SortHolds
  BY SortBegins
<1>2. SortHolds /\ [SortNext]_sort => SortHolds'
  BY SortGoesOn
<1>3. SortHolds => SortSound
  BY SortImplies
<1> QED BY <1>1, <1>2, <1>3, PTL DEF SortSpec

-----------------------------------------------------------------------------
(* Bulk files.                                                             *)

(* The file with entry 1 begins behind the index, the next behind it.      *)
IsSum(n, f)  == f = [i \in 0 .. n |-> IF i = 0 THEN 0 ELSE f[i - 1] + Index[i].size]
IsStart(f)   == f = [i \in 1 .. (Len(Index) + 1) |->
                       IF i = 1 THEN IndexSize ELSE f[i - 1] + Index[i - 1].size]
Sum   == CHOOSE sum : IsSum(Len(Index), sum)
Start == CHOOSE start : IsStart(start)

-----------------------------------------------------------------------------
LEMMA BulkSizes ==
  /\ IndexSize \in Nat \ {0} /\ Chunk \in Nat \ {0} /\ Len(Index) \in Nat
  /\ DOMAIN Index = 1 .. Len(Index)
  /\ \A i \in 1 .. Len(Index) : Index[i].size \in Nat
  /\ \A l \in Loads : l.at \in Nat
BY BulkAssumption

-----------------------------------------------------------------------------
(* Where a file begins.                                                    *)

LEMMA SumExists ==
  ASSUME NEW n \in Nat
  PROVE  \E f : IsSum(n, f)
<1> DEFINE S == {m \in Nat : \E f : IsSum(m, f)}
<1>1. 0 \in S
  <2> DEFINE f == [j \in 0 .. 0 |-> 0]
  <2>1. f = [i \in 0 .. 0 |-> IF i = 0 THEN 0 ELSE f[i - 1] + Index[i].size]
    OBVIOUS
  <2> QED BY <2>1 DEF IsSum
<1>2. ASSUME NEW m \in Nat, m \in S PROVE m + 1 \in S
  <2>1. PICK g : g = [i \in 0 .. m |-> IF i = 0 THEN 0 ELSE g[i - 1] + Index[i].size]
    BY <1>2 DEF IsSum
  <2>2. \A i \in 0 .. m : g[i] = IF i = 0 THEN 0 ELSE g[i - 1] + Index[i].size
    BY <2>1
  <2> DEFINE f == [j \in 0 .. m + 1 |-> IF j = m + 1 THEN g[m] + Index[j].size ELSE g[j]]
  <2>3. ASSUME NEW j \in 0 .. m + 1
        PROVE  f[j] = IF j = 0 THEN 0 ELSE f[j - 1] + Index[j].size
    <3>1. CASE j = 0
      BY <2>2, <3>1
    <3>2. CASE j \in 1 .. m
      <4>1. g[j] = g[j - 1] + Index[j].size
        BY <2>2, <3>2
      <4>2. f[j] = g[j] /\ f[j - 1] = g[j - 1]
        BY <3>2
      <4> QED BY <3>2, <4>1, <4>2
    <3>3. CASE j = m + 1
      <4>1. f[j] = g[m] + Index[j].size /\ f[j - 1] = g[m]
        BY <3>3
      <4> QED BY <3>3, <4>1
    <3> QED BY <3>1, <3>2, <3>3
  <2>4. f = [j \in 0 .. m + 1 |-> IF j = 0 THEN 0 ELSE f[j - 1] + Index[j].size]
    BY <2>3
  <2> HIDE DEF f
  <2>5. IsSum(m + 1, f)
    BY <2>4 DEF IsSum
  <2> QED BY <2>5
<1> HIDE DEF S
<1>3. n \in S
  BY <1>1, <1>2, Induct
<1> QED BY <1>3 DEF S

LEMMA SumIs ==
  /\ Sum[0] = 0
  /\ \A i \in 1 .. Len(Index) : Sum[i] = Sum[i - 1] + Index[i].size
<1>1. IsSum(Len(Index), Sum)
  BY SumExists, BulkSizes DEF Sum
<1> HIDE DEF Sum
<1>2. \A i \in 0 .. Len(Index) : Sum[i] = IF i = 0 THEN 0 ELSE Sum[i - 1] + Index[i].size
  BY <1>1 DEF IsSum
<1>3. 0 \in 0 .. Len(Index) /\ \A i \in 1 .. Len(Index) : i \in 0 .. Len(Index) /\ i # 0
  BY BulkSizes
<1> QED BY <1>2, <1>3

\* The sums do not fall.
LEMMA SumGrows ==
  /\ \A i \in 0 .. Len(Index) : Sum[i] \in Nat
  /\ \A i, j \in 0 .. Len(Index) : i <= j => Sum[i] <= Sum[j]
<1> DEFINE S == {j \in Nat : j <= Len(Index) =>
                   Sum[j] \in Nat /\ \A i \in 0 .. j : Sum[i] \in Nat /\ Sum[i] <= Sum[j]}
<1>1. 0 \in S
  BY SumIs
<1>2. ASSUME NEW m \in Nat, m \in S PROVE m + 1 \in S
  <2> SUFFICES ASSUME m + 1 <= Len(Index)
               PROVE  /\ Sum[m + 1] \in Nat
                      /\ \A i \in 0 .. m + 1 : Sum[i] \in Nat /\ Sum[i] <= Sum[m + 1]
    OBVIOUS
  <2>1. Sum[m] \in Nat /\ \A i \in 0 .. m : Sum[i] \in Nat /\ Sum[i] <= Sum[m]
    BY <1>2, BulkSizes
  <2>2. m + 1 \in 1 .. Len(Index) /\ (m + 1) - 1 = m
    BY BulkSizes
  <2>3. Sum[m + 1] = Sum[m] + Index[m + 1].size /\ Index[m + 1].size \in Nat
    BY <2>2, SumIs, BulkSizes
  <2>4. \A i \in 0 .. m + 1 : i \in 0 .. m \/ i = m + 1
    OBVIOUS
  <2> QED BY <2>1, <2>3, <2>4
<1> HIDE DEF S
<1>3. \A j \in Nat : j \in S
  BY <1>1, <1>2, Induct
<1>4. ASSUME NEW j \in 0 .. Len(Index)
      PROVE  Sum[j] \in Nat /\ \A i \in 0 .. j : Sum[i] <= Sum[j]
  BY <1>3, BulkSizes DEF S
<1>5. \A i, j \in 0 .. Len(Index) : i <= j => i \in 0 .. j
  BY BulkSizes
<1> QED BY <1>4, <1>5

LEMMA FileStartIs ==
  \A i \in 1 .. Len(Index) + 1 : Start[i] = IndexSize + Sum[i - 1]
<1> DEFINE g == [i \in 1 .. (Len(Index) + 1) |-> IndexSize + Sum[i - 1]]
<1>1. IsStart(g)
  <2>1. ASSUME NEW i \in 1 .. (Len(Index) + 1)
        PROVE  g[i] = IF i = 1 THEN IndexSize ELSE g[i - 1] + Index[i - 1].size
    <3>1. CASE i = 1
      BY <3>1, SumIs, BulkSizes
    <3>2. CASE i # 1
      <4>1. i - 1 \in 1 .. Len(Index) /\ i - 1 \in 1 .. (Len(Index) + 1) /\ (i - 1) - 1 = i - 2
        BY <3>2, BulkSizes
      <4>2. Sum[i - 1] = Sum[i - 2] + Index[i - 1].size
        BY <4>1, SumIs
      <4>3. g[i] = IndexSize + Sum[i - 1] /\ g[i - 1] = IndexSize + Sum[i - 2]
        BY <4>1
      <4>4. Sum[i - 2] \in Nat /\ Index[i - 1].size \in Nat
        BY <4>1, SumGrows, BulkSizes
      <4> QED BY <3>2, <4>2, <4>3, <4>4, BulkSizes
    <3> QED BY <3>1, <3>2
  <2> QED BY <2>1 DEF IsStart
<1>2. IsStart(Start)
  BY <1>1 DEF Start
<1> HIDE DEF Start
<1>3. /\ Start[1] = IndexSize
      /\ \A i \in 2 .. (Len(Index) + 1) : Start[i] = Start[i - 1] + Index[i - 1].size
  <2>1. \A i \in 1 .. (Len(Index) + 1) :
          Start[i] = IF i = 1 THEN IndexSize ELSE Start[i - 1] + Index[i - 1].size
    BY <1>2 DEF IsStart
  <2>2. /\ 1 \in 1 .. (Len(Index) + 1)
        /\ \A i \in 2 .. (Len(Index) + 1) : i \in 1 .. (Len(Index) + 1) /\ i # 1
    BY BulkSizes
  <2> QED BY <2>1, <2>2
<1> DEFINE S == {m \in Nat : m + 1 \in 1 .. (Len(Index) + 1) => Start[m + 1] = IndexSize + Sum[m]}
<1>4. 0 \in S
  BY <1>3, SumIs, BulkSizes
<1>5. ASSUME NEW m \in Nat, m \in S PROVE m + 1 \in S
  <2> SUFFICES ASSUME (m + 1) + 1 \in 1 .. (Len(Index) + 1)
               PROVE  Start[(m + 1) + 1] = IndexSize + Sum[m + 1]
    OBVIOUS
  <2>1. /\ m + 1 \in 1 .. (Len(Index) + 1) /\ m + 1 \in 1 .. Len(Index) /\ (m + 1) - 1 = m
        /\ (m + 1) + 1 \in 2 .. (Len(Index) + 1) /\ ((m + 1) + 1) - 1 = m + 1
        /\ m \in 0 .. Len(Index)
    BY BulkSizes
  <2>2. Start[m + 1] = IndexSize + Sum[m]
    BY <1>5, <2>1
  <2>3. Start[(m + 1) + 1] = Start[m + 1] + Index[m + 1].size
    BY <1>3, <2>1
  <2>4. Sum[m + 1] = Sum[m] + Index[m + 1].size
    BY <2>1, SumIs
  <2>5. Sum[m] \in Nat /\ Index[m + 1].size \in Nat
    BY <2>1, SumGrows, BulkSizes
  <2> QED BY <2>2, <2>3, <2>4, <2>5, BulkSizes
<1> HIDE DEF S
<1>6. \A m \in Nat : m \in S
  BY <1>4, <1>5, Induct
<1>7. ASSUME NEW i \in 1 .. Len(Index) + 1 PROVE Start[i] = IndexSize + Sum[i - 1]
  <2>1. i - 1 \in Nat /\ (i - 1) + 1 = i
    BY BulkSizes
  <2> QED BY <1>6, <2>1, BulkSizes DEF S
<1> QED BY <1>7

-----------------------------------------------------------------------------
(* What the program that made the bulk file and the rows of gameStateData  *)
(* take care of: every file has one entry; no file is loaded to two        *)
(* places, and every chunk of a file ends before the next place begins,    *)
(* the last one too, which is copied whole.                                *)
OneEntryEach ==
  /\ \A i, j \in DOMAIN Index : Index[i].name = Index[j].name => i = j
  /\ \A i \in DOMAIN Index : Index[i].name # "none"
Apart ==
  \A k, l \in Loads :
    /\ k.name = l.name => k = l
    /\ k.name \in FileNames /\ k.at < l.at =>
         \A j \in Nat : j * Chunk < SizeOf(k.name) => k.at + j * Chunk + Chunk <= l.at

\* A byte that is read is the byte of the file it was looked for in.
LEMMA ByteIs ==
  ASSUME NEW k \in DOMAIN Index, NEW o \in Nat, o < Index[k].size
  PROVE  BulkByte(IndexSize + Sum[k - 1] + o) = <<Index[k].name, o>>
<1> DEFINE p == IndexSize + Sum[k - 1] + o
           in == {i \in DOMAIN Index : Start[i] <= p /\ p < Start[i + 1]}
<1>1. /\ k \in 1 .. Len(Index) /\ k - 1 \in 0 .. Len(Index) /\ k \in 1 .. Len(Index) + 1
      /\ k + 1 \in 1 .. Len(Index) + 1 /\ (k + 1) - 1 = k /\ k \in 0 .. Len(Index)
  BY BulkSizes
<1>2. Start[k] = IndexSize + Sum[k - 1] /\ Start[k + 1] = IndexSize + Sum[k]
  BY <1>1, FileStartIs
<1>3. Sum[k] = Sum[k - 1] + Index[k].size /\ Sum[k - 1] \in Nat /\ Index[k].size \in Nat
  BY <1>1, SumIs, SumGrows, BulkSizes
<1>4. p \in Nat /\ k \in in
  BY <1>2, <1>3, BulkSizes
<1>5. ASSUME NEW i \in in PROVE i = k
  <2>1. /\ i \in 1 .. Len(Index) /\ i - 1 \in 0 .. Len(Index) /\ i \in 1 .. Len(Index) + 1
        /\ i + 1 \in 1 .. Len(Index) + 1 /\ (i + 1) - 1 = i /\ i \in 0 .. Len(Index)
    <3>1. i \in DOMAIN Index
      OBVIOUS
    <3>2. i \in 1 .. Len(Index) /\ Len(Index) \in Nat
      BY ONLY <3>1, BulkSizes
    <3> QED BY ONLY <3>2
  <2>2. Start[i] = IndexSize + Sum[i - 1] /\ Start[i + 1] = IndexSize + Sum[i]
    BY <2>1, FileStartIs
  <2>3. Start[i] <= p /\ p < Start[i + 1]
    OBVIOUS
  <2>4. Sum[i] \in Nat /\ Sum[i - 1] \in Nat /\ Sum[k] \in Nat
    BY <1>1, <2>1, SumGrows
  <2> HIDE DEF in
  <2>5. CASE i < k
    <3>1. i <= k - 1
      BY <1>1, <2>1, <2>5
    <3>2. Sum[i] <= Sum[k - 1]
      BY ONLY <1>1, <2>1, <3>1, SumGrows
    <3>3. p < IndexSize + Sum[i] /\ IndexSize + Sum[k - 1] <= p
      BY <1>3, <2>2, <2>3, BulkSizes
    <3> QED BY ONLY <1>3, <1>4, <2>4, <3>2, <3>3, BulkSizes
  <2>6. CASE k < i
    <3>1. k <= i - 1
      BY <1>1, <2>1, <2>6
    <3>2. Sum[k] <= Sum[i - 1]
      BY ONLY <1>1, <2>1, <3>1, SumGrows
    <3>3. IndexSize + Sum[i - 1] <= p /\ p < IndexSize + Sum[k]
      BY <1>3, <2>2, <2>3, BulkSizes
    <3> QED BY ONLY <1>3, <1>4, <2>4, <3>2, <3>3, BulkSizes
  <2> QED BY <1>1, <2>1, <2>5, <2>6
<1>6. in = {k} /\ (CHOOSE i \in in : TRUE) = k
  <2>1. in = {k}
    BY <1>4, <1>5
  <2> HIDE DEF in
  <2>2. (CHOOSE i \in in : TRUE) \in in
    BY <2>1
  <2> QED BY <2>1, <2>2
<1>7. BulkByte(p) = IF in = {} THEN NoByte
                    ELSE LET i == CHOOSE i \in in : TRUE IN <<Index[i].name, p - Start[i]>>
  BY DEF BulkByte, Start, IsStart
<1> HIDE DEF in, p
<1>8. BulkByte(p) = <<Index[k].name, p - Start[k]>>
  BY <1>6, <1>7
<1>9. p - Start[k] = o
  BY <1>2, <1>3, BulkSizes DEF p
<1> QED BY <1>8, <1>9 DEF p

\* The index leads to the file that is named.
LEMMA EntryIs ==
  ASSUME OneEntryEach, NEW n, EntryOffset(n) # -1
  PROVE  \E k \in DOMAIN Index :
           Index[k].name = n /\ EntryOffset(n) = Sum[k - 1] /\ SizeOf(n) = Index[k].size
<1> DEFINE at == {i \in DOMAIN Index : i < Entries /\ Index[i].name = n}
<1>1. EntryOffset(n) = IF at = {} THEN -1 ELSE Sum[(CHOOSE i \in at : \A j \in at : i <= j) - 1]
  BY DEF EntryOffset, Sum, IsSum
<1>2. PICK k \in at : TRUE
  BY <1>1
<1>3. k \in DOMAIN Index /\ Index[k].name = n
  BY <1>2
<1>4. \A i \in at : i = k
  BY <1>3 DEF OneEntryEach
<1>5. k <= k
  BY <1>3, BulkSizes
<1>6. at # {} /\ (CHOOSE i \in at : \A j \in at : i <= j) = k
  <2> HIDE DEF at
  <2>1. \E i \in at : \A j \in at : i <= j
    BY <1>2, <1>4, <1>5
  <2>2. (CHOOSE i \in at : \A j \in at : i <= j) \in at
    BY <2>1
  <2> QED BY <1>2, <1>4, <2>2
<1> HIDE DEF at
<1>7. EntryOffset(n) = Sum[k - 1]
  BY <1>1, <1>6
<1>8. SizeOf(n) = Index[k].size
  <2>1. (CHOOSE i \in DOMAIN Index : Index[i].name = n) \in DOMAIN Index
        /\ Index[CHOOSE i \in DOMAIN Index : Index[i].name = n].name = n
    BY <1>3
  <2>2. (CHOOSE i \in DOMAIN Index : Index[i].name = n) = k
    BY <1>3, <2>1 DEF OneEntryEach
  <2> QED BY <2>2 DEF SizeOf
<1> QED BY <1>3, <1>7, <1>8

-----------------------------------------------------------------------------
(* The loader.  j chunks of a file have been read when the file is being   *)
(* loaded; the bytes of files that are whole are never written again.      *)
Holds(l, n) ==
  \A i \in 0 .. n - 1 : l.at + i \in DOMAIN bulk.mem /\ bulk.mem[l.at + i] = <<l.name, i>>

Loading(l, j) ==
  /\ bulk.name = l.name /\ EntryOffset(l.name) # -1 /\ bulk.size = SizeOf(l.name)
  /\ bulk.at = l.at + j * Chunk
  /\ bulk.off = IF j * Chunk < bulk.size THEN j * Chunk ELSE bulk.size
  /\ Holds(l, bulk.off)
  /\ \A k \in Loads : k.at = l.at => k.name \notin bulk.whole

BulkInv ==
  /\ DOMAIN bulk = {"name", "at", "off", "size", "buf", "mem", "whole"}
  /\ DOMAIN bulk.buf = 0 .. Chunk - 1
  /\ bulk.name = "none" \/ \E l \in Loads, j \in Nat : Loading(l, j)
  /\ \A l \in Loads : l.name \in bulk.whole =>
       EntryOffset(l.name) # -1 /\ Holds(l, SizeOf(l.name))

LEMMA InChunk ==
  ASSUME NEW i \in Nat
  PROVE  \E j \in Nat : j * Chunk <= i /\ i < j * Chunk + Chunk
<1> DEFINE S == {m \in Nat : \E j \in Nat : j * Chunk <= m /\ m < j * Chunk + Chunk}
<1>1. 0 \in S
  <2>1. 0 \in Nat /\ 0 * Chunk <= 0 /\ 0 < 0 * Chunk + Chunk
    BY BulkSizes
  <2>2. \E j \in Nat : j * Chunk <= 0 /\ 0 < j * Chunk + Chunk
    BY <2>1, Zenon
  <2> QED BY <2>2
<1>2. ASSUME NEW m \in Nat, m \in S PROVE m + 1 \in S
  <2>1. PICK j \in Nat : j * Chunk <= m /\ m < j * Chunk + Chunk
    BY <1>2
  <2>2. j + 1 \in Nat /\ (j + 1) * Chunk = j * Chunk + Chunk /\ j * Chunk \in Nat
    BY BulkSizes
  <2>3. CASE m + 1 < j * Chunk + Chunk
    BY <2>1, <2>2, <2>3
  <2>4. CASE ~(m + 1 < j * Chunk + Chunk)
    <3>1. (j + 1) * Chunk <= m + 1 /\ m + 1 < (j + 1) * Chunk + Chunk
      BY <2>1, <2>2, <2>4, BulkSizes
    <3> QED BY <2>2, <3>1
  <2> QED BY <2>3, <2>4
<1> HIDE DEF S
<1>3. i \in S
  BY <1>1, <1>2, Induct
<1> QED BY <1>3 DEF S

LEMMA SizeIs ==
  ASSUME OneEntryEach, NEW n, EntryOffset(n) # -1
  PROVE  SizeOf(n) \in Nat /\ n \in FileNames /\ n # "none"
<1>1. PICK k \in DOMAIN Index : Index[k].name = n /\ SizeOf(n) = Index[k].size
  BY EntryIs
<1> QED BY <1>1, BulkSizes DEF FileNames, OneEntryEach

\* A file that is whole is not where the next chunk goes.
LEMMA NotReached ==
  ASSUME OneEntryEach, Apart, NEW l \in Loads, NEW j \in Nat,
         EntryOffset(l.name) # -1, j * Chunk < SizeOf(l.name),
         NEW k \in Loads, EntryOffset(k.name) # -1, k.at # l.at,
         NEW i \in 0 .. SizeOf(k.name) - 1
  PROVE  k.at + i \notin (l.at + j * Chunk) .. (l.at + j * Chunk + Chunk - 1)
<1>1. /\ l.at \in Nat /\ k.at \in Nat /\ j * Chunk \in Nat /\ SizeOf(k.name) \in Nat
      /\ i \in Nat /\ i < SizeOf(k.name) /\ Chunk \in Nat
      /\ l.name \in FileNames /\ k.name \in FileNames
  BY SizeIs, BulkSizes
<1>2. CASE k.at < l.at
  <2>1. PICK m \in Nat : m * Chunk <= i /\ i < m * Chunk + Chunk
    BY <1>1, InChunk
  <2>2. m * Chunk \in Nat /\ m * Chunk < SizeOf(k.name)
    BY <1>1, <2>1
  <2>3. k.at + m * Chunk + Chunk <= l.at
    BY <1>1, <1>2, <2>2 DEF Apart
  <2> DEFINE c == m * Chunk
             d == j * Chunk
  <2>4. c \in Nat /\ d \in Nat /\ i < c + Chunk /\ k.at + c + Chunk <= l.at
    BY <1>1, <2>1, <2>2, <2>3
  <2> HIDE DEF c, d
  <2>5. k.at + i < l.at + d
    BY <1>1, <2>4
  <2>6. ~(l.at + d <= k.at + i)
    BY <1>1, <2>4, <2>5
  <2> QED BY <1>1, <2>4, <2>6 DEF d
<1>3. CASE l.at < k.at
  <2>1. l.at + j * Chunk + Chunk <= k.at
    BY <1>1, <1>3 DEF Apart
  <2> DEFINE d == j * Chunk
  <2>2. d \in Nat /\ l.at + d + Chunk <= k.at
    BY <1>1, <2>1
  <2> HIDE DEF d
  <2>3. ~(k.at + i <= l.at + d + Chunk - 1)
    BY <1>1, <2>2
  <2> QED BY <1>1, <2>2, <2>3 DEF d
<1> QED BY <1>1, <1>2, <1>3

LEMMA InitStep ==
  ASSUME OneEntryEach, Apart, BulkInv, NEW l \in Loads, ChunkLoader_Init(l)
  PROVE  BulkInv'
<1>1. /\ EntryOffset(l.name) # -1
      /\ bulk' = [bulk EXCEPT !.name = l.name, !.at = l.at, !.off = 0, !.size = SizeOf(l.name),
                           !.whole = @ \ {k.name : k \in {k \in Loads : k.at = l.at}}]
  BY DEF ChunkLoader_Init
<1>2. /\ DOMAIN bulk' = DOMAIN bulk /\ bulk'.name = l.name /\ bulk'.at = l.at /\ bulk'.off = 0
      /\ bulk'.size = SizeOf(l.name) /\ bulk'.buf = bulk.buf /\ bulk'.mem = bulk.mem
      /\ bulk'.whole = bulk.whole \ {k.name : k \in {k \in Loads : k.at = l.at}}
  BY <1>1 DEF BulkInv
<1>3. SizeOf(l.name) \in Nat /\ l.at \in Nat /\ 0 * Chunk = 0 /\ l.at + 0 * Chunk = l.at
  BY <1>1, SizeIs, BulkSizes
<1>4. Loading(l, 0)'
  <2>1. Holds(l, bulk.off)'
    BY <1>2 DEF Holds
  <2>2. bulk'.off = IF 0 * Chunk < bulk'.size THEN 0 * Chunk ELSE bulk'.size
    BY <1>2, <1>3
  <2>3. \A k \in Loads : k.at = l.at => k.name \notin bulk'.whole
    BY <1>2
  <2> QED BY <1>1, <1>2, <1>3, <2>1, <2>2, <2>3 DEF Loading
<1>5. \A k \in Loads : k.name \in bulk'.whole =>
        EntryOffset(k.name) # -1 /\ Holds(k, SizeOf(k.name))'
  BY <1>2 DEF BulkInv, Holds
<1> QED BY <1>2, <1>4, <1>5 DEF BulkInv

LEMMA DoneStep ==
  ASSUME OneEntryEach, Apart, BulkInv, ChunkLoader_IsDone
  PROVE  BulkInv'
<1>1. /\ bulk.name # "none" /\ bulk.off >= bulk.size
      /\ bulk' = [bulk EXCEPT !.name = "none", !.whole = @ \cup {bulk.name}]
  BY DEF ChunkLoader_IsDone
<1>2. /\ DOMAIN bulk' = DOMAIN bulk /\ bulk'.name = "none"
      /\ bulk'.buf = bulk.buf /\ bulk'.mem = bulk.mem
      /\ bulk'.whole = bulk.whole \cup {bulk.name}
  BY <1>1 DEF BulkInv
<1>3. PICK l \in Loads, j \in Nat : Loading(l, j)
  BY <1>1 DEF BulkInv
<1>4. bulk.name = l.name /\ EntryOffset(l.name) # -1 /\ Holds(l, SizeOf(l.name))
  <2>1. SizeOf(l.name) \in Nat /\ j * Chunk \in Nat
    BY <1>3, SizeIs, BulkSizes DEF Loading
  <2> DEFINE c == j * Chunk
  <2>2. c \in Nat /\ bulk.off = IF c < bulk.size THEN c ELSE bulk.size
    BY <1>3, <2>1 DEF Loading
  <2> HIDE DEF c
  <2>3. bulk.off = SizeOf(l.name)
    BY <1>1, <1>3, <2>1, <2>2 DEF Loading
  <2> QED BY <1>3, <2>3 DEF Loading
<1>5. ASSUME NEW k \in Loads, k.name \in bulk'.whole
      PROVE  EntryOffset(k.name) # -1 /\ Holds(k, SizeOf(k.name))'
  <2>1. CASE k.name \in bulk.whole
    BY <1>2, <2>1 DEF BulkInv, Holds
  <2>2. CASE k.name = bulk.name
    <3>1. k = l
      BY <1>4, <2>2 DEF Apart
    <3> QED BY <1>2, <1>4, <3>1 DEF Holds
  <2> QED BY <1>2, <1>5, <2>1, <2>2
<1> QED BY <1>2, <1>5 DEF BulkInv

\* A chunk is read, and all of the buffer is copied.
LEMMA ChunkStep ==
  ASSUME OneEntryEach, Apart, BulkInv, LoadChunk
  PROVE  BulkInv'
<1> DEFINE n   == NumBytes(bulk.off, bulk.size)
           buf == Resource_LoadFileToBuffer(bulk.name, bulk.off, n, bulk.buf)
           to  == bulk.at..(bulk.at + Chunk - 1)
<1>1. /\ bulk.name # "none" /\ bulk.off < bulk.size
      /\ bulk' = [bulk EXCEPT !.off = @ + n, !.buf = buf, !.at = @ + Chunk,
                             !.mem = [a \in DOMAIN @ \cup to |->
                                        IF a \in to THEN buf[a - bulk.at] ELSE @[a]]]
  BY DEF LoadChunk
<1>2. PICK l \in Loads, j \in Nat : Loading(l, j)
  BY <1>1 DEF BulkInv
<1> DEFINE c == j * Chunk
           size == SizeOf(l.name)
<1>3. /\ l.at \in Nat /\ c \in Nat /\ size \in Nat /\ Chunk \in Nat \ {0}
      /\ bulk.name = l.name /\ EntryOffset(l.name) # -1 /\ bulk.size = size
      /\ bulk.at = l.at + c /\ bulk.off = c /\ c < size
  <2>1. /\ EntryOffset(l.name) # -1 /\ bulk.size = SizeOf(l.name) /\ bulk.name = l.name
        /\ bulk.at = l.at + j * Chunk
        /\ bulk.off = IF j * Chunk < bulk.size THEN j * Chunk ELSE bulk.size
    BY <1>2 DEF Loading
  <2>2. SizeOf(l.name) \in Nat /\ j * Chunk \in Nat /\ l.at \in Nat /\ Chunk \in Nat \ {0}
    BY <2>1, SizeIs, BulkSizes
  <2>3. c \in Nat /\ size \in Nat /\ bulk.off = IF c < size THEN c ELSE size
    BY <2>1, <2>2
  <2> HIDE DEF c, size
  <2>4. bulk.off < size
    BY <1>1, <2>1 DEF size
  <2>5. bulk.off = c /\ c < size
    BY <2>3, <2>4
  <2> QED BY <2>1, <2>2, <2>3, <2>5 DEF c, size
<1>4. n = (IF c + Chunk < size THEN Chunk ELSE size - c) /\ n \in 1 .. Chunk /\ c + n <= size
  <2>1. n = IF c + Chunk < size THEN Chunk ELSE size - c
    BY <1>3 DEF NumBytes
  <2> HIDE DEF n, c, size
  <2> QED BY <1>3, <2>1
<1>5. /\ DOMAIN buf = 0 .. Chunk - 1
      /\ \A i \in 0 .. n - 1 : buf[i] = <<l.name, c + i>>
  <2>1. DOMAIN bulk.buf = 0 .. Chunk - 1
    BY DEF BulkInv
  <2>2. PICK k \in DOMAIN Index :
          Index[k].name = l.name /\ EntryOffset(l.name) = Sum[k - 1] /\ size = Index[k].size
    BY <1>3, EntryIs
  <2> HIDE DEF n, c, size
  <2>3. ASSUME NEW i \in 0 .. n - 1
        PROVE  buf[i] = <<l.name, c + i>>
    <3>1. i \in 0 .. Chunk - 1 /\ i < n /\ c + i \in Nat /\ c + i < Index[k].size
      BY <1>3, <1>4, <2>2
    <3>2. buf[i] = BulkByte(IndexSize + EntryOffset(bulk.name) + bulk.off + i)
      BY <2>1, <3>1 DEF Resource_LoadFileToBuffer
    <3>3. Sum[k - 1] \in Nat
      <4>1. k - 1 \in 0 .. Len(Index)
        BY BulkSizes
      <4> QED BY <4>1, SumGrows
    <3>4. IndexSize + EntryOffset(bulk.name) + bulk.off + i = IndexSize + Sum[k - 1] + (c + i)
      BY <1>3, <2>2, <3>3, BulkSizes
    <3>5. BulkByte(IndexSize + Sum[k - 1] + (c + i)) = <<Index[k].name, c + i>>
      BY <3>1, ByteIs
    <3> QED BY <2>2, <3>2, <3>4, <3>5
  <2> QED BY <2>1, <2>3 DEF Resource_LoadFileToBuffer
<1> HIDE DEF n, buf
<1>6. /\ DOMAIN bulk' = DOMAIN bulk /\ bulk'.name = bulk.name /\ bulk'.size = bulk.size
      /\ bulk'.whole = bulk.whole /\ bulk'.off = bulk.off + n /\ bulk'.at = bulk.at + Chunk
      /\ bulk'.buf = buf
      /\ bulk'.mem = [a \in DOMAIN bulk.mem \cup to |->
                        IF a \in to THEN buf[a - bulk.at] ELSE bulk.mem[a]]
  BY <1>1 DEF BulkInv
<1>7. /\ DOMAIN bulk'.mem = DOMAIN bulk.mem \cup to
      /\ \A a \in DOMAIN bulk.mem : a \notin to => bulk'.mem[a] = bulk.mem[a]
      /\ \A a \in to : bulk'.mem[a] = buf[a - bulk.at]
  BY <1>6
<1>8. to = (l.at + c) .. (l.at + c + Chunk - 1)
  BY <1>3
<1>9. Holds(l, bulk.off)'
  <2> SUFFICES ASSUME NEW i \in 0 .. (c + n) - 1
               PROVE  l.at + i \in DOMAIN bulk'.mem /\ bulk'.mem[l.at + i] = <<l.name, i>>
    BY <1>3, <1>6 DEF Holds
  <2> HIDE DEF c, size
  <2>1. CASE i < c
    <3>1. l.at + i \in DOMAIN bulk.mem /\ bulk.mem[l.at + i] = <<l.name, i>>
      BY <1>2, <1>3, <2>1 DEF Loading, Holds
    <3>2. ~(l.at + c <= l.at + i)
      BY <1>3, <2>1
    <3>3. l.at + i \notin to
      BY <1>3, <1>8, <3>2
    <3> QED BY <1>7, <3>1, <3>3
  <2>2. CASE ~(i < c)
    <3>1. i - c \in 0 .. n - 1 /\ l.at + i \in to /\ (l.at + i) - bulk.at = i - c
      BY <1>3, <1>4, <1>8, <2>2
    <3>2. buf[i - c] = <<l.name, c + (i - c)>> /\ c + (i - c) = i
      BY <1>3, <1>5, <3>1
    <3> QED BY <1>7, <3>1, <3>2
  <2> QED BY <2>1, <2>2
<1>10. Loading(l, j + 1)'
  <2>1. j + 1 \in Nat /\ (j + 1) * Chunk = c + Chunk
    BY <1>3
  <2> HIDE DEF c, size
  <2>2. bulk'.at = l.at + (c + Chunk)
    BY <1>3, <1>6
  <2>3. bulk'.off = IF c + Chunk < size THEN c + Chunk ELSE size
    BY <1>3, <1>4, <1>6
  <2>4. \A k \in Loads : k.at = l.at => k.name \notin bulk'.whole
    BY <1>2, <1>6 DEF Loading
  <2> QED BY <1>3, <1>6, <1>9, <2>1, <2>2, <2>3, <2>4 DEF Loading, size
<1>11. ASSUME NEW k \in Loads, k.name \in bulk'.whole
       PROVE  EntryOffset(k.name) # -1 /\ Holds(k, SizeOf(k.name))'
  <2>1. EntryOffset(k.name) # -1 /\ Holds(k, SizeOf(k.name)) /\ k.at # l.at
    BY <1>2, <1>6, <1>11 DEF BulkInv, Loading
  <2>2. ASSUME NEW i \in 0 .. SizeOf(k.name) - 1
        PROVE  k.at + i \in DOMAIN bulk'.mem /\ bulk'.mem[k.at + i] = <<k.name, i>>
    <3>1. k.at + i \notin to
      BY <1>3, <1>8, <2>1, NotReached
    <3>2. k.at + i \in DOMAIN bulk.mem /\ bulk.mem[k.at + i] = <<k.name, i>>
      BY <2>1 DEF Holds
    <3> QED BY <1>7, <3>1, <3>2
  <2> QED BY <2>1, <2>2 DEF Holds
<1>12. j + 1 \in Nat
  OBVIOUS
<1> QED BY <1>5, <1>6, <1>10, <1>11, <1>12 DEF BulkInv

\* Whatever the files, the memory and the size of a chunk are, a file that has been
\* loaded by the chunk loader and not given up stands whole in memory, byte by byte.
THEOREM FilesIntact ==
  ASSUME OneEntryEach, Apart
  PROVE  BulkSpec => []LoadedFilesIntact
<1>1. BulkInit => BulkInv
  BY DEF BulkInit, BulkInv, EmptyBuffer
<1>2. BulkInv /\ [BulkNext]_bulk => BulkInv'
  <2> SUFFICES ASSUME BulkInv, [BulkNext]_bulk PROVE BulkInv'
    OBVIOUS
  <2>1. CASE UNCHANGED bulk
    BY <2>1 DEF BulkInv, Loading, Holds
  <2> QED BY <2>1, InitStep, ChunkStep, DoneStep DEF BulkNext
<1>3. BulkInv => LoadedFilesIntact
  BY DEF BulkInv, LoadedFilesIntact, Holds
<1> QED BY <1>1, <1>2, <1>3, PTL DEF BulkSpec
=============================================================================
