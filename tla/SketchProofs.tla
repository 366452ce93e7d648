---------------------------- MODULE SketchProofs ----------------------------
(***************************************************************************)
(* Proof that what the interrupt handlers of the C library tell a program  *)
(* is true: the keys it is told are down are, and no motion of the mouse   *)
(* counts twice; for any keys, input map, size of arrPressed and mouse.    *)
(***************************************************************************)
EXTENDS Sketch, SequenceTheorems, Induction

Codes == {k.code : k \in PadKeys}
Byte == Codes \cup {Prefix, Break}

LEMMA CodeKinds == \A c \in Codes : c \notin {0, Prefix, Break} /\ c \in Byte
BY SketchAssumption DEF Codes, Byte

-----------------------------------------------------------------------------
(* The bytes p that are still to be handled, and the set ok of codes of    *)
(* which the library has it right.  Every break byte is followed by a      *)
(* code; the last occurrence of a code tells whether its key is down, and  *)
(* when there is none the library has it right.                            *)
BreaksPaired(p) == \A i \in 1 .. Len(p) : p[i] = Break => i < Len(p) /\ p[i + 1] \in Codes
Occurs(p, c) == \E i \in 1 .. Len(p) : p[i] = c
IsLast(p, c, i) == p[i] = c /\ \A j \in 1 .. Len(p) : j > i => p[j] # c
Up(p, i) == i > 1 /\ p[i - 1] = Break

Told(p, ok, down, c) ==
  /\ ~Occurs(p, c) => c \in ok
  /\ \A i \in 1 .. Len(p) : IsLast(p, c, i) => (c \in down <=> ~Up(p, i))

Follows(p, ok, down) == BreaksPaired(p) /\ \A c \in Codes : Told(p, ok, down, c)

\* A byte other than a break is handled.
LEMMA DropByte ==
  ASSUME NEW p \in Seq(Byte), p # <<>>, Head(p) # Break,
         NEW ok, NEW new, NEW down, Follows(p, ok, down),
         \A c \in Codes : c # Head(p) /\ c \in ok => c \in new,
         Head(p) \in Codes \cap down => Head(p) \in new
  PROVE  Follows(Tail(p), new, down)
<1> DEFINE q == Tail(p)
<1>1. /\ q \in Seq(Byte) /\ Len(q) \in Nat /\ Len(p) \in Nat /\ Len(p) = Len(q) + 1
      /\ \A i \in 1 .. Len(q) : q[i] = p[i + 1]
      /\ p[1] = Head(p) /\ p[1] # Break
  OBVIOUS
<1>2. BreaksPaired(q)
  BY <1>1 DEF Follows, BreaksPaired
<1>3. ASSUME NEW c \in Codes
      PROVE  Told(q, new, down, c)
  <2>1. Told(p, ok, down, c)
    BY <1>3 DEF Follows
  <2>2. ASSUME ~Occurs(q, c)
        PROVE  c \in new
    <3>1. \A j \in 1 .. Len(p) : j > 1 => p[j] # c
      <4> SUFFICES ASSUME NEW j \in 1 .. Len(p), j > 1 PROVE p[j] # c
        OBVIOUS
      <4>1. j - 1 \in 1 .. Len(q) /\ q[j - 1] = p[j]
        BY <1>1
      <4> QED BY <2>2, <4>1 DEF Occurs
    <3>2. CASE Head(p) = c
      <4>1. 1 \in 1 .. Len(p) /\ IsLast(p, c, 1) /\ ~Up(p, 1)
        BY <1>1, <3>1, <3>2 DEF IsLast, Up
      <4>2. c \in down
        BY <2>1, <4>1 DEF Told
      <4> QED BY <1>3, <3>2, <4>2
    <3>3. CASE Head(p) # c
      <4>1. ~Occurs(p, c)
        BY <1>1, <3>1, <3>3 DEF Occurs
      <4> QED BY <2>1, <3>3, <4>1 DEF Told
    <3> QED BY <3>2, <3>3
  <2>3. ASSUME NEW i \in 1 .. Len(q), IsLast(q, c, i)
        PROVE  c \in down <=> ~Up(q, i)
    <3>1. i + 1 \in 1 .. Len(p) /\ p[i + 1] = c
      BY <1>1, <2>3 DEF IsLast
    <3>2. ASSUME NEW j \in 1 .. Len(p), j > i + 1 PROVE p[j] # c
      <4>1. j - 1 \in 1 .. Len(q) /\ j - 1 > i /\ q[j - 1] = p[j]
        BY <1>1, <3>2
      <4> QED BY <2>3, <4>1 DEF IsLast
    <3>3. IsLast(p, c, i + 1)
      BY <3>1, <3>2 DEF IsLast
    <3>4. c \in down <=> ~(p[i] = Break)
      <4>1. Up(p, i + 1) <=> p[i] = Break
        BY DEF Up
      <4> QED BY <2>1, <3>1, <3>3, <4>1 DEF Told
    <3>5. i > 1 => i - 1 \in 1 .. Len(q) /\ q[i - 1] = p[i]
      BY <1>1
    <3> QED BY <1>1, <3>4, <3>5 DEF Up
  <2> QED BY <2>2, <2>3 DEF Told
<1> QED BY <1>2, <1>3 DEF Follows

\* A break and the code behind it are handled.
LEMMA DropRelease ==
  ASSUME NEW p \in Seq(Byte), Len(p) >= 2, p[1] = Break,
         NEW ok, NEW new, NEW down, Follows(p, ok, down),
         \A c \in Codes : c # p[2] /\ c \in ok => c \in new,
         p[2] \in Codes \ down => p[2] \in new
  PROVE  Follows(Tail(Tail(p)), new, down)
<1> DEFINE q == Tail(Tail(p))
<1>1. /\ q \in Seq(Byte) /\ Len(q) \in Nat /\ Len(p) \in Nat /\ Len(p) = Len(q) + 2
      /\ \A i \in 1 .. Len(q) : q[i] = p[i + 2]
  <2>1. /\ Tail(p) \in Seq(Byte) /\ Len(p) \in Nat /\ Len(Tail(p)) = Len(p) - 1
        /\ \A i \in 1 .. Len(Tail(p)) : Tail(p)[i] = p[i + 1]
    BY HeadTailProperties
  <2>2. Len(Tail(p)) # 0 /\ Len(<<>>) = 0
    BY <2>1
  <2>3. /\ q \in Seq(Byte) /\ Len(q) \in Nat /\ Len(q) = Len(Tail(p)) - 1
        /\ \A i \in 1 .. Len(q) : q[i] = Tail(p)[i + 1]
    <3>1. Tail(p) # <<>>
      BY <2>2
    <3> QED BY <2>1, <3>1, HeadTailProperties
  <2> QED BY <2>1, <2>3
<1> HIDE DEF q
<1>2. BreaksPaired(p)
  BY DEF Follows
<1>3. p[2] \in Codes /\ p[2] # Break
  BY <1>1, <1>2, CodeKinds DEF BreaksPaired
<1>4. BreaksPaired(q)
  <2> SUFFICES ASSUME NEW i \in 1 .. Len(q), q[i] = Break
               PROVE  i < Len(q) /\ q[i + 1] \in Codes
    BY DEF BreaksPaired
  <2>1. i + 2 \in 1 .. Len(p) /\ p[i + 2] = Break
    BY <1>1
  <2>2. i + 2 < Len(p) /\ p[(i + 2) + 1] \in Codes
    BY <1>2, <2>1 DEF BreaksPaired
  <2>3. i < Len(q) /\ i + 1 \in 1 .. Len(q) /\ (i + 1) + 2 = (i + 2) + 1
    BY <1>1, <2>2
  <2>4. q[i + 1] = p[(i + 1) + 2]
    BY <1>1, <2>3
  <2> QED BY <2>2, <2>3, <2>4
<1>5. ASSUME NEW c \in Codes
      PROVE  Told(q, new, down, c)
  <2>1. Told(p, ok, down, c) /\ c # Break
    BY <1>5, CodeKinds DEF Follows
  <2>2. ASSUME ~Occurs(q, c)
        PROVE  c \in new
    <3>1. \A j \in 1 .. Len(p) : j > 2 => p[j] # c
      <4> SUFFICES ASSUME NEW j \in 1 .. Len(p), j > 2 PROVE p[j] # c
        OBVIOUS
      <4>1. j - 2 \in 1 .. Len(q) /\ q[j - 2] = p[j]
        BY <1>1
      <4> QED BY <2>2, <4>1 DEF Occurs
    <3>2. CASE p[2] = c
      <4>1. 2 \in 1 .. Len(p) /\ IsLast(p, c, 2) /\ Up(p, 2)
        BY <1>1, <3>1, <3>2 DEF IsLast, Up
      <4>2. c \notin down
        BY <2>1, <4>1 DEF Told
      <4> QED BY <1>5, <3>2, <4>2
    <3>3. CASE p[2] # c
      <4>1. ~Occurs(p, c)
        <5>1. \A j \in 1 .. Len(p) : j = 1 \/ j = 2 \/ j > 2
          BY <1>1
        <5> QED BY <2>1, <3>1, <3>3, <5>1 DEF Occurs
      <4> QED BY <2>1, <3>3, <4>1 DEF Told
    <3> QED BY <3>2, <3>3
  <2>3. ASSUME NEW i \in 1 .. Len(q), IsLast(q, c, i)
        PROVE  c \in down <=> ~Up(q, i)
    <3>1. i + 2 \in 1 .. Len(p) /\ p[i + 2] = c
      <4>1. q[i] = c
        BY <2>3 DEF IsLast
      <4>2. i + 2 \in 1 .. Len(p) /\ q[i] = p[i + 2]
        BY <1>1
      <4> QED BY <4>1, <4>2
    <3>2. ASSUME NEW j \in 1 .. Len(p), j > i + 2 PROVE p[j] # c
      <4>1. j - 2 \in 1 .. Len(q) /\ j - 2 > i /\ q[j - 2] = p[j]
        BY <1>1, <3>2
      <4> QED BY <2>3, <4>1 DEF IsLast
    <3>3. IsLast(p, c, i + 2)
      BY <3>1, <3>2 DEF IsLast
    <3>4. c \in down <=> ~(p[i + 1] = Break)
      <4>1. Up(p, i + 2) <=> p[i + 1] = Break
        BY DEF Up
      <4> QED BY <2>1, <3>1, <3>3, <4>1 DEF Told
    <3>5. i > 1 => i - 1 \in 1 .. Len(q) /\ q[i - 1] = p[i + 1]
      BY <1>1
    <3>6. i = 1 => p[i + 1] # Break
      BY <1>3
    <3>7. Up(q, i) <=> p[i + 1] = Break
      BY <3>5, <3>6 DEF Up
    <3> QED BY <3>4, <3>7
  <2> QED BY <2>2, <2>3 DEF Told
<1> QED BY <1>4, <1>5 DEF Follows, q

\* A keyboard sends the bytes t of one key: its code at the end, and a break before
\* it when the key comes up.
Released(t) == Len(t) > 1 /\ t[Len(t) - 1] = Break
CodesOf(t, c) ==
  /\ Len(t) >= 1 /\ t[Len(t)] = c
  /\ \A i \in 1 .. Len(t) : i < Len(t) => t[i] \notin Codes
  /\ \A i \in 1 .. Len(t) : t[i] = Break => i = Len(t) - 1

LEMMA AddCodes ==
  ASSUME NEW p \in Seq(Byte), NEW t \in Seq(Byte),
         NEW c \in Codes, CodesOf(t, c),
         NEW ok, NEW okn, NEW down, NEW new, Follows(p, ok, down),
         \A d \in Codes : d # c => (d \in ok => d \in okn) /\ (d \in new <=> d \in down),
         c \in new <=> ~Released(t)
  PROVE  Follows(p \o t, okn, new)
<1> DEFINE q == p \o t
           n == Len(p)
           m == Len(t)
<1>1. /\ n \in Nat /\ m \in Nat /\ m >= 1 /\ Len(q) = n + m
      /\ \A i \in 1 .. n : q[i] = p[i]
      /\ \A i \in 1 .. m : q[n + i] = t[i]
  BY DEF CodesOf
<1>2. \A i \in 1 .. Len(q) : i \in 1 .. n \/ (i > n /\ i - n \in 1 .. m /\ q[i] = t[i - n])
  BY <1>1
<1>3. t[m] = c /\ q[n + m] = c
  BY <1>1 DEF CodesOf
<1>4. BreaksPaired(p) /\ (n > 0 => p[n] # Break)
  BY <1>1 DEF Follows, BreaksPaired
<1>5. BreaksPaired(q)
  <2> SUFFICES ASSUME NEW i \in 1 .. Len(q), q[i] = Break
               PROVE  i < Len(q) /\ q[i + 1] \in Codes
    BY DEF BreaksPaired
  <2>1. CASE i \in 1 .. n
    BY <1>1, <1>4, <2>1 DEF BreaksPaired
  <2>2. CASE i > n /\ i - n \in 1 .. m /\ q[i] = t[i - n]
    <3>2. i - n = m - 1
      BY <2>2 DEF CodesOf
    <3> QED BY <1>1, <1>3, <3>2
  <2> QED BY <1>2, <2>1, <2>2
<1>6. ASSUME NEW d \in Codes
      PROVE  Told(q, okn, new, d)
  <2>1. Told(p, ok, down, d)
    BY <1>6 DEF Follows
  <2>2. CASE d = c
    <3>1. Occurs(q, d)
      BY <1>1, <1>3, <2>2 DEF Occurs
    <3>2. ASSUME NEW i \in 1 .. Len(q), IsLast(q, d, i)
          PROVE  d \in new <=> ~Up(q, i)
      <4>1. i = n + m
        <5>1. n + m \in 1 .. Len(q) /\ i <= n + m
          BY <1>1
        <5>2. ~(n + m > i)
          BY <1>3, <2>2, <3>2, <5>1 DEF IsLast
        <5> QED BY <1>1, <5>1, <5>2
      <4>2. CASE m > 1
        <5>1. q[i - 1] = t[m - 1] /\ i > 1
          BY <1>1, <4>1, <4>2
        <5> QED BY <2>2, <4>2, <5>1 DEF Released, Up
      <4>3. CASE m = 1
        <5>1. i > 1 => q[i - 1] = p[n] /\ n > 0
          BY <1>1, <4>1, <4>3
        <5> QED BY <1>4, <2>2, <4>3, <5>1 DEF Released, Up
      <4>4. m > 1 \/ m = 1
        <5>1. m \in Nat /\ m >= 1
          BY <1>1
        <5> HIDE DEF m
        <5> QED BY <5>1
      <4> QED BY <4>2, <4>3, <4>4
    <3> QED BY <3>1, <3>2 DEF Told
  <2>3. CASE d # c
    <3>2. \A i \in 1 .. m : t[i] # d
      BY <1>1, <1>3, <2>3 DEF CodesOf
    <3>3. \A i \in 1 .. Len(q) : q[i] = d => i \in 1 .. n
      BY <1>2, <3>2
    <3>4. Occurs(q, d) <=> Occurs(p, d)
      BY <1>1, <3>3 DEF Occurs
    <3>5. ASSUME NEW i \in 1 .. Len(q), IsLast(q, d, i)
          PROVE  d \in new <=> ~Up(q, i)
      <4>1. i \in 1 .. n /\ IsLast(p, d, i)
        BY <1>1, <3>3, <3>5 DEF IsLast
      <4>2. i > 1 => q[i - 1] = p[i - 1]
        BY <1>1, <4>1
      <4> QED BY <2>1, <2>3, <4>1, <4>2 DEF Told, Up
    <3> QED BY <2>1, <2>3, <3>4, <3>5 DEF Told
  <2> QED BY <2>2, <2>3
<1> QED BY <1>5, <1>6 DEF Follows

LEMMA SentCodes ==
  ASSUME NEW k \in PadKeys, NEW y \in Seq(Byte),
         \/ Len(y) = 1 /\ y[1] = k.code
         \/ Len(y) = 2 /\ y[1] = Break /\ y[2] = k.code
  PROVE  /\ Lead(k) \o y \in Seq(Byte)
         /\ CodesOf(Lead(k) \o y, k.code)
         /\ Len(y) = 1 => ~Released(Lead(k) \o y)
         /\ Len(y) = 2 => Released(Lead(k) \o y)
<1> DEFINE x == Lead(k)
           t == x \o y
           n == Len(x)
           m == Len(y)
           c == k.code
<1>1. /\ Prefix \in Byte /\ Prefix \notin Codes /\ Break \notin Codes /\ Prefix # Break
      /\ c \in Codes /\ c # Break
  <2>1. Prefix \in Byte /\ Prefix # Break
    BY DEF Byte, Prefix, Break
  <2>2. c \in Codes
    BY DEF Codes
  <2> QED BY <2>1, <2>2, CodeKinds
<1>2. x \in Seq(Byte) /\ (n = 0 \/ (n = 1 /\ x[1] = Prefix))
  BY <1>1 DEF Lead
<1>3. /\ t \in Seq(Byte) /\ Len(t) = n + m
      /\ \A i \in 1 .. Len(t) : t[i] = IF i <= n THEN x[i] ELSE y[i - n]
  BY <1>2, ConcatProperties
<1> HIDE DEF t, x, c
<1>4. CASE n = 0
  <2>1. Len(t) = m /\ \A i \in 1 .. Len(t) : t[i] = y[i]
    BY <1>3, <1>4
  <2> QED BY SMTT(30), <1>1, <1>3, <2>1 DEF CodesOf, Released, t, x, c
<1>5. CASE n = 1 /\ x[1] = Prefix
  <2>1. Len(t) = m + 1 /\ t[1] = Prefix /\ \A i \in 1 .. Len(t) : i = 1 \/ t[i] = y[i - 1]
    BY <1>3, <1>5
  <2>2. CASE m = 1
    <3>1. Len(t) = 2 /\ t[1] = Prefix /\ t[2] = c
      BY <2>1, <2>2 DEF c
    <3> QED BY <1>1, <1>3, <2>2, <3>1 DEF CodesOf, Released, t, x, c
  <2>3. CASE m = 2
    <3>1. Len(t) = 3 /\ t[1] = Prefix /\ t[2] = Break /\ t[3] = c
      BY <2>1, <2>3 DEF c
    <3> QED BY <1>1, <1>3, <2>3, <3>1 DEF CodesOf, Released, t, x, c
  <2> QED BY <2>2, <2>3
<1> QED BY <1>2, <1>4, <1>5 DEF t, x, c

-----------------------------------------------------------------------------
(* arrPressed *)

Slots == 1 .. PressedSlots
Tables == [Slots -> Codes \cup {0}]
Distinct(arr) == \A i, j \in Slots : i # j /\ arr[i] = arr[j] => arr[i] = 0

LEMMA FirstSlotIs ==
  ASSUME NEW arr \in Tables, NEW c, HasCode(arr, c)
  PROVE  FirstSlot(arr, c) \in Slots /\ arr[FirstSlot(arr, c)] = c
<1> DEFINE T == {i \in Slots : arr[i] = c}
<1>1. DOMAIN arr = Slots /\ Slots \subseteq Nat
  BY SketchAssumption DEF Tables, Slots
<1>2. T \in SUBSET Nat /\ T # {}
  BY <1>1 DEF HasCode
<1>3. \E n \in T : \A m \in T : n <= m
  BY ONLY <1>2, Least
<1>4. \E i \in DOMAIN arr : arr[i] = c /\ \A j \in DOMAIN arr : arr[j] = c => i <= j
  BY <1>1, <1>3
<1> QED BY <1>1, <1>4 DEF FirstSlot

\* A code that goes down is entered, if it is not there and there is room.
LEMMA Entered ==
  ASSUME NEW arr \in Tables, Distinct(arr), NEW c \in Codes, NEW new, new = HandleScanCode(arr, c, TRUE)
  PROVE  /\ new \in Tables /\ Distinct(new)
         /\ \A d \in Codes : d # c => (HasCode(new, d) <=> HasCode(arr, d))
         /\ HasCode(new, c) \/ (~HasCode(arr, c) /\ ~HasCode(arr, 0))
<1>1. CASE HasCode(arr, c) \/ ~HasCode(arr, 0)
  <2>1. new = arr
    BY <1>1 DEF HandleScanCode
  <2> QED BY <1>1, <2>1
<1>2. CASE ~HasCode(arr, c) /\ HasCode(arr, 0)
  <2> DEFINE s == FirstSlot(arr, 0)
  <2>1. s \in Slots /\ arr[s] = 0
    BY <1>2, FirstSlotIs
  <2>2. new = [arr EXCEPT ![s] = c]
    BY <1>2 DEF HandleScanCode
  <2> HIDE DEF s
  <2>3. DOMAIN arr = Slots /\ new \in Tables /\ DOMAIN new = Slots /\ new[s] = c
        /\ \A i \in Slots : i # s => new[i] = arr[i]
    BY <2>1, <2>2 DEF Tables
  <2>4. \A i \in Slots : arr[i] # c
    BY <1>2, <2>3 DEF HasCode
  <2>5. Distinct(new)
    BY <2>1, <2>3, <2>4 DEF Distinct
  <2>6. ASSUME NEW d \in Codes, d # c PROVE HasCode(new, d) <=> HasCode(arr, d)
    <3>1. d # 0
      BY <2>6, CodeKinds
    <3> QED BY <2>1, <2>3, <2>6, <3>1 DEF HasCode
  <2>7. HasCode(new, c)
    BY <2>1, <2>3 DEF HasCode
  <2> QED BY <2>3, <2>5, <2>6, <2>7
<1> QED BY <1>1, <1>2

\* A code that comes up is removed.
LEMMA Removed ==
  ASSUME NEW arr \in Tables, Distinct(arr), NEW c \in Codes, NEW new, new = HandleScanCode(arr, c, FALSE)
  PROVE  /\ new \in Tables /\ Distinct(new)
         /\ \A d \in Codes : d # c => (HasCode(new, d) <=> HasCode(arr, d))
         /\ ~HasCode(new, c)
<1>1. CASE ~HasCode(arr, c)
  <2>1. new = arr
    BY <1>1 DEF HandleScanCode
  <2> QED BY <1>1, <2>1
<1>2. CASE HasCode(arr, c)
  <2> DEFINE s == FirstSlot(arr, c)
  <2>1. s \in Slots /\ arr[s] = c /\ c # 0
    BY <1>2, FirstSlotIs, CodeKinds
  <2>2. new = [arr EXCEPT ![s] = 0]
    BY <1>2 DEF HandleScanCode
  <2> HIDE DEF s
  <2>3. DOMAIN arr = Slots /\ new \in Tables /\ DOMAIN new = Slots /\ new[s] = 0
        /\ \A i \in Slots : i # s => new[i] = arr[i]
    BY <2>1, <2>2 DEF Tables
  <2>4. \A i \in Slots : i # s => arr[i] # c
    BY <2>1 DEF Distinct
  <2>5. Distinct(new)
    BY <2>1, <2>3 DEF Distinct
  <2>6. ASSUME NEW d \in Codes, d # c PROVE HasCode(new, d) <=> HasCode(arr, d)
    <3>1. d # 0
      BY <2>6, CodeKinds
    <3> QED BY <2>1, <2>3, <2>6, <3>1 DEF HasCode
  <2>7. ~HasCode(new, c)
    BY <2>1, <2>3, <2>4 DEF HasCode
  <2> QED BY <2>3, <2>5, <2>6, <2>7
<1> QED BY <1>1, <1>2

-----------------------------------------------------------------------------
(* The keyboard and its handler.  The library has it right of a code when  *)
(* arrPressed (unless it was full) and the flag of the program agree with  *)
(* the key.                                                                *)
KeyboardHas(k) ==
  k \in [wire : Seq(Byte), down : SUBSET PadKeys, events : Nat, full : BOOLEAN, second : BOOLEAN,
         prev : Codes \cup {0}, typed : Codes \cup {0}, arr : Tables, flags : [Directions -> BOOLEAN]]

CodesDown(k) == {j.code : j \in k.down}
Pending(k) == (IF k.second THEN <<Break>> ELSE <<>>) \o k.wire

IsRight(k, down, c) ==
  /\ HasCode(k.arr, c) => c \in down
  /\ ~k.full /\ c \in down => HasCode(k.arr, c)
  /\ c \in DOMAIN InputMap => (k.flags[InputMap[c]] <=> c \in down)
Right(k, down) == {c \in Codes : IsRight(k, down, c)}

KeyboardTrue(k) ==
  /\ KeyboardHas(k) /\ Distinct(k.arr)
  /\ \A c \in DOMAIN InputMap : c \notin Codes => ~k.flags[InputMap[c]]
  /\ Follows(Pending(k), Right(k, CodesDown(k)), CodesDown(k))

\* A flag that is set or cleared by the code of one key is no other's.
FlagsWith(k, c, v) == IF c \in DOMAIN InputMap THEN [k.flags EXCEPT ![InputMap[c]] = v] ELSE k.flags

LEMMA OneFlag ==
  ASSUME NEW k, KeyboardTrue(k), NEW c \in Codes, NEW v \in BOOLEAN
  PROVE  /\ FlagsWith(k, c, v) \in [Directions -> BOOLEAN]
         /\ c \in DOMAIN InputMap => FlagsWith(k, c, v)[InputMap[c]] = v
         /\ \A d \in DOMAIN InputMap : d # c => FlagsWith(k, c, v)[InputMap[d]] = k.flags[InputMap[d]]
<1>1. k.flags \in [Directions -> BOOLEAN]
  BY DEF KeyboardTrue, KeyboardHas
<1>2. /\ \A d \in DOMAIN InputMap : InputMap[d] \in Directions
      /\ \A d \in DOMAIN InputMap : d # c /\ c \in DOMAIN InputMap => InputMap[d] # InputMap[c]
  BY SketchAssumption
<1> QED BY <1>1, <1>2 DEF FlagsWith

\* What is still to be handled.
LEMMA PendingIs ==
  ASSUME NEW k, KeyboardHas(k)
  PROVE  /\ k.wire \in Seq(Byte) /\ Pending(k) \in Seq(Byte)
         /\ ~k.second => Pending(k) = k.wire
<1>1. k.wire \in Seq(Byte) /\ k.second \in BOOLEAN /\ <<Break>> \in Seq(Byte) /\ <<>> \in Seq(Byte)
  BY DEF KeyboardHas, Byte
<1>2. CASE k.second
  <2>1. Pending(k) = <<Break>> \o k.wire
    BY <1>2 DEF Pending
  <2> QED BY <1>1, <1>2, <2>1, ConcatProperties
<1>3. CASE ~k.second
  <2>1. Pending(k) = <<>> \o k.wire
    BY <1>3 DEF Pending
  <2>2. <<>> \o k.wire = k.wire
    BY <1>1, ConcatEmptySeq
  <2> QED BY <1>1, <1>3, <2>1, <2>2
<1> QED BY <1>1, <1>2, <1>3

LEMMA Regroup ==
  ASSUME NEW s \in Seq(Byte), NEW t \in Seq(Byte), NEW u \in Seq(Byte)
  PROVE  (s \o t) \o u = s \o (t \o u)
BY SMTT(30)

\* The bytes of one key are sent, which goes down or comes up; the rest is as it was.
LEMMA Sending ==
  ASSUME NEW k, KeyboardTrue(k), NEW n, KeyboardHas(n), NEW t \in Seq(Byte), NEW j \in PadKeys,
         CodesOf(t, j.code), n.wire = k.wire \o t, n.second = k.second, n.full = k.full,
         n.arr = k.arr, n.flags = k.flags,
         n.down = IF Released(t) THEN k.down \ {j} ELSE k.down \cup {j}
  PROVE  KeyboardTrue(n)
<1> DEFINE c == j.code
           down == CodesDown(k)
           new == CodesDown(n)
<1>1. c \in Codes
  BY DEF Codes
<1>2. KeyboardHas(k) /\ k.down \subseteq PadKeys /\ n.down \subseteq PadKeys /\ k.second \in BOOLEAN
  BY DEF KeyboardTrue, KeyboardHas
<1>3. \A d \in Codes : d # c => (d \in new <=> d \in down)
  BY <1>2 DEF CodesDown
<1>4. c \in new <=> ~Released(t)
  BY <1>2, SketchAssumption DEF CodesDown
<1>5. Pending(n) = Pending(k) \o t
  <2>1. k.wire \in Seq(Byte) /\ <<Break>> \in Seq(Byte) /\ <<>> \in Seq(Byte)
    BY <1>2, PendingIs DEF Byte
  <2>2. (<<Break>> \o k.wire) \o t = <<Break>> \o (k.wire \o t)
    BY <2>1, Regroup
  <2>3. (<<>> \o k.wire) \o t = <<>> \o (k.wire \o t)
    BY <2>1, Regroup
  <2> QED BY <2>2, <2>3 DEF Pending
<1>6. \A d \in Codes : d # c => (d \in Right(k, down) => d \in Right(n, new))
  BY <1>3 DEF Right, IsRight
<1>7. Follows(Pending(k), Right(k, down), down) /\ Pending(k) \in Seq(Byte)
  BY <1>2, PendingIs DEF KeyboardTrue
<1> HIDE DEF new, down, c
<1>8. Follows(Pending(k) \o t, Right(n, new), new)
  <2> DEFINE okn == Right(n, new)
             ok == Right(k, down)
             p == Pending(k)
  <2>1. /\ p \in Seq(Byte) /\ t \in Seq(Byte) /\ c \in Codes /\ CodesOf(t, c) /\ Follows(p, ok, down)
        /\ \A d \in Codes : d # c => (d \in ok => d \in okn) /\ (d \in new <=> d \in down)
        /\ c \in new <=> ~Released(t)
    BY <1>1, <1>3, <1>4, <1>6, <1>7 DEF c
  <2> HIDE DEF okn, ok, p
  <2>2. Follows(p \o t, okn, new)
    BY ONLY <2>1, AddCodes
  <2> QED BY <2>2 DEF okn, p
<1> QED BY <1>5, <1>8 DEF KeyboardTrue, new

LEMMA KeyEvents ==
  ASSUME KeyboardTrue(kb), NEW k \in PadKeys, KeyPress(k) \/ KeyRepeat(k) \/ KeyRelease(k)
  PROVE  KeyboardTrue(kb')
<1>1. KeyboardHas(kb) /\ kb.wire \in Seq(Byte) /\ kb.down \subseteq PadKeys /\ kb.events \in Nat
  BY DEF KeyboardTrue, KeyboardHas
<1>2. k.code \in Byte /\ Break \in Byte
  BY DEF Codes, Byte
<1> DEFINE press == Lead(k) \o <<k.code>>
           release == Lead(k) \o <<Break, k.code>>
<1>3. press \in Seq(Byte) /\ CodesOf(press, k.code) /\ ~Released(press)
  <2> DEFINE y == <<k.code>>
  <2>1. y \in Seq(Byte) /\ Len(y) = 1 /\ y[1] = k.code
    BY <1>2
  <2> HIDE DEF y
  <2>2. Lead(k) \o y \in Seq(Byte) /\ CodesOf(Lead(k) \o y, k.code) /\ ~Released(Lead(k) \o y)
    BY <2>1, SentCodes
  <2> QED BY <2>2 DEF y
<1>4. release \in Seq(Byte) /\ CodesOf(release, k.code) /\ Released(release)
  <2> DEFINE y == <<Break, k.code>>
  <2>1. y \in Seq(Byte) /\ Len(y) = 2 /\ y[1] = Break /\ y[2] = k.code
    BY <1>2
  <2> HIDE DEF y
  <2>2. Lead(k) \o y \in Seq(Byte) /\ CodesOf(Lead(k) \o y, k.code) /\ Released(Lead(k) \o y)
    BY <2>1, SentCodes
  <2> QED BY <2>2 DEF y
<1>5. Lead(k) \in Seq(Byte) /\ <<k.code>> \in Seq(Byte) /\ <<Break, k.code>> \in Seq(Byte)
  BY <1>2 DEF Lead, Byte
<1>6. /\ (kb.wire \o Lead(k)) \o <<k.code>> = kb.wire \o press
      /\ (kb.wire \o Lead(k)) \o <<Break, k.code>> = kb.wire \o release
  BY <1>1, <1>5, Regroup
<1> HIDE DEF press, release
<1>7. \A t \in Seq(Byte) : kb.wire \o t \in Seq(Byte)
  BY <1>1, ConcatProperties
<1>8. CASE KeyPress(k) \/ KeyRepeat(k)
  <2>1. /\ kb'.wire = kb.wire \o press /\ kb'.down = kb.down \cup {k}
        /\ kb' = [kb EXCEPT !.wire = kb.wire \o press, !.down = kb.down \cup {k}, !.events = kb.events + 1]
    <3>1. CASE KeyPress(k)
      BY <1>1, <1>6, <3>1 DEF KeyPress, KeyboardHas
    <3>2. CASE KeyRepeat(k)
      <4>1. kb.down = kb.down \cup {k} /\ kb' = [kb EXCEPT !.wire = kb.wire \o press, !.events = kb.events + 1]
        BY <1>6, <3>2 DEF KeyRepeat
      <4> QED BY <1>1, <4>1 DEF KeyboardHas
    <3> QED BY <1>8, <3>1, <3>2
  <2>2. KeyboardHas(kb') /\ kb'.second = kb.second /\ kb'.full = kb.full /\ kb'.arr = kb.arr /\ kb'.flags = kb.flags
    <3> DEFINE w == kb.wire \o press
               d == kb.down \cup {k}
               e == kb.events + 1
    <3>1. /\ w \in Seq(Byte) /\ d \in SUBSET PadKeys /\ e \in Nat
          /\ kb' = [kb EXCEPT !.wire = w, !.down = d, !.events = e]
      BY <1>1, <1>3, <1>7, <2>1
    <3> HIDE DEF w, d, e
    <3> QED BY <1>1, <3>1 DEF KeyboardHas
  <2> QED BY <1>3, <2>1, <2>2, Sending
<1>9. CASE KeyRelease(k)
  <2>1. kb' = [kb EXCEPT !.down = kb.down \ {k}, !.wire = kb.wire \o release, !.events = kb.events + 1]
    BY <1>6, <1>9 DEF KeyRelease
  <2>2. /\ kb'.wire = kb.wire \o release /\ kb'.down = kb.down \ {k}
        /\ KeyboardHas(kb') /\ kb'.second = kb.second /\ kb'.full = kb.full /\ kb'.arr = kb.arr /\ kb'.flags = kb.flags
    <3> DEFINE w == kb.wire \o release
               d == kb.down \ {k}
               e == kb.events + 1
    <3>1. /\ w \in Seq(Byte) /\ d \in SUBSET PadKeys /\ e \in Nat
          /\ kb' = [kb EXCEPT !.wire = w, !.down = d, !.events = e]
      <4>1. w \in Seq(Byte)
        BY <1>4, <1>7
      <4>2. d \in SUBSET PadKeys /\ e \in Nat
        BY <1>1
      <4>3. kb' = [kb EXCEPT !.wire = w, !.down = d, !.events = e]
        BY <2>1
      <4> QED BY <4>1, <4>2, <4>3
    <3> HIDE DEF w, d, e
    <3>2. /\ KeyboardHas(kb') /\ kb'.wire = w /\ kb'.down = d
          /\ kb'.second = kb.second /\ kb'.full = kb.full /\ kb'.arr = kb.arr /\ kb'.flags = kb.flags
      BY <1>1, <3>1 DEF KeyboardHas
    <3> QED BY <3>2 DEF w, d
  <2> QED BY <1>4, <2>2, Sending
<1> QED BY <1>8, <1>9

\* A code is handled, alone or behind a break.
LEMMA CodeHandled ==
  ASSUME NEW k, KeyboardTrue(k), NEW n, KeyboardHas(n), NEW c \in Codes, NEW v \in BOOLEAN,
         n.down = k.down, n.arr = HandleScanCode(k.arr, c, v),
         n.flags = FlagsWith(k, c, v),
         n.full = IF v /\ ~HasCode(k.arr, c) /\ ~HasCode(k.arr, 0) THEN TRUE ELSE k.full
  PROVE  /\ Distinct(n.arr) /\ CodesDown(n) = CodesDown(k)
         /\ \A d \in DOMAIN InputMap : d \notin Codes => ~n.flags[InputMap[d]]
         /\ \A d \in Codes : d # c /\ d \in Right(k, CodesDown(k)) => d \in Right(n, CodesDown(k))
         /\ (c \in CodesDown(k) <=> v) => c \in Right(n, CodesDown(k))
<1> DEFINE down == CodesDown(k)
<1>1. k.arr \in Tables /\ Distinct(k.arr) /\ k.full \in BOOLEAN
  BY DEF KeyboardTrue, KeyboardHas
<1>2. /\ Distinct(n.arr)
      /\ \A d \in Codes : d # c => (HasCode(n.arr, d) <=> HasCode(k.arr, d))
      /\ v => HasCode(n.arr, c) \/ (~HasCode(k.arr, c) /\ ~HasCode(k.arr, 0))
      /\ ~v => ~HasCode(n.arr, c)
  <2>1. CASE v
    <3>1. n.arr = HandleScanCode(k.arr, c, TRUE)
      BY <2>1 DEF HandleScanCode
    <3>2. Distinct(n.arr)
      BY <1>1, <3>1, Entered
    <3>3. \A d \in Codes : d # c => (HasCode(n.arr, d) <=> HasCode(k.arr, d))
      BY <1>1, <3>1, Entered
    <3>4. HasCode(n.arr, c) \/ (~HasCode(k.arr, c) /\ ~HasCode(k.arr, 0))
      BY <1>1, <3>1, Entered
    <3> QED BY <2>1, <3>2, <3>3, <3>4
  <2>2. CASE ~v
    <3>1. n.arr = HandleScanCode(k.arr, c, FALSE)
      BY <2>2 DEF HandleScanCode
    <3> QED BY <1>1, <2>2, <3>1, Removed
  <2> QED BY <2>1, <2>2
<1>3. /\ c \in DOMAIN InputMap => n.flags[InputMap[c]] = v
      /\ \A d \in DOMAIN InputMap : d # c => n.flags[InputMap[d]] = k.flags[InputMap[d]]
  BY OneFlag
<1>4. CodesDown(n) = down
  BY DEF CodesDown
<1>5. \A d \in DOMAIN InputMap : d \notin Codes => ~n.flags[InputMap[d]]
  BY <1>3 DEF KeyboardTrue
<1>6. n.full => k.full \/ (v /\ ~HasCode(k.arr, c) /\ ~HasCode(k.arr, 0))
  OBVIOUS
<1>7. k.full => n.full
  BY <1>1
<1> HIDE DEF down
<1>8. ASSUME NEW d \in Codes, d # c, IsRight(k, down, d)
      PROVE  IsRight(n, down, d)
  BY <1>2, <1>3, <1>7, <1>8 DEF IsRight
<1>9. ASSUME c \in down <=> v
      PROVE  IsRight(n, down, c)
  <2>1. HasCode(n.arr, c) => c \in down
    BY <1>2, <1>9
  <2>2. ~n.full /\ c \in down => HasCode(n.arr, c)
    BY <1>2, <1>9
  <2>3. c \in DOMAIN InputMap => (n.flags[InputMap[c]] <=> c \in down)
    BY <1>3, <1>9
  <2> QED BY <2>1, <2>2, <2>3 DEF IsRight
<1> QED BY <1>2, <1>4, <1>5, <1>8, <1>9 DEF Right, down

LEMMA KeyboardByte ==
  ASSUME NEW k, KeyboardTrue(k), k.wire # <<>>
  PROVE  KeyboardTrue(Keyboard_IRQ_Handler(k))
<1> DEFINE n == Keyboard_IRQ_Handler(k)
           w == Tail(k.wire)
           c == Head(k.wire)
           p == Pending(k)
           down == CodesDown(k)
           ok == Right(k, down)
<1>1. KeyboardHas(k) /\ Follows(p, ok, down) /\ BreaksPaired(p) /\ p \in Seq(Byte)
  BY PendingIs DEF KeyboardTrue, Follows
<1>2. /\ k.wire \in Seq(Byte) /\ w \in Seq(Byte) /\ c \in Byte /\ Len(k.wire) \in Nat /\ Len(k.wire) >= 1
      /\ c = k.wire[1]
  BY <1>1 DEF KeyboardHas
<1>3. k.second \in BOOLEAN /\ k.full \in BOOLEAN
  BY <1>1 DEF KeyboardHas
<1>4. k.second => c \in Codes
  <2> SUFFICES ASSUME k.second PROVE c \in Codes
    OBVIOUS
  <2>1. p = <<Break>> \o k.wire
    BY DEF Pending
  <2>2. Len(p) = 1 + Len(k.wire) /\ p[1] = Break /\ p[2] = c
    BY <1>2, <2>1
  <2>3. 1 \in 1 .. Len(p)
    BY <1>2, <2>2
  <2>4. p[1 + 1] \in Codes
    BY <1>1, <2>2, <2>3 DEF BreaksPaired
  <2> QED BY <2>2, <2>4
<1>5. c \in Codes \/ c = Prefix \/ c = Break
  BY <1>2 DEF Byte
<1>6. CASE c = Prefix
  <2>1. ~k.second /\ c \notin Codes /\ c # Break
    BY <1>3, <1>4, <1>6, CodeKinds DEF Prefix, Break
  <2>2. n = [k EXCEPT !.wire = w]
    BY <1>6 DEF Keyboard_IRQ_Handler
  <2> HIDE DEF n, w, c
  <2>3. /\ KeyboardHas(n) /\ n.wire = w /\ n.second = k.second /\ n.arr = k.arr /\ n.flags = k.flags
        /\ n.down = k.down /\ n.full = k.full
    BY <1>1, <1>2, <2>2 DEF KeyboardHas
  <2>4. CodesDown(n) = down /\ Right(n, down) = ok
    BY <2>3 DEF CodesDown, Right, IsRight
  <2>5. p = k.wire /\ Pending(n) = w
    BY <1>1, <2>1, <2>3, PendingIs
  <2>6. Follows(Tail(p), ok, down)
    <3>1. p # <<>> /\ Head(p) # Break /\ Head(p) \notin Codes
      BY <2>1, <2>5 DEF c
    <3> HIDE DEF p, ok, down
    <3> QED BY <1>1, <3>1, DropByte
  <2> QED BY <2>3, <2>4, <2>5, <2>6 DEF KeyboardTrue, w, n
<1>7. CASE c = Break
  <2>1. ~k.second /\ c # Prefix
    BY <1>3, <1>4, <1>7, CodeKinds DEF Prefix, Break
  <2>2. n = [k EXCEPT !.wire = w, !.second = TRUE]
    BY <1>7, <2>1 DEF Keyboard_IRQ_Handler
  <2> HIDE DEF n, w, c
  <2>3. /\ KeyboardHas(n) /\ n.wire = w /\ n.second /\ n.arr = k.arr /\ n.flags = k.flags
        /\ n.down = k.down /\ n.full = k.full
    BY <1>1, <1>2, <2>2 DEF KeyboardHas
  <2>4. CodesDown(n) = down /\ Right(n, down) = ok
    BY <2>3 DEF CodesDown, Right, IsRight
  <2>5. p = k.wire /\ Pending(n) = <<Break>> \o w
    BY <1>1, <2>1, <2>3, PendingIs DEF Pending
  <2>6. <<Break>> \o w = k.wire
    BY <1>2, <1>7 DEF w, c
  <2> QED BY <1>1, <2>3, <2>4, <2>5, <2>6 DEF KeyboardTrue, n
<1>8. CASE c \in Codes /\ k.second
  <2>1. c # Prefix /\ c # Break
    BY <1>8, CodeKinds
  <2> DEFINE flags == FlagsWith(k, c, FALSE)
             typed == IF c = k.prev THEN c ELSE k.typed
             arr == HandleScanCode(k.arr, c, FALSE)
  <2>2. n = [k EXCEPT !.wire = w, !.second = FALSE, !.flags = flags, !.typed = typed, !.arr = arr]
    BY <1>1, <1>8, <2>1 DEF Keyboard_IRQ_Handler, KeyboardHas, FlagsWith
  <2>3. flags \in [Directions -> BOOLEAN] /\ typed \in Codes \cup {0} /\ arr \in Tables
    <3>1. flags \in [Directions -> BOOLEAN]
      BY <1>8, OneFlag
    <3>2. typed \in Codes \cup {0}
      BY <1>1, <1>8 DEF KeyboardHas
    <3>3. k.arr \in Tables /\ Distinct(k.arr)
      BY DEF KeyboardTrue, KeyboardHas
    <3>4. arr \in Tables
      BY <1>8, <3>3, Removed
    <3> QED BY <3>1, <3>2, <3>4
  <2>4. arr = HandleScanCode(k.arr, c, FALSE)
        /\ flags = FlagsWith(k, c, FALSE)
    OBVIOUS
  <2> HIDE DEF n, w, c, flags, typed, arr
  <2>5. /\ KeyboardHas(n) /\ n.wire = w /\ ~n.second /\ n.arr = arr /\ n.flags = flags
        /\ n.down = k.down /\ n.full = k.full
    BY <1>1, <1>2, <2>2, <2>3 DEF KeyboardHas
  <2>6. /\ Distinct(n.arr) /\ CodesDown(n) = down
        /\ \A d \in DOMAIN InputMap : d \notin Codes => ~n.flags[InputMap[d]]
        /\ \A d \in Codes : d # c /\ d \in ok => d \in Right(n, down)
        /\ (c \in down <=> FALSE) => c \in Right(n, down)
    BY <1>8, <2>4, <2>5, CodeHandled
  <2>7. p = <<Break>> \o k.wire /\ Pending(n) = w
    BY <1>8, <2>5, PendingIs DEF Pending
  <2>8. Len(p) >= 2 /\ p[1] = Break /\ p[2] = c /\ Tail(p) = k.wire
    <3> DEFINE u == k.wire
    <3>1. u \in Seq(Byte) /\ Len(u) \in Nat /\ Len(u) >= 1 /\ c = u[1] /\ p = <<Break>> \o u /\ Break \in Byte
      BY <1>2, <2>7 DEF Byte
    <3> HIDE DEF u, p
    <3>2. Len(p) >= 2 /\ p[1] = Break /\ p[2] = c
      BY ONLY <3>1
    <3>3. Tail(p) = u
      BY ONLY <3>1
    <3> QED BY <3>2, <3>3 DEF u
  <2>9. Follows(Tail(Tail(p)), Right(n, down), down)
    <3> DEFINE new == Right(n, down)
    <3>1. /\ \A d \in Codes : d # p[2] /\ d \in ok => d \in new
          /\ p[2] \in Codes \ down => p[2] \in new
      BY <2>6, <2>8
    <3> HIDE DEF p, ok, down, new
    <3> QED BY <1>1, <2>8, <3>1, DropRelease DEF new
  <2> QED BY <2>5, <2>6, <2>7, <2>8, <2>9 DEF KeyboardTrue, w, n
<1>9. CASE c \in Codes /\ ~k.second
  <2>1. c # Prefix /\ c # Break
    BY <1>9, CodeKinds
  <2> DEFINE flags == FlagsWith(k, c, TRUE)
             full == k.full \/ (~HasCode(k.arr, c) /\ ~HasCode(k.arr, 0))
             arr == HandleScanCode(k.arr, c, TRUE)
  <2>2. n = [k EXCEPT !.wire = w, !.flags = flags, !.prev = c, !.full = full, !.arr = arr]
    BY <1>1, <1>9, <2>1 DEF Keyboard_IRQ_Handler, KeyboardHas, FlagsWith
  <2>3. flags \in [Directions -> BOOLEAN] /\ full \in BOOLEAN /\ arr \in Tables
    <3>1. flags \in [Directions -> BOOLEAN]
      BY <1>9, OneFlag
    <3>2. full \in BOOLEAN
      OBVIOUS
    <3>3. k.arr \in Tables /\ Distinct(k.arr)
      BY DEF KeyboardTrue, KeyboardHas
    <3> QED BY <1>9, <3>1, <3>2, <3>3, Entered
  <2>4. arr = HandleScanCode(k.arr, c, TRUE)
        /\ flags = FlagsWith(k, c, TRUE)
        /\ full = (IF TRUE /\ ~HasCode(k.arr, c) /\ ~HasCode(k.arr, 0) THEN TRUE ELSE k.full)
    BY <1>3
  <2> HIDE DEF n, w, c, flags, full, arr
  <2>5. /\ KeyboardHas(n) /\ n.wire = w /\ n.second = k.second /\ n.arr = arr /\ n.flags = flags
        /\ n.down = k.down /\ n.full = full
    BY <1>1, <1>2, <1>9, <2>2, <2>3 DEF KeyboardHas
  <2>6. /\ Distinct(n.arr) /\ CodesDown(n) = down
        /\ \A d \in DOMAIN InputMap : d \notin Codes => ~n.flags[InputMap[d]]
        /\ \A d \in Codes : d # c /\ d \in ok => d \in Right(n, down)
        /\ (c \in down <=> TRUE) => c \in Right(n, down)
    BY <1>9, <2>4, <2>5, CodeHandled
  <2>7. p = k.wire /\ Pending(n) = w
    BY <1>1, <1>9, <2>5, PendingIs
  <2>8. Follows(Tail(p), Right(n, down), down)
    <3> DEFINE new == Right(n, down)
    <3>1. /\ p # <<>> /\ Head(p) # Break
          /\ \A d \in Codes : d # Head(p) /\ d \in ok => d \in new
          /\ Head(p) \in Codes \cap down => Head(p) \in new
      BY <2>1, <2>6, <2>7 DEF c
    <3> HIDE DEF p, ok, down, new
    <3> QED BY <1>1, <3>1, DropByte DEF new
  <2> QED BY <2>5, <2>6, <2>7, <2>8 DEF KeyboardTrue, w, n
<1> QED BY <1>3, <1>5, <1>6, <1>7, <1>8, <1>9

LEMMA KeyboardStarts == KeyboardTrue(KeyboardInit)
<1> DEFINE k == KeyboardInit
<1>1. Pending(k) = <<>> /\ CodesDown(k) = {} /\ \A i \in 1 .. Len(<<>>) : FALSE
  BY DEF Pending, KeyboardInit, CodesDown
<1>2. \A c \in Codes \cup DOMAIN InputMap : c \in DOMAIN InputMap => ~k.flags[InputMap[c]]
  BY SketchAssumption DEF KeyboardInit
<1>3. k.arr \in Tables /\ Distinct(k.arr) /\ \A c \in Codes : ~HasCode(k.arr, c)
  BY CodeKinds DEF KeyboardInit, Tables, Slots, Distinct, HasCode
<1>4. KeyboardHas(k)
  BY <1>3 DEF KeyboardInit, KeyboardHas
<1>5. Right(k, {}) = Codes
  BY <1>2, <1>3 DEF Right, IsRight
<1>6. Follows(<<>>, Codes, {})
  BY <1>1 DEF Follows, BreaksPaired, Told
<1> QED BY <1>1, <1>2, <1>3, <1>4, <1>5, <1>6 DEF KeyboardTrue

\* When all bytes are handled, what the library says is so.
LEMMA PressedDown == KeyboardTrue(kb) => PressedAreDown
<1> SUFFICES ASSUME KeyboardTrue(kb), kb.wire = <<>>
             PROVE  /\ PressedCodes \subseteq DownCodes
                    /\ \A i, j \in DOMAIN kb.arr : (i # j /\ kb.arr[i] = kb.arr[j]) => kb.arr[i] = 0
                    /\ ~kb.full => PressedCodes = DownCodes
                    /\ \A c \in DOMAIN InputMap : kb.flags[InputMap[c]] = (c \in DownCodes)
  BY DEF PressedAreDown
<1>1. /\ KeyboardHas(kb) /\ kb.arr \in Tables /\ DOMAIN kb.arr = Slots /\ Distinct(kb.arr) /\ kb.full \in BOOLEAN
      /\ kb.second \in BOOLEAN /\ kb.flags \in [Directions -> BOOLEAN] /\ kb.down \subseteq PadKeys
  BY DEF KeyboardTrue, KeyboardHas, Tables
<1>2. DownCodes = CodesDown(kb) /\ DownCodes \subseteq Codes
  BY <1>1 DEF DownCodes, CodesDown, Codes
<1>3. Follows(Pending(kb), Right(kb, DownCodes), DownCodes)
  BY <1>2 DEF KeyboardTrue
<1>4. ~kb.second
  <2> SUFFICES ASSUME kb.second PROVE FALSE
    OBVIOUS
  <2>1. Pending(kb) = <<Break>>
    BY DEF Pending
  <2> QED BY <1>3, <2>1 DEF Follows, BreaksPaired
<1>5. Pending(kb) = <<>>
  BY <1>4 DEF Pending
<1>6. ASSUME NEW c \in Codes PROVE IsRight(kb, DownCodes, c)
  <2>1. ~Occurs(<<>>, c)
    BY DEF Occurs
  <2> QED BY <1>3, <1>5, <2>1 DEF Follows, Told, Right
<1>7. \A c \in Codes : c \in PressedCodes <=> HasCode(kb.arr, c)
  BY <1>1, CodeKinds DEF PressedCodes, HasCode
<1>8. PressedCodes \subseteq Codes
  BY <1>1 DEF PressedCodes, Tables
<1>9. PressedCodes \subseteq DownCodes /\ (~kb.full => PressedCodes = DownCodes)
  BY <1>2, <1>6, <1>7, <1>8 DEF IsRight
<1>10. ASSUME NEW c \in DOMAIN InputMap
       PROVE  kb.flags[InputMap[c]] = (c \in DownCodes)
  <2>1. kb.flags[InputMap[c]] \in BOOLEAN
    BY <1>1, SketchAssumption
  <2>2. CASE c \in Codes
    BY <1>6, <2>1, <2>2 DEF IsRight
  <2>3. CASE c \notin Codes
    BY <1>2, <2>1, <2>3 DEF KeyboardTrue
  <2> QED BY <2>2, <2>3
<1> QED BY <1>1, <1>9, <1>10 DEF Distinct

-----------------------------------------------------------------------------
(* The mouse.  The bytes the handler has of a packet and those on the wire *)
(* are the ends of the packets sent, so the number of the packet of each   *)
(* is known from its place; the packets whose motion was delivered have    *)
(* the numbers up to LastX and LastY.                                      *)
Arrived == [b : {p[n] : p \in PadPackets, n \in 1..3}, id : Nat]

LastX(m) == m.sent - ((Len(m.packet) + Len(m.wire) + 1) \div 3)
LastY(m) == m.sent - ((Len(m.packet) + Len(m.wire)) \div 3)

MouseHas(m) ==
  /\ DOMAIN m = {"wire", "sent", "packet", "buttons", "posx", "posy", "offx", "offy"}
  /\ m.wire \in Seq(Arrived) /\ m.packet \in Seq(Arrived) /\ Len(m.packet) <= 2 /\ m.sent \in Nat
  /\ LastX(m) \in Nat /\ LastY(m) \in Nat
  /\ m.offx.id \in Int /\ m.offx.id <= LastX(m)
  /\ m.offy.id \in Int /\ m.offy.id <= LastY(m)

Numbered(s, last) == \A j \in 1 .. Len(s) : s[j].id = last - ((Len(s) - j) \div 3)

\* The program takes the motion of a packet once: what it has taken is older than the
\* offset that is there, but for the time until it clears it.
PenHas(q, m) ==
  /\ DOMAIN q = {"at", "x", "y", "colour", "buffer", "hw", "dot", "took", "twice"}
  /\ q.at \in {"frame", "exit", "keys", "x", "y", "clear", "right", "draw"}
  /\ \A t \in q.took : /\ t[1] = "x" => t[2] \in Int /\ t[2] <= LastX(m)
                       /\ t[1] = "y" => t[2] \in Int /\ t[2] <= LastY(m)
  /\ q.at \notin {"y", "clear"} /\ m.offx.id # 0 => <<"x", m.offx.id>> \notin q.took
  /\ q.at # "clear" /\ m.offy.id # 0 => <<"y", m.offy.id>> \notin q.took
  /\ ~q.twice

MotionInv == MouseHas(ms) /\ Numbered(ms.packet \o ms.wire, ms.sent) /\ PenHas(pen, ms)

LEMMA MotionStarts == ASSUME SketchInit PROVE MotionInv
<1>1. PICK rest \in 0..2, p \in PadPackets : ms = install_irq_handler(rest, p)
  BY DEF SketchInit
<1> DEFINE w == [n \in 1..rest |-> [b |-> p[n + 3 - rest], id |-> 1]]
<1>2. w \in Seq(Arrived) /\ Len(w) = rest /\ \A n \in 1 .. rest : w[n].id = 1
  <2>1. \A n \in 1 .. rest : n + 3 - rest \in 1 .. 3
    OBVIOUS
  <2>2. \A n \in 1 .. rest : [b |-> p[n + 3 - rest], id |-> 1] \in Arrived
    BY <2>1 DEF Arrived
  <2>3. w \in [1 .. rest -> Arrived]
    BY <2>2
  <2> QED BY <2>3
<1>3. /\ DOMAIN ms = {"wire", "sent", "packet", "buttons", "posx", "posy", "offx", "offy"}
      /\ ms.wire = w /\ ms.packet = <<>> /\ ms.sent = 1 /\ ms.offx.id = 0 /\ ms.offy.id = 0
  BY <1>1 DEF install_irq_handler, Still
<1> HIDE DEF w
<1>4. ms.packet \in Seq(Arrived) /\ Len(ms.packet) = 0 /\ <<>> \o w = w
  BY <1>2, <1>3, ConcatEmptySeq
<1>5. LastX(ms) \in {0, 1} /\ LastY(ms) = 1
  BY <1>2, <1>3, <1>4 DEF LastX, LastY
<1>6. MouseHas(ms)
  BY <1>2, <1>3, <1>4, <1>5 DEF MouseHas
<1>7. Numbered(ms.packet \o ms.wire, ms.sent)
  BY <1>2, <1>3, <1>4 DEF Numbered
<1>8. PenHas(pen, ms)
  BY <1>3 DEF PenHas, SketchInit, PenStart
<1> QED BY <1>6, <1>7, <1>8 DEF MotionInv

LEMMA Arriving ==
  ASSUME NEW s \in Seq(Arrived), NEW t \in Seq(Arrived)
  PROVE  /\ s \o t \in Seq(Arrived) /\ Len(s) \in Nat /\ Len(t) \in Nat /\ Len(s \o t) = Len(s) + Len(t)
         /\ \A j \in 1 .. Len(s) + Len(t) : (s \o t)[j] = IF j <= Len(s) THEN s[j] ELSE t[j - Len(s)]
BY ConcatProperties, LenProperties, Zenon

LEMMA ArrivingRegrouped ==
  ASSUME NEW s \in Seq(Arrived), NEW t \in Seq(Arrived), NEW u \in Seq(Arrived)
  PROVE  (s \o t) \o u = s \o (t \o u)
BY SMTT(30)

\* Three bytes of one more packet.
LEMMA NumberedMore ==
  ASSUME NEW s \in Seq(Arrived), NEW t \in Seq(Arrived), Len(t) = 3, NEW last \in Nat,
         Numbered(s, last), \A n \in 1 .. 3 : t[n].id = last + 1
  PROVE  Numbered(s \o t, last + 1)
<1> DEFINE l == Len(s)
           q == s \o t
<1>1. l \in Nat /\ Len(q) = l + 3 /\ \A j \in 1 .. l + 3 : q[j] = IF j <= l THEN s[j] ELSE t[j - l]
  <2>1. /\ Len(s) \in Nat /\ Len(q) = Len(s) + Len(t)
        /\ \A j \in 1 .. Len(s) + Len(t) : q[j] = IF j <= Len(s) THEN s[j] ELSE t[j - Len(s)]
    BY Arriving
  <2> HIDE DEF q
  <2> QED BY <2>1
<1>2. \A j \in 1 .. l : s[j].id = last - ((l - j) \div 3)
  BY DEF Numbered
<1> HIDE DEF l, q
<1>3. ASSUME NEW j \in 1 .. l + 3
      PROVE  q[j].id = (last + 1) - (((l + 3) - j) \div 3)
  <2>1. CASE j <= l
    <3>3. j \in 1 .. l
      BY <1>1, <2>1
    <3>4. q[j] = s[j]
      BY <1>1, <2>1
    <3>1. q[j].id = last - ((l - j) \div 3)
      BY <1>2, <3>3, <3>4
    <3>2. ((l + 3) - j) \div 3 = ((l - j) \div 3) + 1 /\ (l - j) \div 3 \in Int
      BY ONLY <1>1, <3>3
    <3> DEFINE d == (l - j) \div 3
    <3>5. d \in Int /\ last \in Nat /\ q[j].id = last - d /\ ((l + 3) - j) \div 3 = d + 1
      BY <3>1, <3>2
    <3> HIDE DEF d
    <3> QED BY ONLY <3>5
  <2>2. CASE j > l
    <3>1. j - l \in 1 .. 3 /\ q[j].id = last + 1
      BY <1>1, <2>2
    <3>2. ((l + 3) - j) \div 3 = 0
      BY <1>1, <2>2
    <3> QED BY <3>1, <3>2
  <2> QED BY <1>1, <2>1, <2>2
<1> QED BY <1>1, <1>3 DEF Numbered, q

\* A packet is sent.
LEMMA MotionSent ==
  ASSUME MotionInv, NEW p \in PadPackets, MouseMove(p)
  PROVE  MotionInv'
<1> DEFINE t == [n \in 1..3 |-> [b |-> p[n], id |-> ms.sent + 1]]
           s == ms.packet \o ms.wire
<1>1. /\ MouseHas(ms) /\ ms.wire \in Seq(Arrived) /\ ms.packet \in Seq(Arrived) /\ ms.sent \in Nat
      /\ Len(ms.wire) \in Nat /\ Len(ms.packet) \in Nat
  BY DEF MotionInv, MouseHas
<1>2. t \in Seq(Arrived) /\ Len(t) = 3 /\ \A n \in 1 .. 3 : t[n].id = ms.sent + 1
  <2>1. \A n \in 1 .. 3 : [b |-> p[n], id |-> ms.sent + 1] \in Arrived
    BY <1>1 DEF Arrived
  <2>2. t \in [1 .. 3 -> Arrived]
    BY <2>1
  <2> QED BY <2>2
<1>3. ms' = [ms EXCEPT !.wire = ms.wire \o t, !.sent = ms.sent + 1] /\ pen' = pen
  BY DEF MouseMove
<1> HIDE DEF t
<1> DEFINE w == ms.wire \o t
           e == ms.sent + 1
<1>4. w \in Seq(Arrived) /\ Len(w) = Len(ms.wire) + 3 /\ Len(w) \in Nat /\ e \in Nat /\ e = ms.sent + 1
  <2>1. w \in Seq(Arrived) /\ Len(w) = Len(ms.wire) + Len(t)
    BY <1>1, <1>2, Arriving
  <2> QED BY <1>1, <1>2, <2>1
<1>5. ms.packet \o w = s \o t /\ s \in Seq(Arrived)
  BY <1>1, <1>2, ArrivingRegrouped, Arriving
<1>6. ms' = [ms EXCEPT !.wire = w, !.sent = e]
  BY <1>3
<1> HIDE DEF w, e
<1>7. /\ ms'.wire = w /\ ms'.packet = ms.packet /\ ms'.sent = e /\ ms'.offx = ms.offx /\ ms'.offy = ms.offy
      /\ DOMAIN ms' = DOMAIN ms
  BY <1>1, <1>6 DEF MouseHas
<1>8. LastX(ms') = LastX(ms) /\ LastY(ms') = LastY(ms)
  <2> DEFINE l == Len(ms.packet) + Len(ms.wire)
  <2> DEFINE lp == Len(ms.packet)
             lw == Len(ms.wire)
  <2>1. l \in Nat /\ Len(ms'.packet) + Len(ms'.wire) = l + 3
    <3>1. lp \in Nat /\ lw \in Nat /\ Len(ms'.packet) = lp /\ Len(ms'.wire) = lw + 3
      BY <1>1, <1>4, <1>7
    <3> HIDE DEF lp, lw
    <3>2. lp + lw \in Nat /\ Len(ms'.packet) + Len(ms'.wire) = (lp + lw) + 3
      BY ONLY <3>1
    <3> QED BY <3>2 DEF lp, lw
  <2>2. LastX(ms) = ms.sent - ((l + 1) \div 3) /\ LastY(ms) = ms.sent - (l \div 3)
    BY DEF LastX, LastY
  <2> HIDE DEF l
  <2>4. LastX(ms') = e - (((l + 3) + 1) \div 3) /\ LastY(ms') = e - ((l + 3) \div 3)
    BY <1>7, <2>1 DEF LastX, LastY
  <2>3. ((l + 3) + 1) \div 3 = ((l + 1) \div 3) + 1 /\ (l + 3) \div 3 = (l \div 3) + 1
    BY <2>1
  <2>5. (l + 1) \div 3 \in Int /\ l \div 3 \in Int
    BY <2>1
  <2> DEFINE a == (l + 1) \div 3
             c == l \div 3
  <2>6. a \in Int /\ c \in Int /\ LastX(ms) = ms.sent - a /\ LastY(ms) = ms.sent - c
        /\ LastX(ms') = e - (a + 1) /\ LastY(ms') = e - (c + 1)
    BY <2>2, <2>3, <2>4, <2>5
  <2> HIDE DEF a, c
  <2>7. ms.sent \in Nat /\ e = ms.sent + 1
    BY <1>1, <1>4
  <2> QED BY ONLY <2>6, <2>7
<1>9. MouseHas(ms')
  BY <1>1, <1>4, <1>7, <1>8 DEF MouseHas
<1>10. Numbered(ms'.packet \o ms'.wire, ms'.sent)
  <2>1. Numbered(s, ms.sent)
    BY DEF MotionInv
  <2> HIDE DEF s
  <2>2. Numbered(s \o t, ms.sent + 1)
    BY <1>1, <1>2, <1>5, <2>1, NumberedMore
  <2> QED BY <1>4, <1>5, <1>7, <2>2
<1>11. PenHas(pen', ms')
  BY <1>3, <1>7, <1>8 DEF MotionInv, PenHas
<1> QED BY <1>9, <1>10, <1>11 DEF MotionInv

\* The byte taken joins the bytes of its packet.
LEMMA Taking ==
  ASSUME NEW p \in Seq(Arrived), NEW w \in Seq(Arrived), w # <<>>
  PROVE  /\ Append(p, Head(w)) \in Seq(Arrived) /\ Len(Append(p, Head(w))) = Len(p) + 1
         /\ Tail(w) \in Seq(Arrived) /\ Len(Tail(w)) = Len(w) - 1 /\ Len(w) \in Nat /\ Len(p) \in Nat /\ Len(w) >= 1
         /\ Append(p, Head(w)) \o Tail(w) = p \o w
<1> DEFINE x == <<Head(w)>>
           r == Tail(w)
<1>1. x \in Seq(Arrived) /\ r \in Seq(Arrived) /\ x \o r = w /\ Append(p, Head(w)) = p \o x
  OBVIOUS
<1>2. /\ Append(p, Head(w)) \in Seq(Arrived) /\ Len(Append(p, Head(w))) = Len(p) + 1
      /\ Len(r) = Len(w) - 1 /\ Len(w) \in Nat /\ Len(p) \in Nat /\ Len(w) >= 1
  OBVIOUS
<1> HIDE DEF x, r
<1>3. (p \o x) \o r = p \o (x \o r)
  BY <1>1, ArrivingRegrouped
<1> QED BY <1>1, <1>2, <1>3 DEF r

\* Three bytes fewer.
LEMMA NumberedLess ==
  ASSUME NEW g \in Seq(Arrived), Len(g) = 3, NEW r \in Seq(Arrived), NEW last \in Nat,
         Numbered(g \o r, last)
  PROVE  /\ Numbered(<<>> \o r, last)
         /\ g[2].id = last - ((Len(r) + 1) \div 3)
         /\ g[3].id = last - (Len(r) \div 3)
<1> DEFINE l == Len(r)
           q == g \o r
<1>1. l \in Nat /\ Len(q) = 3 + l /\ \A j \in 1 .. 3 + l : q[j] = IF j <= 3 THEN g[j] ELSE r[j - 3]
  <2>1. /\ Len(r) \in Nat /\ Len(q) = Len(g) + Len(r)
        /\ \A j \in 1 .. Len(g) + Len(r) : q[j] = IF j <= Len(g) THEN g[j] ELSE r[j - Len(g)]
    BY Arriving
  <2> HIDE DEF q
  <2> QED BY <2>1
<1>2. \A j \in 1 .. 3 + l : q[j].id = last - (((3 + l) - j) \div 3)
  BY <1>1 DEF Numbered
<1>3. <<>> \o r = r
  BY ConcatEmptySeq
<1> HIDE DEF l, q
<1>4. ASSUME NEW j \in 1 .. l
      PROVE  r[j].id = last - ((l - j) \div 3)
  <2>1. j + 3 \in 1 .. 3 + l /\ q[j + 3] = r[j]
    BY <1>1
  <2>2. r[j].id = last - (((3 + l) - (j + 3)) \div 3)
    BY <1>2, <2>1
  <2>3. (3 + l) - (j + 3) = l - j
    BY <1>1
  <2> QED BY <2>2, <2>3
<1>5. g[2].id = last - ((l + 1) \div 3)
  <2>1. 2 \in 1 .. 3 + l /\ q[2] = g[2] /\ (3 + l) - 2 = l + 1
    BY <1>1
  <2> QED BY <1>2, <2>1
<1>6. g[3].id = last - (l \div 3)
  <2>1. 3 \in 1 .. 3 + l /\ q[3] = g[3] /\ (3 + l) - 3 = l
    BY <1>1
  <2> QED BY <1>2, <2>1
<1> QED BY <1>3, <1>4, <1>5, <1>6 DEF Numbered, l

LEMMA MotionByte ==
  ASSUME MotionInv, ms.wire # <<>>, ms' = Mouse_IRQ_Handler(ms), pen' = pen
  PROVE  MotionInv'
<1> DEFINE got == Append(ms.packet, Head(ms.wire))
           rest == Tail(ms.wire)
<1>1. /\ MouseHas(ms) /\ ms.wire \in Seq(Arrived) /\ ms.packet \in Seq(Arrived) /\ ms.sent \in Nat
      /\ Len(ms.packet) <= 2
      /\ DOMAIN ms = {"wire", "sent", "packet", "buttons", "posx", "posy", "offx", "offy"}
  BY DEF MotionInv, MouseHas
<1>2. /\ got \in Seq(Arrived) /\ Len(got) = Len(ms.packet) + 1 /\ Len(ms.packet) \in Nat
      /\ rest \in Seq(Arrived) /\ Len(rest) = Len(ms.wire) - 1 /\ Len(ms.wire) \in Nat /\ Len(ms.wire) >= 1
      /\ got \o rest = ms.packet \o ms.wire
  BY <1>1, Taking
<1>3. Numbered(got \o rest, ms.sent)
  BY <1>2 DEF MotionInv
<1>4. PenHas(pen, ms)
  BY DEF MotionInv
<1> DEFINE dx == Displacement(got[2].b, (got[1].b \div 16) % 2)
           dy == Displacement(got[3].b, (got[1].b \div 32) % 2)
           buttons == got[1].b % 8
           next == IF Len(got) = 3 THEN <<>> ELSE got
           m1 == [ms EXCEPT !.wire = rest, !.packet = next]
<1>5. CASE Len(got) < 3
  <2>7. ms' = [ms EXCEPT !.wire = rest, !.packet = next]
    BY <1>5, Zenon DEF Mouse_IRQ_Handler
  <2> HIDE DEF got, rest
  <2>9. Len(got) \in Int
    BY <1>2
  <2>8. next = got
    BY ONLY <1>5, <2>9
  <2>1. ms' = [ms EXCEPT !.wire = rest, !.packet = got]
    BY <2>7, <2>8
  <2> HIDE DEF next
  <2>2. /\ ms'.wire = rest /\ ms'.packet = got /\ ms'.sent = ms.sent /\ ms'.offx = ms.offx /\ ms'.offy = ms.offy
        /\ DOMAIN ms' = DOMAIN ms
    BY <1>1, <2>1
  <2>3. Len(ms'.packet) + Len(ms'.wire) = Len(ms.packet) + Len(ms.wire) /\ Len(ms'.packet) <= 2
    <3> DEFINE lp == Len(ms.packet)
               lw == Len(ms.wire)
    <3>1. /\ lp \in Nat /\ lw \in Nat /\ Len(ms'.packet) = lp + 1 /\ Len(ms'.wire) = lw - 1
          /\ Len(ms'.packet) < 3
      <4>1. lp \in Nat /\ lw \in Nat
        BY <1>2
      <4>2. Len(ms'.packet) = lp + 1 /\ Len(ms'.packet) < 3
        BY <1>2, <1>5, <2>2
      <4>3. Len(ms'.wire) = lw - 1
        BY <1>2, <2>2
      <4> QED BY <4>1, <4>2, <4>3
    <3> HIDE DEF lp, lw
    <3>2. Len(ms'.packet) + Len(ms'.wire) = lp + lw /\ Len(ms'.packet) <= 2
      BY ONLY <3>1
    <3> QED BY <3>2 DEF lp, lw
  <2>4. LastX(ms') = LastX(ms) /\ LastY(ms') = LastY(ms)
    BY <2>2, <2>3 DEF LastX, LastY
  <2>5. MouseHas(ms')
    BY <1>1, <1>2, <2>2, <2>3, <2>4 DEF MouseHas
  <2>6. PenHas(pen', ms')
    BY <1>4, <2>2, <2>4 DEF PenHas
  <2> QED BY <1>3, <2>2, <2>5, <2>6 DEF MotionInv
<1>6. CASE Len(got) = 3
  <2> DEFINE ox == [v |-> dx, id |-> got[2].id]
             oy == [v |-> dy, id |-> got[3].id]
  <2> DEFINE posx == Clamp(m1.posx + dx, PosMax)
             posy == Clamp(m1.posy + dy, PosMax)
  <2>14. ms' = [m1 EXCEPT !.buttons = buttons, !.posx = posx, !.posy = posy, !.offx = ox, !.offy = oy]
    <3>1. ~(Len(got) < 3)
      BY <1>6
    <3> QED BY <3>1, Zenon DEF Mouse_IRQ_Handler
  <2>2. ox.id = got[2].id /\ oy.id = got[3].id
    OBVIOUS
  <2> HIDE DEF buttons, posx, posy, ox, oy
  <2> HIDE DEF dx, dy
  <2>15. next = <<>>
    BY <1>6
  <2> HIDE DEF got, rest, next
  <2>1. /\ DOMAIN m1 = DOMAIN ms /\ m1.wire = rest /\ m1.packet = <<>> /\ m1.sent = ms.sent
    BY <1>1, <2>15
  <2> HIDE DEF m1
  <2>3. /\ ms'.wire = rest /\ ms'.packet = <<>> /\ ms'.sent = ms.sent /\ ms'.offx = ox /\ ms'.offy = oy
        /\ DOMAIN ms' = DOMAIN ms
    BY <1>1, <2>1, <2>14
  <2> DEFINE l == Len(rest)
  <2>4. l \in Nat /\ Len(ms'.packet) + Len(ms'.wire) = l /\ Len(ms.packet) + Len(ms.wire) = l + 3
    <3>1. Len(<<>>) = 0
      OBVIOUS
    <3> DEFINE lp == Len(ms.packet)
               lw == Len(ms.wire)
    <3>2. /\ lp \in Nat /\ lw \in Nat /\ lw >= 1 /\ lp + 1 = 3 /\ l = lw - 1
          /\ Len(ms'.packet) = 0 /\ Len(ms'.wire) = l
      BY <1>2, <1>6, <2>3, <3>1
    <3> HIDE DEF lp, lw, l
    <3>3. l \in Nat /\ Len(ms'.packet) + Len(ms'.wire) = l /\ lp + lw = l + 3
      BY ONLY <3>2
    <3> QED BY <3>3 DEF lp, lw
  <2>5. /\ Numbered(<<>> \o rest, ms.sent)
        /\ got[2].id = ms.sent - ((l + 1) \div 3) /\ got[3].id = ms.sent - (l \div 3)
    BY <1>1, <1>2, <1>3, <1>6, NumberedLess
  <2>6. LastX(ms) = ms.sent - (((l + 3) + 1) \div 3) /\ LastY(ms) = ms.sent - ((l + 3) \div 3)
    BY <2>4 DEF LastX, LastY
  <2>7. LastX(ms') = ms.sent - ((l + 1) \div 3) /\ LastY(ms') = ms.sent - (l \div 3)
    BY <2>3, <2>4 DEF LastX, LastY
  <2> HIDE DEF l
  <2>8. /\ ((l + 3) + 1) \div 3 = ((l + 1) \div 3) + 1 /\ (l + 3) \div 3 = (l \div 3) + 1
        /\ (l + 1) \div 3 \in Int /\ l \div 3 \in Int
    BY <2>4
  <2> DEFINE a == (l + 1) \div 3
             c == l \div 3
  <2>9. /\ a \in Int /\ c \in Int /\ LastX(ms) = ms.sent - (a + 1) /\ LastY(ms) = ms.sent - (c + 1)
        /\ LastX(ms') = ms.sent - a /\ LastY(ms') = ms.sent - c /\ ox.id = ms.sent - a /\ oy.id = ms.sent - c
    BY <2>2, <2>5, <2>6, <2>7, <2>8
  <2>10. ms.sent \in Nat
    BY <1>1
  <2> HIDE DEF a, c
  <2>11. /\ ox.id \in Int /\ ox.id = LastX(ms') /\ LastX(ms) \in Int /\ LastX(ms') = LastX(ms) + 1
         /\ oy.id \in Int /\ oy.id = LastY(ms') /\ LastY(ms) \in Int /\ LastY(ms') = LastY(ms) + 1
    BY ONLY <2>9, <2>10
  <2>16. LastX(ms) \in Nat /\ LastY(ms) \in Nat
    BY <1>1 DEF MouseHas
  <2>12. MouseHas(ms')
    <3>1. <<>> \in Seq(Arrived) /\ Len(<<>>) = 0
      OBVIOUS
    <3>2. /\ ox.id <= LastX(ms') /\ oy.id <= LastY(ms')
          /\ LastX(ms') \in Nat /\ LastY(ms') \in Nat
      BY ONLY <2>11, <2>16
    <3> QED BY <1>1, <1>2, <2>3, <2>11, <3>1, <3>2 DEF MouseHas
  <2>13. PenHas(pen, ms')
    <3>1. \A t \in pen.took : /\ t[1] = "x" => t[2] \in Int /\ t[2] <= LastX(ms)
                              /\ t[1] = "y" => t[2] \in Int /\ t[2] <= LastY(ms)
      BY <1>4 DEF PenHas
    <3>2. \A t \in pen.took : /\ t[1] = "x" => t[2] \in Int /\ t[2] <= LastX(ms')
                              /\ t[1] = "y" => t[2] \in Int /\ t[2] <= LastY(ms')
      BY ONLY <2>11, <3>1
    <3>3. <<"x", ox.id>> \notin pen.took
      <4> SUFFICES ASSUME <<"x", ox.id>> \in pen.took PROVE FALSE
        OBVIOUS
      <4>1. ox.id <= LastX(ms)
        BY ONLY <3>1, <<"x", ox.id>> \in pen.took
      <4> QED BY ONLY <2>11, <4>1
    <3>4. <<"y", oy.id>> \notin pen.took
      <4> SUFFICES ASSUME <<"y", oy.id>> \in pen.took PROVE FALSE
        OBVIOUS
      <4>1. oy.id <= LastY(ms)
        BY ONLY <3>1, <<"y", oy.id>> \in pen.took
      <4> QED BY ONLY <2>11, <4>1
    <3> QED BY <1>4, <2>3, <3>2, <3>3, <3>4 DEF PenHas
  <2> QED BY <2>3, <2>5, <2>12, <2>13 DEF MotionInv
<1> QED BY <1>1, <1>2, <1>5, <1>6

-----------------------------------------------------------------------------
(* The steps of the program that touch the offsets. *)

LEMMA TakesX == ASSUME MotionInv, GetOffsetX PROVE MotionInv'
<1> DEFINE x == pen.x + ms.offx.v
           took == pen.took \cup {<<"x", ms.offx.id>>}
           twice == pen.twice \/ (ms.offx.id # 0 /\ <<"x", ms.offx.id>> \in pen.took)
<1>1. pen' = [pen EXCEPT !.at = "y", !.x = x, !.took = took, !.twice = twice] /\ ms' = ms /\ pen.at = "x"
  BY DEF GetOffsetX
<1>2. MouseHas(ms) /\ PenHas(pen, ms)
  BY DEF MotionInv
<1>3. ~twice
  BY <1>1, <1>2 DEF PenHas
<1>4. took = pen.took \cup {<<"x", ms.offx.id>>}
  OBVIOUS
<1> HIDE DEF x, took, twice
<1>5. pen'.at = "y" /\ pen'.took = took /\ pen'.twice = twice /\ DOMAIN pen' = DOMAIN pen
  BY <1>1, <1>2 DEF PenHas
<1>6. /\ LastX(ms) >= ms.offx.id /\ ms.offx.id \in Int
      /\ \A t \in pen.took : /\ t[1] = "x" => t[2] \in Int /\ t[2] <= LastX(ms)
                             /\ t[1] = "y" => t[2] \in Int /\ t[2] <= LastY(ms)
  BY <1>2 DEF MouseHas, PenHas
<1>7. ASSUME NEW t \in took
      PROVE  /\ t[1] = "x" => t[2] \in Int /\ t[2] <= LastX(ms)
             /\ t[1] = "y" => t[2] \in Int /\ t[2] <= LastY(ms)
  <2>1. CASE t \in pen.took
    BY <1>6, <2>1
  <2>2. CASE t = <<"x", ms.offx.id>>
    <3>1. t[1] = "x" /\ t[2] = ms.offx.id
      BY <2>2
    <3> QED BY <1>2, <3>1 DEF MouseHas
  <2> QED BY <1>4, <2>1, <2>2
<1>8. ms.offy.id # 0 => <<"y", ms.offy.id>> \notin took
  BY <1>1, <1>2, <1>4 DEF PenHas
<1>9. PenHas(pen', ms)
  BY <1>2, <1>3, <1>5, <1>7, <1>8 DEF PenHas
<1> QED BY <1>1, <1>9 DEF MotionInv

LEMMA TakesY == ASSUME MotionInv, GetOffsetY PROVE MotionInv'
<1> DEFINE y == pen.y - ms.offy.v
           took == pen.took \cup {<<"y", ms.offy.id>>}
           twice == pen.twice \/ (ms.offy.id # 0 /\ <<"y", ms.offy.id>> \in pen.took)
<1>1. pen' = [pen EXCEPT !.at = "clear", !.y = y, !.took = took, !.twice = twice] /\ ms' = ms /\ pen.at = "y"
  BY DEF GetOffsetY
<1>2. MouseHas(ms) /\ PenHas(pen, ms)
  BY DEF MotionInv
<1>3. ~twice
  BY <1>1, <1>2 DEF PenHas
<1>4. took = pen.took \cup {<<"y", ms.offy.id>>}
  OBVIOUS
<1> HIDE DEF y, took, twice
<1>5. pen'.at = "clear" /\ pen'.took = took /\ pen'.twice = twice /\ DOMAIN pen' = DOMAIN pen
  BY <1>1, <1>2 DEF PenHas
<1>6. \A t \in pen.took : /\ t[1] = "x" => t[2] \in Int /\ t[2] <= LastX(ms)
                          /\ t[1] = "y" => t[2] \in Int /\ t[2] <= LastY(ms)
  BY <1>2 DEF PenHas
<1>7. ASSUME NEW t \in took
      PROVE  /\ t[1] = "x" => t[2] \in Int /\ t[2] <= LastX(ms)
             /\ t[1] = "y" => t[2] \in Int /\ t[2] <= LastY(ms)
  <2>1. CASE t \in pen.took
    BY <1>6, <2>1
  <2>2. CASE t = <<"y", ms.offy.id>>
    <3>1. t[1] = "y" /\ t[2] = ms.offy.id
      BY <2>2
    <3> QED BY <1>2, <3>1 DEF MouseHas
  <2> QED BY <1>4, <2>1, <2>2
<1>8. PenHas(pen', ms)
  BY <1>2, <1>3, <1>5, <1>7 DEF PenHas
<1> QED BY <1>1, <1>8 DEF MotionInv

LEMMA Clears == ASSUME MotionInv, ClearOffsets PROVE MotionInv'
<1>1. ms' = [ms EXCEPT !.offx = Still, !.offy = Still] /\ pen' = [pen EXCEPT !.at = "right"]
  BY DEF ClearOffsets
<1>2. MouseHas(ms) /\ PenHas(pen, ms) /\ Still.id = 0
  BY DEF MotionInv, Still
<1>3. /\ ms'.wire = ms.wire /\ ms'.packet = ms.packet /\ ms'.sent = ms.sent /\ ms'.offx.id = 0 /\ ms'.offy.id = 0
      /\ DOMAIN ms' = DOMAIN ms
  <2> HIDE DEF Still
  <2>1. /\ ms'.wire = ms.wire /\ ms'.packet = ms.packet /\ ms'.sent = ms.sent /\ ms'.offx = Still /\ ms'.offy = Still
        /\ DOMAIN ms' = DOMAIN ms
    BY <1>1, <1>2 DEF MouseHas
  <2> QED BY <1>2, <2>1
<1>4. /\ pen'.at = "right" /\ pen'.took = pen.took /\ pen'.twice = pen.twice /\ DOMAIN pen' = DOMAIN pen
  BY <1>1, <1>2 DEF PenHas
<1>5. LastX(ms') = LastX(ms) /\ LastY(ms') = LastY(ms)
  BY <1>3 DEF LastX, LastY
<1>7. MouseHas(ms')
  <2>1. LastX(ms) \in Nat /\ LastY(ms) \in Nat
    BY <1>2 DEF MouseHas
  <2> QED BY <1>2, <1>3, <1>5, <2>1 DEF MouseHas
<1>8. PenHas(pen', ms')
  BY <1>2, <1>3, <1>4, <1>5 DEF PenHas
<1> QED BY <1>3, <1>7, <1>8 DEF MotionInv

LEMMA MotionStep == MotionInv /\ [SketchNext]_SketchVars => MotionInv'
<1> SUFFICES ASSUME MotionInv, [SketchNext]_SketchVars PROVE MotionInv'
  OBVIOUS
<1>1. PenHas(pen, ms) /\ MouseHas(ms)
  BY DEF MotionInv
<1>2. CASE \E p \in PadPackets : MouseMove(p)
  BY <1>2, MotionSent
<1>3. CASE irq_handler
  <2>1. pen' = pen
    BY <1>3 DEF irq_handler
  <2>2. CASE ms.wire = <<>>
    <3>1. ms' = ms
      BY <1>3, <2>2 DEF irq_handler
    <3> QED BY <2>1, <3>1 DEF MotionInv
  <2>3. CASE ms.wire # <<>>
    <3>1. ms' = Mouse_IRQ_Handler(ms)
      BY <1>3, <2>3 DEF irq_handler
    <3> QED BY <2>1, <2>3, <3>1, MotionByte
  <2> QED BY <2>2, <2>3
<1>4. CASE GetOffsetX \/ GetOffsetY \/ ClearOffsets
  BY <1>4, TakesX, TakesY, Clears
<1>5. ASSUME ms' = ms, DOMAIN pen' = DOMAIN pen, pen'.took = pen.took, pen'.twice = pen.twice,
             \/ pen.at \in {"frame", "keys", "right", "draw"} /\ pen'.at \in {"exit", "keys", "x", "draw", "frame"}
             \/ pen'.at = pen.at
      PROVE  MotionInv'
  <2>1. PenHas(pen', ms)
    BY <1>1, <1>5 DEF PenHas
  <2> QED BY <1>5, <2>1 DEF MotionInv
<1>6. CASE FrameBegins
  <2>1. CASE kb.flags.esc
    <3>1. pen' = [pen EXCEPT !.at = "exit"] /\ ms' = ms /\ pen.at = "frame"
      BY <1>6, <2>1 DEF FrameBegins
    <3>2. pen'.at = "exit" /\ pen'.took = pen.took /\ pen'.twice = pen.twice /\ DOMAIN pen' = DOMAIN pen
      BY <1>1, <3>1 DEF PenHas
    <3> QED BY <1>5, <3>1, <3>2
  <2>2. CASE ~kb.flags.esc
    <3>1. pen' = [pen EXCEPT !.at = "keys", !.hw = pen.buffer, !.buffer = NoSprite] /\ ms' = ms /\ pen.at = "frame"
      BY <1>6, <2>2 DEF FrameBegins
    <3>2. pen'.at = "keys" /\ pen'.took = pen.took /\ pen'.twice = pen.twice /\ DOMAIN pen' = DOMAIN pen
      BY <1>1, <3>1 DEF PenHas
    <3> QED BY <1>5, <3>1, <3>2
  <2> QED BY <2>1, <2>2
<1>7. CASE ReadKeys
  <2> DEFINE x == pen.x + By("left", "right")
             y == pen.y + By("up", "down")
  <2>1. pen' = [pen EXCEPT !.at = "x", !.x = x, !.y = y] /\ ms' = ms /\ pen.at = "keys"
    BY <1>7 DEF ReadKeys
  <2> HIDE DEF x, y
  <2>2. pen'.at = "x" /\ pen'.took = pen.took /\ pen'.twice = pen.twice /\ DOMAIN pen' = DOMAIN pen
    BY <1>1, <2>1 DEF PenHas
  <2> QED BY <1>5, <2>1, <2>2
<1>8. CASE RightButton
  <2> DEFINE c == IF (ms.buttons \div 2) % 2 = 1 THEN (pen.colour + 1) % Colours ELSE pen.colour
  <2>1. pen' = [pen EXCEPT !.at = "draw", !.colour = c] /\ ms' = ms /\ pen.at = "right"
    BY <1>8 DEF RightButton
  <2> HIDE DEF c
  <2>2. pen'.at = "draw" /\ pen'.took = pen.took /\ pen'.twice = pen.twice /\ DOMAIN pen' = DOMAIN pen
    BY <1>1, <2>1 DEF PenHas
  <2> QED BY <1>5, <2>1, <2>2
<1>9. CASE Draw
  <2> DEFINE x == Clamp(pen.x, PadWidth - 1)
             y == Clamp(pen.y, PadHeight - 1)
             b == <<x, y>>
             d == IF ms.buttons % 2 = 1 THEN <<x, y>> ELSE NoSprite
  <2>1. pen' = [pen EXCEPT !.at = "frame", !.x = x, !.y = y, !.buffer = b, !.dot = d] /\ ms' = ms /\ pen.at = "draw"
    BY <1>9 DEF Draw
  <2> HIDE DEF b, d
  <2> HIDE DEF x, y
  <2>2. pen'.at = "frame" /\ pen'.took = pen.took /\ pen'.twice = pen.twice /\ DOMAIN pen' = DOMAIN pen
    BY <1>1, <2>1 DEF PenHas
  <2> QED BY <1>5, <2>1, <2>2
<1>10. CASE UNCHANGED SketchVars \/ \E k \in PadKeys : KeyPress(k) \/ KeyRepeat(k) \/ KeyRelease(k)
  <2>1. ms' = ms /\ pen' = pen
    BY <1>10 DEF SketchVars, KeyPress, KeyRepeat, KeyRelease
  <2> QED BY <2>1 DEF MotionInv
<1> QED BY <1>2, <1>3, <1>4, <1>6, <1>7, <1>8, <1>9, <1>10 DEF SketchNext, Program

LEMMA KeyboardStep == KeyboardTrue(kb) /\ [SketchNext]_SketchVars => KeyboardTrue(kb')
<1> SUFFICES ASSUME KeyboardTrue(kb), [SketchNext]_SketchVars PROVE KeyboardTrue(kb')
  OBVIOUS
<1>1. CASE \E k \in PadKeys : KeyPress(k) \/ KeyRepeat(k) \/ KeyRelease(k)
  BY <1>1, KeyEvents
<1>2. CASE \E p \in PadPackets : MouseMove(p)
  <2> DEFINE e == kb.events + 1
  <2>1. kb' = [kb EXCEPT !.events = e] /\ KeyboardHas(kb) /\ e \in Nat
    BY <1>2 DEF MouseMove, KeyboardTrue, KeyboardHas
  <2> HIDE DEF e
  <2>2. /\ KeyboardHas(kb') /\ kb'.wire = kb.wire /\ kb'.second = kb.second /\ kb'.arr = kb.arr
        /\ kb'.flags = kb.flags /\ kb'.full = kb.full /\ kb'.down = kb.down
    BY <2>1 DEF KeyboardHas
  <2>3. /\ Pending(kb') = Pending(kb) /\ CodesDown(kb') = CodesDown(kb)
        /\ Right(kb', CodesDown(kb')) = Right(kb, CodesDown(kb))
    BY <2>2 DEF Pending, CodesDown, Right, IsRight
  <2> QED BY <2>2, <2>3 DEF KeyboardTrue
<1>3. CASE irq_handler
  <2>1. CASE kb.wire = <<>>
    <3>1. kb' = kb
      BY <1>3, <2>1 DEF irq_handler
    <3> QED BY <3>1
  <2>2. CASE kb.wire # <<>>
    <3>1. kb' = Keyboard_IRQ_Handler(kb)
      BY <1>3, <2>2 DEF irq_handler
    <3> QED BY <2>2, <3>1, KeyboardByte
  <2> QED BY <2>1, <2>2
<1>4. CASE UNCHANGED SketchVars \/ Program
  <2>1. kb' = kb
    BY <1>4 DEF SketchVars, Program, FrameBegins, ReadKeys, GetOffsetX, GetOffsetY, ClearOffsets, RightButton, Draw
  <2> QED BY <2>1
<1> QED BY <1>1, <1>2, <1>3, <1>4 DEF SketchNext

\* Between any two steps of a frame of tstgfx5, and for every typing and every mouse:
\* when the keyboard's bytes are handled, arrPressed and the flags of the input map are
\* those of the keys that are down, and the pen is never moved twice by one packet.
THEOREM InterruptsTellTrue == SketchSpec => []InputSound
<1> DEFINE KbTrue == KeyboardTrue(kb)
<1>1. SketchInit => KbTrue /\ MotionInv
  BY KeyboardStarts, MotionStarts DEF SketchInit
<1>2. KbTrue /\ MotionInv /\ [SketchNext]_SketchVars => KbTrue' /\ MotionInv'
  BY KeyboardStep, MotionStep
<1>3. KbTrue /\ MotionInv => InputSound
  BY PressedDown DEF InputSound, MotionAtMostOnce, MotionInv, PenHas
<1> HIDE DEF KbTrue
<1> QED BY <1>1, <1>2, <1>3, PTL DEF SketchSpec
=============================================================================
