-------------------------- MODULE SerialLinkProofs --------------------------
(***************************************************************************)
(* Proofs about the file transfer over the serial line, for all files, all *)
(* lengths of files and of blocks and any number of faults of the line.    *)
(*                                                                         *)
(* The argument.  Only two things on the line matter: the last byte of a   *)
(* block of a file, which carries a good checksum, and the last byte of an *)
(* acknowledge, K.  The invariant LineInv follows them.  A receiver inside *)
(* a file has nothing before it but bytes of the one block it waits for,   *)
(* with noise, and nothing behind the last byte of that block; a sender    *)
(* has at most one K before it, and once it has sent its last block, a K   *)
(* that is there says that the receiver has the file.  A stream that loses *)
(* bytes keeps all that (FadesKeeps), and new bytes are sent only when the *)
(* old ones have gone: that is what the clocks and RX, which empties the   *)
(* port before it waits for a header, are for.                             *)
(***************************************************************************)
EXTENDS SerialLink, SequenceTheorems, TLAPS

K == Byte("OK", 0, 2)

(* What FLOS has of an acknowledge with what comes after it; what comes to *)
(* FLOS; and what the host has and what comes to it.                       *)
ToFlos == (fgot \o reg) \o toFlos
Coming == reg \o toFlos
Back   == hbuf \o toHost

(* What a stream holds: noise alone; bytes of block i of f; nothing but    *)
(* noise behind the end of a block; no K, or at most one, that can end an  *)
(* acknowledge, which the first byte of two never does.                    *)
AllNoise(s) == \A a \in 1 .. Len(s) : s[a] = Noise
Of(s, f, i) == \A a \in 1 .. Len(s) : s[a] = Noise \/ \E k \in 1 .. Bytes : s[a] = Byte(f, i, k)
IsEnd(x)    == x.of \in Files /\ x.k = Bytes
EndsLast(s) == \A a, b \in 1 .. Len(s) : a < b /\ IsEnd(s[a]) => s[b] = Noise
Clean(s, f, i) == Of(s, f, i) /\ EndsLast(s)

NoK(s)  == \A a \in 1 .. Len(s) : a >= 2 => s[a] # K
OneK(s) == \A a, b \in 1 .. Len(s) : 2 <= a /\ a < b => s[a] # K \/ s[b] # K

Begins(s, f) == \A i \in 1 .. Len(s) : s[i] = Block(f, i)

FlosReceives == flos \in {"accept", "rx_block"}

-----------------------------------------------------------------------------
(* FLOS receives: it waits for a header, accepts it, takes the blocks, and *)
(* has the file.                                                           *)
HeaderComes ==
  flos = "rx_header" =>
    /\ fstored = <<>> /\ toHost = <<>>
    /\ host # "rx_block"
    /\ host = "tx" => Len(hbuf) <= 1
    /\ host = "rx_header" => Len(hbuf) < Bytes
    /\ \/ AllNoise(Coming)
       \/ host = "tx" /\ hno = 0 /\ hbuf = <<>> /\ Clean(Coming, hfile, 0)

Accepts ==
  flos = "accept" =>
    /\ host = "tx" /\ ffile \in Files /\ hfile = ffile /\ hno = 0
    /\ hbuf = <<>> /\ toHost = <<>> /\ fstored = <<>>
    /\ AllNoise(Coming)

FlosTakes ==
  flos = "rx_block" =>
    /\ ffile \in Files /\ Len(fstored) < Length[ffile] /\ Begins(fstored, ffile)
    /\ \/ /\ host = "tx" /\ hfile = ffile /\ hno = Len(fstored) + 1
          /\ hbuf = <<>> /\ toHost = <<>> /\ Clean(Coming, ffile, hno)
       \/ /\ host = "tx" /\ hfile = ffile /\ hno = Len(fstored) /\ Len(Back) <= 2
          /\ AllNoise(Coming)
       \/ host = "idle" /\ AllNoise(Coming)

FlosDone ==
  fresult = "received" => flos = "idle" /\ ffile \in Files /\ fstored = Whole(ffile)

(* The host has sent: what an acknowledge that is on its way means.        *)
HostTold ==
  host = "tx" =>
    /\ hfile \in Files /\ OneK(Back)
    /\ ~FlosReceives /\ hno = Length[hfile] /\ ~NoK(Back) => fresult = "received" /\ ffile = hfile

(* The host receives, in the same way.  A header can be in its buffer when *)
(* FLOS has given up already.                                              *)
HostWaits ==
  host = "rx_header" =>
    /\ hstored = <<>> /\ ~FlosReceives
    /\ EndsLast(toHost)
    /\ flos = "tx" => NoK(ToFlos) /\ Of(toHost, ffile, 0) /\ (fno = 0 \/ Back = <<>>)
    /\ \A f \in Files : Len(hbuf) = Bytes /\ hbuf[Bytes] = Byte(f, 0, Bytes) =>
         AllNoise(toHost) /\ flos \in {"tx", "idle"} /\ (flos = "tx" => ffile = f)

HostTakes ==
  host = "rx_block" =>
    /\ hfile \in Files /\ Len(hstored) < Length[hfile] /\ Begins(hstored, hfile)
    /\ flos \in {"tx", "idle"}
    /\ \/ /\ Clean(Back, hfile, Len(hstored) + 1)
          /\ flos = "tx" => ffile = hfile /\ fno = Len(hstored) + 1 /\ NoK(ToFlos)
       \/ flos = "tx" /\ ffile = hfile /\ fno = Len(hstored) /\ AllNoise(Back)

HostDone ==
  hresult = "received" => host = "idle" /\ hfile \in Files /\ hstored = Whole(hfile)

(* FLOS has sent.                                                          *)
FlosTold ==
  flos = "tx" =>
    /\ ffile \in Files /\ OneK(ToFlos) /\ Len(fgot) <= 1
    /\ host # "rx_block" /\ fno = Length[ffile] /\ ~NoK(ToFlos) => hresult = "received" /\ hfile = ffile

LineInv == /\ HeaderComes /\ Accepts /\ FlosTakes /\ FlosDone /\ HostTold
           /\ HostWaits /\ HostTakes /\ HostDone /\ FlosTold

-----------------------------------------------------------------------------
(* Bytes and blocks.                                                       *)
ByteSet == [of : Files \cup {"OK", "XX", "noise"}, no : Nat, k : Nat]

\* The bytes of files, of acknowledges and of noise are different bytes.
LEMMA Kinds ==
  ASSUME NEW f \in Files, NEW i, NEW k
  PROVE  /\ Byte(f, i, k) # Noise /\ Byte(f, i, k) # K /\ Noise # K
         /\ f \notin {"*", "none", "OK", "XX", "noise"}
BY SerialLinkAssumption DEF Byte, Noise, K

\* A block is as long as all blocks are, and names its file.
LEMMA BlockIs ==
  ASSUME NEW f \in Files, NEW i \in Nat
  PROVE  /\ Block(f, i) \in Seq(ByteSet) /\ Len(Block(f, i)) = Bytes
         /\ \A k \in 1 .. Bytes : Block(f, i)[k] = Byte(f, i, k)
         /\ FileOf(Block(f, i)) = f
<1>1. Bytes \in Nat /\ Bytes >= 2 /\ 1 \in 1 .. Bytes
  BY SerialLinkAssumption
<1>2. Block(f, i) \in [1 .. Bytes -> ByteSet]
  BY <1>1 DEF Block, Byte, ByteSet
<1>3. \A k \in 1 .. Bytes : Block(f, i)[k] = Byte(f, i, k)
  BY DEF Block
<1>4. Block(f, i)[1].of = f
  <2>1. Block(f, i)[1] = Byte(f, i, 1) /\ Byte(f, i, 1).of = f
    BY <1>1, <1>3 DEF Byte
  <2> QED BY <2>1
<1> QED BY <1>1, <1>2, <1>3, <1>4 DEF FileOf

\* The acknowledges.
LEMMA AnswersAre ==
  /\ OK \in Seq(ByteSet) /\ Len(OK) = 2 /\ OK[1] # K /\ OK[2] = K
  /\ XX \in Seq(ByteSet) /\ Len(XX) = 2 /\ \A a \in 1 .. 2 : XX[a] # K /\ XX[a].of \notin Files
  /\ Noise \in ByteSet /\ <<Noise>> \in Seq(ByteSet) /\ Len(<<Noise>>) = 1 /\ <<Noise>>[1] = Noise
<1>1. /\ Byte("OK", 0, 1) \in ByteSet /\ Byte("OK", 0, 2) \in ByteSet
      /\ Byte("XX", 0, 0) \in ByteSet /\ Noise \in ByteSet
  BY DEF Byte, ByteSet, Noise
<1>2. /\ Byte("OK", 0, 1) # K /\ Byte("XX", 0, 0) # K /\ Byte("XX", 0, 0).of \notin Files
  BY SerialLinkAssumption DEF Byte, K
<1> QED BY <1>1, <1>2 DEF OK, XX, K

-----------------------------------------------------------------------------
(* What is left of a stream of bytes s when some of them are lost, taken   *)
(* or spoiled: t, each byte of which is noise or a byte of s no further to *)
(* the front, in the order of s.                                           *)
Fades(t, s) ==
  /\ Len(t) <= Len(s)
  /\ \E g \in [1 .. Len(t) -> 1 .. Len(s)] :
       /\ \A a \in 1 .. Len(t) : a <= g[a] /\ t[a] \in {Noise, s[g[a]]}
       /\ \A a, b \in 1 .. Len(t) : a < b => g[a] < g[b]

\* A stream behind another.
LEMMA ConcatIs ==
  ASSUME NEW p \in Seq(ByteSet), NEW s \in Seq(ByteSet)
  PROVE  /\ p \o s \in Seq(ByteSet) /\ Len(p \o s) = Len(p) + Len(s)
         /\ \A a \in 1 .. Len(p) : (p \o s)[a] = p[a]
         /\ \A a \in 1 .. Len(s) : (p \o s)[Len(p) + a] = s[a]
         /\ \A a \in 1 .. Len(p \o s) : (p \o s)[a] = IF a <= Len(p) THEN p[a] ELSE s[a - Len(p)]
OBVIOUS

\* What is left of a stream holds what the stream held.
LEMMA FadesKeeps ==
  ASSUME NEW s \in Seq(ByteSet), NEW t \in Seq(ByteSet), Fades(t, s)
  PROVE  /\ AllNoise(s) => AllNoise(t)
         /\ \A f, i : Of(s, f, i) => Of(t, f, i)
         /\ EndsLast(s) => EndsLast(t)
         /\ NoK(s) => NoK(t)
         /\ OneK(s) => OneK(t)
<1>1. PICK g \in [1 .. Len(t) -> 1 .. Len(s)] :
        /\ \A a \in 1 .. Len(t) : a <= g[a] /\ t[a] \in {Noise, s[g[a]]}
        /\ \A a, b \in 1 .. Len(t) : a < b => g[a] < g[b]
  BY DEF Fades
<1>2. \A a \in 1 .. Len(t) : g[a] \in 1 .. Len(s)
  BY <1>1
<1>3. ~IsEnd(Noise) /\ Noise # K
  BY SerialLinkAssumption DEF IsEnd, Noise, Byte, K
<1>4. Len(s) \in Nat /\ Len(t) \in Nat
  OBVIOUS
<1>5. AllNoise(s) => AllNoise(t)
  BY <1>1, <1>2 DEF AllNoise
<1>6. \A f, i : Of(s, f, i) => Of(t, f, i)
  BY <1>1, <1>2 DEF Of
<1>7. ASSUME EndsLast(s), NEW a \in 1 .. Len(t), NEW b \in 1 .. Len(t), a < b, IsEnd(t[a])
      PROVE  t[b] = Noise
  <2>1. t[a] = s[g[a]] /\ g[a] < g[b] /\ g[a] \in 1 .. Len(s) /\ g[b] \in 1 .. Len(s)
    BY <1>1, <1>2, <1>3, <1>7
  <2>2. s[g[b]] = Noise
    BY <1>7, <2>1 DEF EndsLast
  <2> QED BY <1>1, <2>2
<1>8. ASSUME NoK(s), NEW a \in 1 .. Len(t), a >= 2
      PROVE  t[a] # K
  <2>1. g[a] \in 1 .. Len(s) /\ g[a] >= 2
    BY <1>1, <1>2, <1>8
  <2> QED BY <1>1, <1>3, <1>8, <2>1 DEF NoK
<1>9. ASSUME OneK(s), NEW a \in 1 .. Len(t), NEW b \in 1 .. Len(t), 2 <= a, a < b
      PROVE  t[a] # K \/ t[b] # K
  <2>1. g[a] \in 1 .. Len(s) /\ g[a] >= 2 /\ g[b] \in 1 .. Len(s) /\ g[a] < g[b]
    BY <1>1, <1>2, <1>9
  <2>2. s[g[a]] # K \/ s[g[b]] # K
    BY <1>9, <2>1 DEF OneK
  <2> QED BY <1>1, <1>3, <2>2
<1> QED BY <1>5, <1>6, <1>7, <1>8, <1>9 DEF EndsLast, NoK, OneK

\* The front of a stream is gone.
LEMMA FadesDrop ==
  ASSUME NEW p \in Seq(ByteSet), NEW s \in Seq(ByteSet)
  PROVE  Fades(s, p \o s)
<1> DEFINE g == [a \in 1 .. Len(s) |-> a + Len(p)]
           q == p \o s
<1>1. /\ Len(p) \in Nat /\ Len(s) \in Nat /\ Len(q) = Len(p) + Len(s)
      /\ \A a \in 1 .. Len(s) : q[a + Len(p)] = s[a]
  OBVIOUS
<1> HIDE DEF q
<1>2. g \in [1 .. Len(s) -> 1 .. Len(q)]
  BY <1>1
<1>3. /\ \A a \in 1 .. Len(s) : a <= g[a] /\ s[a] \in {Noise, q[g[a]]}
      /\ \A a, b \in 1 .. Len(s) : a < b => g[a] < g[b]
  BY <1>1
<1> HIDE DEF g
<1>4. Len(s) <= Len(q)
  BY <1>1
<1>5. Fades(s, q)
  BY <1>2, <1>3, <1>4 DEF Fades
<1> QED BY <1>5 DEF q

\* The same bytes.
LEMMA FadesSame == \A s \in Seq(ByteSet) : Fades(s, s)
<1> SUFFICES ASSUME NEW s \in Seq(ByteSet) PROVE Fades(s, s)
  OBVIOUS
<1>1. <<>> \in Seq(ByteSet) /\ <<>> \o s = s
  OBVIOUS
<1> QED BY <1>1, FadesDrop

\* The first byte is lost, and it is spoiled, behind the bytes p.
LEMMA FadesLose ==
  ASSUME NEW p \in Seq(ByteSet), NEW s \in Seq(ByteSet), s # <<>>
  PROVE  Fades(p \o Tail(s), p \o s) /\ Fades(p \o (<<Noise>> \o Tail(s)), p \o s)
<1> DEFINE n == Len(p)
           q == p \o s
           t == p \o Tail(s)
           u == p \o (<<Noise>> \o Tail(s))
           g == [a \in 1 .. Len(t) |-> IF a <= n THEN a ELSE a + 1]
           h == [a \in 1 .. Len(u) |-> a]
<1>1. /\ Tail(s) \in Seq(ByteSet) /\ Len(Tail(s)) = Len(s) - 1 /\ Len(s) >= 1 /\ Len(s) \in Nat /\ n \in Nat
      /\ \A a \in 1 .. Len(s) - 1 : Tail(s)[a] = s[a + 1]
  OBVIOUS
<1>2. Len(q) = n + Len(s) /\ \A a \in 1 .. Len(q) : q[a] = IF a <= n THEN p[a] ELSE s[a - n]
  OBVIOUS
<1>3. Len(t) = n + Len(s) - 1 /\ \A a \in 1 .. Len(t) : t[a] = IF a <= n THEN p[a] ELSE s[a - n + 1]
  <2>1. Len(t) = n + Len(Tail(s)) /\ \A a \in 1 .. Len(t) : t[a] = IF a <= n THEN p[a] ELSE Tail(s)[a - n]
    BY <1>1
  <2> QED BY <1>1, <2>1
<1>4. /\ Len(u) = n + Len(s)
      /\ \A a \in 1 .. Len(u) : u[a] = IF a <= n THEN p[a] ELSE IF a = n + 1 THEN Noise ELSE s[a - n]
  <2> DEFINE v == <<Noise>> \o Tail(s)
  <2>1. /\ v \in Seq(ByteSet) /\ Len(v) = Len(s)
        /\ \A a \in 1 .. Len(v) : v[a] = IF a = 1 THEN Noise ELSE s[a]
    <3>1. <<Noise>> \in Seq(ByteSet) /\ Len(<<Noise>>) = 1 /\ <<Noise>>[1] = Noise
      BY AnswersAre
    <3>2. v \in Seq(ByteSet) /\ Len(v) = 1 + Len(Tail(s))
          /\ \A a \in 1 .. Len(v) : v[a] = IF a <= 1 THEN <<Noise>>[a] ELSE Tail(s)[a - 1]
      BY <1>1, <3>1, ConcatProperties
    <3> HIDE DEF v
    <3> QED BY <1>1, <3>1, <3>2
  <2> HIDE DEF v
  <2>2. p \o v \in Seq(ByteSet) /\ Len(p \o v) = n + Len(v)
        /\ \A a \in 1 .. Len(p \o v) : (p \o v)[a] = IF a <= n THEN p[a] ELSE v[a - n]
    BY <2>1, ConcatIs
  <2>3. u = p \o v
    BY DEF v
  <2> HIDE DEF u
  <2> QED BY <1>1, <2>1, <2>2, <2>3
<1> HIDE DEF q, t, u, n
<1>5. Fades(t, q)
  <2>1. g \in [1 .. Len(t) -> 1 .. Len(q)]
    BY <1>1, <1>2, <1>3
  <2>2. /\ \A a \in 1 .. Len(t) : a <= g[a] /\ t[a] \in {Noise, q[g[a]]}
        /\ \A a, b \in 1 .. Len(t) : a < b => g[a] < g[b]
    BY <1>1, <1>2, <1>3
  <2>3. Len(t) <= Len(q)
    BY <1>1, <1>2, <1>3
  <2> HIDE DEF g
  <2> QED BY <2>1, <2>2, <2>3 DEF Fades
<1>6. Fades(u, q)
  <2>1. h \in [1 .. Len(u) -> 1 .. Len(q)]
    BY <1>1, <1>2, <1>4
  <2>2. /\ \A a \in 1 .. Len(u) : a <= h[a] /\ u[a] \in {Noise, q[h[a]]}
        /\ \A a, b \in 1 .. Len(u) : a < b => h[a] < h[b]
    BY <1>1, <1>2, <1>4
  <2>3. Len(u) <= Len(q)
    BY <1>1, <1>2, <1>4
  <2> HIDE DEF h
  <2> QED BY <2>1, <2>2, <2>3 DEF Fades
<1> QED BY <1>5, <1>6 DEF q, t, u

-----------------------------------------------------------------------------
(* What is put behind a stream.                                            *)
Lacks(s) == \A a \in 1 .. Len(s) : s[a] # K

\* Noise behind a stream changes nothing of it,
LEMMA AddsNoise ==
  ASSUME NEW s \in Seq(ByteSet)
  PROVE  /\ s \o <<Noise>> \in Seq(ByteSet)
         /\ AllNoise(s) => AllNoise(s \o <<Noise>>)
         /\ \A f, i : Clean(s, f, i) => Clean(s \o <<Noise>>, f, i)
         /\ NoK(s) => NoK(s \o <<Noise>>)
         /\ OneK(s) => OneK(s \o <<Noise>>)
<1> DEFINE q == s \o <<Noise>>
<1>1. /\ q \in Seq(ByteSet) /\ Len(q) = Len(s) + 1 /\ Len(s) \in Nat
      /\ \A a \in 1 .. Len(q) : q[a] = IF a <= Len(s) THEN s[a] ELSE Noise
  <2> DEFINE x == <<Noise>>
  <2>1. x \in Seq(ByteSet) /\ Len(x) = 1 /\ x[1] = Noise
    BY AnswersAre
  <2> HIDE DEF x
  <2>2. /\ s \o x \in Seq(ByteSet) /\ Len(s \o x) = Len(s) + Len(x)
        /\ \A a \in 1 .. Len(s \o x) : (s \o x)[a] = IF a <= Len(s) THEN s[a] ELSE x[a - Len(s)]
    BY <2>1, ConcatIs
  <2>3. \A a \in 1 .. Len(s \o x) : ~(a <= Len(s)) => a - Len(s) = 1
    BY <2>1, <2>2
  <2>4. q = s \o x
    BY DEF x
  <2> HIDE DEF q
  <2> QED BY <2>1, <2>2, <2>3, <2>4
<1>2. Noise # K
  BY DEF Noise, K, Byte
<1> HIDE DEF q
<1>3. AllNoise(s) => AllNoise(q)
  BY <1>1 DEF AllNoise
<1>4. \A f, i : Of(s, f, i) => Of(q, f, i)
  BY <1>1 DEF Of
<1>5. EndsLast(s) => EndsLast(q)
  BY <1>1 DEF EndsLast
<1>6. NoK(s) => NoK(q)
  BY <1>1, <1>2 DEF NoK
<1>7. OneK(s) => OneK(q)
  BY <1>1, <1>2 DEF OneK
<1> QED BY <1>1, <1>3, <1>4, <1>5, <1>6, <1>7 DEF Clean, q

\* bytes without a K add none,
LEMMA AddsOther ==
  ASSUME NEW s \in Seq(ByteSet), NEW x \in Seq(ByteSet), Lacks(x)
  PROVE  /\ NoK(s) => NoK(s \o x)
         /\ OneK(s) => OneK(s \o x)
<1> DEFINE q == s \o x
<1>1. /\ Len(q) = Len(s) + Len(x) /\ Len(s) \in Nat /\ Len(x) \in Nat
      /\ \A a \in 1 .. Len(q) : q[a] = IF a <= Len(s) THEN s[a] ELSE x[a - Len(s)]
  BY ConcatIs
<1> HIDE DEF q
<1>2. \A a \in 1 .. Len(q) : ~(a <= Len(s)) => q[a] # K
  <2> SUFFICES ASSUME NEW a \in 1 .. Len(q), ~(a <= Len(s)) PROVE q[a] # K
    OBVIOUS
  <2>1. a - Len(s) \in 1 .. Len(x)
    BY <1>1
  <2> QED BY <1>1, <2>1 DEF Lacks
<1>3. NoK(s) => NoK(q)
  BY <1>1, <1>2 DEF NoK
<1>4. OneK(s) => OneK(q)
  BY <1>1, <1>2 DEF OneK
<1> QED BY <1>3, <1>4 DEF q

\* and OK adds one.
LEMMA AddsOK ==
  ASSUME NEW s \in Seq(ByteSet), NoK(s)
  PROVE  OneK(s \o OK)
<1> DEFINE q == s \o OK
<1>1. /\ Len(q) = Len(s) + 2 /\ Len(s) \in Nat
      /\ \A a \in 1 .. Len(q) : q[a] = IF a <= Len(s) THEN s[a] ELSE OK[a - Len(s)]
  <2>1. OK \in Seq(ByteSet) /\ Len(OK) = 2
    BY AnswersAre
  <2>2. /\ Len(q) = Len(s) + Len(OK)
        /\ \A a \in 1 .. Len(q) : q[a] = IF a <= Len(s) THEN s[a] ELSE OK[a - Len(s)]
    BY <2>1, ConcatIs
  <2> QED BY <2>1, <2>2
<1> HIDE DEF q
<1>2. \A a \in 1 .. Len(q) : a >= 2 /\ a # Len(s) + 2 => q[a] # K
  <2> SUFFICES ASSUME NEW a \in 1 .. Len(q), a >= 2, a # Len(s) + 2 PROVE q[a] # K
    OBVIOUS
  <2>1. CASE a <= Len(s)
    BY <1>1, <2>1 DEF NoK
  <2>2. CASE ~(a <= Len(s))
    <3>1. a - Len(s) = 1
      BY <1>1, <2>2
    <3> QED BY <1>1, <2>2, <3>1, AnswersAre
  <2> QED BY <2>1, <2>2
<1>3. OneK(q)
  BY <1>1, <1>2 DEF OneK
<1> QED BY <1>3 DEF q

\* A block behind noise is clean.
LEMMA AddsBlock ==
  ASSUME NEW s \in Seq(ByteSet), AllNoise(s), NEW f \in Files, NEW i \in Nat
  PROVE  Clean(s \o Block(f, i), f, i)
<1> DEFINE B == Block(f, i)
           q == s \o B
<1>1. /\ B \in Seq(ByteSet) /\ Len(B) = Bytes /\ Bytes \in Nat
      /\ \A k \in 1 .. Bytes : B[k] = Byte(f, i, k)
  BY BlockIs, SerialLinkAssumption
<1> HIDE DEF B
<1>2. /\ Len(q) = Len(s) + Bytes /\ Len(s) \in Nat
      /\ \A a \in 1 .. Len(q) : q[a] = IF a <= Len(s) THEN s[a] ELSE B[a - Len(s)]
  <2>1. /\ Len(q) = Len(s) + Len(B)
        /\ \A a \in 1 .. Len(q) : q[a] = IF a <= Len(s) THEN s[a] ELSE B[a - Len(s)]
    BY <1>1, ConcatIs
  <2> QED BY <1>1, <2>1
<1> HIDE DEF q
<1>3. \A a \in 1 .. Len(q) : q[a] = IF a <= Len(s) THEN Noise ELSE Byte(f, i, a - Len(s))
  <2> SUFFICES ASSUME NEW a \in 1 .. Len(q)
               PROVE  q[a] = IF a <= Len(s) THEN Noise ELSE Byte(f, i, a - Len(s))
    OBVIOUS
  <2>1. a <= Len(s) => a \in 1 .. Len(s)
    BY <1>2
  <2>2. ~(a <= Len(s)) => a - Len(s) \in 1 .. Bytes
    BY <1>1, <1>2
  <2> QED BY <1>1, <1>2, <2>1, <2>2 DEF AllNoise
<1>4. Of(q, f, i)
  <2> SUFFICES ASSUME NEW a \in 1 .. Len(q)
               PROVE  q[a] = Noise \/ \E k \in 1 .. Bytes : q[a] = Byte(f, i, k)
    BY DEF Of
  <2>1. ~(a <= Len(s)) => a - Len(s) \in 1 .. Bytes
    BY <1>1, <1>2
  <2> QED BY <1>3, <2>1
<1>5. EndsLast(q)
  <2> SUFFICES ASSUME NEW a \in 1 .. Len(q), NEW b \in 1 .. Len(q), a < b, IsEnd(q[a])
               PROVE  FALSE
    BY DEF EndsLast
  <2>1. ~IsEnd(Noise)
    BY SerialLinkAssumption DEF IsEnd, Noise, Byte
  <2>2. ~(a <= Len(s)) /\ q[a] = Byte(f, i, a - Len(s))
    BY <1>3, <2>1
  <2>3. Byte(f, i, a - Len(s)).k = a - Len(s)
    BY DEF Byte
  <2>4. a - Len(s) = Bytes
    BY <2>2, <2>3 DEF IsEnd
  <2> QED BY <1>1, <1>2, <2>4
<1> QED BY <1>4, <1>5 DEF Clean, q, B

\* No byte of a block ends an acknowledge,
LEMMA BlockLacks ==
  ASSUME NEW f \in Files, NEW i \in Nat
  PROVE  Lacks(Block(f, i))
BY BlockIs, Kinds DEF Lacks

\* nor does one of a refusal.
LEMMA AnswersLack == Lacks(XX) /\ EndsLast(XX) /\ Lacks(<<>>) /\ EndsLast(<<>>) /\ AllNoise(<<>>)
<1>1. Lacks(XX)
  BY AnswersAre DEF Lacks
<1>2. EndsLast(XX)
  BY AnswersAre DEF EndsLast, IsEnd
<1>3. Len(<<>>) = 0
  OBVIOUS
<1> QED BY <1>1, <1>2, <1>3 DEF Lacks, EndsLast, AllNoise

-----------------------------------------------------------------------------
(* What is taken from the front of a stream.                               *)
LEMMA TakeByte ==
  ASSUME NEW s \in Seq(ByteSet), s # <<>>
  PROVE  /\ Tail(s) \in Seq(ByteSet) /\ Head(s) \in ByteSet
         /\ AllNoise(s) => AllNoise(Tail(s)) /\ Head(s) = Noise
         /\ \A f, i : Clean(s, f, i) =>
              /\ Clean(Tail(s), f, i)
              /\ Head(s) = Noise \/ \E k \in 1 .. Bytes : Head(s) = Byte(f, i, k)
         /\ EndsLast(s) => EndsLast(Tail(s)) /\ (IsEnd(Head(s)) => AllNoise(Tail(s)))
<1> DEFINE t == Tail(s)
<1>1. /\ t \in Seq(ByteSet) /\ Len(s) = Len(t) + 1 /\ Len(t) \in Nat /\ Head(s) = s[1]
      /\ \A a \in 1 .. Len(t) : t[a] = s[a + 1]
      /\ Head(s) \in ByteSet
  OBVIOUS
<1> HIDE DEF t
<1>2. 1 \in 1 .. Len(s) /\ \A a \in 1 .. Len(t) : a + 1 \in 1 .. Len(s)
  BY <1>1
<1>3. AllNoise(s) => AllNoise(t) /\ Head(s) = Noise
  BY <1>1, <1>2 DEF AllNoise
<1>4. ASSUME NEW f, NEW i, Of(s, f, i)
      PROVE  Of(t, f, i) /\ (Head(s) = Noise \/ \E k \in 1 .. Bytes : Head(s) = Byte(f, i, k))
  BY <1>1, <1>2, <1>4 DEF Of
<1>5. ASSUME EndsLast(s)
      PROVE  EndsLast(t) /\ (IsEnd(Head(s)) => AllNoise(t))
  <2>1. EndsLast(t)
    <3> SUFFICES ASSUME NEW a \in 1 .. Len(t), NEW b \in 1 .. Len(t), a < b, IsEnd(t[a])
                 PROVE  t[b] = Noise
      BY DEF EndsLast
    <3>1. a + 1 \in 1 .. Len(s) /\ b + 1 \in 1 .. Len(s) /\ a + 1 < b + 1 /\ IsEnd(s[a + 1])
      BY <1>1, <1>2
    <3> QED BY <1>1, <1>5, <3>1 DEF EndsLast
  <2>2. ASSUME IsEnd(Head(s)) PROVE AllNoise(t)
    <3> SUFFICES ASSUME NEW a \in 1 .. Len(t) PROVE t[a] = Noise
      BY DEF AllNoise
    <3>1. a + 1 \in 1 .. Len(s) /\ 1 < a + 1
      BY <1>1, <1>2
    <3> QED BY <1>1, <1>2, <1>5, <2>2, <3>1 DEF EndsLast
  <2> QED BY <2>1, <2>2
<1> QED BY <1>1, <1>3, <1>4, <1>5 DEF Clean, t

\* Behind the K of an acknowledge there is no other.
LEMMA TakeAck ==
  ASSUME NEW s \in Seq(ByteSet), NEW t \in Seq(ByteSet),
         Len(s) = Len(t) + 2, \A a \in 1 .. Len(t) : t[a] = s[a + 2],
         OneK(s), s[2] = K
  PROVE  NoK(t)
<1> SUFFICES ASSUME NEW a \in 1 .. Len(t) PROVE t[a] # K
  BY DEF NoK
<1>1. 2 \in 1 .. Len(s) /\ a + 2 \in 1 .. Len(s) /\ 2 < a + 2
  OBVIOUS
<1>2. s[2] # K \/ s[a + 2] # K
  BY <1>1 DEF OneK
<1> QED BY <1>2

-----------------------------------------------------------------------------
(* The contents of every variable: of the line, of FLOS and of the host.   *)
LineHas ==
  /\ toFlos \in Seq(ByteSet) /\ toHost \in Seq(ByteSet)
  /\ reg \in Seq(ByteSet) /\ Len(reg) <= 1
  /\ faults \in 0 .. MaxFaults

FlosHas ==
  /\ fgot \in Seq(ByteSet) /\ Len(fgot) < Bytes /\ (flos = "tx" => Len(fgot) <= 1)
  /\ fstored \in Seq(Seq(ByteSet)) /\ fno \in Nat
  /\ flos \in {"idle", "rx_header", "accept", "rx_block", "tx"}
  /\ ffile \in Wanted \cup {"none"}
  /\ flos \in {"accept", "rx_block", "tx"} => ffile \in Files
  /\ flos = "tx" => fno \in 0 .. Length[ffile]

HostHas ==
  /\ hbuf \in Seq(ByteSet) /\ Len(hbuf) <= Bytes
  /\ hstored \in Seq(Seq(ByteSet)) /\ hno \in Nat
  /\ host \in {"idle", "rx_header", "rx_block", "tx"}
  /\ hfile \in Files \cup {"none"}
  /\ host \in {"rx_block", "tx"} => hfile \in Files
  /\ host = "tx" => hno \in 0 .. Length[hfile]

Types == LineHas /\ FlosHas /\ HostHas

\* The empty sequence.
LEMMA Empty == /\ <<>> \in Seq(ByteSet) /\ Len(<<>>) = 0 /\ <<>> \in Seq(Seq(ByteSet))
               /\ \A s \in Seq(ByteSet) : Len(s) \in Nat /\ (Len(s) = 0 <=> s = <<>>)
OBVIOUS

\* What is sent is bytes.
LEMMA Adds ==
  ASSUME NEW s \in Seq(ByteSet)
  PROVE  /\ s \o OK \in Seq(ByteSet) /\ s \o XX \in Seq(ByteSet)
         /\ \A f \in Files, i \in Nat : s \o Block(f, i) \in Seq(ByteSet)
<1>1. \A x \in Seq(ByteSet) : s \o x \in Seq(ByteSet)
  BY ConcatIs
<1>2. OK \in Seq(ByteSet) /\ XX \in Seq(ByteSet)
  BY AnswersAre
<1>3. \A f \in Files, i \in Nat : Block(f, i) \in Seq(ByteSet)
  BY BlockIs
<1> QED BY <1>1, <1>2, <1>3

\* Nothing has been sent at the start.
LEMMA TypesInit == Init => Types
BY Empty, SerialLinkAssumption DEF Init, Types, LineHas, FlosHas, HostHas

\* The line moves bytes.
LEMMA TypesLine == Types /\ (Line \/ Lose \/ Spoil \/ Glitch) => Types'
<1> SUFFICES ASSUME Types, Line \/ Lose \/ Spoil \/ Glitch PROVE Types'
  OBVIOUS
<1>1. \A s \in Seq(ByteSet) : s # <<>> =>
        /\ Tail(s) \in Seq(ByteSet) /\ Head(s) \in ByteSet
        /\ <<Head(s)>> \in Seq(ByteSet) /\ Len(<<Head(s)>>) = 1
        /\ <<Noise>> \in Seq(ByteSet) /\ <<Noise>> \o Tail(s) \in Seq(ByteSet)
  <2> SUFFICES ASSUME NEW s \in Seq(ByteSet), s # <<>>
               PROVE  /\ Tail(s) \in Seq(ByteSet) /\ Head(s) \in ByteSet
                      /\ <<Head(s)>> \in Seq(ByteSet) /\ Len(<<Head(s)>>) = 1
                      /\ <<Noise>> \in Seq(ByteSet) /\ <<Noise>> \o Tail(s) \in Seq(ByteSet)
    OBVIOUS
  <2>1. Tail(s) \in Seq(ByteSet) /\ Head(s) \in ByteSet /\ <<Noise>> \in Seq(ByteSet)
    BY TakeByte, AnswersAre
  <2> QED BY <2>1, ConcatIs
<1>2. CASE DeliverToFlos
  <2>1. toFlos' \in Seq(ByteSet) /\ reg' \in Seq(ByteSet) /\ Len(reg') <= 1
    BY <1>1, <1>2 DEF DeliverToFlos, Types, LineHas
  <2>2. UNCHANGED <<toHost, fvars, hvars, faults>>
    BY <1>2 DEF DeliverToFlos
  <2> QED BY <2>1, <2>2 DEF Types, LineHas, FlosHas, HostHas, fvars, hvars
<1>3. CASE DeliverToHost
  <2>1. toHost' \in Seq(ByteSet)
    BY <1>1, <1>3 DEF DeliverToHost, Types, LineHas
  <2>2. hbuf' \in Seq(ByteSet) /\ Len(hbuf') <= Bytes
    <3>1. Head(toHost) \in ByteSet /\ hbuf \in Seq(ByteSet) /\ Len(hbuf) <= Bytes /\ Bytes \in Nat
      BY <1>1, <1>3, SerialLinkAssumption DEF DeliverToHost, Types, LineHas, HostHas
    <3>2. /\ Append(hbuf, Head(toHost)) \in Seq(ByteSet)
          /\ Len(Append(hbuf, Head(toHost))) = Len(hbuf) + 1 /\ Len(hbuf) \in Nat
      BY <3>1
    <3> QED BY <1>3, <3>1, <3>2 DEF DeliverToHost
  <2>3. UNCHANGED <<toFlos, reg, fvars, host, hfile, hno, hstored, hresult, faults>>
    BY <1>3 DEF DeliverToHost
  <2> QED BY <2>1, <2>2, <2>3 DEF Types, LineHas, FlosHas, HostHas, fvars
<1>4. CASE Lose \/ Spoil \/ Glitch
  <2>1. toFlos' \in Seq(ByteSet) /\ toHost' \in Seq(ByteSet)
    BY <1>1, <1>4, AnswersAre DEF Lose, Spoil, Glitch, Types, LineHas
  <2>2. faults' \in 0 .. MaxFaults /\ UNCHANGED <<reg, fvars, hvars>>
    BY <1>4, SerialLinkAssumption DEF Lose, Spoil, Glitch, Fault, Types, LineHas
  <2> QED BY <2>1, <2>2 DEF Types, LineHas, FlosHas, HostHas, fvars, hvars
<1> QED BY <1>2, <1>3, <1>4 DEF Line

\* A byte that FLOS takes out of its register.
LEMMA ReadTakes ==
  ASSUME Types, Read
  PROVE  /\ reg \in Seq(ByteSet) /\ Len(reg) = 1 /\ reg[1] = Head(reg) /\ reg[1] \in ByteSet
         /\ reg # <<>> /\ reg' = <<>>
         /\ Taken \in Seq(ByteSet) /\ Len(Taken) = Len(fgot) + 1 /\ Len(fgot) \in Nat
         /\ \A a \in 1 .. Len(fgot) : Taken[a] = fgot[a]
         /\ Taken[Len(fgot) + 1] = reg[1]
         /\ Taken = fgot \o reg
         /\ UNCHANGED <<toFlos, hvars, faults>>
<1>1. reg \in Seq(ByteSet) /\ reg # <<>> /\ Len(reg) <= 1 /\ fgot \in Seq(ByteSet) /\ reg' = <<>>
  BY DEF Read, Types, LineHas, FlosHas
<1>2. Len(reg) \in Nat /\ Len(reg) # 0
  BY <1>1, Empty
<1>3. Len(reg) = 1
  <2>1. \A n \in Nat : n # 0 /\ n <= 1 => n = 1
    OBVIOUS
  <2> QED BY <1>1, <1>2, <2>1
<1>4. reg[1] \in ByteSet /\ reg[1] = Head(reg)
  BY <1>1, <1>3
<1>5. /\ Taken \in Seq(ByteSet) /\ Len(Taken) = Len(fgot) + 1 /\ Len(fgot) \in Nat
      /\ \A a \in 1 .. Len(fgot) : Taken[a] = fgot[a]
      /\ Taken[Len(fgot) + 1] = reg[1]
  BY <1>1, <1>4 DEF Taken
<1>6. Taken = fgot \o reg
  <2> DEFINE q == fgot \o reg
  <2>1. q \in Seq(ByteSet) /\ Len(q) = Len(fgot) + 1
        /\ \A a \in 1 .. Len(q) : q[a] = IF a <= Len(fgot) THEN fgot[a] ELSE reg[a - Len(fgot)]
    BY <1>1, <1>3, ConcatIs
  <2> HIDE DEF q
  <2>2. \A a \in 1 .. Len(q) : q[a] = Taken[a]
    <3> SUFFICES ASSUME NEW a \in 1 .. Len(q) PROVE q[a] = Taken[a]
      OBVIOUS
    <3>1. CASE a <= Len(fgot)
      BY <1>5, <2>1, <3>1
    <3>2. CASE ~(a <= Len(fgot))
      <4>1. a = Len(fgot) + 1 /\ a - Len(fgot) = 1
        BY <1>5, <2>1, <3>2
      <4> QED BY <1>5, <2>1, <3>2, <4>1
    <3> QED BY <3>1, <3>2
  <2>3. Len(q) = Len(Taken)
    BY <1>5, <2>1
  <2>4. q = Taken
    BY <1>5, <2>1, <2>2, <2>3, SeqEqual
  <2> QED BY <2>4 DEF q
<1> QED BY <1>1, <1>3, <1>4, <1>5, <1>6 DEF Read

\* FLOS counts within the file, and no further than a block in its buffer.
LEMMA TypesFlos == Types /\ (Flos \/ FlosStart \/ FlosTimeout) => Types'
<1> SUFFICES ASSUME Types, Flos \/ FlosStart \/ FlosTimeout PROVE Types'
  OBVIOUS
<1>1. /\ toHost \o XX \in Seq(ByteSet) /\ toHost \o OK \in Seq(ByteSet)
      /\ \A f \in Files, i \in Nat : toHost \o Block(f, i) \in Seq(ByteSet)
  BY Adds DEF Types, LineHas
<1>2. Bytes \in Nat /\ Bytes >= 2 /\ Len(<<>>) < Bytes /\ Len(<<>>) <= 1
  BY Empty, SerialLinkAssumption
<1>a. ASSUME UNCHANGED <<hvars, faults>>, LineHas', FlosHas' PROVE Types'
  BY <1>a DEF Types, HostHas, hvars
<1>3. ASSUME NEW want \in Wanted, FlosReceive(want) PROVE Types'
  <2>1. LineHas'
    BY <1>2, <1>3, Empty DEF FlosReceive, Types, LineHas
  <2>2. FlosHas'
    BY <1>2, <1>3, Empty DEF FlosReceive, Types, FlosHas
  <2> QED BY <1>3, <1>a, <2>1, <2>2 DEF FlosReceive
<1>4. ASSUME NEW f \in Files, FlosSend(f) PROVE Types'
  <2>1. LineHas'
    BY <1>1, <1>4 DEF FlosSend, Types, LineHas
  <2>2. FlosHas'
    BY <1>2, <1>4, Empty, SerialLinkAssumption DEF FlosSend, Types, FlosHas, Wanted
  <2> QED BY <1>4, <1>a, <2>1, <2>2 DEF FlosSend
<1>b. ASSUME Read, toHost' \in Seq(ByteSet) PROVE LineHas'
  BY <1>b, ReadTakes, Empty DEF Types, LineHas
<1>5. CASE FlosByte
  <2>1. LineHas'
    BY <1>5, <1>b DEF FlosByte, Types, LineHas
  <2>2. fgot' \in Seq(ByteSet) /\ Len(fgot') = Len(fgot) + 1 /\ Len(fgot) \in Nat
    BY <1>5, ReadTakes DEF FlosByte
  <2>3. Len(fgot') < Bytes /\ (flos = "tx" => Len(fgot') <= 1)
    BY <1>2, <1>5, <2>2 DEF FlosByte, ReadLast, Types, FlosHas
  <2>4. FlosHas'
    BY <1>5, <2>2, <2>3 DEF FlosByte, Types, FlosHas
  <2> QED BY <1>5, <1>a, <2>1, <2>4 DEF FlosByte, Read
<1>6. CASE FlosHeader
  <2>1. Read /\ UNCHANGED fstored
    BY <1>6 DEF FlosHeader, ReadLast
  <2>2. fgot' = <<>> /\ toHost' \in Seq(ByteSet) /\ fno' \in Nat
    <3>1. fgot' = <<>> /\ toHost' \in {toHost, toHost \o XX} /\ (fno' = fno \/ fno' = 0)
      BY <1>6 DEF FlosHeader, FlosEnds
    <3>2. toHost \in Seq(ByteSet) /\ fno \in Nat
      BY DEF Types, LineHas, FlosHas
    <3>3. fno' \in Nat
      BY <3>1, <3>2
    <3> QED BY <1>1, <3>1, <3>2, <3>3
  <2>3. (flos' = "accept" /\ ffile' \in Files) \/ (flos' = "idle" /\ ffile' = "none")
    <3>1. IsBlock(Taken, 0) => FileOf(Taken) \in Files
      BY BlockIs DEF IsBlock
    <3> QED BY <1>6, <3>1 DEF FlosHeader, FlosEnds
  <2>4. FlosHas'
    BY <1>2, <2>1, <2>2, <2>3, Empty DEF Types, FlosHas, Wanted
  <2> QED BY <1>a, <1>b, <2>1, <2>2, <2>4 DEF Read
<1>7. CASE FlosAccept
  <2>1. LineHas'
    BY <1>1, <1>7 DEF FlosAccept, Types, LineHas
  <2>2. FlosHas'
    BY <1>7 DEF FlosAccept, Types, FlosHas
  <2> QED BY <1>7, <1>a, <2>1, <2>2 DEF FlosAccept
<1>8. CASE FlosBlock
  <2>1. Read /\ Taken \in Seq(ByteSet) /\ flos = "rx_block"
    BY <1>8, ReadTakes DEF FlosBlock, ReadLast
  <2>2. Append(fstored, Taken) \in Seq(Seq(ByteSet))
    BY <2>1 DEF Types, FlosHas
  <2>3. fgot' = <<>> /\ toHost' \in Seq(ByteSet)
    BY <1>1, <1>8 DEF FlosBlock, FlosStores, FlosRefuses, FlosEnds
  <2>4. fno' \in Nat /\ fstored' \in Seq(Seq(ByteSet))
    <3>1. (fno' = fno \/ fno' = 0) /\ (fstored' = fstored \/ fstored' = Append(fstored, Taken))
      BY <1>8 DEF FlosBlock, FlosStores, FlosRefuses, FlosEnds
    <3>2. fno \in Nat /\ fstored \in Seq(Seq(ByteSet))
      BY DEF Types, FlosHas
    <3>3. fno' \in Nat
      BY <3>1, <3>2
    <3> QED BY <2>2, <3>1, <3>2, <3>3
  <2>5. flos' \in {"idle", "rx_block"} /\ (ffile' = ffile \/ (ffile' = "none" /\ flos' = "idle"))
    BY <1>8, <2>1 DEF FlosBlock, FlosStores, FlosRefuses, FlosEnds
  <2>6. FlosHas'
    BY <1>2, <2>1, <2>3, <2>4, <2>5, Empty DEF Types, FlosHas
  <2> QED BY <1>a, <1>b, <2>1, <2>3, <2>6 DEF Read
<1>9. CASE FlosAck
  <2>1. Read /\ UNCHANGED fstored /\ flos = "tx"
    BY <1>9 DEF FlosAck, ReadLast
  <2>2. ffile \in Files /\ fno \in Nat /\ Length[ffile] \in Nat /\ toHost \in Seq(ByteSet)
    BY <2>1, SerialLinkAssumption DEF Types, LineHas, FlosHas
  <2>3. fgot' = <<>> /\ toHost' \in Seq(ByteSet) /\ fno' \in Nat
    <3>1. toHost \o Block(ffile, fno + 1) \in Seq(ByteSet) /\ fno + 1 \in Nat
      BY <1>1, <2>2
    <3>2. /\ fgot' = <<>> /\ toHost' \in {toHost, toHost \o Block(ffile, fno + 1)}
          /\ fno' = fno + 1 \/ fno' = 0
      BY <1>9 DEF FlosAck, FlosEnds
    <3>3. fno' \in Nat
      BY <3>1, <3>2
    <3> QED BY <2>2, <3>1, <3>2, <3>3
  <2>4. \/ flos' = "tx" /\ ffile' = ffile /\ fno' = fno + 1 /\ fno < Length[ffile]
        \/ flos' = "idle" /\ ffile' = "none"
    BY <1>9, <2>1 DEF FlosAck, FlosEnds
  <2>5. FlosHas'
    BY <1>2, <2>1, <2>2, <2>3, <2>4, Empty DEF Types, FlosHas
  <2> QED BY <1>a, <1>b, <2>1, <2>3, <2>5 DEF Read
<1>10. CASE FlosTimeout
  <2>1. UNCHANGED <<hvars, faults, fstored, reg, toFlos>> /\ toHost' \in Seq(ByteSet)
    BY <1>1, <1>10 DEF FlosTimeout, Types, LineHas
  <2>2. flos' = "idle" /\ fgot' = <<>> /\ ffile' = "none" /\ fno' = 0
    BY <1>10 DEF FlosTimeout, FlosEnds
  <2>3. FlosHas'
    BY <1>2, <2>1, <2>2, Empty DEF Types, FlosHas
  <2>4. LineHas'
    BY <2>1 DEF Types, LineHas
  <2> QED BY <1>a, <2>1, <2>3, <2>4
<1> QED BY <1>3, <1>4, <1>5, <1>6, <1>7, <1>8, <1>9, <1>10 DEF Flos, FlosStart

\* What the host takes of its buffer for an acknowledge.
LEMMA AckTakes ==
  ASSUME Types, host = "tx", Len(hbuf) >= 2
  PROVE  /\ SubSeq(hbuf, 3, Len(hbuf)) \in Seq(ByteSet)
         /\ Len(hbuf) = Len(SubSeq(hbuf, 3, Len(hbuf))) + 2
         /\ Len(hbuf) \in Nat /\ Len(SubSeq(hbuf, 3, Len(hbuf))) \in Nat
         /\ \A a \in 1 .. Len(SubSeq(hbuf, 3, Len(hbuf))) : SubSeq(hbuf, 3, Len(hbuf))[a] = hbuf[a + 2]
         /\ SubSeq(hbuf, 1, 2) = OK => hbuf[2] = K
<1> DEFINE n == Len(hbuf)
           s == SubSeq(hbuf, 3, n)
<1>1. hbuf \in Seq(ByteSet) /\ n \in Nat /\ n >= 2
  BY Empty DEF Types, HostHas
<1>2. s \in Seq(ByteSet) /\ Len(s) = n - 2 /\ \A a \in 1 .. Len(s) : s[a] = hbuf[a + 2]
  <2>1. \A a \in 3 .. n : hbuf[a] \in ByteSet
    BY <1>1
  <2>2. Len(s) = n - 2
    <3>1. Len(s) = IF 3 <= n THEN (n - 3) + 1 ELSE 0
      BY <1>1, SubSeqProperties
    <3> HIDE DEF s, n
    <3> QED BY <1>1, <3>1
  <2>3. \A a \in 1 .. n - 2 : s[a] = hbuf[a + 2]
    BY <1>1
  <2>4. s \in Seq(ByteSet)
    BY <1>1, <2>1
  <2> QED BY <2>2, <2>3, <2>4
<1>3. SubSeq(hbuf, 1, 2) = OK => hbuf[2] = K
  <2>1. SubSeq(hbuf, 1, 2)[2] = hbuf[2]
    BY <1>1
  <2> QED BY <2>1, AnswersAre
<1> HIDE DEF s
<1>4. n = Len(s) + 2 /\ Len(s) \in Nat
  BY <1>1, <1>2
<1> QED BY <1>1, <1>2, <1>3, <1>4 DEF s

\* So does the host.
LEMMA TypesHost == Types /\ (Host \/ HostStart \/ HostTimeout) => Types'
<1> SUFFICES ASSUME Types, Host \/ HostStart \/ HostTimeout PROVE Types'
  OBVIOUS
<1>1. /\ toFlos \o XX \in Seq(ByteSet) /\ toFlos \o OK \in Seq(ByteSet)
      /\ \A f \in Files, i \in Nat : toFlos \o Block(f, i) \in Seq(ByteSet)
  BY Adds DEF Types, LineHas
<1>2. Bytes \in Nat /\ Bytes >= 2 /\ Len(<<>>) <= Bytes
  BY Empty, SerialLinkAssumption
<1>a. ASSUME UNCHANGED <<toHost, reg, fvars, faults>>, toFlos' \in Seq(ByteSet), HostHas' PROVE Types'
  BY <1>a DEF Types, LineHas, FlosHas, fvars
<1>3. ASSUME NEW f \in Files, HostSend(f) PROVE Types'
  <2>1. HostHas'
    BY <1>2, <1>3, Empty, SerialLinkAssumption DEF HostSend, Types, HostHas
  <2> QED BY <1>1, <1>3, <1>a, <2>1 DEF HostSend
<1>4. CASE HostReceive
  <2>1. HostHas'
    BY <1>2, <1>4, Empty DEF HostReceive, Types, HostHas
  <2> QED BY <1>4, <1>a, <2>1 DEF HostReceive, line, Types, LineHas
<1>5. CASE HostAck
  <2>1. host = "tx" /\ Len(hbuf) >= 2 /\ hbuf' = SubSeq(hbuf, 3, Len(hbuf))
        /\ UNCHANGED <<toHost, reg, fvars, hstored, faults>>
    BY <1>5 DEF HostAck
  <2>2. hbuf' \in Seq(ByteSet) /\ Len(hbuf') <= Bytes
    BY <1>2, <2>1, AckTakes DEF Types, HostHas
  <2>3. hfile \in Files /\ hno \in Nat /\ Length[hfile] \in Nat /\ toFlos \in Seq(ByteSet)
    BY <2>1, SerialLinkAssumption DEF Types, LineHas, HostHas
  <2>4. toFlos' \in Seq(ByteSet) /\ hno' \in Nat
    <3>1. toFlos \o Block(hfile, hno + 1) \in Seq(ByteSet) /\ hno + 1 \in Nat
      BY <1>1, <2>3
    <3>2. /\ toFlos' \in {toFlos, toFlos \o Block(hfile, hno + 1)}
          /\ hno' = hno + 1 \/ hno' = 0
      BY <1>5 DEF HostAck, HostEnds
    <3>3. hno' \in Nat
      BY <3>1, <3>2
    <3> QED BY <2>3, <3>1, <3>2, <3>3
  <2>5. \/ host' = "tx" /\ hfile' = hfile /\ hno' = hno + 1 /\ hno < Length[hfile]
        \/ host' = "idle" /\ hfile' = "none"
    BY <1>5, <2>1 DEF HostAck, HostEnds
  <2>6. HostHas'
    BY <2>1, <2>2, <2>3, <2>4, <2>5 DEF Types, HostHas
  <2> QED BY <1>a, <2>1, <2>4, <2>6
<1>6. CASE HostHeader
  <2>1. hbuf' = <<>> /\ UNCHANGED <<toHost, reg, fvars, faults, hstored>>
    BY <1>6 DEF HostHeader, HostTakesBlock
  <2>2. toFlos' \in Seq(ByteSet) /\ hno' \in Nat
    <3>1. toFlos' \in {toFlos \o OK, toFlos \o XX} /\ (hno' = hno \/ hno' = 0)
      BY <1>6 DEF HostHeader, HostEnds
    <3>2. hno \in Nat
      BY DEF Types, HostHas
    <3>3. hno' \in Nat
      BY <3>1, <3>2
    <3> QED BY <1>1, <3>1, <3>2, <3>3
  <2>3. (host' = "rx_block" /\ hfile' \in Files) \/ (host' = "idle" /\ hfile' = "none")
    <3>1. IsBlock(hbuf, 0) => FileOf(hbuf) \in Files
      BY BlockIs DEF IsBlock
    <3> QED BY <1>6, <3>1 DEF HostHeader, HostEnds
  <2>4. HostHas'
    BY <1>2, <2>1, <2>2, <2>3, Empty DEF Types, HostHas
  <2> QED BY <1>a, <2>1, <2>2, <2>4
<1>7. CASE HostBlock
  <2>1. hbuf' = <<>> /\ UNCHANGED <<toHost, reg, fvars, faults>> /\ host = "rx_block"
    BY <1>7 DEF HostBlock, HostTakesBlock
  <2>2. Append(hstored, hbuf) \in Seq(Seq(ByteSet))
    BY DEF Types, HostHas
  <2>3. toFlos' \in Seq(ByteSet)
    BY <1>1, <1>7 DEF HostBlock, HostStores, HostEnds
  <2>4. hno' \in Nat /\ hstored' \in Seq(Seq(ByteSet))
    <3>1. (hno' = hno \/ hno' = 0) /\ (hstored' = hstored \/ hstored' = Append(hstored, hbuf))
      BY <1>7 DEF HostBlock, HostStores, HostEnds
    <3>2. hno \in Nat /\ hstored \in Seq(Seq(ByteSet))
      BY DEF Types, HostHas
    <3>3. hno' \in Nat
      BY <3>1, <3>2
    <3> QED BY <2>2, <3>1, <3>2, <3>3
  <2>5. host' \in {"idle", "rx_block"} /\ (hfile' = hfile \/ (hfile' = "none" /\ host' = "idle"))
    BY <1>7, <2>1 DEF HostBlock, HostStores, HostEnds
  <2>6. HostHas'
    BY <1>2, <2>1, <2>4, <2>5, Empty DEF Types, HostHas
  <2> QED BY <1>a, <2>1, <2>3, <2>6
<1>8. CASE HostTimeout
  <2>1. UNCHANGED <<line, fvars, hbuf, hstored, faults>>
    BY <1>8 DEF HostTimeout
  <2>2. host' = "idle" /\ hfile' = "none" /\ hno' = 0
    BY <1>8 DEF HostTimeout, HostEnds
  <2>3. HostHas'
    BY <2>1, <2>2 DEF Types, HostHas
  <2> QED BY <1>a, <2>1, <2>3 DEF line, Types, LineHas
<1> QED BY <1>3, <1>4, <1>5, <1>6, <1>7, <1>8 DEF Host, HostStart

\* Every step leaves every variable what it is,
LEMMA TypesStep == Types /\ [Next]_vars => Types'
<1>1. Types /\ UNCHANGED vars => Types'
  BY DEF Types, LineHas, FlosHas, HostHas, vars, line, fvars, hvars
<1> QED BY <1>1, TypesLine, TypesFlos, TypesHost DEF Next

\* and so they stay.
LEMMA TypesHold == Spec => []Types
BY TypesInit, TypesStep, PTL DEF Spec

(* The contents of every variable: no block outgrows the buffer it is put  *)
(* together in, and no transfer counts past the end of its file, whatever  *)
(* the files and the line.                                                 *)
THEOREM TypeCorrect == Spec => []TypeOK
<1>1. Types => TypeOK
  BY DEF Types, LineHas, FlosHas, HostHas, TypeOK
<1> QED BY <1>1, TypesHold, PTL

-----------------------------------------------------------------------------
(* Short streams, noise, and the bytes that end a block.                   *)
LEMMA Short ==
  ASSUME NEW s \in Seq(ByteSet), Len(s) <= 1
  PROVE  NoK(s) /\ OneK(s)
<1>1. Len(s) \in Nat
  OBVIOUS
<1> QED BY <1>1 DEF NoK, OneK

\* No K is at most one.
LEMMA NoKOneK ==
  ASSUME NEW s \in Seq(ByteSet), NoK(s)
  PROVE  OneK(s)
<1>1. Len(s) \in Nat
  OBVIOUS
<1> QED BY <1>1 DEF NoK, OneK

\* Noise could be of any block.
LEMMA NoiseIsClean ==
  ASSUME NEW s \in Seq(ByteSet), AllNoise(s)
  PROVE  EndsLast(s) /\ \A f, i : Of(s, f, i) /\ Clean(s, f, i)
BY DEF AllNoise, EndsLast, Of, Clean

\* An empty stream holds nothing.
LEMMA EmptyIs == /\ AllNoise(<<>>) /\ NoK(<<>>) /\ OneK(<<>>) /\ EndsLast(<<>>)
                 /\ \A f, i : Of(<<>>, f, i) /\ Clean(<<>>, f, i)
<1>1. AllNoise(<<>>)
  BY Empty DEF AllNoise
<1>2. NoK(<<>>) /\ OneK(<<>>)
  <2>1. <<>> \in Seq(ByteSet) /\ Len(<<>>) <= 1
    BY Empty
  <2> QED BY <2>1, Short
<1>3. EndsLast(<<>>) /\ \A f, i : Of(<<>>, f, i) /\ Clean(<<>>, f, i)
  BY <1>1, Empty, NoiseIsClean
<1> QED BY <1>1, <1>2, <1>3

\* Streams are joined in any order.
LEMMA Joins ==
  ASSUME NEW p \in Seq(ByteSet), NEW q \in Seq(ByteSet), NEW r \in Seq(ByteSet)
  PROVE  (p \o q) \o r = p \o (q \o r) /\ <<>> \o p = p /\ p \o <<>> = p
BY ConcatAssociative, ConcatEmptySeq

\* The last byte of a block and what it says of a stream that begins with it.
LEMMA EndIs ==
  ASSUME NEW f \in Files, NEW i \in Nat, NEW s, s = Block(f, i)
  PROVE  /\ s[Bytes] = Byte(f, i, Bytes) /\ IsEnd(s[Bytes]) /\ s[Bytes] # Noise
         /\ \A g, j, k : s[Bytes] = Byte(g, j, k) => g = f /\ j = i
<1>1. s[Bytes] = Byte(f, i, Bytes)
  BY BlockIs, SerialLinkAssumption
<1>2. IsEnd(Byte(f, i, Bytes)) /\ Byte(f, i, Bytes) # Noise
  BY Kinds DEF IsEnd, Byte
<1>3. \A g, j, k : Byte(f, i, Bytes) = Byte(g, j, k) => g = f /\ j = i
  <2> SUFFICES ASSUME NEW g, NEW j, NEW k, Byte(f, i, Bytes) = Byte(g, j, k) PROVE g = f /\ j = i
    OBVIOUS
  <2>1. /\ Byte(f, i, Bytes).of = f /\ Byte(g, j, k).of = g
        /\ Byte(f, i, Bytes).no = i /\ Byte(g, j, k).no = j
    BY DEF Byte
  <2> QED BY <2>1
<1> QED BY <1>1, <1>2, <1>3

-----------------------------------------------------------------------------
(* The blocks that have been stored.                                       *)
LEMMA BeginsGrows ==
  ASSUME NEW s \in Seq(Seq(ByteSet)), NEW f \in Files, Begins(s, f),
         NEW b \in Seq(ByteSet), b = Block(f, Len(s) + 1)
  PROVE  /\ Begins(Append(s, b), f) /\ Len(Append(s, b)) = Len(s) + 1
         /\ Append(s, b) \in Seq(Seq(ByteSet))
<1> DEFINE t == Append(s, b)
<1>1. /\ Len(s) \in Nat /\ t \in Seq(Seq(ByteSet)) /\ Len(t) = Len(s) + 1
      /\ \A a \in 1 .. Len(s) : t[a] = s[a]
      /\ t[Len(s) + 1] = b
  OBVIOUS
<1> HIDE DEF t
<1>2. \A a \in 1 .. Len(t) : a \in 1 .. Len(s) \/ a = Len(s) + 1
  BY <1>1
<1>3. Begins(t, f)
  BY <1>1, <1>2 DEF Begins
<1> QED BY <1>1, <1>3 DEF t

\* All the blocks of a file are the file.
LEMMA BeginsWhole ==
  ASSUME NEW s \in Seq(Seq(ByteSet)), NEW f \in Files, Begins(s, f), Len(s) = Length[f]
  PROVE  s = Whole(f)
<1>1. s = [a \in 1 .. Len(s) |-> s[a]] /\ DOMAIN s = 1 .. Len(s)
  OBVIOUS
<1>2. \A a \in 1 .. Len(s) : s[a] = Block(f, a)
  BY DEF Begins
<1> QED BY <1>1, <1>2 DEF Whole

\* At first, none is stored of a file, which has one at least.
LEMMA NothingStored ==
  ASSUME NEW f \in Files
  PROVE  Begins(<<>>, f) /\ Len(<<>>) = 0 /\ 0 < Length[f] /\ Length[f] \in Nat
BY Empty, SerialLinkAssumption DEF Begins

-----------------------------------------------------------------------------
\* The streams are made of bytes.
LEMMA Streams ==
  Types => /\ Coming \in Seq(ByteSet) /\ ToFlos \in Seq(ByteSet) /\ Back \in Seq(ByteSet)
           /\ reg \in Seq(ByteSet) /\ toFlos \in Seq(ByteSet) /\ toHost \in Seq(ByteSet)
           /\ fgot \in Seq(ByteSet) /\ hbuf \in Seq(ByteSet)
           /\ ToFlos = fgot \o Coming
           /\ Len(Back) = Len(hbuf) + Len(toHost) /\ Len(hbuf) \in Nat /\ Len(toHost) \in Nat
<1> SUFFICES ASSUME Types
             PROVE  /\ Coming \in Seq(ByteSet) /\ ToFlos \in Seq(ByteSet) /\ Back \in Seq(ByteSet)
                    /\ reg \in Seq(ByteSet) /\ toFlos \in Seq(ByteSet) /\ toHost \in Seq(ByteSet)
                    /\ fgot \in Seq(ByteSet) /\ hbuf \in Seq(ByteSet)
                    /\ ToFlos = fgot \o Coming
                    /\ Len(Back) = Len(hbuf) + Len(toHost) /\ Len(hbuf) \in Nat /\ Len(toHost) \in Nat
  OBVIOUS
<1>1. /\ reg \in Seq(ByteSet) /\ toFlos \in Seq(ByteSet) /\ toHost \in Seq(ByteSet)
      /\ fgot \in Seq(ByteSet) /\ hbuf \in Seq(ByteSet)
  BY DEF Types, LineHas, FlosHas, HostHas
<1>2. Coming \in Seq(ByteSet) /\ Back \in Seq(ByteSet) /\ Len(Back) = Len(hbuf) + Len(toHost)
  BY <1>1, ConcatIs DEF Coming, Back
<1>3. ToFlos = fgot \o Coming
  BY <1>1, Joins DEF ToFlos, Coming
<1>4. ToFlos \in Seq(ByteSet)
  BY <1>1, <1>2, <1>3, ConcatIs
<1> QED BY <1>1, <1>2, <1>3, <1>4, Empty

\* Bytes that are sent come behind what is on its way.
LEMMA SentToFlos ==
  ASSUME Types, NEW x \in Seq(ByteSet), toFlos' = toFlos \o x, reg' = reg, fgot' = fgot
  PROVE  Coming' = Coming \o x /\ ToFlos' = ToFlos \o x
<1>1. reg \in Seq(ByteSet) /\ toFlos \in Seq(ByteSet)
  BY Streams
<1>2. fgot \o reg \in Seq(ByteSet)
  BY <1>1, Streams, ConcatIs
<1>3. reg \o (toFlos \o x) = (reg \o toFlos) \o x
  BY <1>1, Joins
<1>4. (fgot \o reg) \o (toFlos \o x) = ((fgot \o reg) \o toFlos) \o x
  BY SMTT(30), <1>1, <1>2, Joins
<1> QED BY <1>3, <1>4 DEF Coming, ToFlos

\* The same, to the host.
LEMMA SentToHost ==
  ASSUME Types, NEW x \in Seq(ByteSet), toHost' = toHost \o x, hbuf' = hbuf
  PROVE  Back' = Back \o x
<1>1. hbuf \in Seq(ByteSet) /\ toHost \in Seq(ByteSet)
  BY Streams
<1>2. hbuf \o (toHost \o x) = (hbuf \o toHost) \o x
  BY <1>1, Joins
<1> QED BY <1>2 DEF Back

-----------------------------------------------------------------------------
(* What a step of the line keeps of the streams.                           *)
KeepsToFlos ==
  /\ AllNoise(Coming) => AllNoise(Coming')
  /\ \A f, i : Clean(Coming, f, i) => Clean(Coming', f, i)
  /\ flos = "tx" => (NoK(ToFlos) => NoK(ToFlos')) /\ (OneK(ToFlos) => OneK(ToFlos'))

KeepsBack ==
  /\ Len(Back') <= Len(Back)
  /\ AllNoise(Back) => AllNoise(Back')
  /\ \A f, i : Clean(Back, f, i) => Clean(Back', f, i)
  /\ NoK(Back) => NoK(Back')
  /\ OneK(Back) => OneK(Back')

KeepsToHost ==
  /\ toHost = <<>> => toHost' = <<>> /\ hbuf' = hbuf
  /\ EndsLast(toHost) => EndsLast(toHost')
  /\ \A f, i : Of(toHost, f, i) => Of(toHost', f, i)
  /\ Back = <<>> => Back' = <<>>
  /\ AllNoise(toHost) => AllNoise(toHost')
  /\ \/ hbuf' = hbuf
     \/ /\ toHost # <<>> /\ Len(hbuf) < Bytes /\ hbuf' = Append(hbuf, Head(toHost))
        /\ toHost' = Tail(toHost)

\* What a step that lets a stream fade keeps.
LEMMA FadesCoarse ==
  ASSUME NEW s \in Seq(ByteSet), NEW t \in Seq(ByteSet), Fades(t, s)
  PROVE  /\ Len(t) <= Len(s) /\ (s = <<>> => t = <<>>)
         /\ AllNoise(s) => AllNoise(t)
         /\ EndsLast(s) => EndsLast(t)
         /\ \A f, i : Of(s, f, i) => Of(t, f, i)
         /\ \A f, i : Clean(s, f, i) => Clean(t, f, i)
         /\ NoK(s) => NoK(t)
         /\ OneK(s) => OneK(t)
<1>1. Len(t) <= Len(s)
  BY DEF Fades
<1>2. s = <<>> => t = <<>>
  <2>1. Len(s) \in Nat /\ Len(t) \in Nat /\ (Len(s) = 0 <=> s = <<>>) /\ (Len(t) = 0 <=> t = <<>>)
    BY Empty
  <2> QED BY <1>1, <2>1
<1> QED BY <1>1, <1>2, FadesKeeps DEF Clean

\* A step that changes nothing of a stream keeps all of it.
LEMMA KeepsSame ==
  ASSUME Types
  PROVE  /\ Coming' = Coming /\ ToFlos' = ToFlos => KeepsToFlos
         /\ Back' = Back => KeepsBack
         /\ toHost' = toHost /\ hbuf' = hbuf => KeepsToHost
<1>1. Back' = Back => Len(Back') <= Len(Back)
  BY Streams
<1>2. Back' = Back => KeepsBack
  BY <1>1 DEF KeepsBack
<1>3. Coming' = Coming /\ ToFlos' = ToFlos => KeepsToFlos
  BY DEF KeepsToFlos
<1>4. toHost' = toHost /\ hbuf' = hbuf => KeepsToHost
  BY DEF KeepsToHost, Back
<1> QED BY <1>2, <1>3, <1>4

\* A stream is its first byte and the others.
LEMMA HeadFirst ==
  ASSUME NEW s \in Seq(ByteSet), s # <<>>
  PROVE  <<Head(s)>> \in Seq(ByteSet) /\ <<Head(s)>> \o Tail(s) = s
<1> DEFINE x == <<Head(s)>>
           q == x \o Tail(s)
<1>1. /\ x \in Seq(ByteSet) /\ Len(x) = 1 /\ x[1] = s[1] /\ Tail(s) \in Seq(ByteSet)
      /\ Len(Tail(s)) = Len(s) - 1 /\ Len(s) \in Nat /\ Len(s) >= 1
      /\ \A a \in 1 .. Len(s) - 1 : Tail(s)[a] = s[a + 1]
  OBVIOUS
<1> HIDE DEF x
<1>2. q \in Seq(ByteSet) /\ Len(q) = Len(x) + Len(Tail(s))
      /\ \A a \in 1 .. Len(q) : q[a] = IF a <= Len(x) THEN x[a] ELSE Tail(s)[a - Len(x)]
  BY <1>1, ConcatIs
<1> HIDE DEF q
<1>3. Len(q) = Len(s)
  BY <1>1, <1>2
<1>4. \A a \in 1 .. Len(q) : q[a] = s[a]
  <2> SUFFICES ASSUME NEW a \in 1 .. Len(q) PROVE q[a] = s[a]
    OBVIOUS
  <2>1. CASE a <= 1
    BY <1>1, <1>2, <2>1
  <2>2. CASE ~(a <= 1)
    <3>1. a - 1 \in 1 .. Len(s) - 1 /\ (a - 1) + 1 = a
      BY <1>1, <1>3, <2>2
    <3> QED BY <1>1, <1>2, <2>2, <3>1
  <2> QED BY <2>1, <2>2
<1>5. q = s
  BY <1>1, <1>2, <1>3, <1>4, SeqEqual
<1> QED BY <1>1, <1>5 DEF q, x

\* A byte gets to the register of FLOS, over another if nobody reads,
LEMMA DeliverToFlosKeeps ==
  ASSUME Types, Types', DeliverToFlos
  PROVE  KeepsToFlos /\ KeepsBack /\ KeepsToHost
<1>1. /\ toFlos \in Seq(ByteSet) /\ toFlos # <<>> /\ toFlos' = Tail(toFlos) /\ reg' = <<Head(toFlos)>>
      /\ reg \in Seq(ByteSet) /\ fgot \in Seq(ByteSet) /\ toHost' = toHost /\ hbuf' = hbuf /\ fgot' = fgot
      /\ toFlos' \in Seq(ByteSet) /\ reg' \in Seq(ByteSet)
  BY DEF DeliverToFlos, Types, LineHas, FlosHas, fvars, hvars
<1>2. Coming' = toFlos
  BY <1>1, HeadFirst DEF Coming
<1>3. Coming \in Seq(ByteSet) /\ Coming' \in Seq(ByteSet) /\ Fades(Coming', Coming)
  BY <1>1, <1>2, FadesDrop, Streams DEF Coming
<1>4. flos = "tx" => ToFlos' = ToFlos
  <2> SUFFICES ASSUME flos = "tx" PROVE ToFlos' = ToFlos
    OBVIOUS
  <2>1. reg = <<>>
    BY DEF DeliverToFlos, Polling
  <2>2. Coming = toFlos
    BY <1>1, <2>1, Joins DEF Coming
  <2>3. ToFlos = fgot \o Coming
    BY Streams
  <2>4. ToFlos' = fgot' \o Coming'
    BY <1>1, Joins DEF ToFlos, Coming
  <2> QED BY <1>1, <1>2, <2>2, <2>3, <2>4
<1>5. KeepsToFlos
  <2>1. /\ AllNoise(Coming) => AllNoise(Coming')
        /\ \A f, i : Clean(Coming, f, i) => Clean(Coming', f, i)
    BY <1>3, FadesCoarse
  <2> QED BY <1>4, <2>1 DEF KeepsToFlos
<1>6. Back' = Back
  BY <1>1 DEF Back
<1> QED BY <1>1, <1>5, <1>6, KeepsSame

\* A step that takes the host's stream s for t, with the buffer as it was.
LEMMA KeepsFaded ==
  ASSUME Types, Types', hbuf' = hbuf, Fades(toHost', toHost), Fades(Back', Back)
  PROVE  KeepsBack /\ KeepsToHost
<1>1. /\ toHost \in Seq(ByteSet) /\ toHost' \in Seq(ByteSet) /\ hbuf \in Seq(ByteSet)
      /\ Back \in Seq(ByteSet) /\ Back' \in Seq(ByteSet)
  BY ConcatIs DEF Types, LineHas, HostHas, Back
<1>2. KeepsBack
  BY <1>1, FadesCoarse DEF KeepsBack
<1>3. KeepsToHost
  <2>1. /\ toHost = <<>> => toHost' = <<>>
        /\ EndsLast(toHost) => EndsLast(toHost')
        /\ \A f, i : Of(toHost, f, i) => Of(toHost', f, i)
        /\ AllNoise(toHost) => AllNoise(toHost')
    BY <1>1, FadesCoarse
  <2>2. Back = <<>> => Back' = <<>>
    BY <1>1, FadesCoarse
  <2> QED BY <2>1, <2>2 DEF KeepsToHost
<1> QED BY <1>2, <1>3

\* or to the buffer of the host, unless it is full,
LEMMA DeliverToHostKeeps ==
  ASSUME Types, Types', DeliverToHost
  PROVE  KeepsToFlos /\ KeepsBack /\ KeepsToHost
<1>1. /\ toHost \in Seq(ByteSet) /\ toHost # <<>> /\ toHost' = Tail(toHost)
      /\ hbuf \in Seq(ByteSet) /\ hbuf' \in Seq(ByteSet)
      /\ toHost' \in Seq(ByteSet) /\ Head(toHost) \in ByteSet
      /\ toFlos' = toFlos /\ reg' = reg /\ fgot' = fgot
  BY TakeByte DEF DeliverToHost, Types, LineHas, HostHas, fvars
<1>2. KeepsToFlos
  <2>1. Coming' = Coming /\ ToFlos' = ToFlos
    BY <1>1 DEF Coming, ToFlos
  <2> QED BY <2>1, KeepsSame
<1>3. /\ Fades(toHost', toHost) /\ Fades(hbuf \o Tail(toHost), hbuf \o toHost)
  <2>1. toHost = <<Head(toHost)>> \o Tail(toHost) /\ <<Head(toHost)>> \in Seq(ByteSet)
    BY <1>1, HeadFirst
  <2>2. Fades(Tail(toHost), <<Head(toHost)>> \o Tail(toHost))
    BY <1>1, <2>1, FadesDrop
  <2> QED BY <1>1, <2>1, <2>2, FadesLose
<1>4. CASE Len(hbuf) < Bytes
  <2>1. hbuf' = Append(hbuf, Head(toHost))
    BY <1>4 DEF DeliverToHost
  <2>2. Back' = Back
    <3> DEFINE x == <<Head(toHost)>>
    <3>1. hbuf' = hbuf \o x
      BY <1>1, <2>1, AppendIsConcat
    <3>2. x \in Seq(ByteSet) /\ x \o Tail(toHost) = toHost
      BY <1>1, HeadFirst
    <3> HIDE DEF x
    <3>3. (hbuf \o x) \o Tail(toHost) = hbuf \o (x \o Tail(toHost))
      BY SMTT(30), <1>1, <3>2, Joins
    <3> QED BY <1>1, <3>1, <3>2, <3>3 DEF Back
  <2>3. KeepsBack
    BY <2>2, KeepsSame
  <2>4. KeepsToHost
    <3>1. /\ EndsLast(toHost) => EndsLast(toHost')
          /\ \A f, i : Of(toHost, f, i) => Of(toHost', f, i)
          /\ AllNoise(toHost) => AllNoise(toHost')
      BY <1>1, <1>3, FadesCoarse
    <3> QED BY <1>1, <1>4, <2>1, <2>2, <3>1 DEF KeepsToHost
  <2> QED BY <1>2, <2>3, <2>4
<1>5. CASE ~(Len(hbuf) < Bytes)
  <2>1. hbuf' = hbuf
    BY <1>5 DEF DeliverToHost
  <2>2. Fades(Back', Back)
    BY <1>1, <1>3, <2>1 DEF Back
  <2> QED BY <1>2, <1>3, <2>1, <2>2, KeepsFaded
<1> QED BY <1>4, <1>5

\* or is lost or spoiled, or comes from nowhere.
LEMMA FaultKeeps ==
  ASSUME Types, Types', Lose \/ Spoil \/ Glitch
  PROVE  KeepsToFlos /\ KeepsBack /\ KeepsToHost
<1>1. /\ toFlos \in Seq(ByteSet) /\ toHost \in Seq(ByteSet) /\ toFlos' \in Seq(ByteSet) /\ toHost' \in Seq(ByteSet)
      /\ reg \in Seq(ByteSet) /\ fgot \in Seq(ByteSet) /\ hbuf \in Seq(ByteSet)
      /\ reg' = reg /\ fgot' = fgot /\ hbuf' = hbuf
  BY DEF Lose, Spoil, Glitch, Fault, Types, LineHas, FlosHas, HostHas, fvars, hvars
<1>2. /\ Coming \in Seq(ByteSet) /\ ToFlos \in Seq(ByteSet) /\ Back \in Seq(ByteSet)
      /\ Coming' \in Seq(ByteSet) /\ ToFlos' \in Seq(ByteSet) /\ fgot \o reg \in Seq(ByteSet)
  BY <1>1, ConcatIs, Streams DEF Coming, ToFlos
<1>3. CASE toHost' = toHost /\ toFlos # <<>> /\ toFlos' \in {Tail(toFlos), <<Noise>> \o Tail(toFlos)}
  <2>1. Fades(reg \o Tail(toFlos), reg \o toFlos) /\ Fades(reg \o (<<Noise>> \o Tail(toFlos)), reg \o toFlos)
    BY <1>1, <1>3, FadesLose
  <2>2. /\ Fades((fgot \o reg) \o Tail(toFlos), (fgot \o reg) \o toFlos)
        /\ Fades((fgot \o reg) \o (<<Noise>> \o Tail(toFlos)), (fgot \o reg) \o toFlos)
    BY <1>1, <1>2, <1>3, FadesLose
  <2>3. Fades(Coming', Coming) /\ Fades(ToFlos', ToFlos)
    BY <1>1, <1>3, <2>1, <2>2 DEF Coming, ToFlos
  <2>4. KeepsToFlos
    BY <1>2, <2>3, FadesCoarse DEF KeepsToFlos
  <2>5. Back' = Back
    BY <1>1, <1>3 DEF Back
  <2> QED BY <1>1, <1>3, <2>4, <2>5, KeepsSame
<1>4. CASE toHost' = toHost /\ toFlos = <<>> /\ toFlos' = <<Noise>>
  <2>1. Coming' = Coming \o <<Noise>> /\ ToFlos' = ToFlos \o <<Noise>>
    BY <1>1, <1>2, <1>4, Joins DEF Coming, ToFlos
  <2>2. KeepsToFlos
    BY <1>2, <2>1, AddsNoise DEF KeepsToFlos
  <2>3. Back' = Back
    BY <1>1, <1>4 DEF Back
  <2> QED BY <1>1, <1>4, <2>2, <2>3, KeepsSame
<1>5. CASE toFlos' = toFlos /\ toHost # <<>> /\ toHost' \in {Tail(toHost), <<Noise>> \o Tail(toHost)}
  <2>1. Fades(hbuf \o Tail(toHost), hbuf \o toHost) /\ Fades(hbuf \o (<<Noise>> \o Tail(toHost)), hbuf \o toHost)
    BY <1>1, <1>5, FadesLose
  <2>2. Fades(toHost', toHost)
    <3>1. /\ Fades(<<>> \o Tail(toHost), <<>> \o toHost)
          /\ Fades(<<>> \o (<<Noise>> \o Tail(toHost)), <<>> \o toHost)
      BY <1>1, <1>5, Empty, FadesLose
    <3>2. \A s \in Seq(ByteSet) : <<>> \o s = s
      BY Joins
    <3>3. Tail(toHost) \in Seq(ByteSet) /\ <<Noise>> \o Tail(toHost) \in Seq(ByteSet)
      BY <1>1, <1>5, TakeByte, AnswersAre, ConcatIs
    <3> QED BY <1>1, <1>5, <3>1, <3>2, <3>3
  <2>3. Fades(Back', Back)
    BY <1>1, <1>5, <2>1 DEF Back
  <2>4. Coming' = Coming /\ ToFlos' = ToFlos
    BY <1>1, <1>5 DEF Coming, ToFlos
  <2> QED BY <1>1, <2>2, <2>3, <2>4, KeepsFaded, KeepsSame
<1> QED BY <1>3, <1>4, <1>5 DEF Lose, Spoil, Glitch

-----------------------------------------------------------------------------
(* The invariant, step by step.                                            *)
LEMMA LineInit == Init => LineInv
<1> SUFFICES ASSUME Init PROVE LineInv
  OBVIOUS
<1>1. flos = "idle" /\ host = "idle" /\ fresult = "none" /\ hresult = "none"
  BY DEF Init
<1> QED BY <1>1 DEF LineInv, HeaderComes, Accepts, FlosTakes, FlosDone, HostTold,
               HostWaits, HostTakes, HostDone, FlosTold

\* A step that only moves, loses or spoils bytes.
LEMMA LineKeeps ==
  ASSUME Types, Types', LineInv, KeepsToFlos, KeepsBack, KeepsToHost,
         UNCHANGED <<flos, ffile, fno, fstored, fresult>>,
         UNCHANGED <<host, hfile, hno, hstored, hresult>>
  PROVE  LineInv'
<1>1. HeaderComes'
  BY DEF LineInv, HeaderComes, KeepsToFlos, KeepsToHost
<1>2. Accepts'
  BY DEF LineInv, Accepts, KeepsToFlos, KeepsToHost
<1>3. FlosTakes'
  <2>1. Len(Back') <= 2 \/ ~(Len(Back) <= 2)
    <3>1. Len(Back') \in Nat /\ Len(Back) \in Nat
      BY Streams, Empty, ConcatIs DEF Types, LineHas, HostHas, Back
    <3> QED BY <3>1 DEF KeepsBack
  <2>2. SUFFICES ASSUME flos = "rx_block" PROVE FlosTakes'
    BY DEF FlosTakes
  <2>3. /\ ffile' \in Files /\ Len(fstored') < Length[ffile'] /\ Begins(fstored', ffile')
    BY <2>2 DEF LineInv, FlosTakes
  <2> QED BY <2>1, <2>2, <2>3 DEF LineInv, FlosTakes, KeepsToFlos, KeepsToHost
<1>4. FlosDone'
  BY DEF LineInv, FlosDone
<1>5. HostTold'
  BY DEF LineInv, HostTold, FlosReceives, KeepsBack
<1>6. HostWaits'
  <2>1. SUFFICES ASSUME host = "rx_header" PROVE HostWaits'
    BY DEF HostWaits
  <2>2. hstored' = <<>> /\ ~FlosReceives' /\ EndsLast(toHost')
    BY <2>1 DEF LineInv, HostWaits, FlosReceives, KeepsToHost
  <2>3. flos' = "tx" => NoK(ToFlos') /\ Of(toHost', ffile', 0) /\ (fno' = 0 \/ Back' = <<>>)
    BY <2>1 DEF LineInv, HostWaits, KeepsToFlos, KeepsToHost
  <2>4. ASSUME NEW f \in Files, Len(hbuf') = Bytes, hbuf'[Bytes] = Byte(f, 0, Bytes)
        PROVE  AllNoise(toHost') /\ flos' \in {"tx", "idle"} /\ (flos' = "tx" => ffile' = f)
    <3>1. CASE hbuf' = hbuf
      BY <2>1, <2>4, <3>1 DEF LineInv, HostWaits, KeepsToHost
    <3>2. CASE /\ toHost # <<>> /\ Len(hbuf) < Bytes /\ hbuf' = Append(hbuf, Head(toHost))
               /\ toHost' = Tail(toHost)
      <4>1. toHost \in Seq(ByteSet) /\ hbuf \in Seq(ByteSet)
        BY Streams
      <4>2. Head(toHost) = Byte(f, 0, Bytes)
        <5>1. Len(hbuf') = Len(hbuf) + 1 /\ hbuf'[Len(hbuf) + 1] = Head(toHost)
          BY <3>2, <4>1
        <5> QED BY <2>4, <5>1
      <4>3. IsEnd(Byte(f, 0, Bytes)) /\ Byte(f, 0, Bytes) # Noise
        BY Kinds DEF IsEnd, Byte
      <4>4. AllNoise(toHost')
        <5>1. EndsLast(toHost)
          BY <2>1 DEF LineInv, HostWaits
        <5> QED BY <3>2, <4>1, <4>2, <4>3, <5>1, TakeByte
      <4>5. flos \in {"tx", "idle"}
        <5>1. flos # "rx_header"
          BY <3>2 DEF LineInv, HeaderComes
        <5>2. flos \notin {"accept", "rx_block"}
          BY <2>1 DEF LineInv, HostWaits, FlosReceives
        <5> QED BY <5>1, <5>2 DEF Types, FlosHas
      <4>6. ASSUME flos = "tx" PROVE ffile = f
        <5>1. Of(toHost, ffile, 0) /\ ffile \in Files
          BY <2>1, <4>6 DEF LineInv, HostWaits, Types, FlosHas
        <5>2. toHost[1] = Head(toHost) /\ 1 \in 1 .. Len(toHost)
          BY <3>2, <4>1
        <5>3. PICK k \in 1 .. Bytes : Byte(f, 0, Bytes) = Byte(ffile, 0, k)
          BY <4>2, <4>3, <5>1, <5>2 DEF Of
        <5>4. Byte(f, 0, Bytes).of = f /\ Byte(ffile, 0, k).of = ffile
          BY DEF Byte
        <5> QED BY <5>3, <5>4
      <4> QED BY <4>4, <4>5, <4>6
    <3> QED BY <3>1, <3>2 DEF KeepsToHost
  <2> QED BY <2>2, <2>3, <2>4 DEF HostWaits
<1>7. HostTakes'
  BY DEF LineInv, HostTakes, KeepsToFlos, KeepsBack
<1>8. HostDone'
  BY DEF LineInv, HostDone
<1>9. FlosTold'
  BY DEF LineInv, FlosTold, KeepsToFlos, Types, FlosHas
<1> QED BY <1>1, <1>2, <1>3, <1>4, <1>5, <1>6, <1>7, <1>8, <1>9 DEF LineInv

\* The line.
LEMMA LineStep ==
  ASSUME Types, Types', LineInv, Line \/ Lose \/ Spoil \/ Glitch
  PROVE  LineInv'
<1>1. /\ UNCHANGED <<flos, ffile, fno, fstored, fresult, fgot>>
      /\ UNCHANGED <<host, hfile, hno, hstored, hresult>>
  BY DEF Line, DeliverToFlos, DeliverToHost, Lose, Spoil, Glitch, Fault, fvars, hvars
<1>2. KeepsToFlos /\ KeepsBack /\ KeepsToHost
  BY DeliverToFlosKeeps, DeliverToHostKeeps, FaultKeeps DEF Line
<1> QED BY <1>1, <1>2, LineKeeps

\* What stillness says.
LEMMA StillIs ==
  ASSUME Types, Still
  PROVE  /\ toFlos = <<>> /\ toHost = <<>>
         /\ Back = hbuf /\ Coming = reg /\ ToFlos = fgot \o reg
         /\ host = "tx" => Len(hbuf) <= 1 /\ NoK(Back) /\ OneK(Back)
         /\ host = "rx_header" => Len(hbuf) < Bytes
         /\ Polling => reg = <<>> /\ Coming = <<>>
         /\ flos = "tx" => ToFlos = fgot /\ NoK(ToFlos) /\ OneK(ToFlos)
         /\ RX => flos # "accept"
<1>1. toFlos = <<>> /\ toHost = <<>>
  BY DEF Still, Quiet
<1>2. /\ hbuf \in Seq(ByteSet) /\ reg \in Seq(ByteSet) /\ fgot \in Seq(ByteSet) /\ fgot \o reg \in Seq(ByteSet)
      /\ Len(hbuf) \in Nat /\ Len(hbuf) <= Bytes /\ Bytes \in Nat
  BY Streams, ConcatIs, SerialLinkAssumption DEF Types, HostHas
<1>3. Back = hbuf /\ Coming = reg /\ ToFlos = fgot \o reg
  BY <1>1, <1>2, Joins DEF Back, Coming, ToFlos
<1>4. host = "tx" => Len(hbuf) <= 1
  <2>1. host = "tx" => ~(Len(hbuf) >= 2)
    BY DEF Still, HostCanAct
  <2> QED BY <1>2, <2>1
<1>5. host = "rx_header" => Len(hbuf) < Bytes
  <2>1. host = "rx_header" => Len(hbuf) # Bytes
    BY DEF Still, HostCanAct
  <2> QED BY <1>2, <2>1
<1>6. (Polling => reg = <<>>) /\ (RX => flos # "accept")
  BY DEF Still, FlosCanAct
<1>7. ASSUME flos = "tx" PROVE ToFlos = fgot /\ NoK(ToFlos) /\ OneK(ToFlos)
  <2>1. ToFlos = fgot
    BY <1>2, <1>3, <1>6, <1>7, Joins DEF Polling
  <2>2. Len(fgot) <= 1
    BY <1>7 DEF Types, FlosHas
  <2> QED BY <1>2, <2>1, <2>2, Short
<1> QED BY <1>1, <1>2, <1>3, <1>4, <1>5, <1>6, <1>7, Short

-----------------------------------------------------------------------------
(* FLOS starts a transfer.                                                 *)
LEMMA FlosReceiveStep ==
  ASSUME RX, Types, Types', LineInv, NEW want \in Wanted, FlosReceive(want)
  PROVE  LineInv'
<1>1. /\ flos = "idle" /\ Still /\ host # "rx_block"
      /\ flos' = "rx_header" /\ fstored' = <<>> /\ fresult' = "none" /\ reg' = <<>>
      /\ UNCHANGED <<toFlos, toHost, hvars>>
  BY DEF FlosReceive, FlosMayStart
<1>2. /\ UNCHANGED <<host, hbuf, hfile, hno, hstored, hresult, toHost>>
      /\ Back' = Back
  BY <1>1 DEF hvars, Back
<1>3. /\ toFlos = <<>> /\ toHost = <<>>
      /\ host = "tx" => Len(hbuf) <= 1 /\ NoK(Back) /\ OneK(Back)
      /\ host = "rx_header" => Len(hbuf) < Bytes
  BY <1>1, StillIs
<1>4. Coming' = <<>>
  BY <1>1, <1>3, Empty, Joins DEF Coming
<1>5. HeaderComes'
  BY <1>1, <1>2, <1>3, <1>4, EmptyIs DEF HeaderComes
<1>6. Accepts' /\ FlosTakes' /\ FlosDone' /\ FlosTold'
  BY <1>1 DEF Accepts, FlosTakes, FlosDone, FlosTold
<1>7. HostTold'
  BY <1>2, <1>3 DEF LineInv, HostTold
<1>8. HostWaits'
  <2> SUFFICES ASSUME host = "rx_header" PROVE HostWaits'
    BY <1>2 DEF HostWaits
  <2>1. hstored = <<>> /\ EndsLast(toHost)
    BY DEF LineInv, HostWaits
  <2>2. Len(hbuf') # Bytes
    BY <1>2, <1>3, Streams, SerialLinkAssumption
  <2>3. hstored' = <<>> /\ ~FlosReceives' /\ EndsLast(toHost')
    BY <1>1, <1>2, <2>1 DEF FlosReceives
  <2> QED BY <1>1, <2>2, <2>3 DEF HostWaits
<1>9. HostTakes' /\ HostDone'
  BY <1>1, <1>2 DEF LineInv, HostTakes, HostDone
<1> QED BY <1>5, <1>6, <1>7, <1>8, <1>9 DEF LineInv

\* FLOS starts to send.
LEMMA FlosSendStep ==
  ASSUME Types, Types', LineInv, NEW f \in Files, FlosSend(f)
  PROVE  LineInv'
<1>1. /\ flos = "idle" /\ Still /\ host # "rx_block"
      /\ flos' = "tx" /\ fgot' = <<>> /\ ffile' = f /\ fno' = 0 /\ fresult' = "none"
      /\ toHost' = toHost \o Block(f, 0)
      /\ UNCHANGED <<toFlos, reg, hvars>>
  BY DEF FlosSend, FlosMayStart
<1>2. UNCHANGED <<host, hbuf, hfile, hno, hstored, hresult>>
  BY <1>1 DEF hvars
<1>3. /\ toFlos = <<>> /\ toHost = <<>> /\ Back = hbuf
      /\ host = "tx" => Len(hbuf) <= 1 /\ NoK(Back) /\ OneK(Back)
      /\ host = "rx_header" => Len(hbuf) < Bytes
  BY <1>1, StillIs
<1>4. Block(f, 0) \in Seq(ByteSet) /\ Lacks(Block(f, 0)) /\ Clean(<<>> \o Block(f, 0), f, 0)
      /\ hbuf \in Seq(ByteSet) /\ reg \in Seq(ByteSet) /\ Len(reg) <= 1
  BY ZenonT(30), BlockIs, BlockLacks, AddsBlock, EmptyIs, Empty, Streams DEF Types, LineHas
<1>5. toHost' = Block(f, 0) /\ Clean(toHost', f, 0) /\ Back' = Back \o Block(f, 0)
  BY <1>1, <1>2, <1>3, <1>4, Joins DEF Back
<1>6. ToFlos' = reg
  BY <1>1, <1>3, <1>4, Joins DEF ToFlos
<1>7. NoK(ToFlos') /\ OneK(ToFlos')
  BY <1>4, <1>6, Short
<1>8. HeaderComes' /\ Accepts' /\ FlosTakes' /\ FlosDone'
  BY <1>1 DEF HeaderComes, Accepts, FlosTakes, FlosDone
<1>9. HostTold'
  <2> SUFFICES ASSUME host = "tx" PROVE HostTold'
    BY <1>2 DEF HostTold
  <2>1. NoK(Back') /\ OneK(Back')
    BY <1>3, <1>4, <1>5, AddsOther
  <2>2. hfile' \in Files
    BY <1>2 DEF Types, HostHas
  <2> QED BY <2>1, <2>2 DEF HostTold
<1>10. HostWaits'
  <2> SUFFICES ASSUME host = "rx_header" PROVE HostWaits'
    BY <1>2 DEF HostWaits
  <2>1. hstored' = <<>>
    BY <1>2 DEF LineInv, HostWaits
  <2>2. Len(hbuf') # Bytes
    <3>1. Len(hbuf) < Bytes /\ Len(hbuf) \in Nat /\ Bytes \in Nat /\ hbuf' = hbuf
      BY <1>2, <1>3, Streams, SerialLinkAssumption
    <3> QED BY <3>1
  <2>3. EndsLast(toHost') /\ Of(toHost', ffile', 0)
    BY <1>1, <1>5 DEF Clean
  <2> QED BY <1>1, <1>7, <2>1, <2>2, <2>3 DEF HostWaits, FlosReceives
<1>11. HostTakes' /\ HostDone'
  BY <1>1, <1>2 DEF LineInv, HostTakes, HostDone
<1>12. FlosTold'
  <2>1. Len(fgot') <= 1 /\ ffile' \in Files
    BY <1>1, Empty
  <2> QED BY <1>7, <2>1 DEF FlosTold
<1> QED BY <1>8, <1>9, <1>10, <1>11, <1>12 DEF LineInv

(* FLOS reads.                                                             *)
LEMMA ReadIs ==
  ASSUME Types, Read
  PROVE  /\ toFlos \in Seq(ByteSet) /\ reg \in Seq(ByteSet) /\ Coming \in Seq(ByteSet)
         /\ reg' \o toFlos' = toFlos /\ Coming' = toFlos
         /\ ToFlos = Taken \o toFlos
         /\ Coming # <<>> /\ toFlos = Tail(Coming) /\ reg[1] = Head(Coming)
         /\ UNCHANGED <<host, hbuf, hfile, hno, hstored, hresult, toFlos>>
<1>1. /\ toFlos \in Seq(ByteSet) /\ reg \in Seq(ByteSet) /\ Coming \in Seq(ByteSet)
      /\ reg' = <<>> /\ Len(reg) = 1 /\ Taken = fgot \o reg /\ UNCHANGED <<toFlos, hvars>>
  BY ReadTakes, Streams
<1>2. reg' \o toFlos' = toFlos
  BY <1>1, Joins
<1>3. /\ Len(Coming) = 1 + Len(toFlos) /\ Len(toFlos) \in Nat /\ Coming[1] = reg[1]
      /\ \A a \in 1 .. Len(toFlos) : Coming[1 + a] = toFlos[a]
  <2>1. /\ Len(Coming) = Len(reg) + Len(toFlos) /\ \A a \in 1 .. Len(reg) : Coming[a] = reg[a]
        /\ \A a \in 1 .. Len(toFlos) : Coming[Len(reg) + a] = toFlos[a]
    BY <1>1, ConcatIs DEF Coming
  <2>2. Len(toFlos) \in Nat /\ 1 \in 1 .. Len(reg)
    BY <1>1
  <2> QED BY <1>1, <2>1, <2>2
<1>4. Coming # <<>> /\ reg[1] = Head(Coming)
  <2>1. Len(Coming) # 0
    BY <1>3
  <2> QED BY <1>1, <1>3, <2>1
<1>5. toFlos = Tail(Coming)
  <2> DEFINE t == Tail(Coming)
  <2>1. /\ t \in Seq(ByteSet) /\ Len(t) = Len(Coming) - 1 /\ \A a \in 1 .. Len(t) : t[a] = Coming[a + 1]
    BY <1>1, <1>4
  <2> HIDE DEF t
  <2>2. Len(t) = Len(toFlos)
    BY <1>3, <2>1
  <2>3. \A a \in 1 .. Len(t) : t[a] = toFlos[a]
    <3> SUFFICES ASSUME NEW a \in 1 .. Len(t) PROVE t[a] = toFlos[a]
      OBVIOUS
    <3>1. a \in 1 .. Len(toFlos) /\ a + 1 = 1 + a
      BY <1>3, <2>2
    <3> QED BY <1>3, <2>1, <3>1
  <2>4. t = toFlos
    BY <1>1, <2>1, <2>2, <2>3, SeqEqual
  <2> QED BY <2>4 DEF t
<1> QED BY <1>1, <1>2, <1>4, <1>5 DEF Coming, ToFlos, hvars

\* A byte of a block, and not the last one.
LEMMA FlosByteStep ==
  ASSUME Types, Types', LineInv, FlosByte
  PROVE  LineInv'
<1>1. Read /\ fgot' = Taken /\ UNCHANGED <<toHost, flos, ffile, fno, fstored, fresult>>
  BY DEF FlosByte
<1>2. /\ UNCHANGED <<host, hbuf, hfile, hno, hstored, hresult>>
      /\ Coming' = Tail(Coming) /\ Coming \in Seq(ByteSet) /\ Coming # <<>>
      /\ reg' \o toFlos' = toFlos /\ ToFlos = Taken \o toFlos
      /\ toFlos \in Seq(ByteSet)
  BY <1>1, ReadIs
<1>3. ToFlos' = ToFlos
  <2>1. /\ Taken \in Seq(ByteSet) /\ reg' = <<>> /\ toFlos' = toFlos
    BY <1>1, ReadTakes
  <2> QED BY <1>1, <1>2, <2>1, Joins DEF ToFlos
<1>4. KeepsToFlos
  BY <1>2, <1>3, TakeByte DEF KeepsToFlos
<1>5. KeepsBack /\ KeepsToHost
  BY <1>1, <1>2, KeepsSame DEF Back
<1> QED BY <1>1, <1>2, <1>4, <1>5, LineKeeps

\* The last byte of a header.  One that fits was sent by the host just now.
LEMMA FlosHeaderStep ==
  ASSUME Types, Types', LineInv, FlosHeader
  PROVE  LineInv'
<1>1. /\ flos = "rx_header" /\ Read /\ UNCHANGED fstored
  BY DEF FlosHeader, ReadLast
<1>2. /\ UNCHANGED <<host, hbuf, hfile, hno, hstored, hresult, toFlos>>
      /\ Coming' = Tail(Coming) /\ Coming \in Seq(ByteSet) /\ Coming # <<>>
      /\ reg[1] = Head(Coming)
  BY <1>1, ReadIs
<1>3. /\ fstored = <<>> /\ toHost = <<>> /\ host # "rx_block"
      /\ host = "tx" => Len(hbuf) <= 1
      /\ host = "rx_header" => Len(hbuf) < Bytes
      /\ \/ AllNoise(Coming)
         \/ host = "tx" /\ hno = 0 /\ hbuf = <<>> /\ Clean(Coming, hfile, 0)
  BY <1>1 DEF LineInv, HeaderComes
<1>4. fresult # "received"
  BY <1>1 DEF LineInv, FlosDone
<1>5. HostDone'
  BY <1>2 DEF LineInv, HostDone
<1>6. HostTakes'
  BY <1>2, <1>3 DEF HostTakes
<1>7. CASE IsBlock(Taken, 0) /\ ffile \in {"*", FileOf(Taken)}
  <2>1. PICK f \in Files : Taken = Block(f, 0)
    BY <1>7 DEF IsBlock
  <2>2. /\ flos' = "accept" /\ ffile' = f /\ fgot' = <<>> /\ toHost' = toHost /\ fresult' = fresult
    BY <1>7, <2>1, BlockIs DEF FlosHeader
  <2>3. Head(Coming) = Taken[Bytes]
    <3>1. Len(Taken) = Len(fgot) + 1 /\ Taken[Len(fgot) + 1] = reg[1]
      BY <1>1, ReadTakes
    <3>2. Len(Taken) = Bytes
      BY <2>1, BlockIs
    <3> QED BY <1>2, <3>1, <3>2
  <2>4. /\ IsEnd(Head(Coming)) /\ Head(Coming) # Noise
        /\ \A g, j, k : Head(Coming) = Byte(g, j, k) => g = f /\ j = 0
    BY <2>1, <2>3, EndIs
  <2>5. host = "tx" /\ hno = 0 /\ hbuf = <<>> /\ Clean(Coming, hfile, 0)
    BY <1>2, <1>3, <2>4, TakeByte
  <2>6. hfile = f
    <3>1. \E k \in 1 .. Bytes : Head(Coming) = Byte(hfile, 0, k)
      BY <1>2, <2>4, <2>5, TakeByte
    <3>2. hfile \in Files
      BY <2>5 DEF Types, HostHas
    <3> QED BY <2>4, <3>1, <3>2
  <2>7. AllNoise(Coming')
    BY <1>2, <2>4, <2>5, TakeByte DEF Clean
  <2>8. Accepts'
    BY <1>1, <1>2, <1>3, <2>2, <2>5, <2>6, <2>7 DEF Accepts
  <2>9. HeaderComes' /\ FlosTakes' /\ FlosTold' /\ FlosDone'
    BY <1>4, <2>2 DEF HeaderComes, FlosTakes, FlosTold, FlosDone
  <2>10. HostWaits'
    BY <1>2, <2>5 DEF HostWaits
  <2>11. HostTold'
    <3>1. hfile' \in Files /\ OneK(Back')
      BY <1>2, <2>2, <2>5 DEF LineInv, HostTold, Back
    <3> QED BY <2>2, <3>1 DEF HostTold, FlosReceives
  <2> QED BY <1>5, <1>6, <2>8, <2>9, <2>10, <2>11 DEF LineInv
<1>8. CASE ~(IsBlock(Taken, 0) /\ ffile \in {"*", FileOf(Taken)})
  <2>1. toHost' = toHost \o XX /\ flos' = "idle" /\ fresult' = "refused"
    BY <1>8 DEF FlosHeader, FlosEnds
  <2>2. XX \in Seq(ByteSet) /\ Lacks(XX) /\ EndsLast(XX) /\ hbuf \in Seq(ByteSet) /\ Bytes \in Nat /\ Len(hbuf) \in Nat
    BY AnswersAre, AnswersLack, Streams, SerialLinkAssumption
  <2>3. toHost' = XX /\ Back' = hbuf \o XX
    BY <1>2, <1>3, <2>1, <2>2, Joins DEF Back
  <2>4. HeaderComes' /\ Accepts' /\ FlosTakes' /\ FlosTold' /\ FlosDone'
    BY <2>1 DEF HeaderComes, Accepts, FlosTakes, FlosTold, FlosDone
  <2>5. HostTold'
    <3> SUFFICES ASSUME host = "tx" PROVE HostTold'
      BY <1>2 DEF HostTold
    <3>1. NoK(hbuf) /\ OneK(hbuf)
      BY <1>3, <2>2, Short
    <3>2. NoK(Back') /\ OneK(Back')
      BY <2>2, <2>3, <3>1, AddsOther
    <3>3. hfile' \in Files
      BY <1>2 DEF Types, HostHas
    <3> QED BY <3>2, <3>3 DEF HostTold
  <2>6. HostWaits'
    <3> SUFFICES ASSUME host = "rx_header" PROVE HostWaits'
      BY <1>2 DEF HostWaits
    <3>1. hstored' = <<>>
      BY <1>2 DEF LineInv, HostWaits
    <3>2. Len(hbuf') # Bytes
      <4>1. Len(hbuf) < Bytes /\ Len(hbuf) \in Nat /\ Bytes \in Nat /\ hbuf' = hbuf
        BY <1>2, <1>3, <2>2
      <4> QED BY <4>1
    <3> QED BY <2>1, <2>2, <2>3, <3>1, <3>2 DEF HostWaits, FlosReceives
  <2> QED BY <1>5, <1>6, <2>4, <2>5, <2>6 DEF LineInv
<1> QED BY <1>7, <1>8

\* FLOS accepts the file.
LEMMA FlosAcceptStep ==
  ASSUME Types, Types', LineInv, FlosAccept
  PROVE  LineInv'
<1>1. /\ flos = "accept" /\ flos' = "rx_block" /\ toHost' = toHost \o OK
      /\ UNCHANGED <<toFlos, reg, fgot, ffile, fno, fstored, fresult, hvars>>
  BY DEF FlosAccept
<1>2. /\ host = "tx" /\ ffile \in Files /\ hfile = ffile /\ hno = 0
      /\ hbuf = <<>> /\ toHost = <<>> /\ fstored = <<>> /\ AllNoise(Coming)
  BY <1>1 DEF LineInv, Accepts
<1>3. UNCHANGED <<host, hbuf, hfile, hno, hstored, hresult>> /\ Coming' = Coming
  BY <1>1 DEF hvars, Coming
<1>4. Back' = OK /\ OK \in Seq(ByteSet) /\ Len(OK) = 2
  BY <1>1, <1>2, <1>3, AnswersAre, Empty, Joins DEF Back
<1>5. FlosTakes'
  <2>1. Begins(fstored', ffile') /\ Len(fstored') < Length[ffile']
    BY <1>1, <1>2, NothingStored
  <2>2. hno' = Len(fstored') /\ Len(Back') <= 2
    BY <1>1, <1>2, <1>3, <1>4, Empty
  <2> QED BY <1>1, <1>2, <1>3, <2>1, <2>2 DEF FlosTakes
<1>6. HostTold'
  <2>1. OneK(Back')
    <3>1. OneK(<<>> \o OK) /\ <<>> \o OK = OK
      BY <1>4, Empty, EmptyIs, AddsOK, Joins
    <3> QED BY <1>4, <3>1
  <2> QED BY <1>1, <1>2, <1>3, <2>1 DEF HostTold, FlosReceives
<1>7. HeaderComes' /\ Accepts' /\ FlosTold' /\ HostWaits' /\ HostTakes'
  BY <1>1, <1>2, <1>3 DEF HeaderComes, Accepts, FlosTold, HostWaits, HostTakes
<1>8. FlosDone' /\ HostDone'
  BY <1>1, <1>3 DEF LineInv, FlosDone, HostDone
<1> QED BY <1>5, <1>6, <1>7, <1>8 DEF LineInv

\* A block with a good checksum is the one that the host has just sent.
LEMMA FlosGoodBlock ==
  ASSUME Types, LineInv, flos = "rx_block", ReadLast, GoodSum(Taken)
  PROVE  /\ host = "tx" /\ hfile = ffile /\ ffile \in Files /\ hno = Len(fstored) + 1
         /\ hbuf = <<>> /\ toHost = <<>>
         /\ Taken = Block(ffile, hno) /\ AllNoise(toFlos)
<1>1. Read
  BY DEF ReadLast
<1>2. PICK f \in Files : \E i \in 0 .. Length[f] : Taken = Block(f, i)
  BY DEF GoodSum
<1>3. PICK i \in 0 .. Length[f] : Taken = Block(f, i)
  BY <1>2
<1>4. i \in Nat
  OBVIOUS
<1>5. Coming \in Seq(ByteSet) /\ Coming # <<>> /\ reg[1] = Head(Coming) /\ toFlos = Tail(Coming)
  BY <1>1, ReadIs
<1>6. Head(Coming) = Taken[Bytes]
  <2>1. Len(Taken) = Len(fgot) + 1 /\ Taken[Len(fgot) + 1] = reg[1]
    BY <1>1, ReadTakes
  <2>2. Len(Taken) = Bytes
    BY <1>3, <1>4, BlockIs
  <2> QED BY <1>5, <2>1, <2>2
<1>7. /\ IsEnd(Head(Coming)) /\ Head(Coming) # Noise
      /\ \A g, j, k : Head(Coming) = Byte(g, j, k) => g = f /\ j = i
  BY <1>3, <1>4, <1>6, EndIs
<1>8. ~AllNoise(Coming)
  BY <1>5, <1>7, TakeByte
<1>9. /\ host = "tx" /\ hfile = ffile /\ hno = Len(fstored) + 1
      /\ hbuf = <<>> /\ toHost = <<>> /\ Clean(Coming, ffile, hno) /\ ffile \in Files
  BY <1>8 DEF LineInv, FlosTakes
<1>10. \E k \in 1 .. Bytes : Head(Coming) = Byte(ffile, hno, k)
  BY <1>5, <1>7, <1>9, TakeByte
<1>11. f = ffile /\ i = hno
  BY <1>7, <1>9, <1>10
<1>12. AllNoise(toFlos)
  BY <1>5, <1>7, <1>9, TakeByte DEF Clean
<1> QED BY <1>3, <1>9, <1>11, <1>12

\* The last byte of a block of the file.
LEMMA FlosBlockStep ==
  ASSUME Types, Types', LineInv, FlosBlock
  PROVE  LineInv'
<1>1. /\ flos = "rx_block" /\ ReadLast /\ Read
  BY DEF FlosBlock, ReadLast
<1>2. /\ UNCHANGED <<host, hbuf, hfile, hno, hstored, hresult, toFlos>> /\ Coming' = toFlos
  BY <1>1, ReadIs
<1>3. host \in {"tx", "idle"} /\ fresult # "received" /\ ffile \in Files /\ Len(fstored) < Length[ffile]
      /\ Begins(fstored, ffile) /\ fstored \in Seq(Seq(ByteSet)) /\ Len(fstored) \in Nat
  BY <1>1, Empty DEF LineInv, FlosTakes, FlosDone, Types, FlosHas
<1>4. HostDone' /\ HostWaits' /\ HostTakes'
  BY <1>2, <1>3 DEF LineInv, HostDone, HostWaits, HostTakes
<1>5. CASE GoodSum(Taken) /\ FlosStores
  <2>1. /\ host = "tx" /\ hfile = ffile /\ hno = Len(fstored) + 1
        /\ hbuf = <<>> /\ toHost = <<>>
        /\ Taken = Block(ffile, hno) /\ AllNoise(toFlos)
    BY <1>1, <1>5, FlosGoodBlock
  <2>2. /\ fstored' = Append(fstored, Taken) /\ fgot' = <<>> /\ toHost' = toHost \o OK
        /\ ffile' = ffile
        /\ \/ Len(fstored') = Length[ffile] /\ flos' = "idle" /\ fresult' = "received"
           \/ Len(fstored') # Length[ffile] /\ flos' = "rx_block" /\ fresult' = fresult
    BY <1>1, <1>5 DEF FlosStores
  <2>3. Begins(fstored', ffile') /\ Len(fstored') = Len(fstored) + 1 /\ fstored' \in Seq(Seq(ByteSet))
    <3>1. Taken \in Seq(ByteSet)
      BY <1>1, ReadTakes
    <3> QED BY <1>3, <2>1, <2>2, <3>1, BeginsGrows
  <2>4. Back' = OK /\ OK \in Seq(ByteSet) /\ Len(OK) = 2
    BY <1>2, <2>1, <2>2, AnswersAre, Empty, Joins DEF Back
  <2>5. OneK(Back')
    <3>1. OneK(<<>> \o OK) /\ <<>> \o OK = OK
      BY <2>4, Empty, EmptyIs, AddsOK, Joins
    <3> QED BY <2>4, <3>1
  <2>6. HeaderComes' /\ Accepts' /\ FlosTold'
    BY <2>2 DEF HeaderComes, Accepts, FlosTold
  <2>7. FlosTakes'
    <3> SUFFICES ASSUME flos' = "rx_block" PROVE FlosTakes'
      BY DEF FlosTakes
    <3>1. Len(fstored') < Length[ffile'] /\ ffile' \in Files
      <4>1. Len(fstored) < Length[ffile] /\ Len(fstored) + 1 # Length[ffile]
            /\ Length[ffile] \in Nat /\ Len(fstored) \in Nat
        BY <1>3, <2>2, <2>3, SerialLinkAssumption
      <4>2. Len(fstored) + 1 < Length[ffile]
        BY <4>1
      <4> QED BY <1>3, <2>2, <2>3, <4>2
    <3>2. Len(Back') <= 2
      BY <2>4
    <3> QED BY <1>2, <2>1, <2>2, <2>3, <3>1, <3>2 DEF FlosTakes
  <2>8. FlosDone'
    <3> SUFFICES ASSUME fresult' = "received" PROVE FlosDone'
      BY DEF FlosDone
    <3>1. Len(fstored') = Length[ffile'] /\ flos' = "idle" /\ ffile' \in Files
      BY <1>3, <2>2
    <3>2. fstored' = Whole(ffile')
      BY <2>3, <3>1, BeginsWhole
    <3> QED BY <3>1, <3>2 DEF FlosDone
  <2>9. HostTold'
    <3>1. ~FlosReceives' => fresult' = "received"
      BY <2>2 DEF FlosReceives
    <3> QED BY <1>2, <1>3, <2>1, <2>2, <2>5, <3>1 DEF HostTold
  <2> QED BY <1>4, <2>6, <2>7, <2>8, <2>9 DEF LineInv
<1>6. CASE FlosRefuses(XX)
  <2>1. toHost' = toHost \o XX /\ flos' = "idle" /\ fresult' = "failed"
    BY <1>6 DEF FlosRefuses, FlosEnds
  <2>2. HeaderComes' /\ Accepts' /\ FlosTakes' /\ FlosTold' /\ FlosDone'
    BY <2>1 DEF HeaderComes, Accepts, FlosTakes, FlosTold, FlosDone
  <2>3. HostTold'
    <3> SUFFICES ASSUME host = "tx" PROVE HostTold'
      BY <1>2 DEF HostTold
    <3>1. /\ toHost \in Seq(ByteSet) /\ hbuf \in Seq(ByteSet) /\ Back \in Seq(ByteSet)
          /\ XX \in Seq(ByteSet) /\ Lacks(XX)
      BY Streams, AnswersAre, AnswersLack
    <3>2. Back' = Back \o XX
      BY <1>2, <2>1, <3>1, SentToHost
    <3>3. hfile' \in Files /\ OneK(Back')
      BY <1>2, <3>1, <3>2, AddsOther DEF LineInv, HostTold
    <3>4. hno = Length[hfile] => NoK(Back)
      <4>1. \/ hbuf = <<>> /\ toHost = <<>>
            \/ hfile = ffile /\ hno = Len(fstored)
        BY <1>1 DEF LineInv, FlosTakes
      <4>2. CASE hbuf = <<>> /\ toHost = <<>>
        BY <4>2, Empty, EmptyIs, Joins DEF Back
      <4>3. CASE hfile = ffile /\ hno = Len(fstored)
        <5>1. Len(fstored) # Length[ffile]
          BY <1>3
        <5> QED BY <4>3, <5>1
      <4> QED BY <4>1, <4>2, <4>3
    <3>5. hno' = Length[hfile'] => NoK(Back')
      BY <1>2, <3>1, <3>2, <3>4, AddsOther
    <3> QED BY <3>3, <3>5 DEF HostTold
  <2> QED BY <1>4, <2>2, <2>3 DEF LineInv
<1> QED BY <1>5, <1>6 DEF FlosBlock

\* The last byte of an acknowledge.
LEMMA FlosAckStep ==
  ASSUME Types, Types', LineInv, FlosAck
  PROVE  LineInv'
<1>1. /\ flos = "tx" /\ ReadLast /\ Read /\ UNCHANGED fstored
  BY DEF FlosAck, ReadLast
<1>2. /\ UNCHANGED <<host, hbuf, hfile, hno, hstored, hresult, toFlos>> /\ Coming' = toFlos
      /\ toFlos \in Seq(ByteSet) /\ ToFlos = Taken \o toFlos /\ reg' \o toFlos' = toFlos
  BY <1>1, ReadIs
<1>3. /\ fresult # "received" /\ ffile \in Files /\ OneK(ToFlos) /\ fno \in Nat
      /\ Length[ffile] \in Nat /\ toHost \in Seq(ByteSet) /\ hbuf \in Seq(ByteSet) /\ Back \in Seq(ByteSet)
      /\ ToFlos \in Seq(ByteSet)
  BY <1>1, Streams, SerialLinkAssumption DEF LineInv, FlosDone, FlosTold, Types, FlosHas
<1>4. HeaderComes' /\ Accepts' /\ FlosTakes' /\ HostDone'
  <2>1. flos' \in {"idle", "tx"}
    BY <1>1 DEF FlosAck, FlosEnds
  <2> QED BY <1>2, <2>1 DEF LineInv, HeaderComes, Accepts, FlosTakes, HostDone
<1>5. CASE /\ Taken = OK /\ fno < Length[ffile]
           /\ toHost' = toHost \o Block(ffile, fno + 1)
           /\ fno' = fno + 1 /\ fgot' = <<>>
           /\ UNCHANGED <<flos, ffile, fresult>>
  <2>1. fno + 1 \in Nat /\ Block(ffile, fno + 1) \in Seq(ByteSet) /\ Lacks(Block(ffile, fno + 1))
    BY <1>3, BlockIs, BlockLacks
  <2>2. Back' = Back \o Block(ffile, fno + 1)
    BY <1>2, <1>5, <2>1, SentToHost
  <2>3. ToFlos' = toFlos
    BY <1>2, <1>5, Empty, Joins, ReadTakes, <1>1 DEF ToFlos
  <2>4. NoK(toFlos) /\ ~NoK(ToFlos)
    <3>1. /\ Len(ToFlos) = 2 + Len(toFlos) /\ Len(toFlos) \in Nat
          /\ ToFlos[2] = K /\ \A a \in 1 .. Len(toFlos) : ToFlos[2 + a] = toFlos[a]
      <4>1. OK \in Seq(ByteSet) /\ Len(OK) = 2 /\ OK[2] = K
        BY AnswersAre
      <4>2. /\ Len(OK \o toFlos) = Len(OK) + Len(toFlos)
            /\ \A a \in 1 .. Len(OK) : (OK \o toFlos)[a] = OK[a]
            /\ \A a \in 1 .. Len(toFlos) : (OK \o toFlos)[Len(OK) + a] = toFlos[a]
        BY <1>2, <4>1, ConcatIs
      <4>3. 2 \in 1 .. 2 /\ Len(toFlos) \in Nat
        BY <1>2
      <4> QED BY <1>2, <1>5, <4>1, <4>2, <4>3
    <3>2. /\ Len(ToFlos) = Len(toFlos) + 2 /\ \A a \in 1 .. Len(toFlos) : toFlos[a] = ToFlos[a + 2]
      BY <3>1
    <3>3. NoK(toFlos)
      BY <1>2, <1>3, <3>1, <3>2, TakeAck
    <3>4. 2 \in 1 .. Len(ToFlos)
      BY <3>1
    <3> QED BY <3>1, <3>3, <3>4 DEF NoK
  <2>5. FlosTold'
    <3>1. Len(fgot') <= 1 /\ OneK(ToFlos') /\ NoK(ToFlos')
      BY <1>2, <1>5, <2>3, <2>4, Empty, NoKOneK
    <3> QED BY <1>3, <1>5, <3>1 DEF FlosTold
  <2>6. FlosDone'
    BY <1>3, <1>5 DEF FlosDone
  <2>7. HostTold'
    <3>1. (OneK(Back) => OneK(Back')) /\ (NoK(Back) => NoK(Back'))
      BY <1>3, <2>1, <2>2, AddsOther
    <3> QED BY <1>2, <1>5, <3>1 DEF LineInv, HostTold, FlosReceives
  <2>8. HostWaits'
    BY <1>1, <1>2, <2>4 DEF LineInv, HostWaits
  <2>9. HostTakes'
    <3> SUFFICES ASSUME host = "rx_block" PROVE HostTakes'
      BY <1>2 DEF HostTakes
    <3>1. /\ hfile \in Files /\ Len(hstored) < Length[hfile] /\ Begins(hstored, hfile)
          /\ ffile = hfile /\ fno = Len(hstored) /\ AllNoise(Back)
      BY <1>1, <2>4 DEF LineInv, HostTakes
    <3>2. Clean(Back', hfile, Len(hstored) + 1)
      BY <1>3, <2>1, <2>2, <3>1, AddsBlock
    <3>3. NoK(ToFlos')
      BY <2>3, <2>4
    <3> QED BY <1>1, <1>2, <1>5, <3>1, <3>2, <3>3 DEF HostTakes
  <2> QED BY <1>4, <2>5, <2>6, <2>7, <2>8, <2>9 DEF LineInv
<1>6. CASE flos' = "idle" /\ fresult' \in {"sent", "failed"} /\ UNCHANGED toHost
  <2>1. FlosTold' /\ FlosDone'
    BY <1>6 DEF FlosTold, FlosDone
  <2>2. Back' = Back
    BY <1>2, <1>6 DEF Back
  <2>3. HostTold'
    <3>1. host = "tx" /\ hno = Length[hfile] => NoK(Back)
      BY <1>1, <1>3 DEF LineInv, HostTold, FlosReceives
    <3>2. host = "tx" => hfile \in Files /\ OneK(Back)
      BY DEF LineInv, HostTold
    <3> QED BY <1>2, <2>2, <3>1, <3>2 DEF HostTold
  <2>4. HostWaits'
    BY <1>2, <1>6, <2>2 DEF LineInv, HostWaits, FlosReceives
  <2>5. HostTakes'
    <3> SUFFICES ASSUME host = "rx_block" PROVE HostTakes'
      BY <1>2 DEF HostTakes
    <3>1. /\ hfile \in Files /\ Len(hstored) < Length[hfile] /\ Begins(hstored, hfile)
          /\ Clean(Back, hfile, Len(hstored) + 1) \/ AllNoise(Back)
      BY DEF LineInv, HostTakes
    <3>2. Clean(Back, hfile, Len(hstored) + 1)
      BY <1>3, <3>1, NoiseIsClean
    <3> QED BY <1>2, <1>6, <2>2, <3>1, <3>2 DEF HostTakes
  <2> QED BY <1>4, <2>1, <2>3, <2>4, <2>5 DEF LineInv
<1>7. \/ /\ Taken = OK /\ fno < Length[ffile]
         /\ toHost' = toHost \o Block(ffile, fno + 1)
         /\ fno' = fno + 1 /\ fgot' = <<>>
         /\ UNCHANGED <<flos, ffile, fresult>>
      \/ flos' = "idle" /\ fresult' \in {"sent", "failed"} /\ UNCHANGED toHost
  BY DEF FlosAck, FlosEnds
<1> QED BY <1>5, <1>6, <1>7

\* FLOS gives up.
LEMMA FlosTimeoutStep ==
  ASSUME Types, Types', LineInv, FlosTimeout
  PROVE  LineInv'
<1>1. /\ Polling /\ Still /\ toHost' = (IF flos = "tx" THEN toHost ELSE toHost \o XX)
      /\ flos' = "idle" /\ fresult' = "timed out"
      /\ UNCHANGED <<toFlos, reg, fstored, hvars>>
  BY DEF FlosTimeout, FlosEnds
<1>2. UNCHANGED <<host, hbuf, hfile, hno, hstored, hresult>>
  BY <1>1 DEF hvars
<1>3. /\ toHost = <<>> /\ Back = hbuf
      /\ host = "tx" => Len(hbuf) <= 1 /\ NoK(Back) /\ OneK(Back)
      /\ host = "rx_header" => Len(hbuf) < Bytes
  BY <1>1, StillIs
<1>4. /\ hbuf \in Seq(ByteSet) /\ XX \in Seq(ByteSet) /\ Lacks(XX) /\ EndsLast(XX) /\ Lacks(<<>>) /\ EndsLast(<<>>)
      /\ <<>> \in Seq(ByteSet)
  BY Streams, AnswersAre, AnswersLack, Empty
<1>5. PICK x \in {<<>>, XX} : toHost' = x /\ Back' = Back \o x /\ (flos = "tx" => x = <<>>)
  <2>1. <<>> \o XX = XX /\ hbuf \o <<>> = hbuf
    BY <1>4, Joins
  <2> QED BY <1>1, <1>2, <1>3, <2>1 DEF Back
<1>6. HeaderComes' /\ Accepts' /\ FlosTakes' /\ FlosDone' /\ FlosTold'
  BY <1>1 DEF HeaderComes, Accepts, FlosTakes, FlosDone, FlosTold
<1>7. HostTold'
  <2> SUFFICES ASSUME host = "tx" PROVE HostTold'
    BY <1>2 DEF HostTold
  <2>1. NoK(Back') /\ OneK(Back')
    BY <1>3, <1>4, <1>5, AddsOther
  <2>2. hfile' \in Files
    BY <1>2 DEF Types, HostHas
  <2> QED BY <2>1, <2>2 DEF HostTold
<1>8. HostWaits'
  <2> SUFFICES ASSUME host = "rx_header" PROVE HostWaits'
    BY <1>2 DEF HostWaits
  <2>1. hstored' = <<>> /\ EndsLast(toHost')
    BY <1>2, <1>4, <1>5 DEF LineInv, HostWaits
  <2>2. Len(hbuf') # Bytes
    <3>1. Len(hbuf) < Bytes /\ Len(hbuf) \in Nat /\ Bytes \in Nat /\ hbuf' = hbuf
      BY <1>2, <1>3, Streams, SerialLinkAssumption
    <3> QED BY <3>1
  <2> QED BY <1>1, <2>1, <2>2 DEF HostWaits, FlosReceives
<1>9. HostTakes'
  <2> SUFFICES ASSUME host = "rx_block" PROVE HostTakes'
    BY <1>2 DEF HostTakes
  <2>1. /\ hfile \in Files /\ Len(hstored) < Length[hfile] /\ Begins(hstored, hfile)
        /\ Clean(Back, hfile, Len(hstored) + 1) \/ AllNoise(Back)
        /\ flos \in {"tx", "idle"}
    BY DEF LineInv, HostTakes
  <2>2. flos = "tx"
    BY <1>1, <2>1 DEF Polling
  <2>3. Back' = Back
    BY <1>3, <1>4, <1>5, <2>2, Joins
  <2>4. Clean(Back, hfile, Len(hstored) + 1)
    BY <1>3, <1>4, <2>1, NoiseIsClean
  <2> QED BY <1>1, <1>2, <2>1, <2>3, <2>4 DEF HostTakes
<1>10. HostDone'
  BY <1>2 DEF LineInv, HostDone
<1> QED BY <1>6, <1>7, <1>8, <1>9, <1>10 DEF LineInv

-----------------------------------------------------------------------------
(* The host.                                                               *)
LEMMA HostSendStep ==
  ASSUME RX, Types, Types', LineInv, NEW f \in Files, HostSend(f)
  PROVE  LineInv'
<1>1. /\ host = "idle" /\ Still /\ flos # "rx_block"
      /\ hbuf' = <<>> /\ toFlos' = toFlos \o Block(f, 0)
      /\ host' = "tx" /\ hfile' = f /\ hno' = 0 /\ hresult' = "none"
      /\ UNCHANGED <<toHost, reg, fvars, hstored>>
  BY DEF HostSend, HostMayStart
<1>2. UNCHANGED <<flos, fgot, ffile, fno, fstored, fresult>>
  BY <1>1 DEF fvars
<1>3. /\ toFlos = <<>> /\ toHost = <<>>
      /\ Polling => reg = <<>> /\ Coming = <<>>
      /\ flos = "tx" => ToFlos = fgot /\ NoK(ToFlos) /\ OneK(ToFlos)
      /\ flos # "accept"
  BY <1>1, StillIs
<1>4. /\ Block(f, 0) \in Seq(ByteSet) /\ Lacks(Block(f, 0)) /\ Clean(<<>> \o Block(f, 0), f, 0)
      /\ fgot \in Seq(ByteSet) /\ <<>> \o Block(f, 0) = Block(f, 0)
  <2>1. Block(f, 0) \in Seq(ByteSet) /\ Lacks(Block(f, 0)) /\ fgot \in Seq(ByteSet)
    BY BlockIs, BlockLacks, Streams
  <2>2. Clean(<<>> \o Block(f, 0), f, 0)
    <3>1. AllNoise(<<>>) /\ <<>> \in Seq(ByteSet) /\ 0 \in Nat
      BY EmptyIs, Empty
    <3> QED BY <3>1, AddsBlock
  <2> QED BY <2>1, <2>2, Joins
<1>5. toFlos' = Block(f, 0)
  BY <1>1, <1>3, <1>4
<1>6. Back' = <<>>
  BY <1>1, <1>3, Empty, Joins DEF Back
<1>7. HeaderComes'
  <2> SUFFICES ASSUME flos = "rx_header" PROVE HeaderComes'
    BY <1>2 DEF HeaderComes
  <2>1. fstored' = <<>> /\ toHost' = <<>>
    BY <1>1, <1>2, <1>3 DEF LineInv, HeaderComes
  <2>2. Coming' = Block(f, 0)
    BY <1>1, <1>3, <1>4, <1>5 DEF Coming, Polling
  <2>3. Len(hbuf') <= 1 /\ Clean(Coming', hfile', 0)
    BY <1>1, <1>4, <2>2, Empty
  <2> QED BY <1>1, <2>1, <2>3 DEF HeaderComes
<1>8. Accepts' /\ FlosTakes' /\ FlosDone'
  BY <1>1, <1>2, <1>3 DEF LineInv, Accepts, FlosTakes, FlosDone
<1>9. HostTold'
  BY <1>1, <1>6, EmptyIs DEF HostTold
<1>10. HostWaits' /\ HostTakes' /\ HostDone'
  BY <1>1 DEF HostWaits, HostTakes, HostDone
<1>11. FlosTold'
  <2> SUFFICES ASSUME flos = "tx" PROVE FlosTold'
    BY <1>2 DEF FlosTold
  <2>1. ToFlos' = ToFlos \o Block(f, 0)
    <3>1. reg = <<>>
      BY <1>3 DEF Polling
    <3>2. fgot \o <<>> = fgot
      BY <1>4, Joins
    <3> QED BY <1>1, <1>2, <1>3, <1>5, <3>1, <3>2 DEF ToFlos
  <2>2. NoK(ToFlos') /\ OneK(ToFlos')
    BY <1>3, <1>4, <2>1, AddsOther
  <2>3. ffile' \in Files /\ Len(fgot') <= 1
    BY <1>2 DEF Types, FlosHas
  <2> QED BY <2>2, <2>3 DEF FlosTold
<1> QED BY <1>7, <1>8, <1>9, <1>10, <1>11 DEF LineInv

\* The host waits for a header.
LEMMA HostReceiveStep ==
  ASSUME RX, Types, Types', LineInv, HostReceive
  PROVE  LineInv'
<1>1. /\ host = "idle" /\ Still /\ flos # "rx_block"
      /\ hbuf' = <<>> /\ host' = "rx_header" /\ hstored' = <<>> /\ hresult' = "none"
      /\ UNCHANGED <<toFlos, toHost, reg, fvars>>
  BY DEF HostReceive, HostMayStart, line
<1>2. UNCHANGED <<flos, fgot, ffile, fno, fstored, fresult>> /\ Coming' = Coming /\ ToFlos' = ToFlos
  BY <1>1 DEF fvars, Coming, ToFlos
<1>3. /\ toHost = <<>> /\ flos # "accept"
      /\ flos = "tx" => NoK(ToFlos) /\ OneK(ToFlos)
  BY <1>1, StillIs
<1>4. Back' = <<>>
  BY <1>1, <1>3, Empty, Joins DEF Back
<1>5. Len(hbuf') < Bytes
  BY <1>1, Empty, SerialLinkAssumption
<1>6. HeaderComes'
  <2> SUFFICES ASSUME flos = "rx_header" PROVE HeaderComes'
    BY <1>2 DEF HeaderComes
  <2>1. fstored' = <<>> /\ AllNoise(Coming')
    BY <1>1, <1>2 DEF LineInv, HeaderComes
  <2> QED BY <1>1, <1>3, <1>5, <2>1 DEF HeaderComes
<1>7. Accepts' /\ FlosTakes' /\ FlosDone'
  BY <1>1, <1>2, <1>3 DEF LineInv, Accepts, FlosTakes, FlosDone
<1>8. HostWaits'
  <2>1. hstored' = <<>> /\ ~FlosReceives'
    BY <1>1, <1>2, <1>3 DEF FlosReceives
  <2>2. EndsLast(toHost') /\ \A f : Of(toHost', f, 0)
    BY <1>1, <1>3, EmptyIs
  <2>3. Len(hbuf') # Bytes
    <3>1. Len(hbuf') \in Nat /\ Bytes \in Nat
      BY <1>1, Empty, SerialLinkAssumption
    <3> QED BY <1>5, <3>1
  <2> QED BY <1>2, <1>3, <1>4, <2>1, <2>2, <2>3 DEF HostWaits
<1>9. HostTold' /\ HostTakes' /\ HostDone'
  BY <1>1 DEF HostTold, HostTakes, HostDone
<1>10. FlosTold'
  <2> SUFFICES ASSUME flos = "tx" PROVE FlosTold'
    BY <1>2 DEF FlosTold
  <2>1. ffile' \in Files /\ Len(fgot') <= 1
    BY <1>2 DEF Types, FlosHas
  <2> QED BY <1>2, <1>3, <2>1 DEF FlosTold
<1> QED BY <1>6, <1>7, <1>8, <1>9, <1>10 DEF LineInv

\* The stream behind the two bytes that the host takes.
LEMMA AckBack ==
  ASSUME Types, HostAck
  PROVE  /\ Back \in Seq(ByteSet) /\ Back' \in Seq(ByteSet)
         /\ Len(Back) = Len(Back') + 2 /\ Len(Back') \in Nat
         /\ \A a \in 1 .. Len(Back') : Back'[a] = Back[a + 2]
         /\ SubSeq(hbuf, 1, 2) = OK => Back[2] = K
         /\ hbuf # <<>> /\ (Len(Back) <= 2 => hbuf' = <<>> /\ toHost = <<>>)
         /\ UNCHANGED <<toHost, reg, flos, fgot, ffile, fno, fstored, fresult, hstored>>
<1>1. /\ host = "tx" /\ Len(hbuf) >= 2 /\ hbuf' = SubSeq(hbuf, 3, Len(hbuf)) /\ toHost' = toHost
      /\ UNCHANGED <<toHost, reg, fvars, hstored>>
  BY DEF HostAck
<1>2. /\ hbuf' \in Seq(ByteSet) /\ Len(hbuf) = Len(hbuf') + 2 /\ Len(hbuf') \in Nat /\ Len(hbuf) \in Nat
      /\ \A a \in 1 .. Len(hbuf') : hbuf'[a] = hbuf[a + 2]
      /\ SubSeq(hbuf, 1, 2) = OK => hbuf[2] = K
  BY <1>1, AckTakes
<1>3. hbuf \in Seq(ByteSet) /\ toHost \in Seq(ByteSet) /\ Len(toHost) \in Nat
  BY Streams
<1>4. /\ Back \in Seq(ByteSet) /\ Len(Back) = Len(hbuf) + Len(toHost)
      /\ \A a \in 1 .. Len(Back) : Back[a] = IF a <= Len(hbuf) THEN hbuf[a] ELSE toHost[a - Len(hbuf)]
  BY <1>3, ConcatIs DEF Back
<1>5. /\ Back' \in Seq(ByteSet) /\ Len(Back') = Len(hbuf') + Len(toHost)
      /\ \A a \in 1 .. Len(Back') : Back'[a] = IF a <= Len(hbuf') THEN hbuf'[a] ELSE toHost[a - Len(hbuf')]
  <2> DEFINE h == SubSeq(hbuf, 3, Len(hbuf))
  <2>1. h \in Seq(ByteSet)
    BY <1>1, <1>2
  <2> HIDE DEF h
  <2>2. /\ h \o toHost \in Seq(ByteSet) /\ Len(h \o toHost) = Len(h) + Len(toHost)
        /\ \A a \in 1 .. Len(h \o toHost) :
             (h \o toHost)[a] = IF a <= Len(h) THEN h[a] ELSE toHost[a - Len(h)]
    BY <1>3, <2>1, ConcatIs
  <2>3. hbuf' = h
    BY <1>1 DEF h
  <2> QED BY <1>1, <2>2, <2>3 DEF Back
<1>6. \A a \in 1 .. Len(Back') : Back'[a] = Back[a + 2]
  <2> SUFFICES ASSUME NEW a \in 1 .. Len(Back') PROVE Back'[a] = Back[a + 2]
    OBVIOUS
  <2>1. a + 2 \in 1 .. Len(Back) /\ (a <= Len(hbuf') <=> a + 2 <= Len(hbuf)) /\ a - Len(hbuf') = (a + 2) - Len(hbuf)
    BY <1>2, <1>3, <1>4, <1>5
  <2>2. CASE a <= Len(hbuf')
    BY SMTT(30), <1>2, <1>4, <1>5, <2>1, <2>2
  <2>3. CASE ~(a <= Len(hbuf'))
    BY <1>4, <1>5, <2>1, <2>3
  <2> QED BY <2>2, <2>3
<1>7. SubSeq(hbuf, 1, 2) = OK => Back[2] = K
  <2>1. 2 \in 1 .. Len(Back) /\ 2 <= Len(hbuf)
    BY <1>1, <1>2, <1>3, <1>4
  <2> QED BY <1>2, <1>4, <2>1
<1>8. Len(Back) = Len(Back') + 2 /\ Len(Back') \in Nat /\ Len(hbuf) # 0
  BY <1>2, <1>3, <1>4, <1>5
<1>9. Len(Back) <= 2 => Len(hbuf') = 0 /\ Len(toHost) = 0
  BY <1>2, <1>3, <1>4
<1>10. hbuf # <<>> /\ (Len(Back) <= 2 => hbuf' = <<>> /\ toHost = <<>>)
  <2>1. \A s \in Seq(ByteSet) : Len(s) = 0 <=> s = <<>>
    BY Empty
  <2> QED BY <1>2, <1>3, <1>8, <1>9, <2>1
<1> QED BY <1>1, <1>4, <1>5, <1>6, <1>7, <1>8, <1>10 DEF fvars

\* The host takes an acknowledge.
LEMMA HostAckStep ==
  ASSUME Types, Types', LineInv, HostAck
  PROVE  LineInv'
<1>1. /\ host = "tx" /\ hfile \in Files /\ hno \in Nat /\ Length[hfile] \in Nat
      /\ OneK(Back) /\ hresult # "received"
  BY SerialLinkAssumption DEF HostAck, LineInv, HostTold, HostDone, Types, HostHas
<1>2. /\ Back \in Seq(ByteSet) /\ Back' \in Seq(ByteSet)
      /\ Len(Back) = Len(Back') + 2 /\ Len(Back') \in Nat
      /\ \A a \in 1 .. Len(Back') : Back'[a] = Back[a + 2]
      /\ SubSeq(hbuf, 1, 2) = OK => Back[2] = K
      /\ hbuf # <<>> /\ (Len(Back) <= 2 => hbuf' = <<>> /\ toHost = <<>>)
      /\ UNCHANGED <<toHost, reg, flos, fgot, ffile, fno, fstored, fresult, hstored>>
  BY AckBack
<1>3. flos # "rx_header" /\ flos # "accept"
  <2>1. host = "tx" /\ ~(Len(hbuf) <= 1)
    <3>1. Len(hbuf) \in Nat /\ Len(hbuf) >= 2
      BY Streams DEF HostAck
    <3> QED BY <1>1, <3>1
  <2> QED BY <1>2, <2>1 DEF LineInv, HeaderComes, Accepts
<1>4. HeaderComes' /\ Accepts' /\ FlosDone'
  BY <1>2, <1>3 DEF LineInv, HeaderComes, Accepts, FlosDone
<1>5. ASSUME flos = "rx_block"
      PROVE  /\ ffile \in Files /\ Len(fstored) < Length[ffile] /\ Begins(fstored, ffile)
             /\ hfile = ffile /\ hno = Len(fstored) /\ Len(Back) <= 2 /\ AllNoise(Coming)
  BY <1>1, <1>2, <1>5 DEF LineInv, FlosTakes
<1>6. CASE /\ SubSeq(hbuf, 1, 2) = OK /\ hno < Length[hfile]
           /\ toFlos' = toFlos \o Block(hfile, hno + 1)
           /\ hno' = hno + 1
           /\ UNCHANGED <<host, hfile, hresult>>
  <2>1. /\ hno + 1 \in Nat /\ Block(hfile, hno + 1) \in Seq(ByteSet) /\ Lacks(Block(hfile, hno + 1))
        /\ Coming \in Seq(ByteSet) /\ ToFlos \in Seq(ByteSet)
    BY <1>1, BlockIs, BlockLacks, Streams
  <2>2. Coming' = Coming \o Block(hfile, hno + 1) /\ ToFlos' = ToFlos \o Block(hfile, hno + 1)
    BY <1>2, <1>6, <2>1, SentToFlos
  <2>4. NoK(Back')
    BY <1>1, <1>2, <1>6, TakeAck
  <2>5. HostTold'
    BY <1>1, <1>2, <1>6, <2>4, NoKOneK DEF HostTold
  <2>6. FlosTakes'
    <3> SUFFICES ASSUME flos = "rx_block" PROVE FlosTakes'
      BY <1>2 DEF FlosTakes
    <3>1. Clean(Coming', hfile, hno')
      BY <1>1, <1>5, <1>6, <2>1, <2>2, AddsBlock
    <3> QED BY <1>1, <1>2, <1>5, <1>6, <3>1 DEF FlosTakes
  <2>7. FlosTold'
    <3>1. (NoK(ToFlos) => NoK(ToFlos')) /\ (OneK(ToFlos) => OneK(ToFlos'))
      BY <2>1, <2>2, AddsOther
    <3> QED BY <1>2, <1>6, <3>1 DEF LineInv, FlosTold
  <2>8. HostWaits' /\ HostTakes' /\ HostDone'
    BY <1>1, <1>6 DEF HostWaits, HostTakes, HostDone
  <2> QED BY <1>4, <2>5, <2>6, <2>7, <2>8 DEF LineInv
<1>7. CASE /\ host' = "idle" /\ hresult' \in {"sent", "failed"} /\ UNCHANGED toFlos
           /\ (SubSeq(hbuf, 1, 2) = OK => hno = Length[hfile])
  <2>1. Coming' = Coming /\ ToFlos' = ToFlos
    BY <1>2, <1>7 DEF Coming, ToFlos
  <2>2. HostTold' /\ HostWaits' /\ HostTakes' /\ HostDone'
    BY <1>7 DEF HostTold, HostWaits, HostTakes, HostDone
  <2>3. FlosTakes'
    BY <1>2, <1>5, <1>7, <2>1 DEF FlosTakes
  <2>4. FlosTold'
    BY <1>1, <1>2, <1>7, <2>1 DEF LineInv, FlosTold
  <2> QED BY <1>4, <2>2, <2>3, <2>4 DEF LineInv
<1>8. \/ /\ SubSeq(hbuf, 1, 2) = OK /\ hno < Length[hfile]
         /\ toFlos' = toFlos \o Block(hfile, hno + 1)
         /\ hno' = hno + 1
         /\ UNCHANGED <<host, hfile, hresult>>
      \/ /\ host' = "idle" /\ hresult' \in {"sent", "failed"} /\ UNCHANGED toFlos
         /\ (SubSeq(hbuf, 1, 2) = OK => hno = Length[hfile])
  BY DEF HostAck, HostEnds
<1> QED BY <1>6, <1>7, <1>8

\* The host has a header, or what it takes for one.
LEMMA HostHeaderStep ==
  ASSUME Types, Types', LineInv, HostHeader
  PROVE  LineInv'
<1>1. /\ host = "rx_header" /\ Len(hbuf) = Bytes /\ hbuf' = <<>> /\ UNCHANGED hstored
      /\ UNCHANGED <<toHost, reg, flos, fgot, ffile, fno, fstored, fresult>>
  BY DEF HostHeader, HostTakesBlock, fvars
<1>2. /\ hstored = <<>> /\ ~FlosReceives /\ hresult # "received"
      /\ flos = "tx" => NoK(ToFlos) /\ (fno = 0 \/ Back = <<>>)
      /\ \A f \in Files : hbuf[Bytes] = Byte(f, 0, Bytes) =>
           AllNoise(toHost) /\ flos \in {"tx", "idle"} /\ (flos = "tx" => ffile = f)
  BY <1>1 DEF LineInv, HostWaits, HostDone
<1>3. flos # "rx_header" /\ flos # "accept" /\ flos # "rx_block"
  <2>1. ~(Len(hbuf) < Bytes)
    BY <1>1, SerialLinkAssumption
  <2> QED BY <1>1, <1>2, <2>1 DEF LineInv, HeaderComes, FlosReceives
<1>4. HeaderComes' /\ Accepts' /\ FlosTakes' /\ FlosDone'
  BY <1>1, <1>3 DEF LineInv, HeaderComes, Accepts, FlosTakes, FlosDone
<1>5. OK \in Seq(ByteSet) /\ XX \in Seq(ByteSet) /\ Lacks(XX) /\ ToFlos \in Seq(ByteSet) /\ toHost \in Seq(ByteSet)
  BY AnswersAre, AnswersLack, Streams
<1>6. flos = "tx" => ffile \in Files /\ Len(fgot) <= 1 /\ OneK(ToFlos)
  BY DEF LineInv, FlosTold
<1>7. CASE /\ IsBlock(hbuf, 0) /\ toFlos' = toFlos \o OK
           /\ host' = "rx_block" /\ hfile' = FileOf(hbuf)
           /\ UNCHANGED <<hno, hresult>>
  <2>1. PICK f \in Files : hbuf = Block(f, 0)
    BY <1>7 DEF IsBlock
  <2>2. hfile' = f
    BY <1>7, <2>1, BlockIs
  <2>3. AllNoise(toHost) /\ flos \in {"tx", "idle"} /\ (flos = "tx" => ffile = f)
    BY <1>2, <2>1, EndIs
  <2>4. Back' = toHost
    BY <1>1, <1>5, Joins DEF Back
  <2>5. ToFlos' = ToFlos \o OK
    BY <1>1, <1>5, <1>7, SentToFlos
  <2>6. flos = "tx" => fno = 0
    <3>1. Back # <<>>
      <4>1. Len(Back) = Len(hbuf) + Len(toHost) /\ Len(toHost) \in Nat /\ Len(hbuf) >= 2
        BY <1>1, Streams, SerialLinkAssumption
      <4>2. Len(Back) # 0
        BY <1>1, <4>1, SerialLinkAssumption
      <4> QED BY <4>2, Empty
    <3> QED BY <1>2, <3>1
  <2>7. HostTakes'
    <3>1. /\ hfile' \in Files /\ Begins(hstored', hfile') /\ Len(hstored') = 0 /\ Len(hstored') < Length[hfile']
      BY <1>1, <1>2, <2>2, NothingStored
    <3>2. AllNoise(Back') /\ Clean(Back', hfile', Len(hstored') + 1)
      BY <1>5, <2>3, <2>4, NoiseIsClean
    <3> QED BY <1>1, <1>7, <2>2, <2>3, <2>6, <3>1, <3>2 DEF HostTakes
  <2>8. FlosTold'
    <3>1. flos = "tx" => OneK(ToFlos')
      BY <1>2, <1>5, <2>5, AddsOK
    <3> QED BY <1>1, <1>6, <1>7, <3>1 DEF FlosTold
  <2>9. HostTold' /\ HostWaits' /\ HostDone'
    BY <1>2, <1>7 DEF HostTold, HostWaits, HostDone
  <2> QED BY <1>4, <2>7, <2>8, <2>9 DEF LineInv
<1>8. CASE toFlos' = toFlos \o XX /\ host' = "idle" /\ hresult' = "refused"
  <2>1. ToFlos' = ToFlos \o XX
    BY <1>1, <1>5, <1>8, SentToFlos
  <2>2. FlosTold'
    <3>1. flos = "tx" => OneK(ToFlos') /\ NoK(ToFlos')
      BY <1>2, <1>5, <1>6, <2>1, AddsOther
    <3> QED BY <1>1, <1>6, <3>1 DEF FlosTold
  <2>3. HostTold' /\ HostWaits' /\ HostTakes' /\ HostDone'
    BY <1>8 DEF HostTold, HostWaits, HostTakes, HostDone
  <2> QED BY <1>4, <2>2, <2>3 DEF LineInv
<1> QED BY <1>7, <1>8 DEF HostHeader, HostEnds

\* A block with a good checksum is the next one of the file.
LEMMA HostGoodBlock ==
  ASSUME Types, LineInv, host = "rx_block", Len(hbuf) = Bytes, GoodSum(hbuf)
  PROVE  /\ hfile \in Files /\ hbuf = Block(hfile, Len(hstored) + 1) /\ AllNoise(toHost)
         /\ flos = "tx" => ffile = hfile /\ fno = Len(hstored) + 1 /\ NoK(ToFlos)
<1>1. PICK f \in Files : \E i \in 0 .. Length[f] : hbuf = Block(f, i)
  BY DEF GoodSum
<1>2. PICK i \in 0 .. Length[f] : hbuf = Block(f, i)
  BY <1>1
<1>3. i \in Nat
  OBVIOUS
<1>4. /\ IsEnd(hbuf[Bytes]) /\ hbuf[Bytes] # Noise
      /\ \A g, j, k : hbuf[Bytes] = Byte(g, j, k) => g = f /\ j = i
  BY <1>2, <1>3, EndIs
<1>5. /\ Back \in Seq(ByteSet) /\ Len(Back) = Bytes + Len(toHost) /\ Len(toHost) \in Nat
      /\ Bytes \in Nat /\ Bytes >= 2
      /\ Back[Bytes] = hbuf[Bytes]
      /\ \A a \in 1 .. Len(toHost) : Back[Bytes + a] = toHost[a]
  <2>1. /\ hbuf \in Seq(ByteSet) /\ toHost \in Seq(ByteSet) /\ Bytes \in 1 .. Len(hbuf)
        /\ Bytes \in Nat /\ Bytes >= 2
    BY Streams, SerialLinkAssumption
  <2>2. /\ Back \in Seq(ByteSet) /\ Len(Back) = Len(hbuf) + Len(toHost)
        /\ \A a \in 1 .. Len(hbuf) : Back[a] = hbuf[a]
        /\ \A a \in 1 .. Len(toHost) : Back[Len(hbuf) + a] = toHost[a]
    BY <2>1, ConcatIs DEF Back
  <2> QED BY <2>1, <2>2, Empty
<1>6. Bytes \in 1 .. Len(Back)
  BY <1>5
<1>7. ~AllNoise(Back)
  BY <1>4, <1>5, <1>6 DEF AllNoise
<1>8. /\ hfile \in Files /\ Clean(Back, hfile, Len(hstored) + 1)
      /\ flos = "tx" => ffile = hfile /\ fno = Len(hstored) + 1 /\ NoK(ToFlos)
  BY <1>7 DEF LineInv, HostTakes
<1>9. \E k \in 1 .. Bytes : hbuf[Bytes] = Byte(hfile, Len(hstored) + 1, k)
  BY <1>4, <1>5, <1>6, <1>8 DEF Clean, Of
<1>10. f = hfile /\ i = Len(hstored) + 1
  BY <1>4, <1>8, <1>9
<1>11. AllNoise(toHost)
  <2> SUFFICES ASSUME NEW a \in 1 .. Len(toHost) PROVE toHost[a] = Noise
    BY DEF AllNoise
  <2>1. Bytes + a \in 1 .. Len(Back) /\ Bytes < Bytes + a
    BY <1>5
  <2>2. Back[Bytes + a] = Noise
    BY <1>4, <1>5, <1>6, <1>8, <2>1 DEF Clean, EndsLast
  <2> QED BY <1>5, <2>2
<1> QED BY <1>2, <1>8, <1>10, <1>11

\* The host has a block.
LEMMA HostBlockStep ==
  ASSUME Types, Types', LineInv, HostBlock
  PROVE  LineInv'
<1>1. /\ host = "rx_block" /\ Len(hbuf) = Bytes /\ hbuf' = <<>>
      /\ UNCHANGED <<toHost, reg, flos, fgot, ffile, fno, fstored, fresult>>
  BY DEF HostBlock, HostTakesBlock, fvars
<1>2. /\ hfile \in Files /\ Len(hstored) < Length[hfile] /\ Begins(hstored, hfile)
      /\ flos \in {"tx", "idle"} /\ hresult # "received"
      /\ flos = "tx" => \/ fno = Len(hstored) + 1 /\ NoK(ToFlos)
                        \/ ffile = hfile /\ fno = Len(hstored)
      /\ hstored \in Seq(Seq(ByteSet)) /\ Len(hstored) \in Nat /\ Length[hfile] \in Nat
  BY <1>1, SerialLinkAssumption DEF LineInv, HostTakes, HostDone, Types, HostHas
<1>3. HeaderComes' /\ Accepts' /\ FlosTakes' /\ FlosDone'
  BY <1>1, <1>2 DEF LineInv, HeaderComes, Accepts, FlosTakes, FlosDone
<1>4. /\ OK \in Seq(ByteSet) /\ XX \in Seq(ByteSet) /\ Lacks(XX)
      /\ ToFlos \in Seq(ByteSet) /\ toHost \in Seq(ByteSet) /\ hbuf \in Seq(ByteSet)
  BY AnswersAre, AnswersLack, Streams
<1>5. flos = "tx" => ffile \in Files /\ Len(fgot) <= 1 /\ OneK(ToFlos)
  BY DEF LineInv, FlosTold
<1>6. CASE GoodSum(hbuf) /\ HostStores
  <2>1. /\ hbuf = Block(hfile, Len(hstored) + 1) /\ AllNoise(toHost)
        /\ flos = "tx" => ffile = hfile /\ fno = Len(hstored) + 1 /\ NoK(ToFlos)
    BY <1>1, <1>6, HostGoodBlock
  <2>2. /\ toFlos' = toFlos \o OK /\ hstored' = Append(hstored, hbuf) /\ hfile' = hfile
        /\ \/ Len(hstored') = Length[hfile] /\ host' = "idle" /\ hresult' = "received"
           \/ Len(hstored') # Length[hfile] /\ host' = "rx_block" /\ hresult' = hresult
    BY <1>1, <1>6 DEF HostStores
  <2>3. Begins(hstored', hfile') /\ Len(hstored') = Len(hstored) + 1 /\ hstored' \in Seq(Seq(ByteSet))
    BY <1>2, <1>4, <2>1, <2>2, BeginsGrows
  <2>4. Back' = toHost /\ ToFlos' = ToFlos \o OK
    <3>1. Back' = toHost
      BY <1>1, <1>4, Joins DEF Back
    <3>2. ToFlos' = ToFlos \o OK
      BY <1>1, <1>4, <2>2, SentToFlos
    <3> QED BY <3>1, <3>2
  <2>5. flos = "tx" => OneK(ToFlos')
    BY <1>4, <2>1, <2>4, AddsOK
  <2>6. FlosTold'
    <3>1. host' # "rx_block" => hresult' = "received"
      BY <2>2
    <3> QED BY <1>1, <1>5, <2>1, <2>2, <2>5, <3>1 DEF FlosTold
  <2>7. HostTakes'
    <3> SUFFICES ASSUME host' = "rx_block" PROVE HostTakes'
      BY DEF HostTakes
    <3>1. Len(hstored') < Length[hfile']
      <4>1. Len(hstored) + 1 # Length[hfile]
        BY <2>2, <2>3
      <4>2. Len(hstored) + 1 < Length[hfile]
        BY <1>2, <4>1
      <4> QED BY <2>2, <2>3, <4>2
    <3>2. AllNoise(Back') /\ Clean(Back', hfile', Len(hstored') + 1)
      BY <1>4, <2>1, <2>4, NoiseIsClean
    <3>3. hfile' \in Files /\ flos' \in {"tx", "idle"}
      BY <1>1, <1>2, <2>2
    <3>4. flos' = "tx" => ffile' = hfile' /\ fno' = Len(hstored')
      BY <1>1, <2>1, <2>2, <2>3
    <3> QED BY <2>3, <3>1, <3>2, <3>3, <3>4 DEF HostTakes
  <2>8. HostDone'
    <3> SUFFICES ASSUME hresult' = "received" PROVE HostDone'
      BY DEF HostDone
    <3>1. Len(hstored') = Length[hfile'] /\ host' = "idle" /\ hfile' \in Files
      BY <1>2, <2>2
    <3>2. hstored' = Whole(hfile')
      BY <2>3, <3>1, BeginsWhole
    <3> QED BY <3>1, <3>2 DEF HostDone
  <2>9. HostTold' /\ HostWaits'
    BY <2>2 DEF HostTold, HostWaits
  <2> QED BY <1>3, <2>6, <2>7, <2>8, <2>9 DEF LineInv
<1>7. CASE toFlos' = toFlos \o XX /\ host' = "idle" /\ hresult' = "failed"
  <2>1. ToFlos' = ToFlos \o XX
    BY <1>1, <1>4, <1>7, SentToFlos
  <2>2. flos = "tx" => OneK(ToFlos') /\ (fno = Length[ffile] => NoK(ToFlos'))
    <3>1. flos = "tx" /\ fno = Length[ffile] => NoK(ToFlos)
      <4>1. Len(hstored) # Length[hfile]
        BY <1>2
      <4> QED BY <1>2, <4>1
    <3> QED BY <1>4, <1>5, <2>1, <3>1, AddsOther
  <2>3. FlosTold'
    BY <1>1, <1>5, <2>2 DEF FlosTold
  <2>4. HostTold' /\ HostWaits' /\ HostTakes' /\ HostDone'
    BY <1>7 DEF HostTold, HostWaits, HostTakes, HostDone
  <2> QED BY <1>3, <2>3, <2>4 DEF LineInv
<1> QED BY <1>6, <1>7 DEF HostBlock, HostEnds

\* The host gives up.
LEMMA HostTimeoutStep ==
  ASSUME RX, Types, Types', LineInv, HostTimeout
  PROVE  LineInv'
<1>1. /\ Still /\ flos \notin {"rx_block", "tx"} /\ host' = "idle" /\ hresult' = "timed out"
      /\ UNCHANGED <<toFlos, toHost, reg, flos, fgot, ffile, fno, fstored, fresult>>
  BY DEF HostTimeout, HostEnds, FlosEndsFirst, line, fvars
<1>2. Coming' = Coming /\ toHost = <<>> /\ flos # "accept" /\ (Polling => Coming = <<>>)
  BY <1>1, StillIs DEF Coming
<1>3. HeaderComes'
  <2> SUFFICES ASSUME flos = "rx_header" PROVE HeaderComes'
    BY <1>1 DEF HeaderComes
  <2>1. AllNoise(Coming')
    BY <1>2, EmptyIs DEF Polling
  <2>2. fstored' = <<>> /\ toHost' = <<>>
    BY <1>1, <1>2 DEF LineInv, HeaderComes
  <2> QED BY <1>1, <2>1, <2>2 DEF HeaderComes
<1>4. Accepts' /\ FlosTakes' /\ FlosDone' /\ FlosTold'
  BY <1>1, <1>2 DEF LineInv, Accepts, FlosTakes, FlosDone, FlosTold
<1>5. HostTold' /\ HostWaits' /\ HostTakes' /\ HostDone'
  BY <1>1 DEF HostTold, HostWaits, HostTakes, HostDone
<1> QED BY <1>3, <1>4, <1>5 DEF LineInv

-----------------------------------------------------------------------------
\* Every step, with RX, keeps the invariant.
LEMMA LineInvStep ==
  ASSUME RX, Types, Types', LineInv, [Next]_vars
  PROVE  LineInv'
<1>1. CASE Line \/ Lose \/ Spoil \/ Glitch
  BY <1>1, LineStep
<1>2. CASE Flos
  BY <1>2, FlosByteStep, FlosHeaderStep, FlosAcceptStep, FlosBlockStep, FlosAckStep DEF Flos
<1>3. CASE Host
  BY <1>3, HostAckStep, HostHeaderStep, HostBlockStep DEF Host
<1>4. CASE FlosStart \/ HostStart
  BY <1>4, FlosReceiveStep, FlosSendStep, HostReceiveStep, HostSendStep DEF FlosStart, HostStart
<1>5. CASE FlosTimeout \/ HostTimeout
  BY <1>5, FlosTimeoutStep, HostTimeoutStep
<1>6. CASE UNCHANGED vars
  BY <1>6 DEF vars, line, fvars, hvars, LineInv, HeaderComes, Accepts, FlosTakes, FlosDone, HostTold,
              HostWaits, HostTakes, HostDone, FlosTold, Coming, ToFlos, Back, FlosReceives
<1> QED BY <1>1, <1>2, <1>3, <1>4, <1>5, <1>6 DEF Next

\* So it is an invariant.
LEMMA LineInvHolds == ASSUME RX PROVE Spec => []LineInv
<1>1. Types /\ Types' /\ LineInv /\ [Next]_vars => LineInv'
  BY LineInvStep
<1> QED BY <1>1, LineInit, TypesHold, PTL DEF Spec

(* A file whose reception ends without an error is the file that was sent, *)
(* its blocks each once and in order, whatever bytes the line loses,       *)
(* spoils or invents, however many and long the transfers before it, in    *)
(* either direction.                                                       *)
THEOREM FilesArriveIntact == ASSUME RX PROVE Spec => []FilesIntact
<1>1. LineInv => FilesIntact
  BY DEF LineInv, FlosDone, HostDone, FilesIntact, FlosFileIntact, HostFileIntact
<1> QED BY <1>1, LineInvHolds, PTL

\* Who reports success, and what the invariant says then.
LEMMA HostReports ==
  ASSUME Types, LineInv, [Next]_vars, hresult # "sent", hresult' = "sent"
  PROVE  fresult = "received" /\ ffile = hfile
<1>1. HostAck
  <2>1. CASE Line \/ Lose \/ Spoil \/ Glitch
    BY <2>1 DEF Line, DeliverToFlos, DeliverToHost, Lose, Spoil, Glitch, Fault, hvars
  <2>2. CASE Flos \/ FlosStart \/ FlosTimeout
    BY <2>2 DEF Flos, FlosByte, FlosHeader, FlosAccept, FlosBlock, FlosAck, ReadLast, Read,
                FlosStart, FlosReceive, FlosSend, FlosTimeout, hvars
  <2>3. CASE Host \/ HostStart \/ HostTimeout
    BY <2>3 DEF Host, HostHeader, HostBlock, HostStores, HostEnds, HostStart, HostReceive, HostSend, HostTimeout
  <2>4. CASE UNCHANGED vars
    BY <2>4 DEF vars, hvars
  <2> QED BY <2>1, <2>2, <2>3, <2>4 DEF Next
<1>2. SubSeq(hbuf, 1, 2) = OK /\ hno = Length[hfile] /\ host = "tx"
  BY <1>1 DEF HostAck, HostEnds
<1>3. ~NoK(Back) /\ hbuf # <<>>
  <2>1. /\ Back[2] = K /\ hbuf # <<>> /\ Len(Back) = Len(Back') + 2 /\ Len(Back') \in Nat
    BY <1>1, <1>2, AckBack
  <2>2. 2 \in 1 .. Len(Back)
    BY <2>1
  <2> QED BY <2>1, <2>2 DEF NoK
<1>4. flos # "accept"
  BY <1>3 DEF LineInv, Accepts
<1>5. flos # "rx_block"
  <2> SUFFICES ASSUME flos = "rx_block" PROVE FALSE
    OBVIOUS
  <2>1. hfile = ffile /\ hno = Len(fstored) /\ Len(fstored) < Length[ffile]
    BY <1>2, <1>3 DEF LineInv, FlosTakes
  <2>2. Len(fstored) \in Nat
    BY Empty DEF Types, FlosHas
  <2> QED BY <1>2, <2>1, <2>2
<1> QED BY <1>2, <1>3, <1>4, <1>5 DEF LineInv, HostTold, FlosReceives

\* The same of FLOS.
LEMMA FlosReports ==
  ASSUME Types, LineInv, [Next]_vars, fresult # "sent", fresult' = "sent"
  PROVE  hresult = "received" /\ hfile = ffile
<1>1. FlosAck
  <2>1. CASE Line \/ Lose \/ Spoil \/ Glitch
    BY <2>1 DEF Line, DeliverToFlos, DeliverToHost, Lose, Spoil, Glitch, Fault, fvars
  <2>2. CASE FlosByte \/ FlosHeader \/ FlosAccept \/ FlosBlock \/ FlosStart \/ FlosTimeout
    BY <2>2 DEF FlosByte, FlosHeader, FlosAccept, FlosBlock, FlosStores, FlosRefuses, FlosEnds,
                FlosStart, FlosReceive, FlosSend, FlosTimeout
  <2>3. CASE Host \/ HostStart \/ HostTimeout
    BY <2>3 DEF Host, HostAck, HostHeader, HostBlock, HostTakesBlock, HostStart, HostReceive, HostSend,
                HostTimeout, fvars
  <2>4. CASE UNCHANGED vars
    BY <2>4 DEF vars, fvars
  <2> QED BY <2>1, <2>2, <2>3, <2>4 DEF Next, Flos
<1>2. flos = "tx" /\ Read /\ Taken = OK /\ fno = Length[ffile] /\ ffile \in Files
  BY <1>1 DEF FlosAck, FlosEnds, ReadLast, LineInv, FlosTold
<1>3. ~NoK(ToFlos)
  <2>1. /\ OK \in Seq(ByteSet) /\ Len(OK) = 2 /\ OK[2] = K /\ toFlos \in Seq(ByteSet) /\ ToFlos = OK \o toFlos
    BY <1>2, AnswersAre, ReadIs
  <2>2. Len(ToFlos) = 2 + Len(toFlos) /\ Len(toFlos) \in Nat /\ \A a \in 1 .. 2 : ToFlos[a] = OK[a]
    <3>1. /\ Len(OK \o toFlos) = Len(OK) + Len(toFlos)
          /\ \A a \in 1 .. Len(OK) : (OK \o toFlos)[a] = OK[a]
      BY <2>1, ConcatIs
    <3> QED BY <2>1, <3>1, Empty
  <2>3. 2 \in 1 .. Len(ToFlos) /\ ToFlos[2] = K
    BY <2>1, <2>2
  <2> QED BY <2>3 DEF NoK
<1>4. host # "rx_block"
  <2> SUFFICES ASSUME host = "rx_block" PROVE FALSE
    OBVIOUS
  <2>1. ffile = hfile /\ fno = Len(hstored) /\ Len(hstored) < Length[hfile]
    BY <1>2, <1>3 DEF LineInv, HostTakes
  <2>2. Len(hstored) \in Nat
    BY Empty DEF Types, HostHas
  <2> QED BY <1>2, <2>1, <2>2
<1> QED BY <1>2, <1>3, <1>4 DEF LineInv, FlosTold

(* A sender that reports success is right: at that moment the receiver has *)
(* ended the reception of the same file, without an error.  An acknowledge *)
(* of an earlier block or of an earlier transfer is never taken for that   *)
(* of the last block.                                                      *)
THEOREM SuccessIsTrue == ASSUME RX PROVE Spec => SentMeansReceived
<1>1. Types /\ LineInv /\ [Next]_vars =>
        /\ hresult # "sent" /\ hresult' = "sent" => fresult = "received" /\ ffile = hfile
        /\ fresult # "sent" /\ fresult' = "sent" => hresult = "received" /\ hfile = ffile
  BY HostReports, FlosReports
<1> QED BY <1>1, LineInvHolds, TypesHold, PTL DEF Spec, SentMeansReceived
=============================================================================
