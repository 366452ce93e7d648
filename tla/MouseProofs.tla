---------------------------- MODULE MouseProofs -----------------------------
(***************************************************************************)
(* Proofs about Mouse, for every set of displacements and windows.  Of the *)
(* sizes of a word and of its half they only use the facts of Sizes.       *)
(***************************************************************************)
EXTENDS Mouse, SequenceTheorems, TLAPS

Byte == 0 .. 255

LEMMA Sizes ==
  /\ Half \in Int /\ Word \in Int /\ Word = Half + Half /\ Half > 1000
BY DEF Word, Half

(* A displacement of 16 bits, made of a byte and a sign.                   *)
LEMMA DisplacementType ==
  ASSUME NEW byte \in Byte, NEW s \in BOOLEAN
  PROVE  /\ Displacement(byte, s) \in Int
         /\ \/ Displacement(byte, s) \in Byte
            \/ Displacement(byte, s) \in Word - 256 .. Word - 1
BY Sizes DEF Displacement, Byte

(* A displacement, and what its subtraction from zero gives, is a word,    *)
(* one of -256 .. 256 when its highest bit is the sign.                    *)
LEMMA SubRange ==
  ASSUME NEW n \in Int, n \in Byte \/ n \in Word - 256 .. Word - 1
  PROVE  /\ n \in Words /\ Signed(n) \in -256 .. 256
         /\ Sub(0, n) \in Words /\ Signed(Sub(0, n)) \in -256 .. 256
<1>1. n \in Words
  BY Sizes DEF Words, Byte
<1>2. Signed(n) \in -256 .. 256
  BY Sizes DEF Signed, Byte
<1>3. CASE n = 0
  BY <1>1, <1>2, <1>3 DEF Sub
<1>4. CASE n # 0
  <2>1. Sub(0, n) = Word - n
    BY Sizes, <1>4 DEF Sub, Byte
  <2>2. Word - n \in Words
    BY Sizes, <1>4 DEF Words, Byte
  <2>3. Signed(Word - n) \in -256 .. 256
    BY Sizes, <1>4 DEF Signed, Byte
  <2> QED
    BY <1>1, <1>2, <2>1, <2>2, <2>3
<1> QED
  BY <1>3, <1>4

(* The displacement of either axis is a word, and one of -256 .. 256.      *)
LEMMA WayType ==
  ASSUME NEW p \in [0 .. 2 -> Byte]
  PROVE  /\ Way(p) \in [Axes -> Words]
         /\ \A a \in Axes : Signed(Way(p)[a]) \in -256 .. 256
<1>1. \A byte \in Byte, s \in BOOLEAN :
        /\ Displacement(byte, s) \in Words
        /\ Signed(Displacement(byte, s)) \in -256 .. 256
        /\ Sub(0, Displacement(byte, s)) \in Words
        /\ Signed(Sub(0, Displacement(byte, s))) \in -256 .. 256
  BY SMTT(30), DisplacementType, SubRange
<1>2. p[1] \in Byte /\ p[2] \in Byte
  OBVIOUS
<1>3. Bit(p[0], 16) \in BOOLEAN /\ Bit(p[0], 32) \in BOOLEAN
  BY DEF Bit
<1>4. \A a \in Axes : /\ Way(p)[a] \in Words
                      /\ Signed(Way(p)[a]) \in -256 .. 256
  BY SMTT(30), <1>1, <1>2, <1>3 DEF Way
<1>5. Way(p) \in [Axes -> Words]
  BY <1>4 DEF Way
<1> QED
  BY <1>4, <1>5

LEMMA WordArithmetic ==
  ASSUME NEW u \in Words, NEW v \in Words
  PROVE  Add(u, v) \in Words /\ Sub(u, v) \in Words
BY Sizes DEF Add, Sub, Words

LEMMA ClampInWindow ==
  ASSUME NEW size \in Nat, NEW p \in Words
  PROVE  Clamp(p, size) \in 0 .. size
BY Sizes DEF Clamp, Words

(* The boundary checks are exact as long as no sum reaches Half.           *)
LEMMA ClampIsExact ==
  ASSUME NEW size \in 0 .. Half - 257, NEW pos \in 0 .. size,
         NEW d \in Words, Signed(d) \in -256 .. 256
  PROVE  Clamp(Add(pos, d), size) = Promise!Within(pos + Signed(d), size)
<1>1. size \in Nat /\ pos \in Nat /\ pos <= size /\ size <= Half - 257
  BY Sizes
<1>2. CASE d \in 0 .. 256
  <2>1. Signed(d) = d
    BY Sizes, <1>2 DEF Signed
  <2>2. Add(pos, d) = pos + d
    BY Sizes, <1>1, <1>2 DEF Add
  <2>3. Clamp(pos + d, size) = Promise!Within(pos + d, size)
    BY Sizes, <1>1, <1>2 DEF Clamp, Promise!Within
  <2> QED
    BY <2>1, <2>2, <2>3
<1>3. CASE d \in Word - 256 .. Word - 1
  <2>1. Signed(d) = d - Word
    BY Sizes, <1>3 DEF Signed
  <2>2. CASE pos + d < Word
    <3>1. Add(pos, d) = pos + d
      BY <2>2 DEF Add
    <3>2. Clamp(pos + d, size) = 0
      BY Sizes, <1>1, <1>3, <2>2 DEF Clamp
    <3>3. Promise!Within(pos + (d - Word), size) = 0
      BY Sizes, <1>1, <1>3, <2>2 DEF Promise!Within
    <3> QED
      BY <2>1, <3>1, <3>2, <3>3
  <2>3. CASE ~(pos + d < Word)
    <3>1. Add(pos, d) = pos + d - Word
      BY <2>3 DEF Add
    <3>2. Clamp(pos + d - Word, size) = Promise!Within(pos + (d - Word), size)
      BY Sizes, <1>1, <1>3, <2>3 DEF Clamp, Promise!Within
    <3> QED
      BY <2>1, <3>1, <3>2
  <2> QED
    BY <2>2, <2>3
<1>4. d \in 0 .. 256 \/ d \in Word - 256 .. Word - 1
  BY Sizes DEF Signed, Words
<1> QED
  BY <1>2, <1>3, <1>4

-----------------------------------------------------------------------------
(* A packet is three bytes.                                                *)
LEMMA PacketType ==
  ASSUME NEW d \in [Axes -> Moves], NEW b \in Buttons
  PROVE  Packet(d, b) \in Seq(Byte)
<1>1. d.x \in -256 .. 255 /\ d.y \in -256 .. 255 /\ b \in 0 .. 7
  BY ZenonT(30), MouseAssumption DEF Axes
<1>2. d.x % 256 \in Byte /\ d.y % 256 \in Byte
  BY SMTT(30), <1>1 DEF Byte
<1>3. Sign(d.x, 16) \in {0, 16} /\ Sign(d.y, 32) \in {0, 32}
  BY DEF Sign
<1>4. b + 8 + Sign(d.x, 16) + Sign(d.y, 32) \in Byte
  BY <1>1, <1>3 DEF Byte
<1> QED
  BY <1>2, <1>4 DEF Packet

(* What taking a byte leaves well typed, whatever becomes of the packet.   *)
LEMMA TakeType ==
  ASSUME TypeOK, Take
  PROVE  /\ wire' \in Seq(0 .. 255)
         /\ use_mouse' \in BOOLEAN
         /\ mouse_packet' \in [0 .. 2 -> Byte]
         /\ old_mouse_disp' \in [Axes -> Words]
         /\ mouse_window_size' \in Windows
         /\ pc' \in {"program", "y", "buttons"}
<1>1. wire \in Seq(Byte) /\ wire # <<>>
  BY DEF TypeOK, Take, Byte
<1>2. Head(wire) \in Byte /\ Tail(wire) \in Seq(Byte)
  BY <1>1, HeadTailProperties
<1>3. wire' \in Seq(0 .. 255)
  BY <1>2 DEF Take, Byte
<1>4. mouse_packet' \in [0 .. 2 -> Byte]
  BY <1>2 DEF Take, TypeOK, Byte
<1> QED
  BY <1>3, <1>4 DEF TypeOK, Take

(* What is added to the pointer for the packet of this step: in range.     *)
LEMMA WindowType ==
  ASSUME TypeOK, NEW a \in Axes
  PROVE  /\ mouse_window_size[a] \in 0 .. Half - 257
         /\ mouse_pos[a] \in 0 .. mouse_window_size[a]
         /\ mouse_pos[a] \in Words
<1>1. /\ mouse_window_size[a] \in 0 .. Half - 257
      /\ mouse_pos[a] \in 0 .. mouse_window_size[a]
  BY MouseAssumption DEF TypeOK
<1> QED
  BY <1>1, Sizes DEF Words

(* Every variable keeps its type, and the pointer stays inside the window. *)
THEOREM TypeCorrect == Spec => []TypeOK
<1>1. Init => TypeOK
  <2> SUFFICES ASSUME Init PROVE TypeOK
    OBVIOUS
  <2>1. \A a \in Axes : mouse_window_size[a] \in 0 .. Half - 257
    BY MouseAssumption DEF Init
  <2>2. 0 \in Words
    BY Sizes DEF Words
  <2>3. /\ \A a \in Axes : mouse_pos[a] \in 0 .. mouse_window_size[a]
        /\ DOMAIN mouse_pos = Axes
    BY <2>1, Sizes DEF Init, Origin
  <2>4. mouse_disp \in [Axes -> Words] /\ old_mouse_disp \in [Axes -> Words]
    BY <2>2 DEF Init, Origin
  <2>5. wire \in Seq(0 .. 255) /\ mouse_packet \in [0 .. 2 -> 0 .. 255]
    BY EmptySeq DEF Init
  <2>6. use_mouse \in BOOLEAN /\ mouse_window_size \in Windows
    BY Zenon DEF Init
  <2>7. /\ mouse_packet_index \in 0 .. 2 /\ mouse_buttons \in 0 .. 7
        /\ pc \in {"program", "y", "buttons"}
    BY DEF Init
  <2> QED
    BY <2>3, <2>4, <2>5, <2>6, <2>7 DEF TypeOK
<1>2. TypeOK /\ [Next]_vars => TypeOK'
  <2> SUFFICES ASSUME TypeOK, [Next]_vars PROVE TypeOK'
    OBVIOUS
  <2>1. ASSUME NEW d \in [Axes -> Moves], NEW b \in Buttons, Move(d, b)
        PROVE  TypeOK'
    <3>1. wire' \in Seq(0 .. 255)
      BY SMTT(30), <2>1, PacketType, ConcatProperties DEF Move, TypeOK, Byte
    <3> QED
      BY <2>1, <3>1 DEF Move, TypeOK, driver, caller
  <2>2. CASE Lose
    <3>1. wire' \in Seq(0 .. 255)
      BY <2>2, HeadTailProperties DEF Lose, TypeOK
    <3> QED
      BY <2>2, <3>1 DEF Lose, TypeOK, driver, caller
  <2>3. CASE SkipByte
    <3>1. Take /\ mouse_packet_index' \in 0 .. 2
      BY <2>3 DEF SkipByte, TypeOK
    <3>2. MidPacket /\ mouse_window_size' = mouse_window_size
      BY <2>3 DEF SkipByte, Take
    <3> QED
      BY <3>1, <3>2, TakeType DEF MidPacket, TypeOK, Byte
  <2>4. CASE TakeByte
    <3>1. Take /\ mouse_packet_index' \in 0 .. 2
      BY <2>4 DEF TakeByte, TypeOK
    <3>2. MidPacket /\ mouse_window_size' = mouse_window_size
      BY <2>4 DEF TakeByte, Take
    <3> QED
      BY <3>1, <3>2, TakeType DEF MidPacket, TypeOK, Byte
  <2>5. CASE TakePacket
    <3>1. Take
      BY <2>5 DEF TakePacket
    <3>2. Way(mouse_packet') \in [Axes -> Words]
      BY <3>1, TakeType, WayType
    <3>3. mouse_buttons' \in 0 .. 7
      <4>1. mouse_packet'[0] \in Byte
        BY <3>1, TakeType
      <4> QED
        BY <2>5, <4>1 DEF TakePacket, Byte
    <3>4. mouse_disp' \in [Axes -> Words]
      BY <2>5, <3>2, WordArithmetic DEF TakePacket, TypeOK
    <3>5. mouse_window_size' = mouse_window_size
      BY <3>1 DEF Take
    <3>6. /\ \A a \in Axes : mouse_pos'[a] \in 0 .. mouse_window_size'[a]
          /\ DOMAIN mouse_pos' = Axes
      <4>1. ASSUME NEW a \in Axes
            PROVE  Clamp(Add(mouse_pos[a], Way(mouse_packet')[a]), mouse_window_size[a])
                     \in 0 .. mouse_window_size[a]
        <5>1. Add(mouse_pos[a], Way(mouse_packet')[a]) \in Words
          BY <3>2, WindowType, WordArithmetic
        <5>2. mouse_window_size[a] \in Nat
          BY WindowType, Sizes
        <5> QED
          BY <5>1, <5>2, ClampInWindow
      <4> QED
        BY <2>5, <3>5, <4>1 DEF TakePacket
    <3>7. mouse_packet_index' \in 0 .. 2
      BY <2>5 DEF TakePacket
    <3> QED
      BY <3>1, <3>3, <3>4, <3>6, <3>7, TakeType DEF TypeOK, Byte
  <2>6. CASE GetX \/ GetY \/ GetButtons
    BY ZenonT(60), <2>6 DEF GetX, GetY, GetButtons, TypeOK, driver, world
  <2>7. CASE GetMotion
    BY <2>7 DEF GetMotion, TypeOK, world
  <2>8. ASSUME NEW w \in Windows, EnableMouse(w)
        PROVE  TypeOK'
    <3>1. \A a \in Axes : w[a] \in 0 .. Half - 257
      BY MouseAssumption
    <3>2. 0 \in Words
      BY Sizes DEF Words
    <3>3. /\ \A a \in Axes : mouse_pos'[a] \in 0 .. mouse_window_size'[a]
          /\ DOMAIN mouse_pos' = Axes
      BY <2>8, <3>1, Sizes DEF EnableMouse, Origin
    <3>4. mouse_disp' \in [Axes -> Words] /\ old_mouse_disp' \in [Axes -> Words]
      BY <2>8, <3>2 DEF EnableMouse, Origin
    <3> QED
      BY <2>8, <3>3, <3>4 DEF EnableMouse, TypeOK, caller
  <2>9. CASE UNCHANGED vars
    BY <2>9 DEF vars, driver, caller, world, TypeOK
  <2> QED
    BY <2>1, <2>2, <2>3, <2>4, <2>5, <2>6, <2>7, <2>8, <2>9 DEF Next, MouseIrq, Call
<1> QED
  BY <1>1, <1>2, PTL DEF Spec

(* The checks of FLOS_irq_code on 16 bits stop the pointer exactly where   *)
(* the integers leave the window: property PointerClamped.                 *)
THEOREM ClampedExactly == Spec => PointerClamped
<1>1. TypeOK /\ [Next]_vars => [TakePacket =>
        \A a \in Axes :
          mouse_pos'[a] = Promise!Within(mouse_pos[a] + Signed(Way(mouse_packet')[a]),
                                         mouse_window_size[a])]_vars
  <2> SUFFICES ASSUME TypeOK, TakePacket, NEW a \in Axes
               PROVE  mouse_pos'[a] =
                        Promise!Within(mouse_pos[a] + Signed(Way(mouse_packet')[a]),
                                       mouse_window_size[a])
    OBVIOUS
  <2>1. Take
    BY DEF TakePacket
  <2>2. /\ Way(mouse_packet')[a] \in Words
        /\ Signed(Way(mouse_packet')[a]) \in -256 .. 256
    BY <2>1, TakeType, WayType
  <2>3. mouse_pos'[a] = Clamp(Add(mouse_pos[a], Way(mouse_packet')[a]),
                              mouse_window_size[a])
    BY DEF TakePacket
  <2> QED
    BY <2>2, <2>3, WindowType, ClampIsExact
<1> QED
  BY <1>1, TypeCorrect, PTL DEF Spec, PointerClamped

-----------------------------------------------------------------------------
(* Out of step and in step again.  The bytes of the mouse are told apart   *)
(* by bit 3, and the driver is in step when the bytes it has of a packet   *)
(* and those on the wire make whole packets.                               *)
FirstsOnly == \A m \in Moves : ~Bit(m % 256, 8)

InStep == (mouse_packet_index + Len(wire)) % 3 = 0

\* Where the driver may be when it is out of step and a whole packet was sent since
\* the last byte was lost: before that packet, or so far in it that it comes out right.
ComesRight ==
  \/ Len(wire) >= 3
  \/ Len(wire) = 2 /\ mouse_packet_index \in {0, 2}
  \/ Len(wire) = 1 /\ mouse_packet_index = 0

StepInv ==
  /\ wire \in Seq(Byte) /\ mouse_packet_index \in 0 .. 2 /\ since \in Nat
  /\ \A j \in 1 .. Len(wire) : Bit(wire[j], 8) <=> (Len(wire) - j) % 3 = 2
  /\ since >= 1 => InStep \/ ComesRight

\* The first byte of a packet has bit 3, and if FirstsOnly no other.
LEMMA PacketBits ==
  ASSUME FirstsOnly, NEW d \in [Axes -> Moves], NEW b \in Buttons
  PROVE  /\ Len(Packet(d, b)) = 3
         /\ Bit(Packet(d, b)[1], 8) /\ ~Bit(Packet(d, b)[2], 8) /\ ~Bit(Packet(d, b)[3], 8)
<1>1. d.x \in Moves /\ d.y \in Moves /\ b \in 0 .. 7
  BY ZenonT(30), MouseAssumption DEF Axes
<1>2. ~Bit(d.x % 256, 8) /\ ~Bit(d.y % 256, 8)
  BY <1>1 DEF FirstsOnly
<1>3. Sign(d.x, 16) \in {0, 16} /\ Sign(d.y, 32) \in {0, 32}
  BY DEF Sign
<1>4. Bit(b + 8 + Sign(d.x, 16) + Sign(d.y, 32), 8)
  BY <1>1, <1>3 DEF Bit
<1> QED BY <1>2, <1>4 DEF Packet

LEMMA WireTail ==
  ASSUME wire \in Seq(Byte), wire # <<>>
  PROVE  /\ Len(wire) \in Nat \ {0} /\ Tail(wire) \in Seq(Byte)
         /\ Len(Tail(wire)) = Len(wire) - 1 /\ Head(wire) = wire[1] /\ wire[1] \in Byte
         /\ \A j \in 1 .. Len(Tail(wire)) : Tail(wire)[j] = wire[j + 1]
<1>1. Len(wire) \in Nat \ {0} /\ wire[1] \in Byte /\ Head(wire) = wire[1]
  BY EmptySeq, LenProperties, HeadTailProperties, ElementOfSeq
<1> QED BY <1>1, HeadTailProperties

\* Whoever takes the first byte of the wire leaves the others where they were, counted
\* from the end.
LEMMA TailBits ==
  ASSUME StepInv, wire # <<>>, wire' = Tail(wire)
  PROVE  /\ wire' \in Seq(Byte) /\ Len(wire') = Len(wire) - 1 /\ Len(wire) \in Nat \ {0}
         /\ \A j \in 1 .. Len(wire') : Bit(wire'[j], 8) <=> (Len(wire') - j) % 3 = 2
         /\ Bit(Head(wire), 8) <=> Len(wire) % 3 = 0
<1>1. wire \in Seq(Byte)
  BY DEF StepInv
<1>2. ASSUME NEW j \in 1 .. Len(wire')
      PROVE  Bit(wire'[j], 8) <=> (Len(wire') - j) % 3 = 2
  <2>1. j + 1 \in 1 .. Len(wire) /\ wire'[j] = wire[j + 1]
    BY <1>1, WireTail
  <2>2. Len(wire') - j = Len(wire) - (j + 1)
    BY <1>1, WireTail
  <2> QED BY <2>1, <2>2 DEF StepInv
<1>3. Bit(Head(wire), 8) <=> Len(wire) % 3 = 0
  <2>1. 1 \in 1 .. Len(wire) /\ Head(wire) = wire[1] /\ Len(wire) \in Nat \ {0}
    BY <1>1, WireTail
  <2>2. (Len(wire) - 1) % 3 = 2 <=> Len(wire) % 3 = 0
    BY <2>1
  <2> QED BY <2>1, <2>2 DEF StepInv
<1> QED BY <1>1, <1>2, <1>3, WireTail

LEMMA StepInvHolds ==
  ASSUME FirstsOnly
  PROVE  Spec => []StepInv
<1>1. Init => StepInv
  BY EmptySeq DEF Init, StepInv
<1>2. StepInv /\ [Next]_vars => StepInv'
  <2> SUFFICES ASSUME StepInv, [Next]_vars PROVE StepInv'
    OBVIOUS
  <2>0. /\ wire \in Seq(Byte) /\ Len(wire) \in Nat /\ mouse_packet_index \in 0 .. 2
        /\ since \in Nat
    BY DEF StepInv
  <2>1. ASSUME NEW d \in [Axes -> Moves], NEW b \in Buttons, Move(d, b)
        PROVE  StepInv'
    <3> DEFINE p == Packet(d, b)
    <3>1. Len(p) = 3 /\ p \in Seq(Byte) /\ Bit(p[1], 8) /\ ~Bit(p[2], 8) /\ ~Bit(p[3], 8)
      BY PacketBits, PacketType
    <3>2. wire' = wire \o p /\ since' = since + 1 /\ mouse_packet_index' = mouse_packet_index
      BY <2>1 DEF Move, driver
    <3> HIDE DEF p
    <3>3. /\ wire' \in Seq(Byte) /\ Len(wire') = Len(wire) + 3
          /\ \A j \in 1 .. Len(wire) : wire'[j] = wire[j]
          /\ \A j \in 1 .. 3 : wire'[Len(wire) + j] = p[j]
      <4>1. /\ wire' \in Seq(Byte) /\ Len(wire') = Len(wire) + 3
            /\ \A j \in 1 .. Len(wire) + 3 :
                 wire'[j] = IF j <= Len(wire) THEN wire[j] ELSE p[j - Len(wire)]
        <5>1. /\ wire \o p \in Seq(Byte) /\ Len(wire \o p) = Len(wire) + Len(p)
              /\ \A j \in 1 .. Len(wire) + Len(p) :
                   (wire \o p)[j] = IF j <= Len(wire) THEN wire[j] ELSE p[j - Len(wire)]
          BY <2>0, <3>1, ConcatProperties, Zenon
        <5> QED BY <3>1, <3>2, <5>1
      <4> QED BY SMTT(30), <2>0, <4>1
    <3>4. ASSUME NEW j \in 1 .. Len(wire')
          PROVE  Bit(wire'[j], 8) <=> (Len(wire') - j) % 3 = 2
      <4>1. CASE j <= Len(wire)
        <5>1. (Len(wire') - j) % 3 = (Len(wire) - j) % 3
          BY <2>0, <3>3
        <5>2. Bit(wire[j], 8) <=> (Len(wire) - j) % 3 = 2
          BY <2>0, <4>1 DEF StepInv
        <5> QED BY <2>0, <3>3, <4>1, <5>1, <5>2
      <4>2. CASE j > Len(wire)
        <5>1. j = Len(wire) + 1 \/ j = Len(wire) + 2 \/ j = Len(wire) + 3
          BY <2>0, <3>3, <4>2
        <5>2. \A n \in 1 .. 3 : j = Len(wire) + n =>
                wire'[j] = p[n] /\ (Len(wire') - j) % 3 = (3 - n) % 3
          BY <2>0, <3>3
        <5>3. Bit(p[1], 8) <=> (3 - 1) % 3 = 2
          BY <3>1
        <5>4. ~Bit(p[2], 8) /\ ~Bit(p[3], 8) /\ (3 - 2) % 3 # 2 /\ (3 - 3) % 3 # 2
          BY <3>1
        <5> QED BY <5>1, <5>2, <5>3, <5>4
      <4> QED BY <2>0, <4>1, <4>2
    <3> QED BY <2>0, <3>2, <3>3, <3>4 DEF StepInv, ComesRight
  <2>2. CASE Lose
    <3>1. wire # <<>> /\ wire' = Tail(wire) /\ since' = 0
          /\ mouse_packet_index' = mouse_packet_index
      BY <2>2 DEF Lose, driver
    <3> QED BY <2>0, <3>1, TailBits DEF StepInv
  <2>3. CASE MouseIrq
    <3>1. wire # <<>> /\ wire' = Tail(wire) /\ since' = since
      BY <2>3 DEF MouseIrq, SkipByte, TakeByte, TakePacket, Take, world
    <3>2. \/ mouse_packet_index = 0 /\ ~Bit(Head(wire), 8) /\ mouse_packet_index' = 0
          \/ mouse_packet_index = 0 /\ Bit(Head(wire), 8) /\ mouse_packet_index' = 1
          \/ mouse_packet_index = 1 /\ mouse_packet_index' = 2
          \/ mouse_packet_index = 2 /\ mouse_packet_index' = 0
      BY <2>0, <2>3 DEF MouseIrq, SkipByte, TakeByte, TakePacket
    <3>3. /\ wire' \in Seq(Byte) /\ Len(wire') = Len(wire) - 1 /\ Len(wire) \in Nat \ {0}
          /\ \A j \in 1 .. Len(wire') : Bit(wire'[j], 8) <=> (Len(wire') - j) % 3 = 2
          /\ Bit(Head(wire), 8) <=> Len(wire) % 3 = 0
      BY <3>1, TailBits
    <3>4. since >= 1 => InStep' \/ ComesRight'
      <4> SUFFICES ASSUME since >= 1 PROVE InStep' \/ ComesRight'
        OBVIOUS
      <4>1. CASE InStep
        BY <2>0, <3>2, <3>3, <4>1 DEF InStep
      <4>2. CASE ~InStep /\ Len(wire) > 3
        BY <3>3, <4>2 DEF ComesRight
      <4>3. CASE ~InStep /\ Len(wire) <= 3
        <5>1. ComesRight
          BY <4>3 DEF StepInv
        <5>2. Len(wire) \in {1, 2, 3}
          BY <3>3, <4>3
        <5> QED BY SMTT(30), <2>0, <3>2, <3>3, <4>3, <5>1, <5>2 DEF InStep, ComesRight
      <4> QED BY <2>0, <4>1, <4>2, <4>3
    <3> QED BY <2>0, <3>1, <3>2, <3>3, <3>4 DEF StepInv
  <2>4. CASE Call
    <3>1. /\ wire' = wire
          /\ \/ since' = 0 /\ mouse_packet_index' = 0
             \/ since' = since /\ mouse_packet_index' = mouse_packet_index
      BY <2>4 DEF Call, GetX, GetY, GetButtons, GetMotion, EnableMouse, driver, world
    <3> QED BY <2>0, <3>1 DEF StepInv, InStep, ComesRight
  <2>5. CASE UNCHANGED vars
    BY <2>5 DEF vars, driver, world, StepInv, InStep, ComesRight
  <2> QED BY <2>1, <2>2, <2>3, <2>4, <2>5 DEF Next
<1> QED BY <1>1, <1>2, PTL DEF Spec

\* Every coordinate that is loaded is one of a position the pointer had.
Loaded == \A a \in Axes : hl_de[a] \in {s[a] : s \in seen}
SeenInv ==
  /\ hl_de \in [Axes -> Words]
  /\ pc # "program" => mouse_pos \in seen /\ hl_de.x \in {s.x : s \in seen}
  /\ pc = "buttons" => Loaded

LEMMA SeenInvHolds == Spec => []SeenInv
<1>1. Init => SeenInv
  BY Sizes DEF Init, SeenInv, Origin, Words
<1>2. TypeOK /\ SeenInv /\ [Next]_vars => SeenInv'
  <2> SUFFICES ASSUME TypeOK, SeenInv, [Next]_vars PROVE SeenInv'
    OBVIOUS
  <2>1. CASE GetX
    <3>1. mouse_pos.x \in Words
      BY WindowType DEF Axes
    <3>2. hl_de' \in [Axes -> Words] /\ hl_de'.x = mouse_pos.x
      BY <2>1, <3>1 DEF GetX, SeenInv, Axes
    <3>3. mouse_pos' = mouse_pos /\ seen' = {mouse_pos} /\ pc' = "y"
      BY <2>1 DEF GetX, driver
    <3> QED BY <3>2, <3>3 DEF SeenInv
  <2>2. CASE GetY
    <3>1. mouse_pos.y \in Words
      BY WindowType DEF Axes
    <3>2. hl_de' \in [Axes -> Words] /\ hl_de'.x = hl_de.x /\ hl_de'.y = mouse_pos.y
      BY <2>2, <3>1 DEF GetY, SeenInv, Axes
    <3>3. mouse_pos' = mouse_pos /\ seen' = seen /\ pc' = "buttons"
      BY <2>2 DEF GetY, driver
    <3>4. mouse_pos \in seen /\ hl_de.x \in {s.x : s \in seen}
      BY <2>2 DEF GetY, SeenInv
    <3>5. Loaded'
      BY <3>2, <3>3, <3>4 DEF Loaded, Axes
    <3> QED BY <3>2, <3>3, <3>4, <3>5 DEF SeenInv
  <2>3. CASE TakePacket
    <3>1. hl_de' = hl_de /\ pc' = pc
      BY <2>3 DEF TakePacket, Take
    <3>2. pc # "program" => seen' = seen \cup {mouse_pos'}
      BY <2>3 DEF TakePacket
    <3> QED BY <3>1, <3>2 DEF SeenInv, Loaded
  <2>4. CASE GetButtons \/ GetMotion \/ \E w \in Windows : EnableMouse(w)
    <3>1. pc' = "program" /\ hl_de' = hl_de
      BY <2>4 DEF GetButtons, GetMotion, EnableMouse, caller
    <3> QED BY <3>1 DEF SeenInv
  <2>5. CASE SkipByte \/ TakeByte \/ Lose \/ UNCHANGED vars
             \/ \E d \in [Axes -> Moves], b \in Buttons : Move(d, b)
    <3>1. UNCHANGED <<pc, hl_de, seen, mouse_pos>>
      BY <2>5 DEF SkipByte, TakeByte, Take, MidPacket, Lose, Move, vars, driver, caller
    <3> QED BY <3>1 DEF SeenInv, Loaded
  <2> QED BY <2>1, <2>2, <2>3, <2>4, <2>5 DEF Next, MouseIrq, Call
<1> QED BY <1>1, <1>2, TypeCorrect, PTL DEF Spec

\* Lost bytes and calls of kjt_enable_mouse in the middle of a packet: when only the
\* first bytes of packets have bit 3, mouse_irq_code is in step again after one whole
\* packet; and kjt_get_mouse_position returns coordinates the pointer had.
THEOREM KeepsUp == ASSUME FirstsOnly PROVE Spec => []DriverKeepsUp
<1>1. StepInv => AlignsAgain
  BY EmptySeq DEF StepInv, AlignsAgain, InStep, ComesRight
<1>2. SeenInv => CoordinatesAreReal
  BY DEF SeenInv, Loaded, CoordinatesAreReal
<1>3. StepInv /\ SeenInv => DriverKeepsUp
  BY <1>1, <1>2 DEF DriverKeepsUp
<1> QED BY <1>3, StepInvHolds, SeenInvHolds, PTL

-----------------------------------------------------------------------------
(* The driver implements Pointer when no byte is lost.  What is left of    *)
(* the packets, as a sequence of bytes and as movements.                   *)
Bytes == [i \in 1 .. mouse_packet_index |-> mouse_packet[i - 1]] \o wire
MoveOf(p) == [d |-> [a \in Axes |-> Signed(Way(p)[a])], b |-> p[0] % 8]
Group(s, k) == [i \in 0 .. 2 |-> s[3 * k - 2 + i]]
Moving(s) == [k \in 1 .. Len(s) \div 3 |-> MoveOf(Group(s, k))]
MoveSet == [d : [Axes -> Int], b : 0 .. 7]

\* Only whole packets are left, and the motion a program was not told yet is small
\* enough for its sign in 16 bits.
Left == Len(Bytes) \div 3
WholeInv ==
  /\ lost = 0 /\ packets \in Nat /\ packets <= MaxPackets
  /\ Len(Bytes) % 3 = 0 /\ Left <= packets
  /\ \A k \in 1 .. Left : Bit(Bytes[3 * k - 2], 8)
  /\ \A a \in Axes : Signed(Motion[a]) <= 256 * (packets - Left)
                     /\ -(256 * (packets - Left)) <= Signed(Motion[a])

LEMMA BytesAssociate ==
  ASSUME NEW s \in Seq(Byte), NEW t \in Seq(Byte), NEW u \in Seq(Byte)
  PROVE  (s \o t) \o u = s \o (t \o u)
BY SMTT(30)

LEMMA ComingIs == Coming = Moving(Bytes) /\ Coming' = Moving(Bytes')
BY DEF Coming, Moving, Bytes, MoveOf, Group

LEMMA BytesHas ==
  ASSUME TypeOK
  PROVE  /\ Bytes \in Seq(Byte) /\ Len(Bytes) = mouse_packet_index + Len(wire)
         /\ Len(wire) \in Nat /\ mouse_packet_index \in 0 .. 2 /\ wire \in Seq(Byte)
         /\ \A j \in 1 .. mouse_packet_index : Bytes[j] = mouse_packet[j - 1]
         /\ \A j \in 1 .. Len(wire) : Bytes[mouse_packet_index + j] = wire[j]
<1> DEFINE had == [i \in 1 .. mouse_packet_index |-> mouse_packet[i - 1]]
<1>1. /\ wire \in Seq(Byte) /\ Len(wire) \in Nat /\ mouse_packet_index \in 0 .. 2
      /\ mouse_packet \in [0 .. 2 -> Byte]
  BY DEF TypeOK, Byte
<1>2. had \in Seq(Byte) /\ Len(had) = mouse_packet_index
  <2>1. \A i \in 1 .. mouse_packet_index : mouse_packet[i - 1] \in Byte
    BY <1>1
  <2> QED BY <1>1, <2>1
<1>3. \A j \in 1 .. mouse_packet_index : had[j] = mouse_packet[j - 1]
  OBVIOUS
<1>4. Bytes = had \o wire
  BY DEF Bytes
<1> HIDE DEF had
<1>5. /\ had \o wire \in Seq(Byte) /\ Len(had \o wire) = Len(had) + Len(wire)
      /\ \A j \in 1 .. Len(had) + Len(wire) :
           (had \o wire)[j] = IF j <= Len(had) THEN had[j] ELSE wire[j - Len(had)]
  BY <1>1, <1>2, ConcatProperties, Zenon
<1>6. \A j \in 1 .. mouse_packet_index + Len(wire) :
        Bytes[j] = IF j <= mouse_packet_index THEN had[j] ELSE wire[j - mouse_packet_index]
  BY <1>2, <1>4, <1>5
<1>7. \A j \in 1 .. Len(wire) : /\ mouse_packet_index + j \in 1 .. mouse_packet_index + Len(wire)
                              /\ ~(mouse_packet_index + j <= mouse_packet_index)
                              /\ (mouse_packet_index + j) - mouse_packet_index = j
  BY <1>1
<1>8. \A j \in 1 .. Len(wire) : Bytes[mouse_packet_index + j] = wire[j]
  BY <1>6, <1>7
<1>9. \A j \in 1 .. mouse_packet_index : Bytes[j] = mouse_packet[j - 1]
  <2>1. \A j \in 1 .. mouse_packet_index :
          j \in 1 .. mouse_packet_index + Len(wire) /\ j <= mouse_packet_index
    BY <1>1
  <2> QED BY <1>3, <1>6, <2>1
<1> QED BY <1>1, <1>2, <1>4, <1>5, <1>8, <1>9

LEMMA MoveOfType ==
  ASSUME NEW p \in [0 .. 2 -> Byte]
  PROVE  MoveOf(p) \in MoveSet
<1>1. \A a \in Axes : Signed(Way(p)[a]) \in Int
  BY WayType
<1>2. p[0] % 8 \in 0 .. 7
  <2>1. p[0] \in Byte
    OBVIOUS
  <2> QED BY <2>1 DEF Byte
<1> QED BY <1>1, <1>2 DEF MoveOf, MoveSet

LEMMA GroupType ==
  ASSUME NEW s \in Seq(Byte), NEW k \in Nat \ {0}, 3 * k <= Len(s)
  PROVE  Group(s, k) \in [0 .. 2 -> Byte]
<1>1. \A i \in 0 .. 2 : 3 * k - 2 + i \in 1 .. Len(s)
  OBVIOUS
<1>2. \A i \in 0 .. 2 : s[3 * k - 2 + i] \in Byte
  BY <1>1
<1> QED BY <1>2 DEF Group

LEMMA MovingHas ==
  ASSUME NEW s \in Seq(Byte)
  PROVE  /\ Moving(s) \in Seq(MoveSet) /\ Len(Moving(s)) = Len(s) \div 3
         /\ Len(s) \div 3 \in Nat
         /\ \A k \in 1 .. Len(s) \div 3 :
              Moving(s)[k] = MoveOf(Group(s, k)) /\ MoveOf(Group(s, k)) \in MoveSet
<1>1. Len(s) \in Nat /\ Len(s) \div 3 \in Nat
  OBVIOUS
<1>2. ASSUME NEW k \in 1 .. Len(s) \div 3
      PROVE  MoveOf(Group(s, k)) \in MoveSet
  <2>1. k \in Nat \ {0} /\ 3 * k <= Len(s)
    BY <1>1
  <2> QED BY <2>1, GroupType, MoveOfType
<1> QED BY <1>1, <1>2 DEF Moving

(* The packet of a movement is that movement again, its y axis turned.     *)
Turned(d) == [a \in Axes |-> IF a = "x" THEN d.x ELSE 0 - d.y]
PacketOf(d, b) == [i \in 0 .. 2 |-> Packet(d, b)[i + 1]]

LEMMA SignedByte ==
  ASSUME NEW n \in -256 .. 255
  PROVE  /\ Displacement(n % 256, n < 0) = IF n < 0 THEN n + Word ELSE n
         /\ Signed(Displacement(n % 256, n < 0)) = n
         /\ Signed(Sub(0, Displacement(n % 256, n < 0))) = 0 - n
         /\ Signed(Sub(0, n % Word)) = 0 - n
<1>1. Displacement(n % 256, n < 0) = IF n < 0 THEN n + Word ELSE n
  <2>1. CASE n < 0
    <3>1. n % 256 = n + 256
      BY <2>1
    <3> QED BY <2>1, <3>1, Sizes DEF Displacement
  <2>2. CASE n >= 0
    <3>1. n % 256 = n
      BY <2>2
    <3> QED BY <2>2, <3>1, Sizes DEF Displacement
  <2> QED BY <2>1, <2>2
<1>2. n % Word = IF n < 0 THEN n + Word ELSE n
  BY DEF Word
<1> DEFINE w == IF n < 0 THEN n + Word ELSE n
<1>3. Signed(w) = n /\ Signed(Sub(0, w)) = 0 - n
  BY Sizes DEF Signed, Sub
<1> QED BY <1>1, <1>2, <1>3

LEMMA FirstByte ==
  ASSUME NEW b \in 0 .. 7, NEW x \in {0, 16}, NEW y \in {0, 32}
  PROVE  /\ Bit(b + 8 + x + y, 8)
         /\ Bit(b + 8 + x + y, 16) <=> x = 16
         /\ Bit(b + 8 + x + y, 32) <=> y = 32
         /\ (b + 8 + x + y) % 8 = b
BY DEF Bit

LEMMA PacketIsMove ==
  ASSUME NEW d \in [Axes -> Moves], NEW b \in Buttons
  PROVE  /\ MoveOf(PacketOf(d, b)) = [d |-> Turned(d), b |-> b]
         /\ Bit(Packet(d, b)[1], 8) /\ Len(Packet(d, b)) = 3
         /\ Turned(d) \in [Axes -> {Signed(Sub(0, m % Word)) : m \in Moves} \cup Moves]
<1>1. /\ d.x \in Moves /\ d.y \in Moves /\ b \in 0 .. 7
      /\ d.x \in -256 .. 255 /\ d.y \in -256 .. 255
  BY ZenonT(30), MouseAssumption DEF Axes
<1> DEFINE p == PacketOf(d, b)
           h == b + 8 + Sign(d.x, 16) + Sign(d.y, 32)
<1>2. p[0] = h /\ p[1] = d.x % 256 /\ p[2] = d.y % 256
  BY DEF PacketOf, Packet
<1>3. /\ Bit(h, 8) /\ (Bit(h, 16) <=> d.x < 0) /\ (Bit(h, 32) <=> d.y < 0) /\ h % 8 = b
  <2>1. /\ Sign(d.x, 16) \in {0, 16} /\ (Sign(d.x, 16) = 16 <=> d.x < 0)
        /\ Sign(d.y, 32) \in {0, 32} /\ (Sign(d.y, 32) = 32 <=> d.y < 0)
    BY DEF Sign
  <2>2. b \in 0 .. 7
    BY <1>1
  <2> QED BY ONLY <2>1, <2>2, FirstByte, SMTT(30)
<1>4. Bit(h, 16) \in BOOLEAN /\ Bit(h, 32) \in BOOLEAN
  BY DEF Bit
<1> HIDE DEF h
<1> HIDE DEF p
<1>5. Bit(p[0], 16) = (d.x < 0) /\ Bit(p[0], 32) = (d.y < 0)
  BY <1>2, <1>3, <1>4
<1>6. Signed(Way(p)["x"]) = d.x
  <2>1. Way(p)["x"] = Displacement(p[1], Bit(p[0], 16))
    BY DEF Way, Axes
  <2>2. Way(p)["x"] = Displacement(d.x % 256, d.x < 0)
    BY <1>2, <1>5, <2>1
  <2>3. Signed(Displacement(d.x % 256, d.x < 0)) = d.x
    BY ONLY <1>1, SignedByte, Zenon
  <2> QED BY <2>2, <2>3
<1>7. Signed(Way(p)["y"]) = 0 - d.y
  <2>1. Way(p)["y"] = Sub(0, Displacement(p[2], Bit(p[0], 32)))
    BY DEF Way, Axes
  <2>2. Way(p)["y"] = Sub(0, Displacement(d.y % 256, d.y < 0))
    BY <1>2, <1>5, <2>1
  <2>3. Signed(Sub(0, Displacement(d.y % 256, d.y < 0))) = 0 - d.y
    BY ONLY <1>1, SignedByte, Zenon
  <2> QED BY <2>2, <2>3
<1>8. MoveOf(p) = [d |-> Turned(d), b |-> b]
  BY <1>2, <1>3, <1>6, <1>7 DEF MoveOf, Turned, Axes
<1>9. Bit(Packet(d, b)[1], 8) /\ Len(Packet(d, b)) = 3
  BY <1>3 DEF Packet, h
<1>10. 0 - d.y = Signed(Sub(0, d.y % Word))
  BY <1>1, SignedByte
<1>11. Turned(d) \in [Axes -> {Signed(Sub(0, m % Word)) : m \in Moves} \cup Moves]
  BY <1>1, <1>10 DEF Turned
<1> QED BY <1>8, <1>9, <1>11 DEF p

-----------------------------------------------------------------------------
(* The steps.                                                              *)
Undisturbed == MaxLost = 0 /\ ~EnableMidPacket /\ MaxPackets <= 127

LEMMA PointerInit == Init => WholeInv /\ Promise!Init
<1> SUFFICES ASSUME Init PROVE WholeInv /\ Promise!Init
  OBVIOUS
<1>1. Bytes = <<>> /\ Len(Bytes) = 0 /\ Left = 0
  BY DEF Init, Bytes, Left
<1>2. Coming = <<>>
  BY <1>1, ComingIs DEF Moving
<1>3. \A a \in Axes : Signed(Motion[a]) = 0 /\ Signed(told[a]) = 0
  BY Sizes DEF Init, Motion, Origin, Sub, Signed
<1>4. WholeInv
  BY <1>1, <1>3, MouseAssumption DEF Init, WholeInv
<1>5. Promise!Init
  BY <1>2, <1>3 DEF Init, Origin, Promise!Init, Promise!Still, Promise!Axes, Axes
<1> QED BY <1>4, <1>5

\* A movement of the mouse.
LEMMA MoveStep ==
  ASSUME TypeOK, WholeInv, NEW d \in [Axes -> Moves], NEW b \in Buttons, Move(d, b)
  PROVE  /\ WholeInv'
         /\ Promise!Move(Turned(d), b)
         /\ Turned(d) \in [Axes -> {Signed(Sub(0, m % Word)) : m \in Moves} \cup Moves]
<1> DEFINE p == Packet(d, b)
           n == Left
<1>1. /\ p \in Seq(Byte) /\ Len(p) = 3 /\ Bit(p[1], 8)
      /\ MoveOf(PacketOf(d, b)) = [d |-> Turned(d), b |-> b]
      /\ \A i \in 0 .. 2 : PacketOf(d, b)[i] = p[i + 1]
  BY PacketType, PacketIsMove DEF PacketOf
<1>2. /\ wire' = wire \o p /\ packets' = packets + 1 /\ packets < MaxPackets
      /\ UNCHANGED <<driver, caller, lost>>
  BY DEF Move
<1> HIDE DEF p
<1>3. Bytes \in Seq(Byte) /\ Len(Bytes) = 3 * n /\ n \in Nat
  <2>1. Bytes \in Seq(Byte) /\ Len(Bytes) \in Nat
    BY BytesHas
  <2> QED BY <2>1 DEF WholeInv, Left
<1>4. Bytes' = Bytes \o p /\ Bytes' \in Seq(Byte)
  <2> DEFINE had == [i \in 1 .. mouse_packet_index |-> mouse_packet[i - 1]]
  <2>1. had' = had /\ had \in Seq(Byte) /\ wire \in Seq(Byte)
    <3>1. had' = had /\ mouse_packet \in [0 .. 2 -> Byte] /\ mouse_packet_index \in 0 .. 2
      BY <1>2 DEF driver, TypeOK, Byte
    <3>2. \A j \in 1 .. mouse_packet_index : mouse_packet[j - 1] \in Byte
      BY <3>1
    <3>3. had \in Seq(Byte)
      BY <3>1, <3>2
    <3> QED BY <3>1, <3>3, BytesHas, Zenon
  <2>2. Bytes = had \o wire /\ Bytes' = had \o (wire \o p)
    BY <1>2, <2>1 DEF Bytes
  <2> HIDE DEF had
  <2>3. (had \o wire) \o p = had \o (wire \o p)
    BY <1>1, <2>1, BytesAssociate, Zenon
  <2>4. Bytes \o p \in Seq(Byte)
    BY <1>1, <1>3, ConcatProperties, Zenon
  <2> QED BY <2>2, <2>3, <2>4
<1>5. /\ Len(Bytes') = 3 * n + 3
      /\ \A j \in 1 .. 3 * n : Bytes'[j] = Bytes[j]
      /\ \A j \in 1 .. 3 : Bytes'[3 * n + j] = p[j]
  <2>1. /\ Len(Bytes \o p) = Len(Bytes) + Len(p)
        /\ \A j \in 1 .. Len(Bytes) + Len(p) :
             (Bytes \o p)[j] = IF j <= Len(Bytes) THEN Bytes[j] ELSE p[j - Len(Bytes)]
    BY <1>1, <1>3, ConcatProperties, Zenon
  <2> HIDE DEF n
  <2>2. \A j \in 1 .. 3 * n + 3 :
          Bytes'[j] = IF j <= 3 * n THEN Bytes[j] ELSE p[j - 3 * n]
    BY <1>1, <1>3, <1>4, <2>1
  <2>3. Len(Bytes') = 3 * n + 3
    BY <1>1, <1>3, <1>4, <2>1
  <2>4. \A j \in 1 .. 3 * n : j \in 1 .. 3 * n + 3 /\ j <= 3 * n
    BY <1>3
  <2>5. \A j \in 1 .. 3 : 3 * n + j \in 1 .. 3 * n + 3 /\ ~(3 * n + j <= 3 * n)
                           /\ (3 * n + j) - 3 * n = j
    BY <1>3
  <2> QED BY <2>2, <2>3, <2>4, <2>5
<1>6. Left' = n + 1
  BY <1>3, <1>5 DEF Left
<1> HIDE DEF n
<1>7. Coming' = Append(Coming, [d |-> Turned(d), b |-> b])
  <2>1. /\ Coming \in Seq(MoveSet) /\ Len(Coming) = n
        /\ \A k \in 1 .. n : Coming[k] = MoveOf(Group(Bytes, k))
    BY <1>3, MovingHas, ComingIs
  <2>2. /\ Coming' \in Seq(MoveSet) /\ Len(Coming') = n + 1
        /\ \A k \in 1 .. n + 1 : Coming'[k] = MoveOf(Group(Bytes', k))
                                 /\ MoveOf(Group(Bytes', k)) \in MoveSet
    <3>1. Len(Bytes') \div 3 = n + 1
      BY <1>3, <1>5
    <3>2. /\ Moving(Bytes') \in Seq(MoveSet) /\ Len(Moving(Bytes')) = Len(Bytes') \div 3
          /\ \A k \in 1 .. Len(Bytes') \div 3 :
               Moving(Bytes')[k] = MoveOf(Group(Bytes', k))
               /\ MoveOf(Group(Bytes', k)) \in MoveSet
      BY <1>4, MovingHas
    <3> QED BY <3>1, <3>2, ComingIs
  <2>3. ASSUME NEW k \in 1 .. n PROVE Coming'[k] = Coming[k]
    <3>1. \A i \in 0 .. 2 : Bytes'[3 * k - 2 + i] = Bytes[3 * k - 2 + i]
      <4>1. \A i \in 0 .. 2 : 3 * k - 2 + i \in 1 .. 3 * n
        BY <1>3
      <4> QED BY <1>5, <4>1
    <3>2. k \in 1 .. n + 1 /\ k \in Nat
      BY <1>3
    <3>3. Group(Bytes', k) = Group(Bytes, k)
      BY <3>1 DEF Group
    <3> QED BY <2>1, <2>2, <3>2, <3>3
  <2>4. Coming'[n + 1] = [d |-> Turned(d), b |-> b]
    <3>1. \A i \in 0 .. 2 : Bytes'[3 * (n + 1) - 2 + i] = p[i + 1]
      BY <1>3, <1>5
    <3>2. Group(Bytes', n + 1) = PacketOf(d, b)
      BY <3>1 DEF Group, PacketOf, p
    <3>3. n + 1 \in 1 .. n + 1
      BY <1>3
    <3> QED BY <1>1, <2>2, <3>2, <3>3
  <2>5. [d |-> Turned(d), b |-> b] \in MoveSet
    <3>1. n + 1 \in 1 .. n + 1
      BY <1>3
    <3> QED BY <2>2, <2>4, <3>1
  <2> DEFINE e == [d |-> Turned(d), b |-> b]
  <2>6. /\ Append(Coming, e) \in Seq(MoveSet) /\ Len(Append(Coming, e)) = n + 1
        /\ \A k \in 1 .. n : Append(Coming, e)[k] = Coming[k]
        /\ Append(Coming, e)[n + 1] = e
    BY <1>3, <2>1, <2>5, AppendProperties
  <2>7. \A k \in 1 .. n + 1 : Coming'[k] = Append(Coming, e)[k]
    BY <1>3, <2>3, <2>4, <2>6
  <2> HIDE DEF e
  <2>8. Coming' = Append(Coming, e)
    BY <2>2, <2>6, <2>7, SeqEqual
  <2> QED BY <2>8 DEF e
<1>8. UNCHANGED <<mouse_window_size, mouse_pos, Motion, mouse_buttons, told>>
  BY <1>2 DEF driver, caller, Motion
<1>9. Promise!Move(Turned(d), b)
  BY <1>7, <1>8 DEF Promise!Move
<1>10. WholeInv'
  <2>1. /\ lost' = 0 /\ packets' \in Nat /\ packets' <= MaxPackets /\ Left' <= packets'
        /\ packets' - Left' = packets - Left
    BY <1>2, <1>3, <1>6, MouseAssumption DEF WholeInv, n
  <2>2. Len(Bytes') % 3 = 0
    BY <1>3, <1>5
  <2>3. ASSUME NEW k \in 1 .. n + 1 PROVE Bit(Bytes'[3 * k - 2], 8)
    <3>1. CASE k = n + 1
      BY <1>1, <1>3, <1>5, <3>1
    <3>2. CASE k \in 1 .. n
      <4>1. 3 * k - 2 \in 1 .. 3 * n
        BY <1>3, <3>2
      <4> QED BY <1>5, <3>2, <4>1 DEF WholeInv, n
    <3> QED BY <1>3, <3>1, <3>2
  <2> QED BY <1>6, <1>8, <2>1, <2>2, <2>3 DEF WholeInv
<1> QED BY <1>9, <1>10, PacketIsMove

\* A byte of a packet, not the last: no movement is followed.
LEMMA ByteStep ==
  ASSUME TypeOK, WholeInv, TakeByte
  PROVE  WholeInv' /\ Coming' = Coming
<1>1. /\ wire # <<>> /\ wire' = Tail(wire) /\ mouse_packet_index < 2
      /\ mouse_packet' = [mouse_packet EXCEPT ![mouse_packet_index] = Head(wire)]
      /\ mouse_packet_index' = mouse_packet_index + 1
      /\ UNCHANGED <<Motion, lost, packets>>
  BY DEF TakeByte, Take, MidPacket, Motion, world
<1>2. /\ mouse_packet \in [0 .. 2 -> Byte] /\ mouse_packet_index \in 0 .. 2
      /\ wire \in Seq(Byte)
  BY DEF TypeOK, Byte
<1> DEFINE i == mouse_packet_index
           had == [j \in 1 .. mouse_packet_index |-> mouse_packet[j - 1]]
<1>3. had \in Seq(Byte) /\ Len(had) = i
  <2>1. \A j \in 1 .. i : mouse_packet[j - 1] \in Byte
    BY <1>2
  <2> QED BY <1>2, <2>1
<1>4. had' = Append(had, Head(wire))
  <2>1. had' = [j \in 1 .. i + 1 |-> IF j = i + 1 THEN Head(wire) ELSE mouse_packet[j - 1]]
    <3>1. \A j \in 1 .. i + 1 :
            mouse_packet'[j - 1] = IF j = i + 1 THEN Head(wire) ELSE mouse_packet[j - 1]
      BY <1>1, <1>2
    <3> QED BY <1>1, <3>1
  <2>2. Append(had, Head(wire)) =
          [j \in 1 .. i + 1 |-> IF j = i + 1 THEN Head(wire) ELSE had[j]]
    BY <1>2, <1>3
  <2>3. \A j \in 1 .. i : had[j] = mouse_packet[j - 1]
    OBVIOUS
  <2>4. \A j \in 1 .. i + 1 : j # i + 1 => j \in 1 .. i
    BY <1>2
  <2> HIDE DEF had
  <2> QED BY <2>1, <2>2, <2>3, <2>4
<1>5. Bytes' = Bytes
  <2>1. Bytes = had \o wire /\ Bytes' = had' \o Tail(wire)
    BY <1>1 DEF Bytes
  <2> HIDE DEF had
  <2>2. Head(wire) \in Byte /\ Tail(wire) \in Seq(Byte) /\ wire = <<Head(wire)>> \o Tail(wire)
    BY <1>1, <1>2, HeadTailProperties
  <2>3. Append(had, Head(wire)) = had \o <<Head(wire)>>
    BY <1>3, <2>2
  <2>4. <<Head(wire)>> \in Seq(Byte)
    BY <2>2
  <2>5. (had \o <<Head(wire)>>) \o Tail(wire) = had \o (<<Head(wire)>> \o Tail(wire))
    BY <1>3, <2>2, <2>4, ConcatAssociative
  <2> QED BY <1>4, <2>1, <2>2, <2>3, <2>5
<1>6. Coming' = Coming
  BY <1>5, ComingIs
<1> QED BY <1>1, <1>5, <1>6 DEF WholeInv, Left

(* The sum of displacements in 16 bits is the sum of the integers, as long *)
(* as it has a sign in 16 bits.                                            *)
LEMMA MotionAdds ==
  ASSUME NEW u \in Words, NEW v \in Words, NEW w \in Words,
         Signed(Sub(u, v)) + Signed(w) < Half, -Half < Signed(Sub(u, v)) + Signed(w)
  PROVE  Signed(Sub(Add(u, w), v)) = Signed(Sub(u, v)) + Signed(w)
BY Sizes DEF Signed, Sub, Add, Words

\* The last byte of a packet: the pointer follows the first movement that is left.
LEMMA FollowStep ==
  ASSUME Undisturbed, TypeOK, WholeInv, TakePacket
  PROVE  WholeInv' /\ Promise!Follow
<1> DEFINE n == Left
           w == Way(mouse_packet')
<1>1. /\ Take /\ wire # <<>> /\ wire' = Tail(wire)
      /\ mouse_packet' = [mouse_packet EXCEPT ![2] = Head(wire)]
      /\ mouse_packet_index = 2 /\ mouse_packet_index' = 0
      /\ mouse_buttons' = mouse_packet'[0] % 8
      /\ mouse_disp' = [a \in Axes |-> Add(mouse_disp[a], w[a])]
      /\ mouse_pos' = [a \in Axes |-> Clamp(Add(mouse_pos[a], w[a]), mouse_window_size[a])]
      /\ UNCHANGED <<mouse_window_size, old_mouse_disp, told, lost, packets>>
  BY DEF TakePacket, Take, world
<1>2. /\ w \in [Axes -> Words] /\ \A a \in Axes : Signed(w[a]) \in -256 .. 256
      /\ mouse_packet' \in [0 .. 2 -> Byte]
  BY <1>1, TakeType, WayType
<1> HIDE DEF w
<1>3. /\ wire \in Seq(Byte) /\ Len(wire) \in Nat \ {0} /\ Tail(wire) \in Seq(Byte)
      /\ Len(Tail(wire)) = Len(wire) - 1 /\ Head(wire) = wire[1]
      /\ \A j \in 1 .. Len(Tail(wire)) : Tail(wire)[j] = wire[j + 1]
  BY <1>1, BytesHas, WireTail
<1>4. /\ Bytes \in Seq(Byte) /\ Len(Bytes) = 2 + Len(wire)
      /\ Bytes[1] = mouse_packet[0] /\ Bytes[2] = mouse_packet[1]
      /\ \A j \in 1 .. Len(wire) : Bytes[2 + j] = wire[j]
  BY <1>1, BytesHas
<1>5. Bytes' = Tail(wire)
  <2>1. [i \in 1 .. mouse_packet_index' |-> mouse_packet'[i - 1]] = <<>>
    BY <1>1
  <2>2. Bytes' = <<>> \o Tail(wire)
    BY <1>1, <2>1 DEF Bytes
  <2>3. \A s \in Seq(Byte) : <<>> \o s = s
    BY ConcatEmptySeq
  <2> QED BY <1>3, <2>2, <2>3
<1>6. n \in Nat \ {0} /\ Len(Bytes) = 3 * n
  <2>1. Len(Bytes) % 3 = 0
    BY DEF WholeInv
  <2> QED BY <1>3, <1>4, <2>1 DEF Left
<1> HIDE DEF n
<1>7. /\ Bytes' \in Seq(Byte) /\ Len(Bytes') = 3 * (n - 1)
      /\ \A j \in 1 .. 3 * (n - 1) : Bytes'[j] = Bytes[j + 3]
  <2>1. Len(wire) - 1 = 3 * (n - 1)
    BY <1>4, <1>6
  <2>2. ASSUME NEW j \in 1 .. 3 * (n - 1) PROVE Bytes'[j] = Bytes[j + 3]
    <3>1. Bytes'[j] = wire[j + 1] /\ j + 1 \in 1 .. Len(wire)
      BY <1>3, <1>5, <1>6, <2>1
    <3>2. Bytes[2 + (j + 1)] = wire[j + 1]
      BY <1>4, <3>1
    <3>3. 2 + (j + 1) = j + 3
      BY <1>6
    <3> QED BY <3>1, <3>2, <3>3
  <2> QED BY <1>3, <1>5, <2>1, <2>2
<1>8. Left' = n - 1
  BY <1>6, <1>7 DEF Left
<1>9. Group(Bytes, 1) = mouse_packet'
  <2>1. mouse_packet \in [0 .. 2 -> Byte]
    BY DEF TypeOK, Byte
  <2>2. /\ mouse_packet'[0] = Bytes[1] /\ mouse_packet'[1] = Bytes[2]
        /\ mouse_packet'[2] = Bytes[3]
    <3>1. Bytes[3] = wire[1]
      BY <1>3, <1>4
    <3> QED BY <1>1, <1>3, <1>4, <2>1, <3>1
  <2>3. \A i \in 0 .. 2 : mouse_packet'[i] = Bytes[3 * 1 - 2 + i]
    BY <2>2
  <2> QED BY <1>2, <2>3 DEF Group
<1>10. /\ Coming # <<>> /\ Coming' = Tail(Coming)
       /\ Head(Coming) = [d |-> [a \in Axes |-> Signed(w[a])], b |-> mouse_packet'[0] % 8]
  <2>1. /\ Coming \in Seq(MoveSet) /\ Len(Coming) = n
        /\ \A k \in 1 .. n : Coming[k] = MoveOf(Group(Bytes, k))
    <3>1. Len(Bytes) \div 3 = n
      BY <1>6
    <3> QED BY <1>4, <3>1, MovingHas, ComingIs
  <2>2. /\ Coming' \in Seq(MoveSet) /\ Len(Coming') = n - 1
        /\ \A k \in 1 .. n - 1 : Coming'[k] = MoveOf(Group(Bytes', k))
    <3>1. Len(Bytes') \div 3 = n - 1
      BY <1>6, <1>7
    <3> QED BY <1>7, <3>1, MovingHas, ComingIs
  <2>3. Coming # <<>> /\ Head(Coming) = Coming[1]
    BY <1>6, <2>1
  <2>4. /\ Tail(Coming) \in Seq(MoveSet) /\ Len(Tail(Coming)) = n - 1
        /\ \A k \in 1 .. n - 1 : Tail(Coming)[k] = Coming[k + 1]
    BY <2>1, <2>3, HeadTailProperties
  <2>5. ASSUME NEW k \in 1 .. n - 1 PROVE Coming'[k] = Tail(Coming)[k]
    <3>1. \A i \in 0 .. 2 : Bytes'[3 * k - 2 + i] = Bytes[3 * (k + 1) - 2 + i]
      <4>1. ASSUME NEW i \in 0 .. 2
            PROVE  Bytes'[3 * k - 2 + i] = Bytes[3 * (k + 1) - 2 + i]
        <5>1. 3 * k - 2 + i \in 1 .. 3 * (n - 1)
              /\ (3 * k - 2 + i) + 3 = 3 * (k + 1) - 2 + i
          BY <1>6
        <5> QED BY <1>7, <5>1
      <4> QED BY <4>1
    <3>2. Group(Bytes', k) = Group(Bytes, k + 1)
      BY <3>1 DEF Group
    <3>3. k + 1 \in 1 .. n
      BY <1>6
    <3> QED BY <2>1, <2>2, <2>4, <3>2, <3>3
  <2>6. Coming' = Tail(Coming)
    BY <2>2, <2>4, <2>5, SeqEqual
  <2>7. Coming[1] = MoveOf(mouse_packet')
    BY <1>6, <1>9, <2>1
  <2> QED BY <2>3, <2>6, <2>7 DEF MoveOf, w
<1>11. ASSUME NEW a \in Axes
       PROVE  /\ mouse_pos'[a] = Promise!Within(mouse_pos[a] + Signed(w[a]), mouse_window_size[a])
              /\ Signed(Motion[a])' = Signed(Motion[a]) + Signed(w[a])
              /\ Signed(Motion[a])' <= 256 * (packets - (n - 1))
              /\ -(256 * (packets - (n - 1))) <= Signed(Motion[a])'
  <2>1. mouse_pos'[a] = Promise!Within(mouse_pos[a] + Signed(w[a]), mouse_window_size[a])
    <3>1. mouse_pos'[a] = Clamp(Add(mouse_pos[a], w[a]), mouse_window_size[a])
      BY <1>1
    <3>2. w[a] \in Words /\ Signed(w[a]) \in -256 .. 256
      BY <1>2
    <3> QED BY <3>1, <3>2, WindowType, ClampIsExact
  <2> DEFINE u == mouse_disp[a]
             v == old_mouse_disp[a]
             m == Signed(Motion[a])
             x == Signed(w[a])
  <2>2. u \in Words /\ v \in Words /\ w[a] \in Words /\ m = Signed(Sub(u, v))
    <3>1. u \in Words /\ v \in Words
      BY DEF TypeOK
    <3> QED BY <1>2, <3>1 DEF Motion
  <2>3. Signed(Motion[a])' = Signed(Sub(Add(u, w[a]), v))
    BY <1>1 DEF Motion
  <2>4. m <= 256 * (packets - n) /\ -(256 * (packets - n)) <= m
    BY DEF WholeInv, n
  <2>5. packets \in Nat /\ packets <= 127 /\ n <= packets
    BY MouseAssumption DEF WholeInv, Undisturbed, n
  <2>6. x \in Int /\ x <= 256 /\ -256 <= x
    BY <1>2
  <2>7. m \in Int
    <3>1. Sub(u, v) \in Words
      BY <2>2, WordArithmetic
    <3> QED BY <2>2, <3>1, Sizes DEF Signed, Words
  <2> HIDE DEF m, x, u, v
  <2>8. /\ m + x <= 256 * (packets - (n - 1)) /\ -(256 * (packets - (n - 1))) <= m + x
        /\ 256 * (packets - (n - 1)) <= 32512
    BY <1>6, <2>4, <2>5, <2>6, <2>7
  <2>9. m + x < Half /\ -Half < m + x
    BY <1>6, <2>5, <2>6, <2>7, <2>8 DEF Half
  <2>10. Signed(Sub(Add(u, w[a]), v)) = m + x
    BY <2>2, <2>9, MotionAdds DEF x
  <2>11. Signed(Motion[a])' = m + x
    BY <2>3, <2>10
  <2> QED BY <2>1, <2>8, <2>11 DEF m, x
<1>12. WholeInv'
  <2>1. /\ lost' = 0 /\ packets' = packets
        /\ packets \in Nat /\ packets <= MaxPackets /\ n <= packets
    BY <1>1 DEF WholeInv, n
  <2>2. Len(Bytes') % 3 = 0 /\ Left' <= packets'
    BY <1>6, <1>7, <1>8, <2>1
  <2>3. ASSUME NEW k \in 1 .. n - 1 PROVE Bit(Bytes'[3 * k - 2], 8)
    <3>1. 3 * k - 2 \in 1 .. 3 * (n - 1) /\ (3 * k - 2) + 3 = 3 * (k + 1) - 2
          /\ k + 1 \in 1 .. n
      BY <1>6
    <3>2. Bit(Bytes[3 * (k + 1) - 2], 8)
      BY <3>1 DEF WholeInv, n
    <3> QED BY <1>7, <3>1, <3>2
  <2> QED BY <1>8, <1>11, <2>1, <2>2, <2>3 DEF WholeInv
<1>13. Promise!Follow
  <2>1. mouse_pos' =
          [a \in Axes |-> Promise!Within(mouse_pos[a] + Signed(w[a]), mouse_window_size[a])]
    BY <1>1, <1>11
  <2>2. [a \in Axes |-> Signed(Motion[a])]' =
          [a \in Axes |-> Signed(Motion[a]) + Signed(w[a])]
    BY <1>11
  <2>3. [a \in Axes |-> Signed(told[a])]' = [a \in Axes |-> Signed(told[a])]
    BY <1>1
  <2>4. \A a \in Axes : Head(Coming).d[a] = Signed(w[a])
    BY <1>10
  <2> QED BY <1>1, <1>10, <2>1, <2>2, <2>3, <2>4 DEF Promise!Follow, Promise!Axes, Axes
<1> QED BY <1>12, <1>13

\* A program that enables the mouse, while nothing arrives.
LEMMA EnableStep ==
  ASSUME Undisturbed, TypeOK, WholeInv, NEW w \in Windows, EnableMouse(w)
  PROVE  WholeInv' /\ Promise!Enable(w)
<1>1. /\ wire = <<>> /\ wire' = <<>> /\ mouse_packet_index = 0 /\ mouse_packet_index' = 0
      /\ mouse_window_size' = w /\ mouse_pos' = Origin /\ mouse_buttons' = 0
      /\ mouse_disp' = Origin /\ old_mouse_disp' = Origin
      /\ UNCHANGED <<told, lost, packets>>
  BY DEF EnableMouse, Undisturbed, caller
<1>2. Bytes = <<>> /\ Bytes' = <<>> /\ Len(Bytes) = 0 /\ Left = 0 /\ Left' = 0
  BY <1>1 DEF Bytes, Left
<1>3. Coming' = Coming
  BY <1>2, ComingIs
<1>4. \A a \in Axes : Signed(Motion[a])' = 0 /\ Signed(told[a])' = Signed(told[a])
  BY <1>1, Sizes DEF Motion, Origin, Sub, Signed
<1>5. WholeInv'
  BY <1>1, <1>2, <1>4 DEF WholeInv
<1>6. Promise!Enable(w)
  BY <1>1, <1>3, <1>4 DEF Origin, Promise!Enable, Promise!Still, Promise!Axes, Axes
<1> QED BY <1>5, <1>6

\* A program that asks for the motion.
LEMMA TellStep ==
  ASSUME TypeOK, WholeInv, GetMotion
  PROVE  WholeInv' /\ Promise!Tell
<1>1. /\ told' = Motion /\ old_mouse_disp' = mouse_disp
      /\ UNCHANGED <<wire, mouse_packet, mouse_packet_index, mouse_buttons,
                     mouse_pos, mouse_disp, mouse_window_size, lost, packets>>
  BY DEF GetMotion, world
<1>2. Bytes' = Bytes /\ Left' = Left
  BY <1>1 DEF Bytes, Left
<1>3. Coming' = Coming
  BY <1>2, ComingIs
<1>4. ASSUME NEW a \in Axes
      PROVE  Signed(Motion[a])' = 0 /\ Signed(told[a])' = Signed(Motion[a])
  <2>1. mouse_disp[a] \in Words
    BY DEF TypeOK
  <2>2. Motion'[a] = Sub(mouse_disp[a], mouse_disp[a])
    BY <1>1 DEF Motion
  <2>3. Signed(Sub(mouse_disp[a], mouse_disp[a])) = 0
    BY <2>1, Sizes DEF Sub, Signed, Words
  <2> QED BY <1>1, <2>2, <2>3
<1>5. WholeInv'
  <2>1. Left \in Nat /\ packets \in Nat /\ Left <= packets
    BY BytesHas DEF WholeInv, Left
  <2> QED BY SMTT(30), <1>1, <1>2, <1>4, <2>1 DEF WholeInv
<1>6. Promise!Tell
  BY <1>1, <1>3, <1>4 DEF Promise!Tell, Promise!Still, Promise!Axes, Axes
<1> QED BY <1>5, <1>6

\* No byte is skipped: the byte at the place of a first one is a first one.
LEMMA NothingSkipped ==
  ASSUME TypeOK, WholeInv
  PROVE  ~SkipByte
<1> SUFFICES ASSUME SkipByte PROVE FALSE
  OBVIOUS
<1>1. wire # <<>> /\ mouse_packet_index = 0 /\ ~Bit(Head(wire), 8)
  BY DEF SkipByte, Take
<1>2. Len(wire) \in Nat \ {0} /\ Head(wire) = wire[1]
  BY <1>1, BytesHas, WireTail
<1>3. Len(Bytes) = Len(wire) /\ Bytes[1] = wire[1]
  BY <1>1, <1>2, BytesHas
<1>4. Len(Bytes) % 3 = 0
  BY DEF WholeInv
<1>5. 1 \in 1 .. Left /\ 3 * 1 - 2 = 1
  BY <1>2, <1>3, <1>4 DEF Left
<1>6. Bit(Bytes[1], 8)
  BY <1>5 DEF WholeInv
<1> QED BY <1>1, <1>2, <1>3, <1>6

LEMMA PointerStep ==
  ASSUME Undisturbed
  PROVE  TypeOK /\ WholeInv /\ [Next]_vars
           => WholeInv' /\ [Promise!Next]_(Promise!pvars)
<1> SUFFICES ASSUME TypeOK, WholeInv, [Next]_vars
             PROVE  WholeInv' /\ [Promise!Next]_(Promise!pvars)
  OBVIOUS
<1>1. ASSUME NEW d \in [Axes -> Moves], NEW b \in Buttons, Move(d, b)
      PROVE  WholeInv' /\ Promise!Next
  BY <1>1, MoveStep DEF Promise!Next, Promise!Axes, Axes
<1>2. CASE Lose
  BY <1>2 DEF Lose, Undisturbed, WholeInv
<1>3. CASE SkipByte
  BY <1>3, NothingSkipped
<1>4. CASE TakeByte
  <2>1. UNCHANGED <<mouse_window_size, mouse_pos, mouse_buttons, mouse_disp,
                    old_mouse_disp, told>>
    BY <1>4 DEF TakeByte, Take, MidPacket
  <2>2. WholeInv' /\ Coming' = Coming
    BY <1>4, ByteStep
  <2> QED BY <2>1, <2>2 DEF Promise!pvars, Motion
<1>5. CASE TakePacket
  BY <1>5, FollowStep DEF Promise!Next
<1>6. ASSUME NEW w \in Windows, EnableMouse(w)
      PROVE  WholeInv' /\ Promise!Next
  BY <1>6, EnableStep DEF Promise!Next
<1>7. CASE GetMotion
  BY <1>7, TellStep DEF Promise!Next
<1>8. CASE GetX \/ GetY \/ GetButtons \/ UNCHANGED vars
  <2>1. UNCHANGED <<wire, driver, told, lost, packets>>
    BY <1>8 DEF GetX, GetY, GetButtons, vars, caller, world
  <2>2. /\ UNCHANGED <<mouse_window_size, mouse_pos, mouse_buttons, mouse_disp,
                    old_mouse_disp, told>>
        /\ Bytes' = Bytes /\ Left' = Left /\ Motion' = Motion
    BY <2>1 DEF driver, Bytes, Left, Motion
  <2>3. Coming' = Coming
    BY <2>2, ComingIs
  <2> QED BY <2>1, <2>2, <2>3 DEF Promise!pvars, WholeInv
<1> QED BY <1>1, <1>2, <1>3, <1>4, <1>5, <1>6, <1>7, <1>8 DEF Next, MouseIrq, Call

\* When no byte is lost, the mouse is enabled while nothing arrives, and it sends so few
\* packets that the motion fits 16 bits, mouse_irq_code and the kernal calls implement
\* Pointer: the pointer follows every movement, whole and in order, the motion that is
\* told adds up, and a step of the driver in between changes nothing a program sees.
THEOREM FollowsTheMouse == ASSUME Undisturbed PROVE Spec => PointerFollowsMouse
BY PointerInit, PointerStep, TypeCorrect, PTL DEF Spec, PointerFollowsMouse, Promise!Spec
=============================================================================
