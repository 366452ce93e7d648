--------------------------- MODULE KeyboardProofs ---------------------------
(***************************************************************************)
(* The keyboard module holds its types; a read never sees half of one      *)
(* press and half of another; the ring with its two indexes is the queue   *)
(* of KeyQueue; and the flags of the qualifier keys follow the keys.  All  *)
(* for every keyboard, every ring size and any length of typing; the two   *)
(* about reads provided at most one press is stored while a read is in     *)
(* progress, the one about flags provided no two keys share the scancode   *)
(* of a qualifier.                                                         *)
(***************************************************************************)
EXTENDS Keyboard, SequenceTheorems, TLAPS

LEMMA NextSlot ==
  ASSUME NEW i \in Slots
  PROVE  (i + 1) % Size \in Slots
BY KeyboardAssumption DEF Slots

(* What keeps ReadIsOnePress true: the slot a read began on is behind the  *)
(* write index until the first press is stored.                            *)
ReadAhead ==
  Reading => /\ irqs <= IrqsPerRead
             /\ irqs = 0 => key_buf_rd_idx # key_buf_wr_idx

IInv == TypeOK /\ ReadAhead /\ ReadIsOnePress

-----------------------------------------------------------------------------
LEMMA InitIInv == Init => IInv
<1> SUFFICES ASSUME Init PROVE IInv
  OBVIOUS
<1> USE KeyboardAssumption
<1>1. /\ 0 \in Slots
      /\ [i \in Slots |-> NoKey] \in [Slots -> Scancodes \cup {NoKey}]
      /\ [i \in Slots |-> {}] \in [Slots -> SUBSET QualCodes]
  BY DEF Slots
<1>2. 0 \in 0 .. MaxPresses /\ 0 \in 0 .. Frames /\ <<>> \in Seq(Bytes)
  OBVIOUS
<1>3. TypeOK
  BY <1>1, <1>2 DEF Init, TypeOK, NoPress
<1>4. ReadAhead /\ ReadIsOnePress
  BY DEF Init, ReadAhead, ReadIsOnePress, Reading
<1> QED BY <1>3, <1>4 DEF IInv

-----------------------------------------------------------------------------
(* The keyboard only adds bytes to the wire.                               *)
LEMMA TypingStep == TypeOK /\ Typing => TypeOK'
<1> SUFFICES ASSUME TypeOK, NEW k \in Keys, Press(k) \/ Release(k)
             PROVE  TypeOK'
  BY DEF Typing
<1> USE KeyboardAssumption
<1>1. Code[k] \in Bytes /\ E0 \in Bytes /\ F0 \in Bytes
  BY DEF Bytes, Scancodes
<1>2. Prefix(k) \in Seq(Bytes)
  BY <1>1 DEF Prefix
<1>3. wire' \in Seq(Bytes)
  <2> wire \in Seq(Bytes)
    BY DEF TypeOK
  <2>1. Prefix(k) \o <<Code[k]>> \in Seq(Bytes) /\ Prefix(k) \o <<F0, Code[k]>> \in Seq(Bytes)
    BY <1>1, <1>2
  <2>2. \E bytes \in Seq(Bytes) : wire' = wire \o bytes
    <3>1. CASE Press(k)
      <4>1. wire' = wire \o (Prefix(k) \o <<Code[k]>>)
        BY <3>1 DEF Press, Send
      <4> QED BY <2>1, <4>1
    <3>2. CASE Release(k)
      <4>1. wire' = wire \o (Prefix(k) \o <<F0, Code[k]>>)
        BY <3>2 DEF Release, Send
      <4> QED BY <2>1, <4>1
    <3> QED BY <3>1, <3>2
  <2> QED BY <2>2
<1>4. held' \subseteq Keys /\ presses' \in 0 .. MaxPresses
  BY DEF TypeOK, Press, Release
<1> QED
  BY <1>3, <1>4 DEF TypeOK, Press, Release, decoder, ring, reader

(* The interrupt routine.                                                  *)
LEMMA InterruptStep == TypeOK /\ Interrupt => TypeOK'
<1> SUFFICES ASSUME TypeOK, Interrupt PROVE TypeOK'
  OBVIOUS
<1> USE KeyboardAssumption
<1>1. ASSUME NEW b, Irq(b) PROVE wire' \in Seq(Bytes)
  BY <1>1 DEF Irq, TypeOK
<1>2. CASE IgnorePrefix
  BY <1>1, <1>2 DEF IgnorePrefix, TypeOK, Irq, decoder, ring, reader
<1>3. CASE ReleaseToken
  BY <1>1, <1>3 DEF ReleaseToken, TypeOK, Irq, ring, reader
<1>4. CASE ReleaseCode
  BY <1>1, <1>4 DEF ReleaseCode, TypeOK, Irq, ring, reader
<1>5. CASE PressCode
  <2> PICK b \in Scancodes :
        /\ Irq(b)
        /\ key_mod_flags' = key_mod_flags \cup ({b} \cap QualCodes)
        /\ scancode_buffer' = [scancode_buffer EXCEPT ![key_buf_wr_idx] = b]
    BY <1>5 DEF PressCode
  <2>1. key_mod_flags' \subseteq QualCodes
    BY DEF TypeOK
  <2>2. /\ scancode_buffer' \in [Slots -> Scancodes \cup {NoKey}]
        /\ qualifier_buffer' \in [Slots -> SUBSET QualCodes]
    BY <1>5, <2>1 DEF PressCode, TypeOK
  <2>3. key_buf_wr_idx' \in Slots /\ irqs' \in Nat
    BY <1>5, NextSlot DEF PressCode, TypeOK
  <2> QED
    BY <1>1, <1>5, <2>1, <2>2, <2>3 DEF PressCode, TypeOK, Irq
<1> QED BY <1>2, <1>3, <1>4, <1>5 DEF Interrupt

(* The main program.                                                       *)
LEMMA ProgramStep ==
  TypeOK /\ (GetNothing \/ BeginRead \/ ReadStep \/ Clear) => TypeOK'
<1> SUFFICES ASSUME TypeOK, GetNothing \/ BeginRead \/ ReadStep \/ Clear
             PROVE  TypeOK'
  OBVIOUS
<1> USE KeyboardAssumption DEF hardware, decoder, ring
<1>1. CASE GetNothing
  BY <1>1 DEF GetNothing, NoPress, TypeOK
<1>2. CASE BeginRead
  BY <1>2 DEF BeginRead, TypeOK
<1>3. CASE ReadScancode
  BY <1>3 DEF ReadScancode, TypeOK
<1>4. CASE ReadQualifiers
  BY <1>4 DEF ReadQualifiers, TypeOK
<1>5. CASE ClearBegin
  <2>1. 0 \in Slots /\ Frames \in 0 .. Frames
    BY DEF Slots
  <2> QED BY <1>5, <2>1 DEF ClearBegin, TypeOK
<1>6. CASE ClearDiscard
  <2>1. wire' \in Seq(Bytes)
    BY <1>6 DEF ClearDiscard, TypeOK
  <2>2. frames' \in 0 .. Frames
    BY <1>6 DEF ClearDiscard, TypeOK
  <2> QED BY <1>6, <2>1, <2>2 DEF ClearDiscard, TypeOK
<1>7. CASE ClearEnd
  BY <1>7 DEF ClearEnd, TypeOK
<1>8. CASE Advance
  BY <1>8, NextSlot DEF Advance, TypeOK
<1> QED BY <1>1, <1>2, <1>3, <1>4, <1>5, <1>6, <1>7, <1>8 DEF ReadStep, Clear

-----------------------------------------------------------------------------
LEMMA TypeStep == TypeOK /\ [Next]_vars => TypeOK'
<1>1. TypeOK /\ UNCHANGED vars => TypeOK'
  BY DEF TypeOK, vars, hardware, decoder, ring, reader
<1> QED
  BY <1>1, TypingStep, InterruptStep, ProgramStep DEF Next

(* The contents of every variable, for every keyboard and ring size.       *)
THEOREM TypeCorrect == Spec => []TypeOK
<1>1. Init => TypeOK
  BY InitIInv DEF IInv
<1> QED BY <1>1, TypeStep, PTL DEF Spec

-----------------------------------------------------------------------------
(* A press is stored outside the slot being read as long as it is the      *)
(* first since the read began.                                             *)
LEMMA ReadStepInvariant ==
  ASSUME IrqsPerRead <= 1
  PROVE  IInv /\ [Next]_vars => IInv'
<1> SUFFICES ASSUME IInv, [Next]_vars PROVE IInv'
  OBVIOUS
<1> USE KeyboardAssumption
<1>1. TypeOK /\ TypeOK'
  BY TypeStep DEF IInv
<1>2. ReadAhead /\ ReadIsOnePress
  BY DEF IInv
<1>3. ReadAhead' /\ ReadIsOnePress'
  <2>1. CASE PressCode
    <3>1. /\ pc' = pc /\ key_buf_rd_idx' = key_buf_rd_idx
          /\ scancode' = scancode /\ qualifiers' = qualifiers
      BY <2>1 DEF PressCode
    <3>2. Reading => irqs = 0 /\ irqs' = 1 /\ IrqsPerRead = 1
      BY <1>1, <1>2, <2>1 DEF PressCode, ReadAhead, TypeOK
    <3>3. Reading => key_buf_rd_idx # key_buf_wr_idx
      BY <1>2, <3>2 DEF ReadAhead
    <3>4. ReadAhead'
      BY <3>1, <3>2 DEF ReadAhead, Reading
    <3>5. Reading => /\ scancode_buffer'[key_buf_rd_idx] = scancode_buffer[key_buf_rd_idx]
                     /\ qualifier_buffer'[key_buf_rd_idx] = qualifier_buffer[key_buf_rd_idx]
      BY <1>1, <2>1, <3>3 DEF PressCode, TypeOK
    <3>6. ReadIsOnePress'
      BY <1>2, <3>1, <3>5 DEF ReadIsOnePress, Reading
    <3> QED BY <3>4, <3>6
  <2>2. CASE BeginRead
    BY <2>2, <1>1 DEF BeginRead, ReadAhead, ReadIsOnePress, Reading, ring
  <2>3. CASE ReadScancode
    BY <1>2, <2>3 DEF ReadScancode, ReadAhead, ReadIsOnePress, Reading, ring
  <2>4. CASE ReadQualifiers
    BY <1>2, <2>4 DEF ReadQualifiers, ReadAhead, ReadIsOnePress, Reading, ring
  <2>5. CASE Advance \/ ClearBegin \/ ClearEnd
    BY <2>5 DEF Advance, ClearBegin, ClearEnd, ReadAhead, ReadIsOnePress, Reading
  <2>6. ASSUME UNCHANGED <<ring, pc, scancode, qualifiers, irqs>>
        PROVE  ReadAhead' /\ ReadIsOnePress'
    BY <1>2, <2>6 DEF ReadAhead, ReadIsOnePress, Reading, ring
  <2>7. CASE \/ Typing \/ IgnorePrefix \/ ReleaseToken \/ ReleaseCode
             \/ GetNothing \/ ClearDiscard \/ UNCHANGED vars
    BY <2>6, <2>7 DEF Typing, Press, Release, IgnorePrefix, ReleaseToken,
         ReleaseCode, GetNothing, ClearDiscard, vars, reader
  <2> QED
    BY <2>1, <2>2, <2>3, <2>4, <2>5, <2>7 DEF Next, Interrupt, ReadStep, Clear
<1> QED BY <1>1, <1>3 DEF IInv

(* The two bytes a read takes out of the ring with interrupts on belong to *)
(* one press, whatever the size of the ring and however it overflows, as   *)
(* long as at most one press arrives while the read runs.                  *)
THEOREM ReadsAreWhole ==
  ASSUME IrqsPerRead <= 1
  PROVE  Spec => []ReadIsOnePress
<1>1. IInv => ReadIsOnePress
  BY DEF IInv
<1> QED BY <1>1, InitIInv, ReadStepInvariant, PTL DEF Spec

-----------------------------------------------------------------------------
(* The arithmetic of the ring: an index that was below 2 Size is reduced   *)
(* by at most one turn, and Distance slots lead from the read index to     *)
(* the write index.                                                        *)
Distance(r, w) == (w + Size - r) % Size

LEMMA OneTurn ==
  ASSUME NEW a \in Nat, a < 2 * Size
  PROVE  a % Size = IF a < Size THEN a ELSE a - Size
<1>1. Size \in Nat /\ Size > 1
  BY KeyboardAssumption
<1>2. CASE a < Size
  BY <1>1, <1>2
<1>3. CASE ~(a < Size)
  BY <1>1, <1>3
<1> QED BY <1>2, <1>3

LEMMA DistanceIs ==
  ASSUME NEW r \in Slots, NEW w \in Slots
  PROVE  /\ Distance(r, w) = IF r <= w THEN w - r ELSE w + Size - r
         /\ Distance(r, w) \in 0 .. Size - 1
         /\ Distance(r, w) = 0 <=> r = w
<1>1. /\ Size \in Nat /\ Size > 1 /\ r \in Nat /\ w \in Nat /\ r < Size /\ w < Size
      /\ w + Size - r \in Nat /\ w + Size - r < 2 * Size
  BY KeyboardAssumption DEF Slots
<1>2. (w + Size - r) % Size = IF w + Size - r < Size THEN w + Size - r ELSE (w + Size - r) - Size
  BY <1>1, OneTurn
<1> QED BY <1>1, <1>2 DEF Distance

\* The slot i places behind a slot.
Slot(r, i) == (r + i) % Size

LEMMA SlotIs ==
  ASSUME NEW r \in Slots, NEW i \in 0 .. Size
  PROVE  /\ Slot(r, i) = IF r + i < Size THEN r + i ELSE r + i - Size
         /\ Slot(r, i) \in Slots
<1>1. /\ Size \in Nat /\ Size > 1 /\ r \in Nat /\ r < Size /\ i \in Nat /\ i <= Size
      /\ r + i \in Nat /\ r + i < 2 * Size
  BY KeyboardAssumption DEF Slots
<1>2. (r + i) % Size = IF r + i < Size THEN r + i ELSE r + i - Size
  BY <1>1, OneTurn
<1> QED BY <1>1, <1>2 DEF Slot, Slots

\* What is stored goes behind what is waiting, and over none of it.
LEMMA StoreBehind ==
  ASSUME NEW r \in Slots, NEW w \in Slots
  PROVE  /\ Slot(r, Distance(r, w)) = w
         /\ \A i \in 0 .. Distance(r, w) - 1 : Slot(r, i) # w
         /\ Distance(r, Slot(w, 1)) = IF Distance(r, w) = Size - 1 THEN 0 ELSE Distance(r, w) + 1
<1>1. /\ Size \in Nat /\ Size > 1 /\ r \in Nat /\ w \in Nat /\ r < Size /\ w < Size
      /\ 1 \in 0 .. Size
  BY KeyboardAssumption DEF Slots
<1>2. /\ Distance(r, w) = IF r <= w THEN w - r ELSE w + Size - r
      /\ Distance(r, w) \in 0 .. Size - 1
  BY DistanceIs
<1>3. Slot(r, Distance(r, w)) = w
  BY <1>1, <1>2, SlotIs
<1>4. ASSUME NEW i \in 0 .. Distance(r, w) - 1
      PROVE  Slot(r, i) # w
  <2>1. i \in 0 .. Size /\ i < Distance(r, w)
    BY <1>1, <1>2
  <2> QED BY <1>1, <1>2, <2>1, SlotIs
<1>5. Slot(w, 1) \in Slots /\ Slot(w, 1) = IF w + 1 < Size THEN w + 1 ELSE 0
  BY <1>1, SlotIs
<1>6. Distance(r, Slot(w, 1)) = IF r <= Slot(w, 1) THEN Slot(w, 1) - r ELSE Slot(w, 1) + Size - r
  BY <1>5, DistanceIs
<1>7. Distance(r, Slot(w, 1)) = IF Distance(r, w) = Size - 1 THEN 0 ELSE Distance(r, w) + 1
  BY <1>1, <1>2, <1>5, <1>6
<1> QED BY <1>3, <1>4, <1>7

\* A slot given back is the first, and all others come one place nearer.
LEMMA GiveBack ==
  ASSUME NEW r \in Slots, NEW w \in Slots
  PROVE  /\ Slot(r, 0) = r
         /\ \A i \in 0 .. Size - 1 : Slot(Slot(r, 1), i) = Slot(r, i + 1)
         /\ Distance(Slot(r, 1), w) = IF r = w THEN Size - 1 ELSE Distance(r, w) - 1
<1>1. /\ Size \in Nat /\ Size > 1 /\ r \in Nat /\ w \in Nat /\ r < Size /\ w < Size
      /\ 1 \in 0 .. Size /\ 0 \in 0 .. Size
  BY KeyboardAssumption DEF Slots
<1>2. Slot(r, 1) \in Slots /\ Slot(r, 1) = IF r + 1 < Size THEN r + 1 ELSE 0
  BY <1>1, SlotIs
<1>3. Slot(r, 0) = r
  BY <1>1, SlotIs
<1>4. ASSUME NEW i \in 0 .. Size - 1
      PROVE  Slot(Slot(r, 1), i) = Slot(r, i + 1)
  <2>1. i \in 0 .. Size /\ i + 1 \in 0 .. Size
    BY <1>1
  <2>2. Slot(r, i + 1) = IF r + i + 1 < Size THEN r + i + 1 ELSE r + i + 1 - Size
    BY <1>1, <2>1, SlotIs
  <2>3. Slot(Slot(r, 1), i) = IF Slot(r, 1) + i < Size THEN Slot(r, 1) + i ELSE Slot(r, 1) + i - Size
    BY <1>2, <2>1, SlotIs
  <2> QED BY <1>1, <1>2, <2>1, <2>2, <2>3
<1>5. Distance(Slot(r, 1), w) = IF r = w THEN Size - 1 ELSE Distance(r, w) - 1
  <2>1. Distance(r, w) = IF r <= w THEN w - r ELSE w + Size - r
    BY DistanceIs
  <2>2. Distance(Slot(r, 1), w) = IF Slot(r, 1) <= w THEN w - Slot(r, 1) ELSE w + Size - Slot(r, 1)
    BY <1>2, DistanceIs
  <2> QED BY <1>1, <1>2, <2>1, <2>2
<1> QED BY <1>3, <1>4, <1>5

-----------------------------------------------------------------------------
(* What is waiting, as a sequence of presses.                              *)
Presses == [code : Scancodes \cup {NoKey}, mods : SUBSET QualCodes]
PressAt(slot) == [code |-> scancode_buffer[slot], mods |-> qualifier_buffer[slot]]

WaitingIsTheRing ==
  /\ Waiting \in Seq(Presses)
  /\ Len(Waiting) = Unread
  /\ \A i \in 1 .. Unread : Waiting[i] = PressAt(Slot(key_buf_rd_idx, i - 1))

LEMMA UnreadIs ==
  ASSUME TypeOK
  PROVE  /\ Unread \in 0 .. Size
         /\ Unread = IF Reading /\ key_buf_rd_idx = key_buf_wr_idx THEN Size
                     ELSE Distance(key_buf_rd_idx, key_buf_wr_idx)
<1>1. key_buf_rd_idx \in Slots /\ key_buf_wr_idx \in Slots /\ Size \in Nat
  BY KeyboardAssumption DEF TypeOK
<1>2. Distance(key_buf_rd_idx, key_buf_wr_idx) \in 0 .. Size - 1
  BY <1>1, DistanceIs
<1>3. Unread = IF Reading /\ key_buf_rd_idx = key_buf_wr_idx THEN Size
               ELSE Distance(key_buf_rd_idx, key_buf_wr_idx)
  BY DEF Unread, Distance
<1> QED BY <1>1, <1>2, <1>3

LEMMA WaitingIs == TypeOK => WaitingIsTheRing
<1> SUFFICES ASSUME TypeOK PROVE WaitingIsTheRing
  OBVIOUS
<1>1. Unread \in Nat /\ Unread \in 0 .. Size /\ Size \in Nat /\ key_buf_rd_idx \in Slots
  BY UnreadIs, KeyboardAssumption DEF TypeOK
<1>2. Waiting = [i \in 1 .. Unread |-> PressAt(Slot(key_buf_rd_idx, i - 1))]
  <2>1. \A i \in 1 .. Unread : key_buf_rd_idx + i - 1 = key_buf_rd_idx + (i - 1)
    BY <1>1 DEF Slots
  <2> QED BY <2>1 DEF Waiting, PressAt, Slot
<1>3. \A i \in 1 .. Unread : PressAt(Slot(key_buf_rd_idx, i - 1)) \in Presses
  <2> SUFFICES ASSUME NEW i \in 1 .. Unread
               PROVE  PressAt(Slot(key_buf_rd_idx, i - 1)) \in Presses
    OBVIOUS
  <2>1. Slot(key_buf_rd_idx, i - 1) \in Slots
    BY <1>1, SlotIs
  <2> QED BY <2>1 DEF TypeOK, PressAt, Presses
<1>4. Waiting \in [1 .. Unread -> Presses]
  BY <1>2, <1>3
<1>5. Waiting \in Seq(Presses)
  BY <1>1, <1>4
<1>6. Len(Waiting) = Unread
  BY <1>1, <1>4, <1>5
<1> QED BY <1>2, <1>5, <1>6 DEF WaitingIsTheRing


\* One press goes behind the others, or the ring was full but one and is empty.
LEMMA PressStores ==
  ASSUME IrqsPerRead <= 1, IInv, TypeOK', PressCode
  PROVE  \/ \E e \in Entry : Queue!Store(e)
         \/ Queue!WipeOut
<1> DEFINE r == key_buf_rd_idx
           w == key_buf_wr_idx
           u == Unread
<1>1. TypeOK /\ r \in Slots /\ w \in Slots /\ Size \in Nat /\ Size > 1 /\ IrqsPerRead \in Nat
  BY KeyboardAssumption DEF IInv, TypeOK
<1>2. PICK b \in Scancodes : scancode_buffer' = [scancode_buffer EXCEPT ![w] = b]
  BY DEF PressCode
<1>3. /\ r' = r /\ w' = Slot(w, 1) /\ pc' = pc /\ got' = got
      /\ qualifier_buffer' = [qualifier_buffer EXCEPT ![w] = key_mod_flags']
  BY DEF PressCode, Slot
<1> DEFINE e == [code |-> b, mods |-> key_mod_flags']
<1>4. e \in Entry
  BY DEF TypeOK, Entry
<1>5. Reading => r # w
  BY <1>1 DEF IInv, ReadAhead, PressCode, TypeOK
<1>6. u = Distance(r, w) /\ u \in 0 .. Size - 1
  BY <1>1, <1>5, UnreadIs, DistanceIs
<1>7. WaitingIsTheRing /\ WaitingIsTheRing'
  BY <1>1, WaitingIs, PTL
<1>8. Unread' = IF Reading /\ r = Slot(w, 1) THEN Size ELSE Distance(r, Slot(w, 1))
  BY <1>3 DEF Unread, Distance, Reading
<1>9. Distance(r, Slot(w, 1)) = (IF u = Size - 1 THEN 0 ELSE u + 1) /\ Slot(w, 1) \in Slots
  <2>1. Distance(r, Slot(w, 1)) = IF Distance(r, w) = Size - 1 THEN 0 ELSE Distance(r, w) + 1
    BY <1>1, StoreBehind
  <2>2. Slot(w, 1) \in Slots
    <3>1. 1 \in 0 .. Size
      BY <1>1
    <3> QED BY <1>1, <3>1, SlotIs
  <2> QED BY <1>6, <2>1, <2>2
<1>10. r = Slot(w, 1) <=> u = Size - 1
  BY <1>1, <1>6, <1>9, DistanceIs
<1>11. CASE ~Reading /\ u = Size - 1
  <2>1. Unread' = 0
    BY <1>8, <1>9, <1>11
  <2>2. Waiting' = <<>>
    BY <1>7, <2>1 DEF WaitingIsTheRing
  <2>3. Len(Waiting) = Size - 1
    BY <1>7, <1>11 DEF WaitingIsTheRing
  <2> QED BY <1>3, <2>2, <2>3 DEF Queue!WipeOut
<1>12. CASE ~(~Reading /\ u = Size - 1)
  <2>1. Unread' = u + 1
    BY <1>1, <1>6, <1>8, <1>9, <1>10, <1>12
  <2>2. Len(Waiting) = u /\ Len(Waiting') = u + 1 /\ Waiting \in Seq(Presses) /\ Waiting' \in Seq(Presses)
    BY <1>7, <2>1 DEF WaitingIsTheRing
  <2>3. e \in Presses
    BY <1>4 DEF Entry, Presses
  <2>4. ASSUME NEW i \in 1 .. u + 1
        PROVE  Waiting'[i] = Append(Waiting, e)[i]
    <3>1. Waiting'[i] = PressAt(Slot(r, i - 1))'
      BY <1>3, <1>7, <2>1 DEF WaitingIsTheRing
    <3>2. CASE i = u + 1
      <4>1. Slot(r, i - 1) = w
        BY <1>1, <1>6, <3>2, StoreBehind
      <4>2. PressAt(Slot(r, i - 1))' = e
        BY <1>1, <1>2, <1>3, <4>1 DEF PressAt, TypeOK
      <4> QED BY <2>2, <3>1, <3>2, <4>2, AppendProperties
    <3>3. CASE i # u + 1
      <4>1. i \in 1 .. u /\ i - 1 \in 0 .. u - 1 /\ i - 1 \in 0 .. Size
        BY <1>1, <1>6, <3>3
      <4>2. Slot(r, i - 1) # w /\ Slot(r, i - 1) \in Slots
        BY <1>1, <1>6, <4>1, StoreBehind, SlotIs
      <4>3. PressAt(Slot(r, i - 1))' = PressAt(Slot(r, i - 1))
        BY <1>1, <1>2, <1>3, <4>2 DEF PressAt, TypeOK
      <4>4. Waiting[i] = PressAt(Slot(r, i - 1))
        BY <1>7, <4>1 DEF WaitingIsTheRing
      <4> QED BY <2>2, <2>3, <3>1, <4>1, <4>3, <4>4, AppendProperties
    <3> QED BY <3>2, <3>3
  <2>5. Waiting' = Append(Waiting, e)
    BY <2>2, <2>3, <2>4, AppendProperties, SeqEqual
  <2>6. Len(Waiting) < Size
    BY <1>1, <1>6, <2>2
  <2> QED BY <1>3, <1>4, <2>5, <2>6 DEF Queue!Store
<1> QED BY <1>11, <1>12

\* A read takes the oldest press, whole.
LEMMA AdvanceReads ==
  ASSUME IInv, TypeOK', Advance
  PROVE  Queue!Read
<1> DEFINE r == key_buf_rd_idx
           w == key_buf_wr_idx
           u == Unread
<1>1. TypeOK /\ r \in Slots /\ w \in Slots /\ Size \in Nat /\ Size > 1 /\ Reading
  BY KeyboardAssumption DEF IInv, TypeOK, Advance, Reading
<1>2. /\ r' = Slot(r, 1) /\ w' = w /\ ~Reading'
      /\ got' = [code |-> scancode, mods |-> qualifiers]
      /\ scancode_buffer' = scancode_buffer /\ qualifier_buffer' = qualifier_buffer
  BY DEF Advance, Slot, Reading
<1>3. u = (IF r = w THEN Size ELSE Distance(r, w)) /\ u \in 1 .. Size
  <2>1. u = (IF r = w THEN Size ELSE Distance(r, w))
    BY <1>1, UnreadIs
  <2> QED BY <1>1, <2>1, DistanceIs
<1>4. Unread' = u - 1
  <2>1. Unread' = Distance(Slot(r, 1), w)
    BY <1>2 DEF Unread, Distance
  <2>2. Distance(Slot(r, 1), w) = IF r = w THEN Size - 1 ELSE Distance(r, w) - 1
    BY <1>1, GiveBack
  <2> QED BY <1>3, <2>1, <2>2
<1>5. WaitingIsTheRing /\ WaitingIsTheRing'
  BY <1>1, WaitingIs, PTL
<1>6. /\ Len(Waiting) = u /\ Len(Waiting') = u - 1
      /\ Waiting \in Seq(Presses) /\ Waiting' \in Seq(Presses)
  BY <1>4, <1>5 DEF WaitingIsTheRing
<1>7. Waiting # <<>>
  BY <1>3, <1>6
<1>8. got' = Head(Waiting)
  <2>1. Waiting[1] = PressAt(Slot(r, 0))
    BY <1>3, <1>5 DEF WaitingIsTheRing
  <2>2. PressAt(r) = got'
    BY <1>2 DEF IInv, ReadIsOnePress, PressAt, Advance
  <2> QED BY <1>1, <1>6, <1>7, <2>1, <2>2, GiveBack
<1>9. ASSUME NEW i \in 1 .. u - 1
      PROVE  Waiting'[i] = Waiting[i + 1]
  <2>1. i + 1 \in 1 .. u /\ i - 1 \in 0 .. Size - 1 /\ (i - 1) + 1 = (i + 1) - 1
    BY <1>3
  <2>2. Waiting'[i] = PressAt(Slot(r, i - 1))'
    BY <1>4, <1>5 DEF WaitingIsTheRing
  <2>3. PressAt(Slot(r, i - 1))' = PressAt(Slot(Slot(r, 1), i - 1))
    BY <1>2 DEF PressAt
  <2>4. Slot(Slot(r, 1), i - 1) = Slot(r, (i + 1) - 1)
    BY <1>1, <2>1, GiveBack
  <2>5. Waiting[i + 1] = PressAt(Slot(r, (i + 1) - 1))
    BY <1>5, <2>1 DEF WaitingIsTheRing
  <2> QED BY <2>2, <2>3, <2>4, <2>5
<1>10. Waiting' = Tail(Waiting)
  <2>1. /\ Tail(Waiting) \in Seq(Presses) /\ Len(Tail(Waiting)) = u - 1
        /\ \A i \in 1 .. Len(Tail(Waiting)) : Tail(Waiting)[i] = Waiting[i + 1]
    BY <1>6, <1>7, HeadTailProperties
  <2> QED BY <1>6, <1>9, <2>1, SeqEqual
<1> QED BY <1>7, <1>8, <1>10 DEF Queue!Read

\* Every step of the kernal is a step of the queue, or none.
LEMMA QueueStep ==
  ASSUME IrqsPerRead <= 1, IInv, TypeOK', [Next]_vars
  PROVE  [Queue!Next]_(Queue!qvars)
<1>1. ASSUME UNCHANGED <<ring, got>>, Reading' <=> Reading
      PROVE  UNCHANGED <<Waiting, got>>
  BY <1>1 DEF Waiting, Unread, ring
<1>2. CASE PressCode
  BY <1>2, PressStores DEF Queue!Next
<1>3. CASE Advance
  BY <1>3, AdvanceReads DEF Queue!Next
<1>4. CASE GetNothing
  <2>1. Unread = 0 /\ got' = NoPress /\ UNCHANGED <<ring, pc>>
    BY <1>4, UnreadIs, DistanceIs DEF IInv, TypeOK, GetNothing, Reading
  <2>2. Waiting = <<>> /\ Waiting' = Waiting
    <3>1. Len(Waiting) = 0 /\ Waiting \in Seq(Presses)
      BY <2>1, WaitingIs DEF IInv, WaitingIsTheRing
    <3> QED BY <2>1, <3>1 DEF Waiting, Unread, ring, Reading
  <2> QED BY <2>1, <2>2 DEF Queue!ReadNothing, Queue!Next
<1>5. CASE BeginRead
  <2>1. UNCHANGED <<ring, got>> /\ key_buf_rd_idx # key_buf_wr_idx
    BY <1>5 DEF BeginRead
  <2> QED BY <2>1 DEF Queue!qvars, Waiting, Unread, ring
<1>6. CASE ClearBegin
  <2>1. 0 \in Slots /\ key_buf_wr_idx' = 0 /\ key_buf_rd_idx' = 0 /\ ~Reading' /\ got' = got
    BY <1>6, KeyboardAssumption DEF ClearBegin, Reading, Slots
  <2>2. Unread' = 0
    <3>1. Unread' = Distance(0, 0)
      BY <2>1 DEF Unread, Distance
    <3> QED BY <2>1, <3>1, DistanceIs
  <2>3. Waiting' = <<>>
    <3>1. WaitingIsTheRing'
      BY WaitingIs, PTL
    <3> QED BY <2>2, <3>1 DEF WaitingIsTheRing
  <2> QED BY <2>1, <2>3 DEF Queue!Reset, Queue!Next
<1>7. CASE ReadScancode \/ ReadQualifiers \/ ClearEnd \/ ClearDiscard
  BY <1>1, <1>7 DEF ReadScancode, ReadQualifiers, ClearEnd, ClearDiscard, Clearing, Reading, Queue!qvars
<1>8. CASE Typing \/ IgnorePrefix \/ ReleaseToken \/ ReleaseCode \/ UNCHANGED vars
  BY <1>1, <1>8 DEF Typing, Press, Release, IgnorePrefix, ReleaseToken, ReleaseCode, vars, reader,
                    Reading, Queue!qvars
<1> QED BY <1>2, <1>3, <1>4, <1>5, <1>6, <1>7, <1>8 DEF Next, Interrupt, ReadStep, Clear

LEMMA QueueInit == Init => Queue!Init
<1> SUFFICES ASSUME Init PROVE Queue!Init
  OBVIOUS
<1>1. TypeOK /\ 0 \in Slots
  BY InitIInv, KeyboardAssumption DEF IInv, Slots
<1>2. Unread = 0
  <2>1. Unread = Distance(0, 0)
    BY DEF Init, Unread, Reading, Distance
  <2> QED BY <1>1, <2>1, DistanceIs
<1>3. Waiting = <<>>
  BY <1>1, <1>2, WaitingIs DEF WaitingIsTheRing
<1> QED BY <1>3 DEF Init, Queue!Init

(* The ring with its two indexes and its four-step reads is the queue of   *)
(* KeyQueue: presses come out in the order they were typed, whole, and all *)
(* are forgotten only where one finds Size - 1 unread (property            *)
(* KeysComeOutInOrder), for every ring, provided at most one press is      *)
(* stored while a read runs.                                               *)
THEOREM RingIsAQueue ==
  ASSUME IrqsPerRead <= 1
  PROVE  Spec => KeysComeOutInOrder
<1>1. IInv => TypeOK
  BY DEF IInv
<1> QED
  BY <1>1, InitIInv, ReadStepInvariant, QueueInit, QueueStep, PTL DEF Spec, KeysComeOutInOrder, Queue!Spec

-----------------------------------------------------------------------------
(* The qualifier flags.  What the interrupt routine has still to take:     *)
(* the bytes on the wire, after the release token it remembers.            *)
Pending == (IF key_release_mode THEN <<F0>> ELSE <<>>) \o wire

(* Every release token is followed by a scancode.                          *)
TokensPaired(p) ==
  \A i \in 1 .. Len(p) : p[i] = F0 => i < Len(p) /\ p[i + 1] \in Scancodes

Occurs(p, c) == \E i \in 1 .. Len(p) : p[i] = c
IsLast(p, c, i) == p[i] = c /\ \A j \in 1 .. Len(p) : j > i => p[j] # c

(* The last code of a key tells whether it is down; the flags tell it when *)
(* there is no code of the key left.                                       *)
Told(p, flags, down, k) ==
  /\ ~Occurs(p, Code[k]) => (Code[k] \in flags <=> k \in down)
  /\ \A i \in 1 .. Len(p) : IsLast(p, Code[k], i) =>
        (k \in down <=> ~(i > 1 /\ p[i - 1] = F0))

FlagsFollow(p, flags, down) ==
  /\ TokensPaired(p)
  /\ \A k \in Keys : Code[k] \in QualCodes => Told(p, flags, down, k)

(* Two keys of one qualifier code, as left and right Alt are, are one key  *)
(* to the interrupt routine.                                               *)
QualifiersDiffer ==
  \A k, l \in Keys : Code[k] \in QualCodes /\ Code[k] = Code[l] => k = l

FlagsInv == ~discarded => FlagsFollow(Pending, key_mod_flags, held)

LEMMA CodeKinds ==
  ASSUME NEW k \in Keys
  PROVE  Code[k] \in Scancodes /\ Code[k] \in Bytes /\ Code[k] \notin {E0, E1, F0}
BY KeyboardAssumption DEF Scancodes, Bytes

LEMMA PendingType == TypeOK => Pending \in Seq(Bytes)
<1> SUFFICES ASSUME TypeOK PROVE Pending \in Seq(Bytes)
  OBVIOUS
<1>1. F0 \in Bytes
  BY DEF Bytes
<1>2. wire \in Seq(Bytes) /\ <<F0>> \in Seq(Bytes) /\ <<>> \in Seq(Bytes)
  BY <1>1 DEF TypeOK
<1> QED BY <1>2 DEF Pending

(* A byte that is no release token leaves the wire.                        *)
LEMMA DropByte ==
  ASSUME NEW p \in Seq(Bytes), p # <<>>, Head(p) # F0,
         NEW flags, NEW down, FlagsFollow(p, flags, down)
  PROVE  FlagsFollow(Tail(p), flags \cup ({Head(p)} \cap QualCodes), down)
<1> DEFINE q == Tail(p)
           new == flags \cup ({Head(p)} \cap QualCodes)
<1>1. /\ q \in Seq(Bytes) /\ Len(q) \in Nat /\ Len(p) \in Nat /\ Len(p) = Len(q) + 1
      /\ \A i \in 1 .. Len(q) : q[i] = p[i + 1]
      /\ p[1] = Head(p) /\ p[1] # F0
  OBVIOUS
<1>2. TokensPaired(q)
  BY <1>1 DEF FlagsFollow, TokensPaired
<1>3. ASSUME NEW k \in Keys, Code[k] \in QualCodes
      PROVE  Told(q, new, down, k)
  <2>1. Told(p, flags, down, k)
    BY <1>3 DEF FlagsFollow
  <2>2. ASSUME ~Occurs(q, Code[k])
        PROVE  Code[k] \in new <=> k \in down
    <3>1. \A j \in 1 .. Len(p) : j > 1 => p[j] # Code[k]
      <4> SUFFICES ASSUME NEW j \in 1 .. Len(p), j > 1 PROVE p[j] # Code[k]
        OBVIOUS
      <4>1. j - 1 \in 1 .. Len(q) /\ q[j - 1] = p[j]
        BY <1>1
      <4> QED BY <2>2, <4>1 DEF Occurs
    <3>2. CASE Head(p) = Code[k]
      <4>1. 1 \in 1 .. Len(p) /\ IsLast(p, Code[k], 1)
        BY <1>1, <3>1, <3>2 DEF IsLast
      <4>2. k \in down
        BY <2>1, <4>1 DEF Told
      <4> QED BY <1>3, <3>2, <4>2
    <3>3. CASE Head(p) # Code[k]
      <4>1. ~Occurs(p, Code[k])
        BY <1>1, <3>1, <3>3 DEF Occurs
      <4> QED BY <2>1, <3>3, <4>1 DEF Told
    <3> QED BY <3>2, <3>3
  <2>3. ASSUME NEW i \in 1 .. Len(q), IsLast(q, Code[k], i)
        PROVE  k \in down <=> ~(i > 1 /\ q[i - 1] = F0)
    <3>1. i + 1 \in 1 .. Len(p) /\ p[i + 1] = Code[k]
      BY <1>1, <2>3 DEF IsLast
    <3>2. ASSUME NEW j \in 1 .. Len(p), j > i + 1 PROVE p[j] # Code[k]
      <4>1. j - 1 \in 1 .. Len(q) /\ j - 1 > i /\ q[j - 1] = p[j]
        BY <1>1, <3>2
      <4> QED BY <2>3, <4>1 DEF IsLast
    <3>3. IsLast(p, Code[k], i + 1)
      BY <3>1, <3>2 DEF IsLast
    <3>4. k \in down <=> ~(p[i] = F0)
      BY <1>1, <2>1, <3>1, <3>3 DEF Told
    <3>5. i > 1 => i - 1 \in 1 .. Len(q) /\ q[i - 1] = p[i]
      BY <1>1
    <3> QED BY <1>1, <3>4, <3>5
  <2> QED BY <2>2, <2>3 DEF Told
<1> QED BY <1>2, <1>3 DEF FlagsFollow

(* A release token leaves the wire with the code behind it.                *)
LEMMA DropRelease ==
  ASSUME NEW p \in Seq(Bytes), Len(p) >= 2, p[1] = F0,
         NEW flags, NEW down, FlagsFollow(p, flags, down)
  PROVE  FlagsFollow(Tail(Tail(p)), flags \ {p[2]}, down)
<1> DEFINE q == Tail(Tail(p))
<1>1. /\ q \in Seq(Bytes) /\ Len(q) \in Nat /\ Len(p) \in Nat /\ Len(p) = Len(q) + 2
      /\ \A i \in 1 .. Len(q) : q[i] = p[i + 2]
  <2>1. /\ Tail(p) \in Seq(Bytes) /\ Len(p) \in Nat /\ Len(Tail(p)) = Len(p) - 1
        /\ \A i \in 1 .. Len(Tail(p)) : Tail(p)[i] = p[i + 1]
    BY HeadTailProperties
  <2>2. Len(Tail(p)) # 0 /\ Len(<<>>) = 0
    BY <2>1
  <2>3. /\ q \in Seq(Bytes) /\ Len(q) \in Nat /\ Len(q) = Len(Tail(p)) - 1
        /\ \A i \in 1 .. Len(q) : q[i] = Tail(p)[i + 1]
    <3>1. Tail(p) # <<>>
      BY <2>2
    <3> QED BY <2>1, <3>1, HeadTailProperties
  <2> QED BY <2>1, <2>3
<1>2. TokensPaired(p)
  BY DEF FlagsFollow
<1>3. p[2] \in Scancodes /\ p[2] # F0
  BY <1>1, <1>2, KeyboardAssumption DEF TokensPaired
<1>4. TokensPaired(q)
  <2> SUFFICES ASSUME NEW i \in 1 .. Len(q), q[i] = F0
               PROVE  i < Len(q) /\ q[i + 1] \in Scancodes
    BY DEF TokensPaired
  <2>1. i + 2 \in 1 .. Len(p) /\ p[i + 2] = F0
    BY <1>1
  <2>2. i + 2 < Len(p) /\ p[i + 3] \in Scancodes
    BY <1>2, <2>1 DEF TokensPaired
  <2> QED BY <1>1, <2>2
<1>5. ASSUME NEW k \in Keys, Code[k] \in QualCodes
      PROVE  Told(q, flags \ {p[2]}, down, k)
  <2>1. Told(p, flags, down, k) /\ Code[k] # F0
    BY <1>5, CodeKinds DEF FlagsFollow
  <2>2. ASSUME ~Occurs(q, Code[k])
        PROVE  Code[k] \in flags \ {p[2]} <=> k \in down
    <3>1. \A j \in 1 .. Len(p) : j > 2 => p[j] # Code[k]
      <4> SUFFICES ASSUME NEW j \in 1 .. Len(p), j > 2 PROVE p[j] # Code[k]
        OBVIOUS
      <4>1. j - 2 \in 1 .. Len(q) /\ q[j - 2] = p[j]
        BY <1>1
      <4> QED BY <2>2, <4>1 DEF Occurs
    <3>2. CASE p[2] = Code[k]
      <4>1. 2 \in 1 .. Len(p) /\ IsLast(p, Code[k], 2)
        BY <1>1, <3>1, <3>2 DEF IsLast
      <4>2. k \notin down
        BY <2>1, <4>1 DEF Told
      <4> QED BY <3>2, <4>2
    <3>3. CASE p[2] # Code[k]
      <4>1. ~Occurs(p, Code[k])
        <5>1. \A j \in 1 .. Len(p) : j = 1 \/ j = 2 \/ j > 2
          BY <1>1
        <5> QED BY <2>1, <3>1, <3>3, <5>1 DEF Occurs
      <4> QED BY <2>1, <3>3, <4>1 DEF Told
    <3> QED BY <3>2, <3>3
  <2>3. ASSUME NEW i \in 1 .. Len(q), IsLast(q, Code[k], i)
        PROVE  k \in down <=> ~(i > 1 /\ q[i - 1] = F0)
    <3>1. i + 2 \in 1 .. Len(p) /\ p[i + 2] = Code[k]
      <4>1. q[i] = Code[k]
        BY <2>3 DEF IsLast
      <4>2. i + 2 \in 1 .. Len(p) /\ q[i] = p[i + 2]
        BY <1>1
      <4> QED BY <4>1, <4>2
    <3>2. ASSUME NEW j \in 1 .. Len(p), j > i + 2 PROVE p[j] # Code[k]
      <4>1. j - 2 \in 1 .. Len(q) /\ j - 2 > i /\ q[j - 2] = p[j]
        BY <1>1, <3>2
      <4> QED BY <2>3, <4>1 DEF IsLast
    <3>3. IsLast(p, Code[k], i + 2)
      BY <3>1, <3>2 DEF IsLast
    <3>4. k \in down <=> ~(p[i + 1] = F0)
      BY <1>1, <2>1, <3>1, <3>3 DEF Told
    <3>5. i > 1 => i - 1 \in 1 .. Len(q) /\ q[i - 1] = p[i + 1]
      BY <1>1
    <3>6. i = 1 => p[i + 1] # F0
      BY <1>3
    <3> QED BY SMTT(30), <1>1, <3>4, <3>5, <3>6
  <2> QED BY <2>2, <2>3 DEF Told
<1> QED BY <1>4, <1>5 DEF FlagsFollow

(* The codes t of a key that goes down, repeats or comes up, behind the    *)
(* bytes p: one code at the end, and a release token before it or none.    *)
Released(t) == Len(t) > 1 /\ t[Len(t) - 1] = F0
CodesOf(t, k) ==
  /\ Len(t) >= 1 /\ t[Len(t)] = Code[k]
  /\ \A i \in 1 .. Len(t) : i < Len(t) => t[i] \notin Scancodes
  /\ \A i \in 1 .. Len(t) : t[i] = F0 => i = Len(t) - 1

LEMMA AddCodes ==
  ASSUME QualifiersDiffer, NEW p \in Seq(Bytes), NEW t \in Seq(Bytes),
         NEW k \in Keys, CodesOf(t, k),
         NEW flags, NEW down, FlagsFollow(p, flags, down),
         NEW new, \A l \in Keys : l \in new <=> IF l = k THEN ~Released(t) ELSE l \in down
  PROVE  FlagsFollow(p \o t, flags, new)
<1> DEFINE q == p \o t
           n == Len(p)
           m == Len(t)
<1>1. /\ n \in Nat /\ m \in Nat /\ m >= 1 /\ Len(q) = n + m
      /\ \A i \in 1 .. n : q[i] = p[i]
      /\ \A i \in 1 .. m : q[n + i] = t[i]
  BY DEF CodesOf
<1>2. \A i \in 1 .. Len(q) : i \in 1 .. n \/ (i > n /\ i - n \in 1 .. m /\ q[i] = t[i - n])
  BY <1>1
<1>3. t[m] = Code[k] /\ q[n + m] = Code[k]
  BY <1>1 DEF CodesOf
<1>4. TokensPaired(p) /\ (n > 0 => p[n] # F0)
  BY <1>1 DEF FlagsFollow, TokensPaired
<1>5. TokensPaired(q)
  <2> SUFFICES ASSUME NEW i \in 1 .. Len(q), q[i] = F0
               PROVE  i < Len(q) /\ q[i + 1] \in Scancodes
    BY DEF TokensPaired
  <2>1. CASE i \in 1 .. n
    BY <1>1, <1>4, <2>1 DEF TokensPaired
  <2>2. CASE i > n /\ i - n \in 1 .. m /\ q[i] = t[i - n]
    <3>2. i - n = m - 1
      BY <2>2 DEF CodesOf
    <3> QED BY <1>1, <1>3, <3>2, CodeKinds
  <2> QED BY <1>2, <2>1, <2>2
<1>6. ASSUME NEW l \in Keys, Code[l] \in QualCodes
      PROVE  Told(q, flags, new, l)
  <2>1. Told(p, flags, down, l)
    BY <1>6 DEF FlagsFollow
  <2>2. CASE l = k
    <3>1. Occurs(q, Code[l])
      BY <1>1, <1>3, <2>2 DEF Occurs
    <3>2. ASSUME NEW i \in 1 .. Len(q), IsLast(q, Code[l], i)
          PROVE  l \in new <=> ~(i > 1 /\ q[i - 1] = F0)
      <4>1. i = n + m
        <5>1. n + m \in 1 .. Len(q) /\ i <= n + m
          BY <1>1
        <5>2. ~(n + m > i)
          BY <1>3, <2>2, <3>2, <5>1 DEF IsLast
        <5> QED BY <1>1, <5>1, <5>2
      <4>2. CASE m > 1
        <5>1. q[i - 1] = t[m - 1] /\ i > 1
          BY <1>1, <4>1, <4>2
        <5> QED BY <2>2, <4>2, <5>1 DEF Released
      <4>3. CASE m = 1
        <5>1. i > 1 => q[i - 1] = p[n] /\ n > 0
          BY <1>1, <4>1, <4>3
        <5> QED BY <1>4, <2>2, <4>3, <5>1 DEF Released
      <4>4. m > 1 \/ m = 1
        <5>1. m \in Nat /\ m >= 1
          BY <1>1
        <5> HIDE DEF m
        <5> QED BY <5>1
      <4> QED BY <4>2, <4>3, <4>4
    <3> QED BY <3>1, <3>2 DEF Told
  <2>3. CASE l # k
    <3>1. Code[l] # Code[k] /\ Code[l] \in Scancodes
      BY <1>6, <2>3, CodeKinds DEF QualifiersDiffer
    <3>2. \A i \in 1 .. m : t[i] # Code[l]
      BY <1>1, <1>3, <3>1 DEF CodesOf
    <3>3. \A i \in 1 .. Len(q) : q[i] = Code[l] => i \in 1 .. n
      BY <1>2, <3>2
    <3>4. Occurs(q, Code[l]) <=> Occurs(p, Code[l])
      BY <1>1, <3>3 DEF Occurs
    <3>5. ASSUME NEW i \in 1 .. Len(q), IsLast(q, Code[l], i)
          PROVE  l \in new <=> ~(i > 1 /\ q[i - 1] = F0)
      <4>1. i \in 1 .. n /\ IsLast(p, Code[l], i)
        BY <1>1, <3>3, <3>5 DEF IsLast
      <4>2. i > 1 => q[i - 1] = p[i - 1]
        BY <1>1, <4>1
      <4> QED BY <2>1, <2>3, <4>1, <4>2 DEF Told
    <3> QED BY <2>1, <2>3, <3>4, <3>5 DEF Told
  <2> QED BY <2>2, <2>3
<1> QED BY <1>5, <1>6 DEF FlagsFollow

LEMMA FlagsInit == Init => FlagsInv
<1> SUFFICES ASSUME Init PROVE FlagsInv
  OBVIOUS
<1>1. Pending = <<>> /\ key_mod_flags = {} /\ held = {}
  BY DEF Init, Pending
<1>2. \A i \in 1 .. Len(<<>>) : FALSE
  OBVIOUS
<1> QED BY <1>1, <1>2 DEF FlagsInv, FlagsFollow, TokensPaired, Told, Occurs

LEMMA SentCodes ==
  ASSUME NEW k \in Keys, NEW y \in Seq(Bytes),
         \/ Len(y) = 1 /\ y[1] = Code[k]
         \/ Len(y) = 2 /\ y[1] = F0 /\ y[2] = Code[k]
  PROVE  /\ Prefix(k) \o y \in Seq(Bytes)
         /\ CodesOf(Prefix(k) \o y, k)
         /\ Len(y) = 1 => ~Released(Prefix(k) \o y)
         /\ Len(y) = 2 => Released(Prefix(k) \o y)
<1> DEFINE x == Prefix(k)
           t == x \o y
           n == Len(x)
           m == Len(y)
<1>1. /\ E0 \in Bytes /\ E0 \notin Scancodes /\ F0 \notin Scancodes /\ E0 # F0
      /\ Code[k] \in Scancodes /\ Code[k] # F0
  BY CodeKinds, KeyboardAssumption DEF Bytes
<1>2. x \in Seq(Bytes) /\ (n = 0 \/ (n = 1 /\ x[1] = E0))
  BY <1>1 DEF Prefix
<1>3. /\ t \in Seq(Bytes) /\ Len(t) = n + m
      /\ \A i \in 1 .. Len(t) : t[i] = IF i <= n THEN x[i] ELSE y[i - n]
  BY <1>2, ConcatProperties
<1> HIDE DEF t, x
<1>4. CASE n = 0
  <2>1. Len(t) = m /\ \A i \in 1 .. Len(t) : t[i] = y[i]
    BY <1>3, <1>4
  <2> QED BY SMTT(30), <1>1, <1>3, <2>1 DEF CodesOf, Released, t, x
<1>5. CASE n = 1 /\ x[1] = E0
  <2>1. Len(t) = m + 1 /\ t[1] = E0 /\ \A i \in 1 .. Len(t) : i = 1 \/ t[i] = y[i - 1]
    BY <1>3, <1>5
  <2>2. CASE m = 1
    <3>1. Len(t) = 2 /\ t[1] = E0 /\ t[2] = Code[k]
      BY <2>1, <2>2
    <3> QED BY <1>1, <1>3, <2>2, <3>1 DEF CodesOf, Released, t, x
  <2>3. CASE m = 2
    <3>1. Len(t) = 3 /\ t[1] = E0 /\ t[2] = F0 /\ t[3] = Code[k]
      BY <2>1, <2>3
    <3> QED BY <1>1, <1>3, <2>3, <3>1 DEF CodesOf, Released, t, x
  <2> QED BY <2>2, <2>3
<1> QED BY <1>2, <1>4, <1>5

LEMMA FlagsTyping ==
  ASSUME QualifiersDiffer, TypeOK, FlagsInv, NEW k \in Keys, Press(k) \/ Release(k)
  PROVE  FlagsInv'
<1>1. F0 \in Bytes /\ Code[k] \in Bytes
  BY CodeKinds DEF Bytes
<1>2. PICK t \in Seq(Bytes) :
        /\ CodesOf(t, k) /\ wire' = wire \o t
        /\ \A l \in Keys : l \in held' <=> IF l = k THEN ~Released(t) ELSE l \in held
  <2>1. CASE Press(k)
    <3> DEFINE t == Prefix(k) \o <<Code[k]>>
    <3>1. t \in Seq(Bytes) /\ CodesOf(t, k) /\ ~Released(t)
      <4> DEFINE y == <<Code[k]>>
      <4>1. y \in Seq(Bytes) /\ Len(y) = 1 /\ y[1] = Code[k]
        BY <1>1
      <4> HIDE DEF y
      <4>2. Prefix(k) \o y \in Seq(Bytes) /\ CodesOf(Prefix(k) \o y, k) /\ ~Released(Prefix(k) \o y)
        BY <4>1, SentCodes
      <4> QED BY <4>2 DEF y
    <3> QED BY <2>1, <3>1 DEF Press, Send
  <2>2. CASE Release(k)
    <3> DEFINE t == Prefix(k) \o <<F0, Code[k]>>
    <3>1. t \in Seq(Bytes) /\ CodesOf(t, k) /\ Released(t)
      <4> DEFINE y == <<F0, Code[k]>>
      <4>1. y \in Seq(Bytes) /\ Len(y) = 2 /\ y[1] = F0 /\ y[2] = Code[k]
        BY <1>1
      <4> HIDE DEF y
      <4>2. Prefix(k) \o y \in Seq(Bytes) /\ CodesOf(Prefix(k) \o y, k) /\ Released(Prefix(k) \o y)
        BY <4>1, SentCodes
      <4> QED BY <4>2 DEF y
    <3> QED BY <2>2, <3>1 DEF Release, Send
  <2> QED BY <2>1, <2>2
<1>3. /\ UNCHANGED <<key_release_mode, key_mod_flags, discarded>>
  BY DEF Press, Release, decoder, reader
<1>4. Pending' = Pending \o t
  <2>1. wire \in Seq(Bytes) /\ <<F0>> \in Seq(Bytes) /\ <<>> \in Seq(Bytes)
    BY <1>1 DEF TypeOK
  <2> QED BY SMTT(30), <1>2, <1>3, <2>1, ConcatAssociative DEF Pending
<1>5. CASE ~discarded
  <2>1. FlagsFollow(Pending, key_mod_flags, held)
    BY <1>5 DEF FlagsInv
  <2>2. FlagsFollow(Pending \o t, key_mod_flags, held')
    BY <1>2, <2>1, AddCodes, PendingType
  <2> QED BY <1>3, <1>4, <2>2 DEF FlagsInv
<1> QED BY <1>3, <1>5 DEF FlagsInv

LEMMA FlagsInterrupt ==
  ASSUME TypeOK, FlagsInv, Interrupt
  PROVE  FlagsInv'
<1>1. discarded' = discarded /\ held' = held
  BY DEF Interrupt, IgnorePrefix, ReleaseToken, ReleaseCode, PressCode, Irq, reader
<1> SUFFICES ASSUME ~discarded
             PROVE  FlagsFollow(Pending', key_mod_flags', held)
  BY <1>1 DEF FlagsInv
<1>2. FlagsFollow(Pending, key_mod_flags, held) /\ TokensPaired(Pending)
  BY DEF FlagsInv, FlagsFollow
<1>3. wire # <<>> /\ wire' = Tail(wire) /\ wire \in Seq(Bytes) /\ Head(wire) = wire[1]
  BY DEF Interrupt, IgnorePrefix, ReleaseToken, ReleaseCode, PressCode, Irq, TypeOK
<1>4. /\ E0 # F0 /\ E1 # F0 /\ {E0, E1, F0} \cap Scancodes = {} /\ F0 \in Bytes
      /\ QualCodes \subseteq Scancodes
  BY KeyboardAssumption DEF Bytes
<1>5. CASE ~key_release_mode
  <2>1. Pending = wire
    BY <1>3, <1>5, ConcatEmptySeq DEF Pending
  <2>2. CASE IgnorePrefix
    <3>1. Head(wire) \in {E0, E1} /\ key_release_mode' = key_release_mode
          /\ key_mod_flags' = key_mod_flags
      BY <2>2 DEF IgnorePrefix, Irq, decoder
    <3>2. Pending' = Tail(wire)
      <4>1. Tail(wire) \in Seq(Bytes)
        BY <1>3
      <4> QED BY <1>3, <1>5, <3>1, <4>1, ConcatEmptySeq DEF Pending
    <3>3. {Head(wire)} \cap QualCodes = {} /\ Head(wire) # F0
      BY <1>4, <3>1
    <3>4. FlagsFollow(Tail(wire), key_mod_flags \cup ({Head(wire)} \cap QualCodes), held)
      BY <1>2, <1>3, <2>1, <3>3, DropByte
    <3>5. key_mod_flags \cup ({Head(wire)} \cap QualCodes) = key_mod_flags
      BY <3>3
    <3> QED BY <3>1, <3>2, <3>4, <3>5
  <2>3. CASE ReleaseToken
    <3>1. Head(wire) = F0 /\ key_release_mode' = TRUE /\ key_mod_flags' = key_mod_flags
      BY <2>3 DEF ReleaseToken, Irq
    <3>2. Pending' = <<F0>> \o Tail(wire)
      BY <1>3, <3>1 DEF Pending
    <3>3. <<F0>> \o Tail(wire) = wire
      BY <1>3, <3>1, <1>4
    <3> QED BY <1>2, <2>1, <3>1, <3>2, <3>3
  <2>4. CASE ReleaseCode
    BY <1>5, <2>4 DEF ReleaseCode
  <2>5. CASE PressCode
    <3>1. /\ Head(wire) \in Scancodes /\ key_release_mode' = key_release_mode
          /\ key_mod_flags' = key_mod_flags \cup ({Head(wire)} \cap QualCodes)
      BY <2>5 DEF PressCode, Irq
    <3>2. Pending' = Tail(wire)
      <4>1. Tail(wire) \in Seq(Bytes)
        BY <1>3
      <4> QED BY <1>3, <1>5, <3>1, <4>1, ConcatEmptySeq DEF Pending
    <3>3. Head(wire) # F0
      BY <1>4, <3>1
    <3> QED BY <1>2, <1>3, <2>1, <3>1, <3>2, <3>3, DropByte
  <2> QED BY <2>2, <2>3, <2>4, <2>5 DEF Interrupt
<1>6. CASE key_release_mode
  <2> DEFINE p == <<F0>> \o wire
  <2>1. Pending = p /\ p \in Seq(Bytes) /\ Len(p) >= 2 /\ p[1] = F0 /\ p[2] = Head(wire)
        /\ Tail(p) = wire
    BY <1>3, <1>4, <1>6 DEF Pending
  <2>2. Head(wire) \in Scancodes
    <3>1. TokensPaired(p) /\ 1 \in 1 .. Len(p)
      BY <1>2, <2>1
    <3>2. p[1 + 1] \in Scancodes
      BY <2>1, <3>1 DEF TokensPaired
    <3> QED BY <2>1, <3>2
  <2>3. ReleaseCode
    BY <1>4, <1>6, <2>2 DEF Interrupt, IgnorePrefix, ReleaseToken, PressCode, Irq
  <2>4. key_release_mode' = FALSE /\ key_mod_flags' = key_mod_flags \ {Head(wire)}
    BY <2>3 DEF ReleaseCode, Irq
  <2>5. Pending' = Tail(wire)
    <3>1. Tail(wire) \in Seq(Bytes)
      BY <1>3
    <3> QED BY <1>3, <2>4, <3>1, ConcatEmptySeq DEF Pending
  <2>6. FlagsFollow(Tail(Tail(p)), key_mod_flags \ {p[2]}, held)
    BY <1>2, <2>1, DropRelease
  <2> QED BY <2>1, <2>4, <2>5, <2>6
<1> QED BY <1>5, <1>6, <1>3

LEMMA FlagsStep ==
  ASSUME QualifiersDiffer
  PROVE  TypeOK /\ FlagsInv /\ [Next]_vars => FlagsInv'
<1> SUFFICES ASSUME TypeOK, FlagsInv, [Next]_vars PROVE FlagsInv'
  OBVIOUS
<1>1. CASE Typing
  BY <1>1, FlagsTyping DEF Typing
<1>2. CASE Interrupt
  BY <1>2, FlagsInterrupt
<1>3. ASSUME UNCHANGED <<wire, held, decoder, discarded>>
      PROVE  FlagsInv'
  BY <1>3 DEF FlagsInv, Pending, decoder
<1>4. CASE GetNothing \/ BeginRead \/ ReadStep \/ ClearBegin \/ ClearEnd \/ UNCHANGED vars
  BY <1>3, <1>4 DEF GetNothing, BeginRead, ReadStep, ReadScancode, ReadQualifiers, Advance,
                    ClearBegin, ClearEnd, vars, hardware, reader
<1>5. CASE ClearDiscard
  BY <1>5 DEF ClearDiscard, FlagsInv
<1> QED BY <1>1, <1>2, <1>4, <1>5 DEF Next, Clear

(* However presses, repeats, releases, reads and the interrupt fall        *)
(* together, the flags are the qualifiers that are down once every byte    *)
(* was taken, unless clear_keyboard_buffer has thrown bytes away: property *)
(* FlagsKept.                                                              *)
THEOREM FlagsAreKept ==
  ASSUME QualifiersDiffer
  PROVE  Spec => []FlagsKept
<1>1. TypeOK /\ FlagsInv => FlagsKept
  <2> SUFFICES ASSUME TypeOK, FlagsInv, wire = <<>>, ~discarded
               PROVE  /\ key_mod_flags = {Code[k] : k \in held} \cap QualCodes
                      /\ ~key_release_mode
    BY DEF FlagsKept
  <2>1. FlagsFollow(Pending, key_mod_flags, held)
    BY DEF FlagsInv
  <2>2. ~key_release_mode
    <3> SUFFICES ASSUME key_release_mode PROVE FALSE
      OBVIOUS
    <3>1. Pending = <<F0>>
      BY DEF Pending
    <3> QED BY <2>1, <3>1 DEF FlagsFollow, TokensPaired
  <2>3. Pending = <<>>
    BY <2>2 DEF Pending
  <2>4. \A k \in Keys : Code[k] \in QualCodes => (Code[k] \in key_mod_flags <=> k \in held)
    BY <2>1, <2>3 DEF FlagsFollow, Told, Occurs
  <2>5. \A c \in QualCodes : \E k \in Keys : c = Code[k]
    BY KeyboardAssumption DEF Scancodes
  <2>6. key_mod_flags \subseteq QualCodes /\ held \subseteq Keys
    BY DEF TypeOK
  <2>7. \A c \in QualCodes : c \in key_mod_flags <=> c \in {Code[k] : k \in held}
    BY <2>4, <2>5, <2>6 DEF QualifiersDiffer
  <2> QED BY <2>2, <2>6, <2>7
<1> QED BY <1>1, TypeCorrect, FlagsInit, FlagsStep, PTL DEF Spec
=============================================================================
