------------------------------ MODULE Keyboard ------------------------------
(***************************************************************************)
(* The keyboard of FLOS: the PS/2 bytes of the keyboard, the interrupt     *)
(* routine that turns them into presses in a ring buffer and keeps the     *)
(* qualifier flags (FLOS_irq_code.asm), the kernal calls that read the     *)
(* ring buffer with interrupts enabled, and the reset of the buffer        *)
(* (FLOS_keyboard_routines.asm).                                           *)
(*                                                                         *)
(* One action is one uninterruptible piece of code: the interrupt routine  *)
(* runs with interrupts off, a read is cut where an interrupt may come     *)
(* between two of its memory accesses.  key_buf_rd_idx is written by the   *)
(* reader alone, so loading it and comparing it is one step.               *)
(***************************************************************************)
EXTENDS Naturals, Sequences, SequencesExt

CONSTANTS
  Keys,            \* the physical keys
  Code,            \* the scancode of a key, without its prefix
  Extended,        \* the keys whose codes carry the prefix $e0
  QualCodes,       \* the scancodes of qualklist
  E0, E1, F0,      \* the two prefixes and the key released token
  NoKey,           \* "no key", scancode 0
  Size,            \* slots of the ring buffer, 16 in the source
  Frames,          \* frames clear_keyboard_buffer waits at most, 50
  IrqsPerRead,     \* presses that can be stored while one read runs
  MaxPresses,      \* bound on the key strokes of a behaviour
  MaxWire          \* bound on the bytes the keyboard holds back

Scancodes == {Code[k] : k \in Keys}

ASSUME KeyboardAssumption ==
  /\ Code \in [Keys -> Scancodes]
  /\ Extended \subseteq Keys
  /\ QualCodes \subseteq Scancodes
  /\ {E0, E1, F0} \cap Scancodes = {}
  /\ F0 \notin {E0, E1}
  /\ NoKey \notin Scancodes
  /\ Size \in Nat \ {0, 1}
  /\ {Frames, IrqsPerRead, MaxPresses, MaxWire} \subseteq Nat

VARIABLES
  held,              \* keys that are down
  presses,           \* key strokes so far, for the bound
  wire,              \* bytes sent and not yet taken by the Z80
  key_release_mode,  \* the next code is that of a released key
  key_mod_flags,     \* scancodes of the qualifiers believed to be down
  scancode_buffer,   \* the ring of scancodes
  qualifier_buffer,  \* the ring of qualifier states, 16 bytes above
  key_buf_wr_idx, key_buf_rd_idx,
  pc,                \* where the one thread of the main program is
  scancode,          \* register C of a read
  qualifiers,        \* register A of a read
  irqs,              \* presses stored since the read began
  frames,            \* frames clear_keyboard_buffer has left
  discarded,         \* history: clear_keyboard_buffer has thrown bytes away
  got                \* what the last read returned

hardware == <<held, presses, wire>>
decoder  == <<key_release_mode, key_mod_flags>>
ring     == <<scancode_buffer, qualifier_buffer, key_buf_wr_idx, key_buf_rd_idx>>
reader   == <<pc, scancode, qualifiers, irqs, frames, discarded, got>>
vars     == <<hardware, decoder, ring, reader>>

Slots == 0 .. Size - 1
Bytes == Scancodes \cup {E0, E1, F0}
Entry == [code : Scancodes, mods : SUBSET QualCodes]
NoPress == [code |-> NoKey, mods |-> {}]

Init ==
  /\ held = {} /\ presses = 0 /\ wire = <<>>
  /\ key_release_mode = FALSE /\ key_mod_flags = {}
  /\ scancode_buffer = [i \in Slots |-> NoKey]
  /\ qualifier_buffer = [i \in Slots |-> {}]
  /\ key_buf_wr_idx = 0 /\ key_buf_rd_idx = 0
  /\ pc = "program" /\ scancode = NoKey /\ qualifiers = {}
  /\ irqs = 0 /\ frames = 0 /\ discarded = FALSE /\ got = NoPress

-----------------------------------------------------------------------------
(* The keyboard.  Holding a key down repeats its make code.               *)

Prefix(k) == IF k \in Extended THEN <<E0>> ELSE <<>>

Send(bytes) == /\ Len(wire) + Len(bytes) <= MaxWire
               /\ wire' = wire \o bytes

Press(k) ==
  /\ presses < MaxPresses
  /\ presses' = presses + 1
  /\ held' = held \cup {k}
  /\ Send(Prefix(k) \o <<Code[k]>>)
  /\ UNCHANGED <<decoder, ring, reader>>

Release(k) ==
  /\ k \in held
  /\ held' = held \ {k}
  /\ Send(Prefix(k) \o <<F0, Code[k]>>)
  /\ UNCHANGED <<presses, decoder, ring, reader>>

-----------------------------------------------------------------------------
(* keyboard_irq_code: one byte per interrupt.  kjt_flos_settings runs with *)
(* the interrupt off.                                                      *)

Clearing == pc = "clear"
Reading  == pc \in {"new_key", "qualifier", "advance"}

Irq(b) == /\ ~Clearing
          /\ wire # <<>> /\ b = Head(wire)
          /\ wire' = Tail(wire)
          /\ UNCHANGED <<held, presses>>

IgnorePrefix ==
  \E b \in {E0, E1} : Irq(b) /\ UNCHANGED <<decoder, ring, reader>>

ReleaseToken ==
  /\ ~key_release_mode
  /\ Irq(F0)
  /\ key_release_mode' = TRUE
  /\ UNCHANGED <<key_mod_flags, ring, reader>>

ReleaseCode ==
  /\ key_release_mode
  /\ \E b \in Scancodes \cup {F0} :
       /\ Irq(b)
       /\ key_mod_flags' = key_mod_flags \ {b}
  /\ key_release_mode' = FALSE
  /\ UNCHANGED <<ring, reader>>

\* Slip: the qualifiers of a press are not added to the flags.
PressCodeForgettingQualifiers ==
  /\ ~key_release_mode
  /\ Reading => irqs < IrqsPerRead
  /\ \E b \in Scancodes :
       /\ Irq(b)
       /\ scancode_buffer' = [scancode_buffer EXCEPT ![key_buf_wr_idx] = b]
  /\ qualifier_buffer' =
       [qualifier_buffer EXCEPT ![key_buf_wr_idx] = key_mod_flags]
  /\ key_buf_wr_idx' = (key_buf_wr_idx + 1) % Size
  /\ irqs' = IF Reading THEN irqs + 1 ELSE irqs
  /\ UNCHANGED <<key_release_mode, key_mod_flags, key_buf_rd_idx,
                 pc, scancode, qualifiers, frames, discarded, got>>

(* No comparison with key_buf_rd_idx: nothing stops the write index from   *)
(* lapping the read index.                                                 *)
PressCode ==
  /\ ~key_release_mode
  /\ Reading => irqs < IrqsPerRead
  /\ \E b \in Scancodes :
       /\ Irq(b)
       /\ key_mod_flags' = key_mod_flags \cup ({b} \cap QualCodes)
       /\ scancode_buffer' = [scancode_buffer EXCEPT ![key_buf_wr_idx] = b]
  /\ qualifier_buffer' =
       [qualifier_buffer EXCEPT ![key_buf_wr_idx] = key_mod_flags']
  /\ key_buf_wr_idx' = (key_buf_wr_idx + 1) % Size
  /\ irqs' = IF Reading THEN irqs + 1 ELSE irqs
  /\ UNCHANGED <<key_release_mode, key_buf_rd_idx,
                 pc, scancode, qualifiers, frames, discarded, got>>

-----------------------------------------------------------------------------
(* os_get_key_press, and os_wait_key_press, which repeats GetNothing       *)
(* without returning until it can begin.                                   *)

GetNothing ==
  /\ pc = "program"
  /\ key_buf_rd_idx = key_buf_wr_idx
  /\ got' = NoPress
  /\ UNCHANGED <<hardware, decoder, ring, pc, scancode, qualifiers, irqs, frames, discarded>>

BeginRead ==
  /\ pc = "program"
  /\ key_buf_rd_idx # key_buf_wr_idx
  /\ pc' = "new_key"
  /\ irqs' = 0
  /\ UNCHANGED <<hardware, decoder, ring, scancode, qualifiers, frames, discarded, got>>

\* Slip: the read index goes forward as soon as the scancode is read.
ReadScancodeAndAdvance ==
  /\ pc = "new_key"
  /\ scancode' = scancode_buffer[key_buf_rd_idx]
  /\ key_buf_rd_idx' = (key_buf_rd_idx + 1) % Size
  /\ pc' = "qualifier"
  /\ UNCHANGED <<hardware, decoder, scancode_buffer, qualifier_buffer,
                 key_buf_wr_idx, qualifiers, irqs, frames, discarded, got>>

ReadScancode ==
  /\ pc = "new_key"
  /\ scancode' = scancode_buffer[key_buf_rd_idx]
  /\ pc' = "qualifier"
  /\ UNCHANGED <<hardware, decoder, ring, qualifiers, irqs, frames, discarded, got>>

ReadQualifiers ==
  /\ pc = "qualifier"
  /\ qualifiers' = qualifier_buffer[key_buf_rd_idx]
  /\ pc' = "advance"
  /\ UNCHANGED <<hardware, decoder, ring, scancode, irqs, frames, discarded, got>>

\* Slip: "and 15" is missing.
AdvanceWithoutWrap ==
  /\ pc = "advance"
  /\ key_buf_rd_idx' = key_buf_rd_idx + 1
  /\ got' = [code |-> scancode, mods |-> qualifiers]
  /\ pc' = "program"
  /\ UNCHANGED <<hardware, decoder, scancode_buffer, qualifier_buffer,
                 key_buf_wr_idx, scancode, qualifiers, irqs, frames, discarded>>

Advance ==
  /\ pc = "advance"
  /\ key_buf_rd_idx' = (key_buf_rd_idx + 1) % Size
  /\ got' = [code |-> scancode, mods |-> qualifiers]
  /\ pc' = "program"
  /\ UNCHANGED <<hardware, decoder, scancode_buffer, qualifier_buffer,
                 key_buf_wr_idx, scancode, qualifiers, irqs, frames, discarded>>

-----------------------------------------------------------------------------
(* clear_keyboard_buffer, as kjt_flos_settings calls it.                   *)

\* Slip: only the byte of the write index is cleared.
ClearBeginWriteIndexOnly ==
  /\ pc = "program"
  /\ pc' = "clear"
  /\ key_buf_wr_idx' = 0
  /\ frames' = Frames
  /\ UNCHANGED <<hardware, decoder, scancode_buffer, qualifier_buffer,
                 key_buf_rd_idx, scancode, qualifiers, irqs, discarded, got>>

ClearBegin ==
  /\ pc = "program"
  /\ pc' = "clear"
  /\ key_buf_wr_idx' = 0 /\ key_buf_rd_idx' = 0
  /\ frames' = Frames
  /\ UNCHANGED <<hardware, decoder, scancode_buffer, qualifier_buffer,
                 scancode, qualifiers, irqs, discarded, got>>

ClearDiscard ==
  /\ Clearing
  /\ wire # <<>> /\ frames > 0
  /\ wire' = Tail(wire)
  /\ frames' = frames - 1
  /\ discarded' = TRUE
  /\ UNCHANGED <<held, presses, decoder, ring, pc, scancode, qualifiers, irqs, got>>

ClearEnd ==
  /\ Clearing
  /\ wire = <<>> \/ frames = 0
  /\ pc' = "program"
  /\ UNCHANGED <<hardware, decoder, ring, scancode, qualifiers, irqs, frames, discarded, got>>

-----------------------------------------------------------------------------
Typing == \E k \in Keys : Press(k) \/ Release(k)
Interrupt == IgnorePrefix \/ ReleaseToken \/ ReleaseCode \/ PressCode
ReadStep == ReadScancode \/ ReadQualifiers \/ Advance
Clear == ClearBegin \/ ClearDiscard \/ ClearEnd

Next == Typing \/ Interrupt \/ GetNothing \/ BeginRead \/ ReadStep \/ Clear

Spec == Init /\ [][Next]_vars

-----------------------------------------------------------------------------
(* The contents of every variable.                                         *)
TypeOK ==
  /\ held \subseteq Keys
  /\ presses \in 0 .. MaxPresses
  /\ wire \in Seq(Bytes)
  /\ key_release_mode \in BOOLEAN
  /\ key_mod_flags \subseteq QualCodes
  /\ scancode_buffer \in [Slots -> Scancodes \cup {NoKey}]
  /\ qualifier_buffer \in [Slots -> SUBSET QualCodes]
  /\ key_buf_wr_idx \in Slots /\ key_buf_rd_idx \in Slots
  /\ pc \in {"program", "new_key", "qualifier", "advance", "clear"}
  /\ scancode \in Scancodes \cup {NoKey}
  /\ qualifiers \subseteq QualCodes
  /\ irqs \in Nat
  /\ frames \in 0 .. Frames
  /\ discarded \in BOOLEAN
  /\ got \in [code : Scancodes \cup {NoKey}, mods : SUBSET QualCodes]

(* The scancode and the qualifier byte a read has taken out of the ring    *)
(* with interrupts on are one press, and the slot has not been written     *)
(* since: new_key reads the two bytes 16 apart with no di around them, and *)
(* the interrupt routine does not look at the read index.                  *)
ReadIsOnePress ==
  /\ pc \in {"qualifier", "advance"} =>
       scancode = scancode_buffer[key_buf_rd_idx]
  /\ pc = "advance" => qualifiers = qualifier_buffer[key_buf_rd_idx]

(* Once the interrupt routine has taken every byte, the flags that         *)
(* kjt_get_key_mod_flags returns are the qualifier keys that are down and  *)
(* no release is half decoded: no order of prefixes, repeats, presses,     *)
(* releases and reads puts them wrong.  What does is clear_keyboard_buffer *)
(* in kjt_flos_settings, when it throws bytes away; and two keys that      *)
(* share the scancode of a qualifier, as the two Alts do, are one to it.   *)
FlagsKept ==
  wire = <<>> /\ ~discarded =>
    /\ key_mod_flags = {Code[k] : k \in held} \cap QualCodes
    /\ ~key_release_mode

(* The presses in the ring, oldest first.  While a read is in progress the *)
(* slot being read still counts, so a full ring of Size presses is told    *)
(* from an empty one.                                                      *)
Unread ==
  IF Reading /\ key_buf_rd_idx = key_buf_wr_idx
    THEN Size
    ELSE (key_buf_wr_idx + Size - key_buf_rd_idx) % Size

Waiting ==
  [i \in 1 .. Unread |->
     LET slot == (key_buf_rd_idx + i - 1) % Size
     IN  [code |-> scancode_buffer[slot], mods |-> qualifier_buffer[slot]]]

(* The ring buffer delivers the presses in order and whole, and forgets    *)
(* all of them when a press finds Size - 1 unread (KeyQueue): the indexes  *)
(* are compared for equality only and 16 unread presses look like none.    *)
Queue == INSTANCE KeyQueue WITH queue <- Waiting
KeysComeOutInOrder == Queue!Spec
=============================================================================
