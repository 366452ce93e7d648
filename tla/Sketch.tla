------------------------------- MODULE Sketch -------------------------------
(***************************************************************************)
(* The drawing program tstgfx5 over the interrupt handlers of the C library *)
(* (src/inc/irq.c, base_lib/keyboard.c, mouse.c, sprites.c): the handlers   *)
(* run between any two steps of its frame and change the flags, buttons and *)
(* offsets it reads.                                                        *)
(* Bytes of the mouse are numbers; with each goes the number of its packet. *)
(***************************************************************************)
EXTENDS Integers, Sequences, FiniteSets

CONSTANTS
  PadKeys,     \* keys: [code, ext], ext for those that send E0 before their code
  InputMap,    \* the scancodes in the input map of the program, with their directions:
               \* [code -> "up" | "down" | "left" | "right" | "esc"]
  PressedSlots,       \* entries of arrPressed
  PadPackets,  \* what the mouse sends: triples of bytes
  PadWidth, PadHeight, Step,  \* of the screen, in what the pen moves by a key
  PosMax,      \* the greatest position the mouse handler keeps
  Colours,     \* how many values colorIndex has
  MaxEvents    \* bound: keys pressed, repeated and released, and mouse packets

VARIABLES
  kb,    \* keyboard: the wire, the keys down, and struct keyboard with the input flags
  ms,    \* mouse: the wire, struct mouse and the packet being received
  pen    \* the program: where it is in its frame, the pen, the sprite registers

Prefix == 224
Break == 240
Directions == {"up", "down", "left", "right", "esc"}

ASSUME SketchAssumption ==
  /\ {PressedSlots, PadWidth, PadHeight, Step, PosMax, Colours, MaxEvents} \subseteq Nat
  /\ \A k, l \in PadKeys : k.code \notin {0, Prefix, Break} /\ (k.code = l.code => k = l)
  /\ InputMap \in [DOMAIN InputMap -> Directions] /\ DOMAIN InputMap \cap {0, Prefix, Break} = {}
  /\ \A c, d \in DOMAIN InputMap : InputMap[c] = InputMap[d] => c = d

Clamp(v, top) == IF v < 0 THEN 0 ELSE IF v > top THEN top ELSE v

-----------------------------------------------------------------------------
(* The devices: every event sends bytes, as long as MaxEvents allows. *)

Lead(k) == IF k.ext THEN <<Prefix>> ELSE <<>>

KeyPress(k) ==
  /\ k \notin kb.down /\ kb.events < MaxEvents
  /\ kb' = [kb EXCEPT !.down = @ \cup {k}, !.wire = @ \o Lead(k) \o <<k.code>>, !.events = @ + 1]
  /\ UNCHANGED <<ms, pen>>

KeyRepeat(k) ==
  /\ k \in kb.down /\ kb.events < MaxEvents
  /\ kb' = [kb EXCEPT !.wire = @ \o Lead(k) \o <<k.code>>, !.events = @ + 1]
  /\ UNCHANGED <<ms, pen>>

KeyRelease(k) ==
  /\ k \in kb.down /\ kb.events < MaxEvents
  /\ kb' = [kb EXCEPT !.down = @ \ {k}, !.wire = @ \o Lead(k) \o <<Break, k.code>>, !.events = @ + 1]
  /\ UNCHANGED <<ms, pen>>

MouseMove(p) ==
  /\ kb.events < MaxEvents
  /\ kb' = [kb EXCEPT !.events = @ + 1]
  /\ ms' = [ms EXCEPT !.wire = @ \o [n \in 1..3 |-> [b |-> p[n], id |-> ms.sent + 1]], !.sent = @ + 1]
  /\ UNCHANGED pen

-----------------------------------------------------------------------------
(* The handlers *)

\* Keyboard_HandleScanCode: the first free entry, unless the code has one.
FirstSlot(arr, c) == CHOOSE i \in DOMAIN arr : arr[i] = c /\ \A j \in DOMAIN arr : arr[j] = c => i <= j
HasCode(arr, c) == \E i \in DOMAIN arr : arr[i] = c

\* A slip: a code that repeats is entered again.
HandleScanCodeTwice(arr, c, isPressed) ==
  IF isPressed THEN IF HasCode(arr, 0) THEN [arr EXCEPT ![FirstSlot(arr, 0)] = c] ELSE arr
  ELSE IF HasCode(arr, c) THEN [arr EXCEPT ![FirstSlot(arr, c)] = 0] ELSE arr

HandleScanCode(arr, c, isPressed) ==
  IF isPressed
  THEN IF HasCode(arr, c) \/ ~HasCode(arr, 0) THEN arr ELSE [arr EXCEPT ![FirstSlot(arr, 0)] = c]
  ELSE IF HasCode(arr, c) THEN [arr EXCEPT ![FirstSlot(arr, c)] = 0] ELSE arr

\* Keyboard_IRQ_Handler: one byte.  prev is set in the loop over the map.
Keyboard_IRQ_Handler(k) ==
  LET c == Head(k.wire)
      k1 == [k EXCEPT !.wire = Tail(@)]
      flags(v) == IF c \in DOMAIN InputMap THEN [k.flags EXCEPT ![InputMap[c]] = v] ELSE k.flags
  IN IF c = Prefix THEN k1
     ELSE IF c = Break THEN [k1 EXCEPT !.second = TRUE]
     ELSE IF k.second
          THEN [k1 EXCEPT !.second = FALSE, !.flags = flags(FALSE), !.typed = IF c = k.prev THEN c ELSE @,
                          !.arr = HandleScanCode(@, c, FALSE)]
     ELSE [k1 EXCEPT !.flags = flags(TRUE), !.prev = c, !.full = @ \/ (~HasCode(k.arr, c) /\ ~HasCode(k.arr, 0)),
                     !.arr = HandleScanCode(@, c, TRUE)]

Displacement(b, sign) == IF sign = 1 THEN b - 256 ELSE b

\* Mouse_IRQ_Handler: the third byte of a packet makes the others count.
Mouse_IRQ_Handler(m) ==
  LET got == Append(m.packet, Head(m.wire))
      m1 == [m EXCEPT !.wire = Tail(@), !.packet = IF Len(got) = 3 THEN <<>> ELSE got]
      dx == Displacement(got[2].b, (got[1].b \div 16) % 2)
      dy == Displacement(got[3].b, (got[1].b \div 32) % 2)
  IN IF Len(got) < 3 THEN m1
     ELSE [m1 EXCEPT !.buttons = got[1].b % 8, !.posx = Clamp(@ + dx, PosMax), !.posy = Clamp(@ + dy, PosMax),
                     !.offx = [v |-> dx, id |-> got[2].id], !.offy = [v |-> dy, id |-> got[3].id]]

\* irq_handler: the keyboard first, then the mouse, each if it has something.
irq_handler ==
  /\ kb.wire # <<>> \/ ms.wire # <<>>
  /\ kb' = IF kb.wire = <<>> THEN kb ELSE Keyboard_IRQ_Handler(kb)
  /\ ms' = IF ms.wire = <<>> THEN ms ELSE Mouse_IRQ_Handler(ms)
  /\ UNCHANGED pen

-----------------------------------------------------------------------------
(* The program.  Reading and clearing offsets is under DI, one at a time. *)

NoSprite == <<-1, -1>>
Still == [v |-> 0, id |-> 0]

\* WaitVRT, SpritesRegsBuffer_CopyToHardwareRegs and SpritesRegsBuffer_Clear.
FrameBegins ==
  /\ pen.at = "frame"
  /\ pen' = IF kb.flags.esc THEN [pen EXCEPT !.at = "exit"]
            ELSE [pen EXCEPT !.at = "keys", !.hw = pen.buffer, !.buffer = NoSprite]
  /\ UNCHANGED <<kb, ms>>

By(minus, plus) == (IF kb.flags[plus] THEN Step ELSE 0) - (IF kb.flags[minus] THEN Step ELSE 0)

ReadKeys ==
  /\ pen.at = "keys"
  /\ pen' = [pen EXCEPT !.at = "x", !.x = @ + By("left", "right"), !.y = @ + By("up", "down")]
  /\ UNCHANGED <<kb, ms>>

GetOffsetX ==
  /\ pen.at = "x"
  /\ pen' = [pen EXCEPT !.at = "y", !.x = @ + ms.offx.v, !.took = @ \cup {<<"x", ms.offx.id>>},
                      !.twice = @ \/ (ms.offx.id # 0 /\ <<"x", ms.offx.id>> \in pen.took)]
  /\ UNCHANGED <<kb, ms>>

GetOffsetY ==
  /\ pen.at = "y"
  /\ pen' = [pen EXCEPT !.at = "clear", !.y = @ - ms.offy.v, !.took = @ \cup {<<"y", ms.offy.id>>},
                      !.twice = @ \/ (ms.offy.id # 0 /\ <<"y", ms.offy.id>> \in pen.took)]
  /\ UNCHANGED <<kb, ms>>

ClearOffsets ==
  /\ pen.at = "clear"
  /\ ms' = [ms EXCEPT !.offx = Still, !.offy = Still]
  /\ pen' = [pen EXCEPT !.at = "right"]
  /\ UNCHANGED kb

RightButton ==
  /\ pen.at = "right"
  /\ pen' = [pen EXCEPT !.at = "draw", !.colour = IF (ms.buttons \div 2) % 2 = 1 THEN (@ + 1) % Colours ELSE @]
  /\ UNCHANGED <<kb, ms>>

\* The bounds, the sprite in its buffer, and a pixel under it with the left button.
Draw ==
  /\ pen.at = "draw"
  /\ LET x == Clamp(pen.x, PadWidth - 1)  y == Clamp(pen.y, PadHeight - 1)
     IN pen' = [pen EXCEPT !.at = "frame", !.x = x, !.y = y, !.buffer = <<x, y>>,
                           !.dot = IF ms.buttons % 2 = 1 THEN <<x, y>> ELSE NoSprite]
  /\ UNCHANGED <<kb, ms>>

-----------------------------------------------------------------------------
KeyboardInit == [wire |-> <<>>, down |-> {}, events |-> 0, full |-> FALSE, second |-> FALSE, prev |-> 0, typed |-> 0,
                 arr |-> [i \in 1..PressedSlots |-> 0], flags |-> [d \in Directions |-> FALSE]]

\* The handlers are installed while the mouse may be in the middle of a packet, of
\* which the first bytes went to the handler of FLOS.
install_irq_handler(rest, p) ==
  [wire |-> [n \in 1..rest |-> [b |-> p[n + 3 - rest], id |-> 1]], sent |-> 1, packet |-> <<>>,
   buttons |-> 0, posx |-> 0, posy |-> 0, offx |-> Still, offy |-> Still]

PenStart == [at |-> "frame", x |-> 0, y |-> 0, colour |-> 0, buffer |-> NoSprite, hw |-> NoSprite, dot |-> NoSprite,
             took |-> {}, twice |-> FALSE]

SketchInit ==
  /\ kb = KeyboardInit
  /\ \E rest \in 0..2, p \in PadPackets : ms = install_irq_handler(rest, p)
  /\ pen = PenStart

Program == FrameBegins \/ ReadKeys \/ GetOffsetX \/ GetOffsetY \/ ClearOffsets \/ RightButton \/ Draw

SketchNext ==
  \/ \E k \in PadKeys : KeyPress(k) \/ KeyRepeat(k) \/ KeyRelease(k)
  \/ \E p \in PadPackets : MouseMove(p)
  \/ irq_handler \/ Program

SketchVars == <<kb, ms, pen>>
SketchSpec == SketchInit /\ [][SketchNext]_SketchVars /\ WF_SketchVars(irq_handler) /\ WF_SketchVars(Program)

-----------------------------------------------------------------------------
DownCodes == {k.code : k \in kb.down}
PressedCodes == {kb.arr[i] : i \in DOMAIN kb.arr} \ {0}

\* When all that the keyboard sent was handled, arrPressed holds no key that is
\* up and none twice, and all that are down if it never was full; and a flag of
\* the program is set just when its key is down.  (Two keys with one code, told apart
\* by E0 only, are one key to these handlers: no two of PadKeys are.)
PressedAreDown ==
  kb.wire = <<>> =>
    /\ PressedCodes \subseteq DownCodes
    /\ \A i, j \in DOMAIN kb.arr : (i # j /\ kb.arr[i] = kb.arr[j]) => kb.arr[i] = 0
    /\ ~kb.full => PressedCodes = DownCodes
    /\ \A c \in DOMAIN InputMap : kb.flags[InputMap[c]] = (c \in DownCodes)

\* No motion of the mouse moves the pen twice, whenever its packets come in.
MotionAtMostOnce == ~pen.twice

\* While ESC is held the program gets to its end.
EscapeEnds ==
  (<>[](\E k \in kb.down : k.code \in DOMAIN InputMap /\ InputMap[k.code] = "esc")) => <>(pen.at = "exit")

\* What interrupts tell the program is true: keys that are down, and motion no
\* more than once.
InputSound == PressedAreDown /\ MotionAtMostOnce
=============================================================================
