------------------------------- MODULE Mouse --------------------------------
(***************************************************************************)
(* The mouse of FLOS: the three bytes a PS/2 mouse sends for a movement,   *)
(* the interrupt routine that puts them together (FLOS_irq_code.asm), and  *)
(* the kernal calls that read the pointer (FLOS_mouse_code.asm).           *)
(*                                                                         *)
(* One action is one uninterruptible piece of code, as in Keyboard:        *)
(* os_get_mouse_position runs with interrupts enabled and is cut between   *)
(* its loads, os_get_mouse_motion disables them around all but the last.   *)
(* Registers and variables are 8 and 16 bits wide.                         *)
(***************************************************************************)
EXTENDS Integers, Sequences

CONSTANTS
  Moves,           \* displacements of one axis in one packet
  Buttons,         \* states of the buttons, three bits
  Windows,         \* windows, [x, y], that kjt_enable_mouse is called with
  MaxPackets,      \* bound on the packets of a behaviour
  MaxWire,         \* bound on the bytes the mouse holds back
  MaxLost,         \* bound on the bytes that are lost
  EnableMidPacket  \* workload: kjt_enable_mouse while a packet arrives

Axes == {"x", "y"}
Word == 65536
Half == 32768

(* The largest step, 256 down, from the edge of the largest window is no   *)
(* negative number of 16 bits.                                             *)
ASSUME MouseAssumption ==
  /\ Moves \subseteq -256 .. 255
  /\ Buttons \subseteq 0 .. 7
  /\ Windows \subseteq [Axes -> 0 .. Half - 257]
  /\ {MaxPackets, MaxWire, MaxLost} \subseteq Nat
  /\ EnableMidPacket \in BOOLEAN

VARIABLES
  wire,               \* bytes of the mouse the Z80 has not taken
  use_mouse, mouse_packet, mouse_packet_index,
  mouse_buttons,
  mouse_pos,          \* mouse_pos_x and mouse_pos_y
  mouse_disp,         \* mouse_disp_x and mouse_disp_y
  old_mouse_disp,
  mouse_window_size,
  pc,                 \* where the main program is
  hl_de,              \* registers HL and DE
  got,                \* position and buttons the last call returned
  told,               \* motion the last call returned
  seen,               \* history: positions of the pointer since the call began
  packets,            \* packets the mouse has sent, for the bound
  lost,               \* bytes lost, for the bound
  since               \* history: packets sent since the last byte was lost

driver == <<use_mouse, mouse_packet, mouse_packet_index, mouse_buttons,
            mouse_pos, mouse_disp, old_mouse_disp, mouse_window_size>>
caller == <<pc, hl_de, got, told, seen>>
world  == <<packets, lost, since>>
vars   == <<wire, driver, caller, world>>

Origin == [a \in Axes |-> 0]

(* Arithmetic of 16 bits.                                                  *)
Add(u, v) == IF u + v < Word THEN u + v ELSE u + v - Word
Sub(u, v) == IF u < v THEN u - v + Word ELSE u - v
Signed(u) == IF u < Half THEN u ELSE u - Word

Init ==
  /\ wire = <<>>
  /\ use_mouse = FALSE
  /\ mouse_packet = [i \in 0 .. 2 |-> 0] /\ mouse_packet_index = 0
  /\ mouse_buttons = 0 /\ mouse_pos = Origin
  /\ mouse_disp = Origin /\ old_mouse_disp = Origin
  /\ mouse_window_size \in Windows
  /\ pc = "program" /\ hl_de = Origin /\ got = [pos |-> Origin, buttons |-> 0]
  /\ told = Origin /\ seen = {}
  /\ packets = 0 /\ lost = 0 /\ since = 0

-----------------------------------------------------------------------------
(* The mouse.  The first byte of a packet has the buttons, bit 3 which is  *)
(* always set, and the signs of the two displacements.                     *)

Bit(byte, weight) == (byte \div weight) % 2 = 1
Sign(d, weight)   == IF d < 0 THEN weight ELSE 0
Packet(d, b) ==
  <<b + 8 + Sign(d.x, 16) + Sign(d.y, 32), d.x % 256, d.y % 256>>

(* Its y axis goes up, that of the screen down.                            *)
Move(d, b) ==
  /\ use_mouse /\ packets < MaxPackets /\ Len(wire) + 3 <= MaxWire
  /\ wire' = wire \o Packet(d, b)
  /\ packets' = packets + 1 /\ since' = since + 1
  /\ UNCHANGED <<driver, caller, lost>>

Lose ==
  /\ wire # <<>> /\ lost < MaxLost
  /\ wire' = Tail(wire)
  /\ lost' = lost + 1 /\ since' = 0
  /\ UNCHANGED <<driver, caller, packets>>

-----------------------------------------------------------------------------
(* mouse_irq_code.                                                         *)

Take ==
  /\ use_mouse /\ wire # <<>>
  /\ mouse_packet' = [mouse_packet EXCEPT ![mouse_packet_index] = Head(wire)]
  /\ wire' = Tail(wire)
  /\ UNCHANGED <<use_mouse, old_mouse_disp, mouse_window_size,
                 pc, hl_de, got, told, world>>

MidPacket == UNCHANGED <<mouse_buttons, mouse_pos, mouse_disp, seen>>

(* A byte that cannot be the first of a packet is dropped.                 *)
SkipByte ==
  /\ Take /\ MidPacket
  /\ mouse_packet_index = 0 /\ ~Bit(Head(wire), 8)
  /\ UNCHANGED mouse_packet_index

\* A slip: bit 3 is not looked at.
TakeByteUnchecked ==
  /\ Take /\ MidPacket
  /\ mouse_packet_index < 2
  /\ mouse_packet_index' = mouse_packet_index + 1

TakeByte ==
  /\ Take /\ MidPacket
  /\ mouse_packet_index < 2
  /\ mouse_packet_index = 0 => Bit(Head(wire), 8)
  /\ mouse_packet_index' = mouse_packet_index + 1

(* The two displacements in 16 bits, from the packet as it is now.         *)
Displacement(byte, negative) == byte + (IF negative THEN Word - 256 ELSE 0)
Way(p) == [a \in Axes |->
  IF a = "x" THEN Displacement(p[1], Bit(p[0], 16))
             ELSE Sub(0, Displacement(p[2], Bit(p[0], 32)))]

\* A slip: the boundary on the right is taken for a size.
ClampBelow(p, size) == IF p >= Half THEN 0 ELSE IF p < size THEN p ELSE size - 1

\* A slip: the boundary on the right is not looked at.
ClampLeftOnly(p, size) == IF p >= Half THEN 0 ELSE p

(* "check boundaries": bit 15 of the sum, then the window.                 *)
Clamp(p, size) == IF p >= Half THEN 0 ELSE IF p < size THEN p ELSE size

TakePacket ==
  /\ Take
  /\ mouse_packet_index = 2
  /\ mouse_packet_index' = 0
  /\ mouse_buttons' = mouse_packet'[0] % 8
  /\ LET d == Way(mouse_packet')
     IN  /\ mouse_disp' = [a \in Axes |-> Add(mouse_disp[a], d[a])]
         /\ mouse_pos' = [a \in Axes |->
              Clamp(Add(mouse_pos[a], d[a]), mouse_window_size[a])]
  /\ seen' = IF pc = "program" THEN seen ELSE seen \cup {mouse_pos'}

-----------------------------------------------------------------------------
(* The kernal calls.                                                       *)

(* os_enable_mouse, with interrupts disabled.                              *)
EnableMouse(w) ==
  /\ pc = "program"
  /\ EnableMidPacket \/ (wire = <<>> /\ mouse_packet_index = 0)
  /\ mouse_window_size' = w /\ use_mouse' = TRUE
  /\ mouse_packet' = [i \in 0 .. 2 |-> 0] /\ mouse_packet_index' = 0
  /\ mouse_buttons' = 0 /\ mouse_pos' = Origin
  /\ mouse_disp' = Origin /\ old_mouse_disp' = Origin
  /\ since' = 0
  /\ UNCHANGED <<wire, caller, packets, lost>>

(* os_get_mouse_position: x, then y, then the buttons.                     *)
GetX ==
  /\ pc = "program" /\ use_mouse
  /\ hl_de' = [hl_de EXCEPT !.x = mouse_pos.x]
  /\ seen' = {mouse_pos} /\ pc' = "y"
  /\ UNCHANGED <<wire, driver, got, told, world>>

GetY ==
  /\ pc = "y"
  /\ hl_de' = [hl_de EXCEPT !.y = mouse_pos.y]
  /\ pc' = "buttons"
  /\ UNCHANGED <<wire, driver, got, told, seen, world>>

GetButtons ==
  /\ pc = "buttons"
  /\ got' = [pos |-> hl_de, buttons |-> mouse_buttons]
  /\ pc' = "program"
  /\ UNCHANGED <<wire, driver, hl_de, told, seen, world>>

Motion == [a \in Axes |-> Sub(mouse_disp[a], old_mouse_disp[a])]

\* A slip: old_mouse_disp_y is not brought up to date.
GetMotionForgetY ==
  /\ pc = "program" /\ use_mouse
  /\ told' = Motion
  /\ old_mouse_disp' = [old_mouse_disp EXCEPT !.x = mouse_disp.x]
  /\ UNCHANGED <<wire, use_mouse, mouse_packet, mouse_packet_index, mouse_buttons,
                 mouse_pos, mouse_disp, mouse_window_size, pc, hl_de, got, seen, world>>

(* os_get_mouse_motion.  Its last load, of the buttons, is no concern here.*)
GetMotion ==
  /\ pc = "program" /\ use_mouse
  /\ told' = Motion
  /\ old_mouse_disp' = mouse_disp
  /\ UNCHANGED <<wire, use_mouse, mouse_packet, mouse_packet_index, mouse_buttons,
                 mouse_pos, mouse_disp, mouse_window_size, pc, hl_de, got, seen, world>>

-----------------------------------------------------------------------------
MouseIrq == SkipByte \/ TakeByte \/ TakePacket
Call == GetX \/ GetY \/ GetButtons \/ GetMotion \/ \E w \in Windows : EnableMouse(w)

Next ==
  \/ \E d \in [Axes -> Moves], b \in Buttons : Move(d, b)
  \/ Lose \/ MouseIrq \/ Call

Spec == Init /\ [][Next]_vars

-----------------------------------------------------------------------------
Words == 0 .. Word - 1

(* The contents of every variable.  The pointer is inside the window.      *)
TypeOK ==
  /\ wire \in Seq(0 .. 255)
  /\ use_mouse \in BOOLEAN
  /\ mouse_packet \in [0 .. 2 -> 0 .. 255]
  /\ mouse_packet_index \in 0 .. 2
  /\ mouse_buttons \in 0 .. 7
  /\ mouse_window_size \in Windows
  /\ \A a \in Axes : mouse_pos[a] \in 0 .. mouse_window_size[a]
  /\ DOMAIN mouse_pos = Axes
  /\ mouse_disp \in [Axes -> Words] /\ old_mouse_disp \in [Axes -> Words]
  /\ pc \in {"program", "y", "buttons"}

(* The packets that are under way: what is on the wire, with the bytes the *)
(* driver already has.                                                     *)
Coming ==
  LET bytes == [i \in 1 .. mouse_packet_index |-> mouse_packet[i - 1]] \o wire
      move(packet) == [d |-> [a \in Axes |-> Signed(Way(packet)[a])], b |-> packet[0] % 8]
  IN  [k \in 1 .. Len(bytes) \div 3 |-> move([i \in 0 .. 2 |-> bytes[3 * k - 2 + i]])]

(* The driver implements a pointer that follows the mouse, when no byte is *)
(* lost: no packet is taken apart, every displacement keeps its sign in 16 *)
(* bits, and motion that is told is told once.                             *)
Promise == INSTANCE Pointer WITH
  Moves <- {Signed(Sub(0, m % Word)) : m \in Moves} \cup Moves,
  window <- mouse_window_size, moves <- Coming, pos <- mouse_pos,
  motion <- [a \in Axes |-> Signed(Motion[a])], buttons <- mouse_buttons,
  told <- [a \in Axes |-> Signed(told[a])]
PointerFollowsMouse == Promise!Spec

(* The boundary checks on 16 bits stop the pointer exactly where the sum   *)
(* of the integers leaves the window.                                      *)
PointerClamped ==
  [][TakePacket =>
       \A a \in Axes :
         mouse_pos'[a] = Promise!Within(mouse_pos[a] + Signed(Way(mouse_packet')[a]),
                                        mouse_window_size[a])]_vars

(* A lost byte puts the driver out of step.  When only the first byte of a *)
(* packet has bit 3, as with small displacements to the right and upwards, *)
(* the test of that bit puts it in step again with the next packet.        *)
AlignsAgain == since >= 1 /\ wire = <<>> => mouse_packet_index = 0

(* Each coordinate that kjt_get_mouse_position returns is one the pointer  *)
(* had during the call.  The pair may be of two moments: interrupts are on *)
(* between the loads.                                                      *)
CoordinatesAreReal ==
  pc = "buttons" => \A a \in Axes : hl_de[a] \in {s[a] : s \in seen}

\* Lost bytes and packets in the middle of a read: the driver is in step again
\* after one packet, and what it tells is where the pointer was.
DriverKeepsUp == AlignsAgain /\ CoordinatesAreReal
=============================================================================
