------------------------------ MODULE Pointer -------------------------------
(***************************************************************************)
(* What FLOS promises a program that uses the mouse: the pointer follows   *)
(* the movements of the mouse, one after the other and each as a whole,    *)
(* and stops at the edges of the window; the motions a program is told add *)
(* up to the way the mouse went, none of it twice and none of it lost.     *)
(***************************************************************************)
EXTENDS Integers, Sequences

CONSTANTS Moves,     \* displacements of one axis
          Buttons,   \* states of the buttons
          Windows    \* the windows programs ask for

VARIABLES window,    \* the last coordinate of each axis
          moves,     \* movements the pointer has not followed yet
          pos,       \* the pointer
          motion,    \* the way of the pointer since the program was told
          buttons,
          told       \* the last motion the program was told

pvars == <<window, moves, pos, motion, buttons, told>>

Axes   == {"x", "y"}
Still  == [a \in Axes |-> 0]
Within(p, size) == IF p < 0 THEN 0 ELSE IF p > size THEN size ELSE p

Init ==
  /\ window \in Windows /\ moves = <<>> /\ pos = Still /\ motion = Still
  /\ buttons = 0 /\ told = Still

Move(d, b) ==
  /\ moves' = Append(moves, [d |-> d, b |-> b])
  /\ UNCHANGED <<window, pos, motion, buttons, told>>

Follow ==
  /\ moves # <<>> /\ moves' = Tail(moves)
  /\ LET d == Head(moves).d
     IN  /\ pos' = [a \in Axes |-> Within(pos[a] + d[a], window[a])]
         /\ motion' = [a \in Axes |-> motion[a] + d[a]]
  /\ buttons' = Head(moves).b
  /\ UNCHANGED <<window, told>>

Tell == told' = motion /\ motion' = Still /\ UNCHANGED <<window, moves, pos, buttons>>

(* A program asks for a window; the pointer goes to its corner.            *)
Enable(w) ==
  /\ window' = w /\ pos' = Still /\ motion' = Still /\ buttons' = 0
  /\ UNCHANGED <<moves, told>>

Next ==
  \/ Follow \/ Tell
  \/ \E w \in Windows : Enable(w)
  \/ \E d \in [Axes -> Moves], b \in Buttons : Move(d, b)

Spec == Init /\ [][Next]_pvars
=============================================================================
