------------------------------ MODULE KeyQueue ------------------------------
(***************************************************************************)
(* What FLOS promises a program that reads the keyboard: the key presses   *)
(* come out in the order they were typed, each with the qualifier keys     *)
(* that were down when it was typed.  The promise has one hole, the one    *)
(* the ring buffer of the kernal really has: the press that finds Size - 1 *)
(* presses unread may throw all of them away, itself included.             *)
(***************************************************************************)
EXTENDS Naturals, Sequences

CONSTANTS Entry,    \* a press as it is stored: scancode and qualifiers
          NoPress,  \* what kjt_get_key returns when nothing is waiting
          Size      \* slots of the ring buffer

VARIABLES queue,    \* the presses not read yet, oldest first
          got       \* what the last completed read returned

qvars == <<queue, got>>

Init == queue = <<>> /\ got = NoPress

Store(e) == Len(queue) < Size /\ queue' = Append(queue, e) /\ UNCHANGED got

WipeOut == Len(queue) = Size - 1 /\ queue' = <<>> /\ UNCHANGED got

Read == queue # <<>> /\ got' = Head(queue) /\ queue' = Tail(queue)

ReadNothing == queue = <<>> /\ got' = NoPress /\ UNCHANGED queue

Reset == queue' = <<>> /\ UNCHANGED got

Next == \/ \E e \in Entry : Store(e)
        \/ WipeOut \/ Read \/ ReadNothing \/ Reset

Spec == Init /\ [][Next]_qvars
=============================================================================
