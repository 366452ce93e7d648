------------------------------ MODULE MCMouse -------------------------------
(* Windows that one packet crosses and that two do, a few displacements.    *)
EXTENDS Mouse

Window(w, h) == [a \in Axes |-> IF a = "x" THEN w ELSE h]
MCWindows   == {Window(300, 5), Window(1, 300)}
OneWindow   == {Window(9, 9)}

\* The ends of the range.
MCMoves     == {-256, 255}
\* A displacement without bit 3.
SmallMoves  == {3}

\* What the pointer does and what motion is told do not depend on the results
\* of the other calls.
Pointing == <<wire, driver, pc, told, packets>>
=============================================================================
