---------------------------- MODULE MCSerialLink ----------------------------
(* Files of one and two blocks.                                            *)
EXTENDS SerialLink

MCLength == [f \in Files |-> IF f = "long" THEN 2 ELSE 1]

(* All of memory, and a memory that ends within the long file.             *)
MCRoom  == MCLength
MCFull  == [f \in Files |-> 1]
=============================================================================
