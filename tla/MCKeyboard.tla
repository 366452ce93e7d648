----------------------------- MODULE MCKeyboard -----------------------------
(* A small keyboard for TLC: one qualifier, and an arrow key with the       *)
(* prefix $e0.                                                              *)
EXTENDS Keyboard

MCKeys == {"shift", "up"}
MCCode == [k \in MCKeys |-> k]
=============================================================================
