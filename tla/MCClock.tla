------------------------------ MODULE MCClock ------------------------------
(* A clock of three bits: every carry and the wrap of the whole clock      *)
(* happen, at every point of a read and a write.                           *)
EXTENDS Clock

MCWriteValues == {[d \in Digits |-> 0], [d \in Digits |-> IF d = 1 THEN 0 ELSE 1]}
=============================================================================
