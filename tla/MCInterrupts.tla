---------------------------- MODULE MCInterrupts ----------------------------
(* The clock of MCClock under the dispatcher, with phases of unequal       *)
(* length and a key among the sources.                                     *)
EXTENDS Interrupts

MCWriteValues == {[d \in Digits |-> 0], [d \in Digits |-> IF d = 1 THEN 0 ELSE 1]}
=============================================================================
