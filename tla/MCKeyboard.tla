---------------------------- MODULE MCKeyboard ----------------------------
(* A letter and ESCAPE in two columns, so that the scan finds them in a     *)
(* fixed order, and CAPS LOCK.                                              *)
EXTENDS Keyboard

MCKeys == {65, 112, CapsLock}
=============================================================================
