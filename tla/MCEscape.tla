------------------------------ MODULE MCEscape ------------------------------
(* A flag of three bits, up to three escapes and two characters waiting.   *)
EXTENDS Escape
=============================================================================
