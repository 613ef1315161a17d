------------------------------ MODULE MCEcall ------------------------------
(* The trap kernel for TLC: two errors, and a stack for the deepest nest,  *)
(* an ecall and one of its handler, IRQ, the handler's ecall, NMI.         *)
EXTENDS Ecall
=============================================================================
