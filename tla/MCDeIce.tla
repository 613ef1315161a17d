------------------------------ MODULE MCDeIce ------------------------------
(* A byte of 25 values, so that the functions are 24 down to 16 and the error *)
(* reply 9; a buffer of 8 bytes; one register; two cells of memory at 1 and   *)
(* 2, with a read-only byte on both sides.                                    *)
EXTENDS DeIce

MCTSTG == <<5, 8>>
MCRegisters == {<<0>>, <<7>>}
MCRegister == {<<0>>}
MCNoise == {1}
MCQuiet == {}

\* Every function. WRITE_RG of the right and of a wrong length; READ_MEM over
\* all of the memory and of more than the buffer holds, WRITE_M inside the
\* memory, across its end and without an address, SET_BYTES of one cell twice
\* and across the end.
MCRequests == {
    <<24, 0>>, <<23, 2, 1, 3>>, <<23, 2, 0, 6>>,
    <<22, 0>>, <<22, 3, 1, 3, 4>>, <<22, 3, 2, 3, 4>>,
    <<21, 0>>, <<20, 2, 3, 1>>, <<20, 1, 3>>, <<19, 0>>, <<16, 0>>,
    <<18, 4, 1, 3, 1, 5>>, <<18, 6, 2, 5, 3, 3, 1, 3>>}
=============================================================================
