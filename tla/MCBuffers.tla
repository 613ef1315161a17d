----------------------------- MODULE MCBuffers -----------------------------
(* An input and an output buffer for TLC.  The input buffer is as long as  *)
(* the byte is wide, the case of buffer 1, whose 0x100 slots are all that  *)
(* a uint8_t offset can name.                                              *)
EXTENDS Buffers, TLC

MCBuffers == {1, 2}
MCLengths == 1 :> 3 @@ 2 :> 2
MCByteSize == 3
MCData == {1, 2}

(* Bound: a behaviour uses one of the buffers.  What they share is the     *)
(* mask, which an operation holds whichever buffer it is on.               *)
Unused(b) ==
  /\ buf_ix_in[b] = 0 /\ buf_ix_out[b] = 0 /\ mem[b] = [i \in 0..ByteSize-1 |-> 0]
  /\ \A c \in Ctx : call[c].b # b
OneInUse == \E b \in Buffers : Unused(b)

MCFairSpec ==
  Init /\ [][Next /\ OneInUse']_vars /\ WF_vars(\E c \in Ctx : Step(c))
=============================================================================
