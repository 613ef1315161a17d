---------------------------- MODULE BufferFifo ----------------------------
(***************************************************************************)
(* What the buffer vectors of the MOS promise their callers: each buffer   *)
(* is a bounded first-in first-out queue of bytes, every call of INSV,     *)
(* REMV or CNPV takes effect at one instant, and the caller gets the       *)
(* answer that belongs to that instant.  Nothing here knows of indices,    *)
(* of the ring's memory or of the interrupt mask: module Buffers has these *)
(* and is shown to implement this one.                                     *)
(***************************************************************************)
EXTENDS Integers, Sequences

CONSTANTS
  Buffers,     \* the buffer numbers, a subset of 0..BUFNOMAX
  LENGTHS,     \* the length of each ring; one slot of it is never used
  Data,        \* the bytes callers insert
  Ctx,         \* the execution contexts that call the vectors
  ByteSize     \* the values of a uint8_t: 256 in the code

VARIABLES
  q,           \* the content of each buffer, oldest byte first
  ret          \* what the last call of each context was answered

vars == <<q, ret>>

(* An answer: the carry flag of the 6502 convention, the byte or count     *)
(* handed back, and the event the call raised.                             *)
Answer(carry, val, ev) == [carry |-> carry, val |-> val, ev |-> ev]
Void == Answer(FALSE, 0, "none")
Failed == Answer(TRUE, 0, "none")

Init == /\ q = [b \in Buffers |-> <<>>]
        /\ ret = [c \in Ctx |-> Void]

Reply(c, a) == ret' = [ret EXCEPT ![c] = a]

Insert(c, b, d) ==
  /\ Len(q[b]) < LENGTHS[b] - 1
  /\ q' = [q EXCEPT ![b] = Append(@, d)]
  /\ Reply(c, Void)

(* A full buffer refuses the byte; for the two input buffers event 1 says  *)
(* so.                                                                     *)
InsertFull(c, b) ==
  /\ Len(q[b]) = LENGTHS[b] - 1
  /\ Reply(c, Answer(TRUE, 0, IF b < 2 THEN "input_full" ELSE "none"))
  /\ UNCHANGED q

(* Event 0 is raised by exactly the removal that empties an output buffer. *)
Remove(c, b) ==
  /\ q[b] # <<>>
  /\ q' = [q EXCEPT ![b] = Tail(@)]
  /\ Reply(c, Answer(FALSE, Head(q[b]),
                     IF b >= 2 /\ Len(q[b]) = 1 THEN "output_empty" ELSE "none"))

Peek(c, b) ==
  /\ q[b] # <<>>
  /\ Reply(c, Answer(FALSE, Head(q[b]), "none"))
  /\ UNCHANGED q

RemoveEmpty(c, b) ==
  /\ q[b] = <<>>
  /\ Reply(c, Failed)
  /\ UNCHANGED q

Purge(c, b) ==
  /\ q' = [q EXCEPT ![b] = <<>>]
  /\ Reply(c, Void)

(* CNPV answers in a uint8_t.                                              *)
Count(c, b) ==
  /\ Reply(c, Answer(FALSE, Len(q[b]) % ByteSize, "none"))
  /\ UNCHANGED q

(* The free space is counted from the ring's length, so it is one more     *)
(* than the number of bytes that can still be inserted.                    *)
Free(c, b) ==
  /\ Reply(c, Answer(FALSE, (LENGTHS[b] - Len(q[b])) % ByteSize, "none"))
  /\ UNCHANGED q

(* A number past BUFNOMAX: INSV and REMV set carry, CNPV answers 0.         *)
NotOurs(c) ==
  /\ \/ Reply(c, Failed)
     \/ Reply(c, Void)
  /\ UNCHANGED q

Next == \E c \in Ctx :
  \/ NotOurs(c)
  \/ \E b \in Buffers :
          \/ \E d \in Data : Insert(c, b, d)
          \/ InsertFull(c, b)
          \/ Remove(c, b)
          \/ Peek(c, b)
          \/ RemoveEmpty(c, b)
          \/ Purge(c, b)
          \/ Count(c, b)
          \/ Free(c, b)

Spec == Init /\ [][Next]_vars
=============================================================================
