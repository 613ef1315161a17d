------------------------------ MODULE Buffers ------------------------------
(***************************************************************************)
(* The ring buffers of buffers.c, one memory access of the C code a step.  *)
(*                                                                         *)
(* Two contexts run the vectors: "main", the ecall of the user program,    *)
(* and "irq", the interrupt handler that may enter between any two steps   *)
(* of main while the IRQ is not masked, and that runs to its end before    *)
(* main goes on.  The keyboard handler inserts; an escape handler that is  *)
(* called from the interrupt may issue any OSBYTE, so both contexts are    *)
(* given every operation.  What keeps the two apart is the mask that each  *)
(* operation sets by interrupts_disable(INT_IRQ) and restores at its end.  *)
(***************************************************************************)
EXTENDS Integers, Sequences

CONSTANTS
  Buffers,     \* buffer numbers in use, a subset of 0..BUFNOMAX
  LENGTHS,     \* BUF_LENGTHS
  Data,        \* bytes that are inserted
  ByteSize     \* 2^8 in the code; REMV's offsets are uint8_t

Ctx == {"main", "irq"}

ASSUME BuffersAssumption == Buffers \subseteq Nat
ASSUME ByteSizeAssumption == ByteSize \in Nat \ {0}
ASSUME DataAssumption == Data \subseteq Nat
(* The largest ring, buffer 1, has 0x100 slots: as many as a uint8_t has   *)
(* values.                                                                 *)
ASSUME LengthsAssumption ==
  LENGTHS \in [Buffers -> Nat] /\ \A b \in Buffers : LENGTHS[b] \in 2..ByteSize

VARIABLES
  buf_ix_in,   \* [Buffers -> index of the next free slot]
  buf_ix_out,  \* [Buffers -> index of the oldest byte]
  mem,         \* [Buffers -> [slot -> byte]]: the memory at BUF_STARTS
  masked,      \* the IRQ bit of the interrupt mask register
  in_irq,      \* the interrupt handler is running
  call,        \* [Ctx -> the operation in progress and its locals]
  ret,         \* [Ctx -> the answer of the last operation]
  sequence     \* a VDU sequence (OSB_VDU_QSIZE) or soft key is half way

vars == <<buf_ix_in, buf_ix_out, mem, masked, in_irq, call, ret, sequence>>
ring == <<buf_ix_in, buf_ix_out, mem>>

Idle == [pc |-> "idle", b |-> -1, d |-> 0, flag |-> FALSE, irq |-> FALSE,
         offso |-> 0, offsi |-> 0, c |-> 0]

Answer(carry, val, ev) == [carry |-> carry, val |-> val, ev |-> ev]
Void == Answer(FALSE, 0, "none")
Failed == Answer(TRUE, 0, "none")

Init == /\ buf_ix_in = [b \in Buffers |-> 0]
        /\ buf_ix_out = [b \in Buffers |-> 0]
        /\ mem \in [Buffers -> [0..ByteSize-1 -> {0}]]
        /\ masked = FALSE
        /\ in_irq = FALSE
        /\ call = [c \in Ctx |-> Idle]
        /\ ret = [c \in Ctx |-> Void]
        /\ sequence = FALSE

-----------------------------------------------------------------------------
(* Helpers.                                                                *)

Running(c) == c = IF in_irq THEN "irq" ELSE "main"

At(c, pc) == Running(c) /\ call[c].pc = pc

(* Mutant: the comparison is off by one.                                   *)
Bug_Wrap(b, i) == IF i + 1 > LENGTHS[b] THEN 0 ELSE i + 1

(* The wrap of INSV, on an int.                                            *)
Wrap(b, i) == IF i + 1 >= LENGTHS[b] THEN 0 ELSE i + 1

(* The wrap of REMV: offso++ happens in a uint8_t before the comparison.   *)
WrapByte(b, i) ==
  LET n == (i + 1) % ByteSize IN IF n >= LENGTHS[b] THEN 0 ELSE n

Goto(c, pc) == call' = [call EXCEPT ![c].pc = pc]

Reply(c, a) == ret' = [ret EXCEPT ![c] = a]

(* Mutant: the operation forgets to mask the IRQ.                          *)
Bug_Enter(c, pc, b, d, flag) ==
  /\ At(c, "idle")
  /\ call' = [call EXCEPT ![c] =
                [Idle EXCEPT !.pc = pc, !.b = b, !.d = d, !.flag = flag, !.irq = masked]]
  /\ UNCHANGED <<ring, masked, in_irq, ret, sequence>>

(* Every operation begins by saving the mask and setting it to the IRQ.    *)
Enter(c, pc, b, d, flag) ==
  /\ At(c, "idle")
  /\ call' = [call EXCEPT ![c] =
                [Idle EXCEPT !.pc = pc, !.b = b, !.d = d, !.flag = flag, !.irq = masked]]
  /\ masked' = TRUE
  /\ UNCHANGED <<ring, in_irq, ret, sequence>>

(* interrupts_disable(irq); return ...                                     *)
Restore(c) ==
  /\ At(c, "restore")
  /\ masked' = call[c].irq
  /\ call' = [call EXCEPT ![c] = Idle]
  /\ UNCHANGED <<ring, in_irq, ret, sequence>>

(* buffer_num > BUFNOMAX: the vectors answer before they touch anything.   *)
NotOurs(c) ==
  /\ At(c, "idle")
  /\ Reply(c, Failed) \/ Reply(c, Void)
  /\ UNCHANGED <<ring, masked, in_irq, call, sequence>>

-----------------------------------------------------------------------------
(* INSV                                                                    *)

InsvEnter(c, b, d) == Enter(c, "insv_load", b, d, FALSE)

InsvLoad(c) ==
  /\ At(c, "insv_load")
  /\ call' = [call EXCEPT ![c].pc = "insv_test", ![c].offso = buf_ix_in[call[c].b]]
  /\ UNCHANGED <<ring, masked, in_irq, ret, sequence>>

(* Mutant: the early return of a full buffer forgets to restore the mask.  *)
Bug_InsvFull(c) ==
  LET b == call[c].b IN
  /\ At(c, "insv_test")
  /\ Wrap(b, call[c].offso) = buf_ix_out[b]
  /\ Reply(c, Answer(TRUE, 0, IF b < 2 THEN "input_full" ELSE "none"))
  /\ Goto(c, "idle")
  /\ UNCHANGED <<ring, masked, in_irq, sequence>>

InsvFull(c) ==
  LET b == call[c].b IN
  /\ At(c, "insv_test")
  /\ Wrap(b, call[c].offso) = buf_ix_out[b]
  /\ Reply(c, Answer(TRUE, 0, IF b < 2 THEN "input_full" ELSE "none"))
  /\ Goto(c, "restore")
  /\ UNCHANGED <<ring, masked, in_irq, sequence>>

InsvRoom(c) ==
  LET b == call[c].b IN
  /\ At(c, "insv_test")
  /\ Wrap(b, call[c].offso) # buf_ix_out[b]
  /\ Goto(c, "insv_store")
  /\ UNCHANGED <<ring, masked, in_irq, ret, sequence>>

InsvStore(c) ==
  /\ At(c, "insv_store")
  /\ mem' = [mem EXCEPT ![call[c].b][call[c].offso] = call[c].d]
  /\ Goto(c, "insv_commit")
  /\ UNCHANGED <<buf_ix_in, buf_ix_out, masked, in_irq, ret, sequence>>

InsvCommit(c) ==
  LET b == call[c].b IN
  /\ At(c, "insv_commit")
  /\ buf_ix_in' = [buf_ix_in EXCEPT ![b] = Wrap(b, call[c].offso)]
  /\ Reply(c, Void)
  /\ Goto(c, "restore")
  /\ UNCHANGED <<buf_ix_out, mem, masked, in_irq, sequence>>

-----------------------------------------------------------------------------
(* REMV; flag is FLAG_V, a peek.                                           *)

RemvEnter(c, b, peek) == Enter(c, "remv_load", b, 0, peek)

RemvLoad(c) ==
  LET b == call[c].b IN
  /\ At(c, "remv_load")
  /\ call' = [call EXCEPT ![c].pc = "remv_test",
                          ![c].offso = buf_ix_out[b] % ByteSize,
                          ![c].offsi = buf_ix_in[b] % ByteSize]
  /\ UNCHANGED <<ring, masked, in_irq, ret, sequence>>

(* Mutant: the early return of an empty buffer forgets to restore the mask. *)
Bug_RemvEmpty(c) ==
  /\ At(c, "remv_test")
  /\ buf_ix_in[call[c].b] = call[c].offso
  /\ Reply(c, Failed)
  /\ Goto(c, "idle")
  /\ UNCHANGED <<ring, masked, in_irq, sequence>>

RemvEmpty(c) ==
  /\ At(c, "remv_test")
  /\ buf_ix_in[call[c].b] = call[c].offso
  /\ Reply(c, Failed)
  /\ Goto(c, "restore")
  /\ UNCHANGED <<ring, masked, in_irq, sequence>>

RemvSome(c) ==
  /\ At(c, "remv_test")
  /\ buf_ix_in[call[c].b] # call[c].offso
  /\ Goto(c, "remv_fetch")
  /\ UNCHANGED <<ring, masked, in_irq, ret, sequence>>

RemvFetch(c) ==
  LET b == call[c].b
      v == mem[b][call[c].offso]
  IN
  /\ At(c, "remv_fetch")
  /\ IF call[c].flag
       THEN /\ call' = [call EXCEPT ![c].pc = "restore", ![c].c = v]
            /\ Reply(c, Answer(FALSE, v, "none"))
       ELSE /\ call' = [call EXCEPT ![c].pc = "remv_advance", ![c].c = v]
            /\ UNCHANGED ret
  /\ UNCHANGED <<ring, masked, in_irq, sequence>>

(* Mutant: the event compares the offset from before the increment.        *)
Bug_RemvAdvance(c) ==
  LET b == call[c].b IN
  /\ At(c, "remv_advance")
  /\ buf_ix_out' = [buf_ix_out EXCEPT ![b] = WrapByte(b, call[c].offso)]
  /\ Reply(c, Answer(FALSE, call[c].c,
             IF b >= 2 /\ call[c].offso = call[c].offsi THEN "output_empty" ELSE "none"))
  /\ Goto(c, "restore")
  /\ UNCHANGED <<buf_ix_in, mem, masked, in_irq, sequence>>

(* The event compares with the in index latched before the byte was taken. *)
RemvAdvance(c) ==
  LET b == call[c].b
      offso == WrapByte(b, call[c].offso)
  IN
  /\ At(c, "remv_advance")
  /\ buf_ix_out' = [buf_ix_out EXCEPT ![b] = offso]
  /\ Reply(c, Answer(FALSE, call[c].c,
             IF b >= 2 /\ offso = call[c].offsi THEN "output_empty" ELSE "none"))
  /\ Goto(c, "restore")
  /\ UNCHANGED <<buf_ix_in, mem, masked, in_irq, sequence>>

-----------------------------------------------------------------------------
(* buffers_flush: masks, forgets a half-sent VDU sequence when an input    *)
(* buffer is flushed, and purges by CNPV with FLAG_V.                      *)

FlushEnter(c, b) == Enter(c, "flush_clear", b, 0, FALSE)

FlushClear(c) ==
  /\ At(c, "flush_clear")
  /\ sequence' = IF call[c].b <= 1 THEN FALSE ELSE sequence
  /\ Goto(c, "flush_load")
  /\ UNCHANGED <<ring, masked, in_irq, ret>>

FlushLoad(c) ==
  /\ At(c, "flush_load")
  /\ call' = [call EXCEPT ![c].pc = "flush_purge", ![c].offsi = buf_ix_in[call[c].b]]
  /\ UNCHANGED <<ring, masked, in_irq, ret, sequence>>

FlushPurge(c) ==
  /\ At(c, "flush_purge")
  /\ buf_ix_out' = [buf_ix_out EXCEPT ![call[c].b] = call[c].offsi]
  /\ Reply(c, Void)
  /\ Goto(c, "restore")
  /\ UNCHANGED <<buf_ix_in, mem, masked, in_irq, sequence>>

-----------------------------------------------------------------------------
(* CNPV without FLAG_V; flag is FLAG_C, the free space.                    *)

CnpvEnter(c, b, free) == Enter(c, "cnpv_in", b, 0, free)

CnpvIn(c) ==
  /\ At(c, "cnpv_in")
  /\ call' = [call EXCEPT ![c].pc = "cnpv_out", ![c].offsi = buf_ix_in[call[c].b]]
  /\ UNCHANGED <<ring, masked, in_irq, ret, sequence>>

CnpvOut(c) ==
  LET b == call[c].b
      diff == call[c].offsi - buf_ix_out[b]
      count == IF diff < 0 THEN LENGTHS[b] + diff ELSE diff
      r == IF call[c].flag THEN LENGTHS[b] - count ELSE count
  IN
  /\ At(c, "cnpv_out")
  /\ Reply(c, Answer(FALSE, r % ByteSize, "none"))
  /\ Goto(c, "restore")
  /\ UNCHANGED <<ring, masked, in_irq, sequence>>

-----------------------------------------------------------------------------
(* The interrupt, and vdu_write queueing the bytes of a VDU sequence.      *)

IrqEnter ==
  /\ ~masked /\ ~in_irq
  /\ in_irq' = TRUE
  /\ UNCHANGED <<ring, masked, call, ret, sequence>>

IrqExit ==
  /\ At("irq", "idle")
  /\ in_irq' = FALSE
  /\ UNCHANGED <<ring, masked, call, ret, sequence>>

VduSequence ==
  /\ At("main", "idle") /\ ~sequence
  /\ sequence' = TRUE
  /\ UNCHANGED <<ring, masked, in_irq, call, ret>>

Begin(c) ==
  \/ NotOurs(c)
  \/ \E b \in Buffers :
       \/ \E d \in Data : InsvEnter(c, b, d)
       \/ \E peek \in BOOLEAN : RemvEnter(c, b, peek)
       \/ \E free \in BOOLEAN : CnpvEnter(c, b, free)
       \/ FlushEnter(c, b)

Step(c) ==
  \/ InsvLoad(c) \/ InsvFull(c) \/ InsvRoom(c) \/ InsvStore(c) \/ InsvCommit(c)
  \/ RemvLoad(c) \/ RemvEmpty(c) \/ RemvSome(c) \/ RemvFetch(c) \/ RemvAdvance(c)
  \/ FlushClear(c) \/ FlushLoad(c) \/ FlushPurge(c)
  \/ CnpvIn(c) \/ CnpvOut(c)
  \/ Restore(c)

Next ==
  \/ \E c \in Ctx : Begin(c) \/ Step(c)
  \/ IrqEnter \/ IrqExit \/ VduSequence

Spec == Init /\ [][Next]_vars

(* The processor executes the operation it is in.  Nothing is assumed of   *)
(* new calls or of the arrival of interrupts.                              *)
FairSpec == Spec /\ WF_vars(\E c \in Ctx : Step(c))

-----------------------------------------------------------------------------
(* Properties.                                                             *)

Steps == {"idle", "insv_load", "insv_test", "insv_store", "insv_commit",
          "remv_load", "remv_test", "remv_fetch", "remv_advance",
          "flush_clear", "flush_load", "flush_purge", "cnpv_in", "cnpv_out",
          "restore"}
Answers == [carry : BOOLEAN, val : Nat, ev : {"none", "input_full", "output_empty"}]
Calls == [pc : Steps, b : Buffers \cup {-1}, d : Nat, flag : BOOLEAN, irq : BOOLEAN,
          offso : Nat, offsi : Nat, c : Nat]

(* Every variable of buffers.c holds a value of its type, and the indices  *)
(* of a ring never leave the ring: INSV and REMV wrap them at BUF_LENGTHS. *)
TypeOK ==
  /\ buf_ix_in \in [Buffers -> Nat] /\ buf_ix_out \in [Buffers -> Nat]
  /\ \A b \in Buffers : buf_ix_in[b] < LENGTHS[b] /\ buf_ix_out[b] < LENGTHS[b]
  /\ mem \in [Buffers -> [0..ByteSize-1 -> Nat]]
  /\ masked \in BOOLEAN /\ in_irq \in BOOLEAN /\ sequence \in BOOLEAN
  /\ call \in [Ctx -> Calls]
  /\ ret \in [Ctx -> Answers]

(* The IRQ is masked exactly while an operation is between its entry and   *)
(* its return, on every path through it: no early return of INSV, REMV or  *)
(* CNPV leaves the interrupts off, and none turns them on before its last  *)
(* access to the ring.                                                     *)
MaskBracketsCalls ==
  /\ masked <=> \E c \in Ctx : call[c].pc # "idle"
  /\ \A c \in Ctx : call[c].pc # "idle" => Running(c)

(* What an operation has read of a ring is still so when it acts on it:    *)
(* the copies that INSV, REMV, CNPV and the flush keep in locals are never *)
(* stale, and INSV commits the index only over the byte it stored.         *)
Fresh(k, ixin, ixout, m) ==
  /\ k.pc # "idle" => k.b \in Buffers /\ ~k.irq
  /\ k.pc \in {"insv_load", "insv_test", "insv_store", "insv_commit"} => k.d \in Data
  /\ k.pc \in {"insv_test", "insv_store", "insv_commit"} => k.offso = ixin[k.b]
  /\ k.pc \in {"insv_store", "insv_commit"} => Wrap(k.b, k.offso) # ixout[k.b]
  /\ k.pc = "insv_commit" => m[k.b][k.offso] = k.d
  /\ k.pc \in {"remv_test", "remv_fetch", "remv_advance"} =>
       k.offso = ixout[k.b] /\ k.offsi = ixin[k.b]
  /\ k.pc \in {"remv_fetch", "remv_advance"} => ixin[k.b] # ixout[k.b]
  /\ k.pc = "remv_advance" => k.c = m[k.b][k.offso]
  /\ k.pc \in {"flush_purge", "cnpv_out"} => k.offsi = ixin[k.b]
LocalsFresh == \A c \in Ctx : Fresh(call[c], buf_ix_in, buf_ix_out, mem)

(* The content of buffer b, oldest first.                                  *)
Size(b) == IF buf_ix_in[b] >= buf_ix_out[b]
             THEN buf_ix_in[b] - buf_ix_out[b]
             ELSE LENGTHS[b] + buf_ix_in[b] - buf_ix_out[b]
Slot(b, i) == IF buf_ix_out[b] + i < LENGTHS[b]
                THEN buf_ix_out[b] + i
                ELSE buf_ix_out[b] + i - LENGTHS[b]
Content(b) == [i \in 1..Size(b) |-> mem[b][Slot(b, i - 1)]]

(* The rings and their indices implement bounded queues with atomic        *)
(* operations: whatever step the interrupt enters between, no byte is      *)
(* lost, duplicated or reordered, and every answer (byte, carry, count,    *)
(* event) is the one of a single instant of the call.                      *)
Fifo == INSTANCE BufferFifo WITH q <- [b \in Buffers |-> Content(b)], ret <- ret
RefinesFifo == Fifo!Spec

(* The interrupts are never off for good: a masked IRQ is unmasked again.  *)
MaskReleased == masked ~> ~masked
=============================================================================
