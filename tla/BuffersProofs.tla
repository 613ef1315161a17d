--------------------------- MODULE BuffersProofs ---------------------------
(***************************************************************************)
(* Proofs about module Buffers: for every set of buffers, every length of  *)
(* ring up to the number of values of a byte, and all data; and that it    *)
(* implements module BufferFifo.                                           *)
(***************************************************************************)
EXTENDS Buffers, SequenceTheorems, TLAPS

IInv == TypeOK /\ MaskBracketsCalls /\ LocalsFresh

(* The operation that runs is alone: the other context is not in a call.   *)
LEMMA Alone ==
  ASSUME IInv, NEW c \in Ctx, Running(c), call[c].pc # "idle"
  PROVE  /\ masked /\ call[c] \in Calls /\ call[c].b \in Buffers /\ ~call[c].irq
         /\ \A d \in Ctx : d # c => call[d].pc = "idle"
  BY DEF IInv, MaskBracketsCalls, TypeOK, LocalsFresh, Fresh, Ctx, Running

(* A step of the running operation that gives it the locals k.             *)
LEMMA LocalStep ==
  ASSUME IInv, NEW c \in Ctx, Running(c), call[c].pc # "idle",
         NEW k \in Calls, call' = [call EXCEPT ![c] = k],
         in_irq' = in_irq, masked' = (k.pc # "idle")
  PROVE  /\ call' \in [Ctx -> Calls]
         /\ call'[c] = k
         /\ \A d \in Ctx : d # c => call'[d].pc = "idle"
         /\ MaskBracketsCalls'
<1>1. /\ call' \in [Ctx -> Calls] /\ call'[c] = k
      /\ \A d \in Ctx : d # c => call'[d].pc = "idle"
  BY Alone DEF IInv, TypeOK
<1>2. MaskBracketsCalls'
  BY <1>1 DEF MaskBracketsCalls, Running, Ctx
<1> QED BY <1>1, <1>2

LEMMA WrapFacts ==
  ASSUME NEW b \in Buffers, NEW i \in Nat, i < LENGTHS[b]
  PROVE  /\ Wrap(b, i) \in Nat /\ Wrap(b, i) < LENGTHS[b]
         /\ WrapByte(b, i) = Wrap(b, i)
         /\ i % ByteSize = i
<1>1. LENGTHS[b] \in Nat /\ LENGTHS[b] >= 2 /\ LENGTHS[b] <= ByteSize /\ ByteSize \in Nat
  BY LengthsAssumption, ByteSizeAssumption
<1>2. i % ByteSize = i
  BY <1>1
<1>3. i + 1 < ByteSize \/ i + 1 = ByteSize
  BY <1>1
<1>4. WrapByte(b, i) = Wrap(b, i)
  BY <1>1, <1>3 DEF WrapByte, Wrap
<1> QED BY <1>1, <1>2, <1>4 DEF Wrap

LEMMA StepInv == ASSUME IInv, NEW c \in Ctx, Step(c) PROVE IInv'
<1> USE DEF ring
<1>0. /\ Running(c) /\ call[c].pc # "idle"
  BY DEF Step, At, InsvLoad, InsvFull, InsvRoom, InsvStore, InsvCommit, RemvLoad, RemvEmpty,
         RemvSome, RemvFetch, RemvAdvance, FlushClear, FlushLoad, FlushPurge, CnpvIn, CnpvOut, Restore
<1>a. /\ masked /\ call[c] \in Calls /\ call[c].b \in Buffers /\ ~call[c].irq
      /\ \A d \in Ctx : d # c => call[d].pc = "idle"
      /\ TypeOK /\ Fresh(call[c], buf_ix_in, buf_ix_out, mem)
  BY <1>0, Alone DEF IInv, LocalsFresh
<1>b. /\ buf_ix_in[call[c].b] \in Nat /\ buf_ix_in[call[c].b] < LENGTHS[call[c].b]
      /\ buf_ix_out[call[c].b] \in Nat /\ buf_ix_out[call[c].b] < LENGTHS[call[c].b]
      /\ call[c].offso < LENGTHS[call[c].b] => call[c].offso \in 0..ByteSize-1
      /\ call[c].offso \in 0..ByteSize-1 => mem[call[c].b][call[c].offso] \in Nat
      /\ LENGTHS[call[c].b] \in Nat
  BY <1>a, LengthsAssumption, ByteSizeAssumption DEF TypeOK, Calls
<1>1. CASE InsvLoad(c)
  <2> DEFINE k == [call[c] EXCEPT !.pc = "insv_test", !.offso = buf_ix_in[call[c].b]]
  <2>1. k \in Calls /\ call' = [call EXCEPT ![c] = k]
    BY <1>1, <1>a, <1>b, WrapFacts DEF InsvLoad, Goto, Calls, Steps, TypeOK, Fresh, At, Idle
  <2>2. in_irq' = in_irq /\ masked' = (k.pc # "idle")
    BY <1>1, <1>a DEF InsvLoad, Idle, Calls
  <2> HIDE DEF k
  <2>3. /\ call' \in [Ctx -> Calls] /\ call'[c] = k
        /\ \A d \in Ctx : d # c => call'[d].pc = "idle"
        /\ MaskBracketsCalls'
    BY <2>1, <2>2, <1>0, LocalStep
  <2>4. TypeOK'
    BY <1>1, <2>2, <2>3, <1>a, <1>b, WrapFacts DEF InsvLoad, TypeOK, Reply, Answer, Answers, Void, Failed, At, Fresh
  <2>5. Fresh(k, buf_ix_in', buf_ix_out', mem')
    BY <1>1, <1>a, <1>b, WrapFacts DEF InsvLoad, Fresh, k, Calls, At, Idle, TypeOK
  <2>6. LocalsFresh'
    BY <2>3, <2>5 DEF LocalsFresh, Fresh
  <2> QED BY <2>3, <2>4, <2>6 DEF IInv
<1>2. CASE InsvFull(c)
  <2> DEFINE k == [call[c] EXCEPT !.pc = "restore"]
  <2>1. k \in Calls /\ call' = [call EXCEPT ![c] = k]
    BY <1>2, <1>a, <1>b, WrapFacts DEF InsvFull, Goto, Calls, Steps, TypeOK, Fresh, At, Idle
  <2>2. in_irq' = in_irq /\ masked' = (k.pc # "idle")
    BY <1>2, <1>a DEF InsvFull, Idle, Calls
  <2> HIDE DEF k
  <2>3. /\ call' \in [Ctx -> Calls] /\ call'[c] = k
        /\ \A d \in Ctx : d # c => call'[d].pc = "idle"
        /\ MaskBracketsCalls'
    BY <2>1, <2>2, <1>0, LocalStep
  <2>4. TypeOK'
    BY <1>2, <2>2, <2>3, <1>a, <1>b, WrapFacts DEF InsvFull, TypeOK, Reply, Answer, Answers, Void, Failed, At, Fresh
  <2>5. Fresh(k, buf_ix_in', buf_ix_out', mem')
    BY <1>2, <1>a, <1>b, WrapFacts DEF InsvFull, Fresh, k, Calls, At, Idle, TypeOK
  <2>6. LocalsFresh'
    BY <2>3, <2>5 DEF LocalsFresh, Fresh
  <2> QED BY <2>3, <2>4, <2>6 DEF IInv
<1>3. CASE InsvRoom(c)
  <2> DEFINE k == [call[c] EXCEPT !.pc = "insv_store"]
  <2>1. k \in Calls /\ call' = [call EXCEPT ![c] = k]
    BY <1>3, <1>a, <1>b, WrapFacts DEF InsvRoom, Goto, Calls, Steps, TypeOK, Fresh, At, Idle
  <2>2. in_irq' = in_irq /\ masked' = (k.pc # "idle")
    BY <1>3, <1>a DEF InsvRoom, Idle, Calls
  <2> HIDE DEF k
  <2>3. /\ call' \in [Ctx -> Calls] /\ call'[c] = k
        /\ \A d \in Ctx : d # c => call'[d].pc = "idle"
        /\ MaskBracketsCalls'
    BY <2>1, <2>2, <1>0, LocalStep
  <2>4. TypeOK'
    BY <1>3, <2>2, <2>3, <1>a, <1>b, WrapFacts DEF InsvRoom, TypeOK, Reply, Answer, Answers, Void, Failed, At, Fresh
  <2>5. Fresh(k, buf_ix_in', buf_ix_out', mem')
    BY <1>3, <1>a, <1>b, WrapFacts DEF InsvRoom, Fresh, k, Calls, At, Idle, TypeOK
  <2>6. LocalsFresh'
    BY <2>3, <2>5 DEF LocalsFresh, Fresh
  <2> QED BY <2>3, <2>4, <2>6 DEF IInv
<1>4. CASE InsvStore(c)
  <2> DEFINE k == [call[c] EXCEPT !.pc = "insv_commit"]
  <2>1. k \in Calls /\ call' = [call EXCEPT ![c] = k]
    BY <1>4, <1>a, <1>b, WrapFacts DEF InsvStore, Goto, Calls, Steps, TypeOK, Fresh, At, Idle
  <2>2. in_irq' = in_irq /\ masked' = (k.pc # "idle")
    BY <1>4, <1>a DEF InsvStore, Idle, Calls
  <2> HIDE DEF k
  <2>3. /\ call' \in [Ctx -> Calls] /\ call'[c] = k
        /\ \A d \in Ctx : d # c => call'[d].pc = "idle"
        /\ MaskBracketsCalls'
    BY <2>1, <2>2, <1>0, LocalStep
  <2>4. TypeOK'
    <3>1. call[c].offso \in 0..ByteSize-1 /\ call[c].d \in Nat
      BY <1>4, <1>a, <1>b DEF InsvStore, At, Fresh, Calls
    <3>2. mem' \in [Buffers -> [0..ByteSize-1 -> Nat]]
      BY <1>4, <1>a, <3>1 DEF InsvStore, TypeOK
    <3> QED BY <1>4, <2>2, <2>3, <1>a, <3>2 DEF InsvStore, TypeOK
  <2>5. Fresh(k, buf_ix_in', buf_ix_out', mem')
    BY <1>4, <1>a, <1>b, WrapFacts DEF InsvStore, Fresh, k, Calls, At, Idle, TypeOK
  <2>6. LocalsFresh'
    BY <2>3, <2>5 DEF LocalsFresh, Fresh
  <2> QED BY <2>3, <2>4, <2>6 DEF IInv
<1>5. CASE InsvCommit(c)
  <2> DEFINE k == [call[c] EXCEPT !.pc = "restore"]
  <2>1. k \in Calls /\ call' = [call EXCEPT ![c] = k]
    BY <1>5, <1>a, <1>b, WrapFacts DEF InsvCommit, Goto, Calls, Steps, TypeOK, Fresh, At, Idle
  <2>2. in_irq' = in_irq /\ masked' = (k.pc # "idle")
    BY <1>5, <1>a DEF InsvCommit, Idle, Calls
  <2> HIDE DEF k
  <2>3. /\ call' \in [Ctx -> Calls] /\ call'[c] = k
        /\ \A d \in Ctx : d # c => call'[d].pc = "idle"
        /\ MaskBracketsCalls'
    BY <2>1, <2>2, <1>0, LocalStep
  <2>4. TypeOK'
    BY <1>5, <2>2, <2>3, <1>a, <1>b, WrapFacts DEF InsvCommit, TypeOK, Reply, Answer, Answers, Void, Failed, At, Fresh
  <2>5. Fresh(k, buf_ix_in', buf_ix_out', mem')
    BY <1>5, <1>a, <1>b, WrapFacts DEF InsvCommit, Fresh, k, Calls, At, Idle, TypeOK
  <2>6. LocalsFresh'
    BY <2>3, <2>5 DEF LocalsFresh, Fresh
  <2> QED BY <2>3, <2>4, <2>6 DEF IInv
<1>6. CASE RemvLoad(c)
  <2> DEFINE k == [call[c] EXCEPT !.pc = "remv_test", !.offso = buf_ix_out[call[c].b], !.offsi = buf_ix_in[call[c].b]]
  <2>1. k \in Calls /\ call' = [call EXCEPT ![c] = k]
    BY <1>6, <1>a, <1>b, WrapFacts DEF RemvLoad, Goto, Calls, Steps, TypeOK, Fresh, At, Idle
  <2>2. in_irq' = in_irq /\ masked' = (k.pc # "idle")
    BY <1>6, <1>a DEF RemvLoad, Idle, Calls
  <2> HIDE DEF k
  <2>3. /\ call' \in [Ctx -> Calls] /\ call'[c] = k
        /\ \A d \in Ctx : d # c => call'[d].pc = "idle"
        /\ MaskBracketsCalls'
    BY <2>1, <2>2, <1>0, LocalStep
  <2>4. TypeOK'
    BY <1>6, <2>2, <2>3, <1>a, <1>b, WrapFacts DEF RemvLoad, TypeOK, Reply, Answer, Answers, Void, Failed, At, Fresh
  <2>5. Fresh(k, buf_ix_in', buf_ix_out', mem')
    BY <1>6, <1>a, <1>b, WrapFacts DEF RemvLoad, Fresh, k, Calls, At, Idle, TypeOK
  <2>6. LocalsFresh'
    BY <2>3, <2>5 DEF LocalsFresh, Fresh
  <2> QED BY <2>3, <2>4, <2>6 DEF IInv
<1>7. CASE RemvEmpty(c)
  <2> DEFINE k == [call[c] EXCEPT !.pc = "restore"]
  <2>1. k \in Calls /\ call' = [call EXCEPT ![c] = k]
    BY <1>7, <1>a, <1>b, WrapFacts DEF RemvEmpty, Goto, Calls, Steps, TypeOK, Fresh, At, Idle
  <2>2. in_irq' = in_irq /\ masked' = (k.pc # "idle")
    BY <1>7, <1>a DEF RemvEmpty, Idle, Calls
  <2> HIDE DEF k
  <2>3. /\ call' \in [Ctx -> Calls] /\ call'[c] = k
        /\ \A d \in Ctx : d # c => call'[d].pc = "idle"
        /\ MaskBracketsCalls'
    BY <2>1, <2>2, <1>0, LocalStep
  <2>4. TypeOK'
    BY <1>7, <2>2, <2>3, <1>a, <1>b, WrapFacts DEF RemvEmpty, TypeOK, Reply, Answer, Answers, Void, Failed, At, Fresh
  <2>5. Fresh(k, buf_ix_in', buf_ix_out', mem')
    BY <1>7, <1>a, <1>b, WrapFacts DEF RemvEmpty, Fresh, k, Calls, At, Idle, TypeOK
  <2>6. LocalsFresh'
    BY <2>3, <2>5 DEF LocalsFresh, Fresh
  <2> QED BY <2>3, <2>4, <2>6 DEF IInv
<1>8. CASE RemvSome(c)
  <2> DEFINE k == [call[c] EXCEPT !.pc = "remv_fetch"]
  <2>1. k \in Calls /\ call' = [call EXCEPT ![c] = k]
    BY <1>8, <1>a, <1>b, WrapFacts DEF RemvSome, Goto, Calls, Steps, TypeOK, Fresh, At, Idle
  <2>2. in_irq' = in_irq /\ masked' = (k.pc # "idle")
    BY <1>8, <1>a DEF RemvSome, Idle, Calls
  <2> HIDE DEF k
  <2>3. /\ call' \in [Ctx -> Calls] /\ call'[c] = k
        /\ \A d \in Ctx : d # c => call'[d].pc = "idle"
        /\ MaskBracketsCalls'
    BY <2>1, <2>2, <1>0, LocalStep
  <2>4. TypeOK'
    BY <1>8, <2>2, <2>3, <1>a, <1>b, WrapFacts DEF RemvSome, TypeOK, Reply, Answer, Answers, Void, Failed, At, Fresh
  <2>5. Fresh(k, buf_ix_in', buf_ix_out', mem')
    BY <1>8, <1>a, <1>b, WrapFacts DEF RemvSome, Fresh, k, Calls, At, Idle, TypeOK
  <2>6. LocalsFresh'
    BY <2>3, <2>5 DEF LocalsFresh, Fresh
  <2> QED BY <2>3, <2>4, <2>6 DEF IInv
<1>9. CASE RemvFetch(c)
  <2> DEFINE k == [call[c] EXCEPT !.pc = IF call[c].flag THEN "restore" ELSE "remv_advance",
                                    !.c = mem[call[c].b][call[c].offso]]
  <2>1. k \in Calls /\ call' = [call EXCEPT ![c] = k]
    BY <1>9, <1>a, <1>b, WrapFacts DEF RemvFetch, Goto, Calls, Steps, TypeOK, Fresh, At, Idle
  <2>2. in_irq' = in_irq /\ masked' = (k.pc # "idle")
    BY <1>9, <1>a DEF RemvFetch, Idle, Calls
  <2> HIDE DEF k
  <2>3. /\ call' \in [Ctx -> Calls] /\ call'[c] = k
        /\ \A d \in Ctx : d # c => call'[d].pc = "idle"
        /\ MaskBracketsCalls'
    BY <2>1, <2>2, <1>0, LocalStep
  <2>4. TypeOK'
    <3>1. mem[call[c].b][call[c].offso] \in Nat
      BY <1>9, <1>a, <1>b DEF RemvFetch, At, Fresh
    <3>2. ret' \in [Ctx -> Answers]
      <4> DEFINE v == mem[call[c].b][call[c].offso]
      <4>0. Answer(FALSE, v, "none") \in Answers
        BY <3>1 DEF Answer, Answers
      <4>1. CASE call[c].flag
        <5>1. ret' = [ret EXCEPT ![c] = Answer(FALSE, v, "none")]
          BY <4>1, <1>9 DEF RemvFetch, Reply
        <5> QED BY <5>1, <4>0, <1>a DEF TypeOK
      <4>2. CASE ~call[c].flag
        BY <4>2, <1>9, <1>a DEF RemvFetch, TypeOK
      <4> QED BY <4>1, <4>2
    <3> QED BY <1>9, <2>2, <2>3, <1>a, <3>2 DEF RemvFetch, TypeOK
  <2>5. Fresh(k, buf_ix_in', buf_ix_out', mem')
    BY <1>9, <1>a, <1>b, WrapFacts DEF RemvFetch, Fresh, k, Calls, At, Idle, TypeOK
  <2>6. LocalsFresh'
    BY <2>3, <2>5 DEF LocalsFresh, Fresh
  <2> QED BY <2>3, <2>4, <2>6 DEF IInv
<1>10. CASE RemvAdvance(c)
  <2> DEFINE k == [call[c] EXCEPT !.pc = "restore"]
  <2>1. k \in Calls /\ call' = [call EXCEPT ![c] = k]
    BY <1>10, <1>a, <1>b, WrapFacts DEF RemvAdvance, Goto, Calls, Steps, TypeOK, Fresh, At, Idle
  <2>2. in_irq' = in_irq /\ masked' = (k.pc # "idle")
    BY <1>10, <1>a DEF RemvAdvance, Idle, Calls
  <2> HIDE DEF k
  <2>3. /\ call' \in [Ctx -> Calls] /\ call'[c] = k
        /\ \A d \in Ctx : d # c => call'[d].pc = "idle"
        /\ MaskBracketsCalls'
    BY <2>1, <2>2, <1>0, LocalStep
  <2>4. TypeOK'
    <3>1. call[c].offso \in Nat /\ call[c].offso < LENGTHS[call[c].b] /\ call[c].c \in Nat
      BY <1>10, <1>a, <1>b DEF RemvAdvance, At, Fresh, Calls
    <3> DEFINE o == WrapByte(call[c].b, call[c].offso)
    <3>2. o \in Nat /\ o < LENGTHS[call[c].b]
      BY <3>1, <1>a, WrapFacts
    <3>3. buf_ix_out' = [buf_ix_out EXCEPT ![call[c].b] = o]
      BY <1>10 DEF RemvAdvance
    <3>4. ret' \in [Ctx -> Answers]
      BY <1>10, <1>a, <3>1 DEF RemvAdvance, TypeOK, Reply, Answer, Answers
    <3> HIDE DEF o
    <3>5. buf_ix_out' \in [Buffers -> Nat] /\ \A b \in Buffers : buf_ix_out'[b] < LENGTHS[b]
      BY <3>2, <3>3, <1>a DEF TypeOK
    <3> QED BY <1>10, <2>2, <2>3, <1>a, <3>4, <3>5 DEF RemvAdvance, TypeOK
  <2>5. Fresh(k, buf_ix_in', buf_ix_out', mem')
    BY <1>10, <1>a, <1>b, WrapFacts DEF RemvAdvance, Fresh, k, Calls, At, Idle, TypeOK
  <2>6. LocalsFresh'
    BY <2>3, <2>5 DEF LocalsFresh, Fresh
  <2> QED BY <2>3, <2>4, <2>6 DEF IInv
<1>11. CASE FlushClear(c)
  <2> DEFINE k == [call[c] EXCEPT !.pc = "flush_load"]
  <2>1. k \in Calls /\ call' = [call EXCEPT ![c] = k]
    BY <1>11, <1>a, <1>b, WrapFacts DEF FlushClear, Goto, Calls, Steps, TypeOK, Fresh, At, Idle
  <2>2. in_irq' = in_irq /\ masked' = (k.pc # "idle")
    BY <1>11, <1>a DEF FlushClear, Idle, Calls
  <2> HIDE DEF k
  <2>3. /\ call' \in [Ctx -> Calls] /\ call'[c] = k
        /\ \A d \in Ctx : d # c => call'[d].pc = "idle"
        /\ MaskBracketsCalls'
    BY <2>1, <2>2, <1>0, LocalStep
  <2>4. TypeOK'
    BY <1>11, <2>2, <2>3, <1>a, <1>b, WrapFacts DEF FlushClear, TypeOK, Reply, Answer, Answers, Void, Failed, At, Fresh
  <2>5. Fresh(k, buf_ix_in', buf_ix_out', mem')
    BY <1>11, <1>a, <1>b, WrapFacts DEF FlushClear, Fresh, k, Calls, At, Idle, TypeOK
  <2>6. LocalsFresh'
    BY <2>3, <2>5 DEF LocalsFresh, Fresh
  <2> QED BY <2>3, <2>4, <2>6 DEF IInv
<1>12. CASE FlushLoad(c)
  <2> DEFINE k == [call[c] EXCEPT !.pc = "flush_purge", !.offsi = buf_ix_in[call[c].b]]
  <2>1. k \in Calls /\ call' = [call EXCEPT ![c] = k]
    BY <1>12, <1>a, <1>b, WrapFacts DEF FlushLoad, Goto, Calls, Steps, TypeOK, Fresh, At, Idle
  <2>2. in_irq' = in_irq /\ masked' = (k.pc # "idle")
    BY <1>12, <1>a DEF FlushLoad, Idle, Calls
  <2> HIDE DEF k
  <2>3. /\ call' \in [Ctx -> Calls] /\ call'[c] = k
        /\ \A d \in Ctx : d # c => call'[d].pc = "idle"
        /\ MaskBracketsCalls'
    BY <2>1, <2>2, <1>0, LocalStep
  <2>4. TypeOK'
    BY <1>12, <2>2, <2>3, <1>a, <1>b, WrapFacts DEF FlushLoad, TypeOK, Reply, Answer, Answers, Void, Failed, At, Fresh
  <2>5. Fresh(k, buf_ix_in', buf_ix_out', mem')
    BY <1>12, <1>a, <1>b, WrapFacts DEF FlushLoad, Fresh, k, Calls, At, Idle, TypeOK
  <2>6. LocalsFresh'
    BY <2>3, <2>5 DEF LocalsFresh, Fresh
  <2> QED BY <2>3, <2>4, <2>6 DEF IInv
<1>13. CASE FlushPurge(c)
  <2> DEFINE k == [call[c] EXCEPT !.pc = "restore"]
  <2>1. k \in Calls /\ call' = [call EXCEPT ![c] = k]
    BY <1>13, <1>a, <1>b, WrapFacts DEF FlushPurge, Goto, Calls, Steps, TypeOK, Fresh, At, Idle
  <2>2. in_irq' = in_irq /\ masked' = (k.pc # "idle")
    BY <1>13, <1>a DEF FlushPurge, Idle, Calls
  <2> HIDE DEF k
  <2>3. /\ call' \in [Ctx -> Calls] /\ call'[c] = k
        /\ \A d \in Ctx : d # c => call'[d].pc = "idle"
        /\ MaskBracketsCalls'
    BY <2>1, <2>2, <1>0, LocalStep
  <2>4. TypeOK'
    BY <1>13, <2>2, <2>3, <1>a, <1>b, WrapFacts DEF FlushPurge, TypeOK, Reply, Answer, Answers, Void, Failed, At, Fresh
  <2>5. Fresh(k, buf_ix_in', buf_ix_out', mem')
    BY <1>13, <1>a, <1>b, WrapFacts DEF FlushPurge, Fresh, k, Calls, At, Idle, TypeOK
  <2>6. LocalsFresh'
    BY <2>3, <2>5 DEF LocalsFresh, Fresh
  <2> QED BY <2>3, <2>4, <2>6 DEF IInv
<1>14. CASE CnpvIn(c)
  <2> DEFINE k == [call[c] EXCEPT !.pc = "cnpv_out", !.offsi = buf_ix_in[call[c].b]]
  <2>1. k \in Calls /\ call' = [call EXCEPT ![c] = k]
    BY <1>14, <1>a, <1>b, WrapFacts DEF CnpvIn, Goto, Calls, Steps, TypeOK, Fresh, At, Idle
  <2>2. in_irq' = in_irq /\ masked' = (k.pc # "idle")
    BY <1>14, <1>a DEF CnpvIn, Idle, Calls
  <2> HIDE DEF k
  <2>3. /\ call' \in [Ctx -> Calls] /\ call'[c] = k
        /\ \A d \in Ctx : d # c => call'[d].pc = "idle"
        /\ MaskBracketsCalls'
    BY <2>1, <2>2, <1>0, LocalStep
  <2>4. TypeOK'
    BY <1>14, <2>2, <2>3, <1>a, <1>b, WrapFacts DEF CnpvIn, TypeOK, Reply, Answer, Answers, Void, Failed, At, Fresh
  <2>5. Fresh(k, buf_ix_in', buf_ix_out', mem')
    BY <1>14, <1>a, <1>b, WrapFacts DEF CnpvIn, Fresh, k, Calls, At, Idle, TypeOK
  <2>6. LocalsFresh'
    BY <2>3, <2>5 DEF LocalsFresh, Fresh
  <2> QED BY <2>3, <2>4, <2>6 DEF IInv
<1>15. CASE CnpvOut(c)
  <2> DEFINE k == [call[c] EXCEPT !.pc = "restore"]
  <2>1. k \in Calls /\ call' = [call EXCEPT ![c] = k]
    BY <1>15, <1>a, <1>b, WrapFacts DEF CnpvOut, Goto, Calls, Steps, TypeOK, Fresh, At, Idle
  <2>2. in_irq' = in_irq /\ masked' = (k.pc # "idle")
    BY <1>15, <1>a DEF CnpvOut, Idle, Calls
  <2> HIDE DEF k
  <2>3. /\ call' \in [Ctx -> Calls] /\ call'[c] = k
        /\ \A d \in Ctx : d # c => call'[d].pc = "idle"
        /\ MaskBracketsCalls'
    BY <2>1, <2>2, <1>0, LocalStep
  <2>4. TypeOK'
    <3> DEFINE diff == call[c].offsi - buf_ix_out[call[c].b]
               count == IF diff < 0 THEN LENGTHS[call[c].b] + diff ELSE diff
               r == IF call[c].flag THEN LENGTHS[call[c].b] - count ELSE count
    <3>1. r \in Int
      BY <1>a, <1>b DEF Calls
    <3>2. ret' = [ret EXCEPT ![c] = Answer(FALSE, r % ByteSize, "none")]
      BY <1>15 DEF CnpvOut, Reply
    <3> HIDE DEF r
    <3>3. r % ByteSize \in Nat
      BY <3>1, ByteSizeAssumption
    <3>4. ret' \in [Ctx -> Answers]
      BY <3>2, <3>3, <1>a DEF TypeOK, Answer, Answers
    <3> QED BY <1>15, <2>2, <2>3, <1>a, <3>4 DEF CnpvOut, TypeOK
  <2>5. Fresh(k, buf_ix_in', buf_ix_out', mem')
    BY <1>15, <1>a, <1>b, WrapFacts DEF CnpvOut, Fresh, k, Calls, At, Idle, TypeOK
  <2>6. LocalsFresh'
    BY <2>3, <2>5 DEF LocalsFresh, Fresh
  <2> QED BY <2>3, <2>4, <2>6 DEF IInv
<1>16. CASE Restore(c)
  <2> DEFINE k == Idle
  <2>1. k \in Calls /\ call' = [call EXCEPT ![c] = k]
    BY <1>16, <1>a, <1>b, WrapFacts DEF Restore, Goto, Calls, Steps, TypeOK, Fresh, At, Idle
  <2>2. in_irq' = in_irq /\ masked' = (k.pc # "idle")
    BY <1>16, <1>a DEF Restore, Idle, Calls
  <2> HIDE DEF k
  <2>3. /\ call' \in [Ctx -> Calls] /\ call'[c] = k
        /\ \A d \in Ctx : d # c => call'[d].pc = "idle"
        /\ MaskBracketsCalls'
    BY <2>1, <2>2, <1>0, LocalStep
  <2>4. TypeOK'
    BY <1>16, <2>2, <2>3, <1>a, <1>b, WrapFacts DEF Restore, TypeOK, Reply, Answer, Answers, Void, Failed, At, Fresh
  <2>5. Fresh(k, buf_ix_in', buf_ix_out', mem')
    BY <1>16, <1>a, <1>b, WrapFacts DEF Restore, Fresh, k, Calls, At, Idle, TypeOK
  <2>6. LocalsFresh'
    BY <2>3, <2>5 DEF LocalsFresh, Fresh
  <2> QED BY <2>3, <2>4, <2>6 DEF IInv
<1> QED
  BY ONLY Step(c), <1>1, <1>2, <1>3, <1>4, <1>5, <1>6, <1>7, <1>8, <1>9, <1>10, <1>11, <1>12, <1>13, <1>14, <1>15, <1>16 DEF Step

LEMMA EnterInv ==
  ASSUME IInv, NEW c \in Ctx, NEW pc \in Steps \ {"idle"}, NEW b \in Buffers,
         NEW d \in Nat, NEW flag \in BOOLEAN, Enter(c, pc, b, d, flag),
         pc \in {"insv_load", "remv_load", "cnpv_in", "flush_clear"},
         pc = "insv_load" => d \in Data
  PROVE  IInv'
<1>1. \A e \in Ctx : call[e].pc = "idle"
  BY DEF Enter, At, IInv, MaskBracketsCalls, Running, Ctx
<1>2. ~masked
  BY <1>1 DEF IInv, MaskBracketsCalls
<1> DEFINE k == [Idle EXCEPT !.pc = pc, !.b = b, !.d = d, !.flag = flag, !.irq = masked]
<1>3. k \in Calls /\ k.pc = pc /\ k.b = b /\ k.d = d /\ ~k.irq
  BY <1>2, BuffersAssumption DEF Idle, Calls, IInv, TypeOK
<1>4. call' = [call EXCEPT ![c] = k]
  BY DEF Enter
<1> HIDE DEF k
<1>5. /\ call' \in [Ctx -> Calls] /\ call'[c] = k
      /\ \A e \in Ctx : e # c => call'[e].pc = "idle"
  BY <1>1, <1>3, <1>4 DEF IInv, TypeOK
<1>6. TypeOK'
  BY <1>5 DEF Enter, IInv, TypeOK, ring
<1>7. MaskBracketsCalls'
  BY <1>3, <1>5 DEF Enter, MaskBracketsCalls, At, Running, Ctx
<1>8. LocalsFresh'
  BY <1>3, <1>5 DEF LocalsFresh, Fresh
<1> QED BY <1>6, <1>7, <1>8 DEF IInv

LEMMA BeginInv == ASSUME IInv, NEW c \in Ctx, Begin(c) PROVE IInv'
<1>1. CASE NotOurs(c)
  <2>0. Failed \in Answers /\ Void \in Answers
    BY DEF Failed, Void, Answer, Answers
  <2>1. TypeOK'
    BY <1>1, <2>0 DEF NotOurs, IInv, TypeOK, ring, Reply
  <2>2. MaskBracketsCalls' /\ LocalsFresh'
    BY <1>1 DEF NotOurs, IInv, MaskBracketsCalls, LocalsFresh, Fresh, Running, ring
  <2> QED BY <2>1, <2>2 DEF IInv
<1>2. ASSUME NEW b \in Buffers, NEW d \in Data, InsvEnter(c, b, d) PROVE IInv'
  BY <1>2, EnterInv, DataAssumption DEF InsvEnter, Steps
<1>3. ASSUME NEW b \in Buffers, NEW f \in BOOLEAN, RemvEnter(c, b, f) PROVE IInv'
  BY <1>3, EnterInv DEF RemvEnter, Steps
<1>4. ASSUME NEW b \in Buffers, NEW f \in BOOLEAN, CnpvEnter(c, b, f) PROVE IInv'
  BY <1>4, EnterInv DEF CnpvEnter, Steps
<1>5. ASSUME NEW b \in Buffers, FlushEnter(c, b) PROVE IInv'
  BY <1>5, EnterInv DEF FlushEnter, Steps
<1> QED BY <1>1, <1>2, <1>3, <1>4, <1>5 DEF Begin

LEMMA NextInv == IInv /\ [Next]_vars => IInv'
<1> SUFFICES ASSUME IInv, [Next]_vars PROVE IInv'
  OBVIOUS
<1>1. ASSUME NEW c \in Ctx, Begin(c) PROVE IInv'
  BY <1>1, BeginInv
<1>2. ASSUME NEW c \in Ctx, Step(c) PROVE IInv'
  BY <1>2, StepInv
<1>3. CASE IrqEnter
  <2>1. \A c \in Ctx : call[c].pc = "idle"
    BY <1>3 DEF IrqEnter, IInv, MaskBracketsCalls
  <2> QED BY <1>3, <2>1 DEF IrqEnter, IInv, TypeOK, MaskBracketsCalls, LocalsFresh, Fresh, ring
<1>4. CASE IrqExit
  <2>1. \A c \in Ctx : call[c].pc = "idle"
    BY <1>4 DEF IrqExit, At, IInv, MaskBracketsCalls, Running, Ctx
  <2> QED BY <1>4, <2>1 DEF IrqExit, IInv, TypeOK, MaskBracketsCalls, LocalsFresh, Fresh, ring
<1>5. CASE VduSequence
  BY <1>5 DEF VduSequence, IInv, TypeOK, MaskBracketsCalls, LocalsFresh, Fresh, ring, Running
<1>6. CASE UNCHANGED vars
  BY <1>6 DEF vars, IInv, TypeOK, MaskBracketsCalls, LocalsFresh, Fresh, ring, Running
<1> QED BY <1>1, <1>2, <1>3, <1>4, <1>5, <1>6 DEF Next

LEMMA InitInv == Init => IInv
<1> SUFFICES ASSUME Init PROVE IInv
  OBVIOUS
<1>1. Idle \in Calls /\ Idle.pc = "idle" /\ Void \in Answers
  BY DEF Idle, Calls, Steps, Void, Answer, Answers
<1>2. TypeOK
  <2>1. /\ buf_ix_in \in [Buffers -> Nat] /\ buf_ix_out \in [Buffers -> Nat]
        /\ \A b \in Buffers : buf_ix_in[b] < LENGTHS[b] /\ buf_ix_out[b] < LENGTHS[b]
    BY LengthsAssumption DEF Init
  <2>2. mem \in [Buffers -> [0..ByteSize-1 -> Nat]]
    BY DEF Init
  <2> QED BY <1>1, <2>1, <2>2 DEF Init, TypeOK
<1>3. MaskBracketsCalls /\ LocalsFresh
  BY <1>1 DEF Init, MaskBracketsCalls, LocalsFresh, Fresh
<1> QED BY <1>2, <1>3 DEF IInv

(* Type correctness: in particular the indices never leave their ring.     *)
THEOREM TypeCorrect == Spec => []TypeOK
  BY InitInv, NextInv, PTL DEF Spec, IInv

(* On every path through INSV, REMV, CNPV and the flush the IRQ is masked  *)
(* from the entry to the return and unmasked after it.                     *)
THEOREM MaskCorrect == Spec => []MaskBracketsCalls
  BY InitInv, NextInv, PTL DEF Spec, IInv

(* No operation acts on a stale copy of an index or of the ring.           *)
THEOREM LocalsCorrect == Spec => []LocalsFresh
  BY InitInv, NextInv, PTL DEF Spec, IInv

-----------------------------------------------------------------------------
(* Module Buffers implements module BufferFifo.                            *)

(* What a ring holds: at most one byte less than its length, all of them   *)
(* between the out index and the in index.                                 *)
LEMMA RingFacts ==
  ASSUME TypeOK, NEW b \in Buffers
  PROVE  /\ Size(b) \in Nat /\ Size(b) <= LENGTHS[b] - 1
         /\ \A i \in 0..Size(b)-1 : Slot(b, i) \in 0..LENGTHS[b]-1 /\ Slot(b, i) # buf_ix_in[b]
         /\ Slot(b, Size(b)) = buf_ix_in[b]
         /\ Size(b) = 0 <=> buf_ix_in[b] = buf_ix_out[b]
         /\ Size(b) = LENGTHS[b] - 1 <=> Wrap(b, buf_ix_in[b]) = buf_ix_out[b]
         /\ Size(b) = 1 <=> Size(b) # 0 /\ Wrap(b, buf_ix_out[b]) = buf_ix_in[b]
<1>1. /\ buf_ix_in[b] \in Nat /\ buf_ix_out[b] \in Nat /\ LENGTHS[b] \in Nat
      /\ buf_ix_in[b] < LENGTHS[b] /\ buf_ix_out[b] < LENGTHS[b] /\ LENGTHS[b] >= 2
  BY LengthsAssumption, ByteSizeAssumption DEF TypeOK
<1> QED BY <1>1 DEF Size, Slot, Wrap

LEMMA ContentFacts ==
  ASSUME TypeOK, NEW b \in Buffers
  PROVE  /\ Content(b) \in Seq(Nat) /\ Len(Content(b)) = Size(b)
         /\ \A i \in 1..Size(b) : Content(b)[i] = mem[b][Slot(b, i-1)]
<1>1. ByteSize \in Nat /\ LENGTHS[b] \in Nat /\ LENGTHS[b] <= ByteSize
  BY LengthsAssumption, ByteSizeAssumption
<1>2. \A i \in 1..Size(b) : mem[b][Slot(b, i-1)] \in Nat
  <2> SUFFICES ASSUME NEW i \in 1..Size(b) PROVE mem[b][Slot(b, i-1)] \in Nat
    OBVIOUS
  <2>1. i-1 \in 0..Size(b)-1
    BY RingFacts
  <2>2. Slot(b, i-1) \in 0..ByteSize-1
    BY <1>1, <2>1, RingFacts
  <2> QED BY <2>2 DEF TypeOK
<1> QED BY <1>2, RingFacts DEF Content

(* A step that leaves the indices of b and its occupied slots alone leaves *)
(* its content alone.                                                      *)
LEMMA ContentSame ==
  ASSUME TypeOK, NEW b \in Buffers, buf_ix_in'[b] = buf_ix_in[b], buf_ix_out'[b] = buf_ix_out[b],
         \A i \in 0..Size(b)-1 : mem'[b][Slot(b, i)] = mem[b][Slot(b, i)]
  PROVE  Content(b)' = Content(b)
<1>1. Size(b)' = Size(b) /\ \A i \in Nat : Slot(b, i)' = Slot(b, i)
  BY DEF Size, Slot
<1>2. \A i \in 1..Size(b) : mem'[b][Slot(b, i-1)] = mem[b][Slot(b, i-1)]
  BY RingFacts
<1> QED BY <1>1, <1>2 DEF Content

LEMMA InsertContent ==
  ASSUME TypeOK, TypeOK', NEW b \in Buffers, NEW d \in Nat,
         buf_ix_in'[b] = Wrap(b, buf_ix_in[b]), buf_ix_out'[b] = buf_ix_out[b], mem' = mem,
         Wrap(b, buf_ix_in[b]) # buf_ix_out[b], mem[b][buf_ix_in[b]] = d
  PROVE  Content(b)' = Append(Content(b), d)
<1>1. /\ buf_ix_in[b] \in Nat /\ buf_ix_out[b] \in Nat /\ LENGTHS[b] \in Nat
      /\ buf_ix_in[b] < LENGTHS[b] /\ buf_ix_out[b] < LENGTHS[b] /\ LENGTHS[b] >= 2
  BY LengthsAssumption, ByteSizeAssumption DEF TypeOK
<1>2. Size(b)' = Size(b) + 1 /\ Size(b) \in Nat
  BY <1>1 DEF Size, Wrap
<1>3. \A i \in Nat : Slot(b, i)' = Slot(b, i)
  BY DEF Slot
<1>4. Slot(b, Size(b)) = buf_ix_in[b]
  BY RingFacts
<1>5. \A i \in 1..Size(b) : Content(b)[i] = mem[b][Slot(b, i-1)]
  BY ContentFacts
<1>6. Content(b)' = [i \in 1..Size(b)+1 |-> mem[b][Slot(b, i-1)]]
  BY <1>2, <1>3 DEF Content
<1>7. Append(Content(b), d) \in Seq(Nat) /\ Len(Append(Content(b), d)) = Size(b) + 1
      /\ \A i \in 1..Size(b) : Append(Content(b), d)[i] = Content(b)[i]
      /\ Append(Content(b), d)[Size(b)+1] = d
  BY ContentFacts, <1>2, AppendProperties
<1>8. Content(b)' \in Seq(Nat) /\ Len(Content(b)') = Size(b) + 1
  <2>1. \A i \in 1..Size(b)+1 : mem[b][Slot(b, i-1)] \in Nat
    <3>1. \A i \in 1..Size(b) : mem[b][Slot(b, i-1)] \in Nat
      BY <1>5, ContentFacts, ElementOfSeq
    <3>2. mem[b][Slot(b, (Size(b)+1)-1)] \in Nat
      BY <1>2, <1>4
    <3> QED BY <1>2, <3>1, <3>2
  <2> QED BY <1>2, <1>6, <2>1
<1>9. \A i \in 1..Size(b)+1 : Content(b)'[i] = Append(Content(b), d)[i]
  BY <1>2, <1>4, <1>5, <1>6, <1>7
<1> QED BY <1>2, <1>7, <1>8, <1>9, SeqEqual

LEMMA RemoveContent ==
  ASSUME TypeOK, TypeOK', NEW b \in Buffers, buf_ix_in[b] # buf_ix_out[b],
         buf_ix_out'[b] = Wrap(b, buf_ix_out[b]), buf_ix_in'[b] = buf_ix_in[b], mem' = mem
  PROVE  /\ Content(b) # <<>>
         /\ Head(Content(b)) = mem[b][buf_ix_out[b]]
         /\ Content(b)' = Tail(Content(b))
<1>1. /\ buf_ix_in[b] \in Nat /\ buf_ix_out[b] \in Nat /\ LENGTHS[b] \in Nat
      /\ buf_ix_in[b] < LENGTHS[b] /\ buf_ix_out[b] < LENGTHS[b] /\ LENGTHS[b] >= 2
  BY LengthsAssumption, ByteSizeAssumption DEF TypeOK
<1>2. Size(b)' = Size(b) - 1 /\ Size(b) \in Nat /\ Size(b) >= 1
  BY <1>1 DEF Size, Wrap
<1>3. ASSUME NEW i \in 0..Size(b)-2 PROVE Slot(b, i)' = Slot(b, i+1)
  <2>1. Slot(b, i)' = IF buf_ix_out'[b] + i < LENGTHS[b] THEN buf_ix_out'[b] + i
                                                         ELSE buf_ix_out'[b] + i - LENGTHS[b]
    BY DEF Slot
  <2>2. i \in Nat /\ i + 1 < LENGTHS[b]
    BY <1>1, <1>2, RingFacts
  <2> QED BY <1>1, <2>1, <2>2 DEF Slot, Wrap
<1>4. Slot(b, 0) = buf_ix_out[b]
  BY <1>1 DEF Slot
<1>5. Content(b) \in Seq(Nat) /\ Len(Content(b)) = Size(b)
      /\ \A i \in 1..Size(b) : Content(b)[i] = mem[b][Slot(b, i-1)]
  BY ContentFacts
<1>6. Content(b)' = [i \in 1..Size(b)-1 |-> mem[b][Slot(b, i)]]
  <2>1. \A i \in 1..Size(b)-1 : Slot(b, i-1)' = Slot(b, i)
    BY <1>2, <1>3
  <2> QED BY <1>2, <2>1 DEF Content
<1>7. Content(b)' \in Seq(Nat) /\ Len(Content(b)') = Size(b) - 1
  <2>1. \A i \in 1..Size(b)-1 : mem[b][Slot(b, i)] \in Nat
    <3> SUFFICES ASSUME NEW i \in 1..Size(b)-1 PROVE mem[b][Slot(b, i)] \in Nat
      OBVIOUS
    <3>1. i+1 \in 1..Size(b) /\ (i+1)-1 = i
      BY <1>2
    <3> QED BY <3>1, <1>5, ElementOfSeq
  <2> QED BY <1>2, <1>6, <2>1
<1>8. Content(b) # <<>>
  BY <1>2, <1>5
<1>9. Tail(Content(b)) \in Seq(Nat) /\ Len(Tail(Content(b))) = Size(b) - 1
      /\ \A i \in 1..Size(b)-1 : Tail(Content(b))[i] = Content(b)[i+1]
  BY <1>5, <1>8, HeadTailProperties
<1>10. \A i \in 1..Size(b)-1 : Content(b)'[i] = Tail(Content(b))[i]
  <2> SUFFICES ASSUME NEW i \in 1..Size(b)-1 PROVE Content(b)'[i] = Tail(Content(b))[i]
    OBVIOUS
  <2>1. i+1 \in 1..Size(b) /\ (i+1)-1 = i
    BY <1>2
  <2> QED BY <1>5, <1>6, <1>9, <2>1
<1>11. Content(b)' = Tail(Content(b))
  BY <1>2, <1>7, <1>9, <1>10, SeqEqual
<1>12. Head(Content(b)) = mem[b][buf_ix_out[b]]
  BY <1>2, <1>4, <1>5
<1> QED BY <1>8, <1>11, <1>12

-----------------------------------------------------------------------------
(* The value the refinement gives the abstract variable q.                *)
Q == [b \in Buffers |-> Content(b)]

(* A step that changes no ring maps to a step that changes no queue.       *)
LEMMA RingSame ==
  ASSUME TypeOK, UNCHANGED ring
  PROVE  Q' = Q
  BY DEF Q, Content, Size, Slot, ring

(* A step on the ring of b that turns its content into s.                  *)
LEMMA RingOne ==
  ASSUME TypeOK, NEW b \in Buffers, NEW s, Content(b)' = s,
         \A e \in Buffers : e # b => buf_ix_in'[e] = buf_ix_in[e]
                                    /\ buf_ix_out'[e] = buf_ix_out[e] /\ mem'[e] = mem[e]
  PROVE  Q' = [Q EXCEPT ![b] = s]
<1>1. \A e \in Buffers : e # b => Content(e)' = Content(e)
  BY DEF Content, Size, Slot
<1> QED BY <1>1 DEF Q

(* Every step of the rings is a step of the queues, or none.               *)
LEMMA StepSimulation ==
  ASSUME IInv, IInv', NEW c \in Ctx, Step(c)
  PROVE  Fifo!Next \/ UNCHANGED <<Q, ret>>
<1>0. Running(c) /\ call[c].pc # "idle"
  BY DEF Step, At, InsvLoad, InsvFull, InsvRoom, InsvStore, InsvCommit, RemvLoad, RemvEmpty,
         RemvSome, RemvFetch, RemvAdvance, FlushClear, FlushLoad, FlushPurge, CnpvIn, CnpvOut, Restore
<1>. PICK B \in Buffers : B = call[c].b
  BY <1>0, Alone
<1>1. /\ call[c] \in Calls /\ B = call[c].b
      /\ TypeOK /\ TypeOK' /\ Fresh(call[c], buf_ix_in, buf_ix_out, mem)
  BY <1>0, Alone DEF IInv, LocalsFresh
<1>2. /\ buf_ix_in[B] \in Nat /\ buf_ix_in[B] < LENGTHS[B]
      /\ buf_ix_out[B] \in Nat /\ buf_ix_out[B] < LENGTHS[B]
      /\ LENGTHS[B] \in Nat
  BY <1>1, LengthsAssumption, ByteSizeAssumption DEF TypeOK
<1>3. Q[B] = Content(B) /\ Len(Content(B)) = Size(B) /\ Content(B) \in Seq(Nat)
      /\ Size(B) \in Nat
  BY <1>1, ContentFacts, RingFacts DEF Q
<1>2a. CASE InsvLoad(c) \/ InsvRoom(c) \/ RemvLoad(c) \/ RemvSome(c) \/ FlushClear(c)
           \/ FlushLoad(c) \/ CnpvIn(c) \/ Restore(c)
  <2>1. UNCHANGED <<ring, ret>>
    BY <1>2a DEF InsvLoad, InsvRoom, RemvLoad, RemvSome, FlushClear, FlushLoad, CnpvIn, Restore
  <2> QED BY <2>1, <1>1, RingSame
<1>4. CASE InsvFull(c)
  <2>1. Fifo!InsertFull(c, B)
    BY <1>4, <1>1, <1>2, <1>3, RingSame, RingFacts
       DEF InsvFull, At, Fresh, ring, Reply, Answer, Fifo!InsertFull, Fifo!Reply, Fifo!Answer, Q
  <2> QED BY <2>1, <1>1 DEF Fifo!Next
<1>5. CASE InsvStore(c)
  <2>1. call[c].offso = buf_ix_in[B]
    BY <1>5, <1>1 DEF InsvStore, At, Fresh
  <2>2. \A i \in 0..Size(B)-1 : mem'[B][Slot(B, i)] = mem[B][Slot(B, i)]
    BY <1>5, <2>1, <1>1, RingFacts DEF InsvStore, TypeOK
  <2>3. Content(B)' = Content(B)
    BY <1>5, <2>2, <1>1, ContentSame DEF InsvStore
  <2>4. \A e \in Buffers : e # B => mem'[e] = mem[e]
    BY <1>5, <1>1 DEF InsvStore, TypeOK
  <2>5. Q' = [Q EXCEPT ![B] = Content(B)]
    BY <1>5, <2>3, <2>4, <1>1, RingOne DEF InsvStore
  <2>6. Q' = Q
    BY <2>5, <1>1 DEF Q
  <2> QED BY <1>5, <2>6 DEF InsvStore
<1>6. CASE InsvCommit(c)
  <2>. PICK d \in Data : d = call[c].d
    BY <1>6, <1>1 DEF InsvCommit, At, Fresh
  <2>1. /\ call[c].offso = buf_ix_in[B] /\ Wrap(B, buf_ix_in[B]) # buf_ix_out[B]
        /\ mem[B][buf_ix_in[B]] = d /\ d \in Nat
    BY <1>6, <1>1, DataAssumption DEF InsvCommit, At, Fresh
  <2>2. /\ buf_ix_in'[B] = Wrap(B, buf_ix_in[B]) /\ buf_ix_out' = buf_ix_out /\ mem' = mem
        /\ \A e \in Buffers : e # B => buf_ix_in'[e] = buf_ix_in[e]
    BY <1>6, <2>1, <1>1 DEF InsvCommit, TypeOK
  <2>3. Content(B)' = Append(Content(B), d)
    BY <2>1, <2>2, <1>1, InsertContent
  <2>4. Q' = [Q EXCEPT ![B] = Append(Content(B), d)]
    BY <2>2, <2>3, <1>1, RingOne
  <2>5. Size(B) < LENGTHS[B] - 1
    BY <2>1, <1>1, <1>2, RingFacts
  <2>6. Fifo!Insert(c, B, d)
    BY <1>6, <2>4, <2>5, <1>3 DEF InsvCommit, Reply, Void, Answer, Fifo!Insert, Fifo!Reply, Fifo!Void, Fifo!Answer, Q
  <2> QED BY <2>6, <1>1 DEF Fifo!Next
<1>7. CASE RemvEmpty(c)
  <2>1. buf_ix_in[B] = buf_ix_out[B]
    BY <1>7, <1>1 DEF RemvEmpty, At, Fresh
  <2>2. Content(B) = <<>>
    BY <2>1, <1>1, <1>3, RingFacts, EmptySeq
  <2>3. Fifo!RemoveEmpty(c, B)
    BY <1>7, <2>2, <1>1, <1>3, RingSame
       DEF RemvEmpty, Reply, Failed, Answer, Fifo!RemoveEmpty, Fifo!Reply, Fifo!Failed, Fifo!Answer, Q
  <2> QED BY <2>3 DEF Fifo!Next
<1>8. CASE RemvFetch(c)
  <2>1. /\ call[c].offso = buf_ix_out[B] /\ buf_ix_in[B] # buf_ix_out[B]
    BY <1>8, <1>1 DEF RemvFetch, At, Fresh
  <2>2. Q' = Q
    BY <1>8, <1>1, RingSame DEF RemvFetch
  <2>3. CASE ~call[c].flag
    BY <1>8, <2>2, <2>3 DEF RemvFetch
  <2>4. CASE call[c].flag
    <3>1. Size(B) # 0 /\ Slot(B, 0) = buf_ix_out[B]
      BY <2>1, <1>1, <1>2, RingFacts DEF Slot
    <3>2. Content(B) # <<>> /\ Head(Content(B)) = mem[B][buf_ix_out[B]]
      BY <3>1, <1>1, <1>3, ContentFacts
    <3>3. ret' = [ret EXCEPT ![c] = Answer(FALSE, mem[B][buf_ix_out[B]], "none")]
      BY <1>8, <2>1, <2>4, <1>1 DEF RemvFetch, Reply
    <3>4. Fifo!Peek(c, B)
      BY <2>2, <3>2, <3>3, <1>3 DEF Answer, Fifo!Peek, Fifo!Reply, Fifo!Answer, Q
    <3> QED BY <3>4 DEF Fifo!Next
  <2> QED BY <2>3, <2>4
<1>9. CASE RemvAdvance(c)
  <2>1. /\ call[c].offso = buf_ix_out[B] /\ call[c].offsi = buf_ix_in[B]
        /\ buf_ix_in[B] # buf_ix_out[B] /\ call[c].c = mem[B][buf_ix_out[B]]
    BY <1>9, <1>1 DEF RemvAdvance, At, Fresh
  <2>2. WrapByte(B, buf_ix_out[B]) = Wrap(B, buf_ix_out[B])
    BY <1>2, WrapFacts
  <2>3. /\ buf_ix_out'[B] = Wrap(B, buf_ix_out[B]) /\ buf_ix_in' = buf_ix_in /\ mem' = mem
        /\ \A e \in Buffers : e # B => buf_ix_out'[e] = buf_ix_out[e]
    BY <1>9, <2>1, <2>2, <1>1 DEF RemvAdvance, TypeOK
  <2>4. /\ Content(B) # <<>> /\ Head(Content(B)) = mem[B][buf_ix_out[B]]
        /\ Content(B)' = Tail(Content(B))
    BY <2>1, <2>3, <1>1, RemoveContent
  <2>5. Q' = [Q EXCEPT ![B] = Tail(Content(B))]
    BY <2>3, <2>4, <1>1, RingOne
  <2>6. Wrap(B, buf_ix_out[B]) = buf_ix_in[B] <=> Len(Content(B)) = 1
    BY <2>1, <1>1, <1>3, RingFacts
  <2>7. ret' = [ret EXCEPT ![c] = Answer(FALSE, mem[B][buf_ix_out[B]],
               IF B >= 2 /\ Len(Content(B)) = 1 THEN "output_empty" ELSE "none")]
    BY <1>9, <2>1, <2>2, <2>6, <1>1 DEF RemvAdvance, Reply
  <2>8. Fifo!Remove(c, B)
    BY <2>4, <2>5, <2>7, <1>3 DEF Answer, Fifo!Remove, Fifo!Reply, Fifo!Answer, Q
  <2> QED BY <2>8 DEF Fifo!Next
<1>10. CASE FlushPurge(c)
  <2>1. /\ buf_ix_out'[B] = buf_ix_in[B] /\ buf_ix_in' = buf_ix_in /\ mem' = mem
        /\ \A e \in Buffers : e # B => buf_ix_out'[e] = buf_ix_out[e]
    BY <1>10, <1>1 DEF FlushPurge, TypeOK, At, Fresh
  <2>2. Size(B)' = 0
    BY <2>1, <1>2 DEF Size
  <2>3. Content(B)' = <<>>
    BY <2>2, EmptySeq DEF Content
  <2>4. Q' = [Q EXCEPT ![B] = <<>>]
    BY <2>1, <2>3, <1>1, RingOne
  <2>5. Fifo!Purge(c, B)
    BY <1>10, <2>4 DEF FlushPurge, Reply, Void, Answer, Fifo!Purge, Fifo!Reply, Fifo!Void, Fifo!Answer, Q
  <2> QED BY <2>5 DEF Fifo!Next
<1>11. CASE CnpvOut(c)
  <2>1. call[c].offsi = buf_ix_in[B]
    BY <1>11, <1>1 DEF CnpvOut, At, Fresh
  <2>2. Q' = Q
    BY <1>11, <1>1, RingSame DEF CnpvOut, ring
  <2> DEFINE r == IF call[c].flag THEN LENGTHS[B] - Size(B) ELSE Size(B)
  <2>3. ret' = [ret EXCEPT ![c] = Answer(FALSE, r % ByteSize, "none")]
    <3> DEFINE diff == buf_ix_in[B] - buf_ix_out[B]
               count == IF diff < 0 THEN LENGTHS[B] + diff ELSE diff
    <3>1. count = Size(B)
      BY <1>2 DEF Size
    <3>2. ret' = [ret EXCEPT ![c] = Answer(FALSE,
                   (IF call[c].flag THEN LENGTHS[B] - count ELSE count) % ByteSize, "none")]
      BY <1>11, <2>1, <1>1 DEF CnpvOut, Reply
    <3> HIDE DEF count
    <3> QED BY <3>1, <3>2
  <2>4. CASE call[c].flag
    <3>1. Fifo!Free(c, B)
      BY <2>2, <2>3, <2>4, <1>3 DEF Answer, Fifo!Free, Fifo!Reply, Fifo!Answer, Q
    <3> QED BY <3>1 DEF Fifo!Next
  <2>5. CASE ~call[c].flag
    <3>1. Fifo!Count(c, B)
      BY <2>2, <2>3, <2>5, <1>3 DEF Answer, Fifo!Count, Fifo!Reply, Fifo!Answer, Q
    <3> QED BY <3>1 DEF Fifo!Next
  <2> QED BY <2>4, <2>5
<1> QED
  BY <1>2a, <1>4, <1>5, <1>6, <1>7, <1>8, <1>9, <1>10, <1>11 DEF Step

LEMMA NextSimulation == IInv /\ IInv' /\ [Next]_vars => [Fifo!Next]_<<Q, ret>>
<1> SUFFICES ASSUME IInv, IInv', [Next]_vars PROVE Fifo!Next \/ UNCHANGED <<Q, ret>>
  OBVIOUS
<1>0. TypeOK
  BY DEF IInv
<1>1. ASSUME NEW c \in Ctx, Step(c) PROVE Fifo!Next \/ UNCHANGED <<Q, ret>>
  BY <1>1, StepSimulation
<1>2. ASSUME NEW c \in Ctx, NotOurs(c) PROVE Fifo!Next
  <2>1. Fifo!NotOurs(c)
    BY <1>0, <1>2, RingSame DEF NotOurs, Reply, Failed, Void, Answer, Fifo!NotOurs, Fifo!Reply,
       Fifo!Failed, Fifo!Void, Fifo!Answer, Q
  <2> QED BY <2>1 DEF Fifo!Next
<1>3. ASSUME NEW c \in Ctx, Begin(c), ~NotOurs(c) PROVE UNCHANGED <<ring, ret>>
  BY <1>3 DEF Begin, InsvEnter, RemvEnter, CnpvEnter, FlushEnter, Enter
<1>4. CASE IrqEnter \/ IrqExit \/ VduSequence \/ UNCHANGED vars
  <2>1. UNCHANGED <<ring, ret>>
    BY <1>4 DEF IrqEnter, IrqExit, VduSequence, vars, ring
  <2> QED BY <2>1, <1>0, RingSame
<1> QED BY <1>0, <1>1, <1>2, <1>3, <1>4, RingSame DEF Next

LEMMA InitSimulation == Init => Fifo!Init
<1> SUFFICES ASSUME Init PROVE Fifo!Init
  OBVIOUS
<1>2. ASSUME NEW b \in Buffers PROVE Content(b) = <<>>
  <2>1. buf_ix_in[b] = 0 /\ buf_ix_out[b] = 0
    BY DEF Init
  <2>2. Size(b) = 0
    BY <2>1 DEF Size
  <2> QED BY <2>2, EmptySeq DEF Content
<1> QED BY <1>2 DEF Init, Fifo!Init, Void, Answer, Fifo!Void, Fifo!Answer

(* The buffers implement bounded first-in first-out queues with atomic     *)
(* operations, whatever the interrupt handler does between the steps.      *)
THEOREM BuffersImplementFifo == Spec => RefinesFifo
<1>1. Spec => []IInv
  BY InitInv, NextInv, PTL DEF Spec
<1>2. [Fifo!Next]_<<Q, ret>> => [Fifo!Next]_Fifo!vars
  BY DEF Q, Fifo!vars
<1> QED BY <1>1, <1>2, InitSimulation, NextSimulation, PTL DEF Spec, RefinesFifo, Fifo!Spec
=============================================================================
