---------------------------- MODULE EcallProofs ----------------------------
(***************************************************************************)
(* Proofs about the two ways an interrupt reaches into the program's calls *)
(* of the MOS.  The trap kernel: the types, the nesting of the MOS stack,  *)
(* and that every ecall of the program comes back with its own outcome.    *)
(* The escape condition, whose handler makes such ecalls: its flag, and    *)
(* the characters typed ahead of it.                                       *)
(***************************************************************************)
EXTENDS Ecall, Escape, SequenceTheorems, TLAPS

-----------------------------------------------------------------------------
(* The inductive invariant.  A context (place, level, stack pointer) fixes *)
(* how many frames can be live under it; that bounds the stack.            *)
Deep(p, l) == CASE p = "user" -> 0
                [] p = "callee" -> 1
                [] p \in Mos \ {"callee"} -> IF l = 0 THEN 2 ELSE 4
                [] OTHER -> IF l = 1 THEN 3 ELSE 5

Context(p, l, s) ==
  /\ Fits(p, l, s)
  /\ p \in Mos => l \in {0, 1}
  /\ p = "callee" => l = 0
  /\ p = "sample" => l \in {1, 2}
  /\ s # 0 => TOP - s + 1 <= Deep(p, l)

(* The trap whose frame is f, running at place p and level l.              *)
Link(f, p, l) ==
  /\ f.mepc # "sample"
  /\ IF p \in Mos THEN f.mepc \in {"user", "handler", "callee"} /\ l = f.level
                  ELSE l > f.level

Place(i) == IF i = sp THEN pc ELSE stack[i-1].mepc
Level(i) == IF i = sp THEN meicontext ELSE stack[i-1].level
Live(i) == sp # 0 /\ i >= sp

Nest ==
  /\ Context(pc, meicontext, sp)
  /\ \A i \in 1..TOP : Live(i) =>
       /\ stack[i].sp = IF i = TOP THEN 0 ELSE i + 1
       /\ Context(stack[i].mepc, stack[i].level, stack[i].sp)
       /\ Link(stack[i], Place(i), Level(i))

(* How far the program's call, at place p with frame f, has come.          *)
CallState(p, f) ==
  /\ user_stack_frame = TOP
  /\ p \in {"call", "callee"} => user_error_pend = NULL /\ f.a7 = NULL
  /\ p \in {"number", "message"} =>
       user_error_pend = "set" /\ due = Raised(f.err, f.err)
  /\ p = "message" => block.number = f.err
  /\ p = "exit" =>
       IF user_error_pend = NULL THEN due = Returned(f.a7)
                                 ELSE due = Raised(block.number, block.message)

OwnCall == (sp # 0 /\ Place(TOP) \in Mos) => CallState(Place(TOP), stack[TOP])

(* No call of a handler is about to raise an error.                        *)
NoNestedRaise ==
  /\ sp # TOP => pc \notin {"number", "message"}
  /\ \A i \in 1..TOP : (Live(i) /\ i < TOP - 1) => stack[i].mepc \notin {"number", "message"}

-----------------------------------------------------------------------------
(* The three ways a step changes the nest: a trap enters, a trap leaves,   *)
(* and the context at the top moves on.                                    *)
Enters(p, l, form) ==
  /\ sp' = Push(sp) /\ stack' = [stack EXCEPT ![Push(sp)] = Save(form)]
  /\ pc' = p /\ meicontext' = l

Leaves ==
  /\ sp # 0 /\ sp' = Frame.sp /\ pc' = Frame.mepc /\ meicontext' = Frame.level
  /\ stack' = stack

Moves(p) ==
  /\ sp' = sp /\ pc' = p /\ meicontext' = meicontext
  /\ stack' \in [1..TOP -> Frames]
  /\ \A i \in 1..TOP :
       stack'[i].sp = stack[i].sp /\ stack'[i].mepc = stack[i].mepc /\ stack'[i].level = stack[i].level

(* A trap that may enter finds a free frame, and nests in the others.      *)
LEMMA EnterNest ==
  ASSUME TypeOK, Nest, NEW p \in Places, NEW l \in 0..2, NEW form \in Forms,
         Enters(p, l, form), Link(Save(form), p, l),
         p # "user", p \in Mos => l \in {0, 1}, p = "sample" => l \in {1, 2},
         p \in {"call", "sample"}
  PROVE  /\ Nest'
         /\ sp' \in 1..TOP /\ stack' \in [1..TOP -> Frames]
         /\ stack'[sp'] = Save(form)
         /\ \A i \in 1..TOP : Live(i) => stack'[i] = stack[i] /\ i # sp'
         /\ sp' = IF sp = 0 THEN TOP ELSE sp - 1
<1>1. Context(pc, meicontext, sp) /\ pc # "sample" BY DEF Nest, Link, Save
<1>a. pc \in Places /\ meicontext \in 0..2 /\ sp \in 0..TOP BY DEF TypeOK
<1>b. p \in Mos => pc \in {"user", "handler", "callee"} /\ l = meicontext BY DEF Link, Save
<1>c. p \notin Mos => l > meicontext BY DEF Link, Save
<1>d. Deep(pc, meicontext) = IF pc = "user" THEN 0
                            ELSE IF pc = "callee" THEN 1
                            ELSE IF pc \in Mos THEN IF meicontext = 0 THEN 2 ELSE 4
                            ELSE IF meicontext = 1 THEN 3 ELSE 5
  BY DEF Deep, Mos
<1>e. Deep(p, l) = IF p \in Mos THEN IF l = 0 THEN 2 ELSE 4 ELSE IF l = 1 THEN 3 ELSE 5
  BY DEF Deep, Mos
<1>f. Deep(pc, meicontext) < Deep(p, l)
  <2>1. CASE p \in Mos
    <3>1. CASE pc = "user" BY <2>1, <3>1, <1>b, <1>d, <1>e
    <3>3. CASE pc = "callee" BY <2>1, <3>3, <1>b, <1>d, <1>e
    <3>2. CASE pc = "handler"
      <4>1. meicontext = 1 /\ pc \notin Mos BY <3>2, <1>1 DEF Context, Fits, Mos
      <4>2. Deep(pc, meicontext) = 3 BY <3>2, <4>1, <1>d
      <4>3. l = 1 /\ Deep(p, l) = 4 BY <2>1, <4>1, <1>b, <1>e
      <4> QED BY <4>2, <4>3
    <3> QED BY <2>1, <3>1, <3>2, <3>3, <1>b
  <2>2. CASE p \notin Mos
    <3>1. l \in {1, 2} BY <2>2 DEF Mos
    <3>2. CASE pc \in Mos \cup {"user"} BY <2>2, <3>1, <3>2, <1>a, <1>c, <1>d, <1>e
    <3>3. CASE pc \in {"irq", "handler", "nmi"}
      <4>1. meicontext = IF pc = "nmi" THEN 2 ELSE 1 BY <3>3, <1>1 DEF Context, Fits
      <4> QED BY <2>2, <3>1, <3>3, <4>1, <1>c, <1>d, <1>e DEF Mos
    <3> QED BY <3>2, <3>3, <1>a, <1>1 DEF Places
  <2> QED BY <2>1, <2>2
<1>2. sp = 0 \/ sp - 1 \in 1..TOP
  <2>1. Deep(p, l) <= 5 /\ Deep(p, l) \in Nat /\ Deep(pc, meicontext) \in Nat BY <1>d, <1>e
  <2> QED BY <2>1, <1>a, <1>f, <1>1, TopAssumption DEF Context
<1>3. Push(sp) = (IF sp = 0 THEN TOP ELSE sp - 1) /\ Push(sp) \in 1..TOP
  BY <1>2, TopAssumption DEF TypeOK, Push, OnMosStack
<1>4. Context(p, l, Push(sp))
  <2>1. Deep(p, l) \in 1..5 /\ Deep(pc, meicontext) \in Nat BY <1>d, <1>e
  <2>2. TOP - Push(sp) + 1 <= Deep(p, l)
    BY <2>1, <1>3, <1>a, <1>f, <1>1, TopAssumption DEF Context
  <2>3. Fits(p, l, Push(sp)) BY <1>3 DEF Fits
  <2> QED BY <2>2, <2>3 DEF Context
<1>5. Save(form) \in Frames
  BY NullAssumption DEF TypeOK, Save, Frames, Outcomes
<1>6. sp' = Push(sp) /\ stack' \in [1..TOP -> Frames] /\ stack'[sp'] = Save(form)
      /\ \A i \in 1..TOP : i # sp' => stack'[i] = stack[i]
  BY <1>3, <1>5 DEF Enters, TypeOK
<1>7. \A i \in 1..TOP : Live(i) => i # sp'
  BY <1>3, <1>6, TopAssumption DEF Live, TypeOK
<1>8. Nest'
  <2> SUFFICES ASSUME NEW i \in 1..TOP, Live(i)'
      PROVE /\ stack'[i].sp = IF i = TOP THEN 0 ELSE i + 1
            /\ Context(stack'[i].mepc, stack'[i].level, stack'[i].sp)
            /\ Link(stack'[i], Place(i)', Level(i)')
    BY <1>4, <1>6 DEF Nest, Enters
  <2>1. CASE i = sp'
    <3>1. stack'[i] = Save(form) BY <2>1, <1>6
    <3>2. Place(i)' = p /\ Level(i)' = l BY <2>1 DEF Place, Level, Enters
    <3>3. stack'[i].sp = sp /\ stack'[i].mepc = pc /\ stack'[i].level = meicontext
      BY <3>1 DEF Save
    <3>4. sp = IF i = TOP THEN 0 ELSE i + 1
      BY <2>1, <1>3, <1>6, TopAssumption DEF TypeOK
    <3> QED BY <3>1, <3>2, <3>3, <3>4, <1>1
  <2>2. CASE i # sp'
    <3>1. Live(i) /\ stack'[i] = stack[i]
      BY <2>2, <1>3, <1>6, TopAssumption DEF Live, TypeOK
    <3>2. Place(i)' = Place(i) /\ Level(i)' = Level(i)
      <4>1. CASE i = sp
        <5>1. i - 1 = sp' /\ i - 1 \in 1..TOP
          BY <4>1, <1>3, <1>6, TopAssumption DEF TypeOK
        <5>2. stack'[i-1] = Save(form) BY <5>1, <1>6
        <5> QED BY <4>1, <2>2, <5>2 DEF Place, Level, Save
      <4>2. CASE i # sp
        <5>1. i - 1 \in 1..TOP /\ i - 1 # sp'
          BY <4>2, <3>1, <1>3, <1>6, TopAssumption DEF Live, TypeOK
        <5>2. stack'[i-1] = stack[i-1] BY <5>1, <1>6
        <5> QED BY <4>2, <2>2, <5>2 DEF Place, Level
      <4> QED BY <4>1, <4>2
    <3> QED BY <3>1, <3>2 DEF Nest
  <2> QED BY <2>1, <2>2
<1> QED BY <1>3, <1>6, <1>7, <1>8

(* The trap at the top leaves the nest of the others as it was.            *)
LEMMA LeaveNest ==
  ASSUME TypeOK, Nest, Leaves
  PROVE  /\ Nest'
         /\ sp' = IF sp = TOP THEN 0 ELSE sp + 1
         /\ pc' \in Places /\ meicontext' \in 0..2
         /\ sp' # 0 => Place(TOP)' = Place(TOP)
<1>1. sp \in 1..TOP /\ Live(sp) BY DEF Leaves, TypeOK, Live
<1>2. /\ stack[sp].sp = IF sp = TOP THEN 0 ELSE sp + 1
      /\ Context(stack[sp].mepc, stack[sp].level, stack[sp].sp)
  BY <1>1 DEF Nest
<1>3. stack[sp] \in Frames BY <1>1 DEF TypeOK
<1>4. sp' = (IF sp = TOP THEN 0 ELSE sp + 1) /\ Context(pc, meicontext, sp)'
  BY <1>2 DEF Leaves, Frame
<1>5. ASSUME NEW i \in 1..TOP, Live(i)'
      PROVE Live(i) /\ Place(i)' = Place(i) /\ Level(i)' = Level(i)
  <2>1. Live(i) /\ i # sp BY <1>4, <1>5, <1>1, TopAssumption DEF Live, TypeOK
  <2>2. CASE i = sp'
    <3>1. i - 1 = sp BY <2>2, <1>4, <1>1, <1>5, TopAssumption
    <3> QED BY <2>1, <2>2, <3>1 DEF Place, Level, Leaves, Frame
  <2>3. CASE i # sp'
    BY <2>1, <2>3 DEF Place, Level, Leaves
  <2> QED BY <2>1, <2>2, <2>3
<1>6. Nest'
  BY <1>4, <1>5 DEF Nest, Leaves
<1>7. sp' # 0 => Live(TOP)' /\ TOP \in 1..TOP
  BY <1>4, <1>1, TopAssumption DEF Live
<1> QED BY <1>3, <1>4, <1>5, <1>6, <1>7 DEF Leaves, Frame, Frames

(* A move within a trap keeps the nest if its new place fits as the old.   *)
LEMMA MoveNest ==
  ASSUME TypeOK, Nest, NEW p \in Places, Moves(p), pc # "user", p # "user",
         p \in Mos <=> pc \in Mos, Fits(p, meicontext, sp),
         p = "sample" => meicontext \in {1, 2},
         p = "callee" => pc = "call" /\ sp = TOP /\ meicontext = 0
  PROVE  Nest'
<1>1. Context(p, meicontext, sp)
  BY TopAssumption DEF Nest, Context, Fits, Deep, TypeOK
<1>2. ASSUME NEW i \in 1..TOP, Live(i)'
      PROVE /\ Live(i) /\ Level(i)' = Level(i)
            /\ Place(i)' \in Mos <=> Place(i) \in Mos
  <2>1. Live(i) BY <1>2 DEF Live, Moves
  <2>2. CASE i = sp BY <2>1, <2>2 DEF Place, Level, Moves
  <2>3. CASE i # sp
    <3>1. i - 1 \in 1..TOP BY <2>1, <2>3, TopAssumption DEF Live, TypeOK
    <3>2. stack'[i-1].mepc = stack[i-1].mepc /\ stack'[i-1].level = stack[i-1].level
      BY <3>1 DEF Moves
    <3>3. Place(i)' = Place(i) /\ Level(i)' = Level(i)
      BY <2>3, <3>2 DEF Place, Level, Moves
    <3> QED BY <2>1, <3>3
  <2> QED BY <2>1, <2>2, <2>3
<1> QED BY <1>1, <1>2 DEF Nest, Moves, Link

-----------------------------------------------------------------------------
(* Each action is one of the three.                                        *)
LEMMA EntryEnters ==
  ASSUME TypeOK, Nest
  PROVE  /\ \A form \in Forms : EcallEntry(form) =>
              /\ Enters("call", meicontext, form) /\ Link(Save(form), "call", meicontext)
              /\ meicontext \in {0, 1}
         /\ \A level \in {1, 2} : IrqEntry(level) =>
              Enters("sample", level, "x") /\ Link(Save("x"), "sample", level)
<1>1. Context(pc, meicontext, sp) BY DEF Nest
<1>2. ASSUME NEW form \in Forms, EcallEntry(form)
      PROVE  /\ Enters("call", meicontext, form) /\ Link(Save(form), "call", meicontext)
             /\ meicontext \in {0, 1}
  <2>1. Enters("call", meicontext, form) BY <1>2 DEF EcallEntry, Enters
  <2>2. pc \in {"user", "handler", "callee"} BY <1>2 DEF EcallEntry
  <2>3. Link(Save(form), "call", meicontext) BY <2>2 DEF Link, Save, Mos
  <2> QED BY <2>1, <2>2, <2>3, <1>1 DEF Fits, Context
<1>3. ASSUME NEW level \in {1, 2}, IrqEntry(level)
      PROVE  Enters("sample", level, "x") /\ Link(Save("x"), "sample", level)
  <2>1. Enters("sample", level, "x") BY <1>3 DEF IrqEntry, Enters
  <2>2. pc # "sample" /\ level > meicontext BY <1>3 DEF IrqEntry, TypeOK
  <2>3. Link(Save("x"), "sample", level) BY <2>2 DEF Link, Save, Mos
  <2> QED BY <2>1, <2>3
<1> QED BY <1>2, <1>3

LEMMA ExitLeaves ==
  ASSUME TypeOK, Nest
  PROVE  /\ ExitError \/ ExitReturn => Leaves /\ sp \in 1..TOP
         /\ NoMoreIrqs => Leaves /\ sp \in 1..TOP
<1>1. Fits(pc, meicontext, sp) BY DEF Nest, Context
<1>2. pc # "user" => sp \in 1..TOP /\ Live(sp) BY <1>1 DEF Fits, TypeOK, Live
<1>3. pc = "exit" => Frame.level = meicontext
  BY <1>2 DEF Nest, Link, Place, Level, Mos, Frame
<1>4. (pc # "user" /\ sp = TOP) => Frame.mepc = "user"
  BY <1>2 DEF Nest, Context, Fits, Frame
<1>5. ExitError => Leaves
  <2> SUFFICES ASSUME ExitError PROVE Leaves OBVIOUS
  <2>1. pc = "exit" /\ sp = TOP BY <1>2 DEF ExitError, Errs, TypeOK
  <2> QED BY <2>1, <1>2, <1>3, <1>4 DEF ExitError, Leaves, TypeOK
<1>6. ExitReturn => Leaves BY <1>2, <1>3 DEF ExitReturn, Leaves
<1>7. NoMoreIrqs => Leaves BY <1>2 DEF NoMoreIrqs, Leaves
<1> QED BY <1>2, <1>5, <1>6, <1>7 DEF ExitError, ExitReturn, NoMoreIrqs

(* The steps inside a call, and inside an interrupt.                       *)
Inside ==
  \/ \E err \in Outcomes : ServeX(err)
  \/ CallCallee \/ CalleeReturns \/ ServePlain
  \/ \E err \in Errors : RaisePending(err)
  \/ RaiseNumber \/ RaiseMessage

Around == Dispatch \/ CallHandler \/ HandlerReturns \/ DispatchReturns

LEMMA InsideMoves ==
  ASSUME TypeOK, Nest, Inside
  PROVE  /\ Moves(pc') /\ pc' \in Mos /\ pc \in Mos /\ sp \in 1..TOP
         /\ pc' = "callee" => pc = "call" /\ FromUser
         /\ \A i \in 1..TOP : stack'[i].form = stack[i].form
         /\ \A i \in 1..TOP : i # sp => stack'[i] = stack[i]
<1>1. Fits(pc, meicontext, sp) BY DEF Nest, Context
<1>2. pc \in Mos => sp \in 1..TOP BY <1>1 DEF Fits, TypeOK, Mos
<1>3. ASSUME NEW f \in Frames, NEW err \in Outcomes
      PROVE  [f EXCEPT !.a7 = err, !.err = err] \in Frames /\ [f EXCEPT !.err = err] \in Frames
  BY <1>3 DEF Frames
<1>4. ASSUME NEW err \in Outcomes, ServeX(err)
      PROVE  /\ Moves(pc') /\ pc' \in Mos /\ pc \in Mos
             /\ \A i \in 1..TOP : stack'[i].form = stack[i].form
             /\ \A i \in 1..TOP : i # sp => stack'[i] = stack[i]
  <2>1. pc = "call" /\ pc' = "exit" /\ sp' = sp /\ meicontext' = meicontext
        /\ stack' = [stack EXCEPT ![sp].a7 = err, ![sp].err = err]
    BY <1>4 DEF ServeX
  <2>2. sp \in 1..TOP BY <2>1, <1>2 DEF Mos
  <2>3. stack' = [stack EXCEPT ![sp] = [stack[sp] EXCEPT !.a7 = err, !.err = err]]
    BY <2>1, <2>2 DEF TypeOK
  <2>4. stack' \in [1..TOP -> Frames] BY <2>2, <2>3, <1>3 DEF TypeOK
  <2>5. \A i \in 1..TOP : /\ stack'[i].sp = stack[i].sp /\ stack'[i].mepc = stack[i].mepc
                          /\ stack'[i].level = stack[i].level /\ stack'[i].form = stack[i].form
                          /\ i # sp => stack'[i] = stack[i]
    BY <2>2, <2>3 DEF TypeOK, Frames
  <2> QED BY <2>1, <2>4, <2>5 DEF Moves, Mos
<1>5. ASSUME NEW err \in Errors, RaisePending(err)
      PROVE  /\ Moves(pc') /\ pc' \in Mos /\ pc \in Mos
             /\ \A i \in 1..TOP : stack'[i].form = stack[i].form
             /\ \A i \in 1..TOP : i # sp => stack'[i] = stack[i]
  <2>1. pc = "call" /\ pc' = "number" /\ sp' = sp /\ meicontext' = meicontext
        /\ stack' = [stack EXCEPT ![sp].err = err]
    BY <1>5 DEF RaisePending
  <2>2. sp \in 1..TOP BY <2>1, <1>2 DEF Mos
  <2>3. stack' = [stack EXCEPT ![sp] = [stack[sp] EXCEPT !.err = err]]
    BY <2>1, <2>2 DEF TypeOK
  <2>4. stack' \in [1..TOP -> Frames] BY <2>2, <2>3, <1>3 DEF TypeOK, Outcomes
  <2>5. \A i \in 1..TOP : /\ stack'[i].sp = stack[i].sp /\ stack'[i].mepc = stack[i].mepc
                          /\ stack'[i].level = stack[i].level /\ stack'[i].form = stack[i].form
                          /\ i # sp => stack'[i] = stack[i]
    BY <2>2, <2>3 DEF TypeOK, Frames
  <2> QED BY <2>1, <2>4, <2>5 DEF Moves, Mos
<1>6. CallCallee \/ CalleeReturns \/ ServePlain \/ RaiseNumber \/ RaiseMessage =>
        Moves(pc') /\ pc' \in Mos /\ pc \in Mos /\ stack' = stack
  BY DEF CallCallee, CalleeReturns, ServePlain, RaiseNumber, RaiseMessage, Moves, Mos, TypeOK
<1>7. pc' = "callee" => CallCallee
  BY DEF Inside, CalleeReturns, ServeX, ServePlain, RaisePending, RaiseNumber, RaiseMessage
<1> QED BY <1>2, <1>4, <1>5, <1>6, <1>7 DEF Inside, CallCallee

(* What they do to the slot, the block and what the outcome owes.          *)
LEMMA InsideEffects ==
  ASSUME TypeOK, Nest, Inside
  PROVE  /\ UNCHANGED <<user_stack_frame, got>>
         /\ \/ /\ pc \in {"call", "callee"} /\ pc' \in {"call", "callee"} /\ stack' = stack
               /\ UNCHANGED <<user_error_pend, block, due>>
            \/ /\ \E err \in Outcomes :
                    Owes(err) /\ Frame.form = "x" /\ stack'[sp].a7 = err /\ stack'[sp].err = err
               /\ pc = "call" /\ pc' = "exit" /\ UNCHANGED <<user_error_pend, block>>
            \/ /\ Owes(NULL) /\ Frame.form = "plain" /\ stack' = stack
               /\ pc = "call" /\ pc' = "exit" /\ UNCHANGED <<user_error_pend, block>>
            \/ /\ \E err \in Errors : Owes(err) /\ stack'[sp].err = err
               /\ Frame.form = "plain" /\ user_error_pend' = "set"
               /\ FromUser \/ NestedRaise
               /\ pc = "call" /\ pc' = "number" /\ UNCHANGED block
            \/ /\ pc = "number" /\ pc' = "message" /\ block' = [block EXCEPT !.number = Frame.err]
               /\ UNCHANGED <<stack, due, user_error_pend>>
            \/ /\ pc = "message" /\ pc' = "exit" /\ block' = [block EXCEPT !.message = Frame.err]
               /\ UNCHANGED <<stack, due, user_error_pend>>
<1>0. sp \in 1..TOP BY InsideMoves
<1>1. ASSUME NEW err \in Outcomes, ServeX(err)
      PROVE  /\ Owes(err) /\ Frame.form = "x" /\ stack'[sp].a7 = err /\ stack'[sp].err = err
             /\ pc = "call" /\ pc' = "exit" /\ UNCHANGED <<user_stack_frame, got, user_error_pend, block>>
  <2>1. stack' = [stack EXCEPT ![sp].a7 = err, ![sp].err = err] BY <1>1 DEF ServeX
  <2>2. stack' = [stack EXCEPT ![sp] = [stack[sp] EXCEPT !.a7 = err, !.err = err]]
    BY <2>1, <1>0 DEF TypeOK
  <2>3. stack'[sp] = [stack[sp] EXCEPT !.a7 = err, !.err = err] BY <2>2, <1>0 DEF TypeOK
  <2>4. stack[sp] \in Frames BY <1>0 DEF TypeOK
  <2>5. stack'[sp].a7 = err /\ stack'[sp].err = err BY <2>3, <2>4 DEF Frames
  <2> QED BY <2>5, <1>1 DEF ServeX, kernel
<1>2. ASSUME NEW err \in Errors, RaisePending(err)
      PROVE  /\ Owes(err) /\ stack'[sp].err = err
             /\ Frame.form = "plain" /\ user_error_pend' = "set" /\ (FromUser \/ NestedRaise)
             /\ pc = "call" /\ pc' = "number" /\ UNCHANGED <<user_stack_frame, got, block>>
  <2>1. stack' = [stack EXCEPT ![sp].err = err] BY <1>2 DEF RaisePending
  <2>2. stack[sp] \in Frames BY <1>0 DEF TypeOK
  <2>3. stack'[sp].err = err BY <2>1, <2>2, <1>0 DEF TypeOK, Frames
  <2> QED BY <2>3, <1>2 DEF RaisePending
<1>3. ServePlain => /\ Owes(NULL) /\ Frame.form = "plain" /\ stack' = stack
                    /\ pc = "call" /\ pc' = "exit"
                    /\ UNCHANGED <<user_stack_frame, got, user_error_pend, block>>
  BY DEF ServePlain, kernel
<1>4. RaiseNumber => /\ pc = "number" /\ pc' = "message" /\ block' = [block EXCEPT !.number = Frame.err]
                     /\ UNCHANGED <<user_stack_frame, got, stack, due, user_error_pend>>
  BY DEF RaiseNumber
<1>5. RaiseMessage => /\ pc = "message" /\ pc' = "exit" /\ block' = [block EXCEPT !.message = Frame.err]
                      /\ UNCHANGED <<user_stack_frame, got, stack, due, user_error_pend>>
  BY DEF RaiseMessage
<1>6. CallCallee \/ CalleeReturns =>
        /\ pc \in {"call", "callee"} /\ pc' \in {"call", "callee"} /\ stack' = stack
        /\ UNCHANGED <<user_stack_frame, got, user_error_pend, block, due>>
  BY DEF CallCallee, CalleeReturns, kernel
<1> QED BY <1>1, <1>2, <1>3, <1>4, <1>5, <1>6 DEF Inside

LEMMA AroundMoves ==
  ASSUME TypeOK, Nest, Around
  PROVE  /\ Moves(pc') /\ pc' \in Places \ (Mos \cup {"user"}) /\ pc \notin Mos \cup {"user"}
         /\ Fits(pc', meicontext, sp) /\ (pc' = "sample" => meicontext \in {1, 2})
         /\ stack' = stack /\ UNCHANGED <<kernel, got, due>>
<1>1. Context(pc, meicontext, sp) BY DEF Nest
<1>2. Moves(pc') /\ stack' = stack /\ UNCHANGED <<kernel, got, due>>
  BY DEF Around, Dispatch, CallHandler, HandlerReturns, DispatchReturns, Moves, TypeOK
<1>3. /\ pc \in {"sample", "irq", "handler", "nmi"}
      /\ pc' \in {"sample", "irq", "handler", "nmi"}
      /\ pc' = "sample" => pc \in {"irq", "nmi"}
      /\ pc' \in {"irq", "handler"} => meicontext = 1
      /\ pc' = "nmi" => meicontext = 2
  BY <1>1 DEF Around, Dispatch, CallHandler, HandlerReturns, DispatchReturns, Context, Fits, TypeOK
<1>4. Fits(pc', meicontext, sp) /\ (pc' = "sample" => meicontext \in {1, 2})
  BY <1>1, <1>3 DEF Context, Fits
<1>5. pc' \in Places \ (Mos \cup {"user"}) /\ pc \notin Mos \cup {"user"}
  BY <1>3 DEF Places, Mos
<1> QED BY <1>2, <1>4, <1>5

LEMMA NextKinds ==
  Next <=> \/ \E form \in Forms : EcallEntry(form)
           \/ \E level \in {1, 2} : IrqEntry(level)
           \/ ExitError \/ ExitReturn \/ NoMoreIrqs
           \/ Inside \/ Around
BY DEF Next, Call, Interrupt, Inside, Around

-----------------------------------------------------------------------------
(* Types and nesting.                                                      *)
LEMMA InitNest == Init => TypeOK /\ Nest
  BY TopAssumption, NullAssumption
     DEF Init, TypeOK, Nest, Live, Context, Fits, Mos, Places, Frames, Forms, Outcomes,
         Blank, Returned, Answers

LEMMA Top == ASSUME TypeOK, Nest PROVE /\ TOP \in 1..TOP
                                       /\ sp # 0 => (FromUser <=> sp = TOP)
<1>1. TOP \in 1..TOP BY TopAssumption
<1>2. ASSUME sp # 0 PROVE Frame.sp = IF sp = TOP THEN 0 ELSE sp + 1
  BY <1>2, TopAssumption DEF Nest, Live, Frame, TypeOK
<1>3. sp # 0 /\ sp # TOP => sp + 1 \in 1..TOP BY TopAssumption DEF TypeOK
<1> QED BY <1>1, <1>2, <1>3, TopAssumption DEF FromUser, OnMosStack

LEMMA NextNest == TypeOK /\ Nest /\ [Next]_vars => TypeOK' /\ Nest'
<1> SUFFICES ASSUME TypeOK, Nest, [Next]_vars PROVE TypeOK' /\ Nest' OBVIOUS
<1> DEFINE Traps == /\ pc' \in Places /\ sp' \in 0..TOP /\ meicontext' \in 0..2
                    /\ stack' \in [1..TOP -> Frames] /\ Nest'
           Rest == /\ user_stack_frame' \in {0, TOP} /\ user_error_pend' \in {NULL, "set"}
                   /\ block' \in [number : Outcomes, message : Outcomes]
                   /\ got' \in Answers /\ due' \in Answers
<1> SUFFICES Traps /\ Rest BY DEF TypeOK
<1>0. ASSUME NEW n \in Outcomes, NEW m \in Outcomes
      PROVE  Returned(n) \in Answers /\ Raised(n, m) \in Answers
  BY DEF Returned, Raised, Answers
<1>a. sp = 0 \/ (Frame.a7 \in Outcomes /\ Frame.err \in Outcomes)
  BY DEF Frame, TypeOK, Frames
<1>b. pc = "user" <=> sp = 0 BY DEF Nest, Context, Fits
<1>1. ASSUME NEW form \in Forms, EcallEntry(form) PROVE Traps /\ Rest
  <2>1. Enters("call", meicontext, form) /\ Link(Save(form), "call", meicontext)
        /\ meicontext \in {0, 1}
    BY <1>1, EntryEnters
  <2>2. "call" \in Places /\ meicontext \in 0..2 BY DEF TypeOK, Places, Mos
  <2>3. Nest' /\ sp' \in 1..TOP /\ stack' \in [1..TOP -> Frames]
    BY <2>1, <2>2, EnterNest
  <2>4. Traps BY <2>1, <2>2, <2>3 DEF Enters
  <2>5. ~OnMosStack(sp) => Push(sp) = TOP BY DEF Push
  <2> QED BY <2>4, <2>5, <1>1 DEF EcallEntry, TypeOK
<1>2. ASSUME NEW level \in {1, 2}, IrqEntry(level) PROVE Traps /\ Rest
  <2>1. Enters("sample", level, "x") /\ Link(Save("x"), "sample", level)
    BY <1>2, EntryEnters
  <2>2. "sample" \in Places /\ level \in 0..2 /\ "x" \in Forms BY DEF Places, Forms
  <2>3. "sample" \notin Mos BY DEF Mos
  <2>4. Nest' /\ sp' \in 1..TOP /\ stack' \in [1..TOP -> Frames]
    BY <2>1, <2>2, <2>3, EnterNest
  <2> QED BY <2>1, <2>2, <2>4, <1>2 DEF Enters, IrqEntry, kernel, TypeOK
<1>3. CASE ExitError \/ ExitReturn \/ NoMoreIrqs
  <2>1. Leaves /\ sp \in 1..TOP BY <1>3, ExitLeaves
  <2>2. Traps BY <2>1, LeaveNest, TopAssumption DEF Leaves, TypeOK
  <2>3. got' \in Answers
    BY <1>3, <2>1, <1>0, <1>a DEF ExitError, ExitReturn, NoMoreIrqs, TypeOK
  <2>4. UNCHANGED kernel /\ due' = due BY <1>3 DEF ExitError, ExitReturn, NoMoreIrqs
  <2> QED BY <2>2, <2>3, <2>4 DEF kernel, TypeOK
<1>4. CASE Inside
  <2>1. Moves(pc') /\ pc' \in Mos /\ pc \in Mos /\ sp \in 1..TOP BY <1>4, InsideMoves
  <2>2. pc' \in Places /\ pc' # "user" /\ pc # "user" /\ pc' # "sample" BY <2>1 DEF Places, Mos
  <2>c. pc' = "callee" => pc = "call" /\ sp = TOP /\ meicontext = 0
    <3>1. SUFFICES ASSUME pc' = "callee" PROVE pc = "call" /\ sp = TOP /\ meicontext = 0
      OBVIOUS
    <3>2. pc = "call" /\ sp = TOP BY <3>1, <1>4, <2>1, InsideMoves, Top
    <3>3. Link(stack[TOP], pc, meicontext) /\ Context(stack[TOP].mepc, stack[TOP].level, 0)
      BY <3>2, <2>1 DEF Nest, Live, Place, Level
    <3> QED BY <3>2, <3>3, <2>1 DEF Link, Context, Fits
  <2>3. Fits(pc', meicontext, sp)
    BY <2>1, <2>2 DEF Nest, Context, Fits, Mos
  <2>4. Traps BY <2>1, <2>2, <2>3, <2>c, MoveNest DEF Moves, TypeOK
  <2>5. user_stack_frame' = user_stack_frame /\ user_error_pend' \in {NULL, "set"} /\ got' = got
    BY <1>4, InsideEffects DEF TypeOK
  <2>6. block' \in [number : Outcomes, message : Outcomes]
    BY <1>4, <1>a, <2>1, InsideEffects DEF TypeOK
  <2>7. due' \in Answers
    <3>1. ASSUME NEW err \in Outcomes, Owes(err) PROVE due' \in Answers
      BY <1>0, <3>1 DEF Owes, TypeOK
    <3>2. NULL \in Outcomes /\ Errors \subseteq Outcomes BY DEF Outcomes
    <3> QED BY <1>4, <3>1, <3>2, InsideEffects DEF TypeOK
  <2> QED BY <2>4, <2>5, <2>6, <2>7 DEF TypeOK
<1>5. CASE Around
  <2>0. /\ Moves(pc') /\ pc' \in Places /\ pc # "user" /\ pc' # "user"
        /\ pc' \notin Mos /\ pc \notin Mos
        /\ Fits(pc', meicontext, sp) /\ (pc' = "sample" => meicontext \in {1, 2})
        /\ pc' # "callee"
    BY <1>5, AroundMoves DEF Mos
  <2>a. Nest' BY <2>0, MoveNest
  <2>1. Traps BY <2>0, <2>a DEF Moves, TypeOK
  <2> QED BY <2>1, <1>5, AroundMoves DEF kernel, TypeOK
<1>6. CASE UNCHANGED vars
  <2>1. Nest' <=> Nest BY <1>6 DEF vars, Nest, Place, Level, Live
  <2> QED BY <2>1, <1>6 DEF vars, kernel, TypeOK
<1> QED BY <1>1, <1>2, <1>3, <1>4, <1>5, <1>6, NextKinds

THEOREM NestCorrect == Spec => [](TypeOK /\ Nest)
BY InitNest, NextNest, PTL DEF Spec

(* The variables of the trap kernel keep their types, and the MOS stack    *)
(* never overflows, however deep its traps nest.                           *)
THEOREM TypeCorrect == Spec => []TypeOK
BY NestCorrect, PTL

(* The frames of the MOS stack are always the live traps in their order,   *)
(* each naming the context it interrupted.                                 *)
THEOREM StackCorrect == Spec => []StackIsNest
<1>1. TypeOK /\ Nest => StackIsNest
  <2> SUFFICES ASSUME TypeOK, Nest PROVE StackIsNest OBVIOUS
  <2>1. Fits(pc, meicontext, sp) BY DEF Nest, Context
  <2>2. ASSUME sp # 0, NEW i \in sp..TOP
        PROVE  i \in 1..TOP /\ Live(i)
    BY <2>2, TopAssumption DEF TypeOK, Live
  <2> QED BY <2>1, <2>2 DEF StackIsNest, Nest, Context, Link, Place, Level
<1> QED BY <1>1, NestCorrect, PTL

-----------------------------------------------------------------------------
(* The outcome of the program's own call, if no handler's call raises.     *)
IInv == TypeOK /\ Nest /\ OwnCall /\ NoNestedRaise

LEMMA InitOwn == Init => OwnCall /\ NoNestedRaise
  BY DEF Init, OwnCall, NoNestedRaise, Live

LEMMA NextOwn ==
  ASSUME ~NestedRaise, IInv, [Next]_vars
  PROVE  OwnCall' /\ NoNestedRaise'
<1> USE DEF IInv
<1>t. TypeOK' /\ Nest' BY NextNest
<1>0. TOP \in 1..TOP /\ (sp # 0 => (FromUser <=> sp = TOP)) BY Top
<1>1. ASSUME NEW p \in {"call", "sample"}, NEW l \in 0..2, NEW form \in Forms,
             Enters(p, l, form), Link(Save(form), p, l), p \in Mos => l \in {0, 1},
             p = "sample" => l \in {1, 2}, UNCHANGED <<block, got, due>>,
             (sp = 0 /\ p = "call") => user_stack_frame' = TOP /\ user_error_pend' = NULL,
             (sp # 0 \/ p = "sample") => UNCHANGED <<user_stack_frame, user_error_pend>>
      PROVE  OwnCall' /\ NoNestedRaise'
  <2>1. p \in Places /\ p # "user" BY DEF Places, Mos
  <2>2. /\ sp' \in 1..TOP /\ stack'[sp'] = Save(form)
        /\ \A i \in 1..TOP : Live(i) => stack'[i] = stack[i] /\ i # sp'
        /\ sp' = IF sp = 0 THEN TOP ELSE sp - 1
    BY <1>1, <2>1, EnterNest
  <2>3. OwnCall'
    <3>1. CASE sp = 0
      <4>1. Place(TOP)' = p /\ stack'[TOP] = Save(form) BY <3>1, <2>2, <1>1 DEF Place, Enters
      <4> QED BY <4>1, <3>1, <1>1 DEF OwnCall, CallState, Save, Mos
    <3>2. CASE sp # 0
      <4>1. Live(TOP) BY <3>2, TopAssumption DEF Live, TypeOK
      <4>2. stack'[TOP] = stack[TOP] /\ sp' # TOP BY <4>1, <2>2, <1>0
      <4>3. Place(TOP)' = Place(TOP)
        <5>1. CASE sp = TOP
          <6>1. sp' = TOP - 1 BY <5>1, <3>2, <2>2
          <6> QED BY <5>1, <6>1, <2>2, <4>2 DEF Place, Save
        <5>2. CASE sp # TOP
          <6>1. TOP - 1 \in 1..TOP /\ Live(TOP - 1)
            BY <5>2, <3>2, TopAssumption DEF Live, TypeOK
          <6> QED BY <5>2, <6>1, <4>2, <2>2 DEF Place
        <5> QED BY <5>1, <5>2
      <4> QED BY <3>2, <4>2, <4>3, <1>1 DEF OwnCall, CallState
    <3> QED BY <3>1, <3>2
  <2>4. NoNestedRaise'
    <3>1. pc' \notin {"number", "message"} BY <1>1 DEF Enters
    <3>2. ASSUME NEW i \in 1..TOP, Live(i)', i < TOP - 1
          PROVE  stack'[i].mepc \notin {"number", "message"}
      <4>1. CASE i = sp'
        <5>1. stack'[i].mepc = pc BY <4>1, <2>2 DEF Save
        <5>2. sp # TOP BY <4>1, <3>2, <2>2, TopAssumption DEF TypeOK
        <5> QED BY <5>1, <5>2 DEF NoNestedRaise
      <4>2. CASE i # sp'
        <5>1. Live(i) BY <4>2, <3>2, <2>2, TopAssumption DEF Live, TypeOK
        <5> QED BY <5>1, <3>2, <2>2 DEF NoNestedRaise
      <4> QED BY <4>1, <4>2
    <3> QED BY <3>1, <3>2 DEF NoNestedRaise
  <2> QED BY <2>3, <2>4
<1>2. ASSUME NEW form \in Forms, EcallEntry(form) PROVE OwnCall' /\ NoNestedRaise'
  <2>1. Enters("call", meicontext, form) /\ Link(Save(form), "call", meicontext)
        /\ meicontext \in {0, 1}
    BY <1>2, EntryEnters
  <2>2. sp # 0 <=> OnMosStack(sp) BY TopAssumption DEF OnMosStack, TypeOK
  <2>3. sp = 0 => Push(sp) = TOP BY <2>2 DEF Push
  <2>4. /\ sp = 0 => user_stack_frame' = TOP /\ user_error_pend' = NULL
        /\ sp # 0 => UNCHANGED <<user_stack_frame, user_error_pend>>
        /\ UNCHANGED <<block, got, due>>
    BY <2>2, <2>3, <1>2 DEF EcallEntry
  <2> QED BY <2>1, <2>4, <1>1 DEF TypeOK
<1>3. ASSUME NEW level \in {1, 2}, IrqEntry(level) PROVE OwnCall' /\ NoNestedRaise'
  <2>1. Enters("sample", level, "x") /\ Link(Save("x"), "sample", level)
    BY <1>3, EntryEnters
  <2>2. UNCHANGED <<kernel, got, due>> BY <1>3 DEF IrqEntry
  <2>3. "sample" \notin Mos /\ "x" \in Forms /\ level \in 0..2 BY DEF Mos, Forms
  <2> QED BY <2>1, <2>2, <2>3, <1>1 DEF kernel
<1>4. CASE ExitError \/ ExitReturn \/ NoMoreIrqs
  <2>1. Leaves /\ sp \in 1..TOP BY <1>4, ExitLeaves
  <2>2. sp' = (IF sp = TOP THEN 0 ELSE sp + 1) /\ (sp' # 0 => Place(TOP)' = Place(TOP))
    BY <2>1, LeaveNest
  <2>3. UNCHANGED kernel /\ due' = due BY <1>4 DEF ExitError, ExitReturn, NoMoreIrqs
  <2>4. OwnCall' BY <2>1, <2>2, <2>3 DEF OwnCall, CallState, Leaves, kernel
  <2>5. NoNestedRaise'
    <3>1. sp' # TOP => pc' \notin {"number", "message"}
      <4>1. CASE sp = TOP
        <5>1. sp' = 0 /\ pc' = "user" BY <4>1, <2>2, <1>t DEF Nest, Context, Fits
        <5> QED BY <5>1
      <4>2. CASE sp # TOP /\ sp' # TOP
        <5>1. Live(sp) /\ sp < TOP - 1 BY <4>2, <2>1, <2>2, TopAssumption DEF Live
        <5> QED BY <5>1, <2>1 DEF NoNestedRaise, Leaves, Frame
      <4> QED BY <4>1, <4>2
    <3>2. ASSUME NEW i \in 1..TOP, Live(i)' PROVE Live(i) /\ stack'[i] = stack[i]
      BY <3>2, <2>1, <2>2, TopAssumption DEF Live, Leaves
    <3> QED BY <3>1, <3>2 DEF NoNestedRaise
  <2> QED BY <2>4, <2>5
<1>5. CASE Inside
  <2>1. /\ Moves(pc') /\ pc' \in Mos /\ pc \in Mos /\ sp \in 1..TOP
        /\ \A i \in 1..TOP : i # sp => stack'[i] = stack[i]
        /\ \A i \in 1..TOP : stack'[i].form = stack[i].form
    BY <1>5, InsideMoves
  <2>2. sp # TOP => pc' \notin {"number", "message"}
    BY <1>5, <1>0, <2>1, InsideEffects DEF NoNestedRaise
  <2>3. NoNestedRaise'
    BY <2>1, <2>2 DEF NoNestedRaise, Moves, Live
  <2>4. CASE sp = TOP
    <3>1. Place(TOP) = pc /\ Place(TOP)' = pc' /\ FromUser /\ Frame = stack[TOP] /\ sp' = TOP
      BY <2>1, <2>4, <1>0 DEF Place, Moves, Frame
    <3>2. CallState(pc, stack[TOP]) BY <3>1, <2>1 DEF OwnCall
    <3>3. ASSUME NEW err \in Outcomes, Owes(err)
          PROVE  due' = IF err = NULL \/ stack[TOP].form = "x" THEN Returned(err) ELSE Raised(err, err)
      BY <3>1, <3>3 DEF Owes
    <3>4. Errors \subseteq Outcomes /\ NULL \notin Errors /\ NULL # "set" /\ NULL \in Outcomes
      BY NullAssumption DEF Outcomes
    <3>5. CallState(pc, stack[TOP])'
      <4>1. user_stack_frame' = TOP BY <3>2, <1>5, InsideEffects DEF CallState
      <4>2. CASE pc = "call" /\ pc' = "exit"
        <5>1. user_error_pend = NULL /\ stack[TOP].a7 = NULL BY <4>2, <3>2 DEF CallState
        <5>2. user_error_pend' = NULL /\ due' = Returned(stack'[TOP].a7)
          BY <4>2, <5>1, <3>1, <3>3, <3>4, <2>4, <1>5, InsideEffects
        <5> QED BY <4>1, <4>2, <5>2 DEF CallState
      <4>3. CASE pc = "call" /\ pc' = "number"
        <5>1. user_error_pend' = "set" /\ due' = Raised(stack'[TOP].err, stack'[TOP].err)
          BY <4>3, <3>1, <3>3, <3>4, <2>4, <1>5, InsideEffects
        <5> QED BY <4>1, <4>3, <5>1 DEF CallState
      <4>4. CASE pc = "number" /\ pc' = "message"
        <5>1. /\ block' = [block EXCEPT !.number = stack[TOP].err] /\ stack' = stack
              /\ due' = due /\ user_error_pend' = user_error_pend
          BY <4>4, <3>1, <1>5, InsideEffects
        <5>2. block'.number = stack[TOP].err BY <5>1 DEF TypeOK
        <5> QED BY <4>1, <4>4, <5>1, <5>2, <3>2 DEF CallState
      <4>5. CASE pc = "message" /\ pc' = "exit"
        <5>1. /\ block' = [block EXCEPT !.message = stack[TOP].err] /\ stack' = stack
              /\ due' = due /\ user_error_pend' = user_error_pend
          BY <4>5, <3>1, <1>5, InsideEffects
        <5>2. block'.number = block.number /\ block'.message = stack[TOP].err BY <5>1 DEF TypeOK
        <5> QED BY <4>1, <4>5, <5>1, <5>2, <3>2, <3>4 DEF CallState
      <4>6. CASE /\ pc \in {"call", "callee"} /\ pc' \in {"call", "callee"} /\ stack' = stack
                 /\ UNCHANGED <<user_error_pend, block, due>>
        BY <4>1, <4>6, <3>2 DEF CallState
      <4> QED BY <4>2, <4>3, <4>4, <4>5, <4>6, <1>5, InsideEffects
    <3> QED BY <2>3, <3>1, <3>5 DEF OwnCall
  <2>5. CASE sp # TOP
    <3>1. stack'[TOP] = stack[TOP] /\ sp' = sp BY <2>1, <2>5, <1>0 DEF Moves
    <3>2. Place(TOP)' = Place(TOP)
      <4>1. TOP - 1 \in 1..TOP BY TopAssumption
      <4> QED BY <4>1, <3>1, <2>5, <2>1 DEF Place, Moves
    <3>3. UNCHANGED <<user_stack_frame, user_error_pend, block, due>>
      <4>1. ~FromUser /\ pc \notin {"number", "message"} BY <1>0, <2>1, <2>5 DEF NoNestedRaise
      <4>2. ASSUME NEW err \in Outcomes, Owes(err) PROVE due' = due BY <4>1, <4>2 DEF Owes
      <4>3. NULL \in Outcomes BY DEF Outcomes
      <4> QED BY <4>1, <4>2, <4>3, <1>5, InsideEffects
    <3> QED BY <2>3, <3>1, <3>2, <3>3, <2>1 DEF OwnCall, CallState
  <2> QED BY <2>4, <2>5
<1>6. CASE Around
  <2>1. /\ Moves(pc') /\ pc' \notin Mos /\ pc \notin Mos
        /\ stack' = stack /\ UNCHANGED <<kernel, got, due>>
    BY <1>6, AroundMoves
  <2>2. OwnCall' BY <2>1 DEF OwnCall, CallState, Place, Moves, kernel
  <2>3. NoNestedRaise' BY <2>1 DEF NoNestedRaise, Live, Moves, Mos
  <2> QED BY <2>2, <2>3
<1>7. CASE UNCHANGED vars
  BY <1>7 DEF vars, kernel, OwnCall, CallState, Place, NoNestedRaise, Live
<1> QED BY <1>2, <1>3, <1>4, <1>5, <1>6, <1>7, NextKinds

LEMMA OwnCorrect == ASSUME ~NestedRaise PROVE Spec => []IInv
<1>1. Init => IInv BY InitNest, InitOwn DEF IInv
<1>2. ASSUME IInv, [Next]_vars PROVE IInv' BY <1>2, NextNest, NextOwn DEF IInv
<1> QED BY <1>1, <1>2, PTL DEF Spec

(* If no plain ecall of an interrupt's handler fails, each ecall of the    *)
(* program comes back with its own outcome, by the way its form asks for.  *)
THEOREM OwnAnswer == ASSUME ~NestedRaise PROVE Spec => AnswerIsOwn
<1>1. ASSUME IInv, [Next]_vars, pc = "exit", sp' = 0
      PROVE  pc' = "user" /\ got' = due
  <2> USE <1>1 DEF IInv
  <2>0. TypeOK' /\ Nest' BY NextNest
  <2>1. pc' = "user" BY <2>0 DEF Nest, Context, Fits
  <2>2. sp \in 1..TOP BY <1>1 DEF Nest, Context, Fits, TypeOK
  <2>3. pc \in Mos BY <1>1 DEF Mos
  <2>4. ~(\E form \in Forms : EcallEntry(form)) /\ ~(\E l \in {1, 2} : IrqEntry(l))
    BY <1>1, <2>1 DEF EcallEntry, IrqEntry
  <2>5. ~Inside /\ ~Around /\ ~UNCHANGED vars /\ ~NoMoreIrqs
    BY <1>1, <2>2, <2>3, InsideMoves, AroundMoves DEF Moves, vars, NoMoreIrqs
  <2>6. ExitError \/ ExitReturn BY <1>1, <2>4, <2>5, NextKinds
  <2>7. sp = TOP
    <3>1. Leaves BY <2>6, ExitLeaves
    <3> QED BY <3>1, <2>2, <1>1, LeaveNest
  <2>8. CallState("exit", Frame) BY <2>3, <2>7, <2>2, <1>1 DEF OwnCall, Place, Frame
  <2>9. Errs <=> user_error_pend # NULL BY <2>8, <2>7 DEF Errs, CallState
  <2>10. FromUser BY <2>2, <2>7, Top
  <2> QED BY <2>1, <2>6, <2>8, <2>9, <2>10 DEF ExitError, ExitReturn, CallState
<1>2. IInv /\ [Next]_vars => [(pc = "exit" /\ sp' = 0) => (pc' = "user" /\ got' = due)]_vars
  BY <1>1
<1> QED BY <1>2, OwnCorrect, PTL DEF Spec, AnswerIsOwn

(* Under the same condition an ecall made inside an interrupt returns to   *)
(* its caller and leaves the program's slot, frame and answer alone.       *)
THEOREM NestedAnswer == ASSUME ~NestedRaise PROVE Spec => NestedCallReturns
<1>1. ASSUME IInv, [Next]_vars, sp # 0, ~FromUser
      PROVE  pc' # "user" /\ UNCHANGED <<got, user_stack_frame, user_error_pend>>
  <2> USE <1>1 DEF IInv
  <2>0. sp \in 1..TOP - 1 /\ OnMosStack(sp) /\ pc # "user"
    BY <1>1, Top, TopAssumption DEF TypeOK, OnMosStack, Nest, Context, Fits
  <2>1. ASSUME NEW form \in Forms, EcallEntry(form)
        PROVE  pc' # "user" /\ UNCHANGED <<got, user_stack_frame, user_error_pend>>
    BY <2>0, <2>1 DEF EcallEntry
  <2>2. ASSUME NEW l \in {1, 2}, IrqEntry(l)
        PROVE  pc' # "user" /\ UNCHANGED <<got, user_stack_frame, user_error_pend>>
    BY <2>2 DEF IrqEntry, kernel
  <2>7. Nest' BY NextNest
  <2>3. CASE ExitError \/ ExitReturn \/ NoMoreIrqs
    <3>1. Leaves /\ sp' # 0 BY <2>0, <2>3, ExitLeaves, LeaveNest
    <3>2. pc' # "user" BY <3>1, <2>7 DEF Nest, Context, Fits
    <3>3. ~ExitError BY <3>2 DEF ExitError
    <3> QED BY <3>2, <3>3, <2>3, <1>1 DEF ExitReturn, NoMoreIrqs, kernel
  <2>4. CASE Inside
    <3>1. pc' # "user" BY <2>4, InsideMoves DEF Mos
    <3>2. pc \notin {"number", "message"} BY <2>0 DEF NoNestedRaise
    <3> QED BY <3>1, <3>2, <2>4, <1>1, InsideEffects
  <2>5. CASE Around
    BY <2>5, AroundMoves DEF kernel
  <2>6. CASE UNCHANGED vars
    BY <2>0, <2>6 DEF vars, kernel
  <2> QED BY <2>1, <2>2, <2>3, <2>4, <2>5, <2>6, NextKinds
<1>2. IInv /\ [Next]_vars =>
        [(sp # 0 /\ ~FromUser) =>
           (pc' # "user" /\ UNCHANGED <<got, user_stack_frame, user_error_pend>>)]_vars
  BY <1>1
<1> QED BY <1>2, OwnCorrect, PTL DEF Spec, NestedCallReturns
-----------------------------------------------------------------------------
(* The escape condition, for a flag of any width, a buffer of any size,    *)
(* with the effects on or off, and any number of escapes.                  *)

(* Every character that waits was typed after the last acknowledged escape *)
(* and, unless OSBYTE 126 has yet to flush, after the one it has seen.     *)
Fresh ==
  \A i \in 1..Len(buffer) :
    buffer[i] >= acked /\ (~At("flush") => buffer[i] >= tested)

(* RDCHV has returned nothing while an operation is in progress.           *)
Unreturned == ~At("idle") => ret = Nothing

(* What the handler is about to be told, if no escape has come in between. *)
Loaded ==
  At("tell_call") =>
    op.flag \in 0..FLAG_N-1 /\ (~disturbed => op.flag = Cleared(ESCAPE_FLAG))

(* The types, apart from the two flags of the history.                     *)
Types ==
  /\ ESCAPE_FLAG \in 0..2*FLAG_N-1
  /\ buffer \in Seq(0..MaxPresses) /\ Len(buffer) <= Room
  /\ op \in [pc : Pcs, flag : 0..2*FLAG_N-1]
  /\ ret \in {Nothing, -1} \cup 0..MaxPresses
  /\ told \in 0..FLAG_N-1
  /\ presses \in 0..MaxPresses /\ tested \in 0..presses /\ acked \in 0..presses
Truths == unheard \in BOOLEAN /\ disturbed \in BOOLEAN

Ordered == Types /\ HandlerInStep /\ TypeAheadGone /\ Fresh /\ Unreturned /\ Loaded

EscapeInv == Ordered /\ Truths

(* The shifts stay within the flag.                                        *)
LEMMA Shifts ==
  ASSUME NEW f \in 0..2*FLAG_N-1
  PROVE  Cleared(f) \in 0..FLAG_N-1 /\ Set(f) \in 0..2*FLAG_N-1
         /\ Cleared(Set(f)) \in 0..FLAG_N-1 /\ 0..FLAG_N-1 \subseteq 0..2*FLAG_N-1
  BY FlagAssumption DEF Cleared, Set

LEMMA EscapeInitInv == EscapeInit => EscapeInv
<1> SUFFICES ASSUME EscapeInit PROVE EscapeInv
  OBVIOUS
<1>1. buffer \in Seq(0..MaxPresses) /\ Len(buffer) = 0
  BY DEF EscapeInit
<1>2. Types
  BY <1>1, FlagAssumption, RoomAssumption, PressesAssumption DEF EscapeInit, Types, Idle, Pcs
<1>3. HandlerInStep
  BY DEF EscapeInit, HandlerInStep, Cleared
<1>4. Ordered
  BY <1>1, <1>2, <1>3 DEF EscapeInit, Ordered, TypeAheadGone, Fresh, Unreturned, Loaded, At, Idle, Nothing
<1>5. Truths
  BY DEF EscapeInit, Truths
<1> QED BY <1>4, <1>5 DEF EscapeInv

(* What most steps leave alone decides most of the invariant.              *)
LEMMA BufferKept ==
  ASSUME Fresh, UNCHANGED <<buffer, acked, tested>>, At("flush") => At("flush")' PROVE Fresh'
  BY DEF Fresh

LEMMA TruthsKept == Truths /\ [EscapeNext]_escape_vars => Truths'
  BY DEF Truths, EscapeNext, Program, escape_vars, history, TypeChar, PressEscape, ReadBegin, ClearBegin,
         SetBegin, AckBegin, ReadEscape, ReadGoOn, ReadChar, ReadAgain, Flush, Load, Store,
         TellLoad, TellCall

LEMMA EscapeNextInv == EscapeInv /\ [EscapeNext]_escape_vars => EscapeInv'
<1> SUFFICES ASSUME EscapeInv, [EscapeNext]_escape_vars PROVE EscapeInv'
  OBVIOUS
<1> SUFFICES Ordered'
  BY TruthsKept DEF EscapeInv
<1>a. Types /\ HandlerInStep /\ TypeAheadGone /\ Fresh /\ Unreturned /\ Loaded
  BY DEF EscapeInv, Ordered
<1>b. /\ ESCAPE_FLAG \in 0..2*FLAG_N-1 /\ buffer \in Seq(0..MaxPresses) /\ Len(buffer) <= Room
      /\ op \in [pc : Pcs, flag : 0..2*FLAG_N-1]
      /\ told \in 0..FLAG_N-1 /\ ret \in {Nothing, -1} \cup 0..MaxPresses
      /\ presses \in 0..MaxPresses /\ tested \in 0..presses /\ acked \in 0..presses
      /\ presses \in Int /\ MaxPresses \in Nat
  BY <1>a, PressesAssumption DEF Types
<1>1. CASE TypeChar
  <2>1. /\ buffer' \in Seq(0..MaxPresses) /\ Len(buffer') = Len(buffer) + 1
        /\ buffer'[Len(buffer) + 1] = presses
        /\ \A i \in 1..Len(buffer) : buffer'[i] = buffer[i]
    BY <1>1, <1>b DEF TypeChar
  <2>2. Fresh'
    BY <2>1, <1>1, <1>a, <1>b DEF TypeChar, Fresh, At, history
  <2>3. Types'
    BY <2>1, <1>1, <1>a, <1>b, RoomAssumption DEF TypeChar, Types, history
  <2> QED BY <2>2, <2>3, <1>1, <1>a
          DEF TypeChar, Ordered, HandlerInStep, TypeAheadGone, Unreturned, Loaded, At, history
<1>2. CASE PressEscape
  <2>1. Types'
    BY <1>2, <1>a, <1>b, Shifts DEF PressEscape, Types
  <2>2. Fresh'
    BY <1>2, <1>a, BufferKept DEF PressEscape, At
  <2>3. HandlerInStep' /\ Loaded'
    <3>1. op' = op /\ told' = Cleared(ESCAPE_FLAG)' /\ (op.pc \notin Calm => disturbed')
      BY <1>2 DEF PressEscape, Cleared
    <3>2. HandlerInStep'
      BY <3>1 DEF HandlerInStep
    <3>3. At("tell_call")' => At("tell_call") /\ disturbed'
      BY <3>1 DEF At, Calm
    <3> QED BY <3>1, <3>2, <3>3, <1>a DEF Loaded
  <2> QED BY <2>1, <2>2, <2>3, <1>2, <1>a DEF PressEscape, Ordered, TypeAheadGone, Unreturned, At
<1>3. ASSUME NEW p \in Pcs, Start(p), UNCHANGED <<ESCAPE_FLAG, buffer, told, presses, acked, unheard>>,
             \/ p = "rd_flag" /\ UNCHANGED <<tested, disturbed>>
             \/ p \in {"clear", "set"} /\ tested' = 0 /\ disturbed' = FALSE
             \/ p = "flush" /\ tested' = presses /\ disturbed' = FALSE
      PROVE Ordered'
  <2>1. op' = [pc |-> p, flag |-> op.flag] /\ ret' = Nothing /\ op.pc = "idle"
    BY <1>3, <1>b DEF Start, Goto, At
  <2>2. Types'
    BY <2>1, <1>3, <1>a, <1>b DEF Types
  <2>3. Fresh'
    BY <2>1, <1>3, <1>a, <1>b DEF Fresh, At
  <2>4. HandlerInStep' /\ Loaded'
    BY <2>1, <1>3, <1>a DEF HandlerInStep, Loaded, At, Calm
  <2> QED BY <2>1, <2>2, <2>3, <2>4 DEF Ordered, TypeAheadGone, Unreturned, Nothing
<1>4. CASE ReadBegin
  BY <1>4, <1>3 DEF ReadBegin, history, Pcs
<1>5. CASE ClearBegin
  BY <1>5, <1>3 DEF ClearBegin, Pcs
<1>6. CASE SetBegin
  BY <1>6, <1>3 DEF SetBegin, Pcs
<1>7. CASE AckBegin
  <2>1. CASE Pending(ESCAPE_FLAG) /\ OSB_ESC_EFFECTS = 0
    BY <2>1, <1>7, <1>3 DEF AckBegin, Pcs
  <2>2. CASE ~(Pending(ESCAPE_FLAG) /\ OSB_ESC_EFFECTS = 0)
    BY <2>2, <1>7, <1>3 DEF AckBegin, Pcs
  <2> QED BY <2>1, <2>2
<1>8. CASE ReadEscape \/ ReadGoOn \/ ReadAgain
  <2>1. /\ UNCHANGED <<ESCAPE_FLAG, buffer, told, history>>
        /\ op.pc \in {"rd_flag", "rd_remv"} /\ op'.pc \in {"idle", "rd_flag", "rd_remv"}
        /\ op' \in [pc : Pcs, flag : 0..2*FLAG_N-1]
        /\ ret' \in {ret, -1} /\ (op'.pc # "idle" => ret' = ret)
    BY <1>8, <1>b, FlagAssumption DEF ReadEscape, ReadGoOn, ReadAgain, At, Goto, Idle, Pcs
  <2>2. Types'
    BY <2>1, <1>a DEF Types, history
  <2>3. Fresh'
    BY <2>1, <1>a, BufferKept DEF At, history
  <2>4. HandlerInStep' /\ Loaded' /\ TypeAheadGone' /\ Unreturned'
    BY <2>1, <1>a DEF HandlerInStep, Loaded, TypeAheadGone, Unreturned, At, Calm, history, Nothing
  <2> QED BY <2>2, <2>3, <2>4 DEF Ordered
<1>9. CASE ReadChar
  <2>1. /\ buffer' \in Seq(0..MaxPresses) /\ Len(buffer') = Len(buffer) - 1 /\ Len(buffer) >= 1
        /\ ret' = buffer[1] /\ ret' \in 0..MaxPresses
        /\ \A i \in 1..Len(buffer') : buffer'[i] = buffer[i + 1]
    BY <1>9, <1>b DEF ReadChar
  <2>2. /\ UNCHANGED <<ESCAPE_FLAG, told, history>>
        /\ op' = [pc |-> "idle", flag |-> 0] /\ op.pc = "rd_remv"
    BY <1>9 DEF ReadChar, Idle, At
  <2>3. Types'
    BY <2>1, <2>2, <1>a, <1>b, FlagAssumption, RoomAssumption DEF Types, Pcs, history
  <2>4. /\ acked' = acked /\ tested' = tested /\ Len(buffer) \in Nat
        /\ \A i \in 1..Len(buffer) : buffer[i] >= acked /\ buffer[i] >= tested
    BY <2>2, <1>a, <1>b DEF Fresh, At, history
  <2>5. Fresh'
    BY <2>1, <2>4 DEF Fresh
  <2>6. TypeAheadGone'
    BY <2>1, <2>4 DEF TypeAheadGone
  <2> QED BY <2>2, <2>3, <2>5, <2>6, <1>a DEF Ordered, HandlerInStep, Loaded, Unreturned, At, Calm, history
<1>10. CASE Flush
  <2>1. op' = [pc |-> "clear", flag |-> op.flag] /\ op.pc = "flush" /\ buffer' = <<>>
        /\ UNCHANGED <<ESCAPE_FLAG, ret, told, history>>
    BY <1>10, <1>b DEF Flush, Goto, At
  <2>2. buffer' \in Seq(0..MaxPresses) /\ Len(buffer') = 0
    BY <2>1
  <2>3. Types'
    BY <2>1, <2>2, <1>a, <1>b, RoomAssumption DEF Types, Pcs, history
  <2> QED BY <2>1, <2>2, <2>3, <1>a
          DEF Ordered, HandlerInStep, Loaded, Unreturned, TypeAheadGone, Fresh, At, Calm, history
<1>11. CASE Load
  <2>1. /\ op'.pc \in {"set_store", "clear_store"} /\ op.pc \in {"set", "clear"}
        /\ op' \in [pc : Pcs, flag : 0..2*FLAG_N-1]
        /\ UNCHANGED <<ESCAPE_FLAG, buffer, ret, told, presses, tested, acked, disturbed>>
    BY <1>11, <1>b DEF Load, Pcs
  <2>3. Types'
    BY <2>1, <1>a DEF Types
  <2>4. Fresh'
    BY <2>1, <1>a, BufferKept DEF At
  <2> QED BY <2>1, <2>3, <2>4, <1>a
          DEF Ordered, HandlerInStep, Loaded, Unreturned, TypeAheadGone, At, Calm
<1>12. CASE Store
  <2>1. op.pc \in {"clear_store", "set_store"} /\ op' = [pc |-> "tell", flag |-> op.flag]
        /\ UNCHANGED <<buffer, ret, told, history>>
    BY <1>12, <1>b DEF Store, Goto
  <2>2. ESCAPE_FLAG' \in 0..2*FLAG_N-1
    BY <1>12, <1>b, Shifts DEF Store
  <2>3. Types'
    BY <2>1, <2>2, <1>a, <1>b DEF Types, Pcs, history
  <2>4. Fresh'
    BY <2>1, <1>a, BufferKept DEF At, history
  <2> QED BY <2>1, <2>3, <2>4, <1>a
          DEF Ordered, HandlerInStep, Loaded, Unreturned, TypeAheadGone, At, Calm, history
<1>13. CASE TellLoad
  <2>1. op.pc = "tell" /\ op' = [pc |-> "tell_call", flag |-> Cleared(ESCAPE_FLAG)]
        /\ UNCHANGED <<ESCAPE_FLAG, buffer, ret, told, history>>
    BY <1>13 DEF TellLoad, At
  <2>2. Cleared(ESCAPE_FLAG) \in 0..2*FLAG_N-1
    BY <1>b, Shifts
  <2>3. Types'
    BY <2>1, <2>2, <1>a DEF Types, Pcs, history
  <2>4. Fresh'
    BY <2>1, <1>a, BufferKept DEF At, history
  <2>5. HandlerInStep' /\ Loaded'
    BY <2>1, <1>b, Shifts DEF HandlerInStep, Loaded, At, Calm, Cleared
  <2> QED BY <2>1, <2>3, <2>4, <2>5, <1>a DEF Ordered, Unreturned, TypeAheadGone, At, history
<1>14. CASE TellCall
  <2>1. /\ op.pc = "tell_call" /\ op' = [pc |-> "idle", flag |-> 0] /\ told' = op.flag
        /\ acked' \in {acked, tested}
        /\ UNCHANGED <<ESCAPE_FLAG, buffer, ret, presses, tested, unheard, disturbed>>
    BY <1>14 DEF TellCall, At, Idle
  <2>2. Fresh'
    BY <2>1, <1>a, <1>b DEF Fresh, At
  <2>3. HandlerInStep' /\ Loaded' /\ TypeAheadGone' /\ Unreturned'
    BY <2>1, <1>a DEF HandlerInStep, Loaded, TypeAheadGone, Unreturned, At, Nothing, Calm, Cleared
  <2>4. Types'
    BY <2>1, <1>a, <1>b, FlagAssumption DEF Types, Pcs, Loaded, At
  <2> QED BY <2>2, <2>3, <2>4 DEF Ordered
<1>15. CASE UNCHANGED escape_vars
  BY <1>15, <1>a DEF escape_vars, history, Ordered, Types, HandlerInStep, TypeAheadGone, Fresh,
                     Unreturned, Loaded, At
<1> QED BY <1>1, <1>2, <1>4, <1>5, <1>6, <1>7, <1>8, <1>9, <1>10, <1>11, <1>12, <1>13, <1>14, <1>15
        DEF EscapeNext, Program

(* The flag stays within its bits, and a handler that no escape has        *)
(* overtaken knows it, wherever the keyboard interrupt falls.              *)
THEOREM HandlerCorrect == EscapeSpec => []HandlerInv
<1>1. EscapeInv => HandlerInv
  <2>1. ASSUME EscapeInv PROVE EscapeTypeOK
    <3>1. Types /\ {unheard, disturbed} \subseteq BOOLEAN
      BY <2>1 DEF EscapeInv, Ordered, Truths
    <3> QED BY <3>1 DEF Types, EscapeTypeOK
  <2> QED BY <2>1 DEF EscapeInv, Ordered, HandlerInv
<1> QED BY <1>1, EscapeInitInv, EscapeNextInv, PTL DEF EscapeSpec

(* What was typed ahead of an acknowledged escape is never read.           *)
THEOREM TypeAheadCorrect == EscapeSpec => []TypeAheadGone
<1>1. EscapeInv => TypeAheadGone
  BY DEF EscapeInv, Ordered
<1> QED BY <1>1, EscapeInitInv, EscapeNextInv, PTL DEF EscapeSpec
=============================================================================
