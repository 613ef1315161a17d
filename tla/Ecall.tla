------------------------------- MODULE Ecall -------------------------------
(***************************************************************************)
(* The trap kernel of interrupts_hazard3.S and mos_enter_ecall: ecalls of  *)
(* the user program, interrupts that enter between any two steps of them,  *)
(* ecalls that an escape handler makes from inside the interrupt or from   *)
(* inside an ecall, and the NMI above all of these.  All share one MOS     *)
(* stack, one slot for a pending error and one error block.                *)
(*                                                                         *)
(* A trap enters with interrupts off and turns them on when its frame is   *)
(* complete, so an entry is one step, and so is an exit.  What a call does *)
(* to the rest of the MOS is left out; its outcome is any error or none.   *)
(***************************************************************************)
EXTENDS Integers

CONSTANTS
  TOP,         \* frames the MOS stack holds
  Errors,      \* error blocks that a call may end with
  NULL,        \* no error
  NestedRaise  \* whether a handler's plain ecall may end with an error

ASSUME TopAssumption == TOP \in Nat /\ TOP >= 5
ASSUME NullAssumption == NULL \notin Errors \cup {"set"}
ASSUME NestedAssumption == NestedRaise \in BOOLEAN

VARIABLES
  pc,                \* where the processor is
  sp,                \* frame the stack pointer is at; 0 is the user's stack
  stack,             \* [frame -> what the trap saved, and the call's locals]
  meicontext,        \* preemption level: 0 none, 1 IRQ, 2 NMI
  user_stack_frame,  \* the frame of the program's last ecall
  user_error_pend,   \* NULL, or "set": it points to the block
  block,             \* the block of the error handler: number and message
  got,               \* what the program's last ecall came back with
  due                \* history: what the outcome of that ecall owes it

kernel == <<user_stack_frame, user_error_pend, block>>
vars == <<pc, sp, stack, meicontext, kernel, got, due>>

Outcomes == Errors \cup {NULL}
Returned(a7) == [way |-> "return", a7 |-> a7]
Raised(n, m) == [way |-> "error_handler", number |-> n, message |-> m]

Blank == [sp |-> 0, mepc |-> "user", level |-> 0, form |-> "x", a7 |-> NULL, err |-> NULL]

Init == /\ pc = "user" /\ sp = 0 /\ meicontext = 0
        /\ stack = [i \in 1..TOP |-> Blank]
        /\ user_stack_frame = 0 /\ user_error_pend = NULL
        /\ block = [number |-> NULL, message |-> NULL]
        /\ got = Returned(NULL) /\ due = Returned(NULL)

-----------------------------------------------------------------------------
(* Mutant: the lower end of the MOS stack is not looked at.                *)
Bug_OnMosStack(s) == s <= TOP

OnMosStack(s) == s \in 1..TOP

(* The frame of a trap: below the caller's, or the first of the MOS stack. *)
Push(s) == IF OnMosStack(s) THEN s - 1 ELSE TOP

(* The frame that a trap leaves at s; the rest of it is for the call.      *)
Save(form) ==
  [sp |-> sp, mepc |-> pc, level |-> meicontext, form |-> form, a7 |-> NULL, err |-> NULL]

Frame == stack[sp]
FromUser == ~OnMosStack(Frame.sp)

-----------------------------------------------------------------------------
(* handle_ex_11_ecall.  An ecall from another stack is the program's: it   *)
(* marks its frame and forgets an error that is pending.                   *)
(* Mutant: a handler's ecall counts as the program's.                      *)
Bug_EcallEntry(form) ==
  /\ pc \in {"user", "handler", "callee"}
  /\ sp' = Push(sp)
  /\ stack' = [stack EXCEPT ![Push(sp)] = Save(form)]
  /\ pc' = "call"
  /\ user_stack_frame' = Push(sp) /\ user_error_pend' = NULL
  /\ UNCHANGED <<meicontext, block, got, due>>

EcallEntry(form) ==
  /\ pc \in {"user", "handler", "callee"}
  /\ sp' = Push(sp)
  /\ stack' = [stack EXCEPT ![Push(sp)] = Save(form)]
  /\ pc' = "call"
  /\ IF OnMosStack(sp)
       THEN UNCHANGED <<user_stack_frame, user_error_pend>>
       ELSE user_stack_frame' = Push(sp) /\ user_error_pend' = NULL
  /\ UNCHANGED <<meicontext, block, got, due>>

(* mos_ecall_int.  Only the outcome matters here.                          *)
Owes(err) ==
  due' = IF ~FromUser THEN due
         ELSE IF err = NULL \/ Frame.form = "x" THEN Returned(err)
         ELSE Raised(err, err)

(* OSBYTEs 124 to 126 call the escape handler from inside the ecall.       *)
(* Bound: a handler's own calls are not of these, or it recurses for ever. *)
CallCallee ==
  /\ pc = "call" /\ FromUser /\ pc' = "callee"
  /\ UNCHANGED <<sp, stack, meicontext, kernel, got, due>>

CalleeReturns ==
  /\ pc = "callee" /\ pc' = "call"
  /\ UNCHANGED <<sp, stack, meicontext, kernel, got, due>>

(* The XOS form answers in a7.                                             *)
ServeX(err) ==
  /\ pc = "call" /\ Frame.form = "x"
  /\ stack' = [stack EXCEPT ![sp].a7 = err, ![sp].err = err]
  /\ pc' = "exit"
  /\ Owes(err)
  /\ UNCHANGED <<sp, meicontext, kernel, got>>

ServePlain ==
  /\ pc = "call" /\ Frame.form = "plain"
  /\ pc' = "exit"
  /\ Owes(NULL)
  /\ UNCHANGED <<sp, stack, meicontext, kernel, got>>

(* A plain call that fails fills the error block in two steps.             *)
RaisePending(err) ==
  /\ pc = "call" /\ Frame.form = "plain"
  /\ FromUser \/ NestedRaise
  /\ stack' = [stack EXCEPT ![sp].err = err]
  /\ user_error_pend' = "set"
  /\ pc' = "number"
  /\ Owes(err)
  /\ UNCHANGED <<sp, meicontext, user_stack_frame, block, got>>

RaiseNumber ==
  /\ pc = "number"
  /\ block' = [block EXCEPT !.number = Frame.err]
  /\ pc' = "message"
  /\ UNCHANGED <<sp, stack, meicontext, user_stack_frame, user_error_pend, got, due>>

RaiseMessage ==
  /\ pc = "message"
  /\ block' = [block EXCEPT !.message = Frame.err]
  /\ pc' = "exit"
  /\ UNCHANGED <<sp, stack, meicontext, user_stack_frame, user_error_pend, got, due>>

(* handle_ex_11_ecall_exit: back to the program's error handler if its own *)
(* frame is left with an error pending, and else behind the ecall.         *)
Errs == sp = user_stack_frame /\ user_error_pend # NULL

(* Mutant: the pending error goes to whoever leaves first.                 *)
Bug_ExitError ==
  /\ pc = "exit" /\ user_error_pend # NULL
  /\ sp' = Frame.sp /\ pc' = "user"
  /\ got' = Raised(block.number, block.message)
  /\ UNCHANGED <<stack, meicontext, kernel, due>>

ExitError ==
  /\ pc = "exit" /\ Errs
  /\ sp' = Frame.sp /\ pc' = "user"
  /\ got' = Raised(block.number, block.message)
  /\ UNCHANGED <<stack, meicontext, kernel, due>>

(* One step, although the code runs with interrupts on: an interrupt in    *)
(* it leaves sp, the frame and the registers as they were, and while       *)
(* NestedRaise is FALSE none sets user_error_pend between the look at it   *)
(* and the jump.                                                           *)
ExitReturn ==
  /\ pc = "exit" /\ ~Errs
  /\ sp' = Frame.sp /\ pc' = Frame.mepc
  /\ got' = IF FromUser THEN Returned(Frame.a7) ELSE got
  /\ UNCHANGED <<stack, meicontext, kernel, due>>

-----------------------------------------------------------------------------
(* trap_external_s: level 1 is the IRQ, level 2 the NMI.  While the next   *)
(* interrupt is sampled they are off; a handler runs with them on.         *)

IrqEntry(level) ==
  /\ pc # "sample" /\ meicontext < level
  /\ sp' = Push(sp)
  /\ stack' = [stack EXCEPT ![Push(sp)] = Save("x")]
  /\ pc' = "sample" /\ meicontext' = level
  /\ UNCHANGED <<kernel, got, due>>

Dispatch ==
  /\ pc = "sample"
  /\ pc' = IF meicontext = 1 THEN "irq" ELSE "nmi"
  /\ UNCHANGED <<sp, stack, meicontext, kernel, got, due>>

(* The keyboard interrupt calls the escape handler, which returns.         *)
CallHandler ==
  /\ pc = "irq" /\ pc' = "handler"
  /\ UNCHANGED <<sp, stack, meicontext, kernel, got, due>>

HandlerReturns ==
  /\ pc = "handler" /\ pc' = "irq"
  /\ UNCHANGED <<sp, stack, meicontext, kernel, got, due>>

DispatchReturns ==
  /\ pc \in {"irq", "nmi"} /\ pc' = "sample"
  /\ UNCHANGED <<sp, stack, meicontext, kernel, got, due>>

(* Mutant: the preemption level is not restored.                           *)
Bug_NoMoreIrqs ==
  /\ pc = "sample"
  /\ pc' = Frame.mepc /\ sp' = Frame.sp
  /\ UNCHANGED <<stack, meicontext, kernel, got, due>>

NoMoreIrqs ==
  /\ pc = "sample"
  /\ pc' = Frame.mepc /\ meicontext' = Frame.level /\ sp' = Frame.sp
  /\ UNCHANGED <<stack, kernel, got, due>>

Forms == {"x", "plain"}

Call ==
  \/ \E form \in Forms : EcallEntry(form)
  \/ CallCallee \/ CalleeReturns
  \/ \E err \in Outcomes : ServeX(err)
  \/ ServePlain
  \/ \E err \in Errors : RaisePending(err)
  \/ RaiseNumber \/ RaiseMessage \/ ExitError \/ ExitReturn

Interrupt ==
  \/ \E level \in {1, 2} : IrqEntry(level)
  \/ Dispatch \/ CallHandler \/ HandlerReturns \/ DispatchReturns \/ NoMoreIrqs

Next == Call \/ Interrupt

Spec == Init /\ [][Next]_vars

-----------------------------------------------------------------------------
(* Properties.                                                             *)

Mos == {"call", "callee", "number", "message", "exit"}
Places == Mos \cup {"user", "sample", "irq", "handler", "nmi"}
Frames == [sp : 0..TOP, mepc : Places, level : 0..2, form : Forms,
           a7 : Outcomes, err : Outcomes]
Answers == [way : {"return"}, a7 : Outcomes] \cup
           [way : {"error_handler"}, number : Outcomes, message : Outcomes]

(* Every variable of the trap kernel holds a value of its type; the MOS    *)
(* stack is deep enough for the deepest nest of traps.                     *)
TypeOK ==
  /\ pc \in Places /\ sp \in 0..TOP /\ meicontext \in 0..2
  /\ stack \in [1..TOP -> Frames]
  /\ user_stack_frame \in {0, TOP} /\ user_error_pend \in {NULL, "set"}
  /\ block \in [number : Outcomes, message : Outcomes]
  /\ got \in Answers /\ due \in Answers

(* What runs at place p, at preemption level l, with the stack pointer s.  *)
Fits(p, l, s) ==
  /\ p = "user" <=> s = 0
  /\ p = "user" => l = 0
  /\ p \in {"irq", "handler"} => l = 1
  /\ p = "nmi" => l = 2

(* The frames from sp to the top of the MOS stack are the live traps, each *)
(* naming the one it interrupted: the program is below them all and owns   *)
(* no frame while it runs, an ecall was made by the program or a handler,  *)
(* and an interrupt by something of a lower level, which is restored.      *)
StackIsNest ==
  /\ Fits(pc, meicontext, sp)
  /\ sp # 0 => \A i \in sp..TOP :
       /\ stack[i].sp = IF i = TOP THEN 0 ELSE i + 1
       /\ Fits(stack[i].mepc, stack[i].level, stack[i].sp)
       /\ stack[i].mepc # "sample"
       /\ LET p == IF i = sp THEN pc ELSE stack[i-1].mepc
              l == IF i = sp THEN meicontext ELSE stack[i-1].level
          IN IF p \in Mos
               THEN stack[i].mepc \in {"user", "handler", "callee"} /\ l = stack[i].level
               ELSE l > stack[i].level

(* The program's ecall comes back with its own outcome: in a7 in the XOS   *)
(* form, by the error handler with number and message of that one error if *)
(* a plain call failed, and behind the ecall otherwise, whatever ecalls    *)
(* its escape handler made meanwhile.                                      *)
AnswerIsOwn ==
  [][(pc = "exit" /\ sp' = 0) => (pc' = "user" /\ got' = due)]_vars

(* An ecall made by a handler comes back to that handler: it never runs    *)
(* the program's error handler on the MOS stack, and it leaves an error    *)
(* that the interrupted ecall raised pending.                              *)
NestedCallReturns ==
  [][(sp # 0 /\ ~FromUser) => (pc' # "user" /\ UNCHANGED <<got, user_stack_frame, user_error_pend>>)]_vars
=============================================================================
