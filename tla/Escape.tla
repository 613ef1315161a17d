------------------------------- MODULE Escape -------------------------------
(***************************************************************************)
(* The escape condition: the keyboard interrupt that sets it, RDCHV that   *)
(* reports it, and OSBYTEs 124, 125 and 126 that clear, set and            *)
(* acknowledge it, one access to ESCAPE_FLAG a step.                       *)
(*                                                                         *)
(* The interrupt runs to its end, so what it does is one step; it may come *)
(* between any two steps of the program.  The keyboard buffer is the       *)
(* atomic FIFO that module Buffers implements.  A character is known by    *)
(* the number of escapes that were pressed before it, which is history.    *)
(***************************************************************************)
EXTENDS Integers, Sequences

CONSTANTS
  FLAG_N,            \* the top bit of ESCAPE_FLAG: 0x80 in the code
  Room,              \* characters the keyboard buffer holds
  OSB_ESC_EFFECTS,   \* not 0: an acknowledged escape flushes nothing
  MaxPresses         \* bound on the escapes pressed

ASSUME FlagAssumption == FLAG_N \in Nat \ {0}
ASSUME RoomAssumption == Room \in Nat
ASSUME EffectsAssumption == OSB_ESC_EFFECTS \in {0, 1}
ASSUME PressesAssumption == MaxPresses \in Nat

VARIABLES
  ESCAPE_FLAG,
  buffer,       \* the keyboard buffer
  op,           \* the program's operation: pc, and the flag it has loaded
  ret,          \* what RDCHV returned: a character, -1, or nothing yet
  told,         \* the argument of the last call of the escape handler
  presses,      \* history: escapes pressed
  tested,       \* history: presses when the OSBYTE 126 in progress saw one
  acked,        \* history: presses acknowledged, with the flush
  unheard,      \* history: pressed, and no clear has looked at the flag since
  disturbed     \* history: pressed while an operation was in progress

history == <<presses, tested, acked, unheard, disturbed>>
escape_vars == <<ESCAPE_FLAG, buffer, op, ret, told, history>>

Idle == [pc |-> "idle", flag |-> 0]
Nothing == -2

EscapeInit ==
  /\ ESCAPE_FLAG = 0 /\ buffer = <<>> /\ op = Idle /\ ret = Nothing /\ told = 0
  /\ presses = 0 /\ tested = 0 /\ acked = 0 /\ unheard = FALSE /\ disturbed = FALSE

Pending(f) == f >= FLAG_N
Cleared(f) == f \div 2
Set(f) == FLAG_N + f \div 2

At(pc) == op.pc = pc
Goto(pc) == op' = [op EXCEPT !.pc = pc]

-----------------------------------------------------------------------------
Calm == {"idle", "rd_flag", "rd_remv"}     \* no access to the flag is half way

(* The keyboard interrupt, buffers_insert_check_ESC: a character, or the   *)
(* escape character, which sets the flag and is not inserted.              *)

TypeChar ==
  /\ Len(buffer) < Room
  /\ buffer' = Append(buffer, presses)
  /\ UNCHANGED <<ESCAPE_FLAG, op, ret, told, history>>

PressEscape ==
  /\ presses < MaxPresses
  /\ presses' = presses + 1
  /\ ESCAPE_FLAG' = Set(ESCAPE_FLAG)
  /\ told' = Cleared(Set(ESCAPE_FLAG))
  /\ unheard' = TRUE
  /\ disturbed' = (op.pc \notin Calm)
  /\ UNCHANGED <<buffer, op, ret, tested, acked>>

-----------------------------------------------------------------------------
(* The program begins an operation.  OSBYTE 126 is OSBYTE 124 when there   *)
(* is no escape, and else flushes first if the effects are on.             *)

Start(pc) == At("idle") /\ Goto(pc) /\ ret' = Nothing

ReadBegin ==
  Start("rd_flag") /\ UNCHANGED <<ESCAPE_FLAG, buffer, told, history>>

ClearBegin ==
  /\ Start("clear") /\ tested' = 0 /\ disturbed' = FALSE
  /\ UNCHANGED <<ESCAPE_FLAG, buffer, told, presses, acked, unheard>>

SetBegin ==
  /\ Start("set") /\ tested' = 0 /\ disturbed' = FALSE
  /\ UNCHANGED <<ESCAPE_FLAG, buffer, told, presses, acked, unheard>>

AckBegin ==
  LET flushes == Pending(ESCAPE_FLAG) /\ OSB_ESC_EFFECTS = 0 IN
  /\ Start(IF flushes THEN "flush" ELSE "clear")
  /\ tested' = IF flushes THEN presses ELSE 0
  /\ disturbed' = FALSE
  /\ UNCHANGED <<ESCAPE_FLAG, buffer, told, presses, acked, unheard>>

-----------------------------------------------------------------------------
(* RDCHV: test the flag, try REMV, and again.                              *)

ReadEscape ==
  /\ At("rd_flag") /\ Pending(ESCAPE_FLAG)
  /\ ret' = -1 /\ op' = Idle
  /\ UNCHANGED <<ESCAPE_FLAG, buffer, told, history>>

ReadGoOn ==
  /\ At("rd_flag") /\ ~Pending(ESCAPE_FLAG)
  /\ Goto("rd_remv")
  /\ UNCHANGED <<ESCAPE_FLAG, buffer, ret, told, history>>

ReadChar ==
  /\ At("rd_remv") /\ buffer # <<>>
  /\ ret' = Head(buffer) /\ buffer' = Tail(buffer) /\ op' = Idle
  /\ UNCHANGED <<ESCAPE_FLAG, told, history>>

(* Mutant: an empty buffer is tried again without a look at the flag.      *)
Bug_ReadAgain ==
  /\ At("rd_remv") /\ buffer = <<>>
  /\ UNCHANGED escape_vars

ReadAgain ==
  /\ At("rd_remv") /\ buffer = <<>>
  /\ Goto("rd_flag")
  /\ UNCHANGED <<ESCAPE_FLAG, buffer, ret, told, history>>

-----------------------------------------------------------------------------
(* OSBYTE 126 flushes the buffers, the keyboard's among them.              *)

(* Mutant: the flush is forgotten.                                         *)
Bug_Flush ==
  /\ At("flush") /\ Goto("clear")
  /\ UNCHANGED <<ESCAPE_FLAG, buffer, ret, told, history>>

Flush ==
  /\ At("flush") /\ Goto("clear")
  /\ buffer' = <<>>
  /\ UNCHANGED <<ESCAPE_FLAG, ret, told, history>>

(* OSBYTE 124 and 125: load, shift and store.                              *)
Load ==
  /\ op.pc \in {"clear", "set"}
  /\ op' = [pc |-> IF At("set") THEN "set_store" ELSE "clear_store", flag |-> ESCAPE_FLAG]
  /\ unheard' = (unheard /\ At("set"))
  /\ UNCHANGED <<ESCAPE_FLAG, buffer, ret, told, presses, tested, acked, disturbed>>

(* Mutant: the top bit is set and the rest of the flag is left.            *)
Bug_Store ==
  /\ op.pc \in {"clear_store", "set_store"}
  /\ ESCAPE_FLAG' = IF At("set_store") THEN FLAG_N + op.flag ELSE Cleared(op.flag)
  /\ Goto("tell")
  /\ UNCHANGED <<buffer, ret, told, history>>

Store ==
  /\ op.pc \in {"clear_store", "set_store"}
  /\ ESCAPE_FLAG' = IF At("set_store") THEN Set(op.flag) ELSE Cleared(op.flag)
  /\ Goto("tell")
  /\ UNCHANGED <<buffer, ret, told, history>>

(* Mutant: the handler is told what was loaded before the shift.           *)
Bug_TellLoad ==
  /\ At("tell") /\ Goto("tell_call")
  /\ UNCHANGED <<ESCAPE_FLAG, buffer, ret, told, history>>

(* Then tell the handler: another load, and the call.                      *)
TellLoad ==
  /\ At("tell")
  /\ op' = [pc |-> "tell_call", flag |-> Cleared(ESCAPE_FLAG)]
  /\ UNCHANGED <<ESCAPE_FLAG, buffer, ret, told, history>>

TellCall ==
  /\ At("tell_call")
  /\ told' = op.flag /\ op' = Idle
  /\ acked' = IF tested # 0 THEN tested ELSE acked
  /\ UNCHANGED <<ESCAPE_FLAG, buffer, ret, presses, tested, unheard, disturbed>>

-----------------------------------------------------------------------------
Program ==
  \/ ReadEscape \/ ReadGoOn \/ ReadChar \/ ReadAgain
  \/ Flush \/ Load \/ Store \/ TellLoad \/ TellCall

EscapeNext ==
  \/ TypeChar \/ PressEscape
  \/ ReadBegin \/ ClearBegin \/ SetBegin \/ AckBegin
  \/ Program

EscapeSpec == EscapeInit /\ [][EscapeNext]_escape_vars

(* An operation that has begun goes on.                                    *)
EscapeFairSpec == EscapeSpec /\ WF_escape_vars(Program)

-----------------------------------------------------------------------------
(* Properties.                                                             *)

Pcs == {"idle", "rd_flag", "rd_remv", "clear", "set", "flush", "clear_store", "set_store",
        "tell", "tell_call"}

(* The shifts keep the flag a byte, and every variable has its type.       *)
EscapeTypeOK ==
  /\ ESCAPE_FLAG \in 0..2*FLAG_N-1
  /\ buffer \in Seq(0..MaxPresses) /\ Len(buffer) <= Room
  /\ op \in [pc : Pcs, flag : 0..2*FLAG_N-1]
  /\ ret \in {Nothing, -1} \cup 0..MaxPresses
  /\ told \in 0..FLAG_N-1
  /\ presses \in 0..MaxPresses /\ tested \in 0..presses /\ acked \in 0..presses
  /\ {unheard, disturbed} \subseteq BOOLEAN

(* What the acknowledgement is for: what was typed ahead of an escape that *)
(* the program has acknowledged is never read, wherever the keys fell      *)
(* between the steps of OSBYTE 126.                                        *)
TypeAheadGone == ret >= 0 => ret >= acked

(* An escape handler that no escape has overtaken knows the flag: it was   *)
(* last told the flag shifted, as OSBYTE 124 and 125 leave it.             *)
HandlerInStep == op.pc \in Calm /\ ~disturbed => told = Cleared(ESCAPE_FLAG)

(* The flag stays within its bits however often it is shifted and set,     *)
(* and the handler knows it.                                               *)
HandlerInv == EscapeTypeOK /\ HandlerInStep

(* A program that waits in RDCHV for a key is let go by an escape.         *)
EscapeEndsRead ==
  op.pc \in {"rd_flag", "rd_remv"} /\ Pending(ESCAPE_FLAG) ~> At("idle")

(* buffers.c:51: an escape that is pressed sets the flag; only a clear     *)
(* that has not looked at the flag before may take it back.                *)
PressSurvives == unheard => Pending(ESCAPE_FLAG)
=============================================================================
