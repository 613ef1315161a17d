------------------------------ MODULE Session ------------------------------
(***************************************************************************)
(* The supervisor: it reads a line with OSWORD 0 (module LineInput), looks *)
(* its first word up, and GO jumps to the number that follows (module      *)
(* Numbers).  The program started there may replace handlers, and ends by  *)
(* returning or by an error; the handlers then in the table decide who     *)
(* goes on, and do so too for an error of the supervisor.                  *)
(*                                                                         *)
(* A handler is known by whose code it is: the MOS's, that of the program  *)
(* that runs, or that of one that has ended, which nobody takes out of the *)
(* table.  A function and its data pointer are exchanged in the same way;  *)
(* the model has the function.                                             *)
(***************************************************************************)
EXTENDS LineInput, Numbers

CONSTANTS
  GO,            \* the name of the only command
  Junk,          \* the name that stands past the end of the table
  MAX_HANDLERS,  \* 17 in the code
  Defaulted,     \* handler numbers with an entry in default_handlers
  Changed,       \* handler numbers a program passes to OS_HANDLERS
  MaxKept,       \* bound: handlers a program has replaced at a time
  Bases, FlagSets, Strings, Limits   \* the arguments of OS_READUNS

EXIT == -1
ERROR == -3

ASSUME HandlersAssumption ==
  /\ MAX_HANDLERS \in Nat /\ MaxKept \in Nat /\ {EXIT, ERROR} \subseteq Defaulted
  /\ Defaulted \subseteq {-n : n \in 1..MAX_HANDLERS} /\ Changed \subseteq Int
ASSUME CommandAssumption ==
  /\ GO \in Seq(33..255) /\ GO # <<>> /\ Junk \in Seq(0..255)
ASSUME StringsAssumption == Strings \subseteq Seq(1..255)

VARIABLES
  at,            \* who runs: OSWORD 0, a program, or what is called next:
                 \* the error or exit handler, or the return address
  table,         \* active_handlers
  kept,          \* the program's: what it has replaced, latest last
  ra,            \* where the program returns to
  reply          \* the program's last OS_READUNS, with its arguments

svars == <<at, table, kept, ra, reply>>

Numbers17 == {-n : n \in 1..MAX_HANDLERS}
Default == [h \in Numbers17 |-> IF h \in Defaulted THEN "mos" ELSE "null"]

None == <<>>

SInit == /\ Init
         /\ at = "input" /\ table = Default /\ kept = <<>> /\ ra = "mos" /\ reply = None

-----------------------------------------------------------------------------
(* Commands.                                                               *)

(* Mutant: the whole name may be followed by anything.                     *)
Bug_Matches(name, word) ==
  LET k == CHOOSE n \in 0..Len(name) :
             /\ n <= Len(word) /\ SubSeq(name, 1, n) = SubSeq(word, 1, n)
             /\ n = Len(name) \/ n = Len(word) \/ name[n+1] # word[n+1]
  IN k = Len(name) \/ (k + 1 = Len(word) /\ word[k+1] = 46)

(* cmdcmp: the name and the word agree for k characters; a full stop may   *)
(* be the next and last one of the word.                                   *)
Matches(name, word) ==
  LET k == CHOOSE n \in 0..Len(name) :
             /\ n <= Len(word) /\ SubSeq(name, 1, n) = SubSeq(word, 1, n)
             /\ n = Len(name) \/ n = Len(word) \/ name[n+1] # word[n+1]
  IN (k = Len(word) /\ k = Len(name)) \/ (k + 1 = Len(word) /\ word[k+1] = 46)

(* Where the word of a line starts and ends and its tail starts.  The      *)
(* store of 0 at the size makes a string of the line.                      *)
WordStart(s) == RunEnd(s, 0, 0..32 \cup {42})
WordEnd(s) == RunEnd(s, WordStart(s), 33..255)
Word(s) == Part(s, WordStart(s), WordEnd(s))
Tail0(s) == SubSeq(s, RunEnd(s, WordEnd(s), 0..32) + 1, Len(s))

(* The loop runs over two entries, and the last that matches is called.    *)
Command(s) ==
  CASE s = <<>> \/ Word(s) = <<>> -> "nothing"
    [] Word(s) # <<>> /\ Matches(Junk, Word(s)) -> "junk"
    [] Word(s) # <<>> /\ ~Matches(Junk, Word(s)) /\ Matches(GO, Word(s)) -> "go"
    [] OTHER -> "unrecognised"

Target(s) == ReadUnsigned(16, {}, Tail0(s), 0)

(* The number of cmd_go is read by a plain ecall: a bad one is an error.   *)
Outcome(s) ==
  CASE Command(s) = "nothing" -> "input"
    [] Command(s) = "unrecognised" -> "error"
    [] Command(s) = "junk" -> "astray"
    [] Command(s) = "go" -> IF Target(s).err = "none" THEN "program" ELSE "error"

(* The supervisor takes a line.  Its buffer is dead when anything but the  *)
(* next line follows.                                                      *)
TakeLine ==
  /\ at = "input" /\ pc = "returned"
  /\ at' = Outcome(Returned)
  /\ ra' = IF at' = "program" THEN table[EXIT] ELSE ra
  /\ Again
  /\ UNCHANGED <<table, kept, reply>>

(* An escape ends OSWORD 0: OSBYTE 126, then the error ESCAPE.             *)
TakeEscape ==
  /\ at = "input" /\ pc = "escaped"
  /\ at' = "error"
  /\ Again
  /\ UNCHANGED <<table, kept, ra, reply>>

-----------------------------------------------------------------------------
(* OS_HANDLERS.                                                            *)

(* Mutant: the old entry is read after the new one is stored.              *)
Bug_HandlersSet(h, fn) ==
  IF h \notin Numbers17 THEN [err |-> "bad", old |-> fn, table |-> table]
  ELSE LET new == IF fn = "null" THEN table ELSE [table EXCEPT ![h] = fn]
       IN [err |-> "none", old |-> new[h], table |-> new]

(* handlers_set; null leaves the entry as it is.                           *)
HandlersSet(h, fn) ==
  IF h \notin Numbers17 THEN [err |-> "bad", old |-> fn, table |-> table]
  ELSE [err |-> "none", old |-> table[h],
        table |-> IF fn = "null" THEN table ELSE [table EXCEPT ![h] = fn]]

(* Mutant: the program does not look at the error.                         *)
Bug_Install(h) ==
  /\ at = "program" /\ Len(kept) < MaxKept
  /\ LET r == HandlersSet(h, "program") IN
     /\ table' = r.table
     /\ kept' = Append(kept, <<h, r.old>>)
  /\ reply' = None
  /\ UNCHANGED <<at, ra>> /\ UNCHANGED vars

(* A program installs a handler of its own and keeps the one it replaced.  *)
Install(h) ==
  /\ at = "program" /\ Len(kept) < MaxKept
  /\ LET r == HandlersSet(h, "program") IN
     /\ table' = r.table
     /\ kept' = IF r.err = "none" THEN Append(kept, <<h, r.old>>) ELSE kept
     /\ at' = IF r.err = "none" THEN "program" ELSE "error"
  /\ reply' = None
  /\ UNCHANGED ra /\ UNCHANGED vars

(* It puts back the one it replaced last.                                  *)
PutBack ==
  /\ at = "program" /\ kept # <<>>
  /\ LET last == kept[Len(kept)] IN table' = HandlersSet(last[1], last[2]).table
  /\ kept' = SubSeq(kept, 1, Len(kept) - 1)
  /\ reply' = None
  /\ UNCHANGED <<at, ra>> /\ UNCHANGED vars

(* OS_READUNS of a program: a plain call with an error raises it, an X     *)
(* call returns it.  Bound: no handler is replaced at the time.            *)
ReadNumber(base, flags, s, max, x) ==
  /\ at = "program" /\ table = Default /\ reply = None
  /\ LET r == ReadUnsigned(base, flags, s, max) IN
     /\ reply' = <<[base |-> base, flags |-> flags, s |-> s, max |-> max], r>>
     /\ at' = IF r.err = "none" \/ x THEN "program" ELSE "error"
  /\ UNCHANGED <<table, kept, ra>> /\ UNCHANGED vars

(* The program ends.                                                       *)
Finish ==
  /\ at = "program" /\ at' \in {"error", "return"}
  /\ reply' = None
  /\ UNCHANGED <<table, kept, ra>> /\ UNCHANGED vars

-----------------------------------------------------------------------------
(* Handlers called.                                                        *)

(* Control passes to a function: its program goes on, or the default       *)
(* handler does what next says; code of a program that ended is astray.    *)
Call(fn, next) == at' = CASE fn = "mos" -> next [] fn = "program" -> "program" [] OTHER -> "astray"

(* Mutant: the default handler returns into the code that failed.          *)
Bug_CallError ==
  /\ at = "error" /\ Call(table[ERROR], "program")
  /\ reply' = None
  /\ UNCHANGED <<table, kept, ra>> /\ UNCHANGED vars

(* handlers_default_ERROR prints and calls the exit handler.               *)
CallError ==
  /\ at = "error" /\ Call(table[ERROR], "exit")
  /\ reply' = None
  /\ UNCHANGED <<table, kept, ra>> /\ UNCHANGED vars

(* handlers_default_EXIT starts the supervisor anew; its table stays.  An  *)
(* exit handler is called by the default error handler, or returned to: ra *)
(* is the one that was in the table at GO.                                 *)
CallExit ==
  /\ at \in {"exit", "return"}
  /\ Call(IF at = "exit" THEN table[EXIT] ELSE ra, "input")
  /\ IF at' = "program"
       THEN UNCHANGED <<table, kept>>
       ELSE /\ table' = [h \in Numbers17 |-> IF table[h] = "program" THEN "ended" ELSE table[h]]
            /\ kept' = <<>>
  /\ reply' = None
  /\ UNCHANGED ra /\ UNCHANGED vars

(* A reset of the machine, mos_reset and main.                             *)
Reset ==
  /\ at # "input"
  /\ at' = "input" /\ table' = Default /\ kept' = <<>> /\ ra' = "mos" /\ reply' = None
  /\ UNCHANGED vars

SNext ==
  \/ at = "input" /\ Edited /\ UNCHANGED svars
  \/ TakeLine \/ TakeEscape
  \/ \E h \in Changed : Install(h)
  \/ PutBack
  \/ /\ at = "program"
     /\ \E base \in Bases, flags \in FlagSets, s \in Strings, max \in Limits, x \in BOOLEAN :
          ReadNumber(base, flags, s, max, x)
  \/ Finish \/ CallError \/ CallExit \/ Reset

sessionvars == <<vars, svars>>

(* Handlers that are called run.                                           *)
SSpec == SInit /\ [][SNext]_sessionvars /\ WF_sessionvars(CallError \/ CallExit)

-----------------------------------------------------------------------------
(* Properties.                                                             *)

(* Every variable of the supervisor has its type.                          *)
STypeOK ==
  /\ at \in {"input", "program", "error", "exit", "return", "astray"}
  /\ table \in [Numbers17 -> {"mos", "null", "program", "ended"}]
  /\ \A i \in 1..Len(kept) : kept[i] \in Numbers17 \X {"mos", "null", "program", "ended"}
  /\ Len(kept) <= MaxKept
  /\ ra \in {"mos", "ended"}

(* A line runs GO exactly when its first word, after spaces and stars, is  *)
(* the name or an abbreviation of it with a full stop, but for the words   *)
(* that also fit whatever stands in memory past the table: the search      *)
(* looks at one entry too many, and prefers it.  (A full stop that is part *)
(* of a name does not abbreviate it.)                                      *)
Abbreviations(name) ==
  {name} \cup {SubSeq(name, 1, k) \o <<46>> :
                 k \in {i \in 0..Len(name) : i = Len(name) \/ name[i+1] # 46}}

FirstWord(s, i, j) ==
  /\ \A k \in 1..i : s[k] <= 32 \/ s[k] = 42
  /\ i < j /\ s[i+1] # 42 /\ \A k \in i+1..j : s[k] > 32
  /\ j = Len(s) \/ s[j+1] <= 32

LineMeansCommand ==
  at = "input" /\ pc = "returned" =>
    (Command(Returned) = "go" <=>
       \E i \in 0..size, j \in 0..size :
         /\ FirstWord(Returned, i, j)
         /\ Part(Returned, i, j) \in Abbreviations(GO) \ Abbreviations(Junk))

(* OS_READUNS reads the numeral the string starts with, if there is one,   *)
(* and nothing else: the value, the place after it, and the error that the *)
(* flags ask for.  (A value past the word wraps, and then nothing is said: *)
(* it is compared with the limits after it has wrapped.)                   *)
NumberRead ==
  reply # None =>
    LET q == reply[1]
        r == reply[2]
        found == Numerals(q.s, IF q.base \in 2..36 THEN q.base ELSE 10)
    IN /\ found = {} => r.err \in {"BadBase", "BadNumb"}
       /\ \A m \in found :
            LET v == Value(Part(q.s, m[1], m[2]), m[3])
                big == TooBig(v, q.flags, q.max)
                more == "terminator" \in q.flags /\ At(q.s, m[2]) > 32
            IN v < WORD =>
                 /\ r.n = v /\ r.p = m[2]
                 /\ r.err = IF big THEN "NumbTooBig" ELSE IF more THEN "BadNumb" ELSE "none"

(* A program that puts back what OS_HANDLERS returned, in the opposite     *)
(* order, leaves the defaults as it found them, whatever it replaced twice *)
(* or with bad numbers in between.  (An entry without a default cannot be  *)
(* put back: null leaves it as it is.)                                     *)
PutBackRestores ==
  at = "program" /\ kept = <<>> => \A h \in Defaulted : table[h] # "program"

(* The table stays within its numbers, and a handler of the program is in  *)
(* it only while the program can put the default back.                     *)
HandlersInv == STypeOK /\ PutBackRestores

(* The prompt comes back after every error and every end of a program, as  *)
(* long as the default handlers are in the table.                          *)
PromptReturns ==
  (at \in {"error", "exit", "return"} /\ table = Default /\ ra = "mos") ~> (at = "input")
=============================================================================
