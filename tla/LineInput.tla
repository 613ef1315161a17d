----------------------------- MODULE LineInput -----------------------------
(***************************************************************************)
(* OSWORD 0, the input of a line: characters from RDCHV are stored in the  *)
(* caller's buffer and echoed by WRCHV.                                    *)
(*                                                                         *)
(* The VDU is the environment, as far as OSWORD 0 sees it: it prints, it   *)
(* deletes the last character, or it takes characters that a control code  *)
(* has asked for, while OSB_VDU_QSIZE is not 0.  A ctrl-U of n characters  *)
(* is n steps, like the code's loop.                                       *)
(***************************************************************************)
EXTENDS Integers, Sequences

CONSTANTS
  maxindex,     \* the caller's size
  Printable,    \* characters from min to max
  Beyond,       \* printable ones past max
  Lead,         \* control codes that take parameters
  Params        \* how many the VDU then takes

ASSUME MaxAssumption == maxindex \in Nat
ASSUME ParamsAssumption == Params \in Nat \ {0}
ASSUME CharAssumption ==
  /\ \A c \in Printable \cup Beyond \cup Lead : c \in 0..255 \ {7, 10, 13, 21, 127}
  /\ Printable \cap (Beyond \cup Lead) = {} /\ Beyond \cap Lead = {}

DEL == 127
CTRL_U == 21
RET == 13
Escape == -1
Chars == Printable \cup Beyond \cup Lead \cup {DEL, CTRL_U, RET}

VARIABLES
  ptr,          \* the caller's buffer of maxindex bytes, and the byte behind it
  ix,
  pc,           \* where OSWORD 0 is
  size,         \* the size the block returns
  queue,        \* OSB_VDU_QSIZE: characters the VDU waits for
  screen,       \* what WRCHV has printed since the line began, until
  stray         \* history: a character that is not kept was printed

vars == <<ptr, ix, pc, size, queue, screen, stray>>

Unwritten == 0

Init == /\ ptr = [i \in 0..maxindex |-> Unwritten]
        /\ ix = 0 /\ pc = "read" /\ size = 0 /\ queue = 0 /\ screen = <<>> /\ stray = FALSE

-----------------------------------------------------------------------------
(* The effect of WRCHV(c) on the screen and the queue.                     *)

Show(c) == screen' = IF stray THEN screen ELSE Append(screen, c)

Unshow == screen' = IF screen = <<>> THEN <<>> ELSE SubSeq(screen, 1, Len(screen) - 1)

(* RDCHV returns -1: the block's size becomes -1.                          *)
Escaped ==
  /\ pc = "read" /\ pc' = "escaped" /\ size' = -1
  /\ UNCHANGED <<ptr, ix, queue, screen, stray>>

(* Whatever it is, a character goes to the VDU that waits for one.         *)
ToVdu(c) ==
  /\ pc = "read" /\ queue # 0
  /\ queue' = queue - 1
  /\ UNCHANGED <<ptr, ix, pc, size, screen, stray>>

(* Mutant: the delete is not echoed.                                       *)
Bug_Delete ==
  /\ pc = "read" /\ queue = 0
  /\ ix' = IF ix > 0 THEN ix - 1 ELSE 0
  /\ UNCHANGED screen
  /\ UNCHANGED <<ptr, pc, size, queue, stray>>

Delete ==
  /\ pc = "read" /\ queue = 0
  /\ IF ix > 0 THEN ix' = ix - 1 /\ Unshow ELSE UNCHANGED <<ix, screen>>
  /\ UNCHANGED <<ptr, pc, size, queue, stray>>

(* ctrl-U deletes them one by one.                                         *)
Kill ==
  /\ pc = "read" /\ queue = 0
  /\ pc' = "kill"
  /\ UNCHANGED <<ptr, ix, size, queue, screen, stray>>

(* Mutant: an if instead of the while.                                     *)
Bug_KillOne ==
  /\ pc = "kill" /\ pc' = "read"
  /\ IF ix > 0 THEN ix' = ix - 1 /\ Unshow ELSE UNCHANGED <<ix, screen>>
  /\ UNCHANGED <<ptr, size, queue, stray>>

KillOne ==
  /\ pc = "kill"
  /\ IF ix > 0 THEN ix' = ix - 1 /\ Unshow /\ UNCHANGED pc
               ELSE pc' = "read" /\ UNCHANGED <<ix, screen>>
  /\ UNCHANGED <<ptr, size, queue, stray>>

(* Mutant: the size counts the RETURN.                                     *)
Bug_Return ==
  /\ pc = "read" /\ queue = 0
  /\ ptr' = [ptr EXCEPT ![ix] = RET]
  /\ size' = IF ix < maxindex THEN ix + 1 ELSE ix
  /\ pc' = "returned"
  /\ UNCHANGED <<ix, queue, screen, stray>>

(* RETURN is stored too, and the size is the index it is stored at.        *)
Return ==
  /\ pc = "read" /\ queue = 0
  /\ ptr' = [ptr EXCEPT ![ix] = RET]
  /\ size' = ix
  /\ pc' = "returned"
  /\ UNCHANGED <<ix, queue, screen, stray>>

(* Mutant: the limit is tested after the index has moved.                  *)
Bug_Room == ix <= maxindex
Room == ix < maxindex

(* A character is stored before the index is compared with the limit, and  *)
(* stays in the buffer whether or not the index moves past it.             *)
StoreBell(c) ==
  /\ pc = "read" /\ queue = 0 /\ ~Room
  /\ ptr' = [ptr EXCEPT ![ix] = c]
  /\ UNCHANGED <<ix, pc, size, queue, screen, stray>>

StorePrintable(c) ==
  /\ pc = "read" /\ queue = 0 /\ Room
  /\ ptr' = [ptr EXCEPT ![ix] = c]
  /\ ix' = ix + 1
  /\ Show(c)
  /\ UNCHANGED <<pc, size, queue, stray>>

(* Outside min to max: echoed, not kept.                                   *)
StoreBeyond(c) ==
  /\ pc = "read" /\ queue = 0 /\ Room
  /\ ptr' = [ptr EXCEPT ![ix] = c]
  /\ screen' = <<>> /\ stray' = TRUE
  /\ UNCHANGED <<ix, pc, size, queue>>

StoreLead(c) ==
  /\ pc = "read" /\ queue = 0 /\ Room
  /\ ptr' = [ptr EXCEPT ![ix] = c]
  /\ queue' = Params
  /\ UNCHANGED <<ix, pc, size, screen, stray>>

(* The caller issues another OSWORD 0 with the same buffer; an escape may  *)
(* have been acknowledged, which empties the VDU's queue.                  *)
Again ==
  /\ pc \in {"returned", "escaped"}
  /\ pc' = "read" /\ ix' = 0 /\ size' = 0 /\ screen' = <<>> /\ stray' = FALSE
  /\ queue' = queue \/ (pc = "escaped" /\ queue' = 0)
  /\ UNCHANGED ptr

(* What may happen inside an OSWORD 0.                                     *)
Edited ==
  \/ Escaped
  \/ \E c \in Chars : ToVdu(c)
  \/ Delete \/ Kill \/ KillOne \/ Return
  \/ \E c \in Printable : StorePrintable(c)
  \/ \E c \in Beyond : StoreBeyond(c)
  \/ \E c \in Lead : StoreLead(c)
  \/ \E c \in Printable \cup Beyond \cup Lead : StoreBell(c)

Next == Edited \/ Again

Spec == Init /\ [][Next]_vars

-----------------------------------------------------------------------------
(* Properties.                                                             *)

Bytes == Printable \cup Beyond \cup Lead \cup {RET, Unwritten}

(* Every variable has its type.  The index never passes maxindex, but a    *)
(* buffer of maxindex bytes ends one below: what is typed into a full line *)
(* and its RETURN are stored in the byte behind it.  That is what OSWORD 0 *)
(* does, not what a caller that passes the size of its buffer can want.    *)
TypeOK ==
  /\ ix \in 0..maxindex
  /\ ptr \in [0..maxindex -> Bytes]
  /\ pc \in {"read", "kill", "returned", "escaped"}
  /\ size \in -1..maxindex
  /\ queue \in 0..Params
  /\ screen \in Seq(Bytes)
  /\ stray \in BOOLEAN

(* The characters kept.                                                    *)
Kept == [i \in 1..ix |-> ptr[i-1]]

(* What the user sees is what is returned: through any sequence of         *)
(* characters, deletes and ctrl-Us the screen shows the characters in the  *)
(* buffer, unless one was echoed that is not kept. The line returned ends  *)
(* where it says: RETURN stands at the size, and only characters of the    *)
(* caller's range stand below it.                                          *)
EchoIsLine ==
  /\ ~stray => screen = Kept
  /\ pc = "returned" => ptr[size] = RET /\ \A i \in 0..size-1 : ptr[i] \in Printable

(* OSWORD 0 edits a line as LineEdit says, and returns exactly the line:   *)
(* the characters below the size, RETURN at it.                            *)
Returned == IF pc = "returned" THEN [i \in 1..size |-> ptr[i-1]] ELSE <<>>
Edit == INSTANCE LineEdit WITH
          Char <- Printable, Limit <- maxindex,
          line <- IF pc = "kill" THEN <<>> ELSE Kept,
          state <- CASE pc = "returned" -> "returned" [] pc = "escaped" -> "escaped"
                     [] OTHER -> "editing",
          answer <- Returned
RefinesEdit == Edit!Spec
=============================================================================
