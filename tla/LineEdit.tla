------------------------------ MODULE LineEdit ------------------------------
(***************************************************************************)
(* What reading a line promises: characters are added at its end up to a   *)
(* limit, the last one or all of them are taken away, and RETURN or an     *)
(* escape ends it.                                                         *)
(***************************************************************************)
EXTENDS Integers, Sequences

CONSTANTS Char,      \* the characters a line may hold
          Limit      \* how many

VARIABLES line, state, answer   \* answer: the line returned, its length

vars == <<line, state, answer>>

Init == line = <<>> /\ state = "editing" /\ answer = <<>>

Add(c) == /\ state = "editing" /\ Len(line) < Limit
          /\ line' = Append(line, c) /\ UNCHANGED <<state, answer>>

Delete == /\ state = "editing" /\ line # <<>>
          /\ line' = SubSeq(line, 1, Len(line) - 1) /\ UNCHANGED <<state, answer>>

Kill == /\ state = "editing" /\ line' = <<>> /\ UNCHANGED <<state, answer>>

Return == /\ state = "editing" /\ state' = "returned" /\ answer' = line /\ UNCHANGED line

Escape == /\ state = "editing" /\ state' = "escaped" /\ UNCHANGED <<line, answer>>

(* The caller reads another line.                                          *)
Again == /\ state # "editing" /\ state' = "editing" /\ line' = <<>> /\ answer' = <<>>

Next == (\E c \in Char : Add(c)) \/ Delete \/ Kill \/ Return \/ Escape \/ Again

Spec == Init /\ [][Next]_vars
=============================================================================
