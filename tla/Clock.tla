------------------------------- MODULE Clock -------------------------------
(***************************************************************************)
(* TIME: the two copies of the centisecond clock, the 100Hz tick of the    *)
(* Timer 1 interrupt, and OSWORD 1 and 2 that copy it byte by byte.        *)
(*                                                                         *)
(* OSB_TIME_SWITCH names the visible copy; 5 and 10 are the copies, since  *)
(* the code adds the switch to the address of the array.  The tick runs in *)
(* the interrupt, to its end, and may fall between any two bytes of an     *)
(* OSWORD: neither call masks the interrupt.  It flips the switch first    *)
(* and then writes the copy that was visible until now.                    *)
(***************************************************************************)
EXTENDS Integers

CONSTANTS
  NBYTES,         \* bytes of a copy: 5 in the code
  BASE,           \* values of a byte: 256 in the code
  WriteValues,    \* the times callers set
  MaxTicks        \* ticks that may fall into one OSWORD

ASSUME NBytesAssumption == NBYTES \in Nat \ {0}
ASSUME BaseAssumption == BASE \in Nat \ {0, 1}
ASSUME MaxTicksAssumption == MaxTicks \in Nat

Digits == 0..NBYTES-1             \* least significant first
Times == [Digits -> 0..BASE-1]

ASSUME WriteAssumption == WriteValues \subseteq Times

Copies == {5, 10}
Other(r) == 15 - r                \* sw ^ 0xF

VARIABLES
  switch,         \* OSB_TIME_SWITCH
  time,           \* TIME_VAL1_MSB as two copies
  call,           \* the OSWORD in progress: pc, copy latched, next byte, value
  ticks,          \* ticks since the call began
  predict,        \* history: what an undisturbed read must now return
  want,           \* history: the time written and not yet visible
  shown           \* history: the times visible since OSWORD 1 was called

vars == <<switch, time, call, ticks, predict, want, shown>>

Unknown == [d \in {} |-> 0]
None == [d \in {-1} |-> 0]        \* nothing has been written
Torn == [d \in {-2} |-> 0]        \* the hidden copy is not in step

NoTime == [d \in Digits |-> 0]
Idle == [pc |-> "idle", p |-> 5, n |-> 0, v |-> NoTime]

(* mos_reset numbers the ten bytes 0 to 9, most significant first, so the  *)
(* copies do not agree before the first tick.                              *)
Init == /\ switch = 5
        /\ time = [r \in Copies |->
                     [d \in Digits |-> (IF r = 5 THEN NBYTES-1-d ELSE 2*NBYTES-1-d) % BASE]]
        /\ call = Idle
        /\ ticks = 0
        /\ predict = Unknown
        /\ want = Torn
        /\ shown = {}

-----------------------------------------------------------------------------
(* Mutant: the sum is kept in more than a byte.                            *)
Bug_IncWide(t) == [d \in Digits |->
                     IF \A e \in 0..d-1 : t[e] = BASE - 1 THEN t[d] + 1 ELSE t[d]]

(* Add one with carry, the loop of the tick: byte d changes when all the   *)
(* bytes below it wrap.                                                    *)
Inc(t) == [d \in Digits |->
             IF \A e \in 0..d-1 : t[e] = BASE - 1 THEN (t[d] + 1) % BASE ELSE t[d]]

(* The T1 interrupt.                                                       *)
Tick ==
  LET sw == switch
      sw2 == Other(sw)
  IN
  /\ call.pc # "idle" => ticks < MaxTicks
  /\ switch' = sw2
  /\ time' = [time EXCEPT ![sw] = Inc(time[sw2])]
  /\ ticks' = IF call.pc = "idle" THEN 0 ELSE ticks + 1
  /\ predict' = IF want \in Times THEN want
                ELSE IF want = Torn \/ call.pc = "write" \/ predict = Unknown THEN Unknown
                ELSE Inc(predict)
  /\ want' = IF call.pc = "write" THEN Torn ELSE None
  /\ shown' = IF call.pc = "read" THEN shown \cup {time[sw2]} ELSE {}
  /\ UNCHANGED call

-----------------------------------------------------------------------------
(* OSWORD 1: latch the visible copy, then copy it lowest byte first.       *)

ReadBegin ==
  /\ call.pc = "idle"
  /\ call' = [Idle EXCEPT !.pc = "read", !.p = switch]
  /\ ticks' = 0
  /\ shown' = {time[switch]}
  /\ UNCHANGED <<switch, time, predict, want>>

ReadByte ==
  /\ call.pc = "read" /\ call.n < NBYTES
  /\ call' = [call EXCEPT !.v[call.n] = time[call.p][call.n], !.n = @ + 1]
  /\ UNCHANGED <<switch, time, ticks, predict, want, shown>>

(* The return of OSWORD 1.                                                 *)
ReadEnd ==
  /\ call.pc = "read" /\ call.n = NBYTES
  /\ call' = Idle
  /\ predict' = IF ticks = 0 THEN call.v ELSE predict
  /\ ticks' = 0
  /\ shown' = {}
  /\ UNCHANGED <<switch, time, want>>

(* Mutant: the visible copy is filled.                                     *)
Bug_WriteBegin(v) ==
  /\ call.pc = "idle"
  /\ call' = [Idle EXCEPT !.pc = "write", !.p = switch, !.v = v]
  /\ ticks' = 0
  /\ want' = Torn
  /\ UNCHANGED <<switch, time, predict, shown>>

(* OSWORD 2: latch the hidden copy and fill it.                            *)

WriteBegin(v) ==
  /\ call.pc = "idle"
  /\ call' = [Idle EXCEPT !.pc = "write", !.p = Other(switch), !.v = v]
  /\ ticks' = 0
  /\ want' = Torn
  /\ UNCHANGED <<switch, time, predict, shown>>

WriteByte ==
  /\ call.pc = "write" /\ call.n < NBYTES
  /\ time' = [time EXCEPT ![call.p][call.n] = call.v[call.n]]
  /\ call' = [call EXCEPT !.n = @ + 1]
  /\ UNCHANGED <<switch, ticks, predict, want, shown>>

WriteEnd ==
  /\ call.pc = "write" /\ call.n = NBYTES
  /\ call' = Idle
  /\ want' = IF ticks = 0 THEN call.v ELSE Torn
  /\ predict' = IF ticks = 0 THEN predict ELSE Unknown
  /\ ticks' = 0
  /\ UNCHANGED <<switch, time, shown>>

Next ==
  \/ Tick
  \/ ReadBegin \/ ReadByte \/ ReadEnd
  \/ \E v \in WriteValues : WriteBegin(v)
  \/ WriteByte \/ WriteEnd

Spec == Init /\ [][Next]_vars

-----------------------------------------------------------------------------
(* Properties.                                                             *)

(* The switch is 5 or 10 and every byte stays a byte.                      *)
TypeOK ==
  /\ switch \in Copies
  /\ time \in [Copies -> Times]
  /\ call \in [pc : {"idle", "read", "write"}, p : Copies, n : 0..NBYTES, v : Times]
  /\ ticks \in 0..MaxTicks
  /\ predict \in Times \cup {Unknown}
  /\ want \in Times \cup {None, Torn}
  /\ shown \subseteq Times

(* What OSWORD 1 tells a caller over time.  Of two reads that no tick      *)
(* interrupts, the later returns the earlier plus the ticks in between; a  *)
(* time set by an undisturbed OSWORD 2 is what is read after the next tick *)
(* and counts on from there.  (Nothing is said between the reset and the   *)
(* first tick, nor after a write that a tick interrupted.)                 *)
QuietReadsCount ==
  call.pc = "read" /\ call.n = NBYTES /\ ticks = 0 /\ predict # Unknown => call.v = predict

(* OSWORD 1 reads the time: what it returns is a time the clock showed at  *)
(* some moment of the call, or one of the copies as it ends.               *)
ReadIsATime ==
  call.pc = "read" /\ call.n = NBYTES => call.v \in shown \cup {time[5], time[10]}
=============================================================================
