-------------------------- MODULE InterruptsProofs --------------------------
(***************************************************************************)
(* Proofs about modules Clock and Interrupts: for every number of bytes    *)
(* and every base of the clock, phases of every length, any number of      *)
(* palette writes and any of the sources.                                  *)
(***************************************************************************)
EXTENDS Interrupts, SequenceTheorems, TLAPS

-----------------------------------------------------------------------------
(* The clock by itself.                                                    *)

visible == time[switch]
hidden == time[Other(switch)]

(* Why an undisturbed read is right: while the history knows the time, it  *)
(* is the visible copy; the hidden copy is the time written, or is one     *)
(* ahead of the visible copy; and a call that no tick has interrupted has  *)
(* copied its bytes between the caller and the copy it should.             *)
InStep ==
  /\ predict # Unknown => predict = visible
  /\ want \in Times => want = hidden /\ call.pc # "write"
  /\ want = None => hidden = Inc(visible)
  /\ call.pc = "write" => want = Torn
  /\ call.pc = "read" /\ ticks = 0 =>
       call.p = switch /\ \A d \in Digits : d < call.n => call.v[d] = visible[d]
  /\ call.pc = "write" /\ ticks = 0 =>
       call.p = Other(switch) /\ \A d \in Digits : d < call.n => hidden[d] = call.v[d]
  /\ call.pc = "write" /\ ticks # 0 => predict = Unknown

IInv == TypeOK /\ InStep

LEMMA Marks ==
  /\ Unknown \notin Times /\ None \notin Times /\ Torn \notin Times
  /\ None # Torn
<1>1. 0 \in Digits /\ -1 \notin Digits /\ -2 \notin Digits
  BY NBytesAssumption DEF Digits
<1>2. DOMAIN Unknown = {} /\ DOMAIN None = {-1} /\ DOMAIN Torn = {-2}
  BY DEF Unknown, None, Torn
<1>3. \A t \in Times : DOMAIN t = Digits
  BY DEF Times
<1>4. None # Torn
  BY <1>2
<1> QED BY <1>1, <1>2, <1>3, <1>4

LEMMA IncType == ASSUME NEW t \in Times PROVE Inc(t) \in Times
  BY BaseAssumption DEF Inc, Times

CallType == [pc : {"idle", "read", "write"}, p : Copies, n : 0..NBYTES, v : Times]

LEMMA IdleType == Idle \in CallType /\ Idle.v \in Times
<1>1. NoTime \in Times
  BY BaseAssumption DEF NoTime, Times
<1> QED BY <1>1, NBytesAssumption DEF Idle, CallType, Copies

LEMMA InitInv == Init => IInv
<1> SUFFICES ASSUME Init PROVE IInv
  OBVIOUS
<1>3. time \in [Copies -> Times]
  <2>1. \A r \in Copies, d \in Digits :
          (IF r = 5 THEN NBYTES-1-d ELSE 2*NBYTES-1-d) % BASE \in 0..BASE-1
    BY BaseAssumption, NBytesAssumption DEF Digits
  <2> QED BY <2>1 DEF Init, Times
<1>4. TypeOK
  BY IdleType, <1>3, MaxTicksAssumption DEF Init, TypeOK, CallType, Copies
<1>5. InStep
  BY Marks DEF Init, InStep, Idle
<1> QED BY <1>4, <1>5 DEF IInv

LEMMA NextInv == IInv /\ [Next]_vars => IInv'
<1> SUFFICES ASSUME IInv, [Next]_vars PROVE IInv'
  OBVIOUS
<1>0. TypeOK /\ InStep
  BY DEF IInv
<1>a. /\ switch \in Copies /\ Other(switch) \in Copies /\ switch # Other(switch)
      /\ Other(Other(switch)) = switch
      /\ visible \in Times /\ hidden \in Times
      /\ \A r \in Copies : time[r] \in Times
  BY <1>0 DEF TypeOK, Copies, Other, visible, hidden
<1>1. CASE Tick
  <2>1. /\ switch' = Other(switch) /\ call' = call
        /\ visible' = hidden /\ hidden' = Inc(hidden)
        /\ time' \in [Copies -> Times]
    BY <1>1, <1>0, <1>a, IncType DEF Tick, TypeOK, visible, hidden
  <2>2. predict' \in Times \cup {Unknown} /\ want' \in Times \cup {None, Torn}
    BY <1>1, <1>0, IncType DEF Tick, TypeOK
  <2>3. TypeOK'
    BY <1>1, <2>1, <2>2, <1>0, <1>a, MaxTicksAssumption DEF Tick, TypeOK
  <2>4. predict' # Unknown => predict' = visible'
    BY <1>1, <2>1, <1>0, Marks DEF Tick, InStep, TypeOK
  <2>5. /\ want' \notin Times
        /\ want' = None => hidden' = Inc(visible')
        /\ call'.pc = "write" => want' = Torn /\ predict' = Unknown
        /\ call'.pc # "idle" => ticks' # 0
    BY <1>1, <2>1, <1>0, Marks, MaxTicksAssumption DEF Tick, InStep, TypeOK
  <2>6. InStep'
    BY <2>4, <2>5, <2>1, <1>0 DEF InStep, TypeOK
  <2> QED BY <2>3, <2>6 DEF IInv
<1>2. CASE ReadBegin
  <2>1. TypeOK'
    <3>1. call' \in CallType
      BY <1>2, <1>a, IdleType DEF ReadBegin, CallType
    <3>2. shown' \subseteq Times
      BY <1>2, <1>a DEF ReadBegin, visible
    <3> QED BY <1>2, <1>0, <3>1, <3>2, MaxTicksAssumption DEF ReadBegin, TypeOK, CallType
  <2>2. InStep'
    BY <1>2, <1>0 DEF ReadBegin, InStep, Idle, visible, hidden, Digits
  <2> QED BY <2>1, <2>2 DEF IInv
<1>3. CASE ReadByte
  <2> DEFINE n == call.n
             w == [call.v EXCEPT ![n] = time[call.p][n]]
  <2>a. /\ n \in Digits /\ n + 1 \in 0..NBYTES /\ call.p \in Copies /\ call.v \in Times
        /\ time[call.p] \in Times /\ call.pc = "read"
    BY <1>3, <1>0, <1>a, NBytesAssumption DEF ReadByte, TypeOK, Digits
  <2>b. w \in Times /\ \A d \in Digits : w[d] = IF d = n THEN time[call.p][n] ELSE call.v[d]
    BY <2>a DEF Times
  <2>c. call' = [call EXCEPT !.v = w, !.n = n + 1]
    BY <1>3 DEF ReadByte
  <2> HIDE DEF w
  <2>d. call' = [pc |-> "read", p |-> call.p, n |-> n + 1, v |-> w]
    BY <2>a, <2>c, <1>0 DEF TypeOK
  <2>1. TypeOK'
    <3>1. call' \in CallType
      BY <2>a, <2>b, <2>d DEF CallType
    <3> QED BY <1>3, <1>0, <3>1 DEF ReadByte, TypeOK, CallType
  <2>2. visible' = visible /\ hidden' = hidden /\ ticks' = ticks /\ predict' = predict
        /\ want' = want /\ switch' = switch
    BY <1>3 DEF ReadByte, visible, hidden
  <2>3. ticks = 0 => /\ call.p = switch
                     /\ \A d \in Digits : d < n + 1 => w[d] = visible[d]
    BY <2>a, <2>b, <1>0 DEF InStep, visible, Digits
  <2>4. InStep'
    BY <2>2, <2>3, <2>d, <2>a, <1>0 DEF InStep
  <2> QED BY <2>1, <2>4 DEF IInv
<1>4. CASE ReadEnd
  <2>1. TypeOK'
    <3>1. call' \in CallType /\ call.v \in Times
      BY <1>4, <1>0, IdleType DEF ReadEnd, TypeOK
    <3> QED BY <1>4, <1>0, <3>1, MaxTicksAssumption DEF ReadEnd, TypeOK, CallType
  <2>2. ticks = 0 => call.v = visible
    BY <1>4, <1>0, <1>a, NBytesAssumption DEF ReadEnd, InStep, TypeOK, Times, Digits
  <2>3. InStep'
    BY <1>4, <2>2, <1>0 DEF ReadEnd, InStep, Idle, visible, hidden
  <2> QED BY <2>1, <2>3 DEF IInv
<1>5. ASSUME NEW v \in WriteValues, WriteBegin(v) PROVE IInv'
  <2>1. v \in Times
    BY WriteAssumption
  <2>2. TypeOK'
    <3>1. call' \in CallType
      BY <1>5, <2>1, <1>a, IdleType DEF WriteBegin, CallType
    <3> QED BY <1>5, <1>0, <3>1, MaxTicksAssumption DEF WriteBegin, TypeOK, CallType
  <2>3. InStep'
    BY <1>5, <1>0, Marks DEF WriteBegin, InStep, Idle, visible, hidden, Digits
  <2> QED BY <2>2, <2>3 DEF IInv
<1>6. CASE WriteByte
  <2> DEFINE n == call.n
             p == call.p
             w == [time[p] EXCEPT ![n] = call.v[n]]
  <2>a. /\ n \in Digits /\ n + 1 \in 0..NBYTES /\ p \in Copies /\ call.v \in Times
        /\ time[p] \in Times /\ call.pc = "write"
    BY <1>6, <1>0, <1>a, NBytesAssumption DEF WriteByte, TypeOK, Digits
  <2>b. w \in Times /\ \A d \in Digits : w[d] = IF d = n THEN call.v[n] ELSE time[p][d]
    BY <2>a DEF Times
  <2>c. time' = [time EXCEPT ![p] = w]
    BY <1>6 DEF WriteByte
  <2>d. call' = [pc |-> "write", p |-> p, n |-> n + 1, v |-> call.v]
    BY <1>6, <2>a, <1>0 DEF WriteByte, TypeOK
  <2> HIDE DEF w
  <2>1. TypeOK'
    <3>1. call' \in CallType
      BY <2>a, <2>d DEF CallType
    <3>2. time' \in [Copies -> Times]
      BY <2>a, <2>b, <2>c, <1>0 DEF TypeOK
    <3> QED BY <1>6, <1>0, <3>1, <3>2 DEF WriteByte, TypeOK, CallType
  <2>2. ticks' = ticks /\ predict' = predict /\ want' = want /\ switch' = switch /\ want = Torn
    BY <1>6, <2>a, <1>0 DEF WriteByte, InStep
  <2>3. ASSUME ticks = 0
        PROVE  /\ p = Other(switch) /\ visible' = visible /\ hidden' = w
               /\ \A d \in Digits : d < n + 1 => w[d] = call.v[d]
    <3>1. p = Other(switch) /\ \A d \in Digits : d < n => hidden[d] = call.v[d]
      BY <2>3, <2>a, <1>0 DEF InStep
    <3>2. visible' = visible /\ hidden' = w
      BY <3>1, <2>c, <2>2, <1>a, <1>0 DEF visible, hidden, TypeOK
    <3> QED BY <3>1, <3>2, <2>b, <2>a DEF hidden, Digits
  <2>4. predict' # Unknown => predict' = visible'
    BY <2>2, <2>3, <2>a, <1>0 DEF InStep
  <2>5. /\ call'.pc = "write" /\ call'.p = p /\ call'.n = n + 1 /\ call'.v = call.v
        /\ want' = Torn /\ want' # None /\ want' \notin Times
    BY <2>2, <2>d, Marks
  <2>6. ticks' # 0 => predict' = Unknown
    BY <2>2, <2>a, <1>0 DEF InStep
  <2>7. ticks' = 0 => /\ call'.p = Other(switch')
                      /\ \A d \in Digits : d < call'.n => hidden'[d] = call'.v[d]
    BY <2>2, <2>3, <2>5
  <2>8. InStep'
    BY <2>4, <2>5, <2>6, <2>7 DEF InStep
  <2> QED BY <2>1, <2>8 DEF IInv
<1>7. CASE WriteEnd
  <2>1. TypeOK'
    <3>1. call' \in CallType /\ call.v \in Times
      BY <1>7, <1>0, IdleType DEF WriteEnd, TypeOK
    <3> QED BY <1>7, <1>0, <3>1, MaxTicksAssumption DEF WriteEnd, TypeOK, CallType
  <2>2. ticks = 0 => call.v = hidden
    BY <1>7, <1>0, <1>a, NBytesAssumption DEF WriteEnd, InStep, TypeOK, Times, Digits
  <2>3. call'.pc = "idle" /\ visible' = visible /\ hidden' = hidden
    BY <1>7 DEF WriteEnd, Idle, visible, hidden
  <2>4. predict' # Unknown => predict' = visible'
    BY <1>7, <2>3, <1>0 DEF WriteEnd, InStep
  <2>5. want' # None /\ (want' \in Times => want' = hidden')
    BY <1>7, <2>2, <2>3, <1>0, Marks DEF WriteEnd, TypeOK
  <2>6. InStep'
    BY <2>3, <2>4, <2>5 DEF InStep
  <2> QED BY <2>1, <2>6 DEF IInv
<1>8. CASE UNCHANGED vars
  BY <1>8, <1>0 DEF vars, IInv, TypeOK, InStep, visible, hidden
<1> QED BY <1>1, <1>2, <1>3, <1>4, <1>5, <1>6, <1>7, <1>8 DEF Next

(* Every byte of the clock stays a byte and the switch is 5 or 10.         *)
THEOREM TypeCorrect == Spec => []TypeOK
  BY InitInv, NextInv, PTL DEF Spec, IInv

LEMMA QuietReads == IInv => QuietReadsCount
  BY NBytesAssumption DEF IInv, InStep, TypeOK, QuietReadsCount, visible, Times, Digits, Copies

(* Reads that no tick interrupts count the ticks between them and return   *)
(* what was last written, whatever the length and the base of the clock.   *)
THEOREM QuietReadsCorrect == Spec => []QuietReadsCount
  BY InitInv, NextInv, QuietReads, PTL DEF Spec

-----------------------------------------------------------------------------
(* The clock under the dispatcher.                                         *)

(* Where the program is decides which masks it holds: none, the one of its *)
(* call, or the one of a palette write inside that; and what they found.   *)
Depth(pc) == CASE pc = "idle" -> 0 [] pc = "palette" -> 2 [] OTHER -> 1

Nested ==
  /\ saved \in Seq(BOOLEAN) /\ Len(saved) = Depth(main.pc)
  /\ Len(saved) >= 1 => saved[1] = FALSE
  /\ Len(saved) = 2 => saved[2] = TRUE

Bracketed == masked \in BOOLEAN /\ MaskHeld /\ Nested

(* No handler runs and no clock call is in progress inside a masked call.  *)
Alone == main.pc # "idle" => serving = "none" /\ call.pc = "idle"

(* Between the two stores of vidula_set the copy is ahead of the register. *)
CopyStep == IF main.pc = "register" THEN ctl = main.n ELSE hw = ctl

(* The countdown never stands at 0, also while the program sets the ULA,   *)
(* and reaches it when the register has stood for a whole phase; only      *)
(* between vidula_set's last two stores is it that of the phase before.    *)
Countdown ==
  /\ flash \in 1..MARK /\ frames \in Nat
  /\ main.pc # "time" => flash + frames = MARK
  /\ main.pc = "time" => frames = 0

(* What is owed is exactly what is pending and what is being served.       *)
Owed == owed = (IF "T1" \in ifr THEN 1 ELSE 0) + (IF serving = "T1" THEN 1 ELSE 0)

ViaType ==
  /\ ifr \subseteq Pulsing /\ ier \subseteq {"CA1", "T2", "T1", "CA2"}
  /\ serving \in {"none"} \cup Pulsing
UlaType ==
  /\ ctl \in {0, 1} /\ hw \in {0, 1}
  /\ main \in [pc : {"idle", "copy", "register", "time", "colour", "palette"},
               n : {0, 1}, left : 0..PALWRITES]

DispatchInv ==
  /\ IInv
  /\ ViaType /\ UlaType /\ Bracketed
  /\ Alone /\ CopyStep /\ Countdown /\ Owed

-----------------------------------------------------------------------------
(* What the steps leave alone.                                             *)

LEMMA Untouched ==
  ASSUME \/ \E s \in Pulsing : Pulse(s) \/ Enter(s)
         \/ LeaveFrame \/ LeaveKey \/ LeaveOther
         \/ \E n \in {0, 1} : SetBegin(n)
         \/ ColourBegin \/ ProgramStep
  PROVE  UNCHANGED vars
  BY DEF Pulse, Enter, LeaveFrame, LeaveKey, LeaveOther, SetBegin, ColourBegin, ProgramStep,
         SetCopy, SetRegister, SetTime, PalBegin, PalEnd, ColourEnd

(* Every step of the dispatcher is a step of the clock or leaves it alone. *)
LEMMA StepsClock == [INext]_allvars => [Next]_vars
<1> SUFFICES ASSUME [INext]_allvars PROVE [Next]_vars
  OBVIOUS
<1>1. CASE LeaveTick
  BY <1>1 DEF LeaveTick, Next
<1>2. CASE ClockCall
  BY <1>2 DEF ClockCall, Next
<1>3. CASE UNCHANGED allvars
  BY <1>3 DEF allvars
<1> QED BY <1>1, <1>2, <1>3, Untouched DEF INext

(* The clock under the dispatcher is the clock of module Clock: what is    *)
(* proved of that holds here.                                              *)
THEOREM DispatcherRunsClock == ISpec => Spec
<1>1. IInit => Init
  BY DEF IInit
<1> QED BY <1>1, StepsClock, PTL DEF ISpec, Spec

(* Sequences that grow and shrink at their end.                            *)

LEMMA Pushed ==
  ASSUME NEW S, NEW s \in Seq(S), NEW m \in S
  PROVE  /\ Append(s, m) \in Seq(S) /\ Len(Append(s, m)) = Len(s) + 1
         /\ Append(s, m)[Len(s) + 1] = m
         /\ \A i \in 1..Len(s) : Append(s, m)[i] = s[i]
  OBVIOUS

LEMMA Popped ==
  ASSUME NEW S, NEW s \in Seq(S), Len(s) > 0
  PROVE  /\ SubSeq(s, 1, Len(s) - 1) \in Seq(S) /\ Len(SubSeq(s, 1, Len(s) - 1)) = Len(s) - 1
         /\ \A i \in 1..Len(s)-1 : SubSeq(s, 1, Len(s) - 1)[i] = s[i]
<1>1. 1 \in Int /\ Len(s) - 1 \in Int /\ \A i \in 1..Len(s)-1 : s[i] \in S
  OBVIOUS
<1>2. Len(s) - 1 - 1 + 1 = Len(s) - 1 /\ \A i \in 1..Len(s)-1 : 1 + i - 1 = i
  OBVIOUS
<1> QED BY <1>1, <1>2, SubSeqProperties, SMTT(30)

LEMMA Emptied == ASSUME NEW S, NEW s \in Seq(S) PROVE s # <<>> <=> Len(s) # 0
  OBVIOUS

(* interrupts_disable and its undoing, inside the masks in progress.       *)

LEMMA Free == Bracketed => (masked = FALSE <=> main.pc = "idle")
<1> SUFFICES ASSUME Bracketed PROVE masked = FALSE <=> main.pc = "idle"
  OBVIOUS
<1>1. saved \in Seq(BOOLEAN) /\ (Len(saved) = 0 <=> main.pc = "idle")
  BY DEF Bracketed, Nested, Depth
<1>2. saved = <<>> <=> main.pc = "idle"
  BY <1>1, Emptied
<1> QED BY <1>2 DEF Bracketed, MaskHeld

LEMMA Locking ==
  ASSUME Bracketed, Mask, Depth(main.pc) <= 1, Depth(main'.pc) = Depth(main.pc) + 1
  PROVE  Bracketed'
<1> DEFINE k == Len(saved)
<1>1. saved \in Seq(BOOLEAN) /\ k \in {0, 1} /\ k = Depth(main.pc) /\ masked \in BOOLEAN
  BY DEF Bracketed, Nested, Depth
<1>2. saved' = Append(saved, masked) /\ masked' = TRUE
  BY DEF Mask
<1>3. /\ saved' \in Seq(BOOLEAN) /\ Len(saved') = k + 1 /\ saved'[k + 1] = masked
      /\ \A i \in 1..k : saved'[i] = saved[i]
  BY <1>1, <1>2, Pushed
<1>4. saved' # <<>>
  BY <1>1, <1>3, Emptied
<1>5. CASE k = 0
  <2>1. masked = FALSE
    <3>1. saved = <<>>
      BY <1>1, <1>5, Emptied
    <3> QED BY <3>1 DEF Bracketed, MaskHeld
  <2>2. saved'[1] = FALSE /\ Len(saved') = 1
    BY <2>1, <1>3, <1>5
  <2>3. Nested'
    BY <2>2, <1>1, <1>3 DEF Nested
  <2> QED BY <2>3, <1>2, <1>4 DEF Bracketed, MaskHeld
<1>6. CASE k = 1
  <2>1. masked = TRUE
    <3>1. saved # <<>>
      BY <1>1, <1>6, Emptied
    <3> QED BY <3>1 DEF Bracketed, MaskHeld
  <2>2. saved'[2] = TRUE /\ saved'[1] = saved[1] /\ Len(saved') = 2
    <3>1. k + 1 = 2 /\ 1 \in 1..k
      BY <1>6
    <3>2. Len(saved') = 2 /\ saved'[2] = masked /\ saved'[1] = saved[1]
      BY <3>1, <1>3, Zenon
    <3> QED BY <3>2, <2>1, Zenon
  <2>3. saved[1] = FALSE
    BY <1>6 DEF Bracketed, Nested
  <2>4. Nested'
    BY <2>2, <2>3, <1>1, <1>3 DEF Nested
  <2> QED BY <2>4, <1>2, <1>4 DEF Bracketed, MaskHeld
<1> QED BY <1>1, <1>5, <1>6

LEMMA Unlocking ==
  ASSUME Bracketed, Unmask, Depth(main.pc) >= 1, Depth(main'.pc) = Depth(main.pc) - 1
  PROVE  Bracketed'
<1> DEFINE k == Len(saved)
<1>1. saved \in Seq(BOOLEAN) /\ k \in {1, 2} /\ k = Depth(main.pc)
  BY DEF Bracketed, Nested, Depth
<1>2. saved' = SubSeq(saved, 1, k - 1) /\ masked' = saved[k]
  BY DEF Unmask
<1>3. /\ saved' \in Seq(BOOLEAN) /\ Len(saved') = k - 1
      /\ \A i \in 1..k-1 : saved'[i] = saved[i]
  <2>1. k > 0
    BY <1>1
  <2> QED BY <2>1, <1>1, <1>2, Popped
<1>5. CASE k = 1
  <2>1. masked' = FALSE
    BY <1>2, <1>5 DEF Bracketed, Nested
  <2>2. Len(saved') = 0
    BY <1>3, <1>5
  <2>3. saved' = <<>>
    BY <2>2, <1>3, Emptied
  <2>4. Nested'
    BY <2>2, <1>1, <1>3, <1>5 DEF Nested
  <2> QED BY <2>1, <2>3, <2>4 DEF Bracketed, MaskHeld
<1>6. CASE k = 2
  <2>1. masked' = TRUE
    BY <1>2, <1>6 DEF Bracketed, Nested
  <2>2. Len(saved') = 1 /\ saved'[1] = saved[1]
    BY <1>3, <1>6
  <2>3. saved' # <<>>
    <3>1. Len(saved') # 0
      BY <2>2
    <3> QED BY <3>1, <1>3, Emptied
  <2>4. saved[1] = FALSE
    BY <1>6 DEF Bracketed, Nested
  <2>5. Nested'
    BY <2>2, <2>4, <1>1, <1>3, <1>6 DEF Nested
  <2> QED BY <2>1, <2>3, <2>5 DEF Bracketed, MaskHeld
<1> QED BY <1>1, <1>5, <1>6

LEMMA IInitInv == IInit => DispatchInv
<1> SUFFICES ASSUME IInit PROVE DispatchInv
  OBVIOUS
<1>1. IInv
  BY InitInv DEF IInit
<1>2. UlaType /\ Alone /\ CopyStep
  BY PalWritesAssumption DEF IInit, UlaType, Alone, CopyStep, NotMain
<1>4. Bracketed
  <2>1. main.pc = "idle" /\ saved = <<>> /\ masked = FALSE
    BY DEF IInit, NotMain
  <2>2. saved \in Seq(BOOLEAN)
    BY <2>1
  <2>3. Len(saved) = 0
    BY <2>1
  <2>4. Nested
    BY <2>1, <2>2, <2>3 DEF Nested, Depth
  <2> QED BY <2>1, <2>4 DEF Bracketed, MaskHeld
<1>3. ViaType /\ Countdown /\ Owed
  BY FlashAssumption DEF IInit, ViaType, Countdown, Owed
<1> QED BY <1>1, <1>2, <1>3, <1>4 DEF DispatchInv

LEMMA Holding ==
  ASSUME Bracketed, UNCHANGED mask, Depth(main'.pc) = Depth(main.pc) PROVE Bracketed'
<1>1. masked' = masked /\ saved' = saved
  BY DEF mask
<1>2. Nested'
  BY <1>1 DEF Nested, Bracketed
<1> QED BY <1>1, <1>2 DEF Bracketed, MaskHeld

LEMMA INextInv == DispatchInv /\ [INext]_allvars => DispatchInv'
<1> SUFFICES ASSUME DispatchInv, [INext]_allvars PROVE DispatchInv'
  OBVIOUS
<1>0. IInv'
  BY StepsClock, NextInv DEF DispatchInv
<1> DEFINE Rest == /\ ViaType /\ UlaType /\ Bracketed
                   /\ Alone /\ CopyStep /\ Countdown /\ Owed
<1>a. Bracketed /\ ViaType /\ UlaType /\ Alone /\ CopyStep /\ Countdown /\ Owed
  BY DEF DispatchInv
<1>b. SUFFICES Rest'
  BY <1>0 DEF DispatchInv
<1>c. ASSUME UNCHANGED <<main, mask>> PROVE Bracketed'
  BY <1>a, <1>c, Holding
<1> USE DEF ViaType
<1>1. ASSUME NEW s \in Pulsing, Pulse(s) PROVE Rest'
  <2>1. Owed'
    BY <1>1, <1>a DEF Pulse, Owed
  <2>2. UNCHANGED <<serving, ier>> /\ UNCHANGED <<vars, ula, main, mask>> /\ ViaType'
    BY <1>1, <1>a DEF Pulse
  <2>3. Bracketed'
    BY <2>2, <1>c
  <2>4. UlaType' /\ Alone' /\ CopyStep' /\ Countdown'
    BY <2>2, <1>a DEF vars, ula, UlaType, Alone, CopyStep, Countdown
  <2> QED BY <2>1, <2>2, <2>3, <2>4
<1>2. ASSUME NEW s \in Pulsing, Enter(s) PROVE Rest'
  <2>0. masked = FALSE
    BY <1>2, <1>a DEF Enter, Bracketed
  <2>1. main.pc = "idle"
    BY <2>0, <1>a, Free
  <2>2. Owed'
    BY <1>2, <1>a DEF Enter, Owed, ClearedFirst, Pending
  <2>3. UNCHANGED ier /\ UNCHANGED <<vars, ula, main, mask>> /\ ViaType'
    BY <1>2, <1>a DEF Enter
  <2>4. Bracketed'
    BY <2>3, <1>c
  <2>5. UlaType' /\ Alone' /\ CopyStep' /\ Countdown'
    BY <2>1, <2>3, <1>a DEF vars, ula, UlaType, Alone, CopyStep, Countdown
  <2> QED BY <2>2, <2>3, <2>4, <2>5
<1>3. CASE LeaveFrame
  <2>1. main.pc = "idle"
    BY <1>3, <1>a DEF LeaveFrame, Alone
  <2>2. Countdown' /\ ctl' \in {0, 1} /\ hw' \in {0, 1} /\ hw' = ctl'
    BY <1>3, <1>a, <2>1, FlashAssumption DEF LeaveFrame, Flash, Countdown, CopyStep, UlaType
  <2>3. Owed' /\ ViaType' /\ serving' = "none"
    BY <1>3, <1>a DEF LeaveFrame, Owed
  <2>4. UNCHANGED <<vars, main, mask>>
    BY <1>3 DEF LeaveFrame
  <2>5. Bracketed'
    BY <2>4, <1>c
  <2>6. UlaType' /\ Alone' /\ CopyStep'
    BY <2>1, <2>2, <2>4, <1>a DEF vars, UlaType, Alone, CopyStep
  <2> QED BY <2>2, <2>3, <2>5, <2>6
<1>4. CASE LeaveTick
  <2>1. main.pc = "idle" /\ call' = call
    BY <1>4, <1>a DEF LeaveTick, Alone, Tick
  <2>2. Owed' /\ ViaType' /\ serving' = "none"
    BY <1>4, <1>a DEF LeaveTick, Owed, ClearedFirst
  <2>3. UNCHANGED <<ula, main, mask>>
    BY <1>4 DEF LeaveTick
  <2>4. Bracketed'
    BY <2>3, <1>c
  <2>5. UlaType' /\ Alone' /\ CopyStep' /\ Countdown'
    BY <2>1, <2>2, <2>3, <1>a DEF ula, UlaType, Alone, CopyStep, Countdown
  <2> QED BY <2>2, <2>4, <2>5
<1>5. CASE LeaveKey \/ LeaveOther
  <2>1. main.pc = "idle" /\ UNCHANGED <<vars, ula, main, mask>>
    BY <1>5, <1>a DEF LeaveKey, LeaveOther, Alone
  <2>2. Owed' /\ ViaType'
    BY <1>5, <1>a DEF LeaveKey, LeaveOther, Owed
  <2>3. Bracketed'
    BY <2>1, <1>c
  <2>4. UlaType' /\ Alone' /\ CopyStep' /\ Countdown'
    BY <2>1, <1>a DEF vars, ula, UlaType, Alone, CopyStep, Countdown
  <2> QED BY <2>2, <2>3, <2>4
<1>6. ASSUME NEW n \in {0, 1}, SetBegin(n) PROVE Rest'
  <2>1. main.pc = "idle" /\ serving = "none" /\ call.pc = "idle" /\ Mask
    BY <1>6 DEF SetBegin, Running
  <2>2. main' = [pc |-> "copy", n |-> n, left |-> 0] /\ UNCHANGED <<vars, via, ula>>
    BY <1>6 DEF SetBegin
  <2>3. Depth(main.pc) = 0 /\ Depth(main'.pc) = 1
    BY <2>1, <2>2 DEF Depth
  <2>4. Bracketed'
    BY <2>1, <2>3, <1>a, Locking
  <2>5. UlaType' /\ Alone' /\ CopyStep'
    BY <2>1, <2>2, <1>a, PalWritesAssumption DEF vars, via, ula, UlaType, Alone, CopyStep
  <2> QED BY <2>1, <2>2, <2>4, <2>5, <1>a DEF via, ula, Countdown, Owed
<1>7. CASE SetCopy
  <2>1. main.pc = "copy" /\ main.n \in {0, 1}
    BY <1>7, <1>a DEF SetCopy, Running, UlaType
  <2>2. ctl' = main.n /\ main' = [main EXCEPT !.pc = "register"]
        /\ UNCHANGED <<hw, flash, frames>> /\ UNCHANGED <<vars, via, mask>>
    BY <1>7 DEF SetCopy
  <2>3. UlaType' /\ CopyStep' /\ main'.pc = "register"
    BY <2>1, <2>2, <1>a DEF UlaType, CopyStep
  <2>4. Bracketed'
    BY <2>1, <2>2, <2>3, <1>a, Holding DEF Depth
  <2> QED BY <2>1, <2>2, <2>3, <2>4, <1>a DEF vars, via, Alone, Countdown, Owed
<1>8. CASE SetRegister
  <2>1. main.pc = "register" /\ main.n \in {0, 1}
    BY <1>8, <1>a DEF SetRegister, Running, UlaType
  <2>2. hw' = main.n /\ frames' = 0 /\ main' = [main EXCEPT !.pc = "time"]
        /\ UNCHANGED <<ctl, flash>> /\ UNCHANGED <<vars, via, mask>>
    BY <1>8 DEF SetRegister
  <2>3. UlaType' /\ CopyStep' /\ main'.pc = "time"
    BY <2>1, <2>2, <1>a DEF UlaType, CopyStep
  <2>4. Bracketed'
    BY <2>1, <2>2, <2>3, <1>a, Holding DEF Depth
  <2> QED BY <2>1, <2>2, <2>3, <2>4, <1>a DEF vars, via, Alone, Countdown, Owed
<1>9. CASE SetTime
  <2>1. main.pc = "time" /\ Unmask
    BY <1>9 DEF SetTime, Running
  <2>2. flash' = MARK /\ main' = NotMain
        /\ UNCHANGED <<ctl, hw, frames>> /\ UNCHANGED <<vars, via>>
    BY <1>9 DEF SetTime
  <2>3. Depth(main.pc) = 1 /\ Depth(main'.pc) = 0
    BY <2>1, <2>2 DEF Depth, NotMain
  <2>4. Bracketed'
    BY <2>1, <2>3, <1>a, Unlocking
  <2>5. UlaType' /\ Alone' /\ CopyStep' /\ Countdown'
    BY <2>1, <2>2, <1>a, PalWritesAssumption, FlashAssumption DEF NotMain, UlaType, Alone, CopyStep, Countdown
  <2> QED BY <2>2, <2>4, <2>5, <1>a DEF via, Owed
<1>10. CASE ColourBegin
  <2>1. main.pc = "idle" /\ serving = "none" /\ call.pc = "idle" /\ Mask
    BY <1>10 DEF ColourBegin, Running
  <2>2. main' = [pc |-> "colour", n |-> 0, left |-> PALWRITES] /\ UNCHANGED <<vars, via, ula>>
    BY <1>10 DEF ColourBegin
  <2>3. Depth(main.pc) = 0 /\ Depth(main'.pc) = 1
    BY <2>1, <2>2 DEF Depth
  <2>4. Bracketed'
    BY <2>1, <2>3, <1>a, Locking
  <2>5. UlaType' /\ Alone' /\ CopyStep'
    BY <2>1, <2>2, <1>a, PalWritesAssumption DEF vars, via, ula, UlaType, Alone, CopyStep
  <2> QED BY <2>1, <2>2, <2>4, <2>5, <1>a DEF via, ula, Countdown, Owed
<1>11. CASE PalBegin
  <2>1. main.pc = "colour" /\ main.left > 0 /\ Mask
    BY <1>11 DEF PalBegin, Running
  <2>2. main' = [main EXCEPT !.pc = "palette", !.left = @ - 1] /\ UNCHANGED <<vars, via, ula>>
    BY <1>11 DEF PalBegin
  <2>3. main' = [pc |-> "palette", n |-> main.n, left |-> main.left - 1]
    BY <2>2, <1>a DEF UlaType
  <2>4. Bracketed'
    BY <2>1, <2>3, <1>a, Locking DEF Depth
  <2>5. UlaType' /\ CopyStep'
    <3>1. main.n \in {0, 1} /\ main.left - 1 \in 0..PALWRITES
      BY <2>1, <1>a, PalWritesAssumption DEF UlaType
    <3> QED BY <2>1, <2>2, <2>3, <3>1, <1>a DEF ula, UlaType, CopyStep
  <2> QED BY <2>1, <2>2, <2>3, <2>4, <2>5, <1>a DEF vars, via, ula, Alone, Countdown, Owed
<1>12. CASE PalEnd
  <2>1. main.pc = "palette" /\ Unmask
    BY <1>12 DEF PalEnd, Running
  <2>2. main' = [main EXCEPT !.pc = "colour"] /\ UNCHANGED <<vars, via, ula>>
    BY <1>12 DEF PalEnd
  <2>3. UlaType' /\ CopyStep' /\ main'.pc = "colour"
    BY <2>1, <2>2, <1>a DEF ula, UlaType, CopyStep
  <2>4. Bracketed'
    BY <2>1, <2>3, <1>a, Unlocking DEF Depth
  <2> QED BY <2>1, <2>2, <2>3, <2>4, <1>a DEF vars, via, ula, Alone, Countdown, Owed
<1>13. CASE ColourEnd
  <2>1. main.pc = "colour" /\ Unmask
    BY <1>13 DEF ColourEnd, Running
  <2>2. main' = NotMain /\ UNCHANGED <<vars, via, ula>>
    BY <1>13 DEF ColourEnd
  <2>3. Depth(main.pc) = 1 /\ Depth(main'.pc) = 0
    BY <2>1, <2>2 DEF Depth, NotMain
  <2>4. Bracketed'
    BY <2>1, <2>3, <1>a, Unlocking
  <2>5. UlaType' /\ Alone' /\ CopyStep'
    BY <2>1, <2>2, <1>a, PalWritesAssumption DEF NotMain, ula, UlaType, Alone, CopyStep
  <2> QED BY <2>1, <2>2, <2>4, <2>5, <1>a DEF NotMain, via, ula, Countdown, Owed
<1>14. CASE ClockCall
  <2>1. main.pc = "idle" /\ UNCHANGED ivars
    BY <1>14 DEF ClockCall
  <2>2. UNCHANGED <<main, mask>>
    BY <2>1 DEF ivars, mask
  <2>3. Bracketed'
    BY <2>2, <1>c
  <2> QED BY <2>1, <2>3, <1>a DEF ivars, UlaType, Alone, CopyStep, Countdown, Owed
<1>15. CASE UNCHANGED allvars
  <2>1. UNCHANGED <<main, mask>>
    BY <1>15 DEF allvars, ivars, mask
  <2>2. Bracketed'
    BY <2>1, <1>c
  <2> QED BY <1>15, <2>2, <1>a DEF allvars, vars, ivars, UlaType, Alone, CopyStep, Countdown, Owed
<1> QED BY <1>1, <1>2, <1>3, <1>4, <1>5, <1>6, <1>7, <1>8, <1>9, <1>10, <1>11, <1>12, <1>13, <1>14, <1>15
        DEF INext, ProgramStep

LEMMA Dispatched == ISpec => []DispatchInv
  BY IInitInv, INextInv, PTL DEF ISpec

-----------------------------------------------------------------------------
(* Interrupts are masked exactly while a call of the program holds a mask, *)
(* no deeper than calls nest, and the ULA's register and its copy agree    *)
(* whenever an interrupt can be taken: in every interleaving, for every    *)
(* set of sources and any length of palette writes.                        *)
THEOREM MaskCorrect == ISpec => []MaskInv
<1>1. DispatchInv => MaskInv
  <2> SUFFICES ASSUME DispatchInv PROVE MaskInv
    OBVIOUS
  <2>1. TypeOK /\ flash \in 0..MARK /\ owed \in 0..2 /\ ViaType /\ UlaType
    BY FlashAssumption DEF DispatchInv, IInv, Countdown, Owed
  <2>2. masked \in BOOLEAN /\ saved \in Seq(BOOLEAN) /\ Len(saved) <= 2 /\ MaskHeld
    BY DEF DispatchInv, Bracketed, Nested, Depth
  <2>3. CopyAgrees
    <3>1. ~masked => main.pc # "register"
      BY <2>2, Free DEF DispatchInv
    <3> QED BY <3>1 DEF CopyAgrees, DispatchInv, CopyStep
  <2> QED BY <2>1, <2>2, <2>3 DEF MaskInv, ITypeOK, ViaType, UlaType
<1> QED BY <1>1, Dispatched, PTL

(* No centisecond is lost that pulses once the one before has been taken:  *)
(* what is not yet counted is pending or being served.                     *)
THEOREM NoTickLostCorrect == ISpec => []NoTickLost
<1>1. DispatchInv => NoTickLost
  BY DEF DispatchInv, Owed, NoTickLost
<1> QED BY <1>1, Dispatched, PTL

(* A flash comes when what stands in the register has been there for a     *)
(* whole phase, neither sooner nor later, whenever the program sets the    *)
(* register and however its calls and the interrupts interleave: for every *)
(* MARK and SPC.                                                           *)
THEOREM WholePhasesCorrect == ISpec => WholePhases
<1>1. DispatchInv /\ [INext]_allvars => [PhaseStep]_allvars
  <2> SUFFICES ASSUME DispatchInv, [INext]_allvars, serving = "CA1", hw' # hw
               PROVE  frames + 1 \in {MARK, SPC}
    BY DEF PhaseStep
  <2>1. CASE LeaveFrame
    <3>1. main.pc = "idle"
      BY <2>1 DEF LeaveFrame, DispatchInv, Alone
    <3>2. flash = 1
      BY <2>1 DEF LeaveFrame, Flash
    <3> QED BY <3>1, <3>2, FlashAssumption DEF DispatchInv, Countdown
  <2>2. ASSUME NEW s \in Pulsing, Pulse(s) \/ Enter(s) PROVE FALSE
    BY <2>2 DEF Pulse, Enter, ula
  <2>3. CASE LeaveTick \/ LeaveKey \/ LeaveOther
    BY <2>3 DEF LeaveTick, LeaveKey, LeaveOther
  <2>4. CASE \/ \E n \in {0, 1} : SetBegin(n)
             \/ ColourBegin \/ ProgramStep
    BY <2>4 DEF SetBegin, ColourBegin, ProgramStep, SetCopy, SetRegister, SetTime,
                PalBegin, PalEnd, ColourEnd, Running
  <2>5. CASE ClockCall \/ UNCHANGED allvars
    BY <2>5 DEF ClockCall, allvars, ivars
  <2> QED BY <2>1, <2>2, <2>3, <2>4, <2>5 DEF INext
<1> QED BY <1>1, Dispatched, PTL DEF ISpec, WholePhases

(* Under the dispatcher, where the tick is one interrupt among several,    *)
(* reads of the clock that no tick interrupts still count the ticks        *)
(* between them.                                                           *)
THEOREM QuietReadsUnderDispatch == ISpec => []QuietReadsCount
<1>1. DispatchInv => QuietReadsCount
  BY QuietReads DEF DispatchInv
<1> QED BY <1>1, Dispatched, PTL
=============================================================================
