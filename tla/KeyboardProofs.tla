--------------------------- MODULE KeyboardProofs ---------------------------
(***************************************************************************)
(* Proofs about module Keyboard: for every set of keys, every delay and    *)
(* rate of the repeat and every size of its timer.                         *)
(***************************************************************************)
EXTENDS Keyboard, TLAPS

-----------------------------------------------------------------------------
(* Codes and characters are bytes.                                         *)

LEMMA KeyFacts ==
  ASSUME NEW k \in Keys
  PROVE  /\ k \in 16..121 /\ KeyOf(k) = k /\ KeyOf(k + 128) = k
         /\ k \in Codes /\ k + 128 \in Codes /\ ~Down(k) /\ Down(k + 128)
<1>1. k \in 16..121
  BY KeysAssumption DEF KeyCodes
<1> QED BY <1>1 DEF KeyOf, Down, Codes

LEMMA CodeFacts ==
  ASSUME NEW c \in Codes
  PROVE  /\ c \in 0..255 /\ KeyOf(c) \in {0} \cup Keys
         /\ c # 0 => KeyOf(c) \in Keys /\ KeyOf(c) # 0
         /\ c = 0 => KeyOf(c) = 0
         /\ Down(c) => c # 0 /\ c = KeyOf(c) + 128
         /\ ~Down(c) => c = KeyOf(c)
<1>1. CASE c = 0
  BY <1>1 DEF KeyOf, Down
<1>2. CASE c \in Keys
  <2>1. c \in 16..121 /\ KeyOf(c) = c /\ ~Down(c)
    BY <1>2, KeyFacts
  <2> QED BY <2>1, <1>2
<1>3. ASSUME NEW k \in Keys, c = k + 128
      PROVE  c \in 0..255 /\ c # 0 /\ KeyOf(c) \in Keys /\ KeyOf(c) # 0 /\ Down(c) /\ c = KeyOf(c) + 128
  BY <1>3, KeyFacts
<1> QED BY <1>1, <1>2, <1>3 DEF Codes

(* A look at a key leaves the code that of the key.                        *)
LEMMA LookFacts ==
  ASSUME NEW c \in Codes, c # 0
  PROVE  /\ Look(c) \in Codes /\ Look(c) # 0 /\ KeyOf(Look(c)) = KeyOf(c)
         /\ Down(Look(c)) => KeyOf(c) \in down
         /\ Look(c) = c \/ ~(Down(c) /\ Down(Look(c)))
<1>1. KeyOf(c) \in Keys /\ (Down(c) => c = KeyOf(c) + 128)
  BY CodeFacts
<1>2. /\ KeyOf(c) \in 16..121 /\ KeyOf(KeyOf(c)) = KeyOf(c) /\ KeyOf(KeyOf(c) + 128) = KeyOf(c)
      /\ KeyOf(c) \in Codes /\ KeyOf(c) + 128 \in Codes /\ ~Down(KeyOf(c)) /\ Down(KeyOf(c) + 128)
  BY <1>1, KeyFacts
<1>3. CASE KeyOf(c) \in down
  BY <1>1, <1>2, <1>3 DEF Look
<1>4. CASE KeyOf(c) \notin down
  BY <1>1, <1>2, <1>4 DEF Look
<1> QED BY <1>3, <1>4

LEMMA FlipByte ==
  ASSUME NEW c \in 0..255, NEW bit \in {1, 2, 4, 8, 16, 32} PROVE Flip(c, bit) \in 0..255
<1>1. CASE bit = 1
  BY <1>1 DEF Flip
<1>2. CASE bit = 2
  BY <1>2 DEF Flip
<1>3. CASE bit = 4
  BY <1>3 DEF Flip
<1>4. CASE bit = 8
  BY <1>4 DEF Flip
<1>5. CASE bit = 16
  BY <1>5 DEF Flip
<1>6. CASE bit = 32
  BY <1>6 DEF Flip
<1> QED BY <1>1, <1>2, <1>3, <1>4, <1>5, <1>6

LEMMA ShiftByte == ASSUME NEW c \in 0..255 PROVE Beaac(c) \in 0..255 /\ ApplyShift(c) \in 0..255
<1>1. Beaac(c) \in 0..255
  <2> DEFINE x == Flip(Flip(c, 16), 32)
             y == IF x \in {111, 80} THEN Flip(Flip(Flip(Flip(Flip(x, 1), 2), 4), 8), 16) ELSE x
  <2>1. x \in 0..255
    BY FlipByte
  <2> HIDE DEF x
  <2>2. y \in 0..255
    <3> DEFINE a == Flip(x, 1)
               b == Flip(a, 2)
               c2 == Flip(b, 4)
               d == Flip(c2, 8)
    <3>1. a \in 0..255
      BY <2>1, FlipByte
    <3> HIDE DEF a
    <3>2. b \in 0..255
      BY <3>1, FlipByte
    <3> HIDE DEF b
    <3>3. c2 \in 0..255
      BY <3>2, FlipByte
    <3> HIDE DEF c2
    <3>4. d \in 0..255
      BY <3>3, FlipByte
    <3> HIDE DEF d
    <3>5. Flip(d, 16) \in 0..255
      BY <3>4, FlipByte
    <3>6. y = IF x \in {111, 80} THEN Flip(d, 16) ELSE x
      BY DEF d, c2, b, a
    <3> QED BY <2>1, <3>5, <3>6
  <2> HIDE DEF y
  <2>3. (IF y >= 33 THEN Flip(y, 16) ELSE y) \in 0..255
    BY <2>2, FlipByte
  <2> QED BY <2>3 DEF Beaac, x, y
<1>2. Flip(c, 16) \in 0..255
  BY FlipByte
<1> QED BY <1>1, <1>2 DEF ApplyShift

LEMMA CtrlByte == ASSUME NEW c \in 0..255 PROVE ApplyCtrl(c) \in 0..255
<1>1. Beaac(c) \in 0..255
  BY ShiftByte
<1> QED BY <1>1 DEF ApplyCtrl

LEMMA BaseByte == ASSUME NEW k \in KeyCodes PROVE Base(k) \in 0..255
<1>1. PICK r \in 1..7, c \in 0..9 : k = 16 * r + c
  BY DEF KeyCodes
<1>2. k \div 16 = r /\ k % 16 = c
  BY <1>1
<1>3. 10 * (k \div 16 - 1) + (k % 16) + 1 \in 1..70
  BY <1>2
<1>4. \A i \in 1..70 : KEY_TRANS_TABLE[i] \in 0..255
  BY DEF KEY_TRANS_TABLE
<1> QED BY <1>3, <1>4, TabAssumption DEF Base

(* Whatever the locks, a key gives a byte.                                 *)
LEMMA CharByte == ASSUME NEW k \in Keys, NEW s PROVE KeyChar(k, s) \in 0..255
<1>1. Base(k) \in 0..255
  BY BaseByte, KeysAssumption
<1>2. AfterCtrl(k, s) \in 0..255
  BY <1>1, CtrlByte DEF AfterCtrl
<1>3. AfterLocks(k, s) \in 0..255
  BY <1>2, ShiftByte DEF AfterLocks
<1> QED BY <1>3, ShiftByte DEF KeyChar

-----------------------------------------------------------------------------
(* The invariant.                                                          *)

(* The types, apart from the Boolean variables.                            *)
Types ==
  /\ down \subseteq Keys \cup Modifiers
  /\ KEYNUM_FIRST \in Codes /\ KEYNUM_LAST \in Codes
  /\ OSB_KEY_SEM \in {0, 255} /\ OSB_KEY_STATUS \subseteq StatusBits
  /\ AUTO_REPEAT_TIMER \in 0..TimerMod-1 /\ KEY_REPEAT_CNT \in 0..TimerMod-1
  /\ h \in [pc : Pcs, ws0 : BOOLEAN, next : {"", "pressed", "poll", "swap"}, todo : SUBSET Keys]
  /\ typed \in [key : {0} \cup Keys, char : 0..255]
  /\ confirmed \in {0} \cup Keys
Truths == t1 \in BOOLEAN /\ ca2 \in BOOLEAN /\ ca2_enabled \in BOOLEAN /\ autoscan \in BOOLEAN

(* The handler masks CA2 before it goes on; what it knows where it stands. *)
Handling ==
  /\ h.pc # "idle" => ~ca2_enabled
  /\ h.pc = "scan" /\ h.next = "pressed" => KEYNUM_FIRST = 0 /\ KEYNUM_LAST = 0
  /\ h.pc = "scan" /\ h.next = "swap" => h.todo = {}
  /\ h.pc = "first" => KEYNUM_FIRST # 0 /\ ("shift" \in OSB_KEY_STATUS <=> h.ws0)
  /\ h.pc = "second" => KEYNUM_LAST # 0 /\ Down(KEYNUM_FIRST)

Distinct == KEYNUM_FIRST # 0 => KeyOf(KEYNUM_FIRST) # KeyOf(KEYNUM_LAST)

(* The top bit of the first key is a look that found it down; the second   *)
(* has its own by the time the first has it, but for the end of the poll.  *)
Confirmed ==
  Down(KEYNUM_FIRST) =>
    confirmed = KeyOf(KEYNUM_FIRST)
    /\ (h.pc # "last" => KEYNUM_LAST = 0 \/ Down(KEYNUM_LAST))

KeyInv == Types /\ Handling /\ Attended /\ Distinct /\ Confirmed
KeyboardInv == KeyInv /\ Truths

LEMMA KeyInit == Init => KeyboardInv
<1> SUFFICES ASSUME Init PROVE KeyboardInv
  OBVIOUS
<1>4. h \in [pc : Pcs, ws0 : BOOLEAN, next : {"", "pressed", "poll", "swap"}, todo : SUBSET Keys]
  BY DEF Init, Idle, Pcs
<1>5. 0 \in 0..TimerMod-1 /\ 0 \in Codes
  BY TimerAssumption DEF Codes
<1>6. /\ down \subseteq Keys \cup Modifiers /\ OSB_KEY_STATUS \subseteq StatusBits
      /\ typed \in [key : {0} \cup Keys, char : 0..255] /\ OSB_KEY_SEM \in {0, 255}
  BY DEF Init, StatusBits, Nothing
<1>1. Types
  BY <1>4, <1>5, <1>6 DEF Init, Types
<1>7. h.pc = "idle" /\ KEYNUM_FIRST = 0 /\ KEYNUM_LAST = 0
  BY DEF Init, Idle
<1>8. Attended
  BY <1>7 DEF Init, Attended
<1>9. Handling
  BY <1>7 DEF Handling
<1>2. Distinct /\ Confirmed
  BY <1>7 DEF Distinct, Confirmed, Down
<1>3. Truths
  BY DEF Init, Truths
<1> QED BY <1>1, <1>2, <1>3, <1>8, <1>9 DEF KeyboardInv, KeyInv

LEMMA TruthsKept == Truths /\ [Next]_vars => Truths'
  BY DEF Truths, Next, Hands, Handler, vars, env, codes, timers, Press, Release, Tick, Autoscan,
         T1Irq, Ca2Irq, Housekeep, ScanOn, ScanFound, ScanNone, PollShift, PollCtrl, PollDebounce,
         PollWait, PollLock, PollCancel, PollType, PollSecond, PollLast

(* The end of a handler: the keyboard is attended again.                   *)
LEMMA Returns ==
  ASSUME KeyInv, Housekeep(KEYNUM_FIRST', KEYNUM_LAST'), ~ca2_enabled,
         KEYNUM_FIRST' \in Codes, KEYNUM_LAST' \in Codes
  PROVE  /\ h' = Idle /\ OSB_KEY_SEM' \in {0, 255} /\ Attended' /\ Handling'
         /\ h' \in [pc : Pcs, ws0 : BOOLEAN, next : {"", "pressed", "poll", "swap"}, todo : SUBSET Keys]
  BY DEF Housekeep, Attended, Handling, Idle, Pcs

-----------------------------------------------------------------------------
(* The steps, first those that leave the codes alone and do not return.    *)

LEMMA Going ==
  ASSUME KeyInv, Types', UNCHANGED codes, h.pc # "idle", h'.pc # "idle",
         UNCHANGED <<ca2_enabled>>, h'.pc # "last" => h.pc # "last",
         h'.pc = "scan" => h'.next = "swap" /\ h'.todo = {},
         h'.pc = "first" => KEYNUM_FIRST # 0 /\ ("shift" \in OSB_KEY_STATUS' <=> h'.ws0),
         h'.pc = "second" => KEYNUM_LAST # 0 /\ Down(KEYNUM_FIRST),
         confirmed' = confirmed \/ confirmed' = KeyOf(KEYNUM_FIRST)
  PROVE  KeyInv'
<1>1. Handling' /\ Attended'
  BY DEF KeyInv, Handling, Attended, codes
<1>2. Distinct' /\ Confirmed'
  BY DEF KeyInv, Distinct, Confirmed, codes
<1> QED BY <1>1, <1>2 DEF KeyInv

(* Where the handler goes.                                                 *)
LEMMA GotoFacts ==
  ASSUME Types, NEW p \in Pcs, Goto(p)
  PROVE  /\ h' \in [pc : Pcs, ws0 : BOOLEAN, next : {"", "pressed", "poll", "swap"}, todo : SUBSET Keys]
         /\ h'.pc = p /\ h'.ws0 = h.ws0
  BY DEF Types, Goto

LEMMA ScanFacts ==
  ASSUME Types, NEW from, NEW next \in {"pressed", "poll", "swap"}, StartScan(from, next)
  PROVE  /\ h' \in [pc : Pcs, ws0 : BOOLEAN, next : {"", "pressed", "poll", "swap"}, todo : SUBSET Keys]
         /\ h'.pc = "scan" /\ h'.next = next /\ h'.todo = {k \in Keys : k >= from}
<1>1. "scan" \in Pcs /\ {k \in Keys : k >= from} \in SUBSET Keys
  BY DEF Pcs
<1> QED BY <1>1 DEF Types, StartScan

LEMMA KeyStep == KeyInv /\ [Next]_vars => KeyInv'
<1> SUFFICES ASSUME KeyInv, [Next]_vars PROVE KeyInv'
  OBVIOUS
<1>a. Types /\ Handling /\ Attended /\ Distinct /\ Confirmed
  BY DEF KeyInv
<1>b. KEYNUM_FIRST \in Codes /\ KEYNUM_LAST \in Codes
      /\ (KEYNUM_FIRST # 0 => KeyOf(KEYNUM_FIRST) \in Keys /\ KeyOf(KEYNUM_FIRST) # 0)
      /\ (Down(KEYNUM_FIRST) => KEYNUM_FIRST # 0)
  BY <1>a, CodeFacts DEF Types
<1>c. /\ 1 \in 0..TimerMod-1 /\ 0 \in 0..TimerMod-1 /\ TimerNext \in 0..TimerMod-1
      /\ OSB_KEY_DELAY \in 0..TimerMod-1 /\ OSB_KEY_REPEAT \in 0..TimerMod-1
  <2>3. TimerMod \in Nat /\ TimerMod > 1
    BY TimerAssumption
  <2>4. AUTO_REPEAT_TIMER \in 0..TimerMod-1
    BY <1>a DEF Types
  <2>1. AUTO_REPEAT_TIMER - 1 \in Int /\ TimerMod \in Nat /\ TimerMod > 1
    BY <2>3, <2>4
  <2>2. (AUTO_REPEAT_TIMER - 1) % TimerMod \in 0..TimerMod-1
    BY <2>1
  <2> QED BY <2>1, <2>2, TimerAssumption DEF TimerNext
<1>d. ASSUME UNCHANGED <<codes, ca2_enabled, autoscan, OSB_KEY_SEM, OSB_KEY_STATUS, timers, h, typed, confirmed>>,
             down' \subseteq Keys \cup Modifiers
      PROVE  KeyInv'
  <2>1. Types'
    BY <1>d, <1>a DEF codes, timers, Types
  <2>2. Handling'
    BY <1>d, <1>a DEF codes, Handling
  <2>3. Attended'
    BY <1>d, <1>a DEF codes, Attended
  <2> QED BY <2>1, <2>2, <2>3, <1>d, <1>a DEF codes, KeyInv, Distinct, Confirmed
<1>1. ASSUME NEW k \in Keys \cup Modifiers, Press(k) \/ Release(k) PROVE KeyInv'
  <2>1. down \subseteq Keys \cup Modifiers /\ (down' = down \cup {k} \/ down' = down \ {k})
    BY <1>1, <1>a DEF Press, Release, Types
  <2>2. down' \subseteq Keys \cup Modifiers
    BY <2>1
  <2> QED BY <2>2, <1>1, <1>d DEF Press, Release
<1>2. CASE Tick \/ Autoscan
  BY <1>2, <1>a, <1>d DEF Tick, Autoscan, env, Types
<1>3. CASE T1Irq
  <2>1. /\ h.pc = "idle" /\ UNCHANGED <<down, codes, OSB_KEY_STATUS, timers, confirmed, autoscan>>
        /\ typed' \in [key : {0} \cup Keys, char : 0..255]
    BY <1>3 DEF T1Irq, Nothing
  <2>2. CASE OSB_KEY_SEM # 0 /\ (KEYNUM_FIRST # 0 \/ KEYNUM_LAST # 0)
    <3>1. ca2_enabled' = FALSE /\ OSB_KEY_SEM' = (OSB_KEY_SEM + 1) % 256 /\ Goto("shift")
      BY <1>3, <2>2 DEF T1Irq
    <3>2. OSB_KEY_SEM' = 0
      <4>1. OSB_KEY_SEM \in {0, 255}
        BY <1>a DEF Types
      <4> QED BY <4>1, <2>2, <3>1
    <3>3. /\ h' \in [pc : Pcs, ws0 : BOOLEAN, next : {"", "pressed", "poll", "swap"}, todo : SUBSET Keys]
          /\ h'.pc = "shift"
      <4>1. "shift" \in Pcs
        BY DEF Pcs
      <4> QED BY <4>1, <3>1, <1>a, GotoFacts
    <3>4. Types'
      BY <1>a, <2>1, <3>2, <3>3 DEF Types, codes, timers
    <3>5. Handling' /\ Attended'
      BY <3>1, <3>3 DEF Handling, Attended
    <3>6. Distinct' /\ Confirmed'
      BY <1>a, <2>1, <3>3 DEF Distinct, Confirmed, codes
    <3> QED BY <3>4, <3>5, <3>6 DEF KeyInv
  <2>3. CASE ~(OSB_KEY_SEM # 0 /\ (KEYNUM_FIRST # 0 \/ KEYNUM_LAST # 0))
    <3>1. UNCHANGED <<ca2_enabled, OSB_KEY_SEM, h>>
      BY <1>3, <2>3 DEF T1Irq
    <3>2. Types'
      BY <1>a, <2>1, <3>1 DEF Types, codes, timers
    <3>3. Handling' /\ Attended'
      BY <1>a, <2>1, <3>1 DEF Handling, Attended, codes
    <3>4. Distinct' /\ Confirmed'
      BY <1>a, <2>1, <3>1 DEF Distinct, Confirmed, codes
    <3> QED BY <3>2, <3>3, <3>4 DEF KeyInv
  <2> QED BY <2>2, <2>3
<1>4. CASE Ca2Irq
  <2>1. /\ h.pc = "idle" /\ ca2_enabled /\ UNCHANGED <<down, codes, OSB_KEY_STATUS, timers, confirmed>>
        /\ typed' \in [key : {0} \cup Keys, char : 0..255]
    BY <1>4 DEF Ca2Irq, Nothing, env
  <2>2. KEYNUM_FIRST = 0 /\ KEYNUM_LAST = 0
    BY <1>a, <2>1 DEF Attended
  <2>3. ca2_enabled' = FALSE /\ UNCHANGED OSB_KEY_SEM /\ StartScan(16, "pressed")
    BY <1>4, <2>2 DEF Ca2Irq
  <2>4. /\ h' \in [pc : Pcs, ws0 : BOOLEAN, next : {"", "pressed", "poll", "swap"}, todo : SUBSET Keys]
        /\ h'.pc = "scan" /\ h'.next = "pressed"
    BY <1>a, <2>3, ScanFacts
  <2>5. Types'
    BY <1>a, <2>1, <2>3, <2>4 DEF Types, codes, timers
  <2>6. Handling' /\ Attended'
    BY <2>1, <2>2, <2>3, <2>4 DEF Handling, Attended, codes
  <2>7. Distinct' /\ Confirmed'
    BY <2>1, <2>2 DEF Distinct, Confirmed, codes, Down
  <2> QED BY <2>5, <2>6, <2>7 DEF KeyInv
<1>5. ASSUME NEW k \in Keys, ScanOn(k) PROVE KeyInv'
  <2>1. /\ h.pc = "scan" /\ h' = [h EXCEPT !.todo = @ \ {k}]
        /\ UNCHANGED <<down, ca2_enabled, codes, OSB_KEY_SEM, OSB_KEY_STATUS, timers, typed, confirmed>>
    BY <1>5 DEF ScanOn, env
  <2>2. /\ h' \in [pc : Pcs, ws0 : BOOLEAN, next : {"", "pressed", "poll", "swap"}, todo : SUBSET Keys]
        /\ h'.pc = "scan" /\ h'.next = h.next /\ h'.todo = h.todo \ {k}
    BY <1>a, <2>1 DEF Types
  <2>3. Types'
    BY <1>a, <2>1, <2>2 DEF Types, codes, timers
  <2>4. Handling' /\ Attended'
    BY <1>a, <2>1, <2>2 DEF Handling, Attended, codes
  <2>5. Distinct' /\ Confirmed'
    BY <1>a, <2>1, <2>2 DEF Distinct, Confirmed, codes
  <2> QED BY <2>3, <2>4, <2>5 DEF KeyInv
<1>6. ASSUME NEW k \in Keys, ScanFound(k) PROVE KeyInv'
  <2>1. /\ h.pc = "scan" /\ h.next # "swap" /\ k # Skipped /\ KEYNUM_FIRST' = k
        /\ KEYNUM_LAST' = (IF h.next = "pressed" THEN KEYNUM_LAST ELSE KEYNUM_FIRST)
        /\ RepeatSoon /\ Housekeep(KEYNUM_FIRST', KEYNUM_LAST')
        /\ UNCHANGED <<down, OSB_KEY_STATUS, typed, confirmed>>
    <3>1. h.pc = "scan" /\ k \in h.todo
      BY <1>6 DEF ScanFound
    <3>2. h.next # "swap"
      BY <3>1, <1>a DEF Handling
    <3> QED BY <1>6, <3>1, <3>2 DEF ScanFound, env
  <2>2. KEYNUM_FIRST' \in Codes /\ KEYNUM_LAST' \in Codes /\ ~ca2_enabled
    BY <1>a, <1>b, <2>1, KeyFacts DEF Handling
  <2>3. /\ h' = Idle /\ OSB_KEY_SEM' \in {0, 255} /\ Attended' /\ Handling'
        /\ h' \in [pc : Pcs, ws0 : BOOLEAN, next : {"", "pressed", "poll", "swap"}, todo : SUBSET Keys]
    BY <2>1, <2>2, Returns
  <2>4. AUTO_REPEAT_TIMER' \in 0..TimerMod-1 /\ KEY_REPEAT_CNT' \in 0..TimerMod-1
    BY <2>1, <1>c DEF RepeatSoon
  <2>5. Types'
    BY <1>a, <2>1, <2>2, <2>3, <2>4 DEF Types
  <2>6. KeyOf(k) = k /\ k # 0 /\ ~Down(k)
    BY KeyFacts
  <2>7. Distinct'
    <3>1. CASE h.next = "pressed"
      <4>1. KEYNUM_LAST' = 0 /\ KeyOf(0) = 0
        BY <1>a, <2>1, <3>1 DEF Handling, KeyOf
      <4> QED BY <4>1, <2>1, <2>6 DEF Distinct
    <3>2. CASE h.next # "pressed"
      <4>1. k # KeyOf(KEYNUM_FIRST) /\ KEYNUM_LAST' = KEYNUM_FIRST
        BY <2>1, <3>2 DEF Skipped
      <4> QED BY <4>1, <2>1, <2>6 DEF Distinct
    <3> QED BY <3>1, <3>2
  <2>8. Confirmed'
    BY <2>1, <2>6 DEF Confirmed
  <2> QED BY <2>3, <2>5, <2>7, <2>8 DEF KeyInv
<1>7. CASE ScanNone
  <2>1. h.pc = "scan" /\ UNCHANGED <<down, codes, OSB_KEY_STATUS, timers, typed, confirmed>>
    BY <1>7 DEF ScanNone, env
  <2>2. CASE h.next = "swap"
    <3>1. Goto("last") /\ UNCHANGED <<ca2_enabled, OSB_KEY_SEM>> /\ "last" \in Pcs
      BY <1>7, <2>2 DEF ScanNone, Pcs
    <3>2. /\ h' \in [pc : Pcs, ws0 : BOOLEAN, next : {"", "pressed", "poll", "swap"}, todo : SUBSET Keys]
          /\ h'.pc = "last"
      BY <1>a, <3>1, GotoFacts
    <3>3. Types'
      BY <1>a, <2>1, <3>1, <3>2 DEF Types, codes, timers
    <3> QED BY <2>1, <3>1, <3>2, <3>3, Going
  <2>3. CASE h.next # "swap"
    <3>1. Housekeep(KEYNUM_FIRST', KEYNUM_LAST') /\ ~ca2_enabled
          /\ KEYNUM_FIRST' \in Codes /\ KEYNUM_LAST' \in Codes
      BY <1>7, <1>a, <1>b, <2>1, <2>3 DEF ScanNone, codes, Handling
    <3>2. /\ h' = Idle /\ OSB_KEY_SEM' \in {0, 255} /\ Attended' /\ Handling'
          /\ h' \in [pc : Pcs, ws0 : BOOLEAN, next : {"", "pressed", "poll", "swap"}, todo : SUBSET Keys]
      BY <3>1, Returns
    <3>3. Types'
      BY <1>a, <2>1, <3>2 DEF Types, codes, timers
    <3>4. Distinct' /\ Confirmed'
      BY <1>a, <2>1 DEF Distinct, Confirmed, codes
    <3> QED BY <3>2, <3>3, <3>4 DEF KeyInv
  <2> QED BY <2>2, <2>3
<1>8. CASE PollShift
  <2>1. /\ h.pc = "shift" /\ h' = [h EXCEPT !.pc = "ctrl", !.ws0 = KEY_SHIFT \in down]
        /\ UNCHANGED <<down, ca2_enabled, codes, OSB_KEY_SEM, OSB_KEY_STATUS, timers, typed, confirmed>>
    BY <1>8 DEF PollShift, env
  <2>2. /\ h' \in [pc : Pcs, ws0 : BOOLEAN, next : {"", "pressed", "poll", "swap"}, todo : SUBSET Keys]
        /\ h'.pc = "ctrl"
    <3>1. "ctrl" \in Pcs /\ (KEY_SHIFT \in down) \in BOOLEAN
      BY DEF Pcs
    <3> QED BY <1>a, <2>1, <3>1 DEF Types
  <2>3. Types'
    BY <1>a, <2>1, <2>2 DEF Types, codes, timers
  <2> QED BY <2>1, <2>2, <2>3, Going
<1>9. CASE PollCtrl
  <2> DEFINE mods == (IF h.ws0 THEN {"shift"} ELSE {}) \cup (IF KEY_CTRL \in down THEN {"ctrl"} ELSE {})
             pc == IF KEYNUM_FIRST = 0 THEN "last" ELSE "first"
  <2>1. /\ h.pc = "ctrl" /\ OSB_KEY_STATUS' = (OSB_KEY_STATUS \ {"shift", "ctrl"}) \cup mods
        /\ Goto(pc) /\ pc \in Pcs
        /\ UNCHANGED <<down, ca2_enabled, codes, OSB_KEY_SEM, timers, typed, confirmed>>
    BY <1>9 DEF PollCtrl, env, Pcs
  <2>2. /\ h' \in [pc : Pcs, ws0 : BOOLEAN, next : {"", "pressed", "poll", "swap"}, todo : SUBSET Keys]
        /\ h'.pc = pc /\ h'.ws0 = h.ws0
    BY <1>a, <2>1, GotoFacts
  <2>3. OSB_KEY_STATUS' \subseteq StatusBits
    BY <1>a, <2>1 DEF Types, StatusBits
  <2>4. "shift" \in OSB_KEY_STATUS' <=> h.ws0
    BY <2>1
  <2>5. Types'
    BY <1>a, <2>1, <2>2, <2>3 DEF Types, codes, timers
  <2> QED BY <2>1, <2>2, <2>4, <2>5, Going
<1>10. CASE PollDebounce
  <2> DEFINE kf2 == Look(KEYNUM_FIRST)
  <2>1. h.pc = "first" /\ KEYNUM_FIRST # 0
    BY <1>10, <1>a DEF PollDebounce, Handling
  <2>2. kf2 \in Codes /\ kf2 # 0 /\ KeyOf(kf2) = KeyOf(KEYNUM_FIRST) /\ KeyOf(KEYNUM_FIRST) \in Keys
    BY <1>b, <2>1, LookFacts
  <2> HIDE DEF kf2
  <2>3. /\ ~(Down(kf2) /\ kf2 = KEYNUM_FIRST) /\ confirmed' = (IF Down(kf2) THEN KeyOf(kf2) ELSE 0)
        /\ (KEYNUM_FIRST' = 0 /\ kf2 = KEYNUM_FIRST /\ RepeatSoon) \/ (KEYNUM_FIRST' = kf2 /\ UNCHANGED timers)
        /\ Goto("last") /\ UNCHANGED <<down, ca2_enabled, KEYNUM_LAST, OSB_KEY_SEM, OSB_KEY_STATUS, typed>>
    BY <1>10 DEF PollDebounce, env, kf2
  <2>4. /\ h' \in [pc : Pcs, ws0 : BOOLEAN, next : {"", "pressed", "poll", "swap"}, todo : SUBSET Keys]
        /\ h'.pc = "last"
    <3>1. "last" \in Pcs
      BY DEF Pcs
    <3> QED BY <1>a, <2>3, <3>1, GotoFacts
  <2>5. AUTO_REPEAT_TIMER' \in 0..TimerMod-1 /\ KEY_REPEAT_CNT' \in 0..TimerMod-1
    <3>1. CASE RepeatSoon
      BY <1>c, <3>1 DEF RepeatSoon
    <3>2. CASE UNCHANGED timers
      BY <1>a, <3>2 DEF Types, timers
    <3> QED BY <2>3, <3>1, <3>2
  <2>6. KEYNUM_FIRST' \in Codes /\ confirmed' \in {0} \cup Keys
    BY <2>2, <2>3 DEF Codes
  <2>7. Types'
    BY <1>a, <2>3, <2>4, <2>5, <2>6 DEF Types
  <2>8. Handling' /\ Attended'
    BY <1>a, <2>1, <2>3, <2>4 DEF Handling, Attended
  <2>9. Distinct'
    BY <1>a, <2>1, <2>2, <2>3 DEF Distinct
  <2>10. Confirmed'
    <3>1. ~Down(0)
      BY DEF Down
    <3> QED BY <2>3, <2>4, <3>1 DEF Confirmed
  <2> QED BY <2>7, <2>8, <2>9, <2>10 DEF KeyInv
<1>e. ASSUME h.pc = "first", NEW p \in {"last", "second"}, Goto(p),
             p = "second" => KEYNUM_LAST # 0 /\ Down(KEYNUM_FIRST),
             UNCHANGED <<down, ca2_enabled, codes, OSB_KEY_SEM>>, OSB_KEY_STATUS' \subseteq StatusBits,
             AUTO_REPEAT_TIMER' \in 0..TimerMod-1, KEY_REPEAT_CNT' \in 0..TimerMod-1,
             typed' \in [key : {0} \cup Keys, char : 0..255],
             confirmed' = KeyOf(KEYNUM_FIRST)
      PROVE  KeyInv'
  <2>1. p \in Pcs
    BY DEF Pcs
  <2>2. /\ h' \in [pc : Pcs, ws0 : BOOLEAN, next : {"", "pressed", "poll", "swap"}, todo : SUBSET Keys]
        /\ h'.pc = p
    BY <1>a, <1>e, <2>1, GotoFacts
  <2>3. confirmed' \in {0} \cup Keys
    BY <1>e, <1>b, CodeFacts
  <2>4. Types'
    BY <1>a, <1>e, <2>2, <2>3 DEF Types, codes
  <2> QED BY <1>e, <2>2, <2>4, Going
<1>f. OSB_KEY_STATUS \subseteq StatusBits /\ typed \in [key : {0} \cup Keys, char : 0..255]
      /\ AUTO_REPEAT_TIMER \in 0..TimerMod-1 /\ KEY_REPEAT_CNT \in 0..TimerMod-1
  BY <1>a DEF Types
<1>11. CASE PollWait
  BY <1>11, <1>c, <1>e, <1>f DEF PollWait, HeldDown, env
<1>12. CASE PollLock
  <2>1. NewLocks(KeyOf(KEYNUM_FIRST), OSB_KEY_STATUS, h.ws0) \subseteq StatusBits
    BY <1>f DEF NewLocks, Toggle, StatusBits
  <2> QED BY <2>1, <1>12, <1>c, <1>e, <1>f DEF PollLock, HeldDown, env
<1>13. CASE PollCancel
  BY <1>13, <1>c, <1>e, <1>f DEF PollCancel, HeldDown, RepeatSoon, env
<1>14. CASE PollType
  <2>1. HeldDown /\ Down(KEYNUM_FIRST) /\ h.pc = "first"
    BY <1>14 DEF PollType, HeldDown
  <2>2. KeyOf(KEYNUM_FIRST) \in Keys
    BY <1>b, <2>1
  <2>3. typed' \in [key : {0} \cup Keys, char : 0..255]
    <3>1. KeyChar(KeyOf(KEYNUM_FIRST), OSB_KEY_STATUS) \in 0..255
      BY <2>2, CharByte
    <3>2. typed' = [key |-> KeyOf(KEYNUM_FIRST), char |-> KeyChar(KeyOf(KEYNUM_FIRST), OSB_KEY_STATUS)]
      BY <1>14 DEF PollType
    <3> QED BY <2>2, <3>1, <3>2
  <2>4. AUTO_REPEAT_TIMER' \in 0..TimerMod-1 /\ KEY_REPEAT_CNT' \in 0..TimerMod-1
    BY <1>14, <1>c, <1>f DEF PollType
  <2>5. /\ UNCHANGED <<down, ca2_enabled, codes, OSB_KEY_SEM, OSB_KEY_STATUS>>
        /\ confirmed' = KeyOf(KEYNUM_FIRST) /\ Goto(IF KEYNUM_LAST # 0 THEN "second" ELSE "last")
    BY <1>14 DEF PollType, env
  <2>6. CASE KEYNUM_LAST # 0
    BY <2>1, <2>3, <2>4, <2>5, <2>6, <1>e, <1>f
  <2>7. CASE KEYNUM_LAST = 0
    BY <2>1, <2>3, <2>4, <2>5, <2>7, <1>e, <1>f
  <2> QED BY <2>6, <2>7
<1>15. CASE PollSecond
  <2>1. /\ h.pc = "second" /\ KEYNUM_LAST # 0 /\ Down(KEYNUM_FIRST) /\ Down(KEYNUM_LAST)
        /\ UNCHANGED <<down, ca2_enabled, KEYNUM_FIRST, OSB_KEY_SEM, OSB_KEY_STATUS, timers, typed, confirmed>>
    BY <1>15, <1>a DEF PollSecond, Handling, Confirmed, env
  <2>2. CASE Down(Look(KEYNUM_LAST))
    <3>1. UNCHANGED KEYNUM_LAST /\ StartScan(KEYNUM_LAST, "swap")
      BY <1>15, <2>2 DEF PollSecond
    <3>2. /\ h' \in [pc : Pcs, ws0 : BOOLEAN, next : {"", "pressed", "poll", "swap"}, todo : SUBSET Keys]
          /\ h'.pc = "scan" /\ h'.next = "swap" /\ h'.todo = {k \in Keys : k >= KEYNUM_LAST}
      BY <1>a, <3>1, ScanFacts
    <3>3. h'.todo = {}
      <4>1. KEYNUM_LAST \in 0..255 /\ KEYNUM_LAST >= 128
        BY <1>b, <2>1, CodeFacts DEF Down
      <4>2. \A k \in Keys : k \in 16..121
        BY KeyFacts
      <4>3. \A k \in Keys : ~(k >= KEYNUM_LAST)
        BY <4>1, <4>2
      <4> QED BY <4>3, <3>2
    <3>4. Types'
      BY <1>a, <2>1, <3>1, <3>2 DEF Types, timers
    <3> QED BY <2>1, <3>1, <3>2, <3>3, <3>4, Going DEF codes
  <2>3. CASE ~Down(Look(KEYNUM_LAST))
    <3>1. KEYNUM_LAST' = 0 /\ Goto("last") /\ "last" \in Pcs
      BY <1>15, <2>3 DEF PollSecond, Pcs
    <3>2. /\ h' \in [pc : Pcs, ws0 : BOOLEAN, next : {"", "pressed", "poll", "swap"}, todo : SUBSET Keys]
          /\ h'.pc = "last"
      BY <1>a, <3>1, GotoFacts
    <3>3. Types'
      BY <1>a, <2>1, <3>1, <3>2 DEF Types, timers, Codes
    <3>4. Handling' /\ Attended'
      BY <1>a, <2>1, <3>2 DEF Handling, Attended
    <3>5. Distinct'
      BY <1>b, <2>1, <3>1 DEF Distinct, KeyOf
    <3>6. Confirmed'
      BY <1>a, <2>1, <3>1, <3>2 DEF Confirmed
    <3> QED BY <3>3, <3>4, <3>5, <3>6 DEF KeyInv
  <2> QED BY <2>2, <2>3
<1>16. CASE PollLast
  <2>1. /\ h.pc = "last" /\ StartScan(16, "poll")
        /\ KEYNUM_LAST' = (IF KEYNUM_LAST # 0 /\ Down(Look(KEYNUM_LAST)) THEN Look(KEYNUM_LAST) ELSE 0)
        /\ UNCHANGED <<down, ca2_enabled, KEYNUM_FIRST, OSB_KEY_SEM, OSB_KEY_STATUS, timers, typed, confirmed>>
    BY <1>16 DEF PollLast, env
  <2>2. /\ h' \in [pc : Pcs, ws0 : BOOLEAN, next : {"", "pressed", "poll", "swap"}, todo : SUBSET Keys]
        /\ h'.pc = "scan" /\ h'.next = "poll"
    BY <1>a, <2>1, ScanFacts
  <2>3. /\ KEYNUM_LAST' \in Codes
        /\ KEYNUM_LAST' = 0 \/ Down(KEYNUM_LAST')
        /\ KEYNUM_LAST' = 0 \/ KeyOf(KEYNUM_LAST') = KeyOf(KEYNUM_LAST)
    <3>1. CASE KEYNUM_LAST # 0 /\ Down(Look(KEYNUM_LAST))
      <4>1. KEYNUM_LAST' = Look(KEYNUM_LAST)
        BY <2>1, <3>1
      <4> QED BY <4>1, <3>1, <1>b, LookFacts
    <3>2. CASE ~(KEYNUM_LAST # 0 /\ Down(Look(KEYNUM_LAST)))
      BY <2>1, <3>2 DEF Codes
    <3> QED BY <3>1, <3>2
  <2>4. Types'
    BY <1>a, <2>1, <2>2, <2>3 DEF Types, timers
  <2>5. Handling' /\ Attended'
    BY <1>a, <2>1, <2>2 DEF Handling, Attended
  <2>6. Distinct'
    BY <1>a, <1>b, <2>1, <2>3 DEF Distinct, KeyOf
  <2>7. Confirmed'
    BY <1>a, <2>1, <2>2, <2>3 DEF Confirmed
  <2> QED BY <2>4, <2>5, <2>6, <2>7 DEF KeyInv
<1>17. CASE UNCHANGED vars
  BY <1>17, <1>a, <1>d DEF vars, env, Types
<1> QED BY <1>1, <1>2, <1>3, <1>4, <1>5, <1>6, <1>7, <1>8, <1>9, <1>10, <1>11, <1>12, <1>13,
           <1>14, <1>15, <1>16, <1>17 DEF Next, Hands, Handler

(* The invariant holds in every state.                                     *)
THEOREM KeyboardCorrect == Spec => []KeyboardInv
<1>1. Truths /\ [Next]_vars => Truths'
  BY TruthsKept
<1>2. KeyInv /\ [Next]_vars => KeyInv'
  BY KeyStep
<1>3. Init => KeyInv /\ Truths
  BY KeyInit DEF KeyboardInv
<1> QED BY <1>1, <1>2, <1>3, PTL DEF Spec, KeyboardInv

(* The keyboard is never left dead: whenever no handler runs it is         *)
(* attended, by the poll if it remembers a key and else by the interrupt,  *)
(* and the two keys it remembers differ, whatever the keys did meanwhile.  *)
THEOREM AttendedCorrect == Spec => []AttendedInv
<1>1. KeyboardInv => AttendedInv
  <2> SUFFICES ASSUME KeyboardInv PROVE AttendedInv
    OBVIOUS
  <2>1. Types /\ Attended /\ Distinct /\ Truths
    BY DEF KeyboardInv, KeyInv
  <2>2. {t1, ca2, ca2_enabled, autoscan} \subseteq BOOLEAN
    BY <2>1 DEF Truths
  <2>3. TypeOK
    BY <2>1, <2>2 DEF Types, TypeOK
  <2>4. TwoKeys
    BY <2>1 DEF Distinct, TwoKeys
  <2> QED BY <2>1, <2>3, <2>4 DEF AttendedInv
<1> QED BY <1>1, KeyboardCorrect, PTL

-----------------------------------------------------------------------------
(* Debouncing: only the first key in two polls running types or locks.     *)

LEMMA HeldFacts ==
  ASSUME KeyInv, HeldDown
  PROVE  /\ KEYNUM_FIRST # 0 /\ confirmed = KeyOf(KEYNUM_FIRST) /\ KeyOf(KEYNUM_FIRST) \in down
         /\ "shift" \in OSB_KEY_STATUS <=> h.ws0
<1>1. Types /\ Handling /\ Confirmed
  BY DEF KeyInv
<1>2. h.pc = "first" /\ Down(KEYNUM_FIRST) /\ Look(KEYNUM_FIRST) = KEYNUM_FIRST
  BY DEF HeldDown
<1>3. KEYNUM_FIRST # 0 /\ KEYNUM_FIRST \in Codes /\ ("shift" \in OSB_KEY_STATUS <=> h.ws0)
  BY <1>1, <1>2 DEF Types, Handling
<1>4. confirmed = KeyOf(KEYNUM_FIRST)
  BY <1>1, <1>2 DEF Confirmed
<1>5. KeyOf(KEYNUM_FIRST) \in down
  BY <1>2, <1>3, LookFacts
<1> QED BY <1>3, <1>4, <1>5

(* A step that types a key.                                                *)
TypesKey ==
  /\ typed'.key = confirmed /\ typed'.key \in down
  /\ "shift" \in OSB_KEY_STATUS <=> h.ws0
LocksKey == confirmed \in {CapsLock, ShiftLock} \cap down

LEMMA TypedStep == KeyInv /\ [Next]_vars => (typed' # typed /\ typed'.key # 0 => TypesKey)
<1> SUFFICES ASSUME KeyInv, [Next]_vars, typed' # typed, typed'.key # 0 PROVE TypesKey
  OBVIOUS
<1>1. CASE PollType
  <2>1. typed' = [key |-> KeyOf(KEYNUM_FIRST), char |-> KeyChar(KeyOf(KEYNUM_FIRST), OSB_KEY_STATUS)]
        /\ HeldDown
    BY <1>1 DEF PollType
  <2> QED BY <2>1, HeldFacts DEF TypesKey
<1>2. CASE T1Irq \/ Ca2Irq
  BY <1>2 DEF T1Irq, Ca2Irq, Nothing
<1> QED
  BY <1>1, <1>2 DEF Next, Hands, Handler, vars, Press, Release, Tick, Autoscan, ScanOn, ScanFound,
     ScanNone, PollShift, PollCtrl, PollDebounce, PollWait, PollLock, PollCancel, PollSecond, PollLast

LEMMA LockStep == KeyInv /\ [Next]_vars => (Locks' # Locks => LocksKey)
<1> SUFFICES ASSUME KeyInv, [Next]_vars, Locks' # Locks PROVE LocksKey
  OBVIOUS
<1>1. CASE PollLock
  <2>1. HeldDown /\ KeyOf(KEYNUM_FIRST) \in {CapsLock, ShiftLock}
    BY <1>1 DEF PollLock
  <2> QED BY <2>1, HeldFacts DEF LocksKey
<1>2. CASE PollCtrl
  <2>1. OSB_KEY_STATUS' \ {"shift", "ctrl"} = OSB_KEY_STATUS \ {"shift", "ctrl"}
    BY <1>2 DEF PollCtrl
  <2> QED BY <2>1 DEF Locks
<1>3. OSB_KEY_STATUS' # OSB_KEY_STATUS
  BY DEF Locks
<1> QED
  BY <1>1, <1>2, <1>3 DEF Next, Hands, Handler, vars, Press, Release, Tick, Autoscan, T1Irq, Ca2Irq,
     ScanOn, ScanFound, ScanNone, PollShift, PollDebounce, PollWait, PollCancel, PollType,
     PollSecond, PollLast

(* A key is typed, or a lock changes, only if the key was found down as    *)
(* the first key in two polls running, and its character is shifted by the *)
(* state of SHIFT in the poll that types it.                               *)
THEOREM DebouncedCorrect == Spec => Debounced
<1> DEFINE D == /\ typed' # typed /\ typed'.key # 0 =>
                     /\ typed'.key = confirmed /\ typed'.key \in down
                     /\ "shift" \in OSB_KEY_STATUS <=> h.ws0
                /\ Locks' # Locks => confirmed \in {CapsLock, ShiftLock} \cap down
<1>1. KeyInv /\ [Next]_vars => D
  BY TypedStep, LockStep DEF TypesKey, LocksKey
<1>2. KeyInv /\ [Next]_vars => [D]_vars
  BY <1>1
<1>3. Spec => []KeyInv
  BY KeyboardCorrect, PTL DEF KeyboardInv
<1> QED BY <1>2, <1>3, PTL DEF Spec, Debounced
=============================================================================
