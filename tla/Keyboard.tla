------------------------------ MODULE Keyboard ------------------------------
(***************************************************************************)
(* The keyboard of keyboard.c: the key-pressed interrupt (System VIA CA2), *)
(* the poll of the 100Hz interrupt (T1), two-key rollover, auto-repeat and *)
(* the locks.                                                              *)
(*                                                                         *)
(* The handler runs with the interrupt masked, but the keys move while it  *)
(* runs: every look at the matrix is a step, and keys go down and up in    *)
(* between.  A code is a byte: a key, with 128 added when the last look    *)
(* found it down; 0 is no key.  The VIA, its auto-scan of the matrix and   *)
(* the timer are the environment.                                          *)
(***************************************************************************)
EXTENDS KeyChars, FiniteSets

CONSTANTS
  Keys,            \* the keys that may be pressed, SHIFT and CTRL apart
  Modifiers,       \* {KEY_SHIFT, KEY_CTRL} or less
  OSB_KEY_DELAY,   \* 30 and 2 after mos_reset
  OSB_KEY_REPEAT,
  TimerMod         \* 2^8 in the code: AUTO_REPEAT_TIMER is a uint8_t

KEY_SHIFT == 0
KEY_CTRL == 1

ASSUME KeysAssumption == Keys \subseteq KeyCodes
ASSUME ModifiersAssumption == Modifiers \subseteq {KEY_SHIFT, KEY_CTRL}
ASSUME TimerAssumption ==
  /\ TimerMod \in Nat /\ TimerMod > 1
  /\ OSB_KEY_DELAY \in 0..TimerMod-1 /\ OSB_KEY_REPEAT \in 0..TimerMod-1

VARIABLES
  down,            \* the keys held down now
  t1, ca2,         \* interrupt flags of the VIA
  ca2_enabled,     \* bit CA2 of its interrupt enable register
  autoscan,        \* the keyboard scans itself and raises CA2
  KEYNUM_FIRST, KEYNUM_LAST,
  OSB_KEY_SEM, OSB_KEY_STATUS,
  AUTO_REPEAT_TIMER, KEY_REPEAT_CNT,
  h,               \* the handler: where it is and its locals
  typed,           \* what the current handler has inserted
  confirmed        \* history: the key the last look at KEYNUM_FIRST found down

env == <<down, t1>>
codes == <<KEYNUM_FIRST, KEYNUM_LAST>>
timers == <<AUTO_REPEAT_TIMER, KEY_REPEAT_CNT>>
vars == <<env, ca2, ca2_enabled, autoscan, codes, OSB_KEY_SEM, OSB_KEY_STATUS, timers,
          h, typed, confirmed>>

Idle == [pc |-> "idle", ws0 |-> FALSE, next |-> "", todo |-> {}]
Nothing == [key |-> 0, char |-> 0]
EscapeChar == 27

Init ==
  /\ down = {} /\ t1 = FALSE /\ ca2 = FALSE /\ ca2_enabled = TRUE /\ autoscan = TRUE
  /\ KEYNUM_FIRST = 0 /\ KEYNUM_LAST = 0
  /\ OSB_KEY_SEM = 255 /\ OSB_KEY_STATUS = {"shift_lk"}
  /\ AUTO_REPEAT_TIMER = 0 /\ KEY_REPEAT_CNT = 0
  /\ h = Idle /\ typed = Nothing /\ confirmed = 0

-----------------------------------------------------------------------------
(* The environment.                                                        *)

Press(k) ==
  /\ k \notin down /\ down' = down \cup {k}
  /\ UNCHANGED <<t1, ca2, ca2_enabled, autoscan, codes, OSB_KEY_SEM, OSB_KEY_STATUS, timers,
                 h, typed, confirmed>>

Release(k) ==
  /\ k \in down /\ down' = down \ {k}
  /\ UNCHANGED <<t1, ca2, ca2_enabled, autoscan, codes, OSB_KEY_SEM, OSB_KEY_STATUS, timers,
                 h, typed, confirmed>>

Tick ==
  /\ ~t1 /\ t1' = TRUE
  /\ UNCHANGED <<down, ca2, ca2_enabled, autoscan, codes, OSB_KEY_SEM, OSB_KEY_STATUS, timers,
                 h, typed, confirmed>>

(* The auto-scan raises CA2 for every key but those of row 0.              *)
Autoscan ==
  /\ autoscan /\ down \cap Keys # {} /\ ~ca2 /\ ca2' = TRUE
  /\ UNCHANGED <<env, ca2_enabled, autoscan, codes, OSB_KEY_SEM, OSB_KEY_STATUS, timers,
                 h, typed, confirmed>>

-----------------------------------------------------------------------------
(* Codes and the parts of the handler.                                     *)

Down(c) == c >= 128
KeyOf(c) == c % 128

(* key_keyboard_scanX: the code of the same key, as it is now.             *)
Look(c) == IF KeyOf(c) \in down THEN KeyOf(c) + 128 ELSE KeyOf(c)

(* The order of key_keyboard_scan_fromXon: columns downwards, rows up.     *)
Before(j, k) == j % 16 > k % 16 \/ (j % 16 = k % 16 /\ j <= k)

(* Mutant: the housekeeping leaves the keyboard interrupt as it is.        *)
Bug_Housekeep(first, last) ==
  /\ OSB_KEY_SEM' = IF first = 0 /\ last = 0 THEN 0 ELSE 255
  /\ autoscan' = TRUE
  /\ h' = Idle
  /\ UNCHANGED ca2_enabled

(* key_EEDA_housekeep, at the end of every path of the handler.            *)
Housekeep(first, last) ==
  /\ IF first = 0 /\ last = 0
       THEN ca2_enabled' = TRUE /\ OSB_KEY_SEM' = 0
       ELSE UNCHANGED ca2_enabled /\ OSB_KEY_SEM' = 255
  /\ autoscan' = TRUE
  /\ h' = Idle

(* key_LF01F                                                               *)
RepeatSoon == AUTO_REPEAT_TIMER' = 1 /\ KEY_REPEAT_CNT' = OSB_KEY_DELAY

Goto(pc) == h' = [h EXCEPT !.pc = pc]

(* key_keyboard_scan_fromXon(0, from, ...) up to its first look.           *)
StartScan(from, next) ==
  h' = [h EXCEPT !.pc = "scan", !.next = next, !.todo = {k \in Keys : k >= from}]

-----------------------------------------------------------------------------
(* The handler is entered.  T1 is served before CA2.                       *)

(* call_KEYV_NVC is called if (KEYNUM_FIRST | KEYNUM_LAST) & OSB_KEY_SEM;  *)
(* it masks CA2 and increments the semaphore, a byte.                      *)
T1Irq ==
  /\ h.pc = "idle" /\ t1
  /\ t1' = FALSE /\ typed' = Nothing
  /\ IF OSB_KEY_SEM # 0 /\ (KEYNUM_FIRST # 0 \/ KEYNUM_LAST # 0)
       THEN /\ ca2_enabled' = FALSE
            /\ OSB_KEY_SEM' = (OSB_KEY_SEM + 1) % 256
            /\ Goto("shift")
       ELSE UNCHANGED <<ca2_enabled, OSB_KEY_SEM, h>>
  /\ UNCHANGED <<down, ca2, autoscan, codes, OSB_KEY_STATUS, timers, confirmed>>

(* call_KEYV_NV up to the scan of key_irq_keypressed.                      *)
Ca2Irq ==
  /\ h.pc = "idle" /\ ~t1 /\ ca2 /\ ca2_enabled
  /\ ca2' = FALSE /\ typed' = Nothing
  /\ IF KEYNUM_FIRST = 0
       THEN /\ ca2_enabled' = FALSE /\ autoscan' = FALSE
            /\ StartScan(16, "pressed")
            /\ UNCHANGED OSB_KEY_SEM
       ELSE Housekeep(KEYNUM_FIRST, KEYNUM_LAST)
  /\ UNCHANGED <<env, codes, OSB_KEY_STATUS, timers, confirmed>>

-----------------------------------------------------------------------------
(* The scan: one key of the matrix a step.  It passes over the key that    *)
(* the byte at Y holds, KEYNUM_LAST when a key was pressed and             *)
(* KEYNUM_FIRST in a poll.                                                 *)

(* Mutant: every scan passes over KEYNUM_LAST.                             *)
Bug_Skipped == KeyOf(KEYNUM_LAST)

Skipped == KeyOf(IF h.next = "pressed" THEN KEYNUM_LAST ELSE KEYNUM_FIRST)

Looked(k) == \A j \in h.todo : Before(k, j)

ScanOn(k) ==
  /\ h.pc = "scan" /\ k \in h.todo /\ Looked(k)
  /\ ~(k \in down /\ k # Skipped)
  /\ h' = [h EXCEPT !.todo = @ \ {k}]
  /\ ca2' = (\E j \in down \cap Keys : j % 16 = k % 16)
  /\ autoscan' = FALSE
  /\ UNCHANGED <<env, ca2_enabled, codes, OSB_KEY_SEM, OSB_KEY_STATUS, timers, typed, confirmed>>

(* A key was found: the first, or a second one that takes its place, or    *)
(* (meant to be) the one that changes places with KEYNUM_LAST.             *)
ScanFound(k) ==
  /\ h.pc = "scan" /\ k \in h.todo /\ Looked(k)
  /\ k \in down /\ k # Skipped
  /\ ca2' = TRUE
  /\ KEYNUM_FIRST' = IF h.next = "swap" THEN KEYNUM_LAST ELSE k
  /\ KEYNUM_LAST' = IF h.next = "pressed" THEN KEYNUM_LAST ELSE KEYNUM_FIRST
  /\ RepeatSoon
  /\ IF h.next = "swap"
       THEN Goto("last") /\ autoscan' = TRUE /\ UNCHANGED <<ca2_enabled, OSB_KEY_SEM>>
       ELSE Housekeep(KEYNUM_FIRST', KEYNUM_LAST')
  /\ UNCHANGED <<env, OSB_KEY_STATUS, typed, confirmed>>

(* Mutant: a scan that finds nothing returns without housekeeping.         *)
Bug_ScanNone ==
  /\ h.pc = "scan" /\ h.todo = {}
  /\ h' = Idle /\ autoscan' = TRUE
  /\ UNCHANGED <<env, ca2, ca2_enabled, codes, OSB_KEY_SEM, OSB_KEY_STATUS, timers, typed,
                 confirmed>>

ScanNone ==
  /\ h.pc = "scan" /\ h.todo = {}
  /\ IF h.next = "swap"
       THEN Goto("last") /\ autoscan' = TRUE /\ UNCHANGED <<ca2_enabled, OSB_KEY_SEM>>
       ELSE Housekeep(KEYNUM_FIRST, KEYNUM_LAST)
  /\ UNCHANGED <<env, ca2, codes, OSB_KEY_STATUS, timers, typed, confirmed>>

-----------------------------------------------------------------------------
(* The poll, call_KEYV with V and C set.                                   *)

PollShift ==
  /\ h.pc = "shift"
  /\ h' = [h EXCEPT !.pc = "ctrl", !.ws0 = KEY_SHIFT \in down]
  /\ autoscan' = FALSE
  /\ UNCHANGED <<env, ca2, ca2_enabled, codes, OSB_KEY_SEM, OSB_KEY_STATUS, timers,
                 typed, confirmed>>

(* Mutant: the modifiers of the last poll are not cleared.                 *)
Bug_PollCtrl ==
  /\ h.pc = "ctrl"
  /\ OSB_KEY_STATUS' = OSB_KEY_STATUS \cup
       ((IF h.ws0 THEN {"shift"} ELSE {}) \cup (IF KEY_CTRL \in down THEN {"ctrl"} ELSE {}))
  /\ Goto(IF KEYNUM_FIRST = 0 THEN "last" ELSE "first")
  /\ UNCHANGED <<env, ca2, ca2_enabled, autoscan, codes, OSB_KEY_SEM, timers, typed, confirmed>>

PollCtrl ==
  /\ h.pc = "ctrl"
  /\ OSB_KEY_STATUS' = (OSB_KEY_STATUS \ {"shift", "ctrl"}) \cup
       ((IF h.ws0 THEN {"shift"} ELSE {}) \cup (IF KEY_CTRL \in down THEN {"ctrl"} ELSE {}))
  /\ Goto(IF KEYNUM_FIRST = 0 THEN "last" ELSE "first")
  /\ UNCHANGED <<env, ca2, ca2_enabled, autoscan, codes, OSB_KEY_SEM, timers, typed, confirmed>>

(* The first key was seen for the first time, or is up: the two polls that *)
(* debounce it.  A key that is up loses its top bit in one poll and its    *)
(* place in the next.                                                      *)
PollDebounce ==
  LET kf2 == Look(KEYNUM_FIRST)
      same == kf2 = KEYNUM_FIRST
  IN
  /\ h.pc = "first"
  /\ ~(Down(kf2) /\ same)
  /\ confirmed' = IF Down(kf2) THEN KeyOf(kf2) ELSE 0
  /\ IF same THEN KEYNUM_FIRST' = 0 /\ RepeatSoon
             ELSE KEYNUM_FIRST' = kf2 /\ UNCHANGED timers
  /\ Goto("last")
  /\ UNCHANGED <<env, ca2, ca2_enabled, autoscan, KEYNUM_LAST, OSB_KEY_SEM, OSB_KEY_STATUS, typed>>

(* It is still down: count down to the repeat, in a byte.                  *)
HeldDown == h.pc = "first" /\ Down(KEYNUM_FIRST) /\ Look(KEYNUM_FIRST) = KEYNUM_FIRST


(* Mutant: the timer stops being a byte.                                   *)
Bug_TimerNext == AUTO_REPEAT_TIMER - 1

TimerNext == (AUTO_REPEAT_TIMER - 1) % TimerMod

PollWait ==
  /\ HeldDown /\ TimerNext # 0
  /\ AUTO_REPEAT_TIMER' = TimerNext
  /\ confirmed' = KeyOf(KEYNUM_FIRST)
  /\ Goto("last")
  /\ UNCHANGED <<env, ca2, ca2_enabled, autoscan, codes, OSB_KEY_SEM, OSB_KEY_STATUS,
                 KEY_REPEAT_CNT, typed>>

(* The locks.  CAPS LOCK with SHIFT is also "shift enabled".               *)
Toggle(S, bits) == (S \ bits) \cup (bits \ S)

NewLocks(k, stat, shift) ==
  IF k = ShiftLock THEN Toggle(stat, {"shift_en", "shift_lk"})
  ELSE LET s == stat \cup {"shift_en", "shift_lk"}
           s2 == IF shift THEN Toggle(s \cup {"caps_lk"}, {"shift_en"}) ELSE s
       IN Toggle(s2, {"shift_en", "caps_lk"})

PollLock ==
  LET k == KeyOf(KEYNUM_FIRST) IN
  /\ HeldDown /\ TimerNext = 0
  /\ k \in {CapsLock, ShiftLock}
  /\ OSB_KEY_STATUS' = NewLocks(k, OSB_KEY_STATUS, h.ws0)
  /\ AUTO_REPEAT_TIMER' = 0 /\ KEY_REPEAT_CNT' = OSB_KEY_REPEAT
  /\ confirmed' = k
  /\ Goto("last")
  /\ UNCHANGED <<env, ca2, ca2_enabled, autoscan, codes, OSB_KEY_SEM, typed>>

(* With CTRL, or with SHIFT where it counts, a second key cancels.         *)
Cancelled(k) ==
  KEYNUM_LAST # 0 /\ ("ctrl" \in OSB_KEY_STATUS \/ ShiftCounts(k, OSB_KEY_STATUS))

PollCancel ==
  LET k == KeyOf(KEYNUM_FIRST) IN
  /\ HeldDown /\ TimerNext = 0
  /\ k \notin {CapsLock, ShiftLock} /\ Cancelled(k)
  /\ RepeatSoon
  /\ confirmed' = k
  /\ Goto("last")
  /\ UNCHANGED <<env, ca2, ca2_enabled, autoscan, codes, OSB_KEY_SEM, OSB_KEY_STATUS, typed>>

(* Mutant: the character is inserted as soon as the key is seen.           *)
Bug_PollType ==
  LET k == KeyOf(Look(KEYNUM_FIRST))
      a == KeyChar(k, OSB_KEY_STATUS)
  IN
  /\ h.pc = "first" /\ Down(Look(KEYNUM_FIRST))
  /\ k \notin {CapsLock, ShiftLock} /\ ~Cancelled(k)
  /\ typed' = [key |-> k, char |-> a]
  /\ AUTO_REPEAT_TIMER' = KEY_REPEAT_CNT /\ KEY_REPEAT_CNT' = OSB_KEY_REPEAT
  /\ confirmed' = k
  /\ Goto("last")
  /\ UNCHANGED <<env, ca2, ca2_enabled, autoscan, codes, OSB_KEY_SEM, OSB_KEY_STATUS>>

(* buffers_insert_check_ESC(BUFFER_KEYBOARD_IN, a).                        *)
PollType ==
  LET k == KeyOf(KEYNUM_FIRST)
      a == KeyChar(k, OSB_KEY_STATUS)
  IN
  /\ HeldDown /\ TimerNext = 0
  /\ k \notin {CapsLock, ShiftLock} /\ ~Cancelled(k)
  /\ typed' = [key |-> k, char |-> a]
  /\ AUTO_REPEAT_TIMER' = IF a = EscapeChar THEN 0 ELSE KEY_REPEAT_CNT
  /\ KEY_REPEAT_CNT' = OSB_KEY_REPEAT
  /\ confirmed' = k
  /\ Goto(IF KEYNUM_LAST # 0 THEN "second" ELSE "last")
  /\ UNCHANGED <<env, ca2, ca2_enabled, autoscan, codes, OSB_KEY_SEM, OSB_KEY_STATUS>>

(* After an insertion: is the second key still down?  If so it is meant to *)
(* change places with the first, if a third is down; but the scan starts   *)
(* from a code that has its top bit, past the last key.                    *)
PollSecond ==
  /\ h.pc = "second"
  /\ IF Down(Look(KEYNUM_LAST))
       THEN UNCHANGED KEYNUM_LAST /\ StartScan(KEYNUM_LAST, "swap")
       ELSE KEYNUM_LAST' = 0 /\ Goto("last")
  /\ autoscan' = FALSE
  /\ UNCHANGED <<env, ca2, ca2_enabled, KEYNUM_FIRST, OSB_KEY_SEM, OSB_KEY_STATUS, timers,
                 typed, confirmed>>

(* Mutant: a second key that is up stays.                                  *)
Bug_PollKeep ==
  /\ h.pc = "last"
  /\ StartScan(16, "poll")
  /\ autoscan' = FALSE
  /\ UNCHANGED <<env, ca2, ca2_enabled, codes, OSB_KEY_SEM, OSB_KEY_STATUS, timers,
                 typed, confirmed>>

(* Mutant: no third key is looked for while there are two.                 *)
Bug_PollTwo ==
  /\ h.pc = "last"
  /\ IF KEYNUM_LAST # 0 /\ Down(Look(KEYNUM_LAST))
       THEN Housekeep(KEYNUM_FIRST, KEYNUM_LAST) /\ UNCHANGED KEYNUM_LAST
       ELSE KEYNUM_LAST' = 0 /\ StartScan(16, "poll") /\ autoscan' = FALSE
                             /\ UNCHANGED <<ca2_enabled, OSB_KEY_SEM>>
  /\ UNCHANGED <<env, ca2, KEYNUM_FIRST, OSB_KEY_STATUS, timers, typed, confirmed>>

(* _key_LEFE9: forget a second key that is up, and look for another.       *)
PollLast ==
  /\ h.pc = "last"
  /\ KEYNUM_LAST' = IF KEYNUM_LAST # 0 /\ Down(Look(KEYNUM_LAST)) THEN Look(KEYNUM_LAST) ELSE 0
  /\ StartScan(16, "poll")
  /\ autoscan' = FALSE
  /\ UNCHANGED <<env, ca2, ca2_enabled, KEYNUM_FIRST, OSB_KEY_SEM, OSB_KEY_STATUS, timers,
                 typed, confirmed>>

-----------------------------------------------------------------------------
Handler ==
  \/ \E k \in Keys : ScanOn(k) \/ ScanFound(k)
  \/ ScanNone
  \/ PollShift \/ PollCtrl \/ PollDebounce \/ PollWait \/ PollLock \/ PollCancel
  \/ PollType \/ PollSecond \/ PollLast

Hands == \E k \in Keys \cup Modifiers : Press(k) \/ Release(k)

Next == Hands \/ Tick \/ Autoscan \/ T1Irq \/ Ca2Irq \/ Handler

Spec == Init /\ [][Next]_vars

(* The timer ticks, the keyboard scans itself and the processor goes on.   *)
(* A run of the handler is far shorter than the 10ms between two ticks, so *)
(* it returns again and again with no tick pending: CA2, which yields to   *)
(* T1, is then served.                                                     *)
Fairness ==
  /\ WF_vars(Tick) /\ WF_vars(Autoscan) /\ WF_vars(T1Irq) /\ WF_vars(Handler)
  /\ SF_vars(Ca2Irq)

FairSpec == Spec /\ Fairness

-----------------------------------------------------------------------------
(* Properties.                                                             *)

Codes == {0} \cup Keys \cup {k + 128 : k \in Keys}
Pcs == {"idle", "scan", "shift", "ctrl", "first", "second", "last"}

(* Every variable has its type; the semaphore is never anything but 0 and  *)
(* 0xFF, so that "and"ing it with a key code tests for the key.            *)
TypeOK ==
  /\ down \subseteq Keys \cup Modifiers
  /\ {t1, ca2, ca2_enabled, autoscan} \subseteq BOOLEAN
  /\ KEYNUM_FIRST \in Codes /\ KEYNUM_LAST \in Codes
  /\ OSB_KEY_SEM \in {0, 255} /\ OSB_KEY_STATUS \subseteq StatusBits
  /\ AUTO_REPEAT_TIMER \in 0..TimerMod-1 /\ KEY_REPEAT_CNT \in 0..TimerMod-1
  /\ h \in [pc : Pcs, ws0 : BOOLEAN, next : {"", "pressed", "poll", "swap"}, todo : SUBSET Keys]
  /\ typed \in [key : {0} \cup Keys, char : 0..255]
  /\ confirmed \in {0} \cup Keys

(* Whatever the keys did while the handler ran, it leaves the keyboard     *)
(* attended: by the poll if it remembers a key, else by the interrupt, and *)
(* with the auto-scan running that raises it.  A handler that forgot one   *)
(* of them would leave the keyboard dead until the reset.                  *)
Attended ==
  h.pc = "idle" =>
    /\ autoscan
    /\ IF KEYNUM_FIRST = 0 /\ KEYNUM_LAST = 0 THEN ca2_enabled
                                              ELSE OSB_KEY_SEM = 255 /\ ~ca2_enabled

(* The two bytes never hold the same key, so no key is its own second.     *)
TwoKeys ==
  h.pc = "idle" /\ KEYNUM_FIRST # 0 => KeyOf(KEYNUM_FIRST) # KeyOf(KEYNUM_LAST)

(* The keyboard is attended and remembers two different keys.              *)
AttendedInv == TypeOK /\ Attended /\ TwoKeys

Locks == OSB_KEY_STATUS \ {"shift", "ctrl"}
(* A key is typed, or a lock changes, only if the key was found down as    *)
(* the first key in two polls running, after the scan that made it the     *)
(* first key: the top bit of the code debounces. Its character is shifted  *)
(* by the state of SHIFT in the poll that types it, not by that of an      *)
(* earlier one.                                                            *)
Debounced ==
  [][/\ typed' # typed /\ typed'.key # 0 =>
          /\ typed'.key = confirmed /\ typed'.key \in down
          /\ "shift" \in OSB_KEY_STATUS <=> h.ws0
     /\ Locks' # Locks => confirmed \in {CapsLock, ShiftLock} \cap down]_vars

(* Whenever the locks change, every key but '0' gives the character on its *)
(* cap that the locks and SHIFT call for, under the new locks and those    *)
(* that SHIFT LOCK would make of them; only SHIFT with no lock on, which   *)
(* does nothing in this code, is left out.  And the translations of SHIFT  *)
(* and CTRL fit every byte.                                                *)
Translated ==
  [][Locks' # Locks =>
       /\ ShiftUndoesItself
       /\ CtrlGivesControlCodes
       /\ \A key \in KeyCodes, shift \in SUBSET {"shift"},
            locks \in {Locks', NewLocks(ShiftLock, Locks', FALSE)} :
              LocksAndShift(key, locks \cup shift)]_vars

(* A key held down alone is typed, again and again, whatever was held or   *)
(* let go before.                                                          *)
Ordinary == Keys \ {CapsLock, ShiftLock}
HeldIsTyped ==
  \A k \in Ordinary : <>[](down \cap Keys = {k}) => []<>(typed.key = k)

(* Once all keys are up they are forgotten and the interrupt is armed.     *)
AllUpForgotten ==
  <>[](down \cap Keys = {}) => <>[](KEYNUM_FIRST = 0 /\ KEYNUM_LAST = 0 /\ ca2_enabled)

(* What the comment at keyboard.c:10 calls broken: while two keys stay     *)
(* down they take turns as the first key in every poll, and none is typed. *)
RolloverSilent ==
  <>[](Cardinality(down \cap Keys) = 2) => <>[](typed = Nothing)
=============================================================================
