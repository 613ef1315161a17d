------------------------------ MODULE KeyChars ------------------------------
(***************************************************************************)
(* The character a key gives: the translation table of keyboard.c and the  *)
(* three functions that apply SHIFT and CTRL to it, as pure operators.     *)
(*                                                                         *)
(* A key is the number the matrix has for it, 16 * row + column.  A status *)
(* is the set of the bits of OSB_KEY_STATUS that are set; both lock bits   *)
(* are active low.                                                         *)
(***************************************************************************)
EXTENDS Integers, Sequences

CONSTANT TabChar      \* OSB_TAB, which the reset does not set

ASSUME TabAssumption == TabChar \in 0..255

StatusBits == {"shift_en", "ctrl", "shift_lk", "caps_lk", "shift"}

CapsLock == 64        \* KEY_CAPS_LOCK and KEY_SHIFT_LOCK without their top bit
ShiftLock == 80

(* Rows of ten characters: row r, column c of the matrix at 10 r + c + 1.  *)
KEY_TRANS_TABLE == <<
  113,  51,  52,  53, 132,  56, 135,  45,  94, 140,
  128, 119, 101, 116,  55, 105,  57,  48,  95, 142,
   49,  50, 100, 114,  54, 117, 111, 112,  91, 143,
    1,  97, 120, 102, 121, 106, 107,  64,  58,  13,
    2, 115,  99, 103, 104, 110, 108,  59,  93, 127,
    0, 122,  32, 118,  98, 109,  44,  46,  47, 139,
   27, 129, 130, 131, 133, 134, 136, 137,  92, 141 >>

KeyCodes == {16 * r + c : r \in 1..7, c \in 0..9}

(* The character on the key.                                               *)
Base(k) ==
  LET a == KEY_TRANS_TABLE[10 * (k \div 16 - 1) + (k % 16) + 1] IN
  IF a = 0 THEN TabChar ELSE a

Flip(c, bit) == IF (c \div bit) % 2 = 0 THEN c + bit ELSE c - bit

(* mos_ascii_apply_BEAAC: the exclusive ors with 0x30, 0x1F and 0x10.      *)
Beaac(c) ==
  LET x == Flip(Flip(c, 16), 32)
      y == IF x \in {111, 80} THEN Flip(Flip(Flip(Flip(Flip(x, 1), 2), 4), 8), 16) ELSE x
  IN IF y >= 33 THEN Flip(y, 16) ELSE y

ApplyShift(c) ==
  IF c \in {32, 64, 127} \/ c < 33 THEN c
  ELSE IF c < 64 \/ c > 127 THEN Flip(c, 16)
  ELSE Beaac(c)

ApplyCtrl(c) ==
  LET x == Beaac(c) IN
  IF c = 127 THEN c ELSE IF x = 96 THEN 95 ELSE IF x >= 64 THEN x % 32 ELSE x

IsAlpha(c) == c \in 65..90 \cup 97..122

(* The locks are applied to a; ss says that SHIFT is to be applied in any  *)
(* case, which it is only to what is no letter while CAPS LOCK is active.  *)
AfterCtrl(k, stat) == IF "ctrl" \in stat THEN ApplyCtrl(Base(k)) ELSE Base(k)
CapsActive(stat) == "shift_lk" \in stat /\ "caps_lk" \notin stat

(* Mutant: CAPS LOCK shifts whatever the key.                              *)
Bug_AfterLocks(k, stat) ==
  LET a == AfterCtrl(k, stat) IN
  IF "shift_lk" \notin stat \/ CapsActive(stat) THEN ApplyShift(a) ELSE a

AfterLocks(k, stat) ==
  LET a == AfterCtrl(k, stat) IN
  IF "shift_lk" \notin stat \/ (CapsActive(stat) /\ IsAlpha(a)) THEN ApplyShift(a) ELSE a

ss(k, stat) == CapsActive(stat) /\ ~IsAlpha(AfterCtrl(k, stat))

ShiftCounts(k, stat) == "shift" \in stat /\ (ss(k, stat) \/ "shift_en" \in stat)

(* The character the poll inserts, OSB_KEY_STATUS being stat.              *)
KeyChar(k, stat) ==
  IF ShiftCounts(k, stat) THEN ApplyShift(AfterLocks(k, stat)) ELSE AfterLocks(k, stat)
-----------------------------------------------------------------------------
(* What the translation of module Keyboard promises, part by part.         *)

Letter(k) == IsAlpha(Base(k))
(* The character in the upper row of the cap that has c in the lower.      *)
Upper(c) ==
  CASE c \in 97..122           -> c - 32     \* letters
    [] c \in 49..59            -> c - 16     \* 1 to 9, : and ;
    [] c \in 44..47            -> c + 16     \* , - . and /
    [] c \in 91..94            -> c + 32     \* [ \ ] and ^
    [] c = 95                  -> 96         \* _ and the pound sign
    [] c \in 128..143          -> c + 16     \* the function keys
    [] OTHER                   -> c

(* mos_ascii_apply_shift: shifting twice gives the character back, for     *)
(* every byte but '0', whose shifted form is the space that has none.      *)
ShiftUndoesItself == \A c \in (0..255) \ {48} : ApplyShift(ApplyShift(c)) = c

(* mos_ascii_apply_ctrl: a letter in either case, and the four characters  *)
(* after Z with or without SHIFT, give the control code of their column of *)
(* the ASCII table.                                                        *)
CtrlGivesControlCodes ==
  \A c \in 65..94 : ApplyCtrl(c) = c - 64 /\ ApplyCtrl(ApplyShift(c)) = c - 64

(* The locks and SHIFT between them.  SHIFT LOCK gives every key its upper *)
(* character, CAPS LOCK only the letters, unless SHIFT is held and enabled *)
(* to undo it; CAPS LOCK leaves the other keys to SHIFT; and with no lock  *)
(* on a key gives its lower one.  ('0' has no upper character; the code    *)
(* gives the space, which SHIFT does not undo.)                            *)
(* Nothing is said of SHIFT with no lock on: the caps promise the upper    *)
(* character and the code gives the lower, as it takes shift_en for SHIFT  *)
(* to count at all and a lock that goes off leaves that clear.             *)
ShiftActive(stat) == "shift_lk" \notin stat

LocksAndShift(key, stat) ==
  LET a == KeyChar(key, stat)
      lower == Base(key)
      held == "shift" \in stat
      undone == held /\ "shift_en" \in stat
      lifted(c) == IF undone THEN c ELSE Upper(c)
  IN lower # 48 =>
       /\ ShiftActive(stat) => a = lifted(lower)
       /\ CapsActive(stat) /\ Letter(key) => a = lifted(lower)
       /\ CapsActive(stat) /\ ~Letter(key) => a = IF held THEN Upper(lower) ELSE lower
       /\ ~ShiftActive(stat) /\ ~CapsActive(stat) /\ ~held => a = lower
=============================================================================
