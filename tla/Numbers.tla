------------------------------ MODULE Numbers ------------------------------
(***************************************************************************)
(* OS_READUNS, mos_read_unsigned: reads an unsigned number in a base that  *)
(* the caller, an '&' or a prefix like 2_ chooses.  Strings are sequences  *)
(* of character codes; a position counts the characters before it.         *)
(***************************************************************************)
EXTENDS Integers, Sequences

CONSTANT WORD      \* 2^32 in the code

ASSUME WordAssumption == WORD \in Nat \ {0}

Flags == {"terminator", "byte", "limit"}      \* 0x80, 0x40, 0x20

(* The character at a position; a string ends with 0.                      *)
At(s, p) == IF p < Len(s) THEN s[p + 1] ELSE 0

DigitOf(c) ==
  CASE c \in 48..57 -> c - 48          \* 0 to 9
    [] c \in 97..122 -> 10 + c - 97    \* a to z
    [] c \in 65..90 -> 10 + c - 65     \* A to Z
    [] OTHER -> 36

Digits(base) == {c \in 0..255 : DigitOf(c) < base}

(* Where the run of characters of a set that starts at p ends.             *)
RunEnd(s, p, chars) ==
  CHOOSE e \in p..Len(s) : /\ \A i \in p..e-1 : At(s, i) \in chars
                           /\ e = Len(s) \/ At(s, e) \notin chars

(* Mutant: a digit may equal the base.                                     *)
Bug_ReadInBase(s, p, base) ==
  LET e == RunEnd(s, p, Digits(base + 1))
      sum[i \in p..e] == IF i = p THEN 0 ELSE (sum[i-1] * base + DigitOf(At(s, i-1))) % WORD
  IN [ok |-> e > p, n |-> sum[e], p |-> e]

(* mos_read_number_in_base: the number, and the position after its digits. *)
ReadInBase(s, p, base) ==
  LET e == RunEnd(s, p, Digits(base))
      sum[i \in p..e] == IF i = p THEN 0 ELSE (sum[i-1] * base + DigitOf(At(s, i-1))) % WORD
  IN [ok |-> e > p, n |-> sum[e], p |-> e]

Answer(err, p, n) == [err |-> err, p |-> p, n |-> n]

TooBig(n, flags, max) == ("limit" \in flags /\ n > max) \/ ("byte" \in flags /\ n > 255)

(* The number is read and then compared with what the flags ask for.  The  *)
(* words p and n are those the call leaves behind, also with an error.     *)
Checked(s, p, base, flags, max) ==
  LET r == ReadInBase(s, p, base) IN
  CASE ~r.ok -> Answer("BadNumb", r.p, 0)
    [] r.ok /\ TooBig(r.n, flags, max) -> Answer("NumbTooBig", r.p, r.n)
    [] r.ok /\ ~TooBig(r.n, flags, max) /\ "terminator" \in flags /\ At(s, r.p) > 32 ->
         Answer("BadNumb", r.p, r.n)
    [] OTHER -> Answer("none", r.p, r.n)

ReadUnsigned(base, flags, s, max) ==
  LET start == RunEnd(s, 0, {32})
      b == ReadInBase(s, start, 10)
      prefixed == b.ok /\ At(s, b.p) = 95
      dflt == IF base \in 2..36 THEN base ELSE 10
  IN CASE At(s, start) = 38 -> Checked(s, start + 1, 16, flags, max)
       [] prefixed /\ b.n \in 2..36 -> Checked(s, b.p + 1, b.n, flags, max)
       [] prefixed /\ b.n \notin 2..36 -> Answer("BadBase", start, max)
       [] OTHER -> Checked(s, start, dflt, flags, max)

-----------------------------------------------------------------------------
(* What a numeral means, without reference to how it is read.              *)

(* The value of the digits of s in a base.                                 *)
Value(s, base) ==
  LET power[k \in 0..Len(s)] == IF k = 0 THEN 1 ELSE base * power[k-1]
      sum[k \in 0..Len(s)] == IF k = 0 THEN 0
                              ELSE sum[k-1] + DigitOf(s[k]) * power[Len(s) - k]
  IN sum[Len(s)]

InBase(s, base) == s # <<>> /\ \A i \in 1..Len(s) : DigitOf(s[i]) < base

Part(s, i, j) == SubSeq(s, i + 1, j)

(* A prefix: z spaces, and the digits of a base up to an underscore at u.  *)
Spaces(s, z) == \A k \in 1..z : s[k] = 32
Prefix(s, z, u) == Spaces(s, z) /\ InBase(Part(s, z, u), 10) /\ At(s, u) = 95

(* The numerals at the start of s when base dflt is asked for: their       *)
(* digits stand from position i to position j, in base b. The base a       *)
(* prefix names is a word, which wraps.                                    *)
Starts(s, dflt) ==
  {<<z + 1, 16>> : z \in {y \in 0..Len(s) : Spaces(s, y) /\ At(s, y) = 38}}
  \cup {<<u[2] + 1, Value(Part(s, u[1], u[2]), 10) % WORD>> :
          u \in {v \in (0..Len(s)) \X (0..Len(s)) : v[1] < v[2] /\ Prefix(s, v[1], v[2])}}
  \cup {<<z, dflt>> : z \in {y \in 0..Len(s) : Spaces(s, y) /\ ~\E u \in y..Len(s) : Prefix(s, y, u)}}

Numerals(s, dflt) ==
  {n \in {<<a[1], j, a[2]>> : a \in Starts(s, dflt), j \in 0..Len(s)} :
     /\ n[1] < n[2] /\ n[3] \in 2..36
     /\ InBase(Part(s, n[1], n[2]), n[3]) /\ DigitOf(At(s, n[2])) >= n[3]}
=============================================================================
