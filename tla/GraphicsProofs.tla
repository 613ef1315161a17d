--------------------------- MODULE GraphicsProofs ---------------------------
(***************************************************************************)
(* Proofs about modules Colours and Graphics.                              *)
(***************************************************************************)
EXTENDS Graphics, FiniteSetTheorems, TLAPS

-----------------------------------------------------------------------------
(* The tables of the modes.                                                *)

LEMMA ModeFacts ==
  ASSUME NEW m \in 0..7
  PROVE  /\ Planes(m) \in {0, 1, 2, 4} /\ (Planes(m) = 0 <=> m = 7)
         /\ PixByte(m) \in {0, 1, 3, 7}
         /\ Planes(m) = 0 => Colours(m) = 1
         /\ Planes(m) = 1 => Colours(m) = 2
         /\ Planes(m) = 2 => Colours(m) = 4
         /\ Planes(m) = 4 => Colours(m) = 16
         /\ MapType(m) = 0 <=> m \in 0..2
         /\ MapType(m) < 2 <=> m \in 0..3
         /\ MapType(m) = 0 /\ PixByte(m) = 7 <=> m = 0
<1>1. m = 0 \/ m = 1 \/ m = 2 \/ m = 3 \/ m = 4 \/ m = 5 \/ m = 6 \/ m = 7
  OBVIOUS
<1>2. Planes(m) = 0 => Colours(m) = 1
  BY DEF Colours
<1>3. Planes(m) = 1 => Colours(m) = 2
  BY DEF Colours
<1>4. Planes(m) = 2 => Colours(m) = 4
  BY DEF Colours
<1>5. Planes(m) = 4 => Colours(m) = 16
  BY DEF Colours
<1>6. Planes(m) \in {0, 1, 2, 4} /\ (Planes(m) = 0 <=> m = 7)
  BY <1>1 DEF Planes
<1>7. PixByte(m) \in {0, 1, 3, 7}
  BY <1>1 DEF PixByte
<1>8. /\ MapType(m) = 0 <=> m \in 0..2
      /\ MapType(m) < 2 <=> m \in 0..3
      /\ MapType(m) = 0 /\ PixByte(m) = 7 <=> m = 0
  BY <1>1 DEF MapType, PixByte
<1> QED BY <1>2, <1>3, <1>4, <1>5, <1>6, <1>7, <1>8

LEMMA Powers == 2^0 = 1 /\ 2^1 = 2 /\ 2^2 = 4 /\ 2^3 = 8 /\ 2^4 = 16
  OBVIOUS

(* The bits of the colours.                                                *)
LEMMA Bits ==
  /\ \A n \in Nat : BitOf(n, 0) <=> n % 2 = 1
  /\ \A n \in Nat : BitOf(n, 1) <=> (n \div 2) % 2 = 1
  /\ \A n \in Nat : BitOf(n, 2) <=> (n \div 4) % 2 = 1
  /\ \A n \in Nat : BitOf(n, 3) <=> (n \div 8) % 2 = 1
  /\ \A n \in Nat : BitOf(n, 4) <=> (n \div 16) % 2 = 1
<1>1. \A n \in Nat : BitOf(n, 0) <=> n % 2 = 1
  BY DEF BitOf
<1>2. \A n \in Nat : BitOf(n, 1) <=> (n \div 2) % 2 = 1
  BY DEF BitOf
<1>3. \A n \in Nat : BitOf(n, 2) <=> (n \div 4) % 2 = 1
  BY DEF BitOf
<1>4. \A n \in Nat : BitOf(n, 3) <=> (n \div 8) % 2 = 1
  BY DEF BitOf
<1>5. \A n \in Nat : BitOf(n, 4) <=> (n \div 16) % 2 = 1
  BY DEF BitOf
<1> QED BY <1>1, <1>2, <1>3, <1>4, <1>5

LEMMA BitsOfWhite ==
  /\ \A j \in 0..3 : ~BitOf(0, j)
  /\ BitOf(1, 0) /\ BitOf(3, 0) /\ BitOf(3, 1)
  /\ BitOf(7, 0) /\ BitOf(7, 1) /\ BitOf(7, 2) /\ ~BitOf(7, 3)
<1>1. ~BitOf(0, 0) /\ ~BitOf(0, 1) /\ ~BitOf(0, 2) /\ ~BitOf(0, 3)
  BY Bits
<1>2. \A j \in 0..3 : j = 0 \/ j = 1 \/ j = 2 \/ j = 3
  OBVIOUS
<1>3. \A j \in 0..3 : ~BitOf(0, j)
  BY <1>1, <1>2
<1>4. BitOf(1, 0) /\ BitOf(3, 0) /\ BitOf(3, 1)
  BY Bits
<1>5. BitOf(7, 0) /\ BitOf(7, 1) /\ BitOf(7, 2) /\ ~BitOf(7, 3)
  BY Bits
<1> QED BY <1>3, <1>4, <1>5

(* The pattern of a colour.                                                *)
LEMMA PatternIs ==
  ASSUME NEW m \in 0..7, Planes(m) # 0, NEW c \in 0..(Colours(m) - 1)
  PROVE  Pattern(m, c) = {i \in Byte : BitOf(c, i \div PerByte(m))}
<1>1. CASE Planes(m) = 1
  BY <1>1, ModeFacts, Powers DEF Pattern, Table, PerByte
<1>2. CASE Planes(m) = 2
  BY <1>2, ModeFacts, Powers DEF Pattern, Table, PerByte
<1>4. CASE Planes(m) = 4
  BY <1>4, ModeFacts, Powers DEF Pattern, Table, PerByte
<1> QED BY <1>1, <1>2, <1>4, ModeFacts

LEMMA PatternInByte ==
  ASSUME NEW m \in 0..7, Planes(m) # 0, NEW c \in 0..(Colours(m) - 1)
  PROVE  Pattern(m, c) \subseteq Byte
  BY PatternIs

(* Colour 0 has no bit, white has all of them, or those of colour 7.       *)
White(m) == IF Planes(m) = 4 THEN 7 ELSE Colours(m) - 1

LEMMA PatternOfWhite ==
  ASSUME NEW m \in 0..7, Planes(m) # 0
  PROVE  /\ White(m) \in 0..(Colours(m) - 1) /\ 0 \in 0..(Colours(m) - 1)
         /\ Pattern(m, 0) = {}
         /\ Pattern(m, White(m)) = IF Planes(m) = 4 THEN 0..5 ELSE Byte
<1>1. CASE Planes(m) = 1
  <2>1. PerByte(m) = 8 /\ White(m) = 1 /\ Colours(m) = 2
    BY <1>1, ModeFacts DEF PerByte, White
  <2>2. \A i \in Byte : i \div 8 = 0
    BY DEF Byte
  <2>3. \A i \in Byte : ~BitOf(0, i \div 8) /\ BitOf(1, i \div 8)
    BY <2>2, BitsOfWhite
  <2>4. Pattern(m, 0) = {i \in Byte : BitOf(0, i \div 8)} /\ Pattern(m, 1) = {i \in Byte : BitOf(1, i \div 8)}
    BY <2>1, <1>1, PatternIs
  <2>5. Pattern(m, 0) = {} /\ Pattern(m, 1) = Byte
    BY <2>3, <2>4
  <2> QED BY <2>1, <2>5, <1>1
<1>2. CASE Planes(m) = 2
  <2>1. PerByte(m) = 4 /\ White(m) = 3 /\ Colours(m) = 4
    BY <1>2, ModeFacts DEF PerByte, White
  <2>2. \A i \in Byte : i \div 4 = 0 \/ i \div 4 = 1
    BY DEF Byte
  <2>3. \A i \in Byte : ~BitOf(0, i \div 4) /\ BitOf(3, i \div 4)
    BY <2>2, BitsOfWhite
  <2>4. Pattern(m, 0) = {i \in Byte : BitOf(0, i \div 4)} /\ Pattern(m, 3) = {i \in Byte : BitOf(3, i \div 4)}
    BY <2>1, <1>2, PatternIs
  <2>5. Pattern(m, 0) = {} /\ Pattern(m, 3) = Byte
    BY <2>3, <2>4
  <2> QED BY <2>1, <2>5, <1>2
<1>4. CASE Planes(m) = 4
  <2>1. PerByte(m) = 2 /\ White(m) = 7 /\ Colours(m) = 16
    BY <1>4, ModeFacts DEF PerByte, White
  <2>2. \A i \in Byte : \/ i \in 0..5 /\ (i \div 2 = 0 \/ i \div 2 = 1 \/ i \div 2 = 2)
                        \/ i \notin 0..5 /\ i \div 2 = 3
    BY DEF Byte
  <2>3. \A i \in Byte : ~BitOf(0, i \div 2) /\ (BitOf(7, i \div 2) <=> i \in 0..5)
    BY <2>2, BitsOfWhite
  <2>4. 0..5 \subseteq Byte
    BY DEF Byte
  <2>5. Pattern(m, 0) = {i \in Byte : BitOf(0, i \div 2)} /\ Pattern(m, 7) = {i \in Byte : BitOf(7, i \div 2)}
    BY <2>1, <1>4, PatternIs
  <2>6. Pattern(m, 0) = {} /\ Pattern(m, 7) = 0..5
    BY <2>3, <2>4, <2>5
  <2> QED BY <2>1, <2>6, <1>4
<1> QED BY <1>1, <1>2, <1>4, ModeFacts

-----------------------------------------------------------------------------
(* The palette: pal_write finds the registers that the ULA looks up.       *)
Logical(m) == 0..(Colours(m) - 1)

LEMMA OneLooksUp ==
  ASSUME NEW m, Planes(m) = 1, NEW l \in Nat, NEW i \in 0..15
  PROVE  i \in LooksUp(m, l) <=> ((i \div 8) % 2 = 1 <=> l % 2 = 1)
BY DEF LooksUp, BitOf

LEMMA TwoLookUp ==
  ASSUME NEW m, Planes(m) = 2, NEW l \in Nat, NEW i \in 0..15
  PROVE  i \in LooksUp(m, l) <=> /\ (i \div 8) % 2 = 1 <=> (l \div 2) % 2 = 1
                                 /\ (i \div 2) % 2 = 1 <=> l % 2 = 1
BY DEF LooksUp, BitOf

LEMMA FourLookUp ==
  ASSUME NEW m, Planes(m) = 4, NEW l, NEW i \in 0..15
  PROVE  i \in LooksUp(m, l) <=> i = l
BY DEF LooksUp

LEMMA LooksUpInRange == ASSUME NEW m, NEW l PROVE LooksUp(m, l) \subseteq 0..15
  BY DEF LooksUp

LEMMA RegistersLookedUp ==
  ASSUME NEW m \in 0..7, Planes(m) # 0, NEW l \in Logical(m)
  PROVE  Registers(m, l) = LooksUp(m, l)
<1>1. CASE Planes(m) = 1
  <2>1. l = 0 \/ l = 1
    BY <1>1, ModeFacts DEF Logical
  <2>2. Registers(m, l) = (l * 8)..(l * 8 + 7)
    BY <1>1, Powers DEF Registers
  <2>3. \A i \in 0..15 : i \in LooksUp(m, l) <=> ((i \div 8) % 2 = 1 <=> l % 2 = 1)
    <3> SUFFICES ASSUME NEW i \in 0..15 PROVE i \in LooksUp(m, l) <=> ((i \div 8) % 2 = 1 <=> l % 2 = 1)
      OBVIOUS
    <3>1. l \in Nat
      BY <2>1
    <3> QED BY <1>1, <3>1, OneLooksUp
  <2>4. \A i \in 0..15 : i \in (l * 8)..(l * 8 + 7) <=> ((i \div 8) % 2 = 1 <=> l % 2 = 1)
    BY <2>1
  <2>5. (l * 8)..(l * 8 + 7) \subseteq 0..15
    BY <2>1
  <2> QED BY <2>2, <2>3, <2>4, <2>5, LooksUpInRange
<1>2. CASE Planes(m) = 2
  <2>1. l = 0 \/ l = 1 \/ l = 2 \/ l = 3
    BY <1>2, ModeFacts DEF Logical
  <2> DEFINE R == CASE l = 0 -> {0, 1, 4, 5} [] l = 1 -> {2, 3, 6, 7}
                    [] l = 2 -> {8, 9, 12, 13} [] l = 3 -> {10, 11, 14, 15}
  <2>2. Registers(m, l) = R
    <3> DEFINE Swapped(i) == CASE (i \div 2) % 4 = 1 -> i + 2 [] (i \div 2) % 4 = 2 -> i - 2 [] OTHER -> i
    <3>1. Registers(m, l) = {Swapped(i) : i \in (l * 4)..(l * 4 + 3)}
      BY <1>2, Powers DEF Registers
    <3>2. CASE l = 0
      BY <3>1, <3>2
    <3>3. CASE l = 1
      BY <3>1, <3>3
    <3>4. CASE l = 2
      BY <3>1, <3>4
    <3>5. CASE l = 3
      BY <3>1, <3>5
    <3> QED BY <3>2, <3>3, <3>4, <3>5, <2>1
  <2>3. \A i \in 0..15 : i \in LooksUp(m, l) <=> /\ (i \div 8) % 2 = 1 <=> (l \div 2) % 2 = 1
                                                 /\ (i \div 2) % 2 = 1 <=> l % 2 = 1
    <3> SUFFICES ASSUME NEW i \in 0..15
                 PROVE  i \in LooksUp(m, l) <=> /\ (i \div 8) % 2 = 1 <=> (l \div 2) % 2 = 1
                                                /\ (i \div 2) % 2 = 1 <=> l % 2 = 1
      OBVIOUS
    <3>1. l \in Nat
      BY <2>1
    <3> QED BY <1>2, <3>1, TwoLookUp
  <2>4. \A i \in 0..15 : i \in R <=> /\ (i \div 8) % 2 = 1 <=> (l \div 2) % 2 = 1
                                     /\ (i \div 2) % 2 = 1 <=> l % 2 = 1
    <3>1. \A i \in 0..15 : /\ (i \div 8) % 2 = 1 <=> i \in {8, 9, 10, 11, 12, 13, 14, 15}
                           /\ (i \div 2) % 2 = 1 <=> i \in {2, 3, 6, 7, 10, 11, 14, 15}
      OBVIOUS
    <3> QED BY <2>1, <3>1
  <2>5. R \subseteq 0..15
    BY <2>1
  <2> QED BY <2>2, <2>3, <2>4, <2>5, LooksUpInRange
<1>4. CASE Planes(m) = 4
  <2>1. l \in 0..15
    BY <1>4, ModeFacts DEF Logical
  <2>2. Registers(m, l) = {l}
    BY <1>4, <2>1, Powers DEF Registers
  <2>3. LooksUp(m, l) = {i \in 0..15 : i = l}
    BY <1>4 DEF LooksUp
  <2> QED BY <2>1, <2>2, <2>3
<1> QED BY <1>1, <1>2, <1>4, ModeFacts

(* Each register is looked up for one colour.                              *)
LEMMA RegisterHasColour ==
  ASSUME NEW m \in 0..7, Planes(m) # 0, NEW i \in 0..15
  PROVE  \E l \in Logical(m) : i \in LooksUp(m, l) /\ \A k \in Logical(m) : i \in LooksUp(m, k) => k = l
<1>1. CASE Planes(m) = 1
  <2>1. Logical(m) = {0, 1}
    BY <1>1, ModeFacts DEF Logical
  <2>2. \A l \in Logical(m) : i \in LooksUp(m, l) <=> ((i \div 8) % 2 = 1 <=> l % 2 = 1)
    <3> SUFFICES ASSUME NEW l \in Logical(m) PROVE i \in LooksUp(m, l) <=> ((i \div 8) % 2 = 1 <=> l % 2 = 1)
      OBVIOUS
    <3>1. l \in Nat
      BY <2>1
    <3> QED BY <1>1, <3>1, OneLooksUp
  <2> QED BY <2>1, <2>2
<1>2. CASE Planes(m) = 2
  <2>1. Logical(m) = {0, 1, 2, 3}
    BY <1>2, ModeFacts DEF Logical
  <2>2. \A l \in Logical(m) : i \in LooksUp(m, l) <=> /\ (i \div 8) % 2 = 1 <=> (l \div 2) % 2 = 1
                                                      /\ (i \div 2) % 2 = 1 <=> l % 2 = 1
    <3> SUFFICES ASSUME NEW l \in Logical(m)
                 PROVE  i \in LooksUp(m, l) <=> /\ (i \div 8) % 2 = 1 <=> (l \div 2) % 2 = 1
                                                /\ (i \div 2) % 2 = 1 <=> l % 2 = 1
      OBVIOUS
    <3>1. l \in Nat
      BY <2>1
    <3> QED BY <1>2, <3>1, TwoLookUp
  <2> QED BY <2>1, <2>2
<1>4. CASE Planes(m) = 4
  <2>1. Logical(m) = 0..15
    BY <1>4, ModeFacts DEF Logical
  <2>2. \A l \in Logical(m) : i \in LooksUp(m, l) <=> i = l
    BY <1>4, FourLookUp
  <2> QED BY <2>1, <2>2
<1> QED BY <1>1, <1>2, <1>4, ModeFacts

-----------------------------------------------------------------------------
(* The masks.                                                              *)

LEMMA PixMaskInByte ==
  ASSUME NEW m \in 0..7, Planes(m) # 0, NEW k \in Columns(m)
  PROVE  PixMask(m, k) \subseteq Byte
<1>1. CASE Planes(m) = 1
  BY <1>1 DEF PixMask, Columns, PerByte, Byte
<1>2. CASE Planes(m) = 2
  BY <1>2 DEF PixMask, Columns, PerByte, Byte
<1>4. CASE Planes(m) = 4
  BY <1>4 DEF PixMask, Columns, PerByte, Byte
<1> QED BY <1>1, <1>2, <1>4, ModeFacts

(* The two masks of a text colour show both colours.                       *)
LEMMA GlyphShown ==
  ASSUME NEW f \in SUBSET Byte, NEW b \in SUBSET Byte, NEW g \in SUBSET Byte
  PROVE  Xor(g \cup Xor(Not(f), b), Not(f)) = (f \cap g) \cup (b \ g)
  BY DEF Xor, Not

(* The two masks of a graphics colour do its operation.                    *)
LEMMA OperationDone ==
  ASSUME NEW k \in 0..5, NEW c \in SUBSET Byte, NEW p \in SUBSET Byte, NEW m \in SUBSET Byte
  PROVE  Point(p, m, Masks(c, k)) = (Combined(k, c, p) \cap m) \cup (p \ m)
<1> DEFINE or == Masks(c, k).or
           eor == Masks(c, k).eor
<1>1. Point(p, m, Masks(c, k)) = Xor(eor \cap m, (m \cap or) \cup p)
  BY DEF Point
<1>2. or = Xor(c \cup Opt(k + 1), Opt(k + 2)) /\ eor = Xor(c \cup Opt(k), Opt(k + 5))
  BY DEF Masks
<1> HIDE DEF or, eor
<1>3. CASE k = 0
  <2>1. or = Byte /\ eor = Byte \ c /\ Combined(k, c, p) = c
    BY <1>2, <1>3 DEF Opt, Xor, Combined
  <2> QED BY <1>1, <2>1 DEF Xor
<1>4. CASE k = 1
  <2>1. or = c /\ eor = {} /\ Combined(k, c, p) = p \cup c
    BY <1>2, <1>4 DEF Opt, Xor, Combined
  <2> QED BY <1>1, <2>1 DEF Xor
<1>5. CASE k = 2
  <2>1. or = Byte \ c /\ eor = Byte \ c /\ Combined(k, c, p) = p \cap c
    BY <1>2, <1>5 DEF Opt, Xor, Combined
  <2> QED BY <1>1, <2>1 DEF Xor
<1>6. CASE k = 3
  <2>1. or = {} /\ eor = c /\ Combined(k, c, p) = Xor(p, c)
    <3>1. Opt(4) = Byte /\ Opt(5) = Byte /\ Opt(3) = {} /\ Opt(8) = {}
      BY DEF Opt
    <3>2. or = Xor(c \cup Byte, Byte) /\ eor = Xor(c \cup {}, {})
      BY <1>2, <1>6, <3>1
    <3> QED BY <3>2, <1>6 DEF Xor, Combined
  <2> QED BY <1>1, <2>1 DEF Xor
<1>7. CASE k = 4
  <2>1. or = {} /\ eor = Byte /\ Combined(k, c, p) = Not(p)
    BY <1>2, <1>7 DEF Opt, Xor, Combined
  <2> QED BY <1>1, <2>1 DEF Xor, Not
<1>8. CASE k = 5
  <2>1. or = {} /\ eor = {} /\ Combined(k, c, p) = p
    BY <1>2, <1>8 DEF Opt, Xor, Combined
  <2> QED BY <1>1, <2>1 DEF Xor
<1> QED BY <1>3, <1>4, <1>5, <1>6, <1>7, <1>8

(* PLOT 0 leaves the point and PLOT 2 inverts it.                          *)
LEMMA NoColourNeeded ==
  ASSUME NEW p \in SUBSET Byte, NEW m \in SUBSET Byte
  PROVE  /\ Point(p, m, Masks({}, 5)) = (p \cap m) \cup (p \ m)
         /\ Point(p, m, Masks({}, 4)) = (Not(p) \cap m) \cup (p \ m)
<1>1. {} \in SUBSET Byte /\ Combined(5, {}, p) = p /\ Combined(4, {}, p) = Not(p)
  BY DEF Combined
<1> QED BY <1>1, OperationDone

-----------------------------------------------------------------------------
(* The invariant of the colours: the patterns are those of the colours     *)
(* last asked for, and the masks of the text are computed from them.       *)
Wanted ==
  [tfg : 0..15, tbg : 0..15, gfg : (0..5) \X (0..15), gbg : (0..5) \X (0..15)]

PatternsAsked ==
  Planes(mode) # 0 =>
    /\ asked.tfg \in Logical(mode) /\ tfg = Pattern(mode, asked.tfg)
    /\ asked.tbg \in Logical(mode) /\ tbg = Pattern(mode, asked.tbg)
    /\ asked.gfg[2] \in Logical(mode) /\ gfg = Pattern(mode, asked.gfg[2]) /\ pfg = asked.gfg[1]
    /\ asked.gbg[2] \in Logical(mode) /\ gbg = Pattern(mode, asked.gbg[2]) /\ pbg = asked.gbg[1]

MasksComputed == Planes(mode) > 1 => teor = Not(tfg) /\ tor = Xor(teor, tbg)

ColoursInv == CTypeOK /\ asked \in Wanted /\ PatternsAsked /\ MasksComputed /\ PaletteShown

LEMMA TextFollows == ColoursInv => TextShown
<1> SUFFICES ASSUME ColoursInv, Planes(mode) > 1, NEW k \in Columns(mode)
             PROVE  CharByte(PixMask(mode, k)) =
                      (Pattern(mode, asked.tfg) \cap PixMask(mode, k))
                        \cup (Pattern(mode, asked.tbg) \ PixMask(mode, k))
  BY DEF TextShown
<1>1. mode \in 0..7
  BY ModesAssumption DEF ColoursInv, CTypeOK
<1>2. /\ asked.tfg \in Logical(mode) /\ tfg = Pattern(mode, asked.tfg)
      /\ asked.tbg \in Logical(mode) /\ tbg = Pattern(mode, asked.tbg)
      /\ teor = Not(tfg) /\ tor = Xor(teor, tbg)
  BY <1>1, ModeFacts DEF ColoursInv, PatternsAsked, MasksComputed
<1>3. tfg \in SUBSET Byte /\ tbg \in SUBSET Byte
  BY DEF ColoursInv, CTypeOK
<1>4. PixMask(mode, k) \in SUBSET Byte
  BY <1>1, PixMaskInByte
<1>5. CharByte(PixMask(mode, k)) = Xor(PixMask(mode, k) \cup Xor(Not(tfg), tbg), Not(tfg))
  BY <1>2 DEF CharByte
<1> QED BY <1>2, <1>3, <1>4, <1>5, GlyphShown

LEMMA PlotsFollow == ColoursInv => PlotsAsAsked
<1> SUFFICES ASSUME ColoursInv, Planes(mode) > 0 PROVE PlotsAsAsked
  BY DEF PlotsAsAsked
<1>1. mode \in 0..7
  BY ModesAssumption DEF ColoursInv, CTypeOK
<1>2. /\ gfg = Pattern(mode, asked.gfg[2]) /\ pfg = asked.gfg[1]
      /\ gbg = Pattern(mode, asked.gbg[2]) /\ pbg = asked.gbg[1]
  BY <1>1, ModeFacts DEF ColoursInv, PatternsAsked
<1>3. gfg \in SUBSET Byte /\ gbg \in SUBSET Byte /\ pfg \in 0..5 /\ pbg \in 0..5
  BY DEF ColoursInv, CTypeOK
<1> DEFINE Asked(n, p) == CASE n = 0 -> p
                            [] n = 1 -> Combined(asked.gfg[1], Pattern(mode, asked.gfg[2]), p)
                            [] n = 2 -> Not(p)
                            [] n = 3 -> Combined(asked.gbg[1], Pattern(mode, asked.gbg[2]), p)
<1>4. ASSUME NEW n \in 0..3, NEW p \in {{}, Byte}, NEW k \in Columns(mode)
      PROVE  Point(p, PixMask(mode, k), PlotMasks(n)) =
               (Asked(n, p) \cap PixMask(mode, k)) \cup (p \ PixMask(mode, k))
  <2>1. PixMask(mode, k) \in SUBSET Byte /\ p \in SUBSET Byte
    BY <1>1, PixMaskInByte
  <2>2. CASE n = 0
    <3>1. PlotMasks(n) = Masks({}, 5) /\ Asked(n, p) = p
      BY <2>2 DEF PlotMasks
    <3> QED BY <3>1, <2>1, NoColourNeeded
  <2>3. CASE n = 1
    <3>1. PlotMasks(n) = Masks(gfg, pfg) /\ Asked(n, p) = Combined(pfg, gfg, p)
      BY <2>3, <1>2 DEF PlotMasks
    <3> QED BY <3>1, <2>1, <1>3, OperationDone
  <2>4. CASE n = 2
    <3>1. PlotMasks(n) = Masks({}, 4) /\ Asked(n, p) = Not(p)
      BY <2>4 DEF PlotMasks
    <3> QED BY <3>1, <2>1, NoColourNeeded
  <2>5. CASE n = 3
    <3>1. PlotMasks(n) = Masks(gbg, pbg) /\ Asked(n, p) = Combined(pbg, gbg, p)
      BY <2>5, <1>2 DEF PlotMasks
    <3> QED BY <3>1, <2>1, <1>3, OperationDone
  <2> QED BY <2>2, <2>3, <2>4, <2>5
<1> QED BY <1>4 DEF PlotsAsAsked

(* The colour and the physical colour of a command.                        *)
LEMMA ColourTaken ==
  ASSUME NEW m \in 0..7, NEW c \in Nat
  PROVE  c % Colours(m) \in Logical(m) /\ Logical(m) \subseteq 0..15
<1>1. Colours(m) \in {1, 2, 4, 16}
  BY ModeFacts
<1> QED BY <1>1 DEF Logical

LEMMA ToULAInRange == ASSUME NEW v \in 0..15 PROVE ToULA(v) \in 0..15
  BY DEF ToULA

(* What VDU 20 leaves, in the mode it leaves it in.                        *)
LEMMA DefaultInRange ==
  ASSUME NEW m \in 0..7, Planes(m) # 0, NEW l \in Logical(m)
  PROVE  Default(m)[l + 1] \in 0..15
<1>1. CASE Planes(m) = 1
  BY <1>1, ModeFacts DEF Default, Logical
<1>2. CASE Planes(m) = 2
  BY <1>2, ModeFacts DEF Default, Logical
<1>4. CASE Planes(m) = 4
  BY <1>4, ModeFacts DEF Default, Logical
<1> QED BY <1>1, <1>2, <1>4, ModeFacts

LEMMA PaletteRestored ==
  ASSUME NEW m \in 0..7, Planes(m) # 0, CTypeOK, mode' = m, Restored(m)
  PROVE  /\ palette' \in [0..15 -> 0..15] /\ ula' \in [0..15 -> 0..15] /\ raw' = {}
         /\ PaletteShown'
<1>1. /\ palette' = [l \in 0..15 |-> IF l < Colours(m) THEN Default(m)[l + 1] ELSE palette[l]]
      /\ ula' = [i \in 0..15 |-> ToULA(Default(m)[1 + CHOOSE l \in Logical(m) : i \in Registers(m, l)])]
      /\ raw' = {}
  BY DEF Restored, Logical
<1>2. palette' \in [0..15 -> 0..15]
  <2>1. ASSUME NEW l \in 0..15
        PROVE  (IF l < Colours(m) THEN Default(m)[l + 1] ELSE palette[l]) \in 0..15
    <3>1. CASE l < Colours(m)
      <4>1. l \in Logical(m)
        BY <3>1, ModeFacts DEF Logical
      <4> QED BY <4>1, <3>1, DefaultInRange
    <3>2. CASE ~(l < Colours(m))
      BY <3>2 DEF CTypeOK
    <3> QED BY <3>1, <3>2
  <2> QED BY <1>1, <2>1
<1> DEFINE Of(i) == CHOOSE l \in Logical(m) : i \in Registers(m, l)
<1>3. ASSUME NEW i \in 0..15
      PROVE  Of(i) \in Logical(m) /\ i \in LooksUp(m, Of(i))
  <2>1. PICK l \in Logical(m) : i \in LooksUp(m, l)
    BY RegisterHasColour
  <2>2. i \in Registers(m, l)
    BY <2>1, RegistersLookedUp
  <2>3. Of(i) \in Logical(m) /\ i \in Registers(m, Of(i))
    BY <2>2
  <2> QED BY <2>3, RegistersLookedUp
<1>4. \A i \in 0..15 : ula'[i] = ToULA(Default(m)[1 + Of(i)])
  BY <1>1
<1> HIDE DEF Of
<1>5. \A i \in 0..15 : ToULA(Default(m)[Of(i) + 1]) \in 0..15 /\ 1 + Of(i) = Of(i) + 1
  BY <1>3, DefaultInRange, ToULAInRange DEF Logical
<1>6. ula' \in [0..15 -> 0..15]
  BY <1>1, <1>4, <1>5
<1>7. ASSUME NEW l \in Logical(m), NEW i \in LooksUp(m, l)
      PROVE  ula'[i] = ToULA(palette'[l])
  <2>1. i \in 0..15 /\ l \in 0..15 /\ l < Colours(m) /\ l + 1 = 1 + l
    <3>1. Colours(m) \in {1, 2, 4, 16}
      BY ModeFacts
    <3>2. i \in 0..15
      BY LooksUpInRange
    <3> QED BY <3>1, <3>2 DEF Logical
  <2>2. Of(i) = l
    BY <2>1, <1>3, <1>7, RegisterHasColour
  <2>3. palette'[l] = Default(m)[l + 1]
    BY <2>1, <1>1
  <2> QED BY <2>1, <2>2, <2>3, <1>4
<1>8. PaletteShown'
  BY <1>7 DEF PaletteShown, Logical
<1> QED BY <1>1, <1>2, <1>6, <1>8

LEMMA ColoursRestored ==
  ASSUME NEW m \in Modes, ColoursInv, mode' = m, given' \in 0..MaxCommands, Restored(m)
  PROVE  ColoursInv'
<1>1. m \in 0..7
  BY ModesAssumption
<1>2. /\ tfg' = (IF Planes(m) = 0 THEN {} ELSE IF Planes(m) = 4 THEN 0..5 ELSE Byte)
      /\ tbg' = (IF Planes(m) = 0 THEN {5} ELSE {})
      /\ gfg' = tfg' /\ gbg' = {} /\ pfg' = 0 /\ pbg' = 0
  BY DEF Restored
<1>3. asked' = [tfg |-> White(m), tbg |-> 0, gfg |-> <<0, White(m)>>, gbg |-> <<0, 0>>]
  BY DEF Restored, White
<1>4. White(m) \in 0..15 /\ 0 \in 0..15 /\ 0 \in 0..5
  <2>1. Planes(m) \in {0, 1, 2, 4}
    BY <1>1, ModeFacts
  <2> QED BY <2>1, <1>1, ModeFacts DEF White
<1>5. asked' \in Wanted
  BY <1>3, <1>4 DEF Wanted
<1>6. /\ asked'.tfg = White(m) /\ asked'.tbg = 0
      /\ asked'.gfg[1] = 0 /\ asked'.gfg[2] = White(m) /\ asked'.gbg[1] = 0 /\ asked'.gbg[2] = 0
  BY <1>3
<1>7. PatternsAsked'
  <2>1. ASSUME Planes(m) # 0
        PROVE  /\ White(m) \in Logical(m) /\ 0 \in Logical(m)
               /\ tfg' = Pattern(m, White(m)) /\ tbg' = Pattern(m, 0)
               /\ gfg' = Pattern(m, White(m)) /\ gbg' = Pattern(m, 0)
    BY <2>1, <1>1, <1>2, PatternOfWhite DEF Logical
  <2> QED BY <2>1, <1>2, <1>6 DEF PatternsAsked
<1>8. 0..5 \subseteq Byte /\ {5} \subseteq Byte
  BY DEF Byte
<1>9. {tfg, tbg, gfg, gbg}' \subseteq SUBSET Byte /\ {pfg, pbg}' \subseteq 0..5
  BY <1>2, <1>8
<1>10. {tor, teor}' \subseteq SUBSET Byte /\ MasksComputed'
  <2>1. CASE Planes(m) = 0
    <3>1. tor' = tor /\ teor' = teor
      BY <2>1 DEF Restored
    <3> QED BY <2>1, <3>1 DEF MasksComputed, ColoursInv, CTypeOK
  <2>2. CASE Planes(m) # 0
    <3>1. tor' = Not(tfg') /\ teor' = Not(tfg') /\ tbg' = {}
      BY <2>2, <1>2 DEF Restored
    <3> QED BY <3>1 DEF MasksComputed, Not, Xor
  <2> QED BY <2>1, <2>2
<1>11. /\ palette' \in [0..15 -> 0..15] /\ ula' \in [0..15 -> 0..15] /\ raw' \subseteq 0..15
       /\ PaletteShown'
  <2>1. CASE Planes(m) = 0
    <3>1. palette' = palette /\ ula' = ula /\ raw' = raw
      BY <2>1 DEF Restored, pal
    <3>2. \A l : LooksUp(m, l) = {}
      BY <2>1 DEF LooksUp
    <3>3. PaletteShown'
      BY <3>2 DEF PaletteShown
    <3> QED BY <3>1, <3>3 DEF ColoursInv, CTypeOK
  <2>2. CASE Planes(m) # 0
    BY <2>2, <1>1, PaletteRestored DEF ColoursInv
  <2> QED BY <2>1, <2>2
<1> QED BY <1>5, <1>7, <1>9, <1>10, <1>11 DEF ColoursInv, CTypeOK

LEMMA ColourStepInv == ColoursInv /\ ColourStep => ColoursInv'
<1> SUFFICES ASSUME ColoursInv, ColourStep PROVE ColoursInv'
  OBVIOUS
<1>0. /\ CTypeOK /\ asked \in Wanted /\ PatternsAsked /\ MasksComputed /\ PaletteShown
      /\ mode \in 0..7 /\ mode \in Modes
  BY ModesAssumption DEF ColoursInv, CTypeOK
<1>1. /\ tfg \in SUBSET Byte /\ tbg \in SUBSET Byte /\ gfg \in SUBSET Byte /\ gbg \in SUBSET Byte
      /\ tor \in SUBSET Byte /\ teor \in SUBSET Byte /\ pfg \in 0..5 /\ pbg \in 0..5
      /\ palette \in [0..15 -> 0..15] /\ ula \in [0..15 -> 0..15] /\ raw \subseteq 0..15
  BY <1>0 DEF CTypeOK
<1>2. Command => mode' = mode /\ given' \in 0..MaxCommands
  BY <1>0, CommandsAssumption DEF Command, CTypeOK
<1>3. ASSUME NEW c \in Colour PROVE c % Colours(mode) \in Logical(mode) /\ Logical(mode) \subseteq 0..15
  BY <1>0, ColourAssumption, ColourTaken
<1>4. ASSUME NEW c \in Colour, VDU_17(c) PROVE ColoursInv'
  <2>1. /\ mode' = mode /\ given' \in 0..MaxCommands
        /\ UNCHANGED <<gfg, gbg, pfg, pbg, palette, ula, raw>>
    BY <1>2, <1>4 DEF VDU_17, gcol, pal
  <2>2. PaletteShown'
    BY <2>1, <1>0 DEF PaletteShown
  <2>3. CASE Planes(mode) = 0
    <3>1. UNCHANGED <<tfg, tbg, tor, teor, asked>>
      BY <1>4, <2>3 DEF VDU_17, text
    <3> QED BY <2>1, <2>2, <2>3, <3>1, <1>0, <1>1 DEF ColoursInv, CTypeOK, PatternsAsked, MasksComputed
  <2>4. CASE Planes(mode) # 0
    <3> DEFINE l == c % Colours(mode)
    <3>1. /\ IF c >= 128
             THEN tbg' = Pattern(mode, l) /\ tfg' = tfg /\ asked' = [asked EXCEPT !.tbg = l]
             ELSE tfg' = Pattern(mode, l) /\ tbg' = tbg /\ asked' = [asked EXCEPT !.tfg = l]
          /\ teor' = Not(tfg') /\ tor' = Xor(teor', tbg')
      BY <1>4, <2>4 DEF VDU_17
    <3>2. l \in Logical(mode) /\ l \in 0..15
      BY <1>3
    <3> HIDE DEF l
    <3>3. Pattern(mode, l) \subseteq Byte
      BY <3>2, <2>4, <1>0, PatternInByte DEF Logical
    <3>4. asked' \in Wanted /\ asked'.gfg = asked.gfg /\ asked'.gbg = asked.gbg
      BY <3>1, <3>2, <1>0 DEF Wanted
    <3>5. \/ tbg' = Pattern(mode, l) /\ tfg' = tfg /\ asked'.tbg = l /\ asked'.tfg = asked.tfg
          \/ tfg' = Pattern(mode, l) /\ tbg' = tbg /\ asked'.tfg = l /\ asked'.tbg = asked.tbg
      BY <3>1, <1>0 DEF Wanted
    <3>6. PatternsAsked'
      BY <3>2, <3>4, <3>5, <2>1, <1>0 DEF PatternsAsked
    <3>7. tfg' \subseteq Byte /\ tbg' \subseteq Byte
      BY <3>3, <3>5, <1>1
    <3>8. teor' \subseteq Byte /\ tor' \subseteq Byte /\ MasksComputed'
      BY <3>1, <3>7 DEF MasksComputed, Not, Xor
    <3> QED BY <2>1, <2>2, <3>4, <3>6, <3>7, <3>8, <1>0, <1>1 DEF ColoursInv, CTypeOK
  <2> QED BY <2>3, <2>4
<1>5. ASSUME NEW k \in Operation, NEW c \in Colour, VDU_18(k, c) PROVE ColoursInv'
  <2>1. /\ mode' = mode /\ given' \in 0..MaxCommands
        /\ UNCHANGED <<tfg, tbg, tor, teor, palette, ula, raw>>
    BY <1>2, <1>5 DEF VDU_18, text, pal
  <2>2. PaletteShown' /\ MasksComputed'
    BY <2>1, <1>0 DEF PaletteShown, MasksComputed
  <2>3. CASE Planes(mode) = 0
    <3>1. UNCHANGED <<gfg, gbg, pfg, pbg, asked>>
      BY <1>5, <2>3 DEF VDU_18, gcol
    <3> QED BY <2>1, <2>2, <2>3, <3>1, <1>0, <1>1 DEF ColoursInv, CTypeOK, PatternsAsked
  <2>4. CASE Planes(mode) # 0
    <3> DEFINE l == c % Colours(mode)
    <3>1. IF c >= 128
          THEN /\ gbg' = Pattern(mode, l) /\ pbg' = k /\ gfg' = gfg /\ pfg' = pfg
               /\ asked' = [asked EXCEPT !.gbg = <<k, l>>]
          ELSE /\ gfg' = Pattern(mode, l) /\ pfg' = k /\ gbg' = gbg /\ pbg' = pbg
               /\ asked' = [asked EXCEPT !.gfg = <<k, l>>]
      BY <1>5, <2>4 DEF VDU_18
    <3>2. l \in Logical(mode) /\ l \in 0..15 /\ k \in 0..5
      BY <1>3, OperationAssumption
    <3> HIDE DEF l
    <3>3. Pattern(mode, l) \subseteq Byte
      BY <3>2, <2>4, <1>0, PatternInByte DEF Logical
    <3>4. asked' \in Wanted /\ asked'.tfg = asked.tfg /\ asked'.tbg = asked.tbg
      BY <3>1, <3>2, <1>0 DEF Wanted
    <3>5. \/ /\ gbg' = Pattern(mode, l) /\ pbg' = k /\ gfg' = gfg /\ pfg' = pfg
             /\ asked'.gbg = <<k, l>> /\ asked'.gfg = asked.gfg
          \/ /\ gfg' = Pattern(mode, l) /\ pfg' = k /\ gbg' = gbg /\ pbg' = pbg
             /\ asked'.gfg = <<k, l>> /\ asked'.gbg = asked.gbg
      BY <3>1, <1>0 DEF Wanted
    <3>6. <<k, l>>[1] = k /\ <<k, l>>[2] = l
      OBVIOUS
    <3>7. PatternsAsked'
      BY <3>2, <3>4, <3>5, <3>6, <2>1, <1>0 DEF PatternsAsked
    <3>8. gfg' \subseteq Byte /\ gbg' \subseteq Byte /\ pfg' \in 0..5 /\ pbg' \in 0..5
      BY <3>2, <3>3, <3>5, <1>1
    <3> QED BY <2>1, <2>2, <3>4, <3>7, <3>8, <1>0, <1>1 DEF ColoursInv, CTypeOK
  <2> QED BY <2>3, <2>4
<1>6. ASSUME NEW c \in Colour, NEW v \in Physical, VDU_19(c, v) PROVE ColoursInv'
  <2> DEFINE l == c % Colours(mode)
  <2>1. /\ mode' = mode /\ given' \in 0..MaxCommands
        /\ UNCHANGED <<tfg, tbg, tor, teor, gfg, gbg, pfg, pbg, asked>>
        /\ palette' = [palette EXCEPT ![l] = v]
        /\ ula' = [i \in 0..15 |-> IF i \in Registers(mode, l) THEN ToULA(v) ELSE ula[i]]
        /\ raw' = raw \ Registers(mode, l)
    BY <1>2, <1>6 DEF VDU_19, text, gcol
  <2>2. l \in Logical(mode) /\ l \in 0..15 /\ v \in 0..15 /\ ToULA(v) \in 0..15
    BY <1>3, PhysicalAssumption, ToULAInRange
  <2> HIDE DEF l
  <2>3. palette' \in [0..15 -> 0..15] /\ ula' \in [0..15 -> 0..15] /\ raw' \subseteq 0..15
    BY <2>1, <2>2, <1>1
  <2>4. PatternsAsked' /\ MasksComputed'
    BY <2>1, <1>0 DEF PatternsAsked, MasksComputed
  <2>5. ASSUME NEW k \in Logical(mode), NEW i \in LooksUp(mode, k) \ raw'
        PROVE  ula'[i] = ToULA(palette'[k])
    <3>1. i \in 0..15 /\ k \in 0..15
      BY LooksUpInRange, <1>0, ColourTaken, 0 \in Nat
    <3>2. Planes(mode) # 0
      BY <2>5 DEF LooksUp
    <3>3. Registers(mode, l) = LooksUp(mode, l)
      BY <3>2, <1>0, <2>2, RegistersLookedUp
    <3>4. CASE i \in LooksUp(mode, l)
      <4>1. k = l
        BY <3>1, <3>2, <3>4, <1>0, <2>2, <2>5, RegisterHasColour
      <4> QED BY <4>1, <3>1, <3>3, <3>4, <2>1, <1>1
    <3>5. CASE i \notin LooksUp(mode, l)
      <4>1. k # l /\ i \notin raw
        BY <3>3, <3>5, <2>1, <2>5
      <4>2. ula[i] = ToULA(palette[k])
        BY <4>1, <2>5, <1>0 DEF PaletteShown, Logical
      <4> QED BY <4>1, <4>2, <3>1, <3>3, <3>5, <2>1, <1>1
    <3> QED BY <3>4, <3>5
  <2>6. PaletteShown'
    BY <2>1, <2>5 DEF PaletteShown, Logical
  <2> QED BY <2>1, <2>3, <2>4, <2>6, <1>0, <1>1 DEF ColoursInv, CTypeOK
<1>7. ASSUME NEW i \in 0..15, NEW v \in Physical, SetPalette(i, v) PROVE ColoursInv'
  <2>1. /\ mode' = mode /\ given' \in 0..MaxCommands
        /\ UNCHANGED <<tfg, tbg, tor, teor, gfg, gbg, pfg, pbg, asked, palette>>
        /\ ula' = [ula EXCEPT ![i] = ToULA(v)] /\ raw' = raw \cup {i}
    BY <1>2, <1>7 DEF SetPalette, text, gcol
  <2>2. ToULA(v) \in 0..15
    BY PhysicalAssumption, ToULAInRange
  <2>3. ula' \in [0..15 -> 0..15] /\ raw' \subseteq 0..15
    BY <2>1, <2>2, <1>1
  <2>4. PatternsAsked' /\ MasksComputed'
    BY <2>1, <1>0 DEF PatternsAsked, MasksComputed
  <2>5. ASSUME NEW k \in Logical(mode), NEW j \in LooksUp(mode, k) \ raw'
        PROVE  ula'[j] = ToULA(palette'[k])
    <3>1. j \notin raw /\ j # i
      BY <2>1, <2>5
    <3>2. ula[j] = ToULA(palette[k])
      BY <3>1, <2>5, <1>0 DEF PaletteShown, Logical
    <3>3. ula'[j] = ula[j]
      BY <3>1, <2>1, <1>1
    <3> QED BY <3>2, <3>3, <2>1
  <2>6. PaletteShown'
    BY <2>1, <2>5 DEF PaletteShown, Logical
  <2> QED BY <2>1, <2>3, <2>4, <2>6, <1>0, <1>1 DEF ColoursInv, CTypeOK
<1>8. ASSUME VDU_20 PROVE ColoursInv'
  BY <1>8, <1>0, <1>2, ColoursRestored DEF VDU_20
<1> QED BY <1>4, <1>5, <1>6, <1>7, <1>8 DEF ColourStep

LEMMA ColoursInitInv == CInit => ColoursInv
<1> SUFFICES ASSUME CInit PROVE ColoursInv
  OBVIOUS
<1>1. 4 \in Modes /\ 4 \in 0..7 /\ Planes(4) = 1 /\ Colours(4) = 2 /\ Logical(4) = {0, 1} /\ White(4) = 1
  <2>1. Planes(4) = 1
    BY DEF Planes
  <2> QED BY <2>1, ModesAssumption, ModeFacts, 4 \in 0..7 DEF Logical, White
<1>2. Pattern(4, 0) = {} /\ Pattern(4, 1) = Byte
  BY <1>1, PatternOfWhite
<1>3. /\ mode = 4 /\ given = 0 /\ raw = {} /\ tfg = Byte /\ tbg = {} /\ tor = {} /\ teor = {}
      /\ gfg = Byte /\ gbg = {} /\ pfg = 0 /\ pbg = 0
      /\ palette = [l \in 0..15 |-> IF l = 1 THEN 7 ELSE 0]
      /\ ula = [i \in 0..15 |-> IF i < 8 THEN 7 ELSE 0]
      /\ asked = [tfg |-> 1, tbg |-> 0, gfg |-> <<0, 1>>, gbg |-> <<0, 0>>]
  BY DEF CInit
<1>4. CTypeOK
  BY <1>1, <1>3, CommandsAssumption DEF CTypeOK
<1>5. asked \in Wanted
  BY <1>3 DEF Wanted
<1>6. PatternsAsked /\ MasksComputed
  BY <1>1, <1>2, <1>3 DEF PatternsAsked, MasksComputed
<1>7. PaletteShown
  <2> SUFFICES ASSUME NEW l \in {0, 1}, NEW i \in LooksUp(4, l)
               PROVE  ula[i] = ToULA(palette[l])
    BY <1>1, <1>3 DEF PaletteShown, Logical
  <2>1. i \in 0..15 /\ ((i \div 8) % 2 = 1 <=> l % 2 = 1)
    <3>1. i \in 0..15
      BY LooksUpInRange
    <3>2. Planes(4) = 1
      BY DEF Planes
    <3> QED BY <3>1, <3>2, OneLooksUp
  <2>2. CASE l = 0
    <3>1. i < 8
      BY <2>1, <2>2
    <3> QED BY <3>1, <2>1, <2>2, <1>3 DEF ToULA
  <2>3. CASE l = 1
    <3>1. ~(i < 8)
      BY <2>1, <2>3
    <3> QED BY <3>1, <2>1, <2>3, <1>3 DEF ToULA
  <2> QED BY <2>2, <2>3
<1> QED BY <1>4, <1>5, <1>6, <1>7 DEF ColoursInv

LEMMA ColoursKept ==
  ASSUME ColoursInv, UNCHANGED cvars PROVE ColoursInv'
  BY DEF ColoursInv, CTypeOK, PatternsAsked, MasksComputed, PaletteShown, cvars

LEMMA ColoursNextInv == ColoursInv /\ [Next]_vars => ColoursInv'
<1> SUFFICES ASSUME ColoursInv, [Next]_vars PROVE ColoursInv'
  OBVIOUS
<1>1. CASE ColourStep
  BY <1>1, ColourStepInv
<1>2. ASSUME NEW m \in Modes, VDU_22(m) PROVE ColoursInv'
  <2>1. mode' = m /\ given' = given /\ Restored(m)
    BY <1>2 DEF VDU_22
  <2> QED BY <2>1, ColoursRestored DEF ColoursInv, CTypeOK
<1>3. CASE Draws \/ UNCHANGED vars
  <2>1. UNCHANGED cvars
    BY <1>3 DEF Draws, VDU_25, DrawStep, MoveCursor, VDU_24, VDU_26, VDU_29, HardScrollUp, vars
  <2> QED BY <2>1, ColoursKept
<1> QED BY <1>1, <1>2, <1>3 DEF Next

(* After every sequence of COLOUR, GCOL, palette and mode commands the     *)
(* registers of the ULA, the glyphs and the points show the colours last   *)
(* asked for, through the masks that vdu.c computes.                       *)
THEOREM ColoursCorrect == Spec => []ColoursShown
<1>1. Init => ColoursInv
  BY ColoursInitInv DEF Init
<1>2. ColoursInv => ColoursShown
  BY TextFollows, PlotsFollow DEF ColoursShown, ColoursInv
<1> QED BY <1>1, <1>2, ColoursNextInv, PTL DEF Spec

-----------------------------------------------------------------------------
(* The screen of a mode and the window on it.                              *)

LEMMA ScreenFacts ==
  ASSUME NEW m \in 0..7
  PROVE  /\ CellsPerRow(m) \in Nat \ {0} /\ CellsPerRow(m) <= WIDE
         /\ Size(m) \in Nat \ {0} /\ CellsPerRow(m) <= Size(m) /\ Size(m) = ROWS * CellsPerRow(m)
         /\ Base(m) \in Nat /\ Base(m) = TOP - Size(m) /\ TOP \in Nat
         /\ ROWS \in Nat \ {0} /\ SCANS \in Nat \ {0} /\ BYTE \in Nat \ {0} /\ WIDE \in Nat \ {0}
         /\ EXTENT \in Nat \ {0} /\ Height \in Nat \ {0} /\ Height <= BYTE
<1>1. /\ ROWS \in Nat \ {0} /\ SCANS \in Nat \ {0} /\ BYTE \in Nat \ {0} /\ WIDE \in Nat \ {0}
      /\ EXTENT \in Nat \ {0} /\ WIDE % 2 = 0
  BY SizeAssumption
<1>2. WIDE \div 2 \in Nat \ {0} /\ WIDE \div 2 <= WIDE
  BY <1>1
<1>3. CellsPerRow(m) \in Nat \ {0} /\ CellsPerRow(m) <= WIDE
  BY <1>1, <1>2 DEF CellsPerRow
<1> DEFINE c == CellsPerRow(m)
<1> HIDE DEF c
<1>4. c \in Nat \ {0} /\ c <= WIDE
  BY <1>3 DEF c
<1>5. ROWS * c \in Nat \ {0} /\ c <= ROWS * c /\ ROWS * c <= ROWS * WIDE
  BY <1>1, <1>4
<1>6. Size(m) = ROWS * c
  BY DEF Size, c
<1>7. Base(m) \in Nat /\ Base(m) = TOP - Size(m) /\ TOP \in Nat
  BY <1>1, <1>4, <1>5, <1>6, TopAssumption DEF Base
<1>8. Height \in Nat \ {0} /\ Height <= BYTE
  BY <1>1, HeightAssumption DEF Height
<1> QED BY <1>1, <1>3, <1>5, <1>6, <1>7, <1>8 DEF c

LEMMA QuotInt == ASSUME NEW a \in Int, NEW b \in Nat \ {0} PROVE Quot(a, b) \in Int
  BY DEF Quot

LEMMA ScaledInt ==
  ASSUME NEW m \in 0..7, NEW e \in Coordinate, NEW o \in Coordinate
  PROVE  Scaled(m, e, o) \in Coordinate
<1> DEFINE d == IF PixByte(m) > 3 THEN 1 ELSE IF PixByte(m) = 3 THEN 2 ELSE 4
           s == IF MapType(m) = 0 THEN d ELSE 2 * d
<1>1. d \in Nat \ {0} /\ s \in Nat \ {0}
  OBVIOUS
<1>2. e.x + o.x \in Int /\ e.y + o.y \in Int
  BY DEF Coordinate
<1>3. Scaled(m, e, o) = [x |-> Quot(Quot(e.x + o.x, 2), s), y |-> Quot(Quot(e.y + o.y, 2), 2)]
  BY DEF Scaled
<1> HIDE DEF d, s
<1>4. Quot(e.x + o.x, 2) \in Int /\ Quot(e.y + o.y, 2) \in Int
  BY <1>2, QuotInt, 2 \in Nat \ {0}
<1>5. Quot(Quot(e.x + o.x, 2), s) \in Int /\ Quot(Quot(e.y + o.y, 2), 2) \in Int
  BY <1>1, <1>4, QuotInt, 2 \in Nat \ {0}
<1> QED BY <1>3, <1>5 DEF Coordinate

(* What VDU 24 makes of two corners.                                       *)
Windows == [l : Int, b : Int, r : Int, t : Int]
WidthOf(m) == CellsPerRow(m) * (PixByte(m) + 1)
InScreen(m, w) == w.l >= 0 /\ w.b >= 0 /\ w.r < WidthOf(m) /\ w.t < Height

LEMMA WindowFacts ==
  ASSUME NEW m \in 0..7, NEW lo \in Coordinate, NEW hi \in Coordinate, NEW e \in Coordinate,
         NEW o \in Coordinate, NEW w \in Windows
  PROVE  /\ Window(m, lo, hi, e, o, w).win \in Windows
         /\ Window(m, lo, hi, e, o, w).ext \in {e, Plus(hi, Plus(lo, e))}
         /\ PixByte(m) # 0 /\ InScreen(m, w) => InScreen(m, Window(m, lo, hi, e, o, w).win)
<1> DEFINE e1 == Plus(lo, e)
           e2 == Plus(hi, e1)
           bl == Scaled(m, e1, o)
           tr == Scaled(m, e2, o)
           new == [l |-> bl.x, b |-> bl.y, r |-> tr.x, t |-> tr.y]
           W == Window(m, lo, hi, e, o, w)
<1>1. \/ /\ bl.x >= 0 /\ bl.y >= 0 /\ tr.y < Height /\ Quot(tr.x, 8) <= LastColumn(m)
         /\ W.win = new /\ W.ext = e2
      \/ W.win = w /\ W.ext = e
  BY DEF Window, Moved
<1>2. e1 \in Coordinate /\ e2 \in Coordinate
  BY DEF Coordinate, Plus
<1>3. bl \in Coordinate /\ tr \in Coordinate
  BY <1>2, ScaledInt
<1>4. new \in Windows
  BY <1>3 DEF Coordinate, Windows
<1>5. ASSUME PixByte(m) # 0, Quot(tr.x, 8) <= LastColumn(m)
      PROVE  tr.x < WidthOf(m)
  <2> DEFINE p == WidthOf(m)
             x == tr.x
  <2>1. p \in Nat \ {0}
    <3>1. CellsPerRow(m) \in Nat \ {0}
      BY ScreenFacts
    <3>2. PixByte(m) \in {0, 1, 3, 7}
      BY ModeFacts
    <3> QED BY <3>1, <3>2 DEF WidthOf
  <2>2. x \in Int
    BY <1>3 DEF Coordinate
  <2>3. LastColumn(m) = p \div 8 - 1
    BY <1>5 DEF LastColumn, WidthOf
  <2> HIDE DEF p, x
  <2>4. Quot(x, 8) <= p \div 8 - 1
    BY <2>3, <1>5 DEF x
  <2>5. x < p
    BY <2>1, <2>2, <2>4 DEF Quot
  <2> QED BY <2>5 DEF p, x
<1>6. new.l = bl.x /\ new.b = bl.y /\ new.r = tr.x /\ new.t = tr.y
  OBVIOUS
<1> HIDE DEF e1, e2, bl, tr, new, W
<1>7. W.win \in Windows
  BY <1>1, <1>4
<1>8. W.ext \in {e, e2}
  BY <1>1
<1>9. PixByte(m) # 0 /\ InScreen(m, w) => InScreen(m, W.win)
  BY <1>1, <1>5, <1>6 DEF InScreen
<1> QED BY <1>7, <1>8, <1>9 DEF W, e2, e1

LEMMA DefaultWindowFacts ==
  ASSUME NEW m \in 0..7
  PROVE  /\ DefaultWindow(m).win \in Windows
         /\ DefaultWindow(m).ext \in Coordinate /\ Bounded(DefaultWindow(m).ext)
         /\ PixByte(m) # 0 => InScreen(m, DefaultWindow(m).win)
<1> DEFINE w == [l |-> 0, b |-> 0, r |-> 0, t |-> 0]
           corner == [x |-> 16 * WIDE - 1, y |-> 4 * Height - 1]
<1>1. WIDE \in Nat \ {0} /\ Height \in Nat \ {0} /\ EXTENT \in Nat \ {0} /\ CellsPerRow(m) \in Nat \ {0}
  BY ScreenFacts
<1>2. 16 * WIDE - 1 \in Int /\ 4 * Height - 1 \in Int
  BY <1>1
<1>3. corner \in Coordinate /\ Zero \in Coordinate /\ w \in Windows
  BY <1>2 DEF Coordinate, Zero, Windows
<1>4. PixByte(m) # 0 => InScreen(m, w)
  <2>1. ASSUME PixByte(m) # 0 PROVE WidthOf(m) > 0
    <3>1. PixByte(m) \in {0, 1, 3, 7}
      BY ModeFacts
    <3> QED BY <3>1, <1>1 DEF WidthOf
  <2> QED BY <2>1, <1>1 DEF InScreen
<1>5. Plus(corner, Plus(Zero, Zero)) = corner
  BY <1>2 DEF Plus, Zero
<1>6. Bounded(Zero)
  BY <1>1 DEF Bounded, Zero
<1>7. Bounded(corner)
  <2> DEFINE W == 16 * WIDE - 1
             H == 4 * Height - 1
  <2>1. W \in Int /\ H \in Int /\ W >= -EXTENT /\ H >= -EXTENT
    BY <1>1
  <2>2. W <= EXTENT /\ H <= EXTENT
    <3>1. 4 * ROWS * SCANS = 4 * Height
      BY SizeAssumption DEF Height
    <3> QED BY <3>1, ExtentAssumption
  <2>3. corner.x = W /\ corner.y = H
    OBVIOUS
  <2> HIDE DEF W, H
  <2> QED BY <2>1, <2>2, <2>3, <1>1 DEF Bounded
<1>8. DefaultWindow(m) = Window(m, Zero, corner, Zero, Zero, w)
  BY DEF DefaultWindow
<1> HIDE DEF corner, w
<1> QED BY <1>3, <1>4, <1>5, <1>6, <1>7, <1>8, WindowFacts

-----------------------------------------------------------------------------
(* Division by what is not a number of the source.                         *)

LEMMA Divided ==
  ASSUME NEW a \in Int, NEW n \in Nat \ {0}
  PROVE  a % n \in 0..(n - 1) /\ a \div n \in Int /\ a = (n * (a \div n)) + (a % n)
  OBVIOUS

LEMMA QuotientIs ==
  ASSUME NEW n \in Nat \ {0}, NEW q \in Int, NEW r \in 0..(n - 1)
  PROVE  ((n * q) + r) \div n = q /\ ((n * q) + r) % n = r
  OBVIOUS

LEMMA QuotientBelow ==
  ASSUME NEW a \in Nat, NEW n \in Nat \ {0}, NEW k \in Nat, a < n * k
  PROVE  a \div n \in 0..(k - 1)
<1> DEFINE q == a \div n
<1>1. q \in Int /\ a % n >= 0 /\ a = (n * q) + (a % n) /\ a % n \in Int
  BY Divided
<1>2. q >= 0
  OBVIOUS
<1> HIDE DEF q
<1>3. ~(q >= k)
  <2>1. ASSUME q >= k PROVE FALSE
    <3>1. n * q >= n * k
      BY <2>1, <1>1
    <3> DEFINE x == n * q
               y == n * k
               z == a % n
    <3>2. x \in Int /\ y \in Int /\ z \in Int /\ z >= 0 /\ x >= y /\ a = x + z /\ a < y
      BY <3>1, <1>1
    <3> HIDE DEF x, y, z
    <3> QED BY <3>2
  <2> QED BY <2>1
<1> QED BY <1>1, <1>2, <1>3 DEF q

LEMMA NextQuotient ==
  ASSUME NEW a \in Int, NEW n \in Nat \ {0}
  PROVE  \/ a % n < n - 1 /\ (a + 1) % n = (a % n) + 1 /\ (a + 1) \div n = a \div n
         \/ a % n = n - 1 /\ (a + 1) % n = 0 /\ (a + 1) \div n = (a \div n) + 1
<1> DEFINE q == a \div n
           r == a % n
<1>1. q \in Int /\ r \in 0..(n - 1) /\ a = (n * q) + r
  BY Divided
<1> HIDE DEF q, r
<1>2. CASE r < n - 1
  <2>1. r + 1 \in 0..(n - 1) /\ a + 1 = (n * q) + (r + 1)
    BY <1>1, <1>2
  <2>2. (a + 1) \div n = q /\ (a + 1) % n = r + 1
    BY <2>1, <1>1, QuotientIs
  <2> QED BY <2>2, <1>2 DEF q, r
<1>3. CASE r = n - 1
  <2>1. n * (q + 1) = (n * q) + n
    BY <1>1
  <2>2. 0 \in 0..(n - 1) /\ q + 1 \in Int /\ a + 1 = (n * (q + 1)) + 0
    BY <2>1, <1>1, <1>3
  <2>3. (a + 1) \div n = q + 1 /\ (a + 1) % n = 0
    BY <2>2, QuotientIs
  <2> QED BY <2>3, <1>3 DEF q, r
<1> QED BY <1>1, <1>2, <1>3

LEMMA SmallRemainder ==
  ASSUME NEW n \in Nat \ {0}, NEW r \in 0..(n - 1)
  PROVE  r % n = r /\ n % n = 0
<1>1. n * 0 = 0 /\ n * 1 = n
  OBVIOUS
<1>2. ((n * 0) + r) % n = r
  BY QuotientIs, 0 \in Int
<1>3. ((n * 1) + 0) % n = 0
  <2>1. 0 \in 0..(n - 1)
    OBVIOUS
  <2> QED BY <2>1, QuotientIs, 1 \in Int
<1>4. (n * 0) + r = r /\ (n * 1) + 0 = n
  BY <1>1
<1> QED BY <1>2, <1>3, <1>4

(* A counter that wraps counts what does not.                              *)
LEMMA CountUp ==
  ASSUME NEW a \in Int, NEW n \in Nat \ {0}
  PROVE  ((a % n) + 1) % n = (a + 1) % n
<1> DEFINE r == a % n
<1>1. r \in 0..(n - 1)
  BY Divided
<1>2. \/ r < n - 1 /\ (a + 1) % n = r + 1
      \/ r = n - 1 /\ (a + 1) % n = 0
  BY NextQuotient
<1> HIDE DEF r
<1>3. CASE r < n - 1
  <2>1. r + 1 \in 0..(n - 1) /\ (a + 1) % n = r + 1
    BY <1>1, <1>2, <1>3
  <2>2. (r + 1) % n = r + 1
    BY <2>1, SmallRemainder
  <2> QED BY <2>1, <2>2 DEF r
<1>4. CASE r = n - 1
  <2>1. r + 1 = n /\ (a + 1) % n = 0 /\ 0 \in 0..(n - 1)
    BY <1>1, <1>2, <1>4
  <2>2. n % n = 0
    BY <2>1, SmallRemainder
  <2> QED BY <2>1, <2>2 DEF r
<1> QED BY <1>1, <1>3, <1>4

LEMMA CountDown ==
  ASSUME NEW a \in Int, NEW n \in Nat \ {0}
  PROVE  ((a % n) - 1) % n = (a - 1) % n
<1> DEFINE z == a - 1
           r == z % n
<1>1. z \in Int /\ z + 1 = a
  OBVIOUS
<1> HIDE DEF z
<1>2. r \in 0..(n - 1)
  BY <1>1, Divided
<1>3. \/ r < n - 1 /\ (z + 1) % n = r + 1
      \/ r = n - 1 /\ (z + 1) % n = 0
  BY <1>1, NextQuotient
<1>4. a % n = r + 1 \/ (r = n - 1 /\ a % n = 0)
  BY <1>1, <1>3
<1>5. r % n = r
  BY <1>2, SmallRemainder
<1> DEFINE y == a % n
<1>6. y = r + 1 \/ (r = n - 1 /\ y = 0)
  BY <1>4
<1> HIDE DEF r, y
<1>7. CASE y = r + 1
  <2>1. y - 1 = r
    BY <1>2, <1>7
  <2> QED BY <2>1, <1>5 DEF r, y, z
<1>8. CASE r = n - 1 /\ y = 0
  <2>1. y - 1 = -1 /\ -1 \in Int /\ 0 \in Int
    BY <1>8
  <2>2. (-1) % n = n - 1
    <3>1. n * (-1) = -n
      OBVIOUS
    <3>2. n - 1 \in 0..(n - 1) /\ (n * (-1)) + (n - 1) = -1
      BY <3>1
    <3>3. ((n * (-1)) + (n - 1)) % n = n - 1
      BY <3>2, <2>1, QuotientIs
    <3> QED BY <3>2, <3>3
  <2> QED BY <2>1, <2>2, <1>8 DEF r, y, z
<1> QED BY <1>6, <1>7, <1>8

(* The two parts of a number are unique.                                   *)
LEMMA PartsUnique ==
  ASSUME NEW n \in Nat \ {0}, NEW q \in Int, NEW k \in Int, NEW r \in 0..(n - 1), NEW s \in 0..(n - 1),
         (q * n) + r = (k * n) + s
  PROVE  q = k /\ r = s
<1>1. q * n = n * q /\ k * n = n * k
  OBVIOUS
<1>2. ((n * q) + r) \div n = q /\ ((n * q) + r) % n = r
  BY QuotientIs
<1>3. ((n * k) + s) \div n = k /\ ((n * k) + s) % n = s
  BY QuotientIs
<1> QED BY <1>1, <1>2, <1>3

-----------------------------------------------------------------------------
(* Where a point of the screen is: its row and column of cells, and the    *)
(* cells of the screen from the start on.                                  *)
Screened == mode \in 0..7 /\ start \in Base(mode)..(TOP - 1)

RowOf(p) == p.y \div SCANS
ColOf(p) == p.x \div (PixByte(mode) + 1)
Offset(p) == ((ROWS - 1 - RowOf(p)) * CellsPerRow(mode)) + ColOf(p)

LEMMA DownFacts ==
  ASSUME Screened, NEW o \in 0..(Size(mode) - 1)
  PROVE  /\ Down(start + o) \in Base(mode)..(TOP - 1)
         /\ start + o < TOP => Down(start + o) = start + o
         /\ start + o >= TOP => Down(start + o) = start + o - Size(mode)
  BY ScreenFacts DEF Screened, Down

LEMMA DownUnique ==
  ASSUME Screened, NEW o \in 0..(Size(mode) - 1), NEW u \in 0..(Size(mode) - 1),
         Down(start + o) = Down(start + u)
  PROVE  o = u
  BY ScreenFacts, DownFacts DEF Screened

LEMMA PartsOf ==
  ASSUME NEW s, NEW a, NEW b, NEW c, s = [cell |-> a, scan |-> b, pix |-> c]
  PROVE  s.cell = a /\ s.scan = b /\ s.pix = c
  OBVIOUS

LEMMA PlaceFacts ==
  ASSUME Screened, NEW p \in Coordinate, OnScreen(p)
  PROVE  /\ RowOf(p) \in 0..(ROWS - 1) /\ ColOf(p) \in 0..(CellsPerRow(mode) - 1)
         /\ Offset(p) \in 0..(Size(mode) - 1)
         /\ p.y % SCANS \in 0..(SCANS - 1) /\ p.x % (PixByte(mode) + 1) \in 0..PixByte(mode)
         /\ Where(p) = [cell |-> Down(start + Offset(p)), scan |-> SCANS - 1 - (p.y % SCANS),
                        pix |-> p.x % (PixByte(mode) + 1)]
         /\ Where(p) \in Spots
         /\ Where(p).cell = Down(start + Offset(p)) /\ Where(p).scan = SCANS - 1 - (p.y % SCANS)
         /\ Where(p).pix = p.x % (PixByte(mode) + 1)
<1> DEFINE n == PixByte(mode) + 1
           c == CellsPerRow(mode)
<1>1. /\ c \in Nat \ {0} /\ ROWS \in Nat \ {0} /\ SCANS \in Nat \ {0}
      /\ Size(mode) = ROWS * c /\ TOP \in Nat /\ Base(mode) \in Nat
  BY ScreenFacts DEF Screened
<1>2. n \in Nat \ {0} /\ PixByte(mode) = n - 1
  BY ModeFacts DEF Screened
<1>3. p.x \in 0..(c * n - 1) /\ p.y \in 0..(ROWS * SCANS - 1)
  BY DEF OnScreen, Width, Height
<1>4. c * n = n * c /\ ROWS * SCANS = SCANS * ROWS /\ c * n \in Nat /\ ROWS * SCANS \in Nat
  BY <1>1, <1>2
<1> HIDE DEF n, c
<1>5. p.x \in Nat /\ p.x < n * c /\ p.y \in Nat /\ p.y < SCANS * ROWS
  BY <1>3, <1>4
<1>6. p.x \div n \in 0..(c - 1) /\ p.y \div SCANS \in 0..(ROWS - 1)
  BY <1>1, <1>2, <1>5, QuotientBelow
<1>7. p.y % SCANS \in 0..(SCANS - 1) /\ p.x % n \in 0..(n - 1)
  <2> DEFINE X == p.x
             Y == p.y
  <2>1. X \in Int /\ Y \in Int
    BY <1>5
  <2> HIDE DEF X, Y
  <2>2. Y % SCANS \in 0..(SCANS - 1)
    BY <1>1, <2>1, Divided
  <2>3. X % n \in 0..(n - 1)
    BY <1>2, <2>1, Divided
  <2> QED BY <2>2, <2>3 DEF X, Y
<1>8. RowOf(p) \in 0..(ROWS - 1) /\ ColOf(p) \in 0..(c - 1)
  BY <1>6 DEF RowOf, ColOf, n
<1>9. Offset(p) \in 0..(Size(mode) - 1)
  <2> DEFINE k == ROWS - 1 - RowOf(p)
             u == k * c
             v == ColOf(p)
  <2>1. k \in 0..(ROWS - 1) /\ v \in 0..(c - 1)
    BY <1>1, <1>8
  <2>2. Offset(p) = u + v
    BY DEF Offset, c
  <2> HIDE DEF k, v
  <2>3. u \in Nat /\ u <= (ROWS - 1) * c
    BY <2>1, <1>1
  <2>4. (ROWS - 1) * c = (ROWS * c) - c /\ ROWS * c \in Nat
    BY <1>1
  <2> HIDE DEF u
  <2> DEFINE z == ROWS * c
  <2>5. z \in Nat /\ u <= z - c /\ Size(mode) = z
    BY <2>3, <2>4, <1>1
  <2> HIDE DEF z
  <2>6. u + v \in 0..(z - 1)
    BY <2>1, <2>3, <2>5, <1>1
  <2> QED BY <2>2, <2>5, <2>6
<1>10. Where(p) = [cell |-> Down(start + Offset(p)), scan |-> SCANS - 1 - (p.y % SCANS), pix |-> p.x % n]
  <2> DEFINE b == (ROWS - 1 - RowOf(p)) * CellsPerRow(mode)
             v == ColOf(p)
  <2>1. b \in Int /\ v \in Int /\ start \in Int
    BY <1>1, <1>8, ScreenFacts DEF Screened, c
  <2>2. start + b + v = start + (b + v)
    BY <2>1
  <2>3. start + b + v = start + Offset(p)
    BY <2>2 DEF Offset
  <2> QED BY <2>3 DEF Where, RowOf, ColOf, n
<1>11. SCANS - 1 - (p.y % SCANS) \in 0..(SCANS - 1)
  BY <1>7, <1>1
<1>12. Down(start + Offset(p)) \in Base(mode)..(TOP - 1)
  BY <1>9, DownFacts
<1>13. Where(p) \in Spots
  BY <1>2, <1>7, <1>10, <1>11, <1>12 DEF Spots
<1>14. /\ Where(p).cell = Down(start + Offset(p)) /\ Where(p).scan = SCANS - 1 - (p.y % SCANS)
       /\ Where(p).pix = p.x % n
  <2> DEFINE C == Down(start + Offset(p))
             S == SCANS - 1 - (p.y % SCANS)
             P == p.x % n
  <2>1. Where(p) = [cell |-> C, scan |-> S, pix |-> P]
    BY <1>10
  <2> HIDE DEF C, S, P
  <2>2. Where(p).cell = C /\ Where(p).scan = S /\ Where(p).pix = P
    BY <2>1, PartsOf
  <2> QED BY <2>2 DEF C, S, P
<1> QED BY <1>2, <1>7, <1>8, <1>9, <1>10, <1>13, <1>14 DEF n, c

(* Two points of the screen are not at the same place.                     *)
LEMMA WhereUnique ==
  ASSUME Screened, NEW p \in Coordinate, NEW q \in Coordinate, OnScreen(p), OnScreen(q),
         Where(p) = Where(q)
  PROVE  p = q
<1> DEFINE n == PixByte(mode) + 1
           c == CellsPerRow(mode)
<1>1. c \in Nat \ {0} /\ ROWS \in Nat \ {0} /\ SCANS \in Nat \ {0} /\ n \in Nat \ {0}
  BY ScreenFacts, ModeFacts DEF Screened
<1>2. /\ Where(p).cell = Down(start + Offset(p)) /\ Where(q).cell = Down(start + Offset(q))
      /\ Where(p).scan = SCANS - 1 - (p.y % SCANS) /\ Where(q).scan = SCANS - 1 - (q.y % SCANS)
      /\ Where(p).pix = p.x % n /\ Where(q).pix = q.x % n
  BY PlaceFacts
<1>3. /\ Down(start + Offset(p)) = Down(start + Offset(q))
      /\ SCANS - 1 - (p.y % SCANS) = SCANS - 1 - (q.y % SCANS)
      /\ p.x % n = q.x % n
  BY <1>2
<1>4. /\ p.y % SCANS \in 0..(SCANS - 1) /\ q.y % SCANS \in 0..(SCANS - 1)
      /\ Offset(p) \in 0..(Size(mode) - 1) /\ Offset(q) \in 0..(Size(mode) - 1)
      /\ RowOf(p) \in 0..(ROWS - 1) /\ RowOf(q) \in 0..(ROWS - 1)
      /\ ColOf(p) \in 0..(c - 1) /\ ColOf(q) \in 0..(c - 1)
  BY PlaceFacts
<1>5. p.y % SCANS = q.y % SCANS
  BY <1>1, <1>3, <1>4
<1>6. Offset(p) = Offset(q)
  BY <1>3, <1>4, DownUnique
<1>7. RowOf(p) = RowOf(q) /\ ColOf(p) = ColOf(q)
  <2> DEFINE i == ROWS - 1 - RowOf(p)
             j == ROWS - 1 - RowOf(q)
  <2>1. i \in Int /\ j \in Int
    BY <1>1, <1>4
  <2>2. (i * c) + ColOf(p) = (j * c) + ColOf(q)
    BY <1>6 DEF Offset
  <2> HIDE DEF i, j
  <2>3. i = j /\ ColOf(p) = ColOf(q)
    BY <2>1, <2>2, <1>1, <1>4, PartsUnique
  <2> QED BY <2>3, <1>1, <1>4 DEF i, j
<1>8. p.x \in Int /\ p.y \in Int /\ q.x \in Int /\ q.y \in Int
  BY DEF Coordinate
<1>9. /\ p.y = (SCANS * RowOf(p)) + (p.y % SCANS) /\ q.y = (SCANS * RowOf(q)) + (q.y % SCANS)
      /\ p.x = (n * ColOf(p)) + (p.x % n) /\ q.x = (n * ColOf(q)) + (q.x % n)
  BY <1>1, <1>8, Divided DEF RowOf, ColOf
<1>10. p.x = q.x /\ p.y = q.y
  BY <1>3, <1>5, <1>7, <1>9
<1> QED BY <1>10 DEF Coordinate
-----------------------------------------------------------------------------
(* The steps of a point.                                                   *)
Sides == {"right", "left", "above", "below"}

LEMMA BesideIs ==
  ASSUME NEW p \in Coordinate
  PROVE  /\ Beside(p, "right") = [x |-> p.x + 1, y |-> p.y]
         /\ Beside(p, "left") = [x |-> p.x - 1, y |-> p.y]
         /\ Beside(p, "above") = [x |-> p.x, y |-> p.y + 1]
         /\ Beside(p, "below") = [x |-> p.x, y |-> p.y - 1]
  BY DEF Beside, Coordinate

LEMMA BesideParts ==
  ASSUME NEW p \in Coordinate
  PROVE  /\ Beside(p, "right").x = p.x + 1 /\ Beside(p, "right").y = p.y
         /\ Beside(p, "left").x = p.x - 1 /\ Beside(p, "left").y = p.y
         /\ Beside(p, "above").x = p.x /\ Beside(p, "above").y = p.y + 1
         /\ Beside(p, "below").x = p.x /\ Beside(p, "below").y = p.y - 1
<1>1. Beside(p, "right").x = p.x + 1 /\ Beside(p, "right").y = p.y
  BY BesideIs
<1>2. Beside(p, "left").x = p.x - 1 /\ Beside(p, "left").y = p.y
  BY BesideIs
<1>3. Beside(p, "above").x = p.x /\ Beside(p, "above").y = p.y + 1
  BY BesideIs
<1>4. Beside(p, "below").x = p.x /\ Beside(p, "below").y = p.y - 1
  BY BesideIs
<1> QED BY <1>1, <1>2, <1>3, <1>4

LEMMA BesideType ==
  ASSUME NEW p \in Coordinate, NEW side \in Sides
  PROVE  Beside(p, side) \in Coordinate
<1>1. p.x \in Int /\ p.y \in Int
  BY DEF Coordinate
<1> DEFINE X == p.x
           Y == p.y
<1>2. /\ Beside(p, "right") = [x |-> X + 1, y |-> Y]
      /\ Beside(p, "left") = [x |-> X - 1, y |-> Y]
      /\ Beside(p, "above") = [x |-> X, y |-> Y + 1]
      /\ Beside(p, "below") = [x |-> X, y |-> Y - 1]
  BY BesideIs
<1>3. X \in Int /\ Y \in Int
  BY <1>1
<1> HIDE DEF X, Y
<1>4. /\ [x |-> X + 1, y |-> Y] \in Coordinate /\ [x |-> X - 1, y |-> Y] \in Coordinate
      /\ [x |-> X, y |-> Y + 1] \in Coordinate /\ [x |-> X, y |-> Y - 1] \in Coordinate
  BY <1>3 DEF Coordinate
<1> QED BY <1>2, <1>4 DEF Sides

(* An address that wraps at each step is the one that wraps once.          *)
LEMMA DownOn ==
  ASSUME Screened, NEW o \in 0..(Size(mode) - 1), NEW k \in Nat, o + k \in 0..(Size(mode) - 1)
  PROVE  Down(Down(start + o) + k) = Down(start + (o + k))
  BY ScreenFacts DEF Screened, Down

LEMMA UpBack ==
  ASSUME Screened, NEW o \in 0..(Size(mode) - 1), NEW k \in Nat, o - k \in 0..(Size(mode) - 1)
  PROVE  Up(Down(start + o) - k) = Down(start + (o - k))
  BY ScreenFacts DEF Screened, Down, Up

LEMMA WrapsInScreen ==
  ASSUME Screened, NEW a \in Base(mode)..(TOP - 1), NEW k \in 0..Size(mode)
  PROVE  Down(a + k) \in Base(mode)..(TOP - 1) /\ Up(a - k) \in Base(mode)..(TOP - 1)
  BY ScreenFacts DEF Screened, Down, Up

LEMMA SpotIs ==
  ASSUME NEW s \in Spots
  PROVE  /\ s.cell \in Base(mode)..(TOP - 1) /\ s.scan \in 0..(SCANS - 1) /\ s.pix \in 0..PixByte(mode)
         /\ s = [cell |-> s.cell, scan |-> s.scan, pix |-> s.pix]
  BY DEF Spots

LEMMA SpotNotNone == ASSUME Screened, NEW s \in Spots PROVE s # NoSpot
<1>1. Base(mode) \in Nat
  BY ScreenFacts DEF Screened
<1>2. s.cell >= 0 /\ s.cell \in Int
  BY <1>1, SpotIs
<1>3. NoSpot.cell = -1
  BY DEF NoSpot
<1> QED BY <1>2, <1>3

(* The steps with every part of a spot named.                              *)
RightOf(c, k, x) ==
  IF x < PixByte(mode) THEN [cell |-> c, scan |-> k, pix |-> x + 1]
  ELSE [cell |-> Down(c + 1), scan |-> k, pix |-> 0]
LeftOf(c, k, x) ==
  IF x > 0 THEN [cell |-> c, scan |-> k, pix |-> x - 1]
  ELSE [cell |-> Up(c - 1), scan |-> k, pix |-> PixByte(mode)]
AboveOf(c, k, x) ==
  IF k > 0 THEN [cell |-> c, scan |-> k - 1, pix |-> x]
  ELSE [cell |-> Up(c - CellsPerRow(mode)), scan |-> SCANS - 1, pix |-> x]
BelowOf(c, k, x) ==
  IF k < SCANS - 1 THEN [cell |-> c, scan |-> k + 1, pix |-> x]
  ELSE [cell |-> Down(c + CellsPerRow(mode)), scan |-> 0, pix |-> x]

LEMMA RightIs ==
  ASSUME NEW s, NEW c, NEW k, NEW x, s = [cell |-> c, scan |-> k, pix |-> x]
  PROVE  Right(s) = RightOf(c, k, x)
<1>1. CASE x < PixByte(mode)
  BY <1>1 DEF Right, RightOf
<1>2. CASE ~(x < PixByte(mode))
  <2>1. RightOf(c, k, x) = [cell |-> Down(c + 1), scan |-> k, pix |-> 0]
    BY <1>2 DEF RightOf
  <2>2. Right(s) = [cell |-> Down(c + 1), scan |-> k, pix |-> 0]
    BY <1>2 DEF Right
  <2> QED BY <2>1, <2>2
<1> QED BY <1>1, <1>2

LEMMA LeftIs ==
  ASSUME NEW s, NEW c, NEW k, NEW x, s = [cell |-> c, scan |-> k, pix |-> x]
  PROVE  Left(s) = LeftOf(c, k, x)
<1>1. CASE x > 0
  BY <1>1 DEF Left, LeftOf
<1>2. CASE ~(x > 0)
  <2>1. LeftOf(c, k, x) = [cell |-> Up(c - 1), scan |-> k, pix |-> PixByte(mode)]
    BY <1>2 DEF LeftOf
  <2>2. Left(s) = [cell |-> Up(c - 1), scan |-> k, pix |-> PixByte(mode)]
    BY <1>2 DEF Left
  <2> QED BY <2>1, <2>2
<1> QED BY <1>1, <1>2

LEMMA AboveIs ==
  ASSUME NEW s, NEW c, NEW k, NEW x, s = [cell |-> c, scan |-> k, pix |-> x]
  PROVE  Above(s) = AboveOf(c, k, x)
<1>1. CASE k > 0
  BY <1>1 DEF Above, AboveOf
<1>2. CASE ~(k > 0)
  <2>1. AboveOf(c, k, x) = [cell |-> Up(c - CellsPerRow(mode)), scan |-> SCANS - 1, pix |-> x]
    BY <1>2 DEF AboveOf
  <2>2. Above(s) = [cell |-> Up(c - CellsPerRow(mode)), scan |-> SCANS - 1, pix |-> x]
    BY <1>2 DEF Above
  <2> QED BY <2>1, <2>2
<1> QED BY <1>1, <1>2

LEMMA BelowIs ==
  ASSUME NEW s, NEW c, NEW k, NEW x, s = [cell |-> c, scan |-> k, pix |-> x]
  PROVE  Below(s) = BelowOf(c, k, x)
<1>1. CASE k < SCANS - 1
  BY <1>1 DEF Below, BelowOf
<1>2. CASE ~(k < SCANS - 1)
  <2>1. BelowOf(c, k, x) = [cell |-> Down(c + CellsPerRow(mode)), scan |-> 0, pix |-> x]
    BY <1>2 DEF BelowOf
  <2>2. Below(s) = [cell |-> Down(c + CellsPerRow(mode)), scan |-> 0, pix |-> x]
    BY <1>2 DEF Below
  <2> QED BY <2>1, <2>2
<1> QED BY <1>1, <1>2

LEMMA StepIs ==
  ASSUME Screened, NEW c, NEW k, NEW x,
         [cell |-> c, scan |-> k, pix |-> x] \in Spots
  PROVE  /\ Step([cell |-> c, scan |-> k, pix |-> x], "right") = RightOf(c, k, x)
         /\ Step([cell |-> c, scan |-> k, pix |-> x], "left") = LeftOf(c, k, x)
         /\ Step([cell |-> c, scan |-> k, pix |-> x], "above") = AboveOf(c, k, x)
         /\ Step([cell |-> c, scan |-> k, pix |-> x], "below") = BelowOf(c, k, x)
<1> DEFINE s == [cell |-> c, scan |-> k, pix |-> x]
<1>1. s # NoSpot
  BY SpotNotNone
<1>2. s = [cell |-> c, scan |-> k, pix |-> x]
  OBVIOUS
<1> HIDE DEF s
<1>3. /\ Right(s) = RightOf(c, k, x) /\ Left(s) = LeftOf(c, k, x)
      /\ Above(s) = AboveOf(c, k, x) /\ Below(s) = BelowOf(c, k, x)
  BY <1>2, RightIs, LeftIs, AboveIs, BelowIs
<1>4. Step(s, "right") = Right(s) /\ Step(s, "left") = Left(s)
  BY <1>1 DEF Step
<1>5. Step(s, "above") = Above(s) /\ Step(s, "below") = Below(s)
  BY <1>1 DEF Step
<1> QED BY <1>3, <1>4, <1>5 DEF s

LEMMA StepType ==
  ASSUME Screened, NEW s \in Spots \cup {NoSpot}, NEW side \in Sides
  PROVE  /\ Step(s, side) \in Spots \cup {NoSpot}
         /\ s \in Spots => Step(s, side) \in Spots
<1>1. CASE s = NoSpot
  <2>1. Step(s, side) = s
    BY <1>1 DEF Step
  <2>2. s \notin Spots
    BY <1>1, SpotNotNone
  <2> QED BY <2>1, <2>2, <1>1
<1>2. ASSUME s # NoSpot PROVE Step(s, side) \in Spots
  <2> DEFINE c == s.cell
             k == s.scan
             x == s.pix
             w == CellsPerRow(mode)
  <2>1. s \in Spots
    BY <1>2
  <2>2. /\ c \in Base(mode)..(TOP - 1) /\ k \in 0..(SCANS - 1) /\ x \in 0..PixByte(mode)
        /\ s = [cell |-> c, scan |-> k, pix |-> x]
    BY <2>1, SpotIs
  <2>3. PixByte(mode) \in Nat /\ SCANS \in Nat \ {0} /\ w \in 0..Size(mode) /\ 1 \in 0..Size(mode)
    BY ScreenFacts, ModeFacts DEF Screened
  <2> HIDE DEF c, k, x, w
  <2>4. /\ Down(c + 1) \in Base(mode)..(TOP - 1) /\ Up(c - 1) \in Base(mode)..(TOP - 1)
        /\ Down(c + w) \in Base(mode)..(TOP - 1) /\ Up(c - w) \in Base(mode)..(TOP - 1)
    BY <2>2, <2>3, WrapsInScreen
  <2>5. RightOf(c, k, x) \in Spots /\ LeftOf(c, k, x) \in Spots
    BY <2>2, <2>3, <2>4 DEF RightOf, LeftOf, Spots
  <2>6. AboveOf(c, k, x) \in Spots /\ BelowOf(c, k, x) \in Spots
    BY <2>2, <2>3, <2>4 DEF AboveOf, BelowOf, Spots, w
  <2> QED BY <2>1, <2>2, <2>5, <2>6, StepIs DEF Sides
<1> QED BY <1>1, <1>2

(* The place of a point, from its row, column and remainders.              *)
PlaceOf(o, k, x) == [cell |-> Down(start + o), scan |-> SCANS - 1 - k, pix |-> x]

LEMMA WhereIs ==
  ASSUME Screened, NEW p \in Coordinate, OnScreen(p)
  PROVE  /\ Where(p) = PlaceOf(Offset(p), p.y % SCANS, p.x % (PixByte(mode) + 1))
         /\ Offset(p) \in 0..(Size(mode) - 1)
         /\ p.y % SCANS \in 0..(SCANS - 1) /\ p.x % (PixByte(mode) + 1) \in 0..PixByte(mode)
         /\ PlaceOf(Offset(p), p.y % SCANS, p.x % (PixByte(mode) + 1)) \in Spots
  BY PlaceFacts DEF PlaceOf

LEMMA RightFollows ==
  ASSUME Screened, NEW p \in Coordinate, OnScreen(p), OnScreen(Beside(p, "right"))
  PROVE  Step(Where(p), "right") = Where(Beside(p, "right"))
<1> DEFINE q == Beside(p, "right")
           n == PixByte(mode) + 1
           o == Offset(p)
           k == p.y % SCANS
           x == p.x % n
<1>1. p.x \in Int /\ p.y \in Int
  BY DEF Coordinate
<1>2. q.x = p.x + 1 /\ q.y = p.y /\ q \in Coordinate
  BY BesideParts, BesideType DEF Sides
<1>3. PixByte(mode) \in Nat /\ n \in Nat \ {0} /\ PixByte(mode) = n - 1 /\ SCANS \in Nat \ {0}
  BY ModeFacts, ScreenFacts DEF Screened
<1>4. /\ \/ p.x % n < n - 1 /\ (p.x + 1) % n = (p.x % n) + 1 /\ (p.x + 1) \div n = p.x \div n
         \/ p.x % n = n - 1 /\ (p.x + 1) % n = 0 /\ (p.x + 1) \div n = (p.x \div n) + 1
  <2> HIDE DEF n
  <2> QED BY <1>1, <1>3, NextQuotient
<1>5. /\ Where(p) = PlaceOf(o, k, x) /\ o \in 0..(Size(mode) - 1) /\ k \in 0..(SCANS - 1)
      /\ x \in 0..PixByte(mode) /\ PlaceOf(o, k, x) \in Spots
  BY WhereIs
<1>6. Where(q) = PlaceOf(Offset(q), k, q.x % n) /\ Offset(q) \in 0..(Size(mode) - 1)
  BY <1>2, WhereIs
<1>7. Step(Where(p), "right") = RightOf(Down(start + o), SCANS - 1 - k, x)
  <2> DEFINE C == Down(start + o)
             S == SCANS - 1 - k
  <2>1. PlaceOf(o, k, x) = [cell |-> C, scan |-> S, pix |-> x]
    BY DEF PlaceOf
  <2> HIDE DEF C, S, x
  <2>2. Step([cell |-> C, scan |-> S, pix |-> x], "right") = RightOf(C, S, x)
    BY <2>1, <1>5, StepIs
  <2> QED BY <2>1, <2>2, <1>5 DEF C, S
<1>8. CASE x < n - 1
  <2>1. q.x % n = x + 1 /\ ColOf(q) = ColOf(p) /\ RowOf(q) = RowOf(p)
    <3>1. (p.x + 1) % n = x + 1 /\ (p.x + 1) \div n = p.x \div n
      BY <1>3, <1>4, <1>8
    <3> HIDE DEF q
    <3> QED BY <1>2, <3>1 DEF ColOf, RowOf
  <2>2. Offset(q) = o
    BY <2>1 DEF Offset
  <2>3. RightOf(Down(start + o), SCANS - 1 - k, x) = [cell |-> Down(start + o), scan |-> SCANS - 1 - k, pix |-> x + 1]
    BY <1>3, <1>8 DEF RightOf
  <2>4. Where(q) = [cell |-> Down(start + o), scan |-> SCANS - 1 - k, pix |-> x + 1]
    BY <1>6, <2>1, <2>2 DEF PlaceOf
  <2> QED BY <1>7, <2>3, <2>4
<1>9. CASE x = n - 1
  <2>1. q.x % n = 0 /\ ColOf(q) = ColOf(p) + 1 /\ RowOf(q) = RowOf(p)
    BY <1>2, <1>3, <1>4, <1>9 DEF ColOf, RowOf
  <2>2. Offset(q) = o + 1
    <3> DEFINE b == (ROWS - 1 - RowOf(p)) * CellsPerRow(mode)
               v == ColOf(p)
    <3>1. b \in Int /\ v \in Int
      <4>1. ROWS \in Nat /\ CellsPerRow(mode) \in Nat /\ RowOf(p) \in Int /\ ColOf(p) \in Int
        BY PlaceFacts, ScreenFacts DEF Screened
      <4> QED BY <4>1
    <3>2. Offset(q) = b + (v + 1) /\ o = b + v
      BY <2>1 DEF Offset
    <3> HIDE DEF b, v, o
    <3> QED BY <3>1, <3>2
  <2>3. RightOf(Down(start + o), SCANS - 1 - k, x) = [cell |-> Down(Down(start + o) + 1), scan |-> SCANS - 1 - k, pix |-> 0]
    BY <1>3, <1>9 DEF RightOf
  <2>4. Where(q) = [cell |-> Down(start + (o + 1)), scan |-> SCANS - 1 - k, pix |-> 0]
    BY <1>6, <2>1, <2>2 DEF PlaceOf
  <2>5. Down(Down(start + o) + 1) = Down(start + (o + 1))
    <3> HIDE DEF o
    <3> QED BY <1>5, <1>6, <2>2, 1 \in Nat, DownOn
  <2> QED BY <1>7, <2>3, <2>4, <2>5
<1> QED BY <1>3, <1>4, <1>8, <1>9

LEMMA LeftFollows ==
  ASSUME Screened, NEW p \in Coordinate, OnScreen(p), OnScreen(Beside(p, "left"))
  PROVE  Step(Where(p), "left") = Where(Beside(p, "left"))
<1> DEFINE q == Beside(p, "left")
           n == PixByte(mode) + 1
           o == Offset(p)
           k == p.y % SCANS
           x == p.x % n
<1>1. p.x \in Int /\ p.y \in Int /\ p.x - 1 \in Int
  BY DEF Coordinate
<1>2. q.x = p.x - 1 /\ q.y = p.y /\ q \in Coordinate
  BY BesideParts, BesideType DEF Sides
<1>3. PixByte(mode) \in Nat /\ n \in Nat \ {0} /\ PixByte(mode) = n - 1 /\ SCANS \in Nat \ {0}
  BY ModeFacts, ScreenFacts DEF Screened
<1>4. /\ \/ (p.x - 1) % n < n - 1 /\ p.x % n = ((p.x - 1) % n) + 1 /\ p.x \div n = (p.x - 1) \div n
         \/ (p.x - 1) % n = n - 1 /\ p.x % n = 0 /\ p.x \div n = ((p.x - 1) \div n) + 1
  <2> DEFINE z == p.x - 1
  <2>1. z \in Int /\ z + 1 = p.x
    BY <1>1
  <2> HIDE DEF n, z
  <2>2. \/ z % n < n - 1 /\ (z + 1) % n = (z % n) + 1 /\ (z + 1) \div n = z \div n
        \/ z % n = n - 1 /\ (z + 1) % n = 0 /\ (z + 1) \div n = (z \div n) + 1
    BY <2>1, <1>3, NextQuotient
  <2> QED BY <2>1, <2>2 DEF z
<1>5. /\ Where(p) = PlaceOf(o, k, x) /\ o \in 0..(Size(mode) - 1) /\ k \in 0..(SCANS - 1)
      /\ x \in 0..PixByte(mode) /\ PlaceOf(o, k, x) \in Spots
  BY WhereIs
<1>6. /\ Where(q) = PlaceOf(Offset(q), k, q.x % n) /\ Offset(q) \in 0..(Size(mode) - 1)
      /\ q.x % n \in 0..PixByte(mode)
  BY <1>2, WhereIs
<1>7. Step(Where(p), "left") = LeftOf(Down(start + o), SCANS - 1 - k, x)
  <2> DEFINE C == Down(start + o)
             S == SCANS - 1 - k
  <2>1. PlaceOf(o, k, x) = [cell |-> C, scan |-> S, pix |-> x]
    BY DEF PlaceOf
  <2> HIDE DEF C, S, x
  <2>2. Step([cell |-> C, scan |-> S, pix |-> x], "left") = LeftOf(C, S, x)
    BY <2>1, <1>5, StepIs
  <2> QED BY <2>1, <2>2, <1>5 DEF C, S
<1>8. CASE x > 0
  <2>1. q.x % n = x - 1 /\ ColOf(q) = ColOf(p) /\ RowOf(q) = RowOf(p)
    <3> DEFINE y == (p.x - 1) % n
    <3>1. y = q.x % n /\ y \in Int
      BY <1>2, <1>3, <1>6
    <3>2. p.x % n = y + 1 /\ p.x \div n = (p.x - 1) \div n
      BY <1>4, <1>8
    <3>3. q.x % n = x - 1
      <4> HIDE DEF y
      <4> QED BY <3>1, <3>2 DEF x
    <3> HIDE DEF q
    <3> QED BY <1>2, <3>2, <3>3 DEF ColOf, RowOf
  <2>2. Offset(q) = o
    BY <2>1 DEF Offset
  <2>3. LeftOf(Down(start + o), SCANS - 1 - k, x) = [cell |-> Down(start + o), scan |-> SCANS - 1 - k, pix |-> x - 1]
    BY <1>3, <1>8 DEF LeftOf
  <2>4. Where(q) = [cell |-> Down(start + o), scan |-> SCANS - 1 - k, pix |-> x - 1]
    BY <1>6, <2>1, <2>2 DEF PlaceOf
  <2> QED BY <1>7, <2>3, <2>4
<1>9. CASE x = 0
  <2>0. ~(p.x % n = ((p.x - 1) % n) + 1)
    <3> DEFINE y == (p.x - 1) % n
    <3>1. y = q.x % n /\ y \in Nat
      BY <1>2, <1>3, <1>6
    <3> HIDE DEF y, n
    <3> QED BY <3>1, <1>9 DEF y
  <2>1. q.x % n = PixByte(mode) /\ ColOf(p) = ColOf(q) + 1 /\ RowOf(q) = RowOf(p)
    <3>1. (p.x - 1) % n = n - 1 /\ p.x \div n = ((p.x - 1) \div n) + 1
      BY <1>4, <2>0
    <3> HIDE DEF q
    <3> QED BY <1>2, <1>3, <3>1 DEF ColOf, RowOf
  <2>2. Offset(q) = o - 1
    <3> DEFINE b == (ROWS - 1 - RowOf(p)) * CellsPerRow(mode)
               v == ColOf(q)
    <3>1. b \in Int /\ v \in Int
      <4>1. ROWS \in Nat /\ CellsPerRow(mode) \in Nat /\ RowOf(p) \in Int /\ ColOf(q) \in Int
        BY <1>2, PlaceFacts, ScreenFacts DEF Screened
      <4> QED BY <4>1
    <3>2. Offset(q) = b + v /\ o = b + (v + 1)
      BY <2>1 DEF Offset
    <3> HIDE DEF b, v, o
    <3> QED BY <3>1, <3>2
  <2>3. LeftOf(Down(start + o), SCANS - 1 - k, x) = [cell |-> Up(Down(start + o) - 1), scan |-> SCANS - 1 - k, pix |-> PixByte(mode)]
    BY <1>3, <1>9 DEF LeftOf
  <2>4. Where(q) = [cell |-> Down(start + (o - 1)), scan |-> SCANS - 1 - k, pix |-> PixByte(mode)]
    BY <1>6, <2>1, <2>2 DEF PlaceOf
  <2>5. Up(Down(start + o) - 1) = Down(start + (o - 1))
    <3> HIDE DEF o
    <3> QED BY <1>5, <1>6, <2>2, 1 \in Nat, UpBack
  <2> QED BY <1>7, <2>3, <2>4, <2>5
<1> QED BY <1>3, <1>5, <1>8, <1>9

(* A row up or down is a row of cells less or more.                        *)
LEMMA OffsetOfRow ==
  ASSUME Screened, NEW p \in Coordinate, NEW q \in Coordinate, OnScreen(p), OnScreen(q),
         ColOf(q) = ColOf(p), RowOf(q) = RowOf(p) + 1
  PROVE  Offset(q) = Offset(p) - CellsPerRow(mode)
<1> DEFINE c == CellsPerRow(mode)
           i == ROWS - 1 - RowOf(q)
           v == ColOf(p)
<1>1. c \in Nat /\ ROWS \in Nat /\ RowOf(p) \in Int /\ RowOf(q) \in Int /\ v \in Int
  BY PlaceFacts, ScreenFacts DEF Screened
<1>2. i \in Int /\ ROWS - 1 - RowOf(p) = i + 1
  BY <1>1
<1>3. Offset(q) = (i * c) + v /\ Offset(p) = ((i + 1) * c) + v
  BY <1>2 DEF Offset
<1> HIDE DEF c, i, v
<1>4. (i + 1) * c = (i * c) + c /\ i * c \in Int
  BY <1>1, <1>2
<1> DEFINE z == i * c
<1>5. Offset(q) = z + v /\ Offset(p) = (z + c) + v /\ z \in Int
  BY <1>3, <1>4
<1> HIDE DEF z
<1>6. Offset(q) = Offset(p) - c
  BY <1>1, <1>5
<1> QED BY <1>6 DEF c

LEMMA AboveFollows ==
  ASSUME Screened, NEW p \in Coordinate, OnScreen(p), OnScreen(Beside(p, "above"))
  PROVE  Step(Where(p), "above") = Where(Beside(p, "above"))
<1> DEFINE q == Beside(p, "above")
           n == PixByte(mode) + 1
           c == CellsPerRow(mode)
           o == Offset(p)
           k == p.y % SCANS
           x == p.x % n
<1>1. p.x \in Int /\ p.y \in Int /\ p.y - 1 \in Int
  BY DEF Coordinate
<1>2. q.x = p.x /\ q.y = p.y + 1 /\ q \in Coordinate
  BY BesideParts, BesideType DEF Sides
<1>3. SCANS \in Nat \ {0} /\ c \in Nat
  BY ScreenFacts DEF Screened
<1>4. \/ p.y % SCANS < SCANS - 1 /\ (p.y + 1) % SCANS = (p.y % SCANS) + 1 /\ (p.y + 1) \div SCANS = p.y \div SCANS
      \/ p.y % SCANS = SCANS - 1 /\ (p.y + 1) % SCANS = 0 /\ (p.y + 1) \div SCANS = (p.y \div SCANS) + 1
  <2> DEFINE z == p.y
  <2> HIDE DEF z
  <2>1. \/ z % SCANS < SCANS - 1 /\ (z + 1) % SCANS = (z % SCANS) + 1 /\ (z + 1) \div SCANS = z \div SCANS
        \/ z % SCANS = SCANS - 1 /\ (z + 1) % SCANS = 0 /\ (z + 1) \div SCANS = (z \div SCANS) + 1
    BY <1>1, <1>3, NextQuotient DEF z
  <2> QED BY <2>1 DEF z
<1>5. /\ Where(p) = PlaceOf(o, k, x) /\ o \in 0..(Size(mode) - 1) /\ k \in 0..(SCANS - 1)
      /\ PlaceOf(o, k, x) \in Spots
  BY WhereIs
<1>6. /\ Where(q) = PlaceOf(Offset(q), q.y % SCANS, x) /\ Offset(q) \in 0..(Size(mode) - 1)
      /\ q.y % SCANS \in 0..(SCANS - 1)
  BY <1>2, WhereIs
<1>7. Step(Where(p), "above") = AboveOf(Down(start + o), SCANS - 1 - k, x)
  <2> DEFINE C == Down(start + o)
             D == SCANS - 1 - k
  <2>1. PlaceOf(o, k, x) = [cell |-> C, scan |-> D, pix |-> x]
    BY DEF PlaceOf
  <2> HIDE DEF C, D, x
  <2>2. Step([cell |-> C, scan |-> D, pix |-> x], "above") = AboveOf(C, D, x)
    BY <2>1, <1>5, StepIs
  <2> QED BY <2>1, <2>2, <1>5 DEF C, D
<1>8. ColOf(q) = ColOf(p)
  <2> HIDE DEF q
  <2> QED BY <1>2 DEF ColOf
<1>9. CASE k < SCANS - 1
  <2>1. q.y % SCANS = k + 1 /\ RowOf(q) = RowOf(p)
    <3>1. (p.y + 1) % SCANS = k + 1 /\ (p.y + 1) \div SCANS = p.y \div SCANS
      BY <1>3, <1>4, <1>9
    <3> HIDE DEF q
    <3> QED BY <1>2, <3>1 DEF RowOf
  <2>2. Offset(q) = o
    BY <2>1, <1>8 DEF Offset
  <2>3. AboveOf(Down(start + o), SCANS - 1 - k, x) = [cell |-> Down(start + o), scan |-> SCANS - 1 - (k + 1), pix |-> x]
    <3> HIDE DEF k, o, x
    <3>1. SCANS - 1 - k > 0 /\ (SCANS - 1 - k) - 1 = SCANS - 1 - (k + 1)
      BY <1>3, <1>5, <1>9
    <3> QED BY <3>1 DEF AboveOf
  <2>4. Where(q) = [cell |-> Down(start + o), scan |-> SCANS - 1 - (k + 1), pix |-> x]
    BY <1>6, <2>1, <2>2 DEF PlaceOf
  <2> QED BY <1>7, <2>3, <2>4
<1>10. CASE k = SCANS - 1
  <2>1. q.y % SCANS = 0 /\ RowOf(q) = RowOf(p) + 1
    <3>1. (p.y + 1) % SCANS = 0 /\ (p.y + 1) \div SCANS = (p.y \div SCANS) + 1
      BY <1>3, <1>4, <1>10
    <3> HIDE DEF q
    <3> QED BY <1>2, <3>1 DEF RowOf
  <2>2. Offset(q) = o - c
    BY <1>2, <1>8, <2>1, OffsetOfRow
  <2>3. AboveOf(Down(start + o), SCANS - 1 - k, x) = [cell |-> Up(Down(start + o) - c), scan |-> SCANS - 1, pix |-> x]
    <3> HIDE DEF k, o, x
    <3>1. ~(SCANS - 1 - k > 0)
      BY <1>3, <1>10
    <3> QED BY <3>1 DEF AboveOf
  <2>4. Where(q) = [cell |-> Down(start + (o - c)), scan |-> SCANS - 1, pix |-> x]
    <3>1. SCANS - 1 - 0 = SCANS - 1
      BY <1>3
    <3> QED BY <1>6, <2>1, <2>2, <3>1 DEF PlaceOf
  <2>5. Up(Down(start + o) - c) = Down(start + (o - c))
    <3> HIDE DEF o, c
    <3> QED BY <1>3, <1>5, <1>6, <2>2, UpBack
  <2> QED BY <1>7, <2>3, <2>4, <2>5
<1> QED BY <1>3, <1>5, <1>9, <1>10

LEMMA BelowFollows ==
  ASSUME Screened, NEW p \in Coordinate, OnScreen(p), OnScreen(Beside(p, "below"))
  PROVE  Step(Where(p), "below") = Where(Beside(p, "below"))
<1> DEFINE q == Beside(p, "below")
           n == PixByte(mode) + 1
           c == CellsPerRow(mode)
           o == Offset(p)
           k == p.y % SCANS
           x == p.x % n
<1>1. p.x \in Int /\ p.y \in Int /\ p.y - 1 \in Int
  BY DEF Coordinate
<1>2. q.x = p.x /\ q.y = p.y - 1 /\ q \in Coordinate
  BY BesideParts, BesideType DEF Sides
<1>3. SCANS \in Nat \ {0} /\ c \in Nat
  BY ScreenFacts DEF Screened
<1>4. \/ (p.y - 1) % SCANS < SCANS - 1 /\ p.y % SCANS = ((p.y - 1) % SCANS) + 1 /\ p.y \div SCANS = (p.y - 1) \div SCANS
      \/ (p.y - 1) % SCANS = SCANS - 1 /\ p.y % SCANS = 0 /\ p.y \div SCANS = ((p.y - 1) \div SCANS) + 1
  <2> DEFINE z == p.y - 1
  <2>1. z \in Int /\ z + 1 = p.y
    BY <1>1
  <2> HIDE DEF z
  <2>2. \/ z % SCANS < SCANS - 1 /\ (z + 1) % SCANS = (z % SCANS) + 1 /\ (z + 1) \div SCANS = z \div SCANS
        \/ z % SCANS = SCANS - 1 /\ (z + 1) % SCANS = 0 /\ (z + 1) \div SCANS = (z \div SCANS) + 1
    BY <2>1, <1>3, NextQuotient
  <2> QED BY <2>1, <2>2 DEF z
<1>5. /\ Where(p) = PlaceOf(o, k, x) /\ o \in 0..(Size(mode) - 1) /\ k \in 0..(SCANS - 1)
      /\ PlaceOf(o, k, x) \in Spots
  BY WhereIs
<1>6. /\ Where(q) = PlaceOf(Offset(q), q.y % SCANS, x) /\ Offset(q) \in 0..(Size(mode) - 1)
      /\ q.y % SCANS \in 0..(SCANS - 1)
  BY <1>2, WhereIs
<1>7. Step(Where(p), "below") = BelowOf(Down(start + o), SCANS - 1 - k, x)
  <2> DEFINE C == Down(start + o)
             D == SCANS - 1 - k
  <2>1. PlaceOf(o, k, x) = [cell |-> C, scan |-> D, pix |-> x]
    BY DEF PlaceOf
  <2> HIDE DEF C, D, x
  <2>2. Step([cell |-> C, scan |-> D, pix |-> x], "below") = BelowOf(C, D, x)
    BY <2>1, <1>5, StepIs
  <2> QED BY <2>1, <2>2, <1>5 DEF C, D
<1>8. ColOf(q) = ColOf(p)
  <2> HIDE DEF q
  <2> QED BY <1>2 DEF ColOf
<1> DEFINE y == (p.y - 1) % SCANS
<1>11. y = q.y % SCANS /\ y \in 0..(SCANS - 1)
  BY <1>2, <1>6
<1>9. CASE k > 0
  <2>1. q.y % SCANS = k - 1 /\ RowOf(q) = RowOf(p)
    <3>2. k = y + 1 /\ p.y \div SCANS = (p.y - 1) \div SCANS
      BY <1>4, <1>9
    <3>3. q.y % SCANS = k - 1
      <4> HIDE DEF y, k
      <4> QED BY <1>3, <1>11, <3>2
    <3> HIDE DEF q
    <3> QED BY <1>2, <3>2, <3>3 DEF RowOf
  <2>2. Offset(q) = o
    BY <2>1, <1>8 DEF Offset
  <2>3. BelowOf(Down(start + o), SCANS - 1 - k, x) = [cell |-> Down(start + o), scan |-> SCANS - 1 - (k - 1), pix |-> x]
    <3> HIDE DEF k, o, x
    <3>1. SCANS - 1 - k < SCANS - 1 /\ (SCANS - 1 - k) + 1 = SCANS - 1 - (k - 1)
      BY <1>3, <1>5, <1>9
    <3> QED BY <3>1 DEF BelowOf
  <2>4. Where(q) = [cell |-> Down(start + o), scan |-> SCANS - 1 - (k - 1), pix |-> x]
    BY <1>6, <2>1, <2>2 DEF PlaceOf
  <2> QED BY <1>7, <2>3, <2>4
<1>10. CASE k = 0
  <2>0. ~(k = y + 1)
    <3> HIDE DEF y, k
    <3> QED BY <1>3, <1>11, <1>10
  <2>1. q.y % SCANS = SCANS - 1 /\ RowOf(p) = RowOf(q) + 1
    <3>1. (p.y - 1) % SCANS = SCANS - 1 /\ p.y \div SCANS = ((p.y - 1) \div SCANS) + 1
      BY <1>4, <2>0
    <3> HIDE DEF q
    <3> QED BY <1>2, <3>1 DEF RowOf
  <2>2. Offset(q) = o + c
    <3>1. o = Offset(q) - c
      BY <1>2, <1>8, <2>1, OffsetOfRow
    <3> DEFINE u == Offset(q)
    <3>2. u \in Int /\ o \in Int
      BY <1>5, <1>6
    <3> HIDE DEF u, o, c
    <3> QED BY <1>3, <3>1, <3>2 DEF u
  <2>3. BelowOf(Down(start + o), SCANS - 1 - k, x) = [cell |-> Down(Down(start + o) + c), scan |-> 0, pix |-> x]
    <3> HIDE DEF k, o, x
    <3>1. ~(SCANS - 1 - k < SCANS - 1)
      BY <1>3, <1>10
    <3> QED BY <3>1 DEF BelowOf
  <2>4. Where(q) = [cell |-> Down(start + (o + c)), scan |-> 0, pix |-> x]
    <3>1. SCANS - 1 - (SCANS - 1) = 0
      BY <1>3
    <3> QED BY <1>6, <2>1, <2>2, <3>1 DEF PlaceOf
  <2>5. Down(Down(start + o) + c) = Down(start + (o + c))
    <3> HIDE DEF o, c
    <3> QED BY <1>3, <1>5, <1>6, <2>2, DownOn
  <2> QED BY <1>7, <2>3, <2>4, <2>5
<1> QED BY <1>3, <1>5, <1>9, <1>10

(* The line drawer steps the place of a point along with the point.        *)
LEMMA StepFollows ==
  ASSUME Screened, NEW p \in Coordinate, NEW side \in Sides, OnScreen(p), OnScreen(Beside(p, side))
  PROVE  Step(Where(p), side) = Where(Beside(p, side))
  BY RightFollows, LeftFollows, AboveFollows, BelowFollows DEF Sides
-----------------------------------------------------------------------------
(* The line in progress, along its major axis and across it towards its    *)
(* end.                                                                    *)
RunOf(l, p) == IF l.major = "above" THEN p.y - l.from.y ELSE p.x - l.from.x
AcrossOf(l, p) == IF l.major = "above" THEN p.x - l.from.x ELSE p.y - l.from.y
RiseOf(l, p) == IF l.minor \in {"left", "below"} THEN -AcrossOf(l, p) ELSE AcrossOf(l, p)
ErrorAt(l, p) == (l.dmaj \div 2) - (RunOf(l, p) * l.dmin) + (RiseOf(l, p) * l.dmaj)
RoomOf(l) == IF l.major = "above" THEN win.t - l.from.y ELSE win.r - l.from.x

Lines ==
  [from : Coordinate, end : Coordinate, xy : Coordinate, out : BOOLEAN, dotted : BOOLEAN,
   major : {"right", "above"}, minor : Sides, dmaj : Nat, dmin : Nat, err : Int, loops : Nat,
   counter : 0..(BYTE - 1), dot : BOOLEAN]

(* The ends of a line and its slope, which no turn of the loop changes.    *)
Straight(l) ==
  /\ l.major = "right" => l.minor \in {"above", "below"}
  /\ l.major = "above" => l.minor \in {"right", "left"}
  /\ l.dmin <= l.dmaj
  /\ RunOf(l, l.end) = l.dmaj /\ RiseOf(l, l.end) = l.dmin
  /\ l.out => Limits(l.from) # {}
  /\ ~l.out => Limits(l.from) = {}

(* The error says how far the point is from the true line, and the counter *)
(* how far it is from the end of the window, in points across.             *)
Turned(l) ==
  /\ l.loops \in 1..(l.dmaj + 1)
  /\ RunOf(l, l.xy) = l.dmaj + 1 - l.loops /\ RiseOf(l, l.xy) >= 0
  /\ l.dmaj = 0 => RiseOf(l, l.xy) = 0
  /\ l.err = ErrorAt(l, l.xy) /\ l.err \in 0..l.dmaj /\ (l.dmaj > 0 => l.err < l.dmaj)
  /\ l.dot => RunOf(l, l.xy) % 2 = 0
  /\ ~l.dot => RunOf(l, l.xy) % 2 = 1
  /\ ~l.out => l.counter = (RoomOf(l) + 1 - RiseOf(l, l.xy)) % BYTE

(* The place of a point, its sides, the clipping and the points of a line, *)
(* named apart from the state they are in.                                 *)
WhereAt(m, st, p) ==
  LET a == st + (ROWS - 1 - p.y \div SCANS) * CellsPerRow(m) + p.x \div (PixByte(m) + 1)
  IN [cell |-> IF a >= TOP THEN a - Size(m) ELSE a, scan |-> SCANS - 1 - (p.y % SCANS),
      pix |-> p.x % (PixByte(m) + 1)]
LimitsIn(w, p) ==
  (IF p.y < w.b THEN {"below"} ELSE IF p.y > w.t THEN {"above"} ELSE {}) \cup
  (IF p.x < w.l THEN {"left"} ELSE IF p.x > w.r THEN {"right"} ELSE {})
NearOf(l, p) ==
  /\ RunOf(l, p) \in 0..l.dmaj
  /\ IF l.dmaj = 0 THEN p = l.from
     ELSE /\ -l.dmaj <= 2 * (RiseOf(l, p) * l.dmaj - RunOf(l, p) * l.dmin)
          /\ 2 * (RiseOf(l, p) * l.dmaj - RunOf(l, p) * l.dmin) < l.dmaj
  /\ l.dotted => RunOf(l, p) % 2 = 0
ClipsNot(w, l) == ~l.out /\ (LimitsIn(w, l.end) # {} \/ w.r - l.from.x >= BYTE)
InWindow(w, l) == {q \in [x : w.l..w.r, y : w.b..w.t] : NearOf(l, q)}
WantingAll(m, st, w, l) == {WhereAt(m, st, p) : p \in InWindow(w, l)}
Again(m, st, w, pl) ==
  IF BitOf(pl.n, 3) /\ LimitsIn(w, pl.to) = {} THEN {WhereAt(m, st, pl.to)} ELSE {}

(* What the line has drawn when the next point is r along it, and in all.  *)
Wanting(m, st, w, l, r) == {WhereAt(m, st, p) : p \in {q \in InWindow(w, l) : RunOf(l, q) < r}}
DrawnUpTo(m, st, w, l, pl, d, r) ==
  ~(l.dotted /\ l.out) /\ ~ClipsNot(w, l) =>
    /\ {d[i] : i \in DOMAIN d} = Wanting(m, st, w, l, r) \cup Again(m, st, w, pl)
    /\ IsFiniteSet(Wanting(m, st, w, l, r))
    /\ Len(d) = Cardinality(Wanting(m, st, w, l, r)) + Cardinality(Again(m, st, w, pl))
DrawnAll(m, st, w, l, pl, d) ==
  ~(l.dotted /\ l.out) /\ ~ClipsNot(w, l) =>
    /\ {d[i] : i \in DOMAIN d} = WantingAll(m, st, w, l) \cup Again(m, st, w, pl)
    /\ Len(d) = Cardinality(WantingAll(m, st, w, l)) + Cardinality(Again(m, st, w, pl))
DrawnTo(r) == DrawnUpTo(mode, start, win, line, plot, drawn, r)

(* What the graphics keep between commands and within one.                 *)
PlacesInv ==
  /\ mode \in Modes /\ start \in Base(mode)..(TOP - 1) /\ set \in 0..MaxSettings
  /\ win \in Windows /\ (PixByte(mode) # 0 => InScreen(mode, win))
  /\ org \in Coordinate /\ ext \in Coordinate /\ curs \in Coordinate /\ Bounded(ext)
  /\ plot \in [n : 0..255, to : Coordinate]
  /\ spot \in Spots \cup {NoSpot}
  /\ pc \in {"rest", "line", "move"}
  /\ pc = "rest" => line = NoLine /\ drawn = <<>>
  /\ pc # "rest" => PixByte(mode) # 0

LineInv ==
  pc = "line" =>
    /\ line \in Lines /\ Straight(line) /\ Turned(line) /\ plot.n < 32
    /\ drawn \in Seq(Spots \cup {NoSpot}) /\ DrawnTo(RunOf(line, line.xy))

GraphicsInv == PlacesInv /\ LineInv /\ SpotFollows /\ LineDrawn

-----------------------------------------------------------------------------
(* A point in the window is a point of the screen.                         *)
Windowed == Screened /\ win \in Windows /\ PixByte(mode) # 0 /\ InScreen(mode, win)

LEMMA PlacesScreened == ASSUME PlacesInv PROVE Screened /\ (PixByte(mode) # 0 => Windowed)
  BY ModesAssumption DEF PlacesInv, Screened, Windowed

LEMMA LimitsIs ==
  ASSUME NEW p
  PROVE  Limits(p) = {} <=> ~(p.y < win.b) /\ ~(p.y > win.t) /\ ~(p.x < win.l) /\ ~(p.x > win.r)
  BY DEF Limits

LEMMA WindowSeen ==
  ASSUME Windowed, NEW p \in Coordinate, Limits(p) = {}
  PROVE  /\ OnScreen(p) /\ p.x \in win.l..win.r /\ p.y \in win.b..win.t
         /\ p \in [x : win.l..win.r, y : win.b..win.t]
<1>1. p.x \in Int /\ p.y \in Int
  BY DEF Coordinate
<1>2. win.l \in Int /\ win.b \in Int /\ win.r \in Int /\ win.t \in Int
  BY DEF Windowed, Windows
<1>3. p.x \in win.l..win.r /\ p.y \in win.b..win.t
  BY <1>1, <1>2, LimitsIs
<1>4. WidthOf(mode) = Width /\ WidthOf(mode) \in Int /\ Height \in Int
  BY ScreenFacts, ModeFacts DEF Windowed, Screened, WidthOf, Width
<1>5. OnScreen(p)
  <2> DEFINE W == Width
             H == Height
             X == p.x
             Y == p.y
  <2>1. X >= 0 /\ X <= W - 1 /\ Y >= 0 /\ Y <= H - 1 /\ X \in Int /\ Y \in Int /\ W \in Int /\ H \in Int
    BY <1>1, <1>2, <1>3, <1>4 DEF Windowed, InScreen
  <2> HIDE DEF W, H, X, Y
  <2>2. X \in 0..(W - 1) /\ Y \in 0..(H - 1)
    BY <2>1
  <2> QED BY <2>2 DEF W, H, X, Y, OnScreen
<1>6. p = [x |-> p.x, y |-> p.y]
  BY DEF Coordinate
<1>7. p \in [x : win.l..win.r, y : win.b..win.t]
  BY <1>3, <1>6
<1> QED BY <1>3, <1>5, <1>7

LEMMA SeenInWindow ==
  ASSUME Windowed, NEW p \in [x : win.l..win.r, y : win.b..win.t]
  PROVE  p \in Coordinate /\ Limits(p) = {}
<1>1. win.l \in Int /\ win.b \in Int /\ win.r \in Int /\ win.t \in Int
  BY DEF Windowed, Windows
<1>2. p.x \in win.l..win.r /\ p.y \in win.b..win.t /\ p = [x |-> p.x, y |-> p.y]
  OBVIOUS
<1>3. p.x \in Int /\ p.y \in Int
  BY <1>1, <1>2
<1>4. p \in Coordinate
  BY <1>2, <1>3 DEF Coordinate
<1>5. Limits(p) = {}
  BY <1>1, <1>2, <1>3, LimitsIs
<1> QED BY <1>4, <1>5

LEMMA CalculatedType ==
  ASSUME Windowed, spot \in Spots \cup {NoSpot}, NEW p \in Coordinate
  PROVE  /\ Calculated(p) \in Spots \cup {NoSpot}
         /\ Limits(p) = {} => Calculated(p) = Where(p) /\ Where(p) \in Spots
<1>1. ASSUME Limits(p) = {} PROVE Where(p) \in Spots
  BY <1>1, WindowSeen, PlaceFacts DEF Windowed
<1>2. CASE Limits(p) = {}
  BY <1>1, <1>2 DEF Calculated
<1>3. CASE Limits(p) # {}
  BY <1>3 DEF Calculated
<1> QED BY <1>2, <1>3

(* What the places depend on.                                              *)
LEMMA SpotsKept ==
  mode' = mode => Spots' = Spots
  BY DEF Spots

-----------------------------------------------------------------------------
(* A new line.                                                             *)
LEMMA AbsIs ==
  ASSUME NEW a \in Int
  PROVE  Abs(a) \in Nat /\ (a > 0 => Abs(a) = a) /\ (a < 0 => Abs(a) = -a) /\ (a = 0 => Abs(a) = 0)
  BY DEF Abs

IsSteep(a, b) == Abs(a.y - b.y) > Abs(a.x - b.x)
IsFlipped(a, b) == IF IsSteep(a, b) THEN a.y - b.y > 0 ELSE a.x - b.x > 0

SameWay(a, b) == a.x - b.x < 0 <=> a.y - b.y < 0

LEMMA NewLineEnds ==
  ASSUME NEW n, NEW a \in Coordinate, NEW b \in Coordinate
  PROVE  /\ IsFlipped(a, b) => NewLine(n, a, b).from = b /\ NewLine(n, a, b).end = a
         /\ ~IsFlipped(a, b) => NewLine(n, a, b).from = a /\ NewLine(n, a, b).end = b
         /\ NewLine(n, a, b).xy = NewLine(n, a, b).from
<1>1. CASE IsFlipped(a, b)
  <2>1. NewLine(n, a, b).from = b /\ NewLine(n, a, b).xy = b
    BY <1>1 DEF NewLine, IsFlipped, IsSteep
  <2>2. NewLine(n, a, b).end = a
    BY <1>1 DEF NewLine, IsFlipped, IsSteep
  <2> QED BY <1>1, <2>1, <2>2
<1>2. CASE ~IsFlipped(a, b)
  <2>1. NewLine(n, a, b).from = a /\ NewLine(n, a, b).xy = a
    BY <1>2 DEF NewLine, IsFlipped, IsSteep
  <2>2. NewLine(n, a, b).end = b
    BY <1>2 DEF NewLine, IsFlipped, IsSteep
  <2> QED BY <1>2, <2>1, <2>2
<1> QED BY <1>1, <1>2

LEMMA NewLineOut ==
  ASSUME NEW n, NEW a \in Coordinate, NEW b \in Coordinate
  PROVE  /\ NewLine(n, a, b).out => Limits(NewLine(n, a, b).from) # {}
         /\ ~NewLine(n, a, b).out => Limits(NewLine(n, a, b).from) = {}
<1>1. CASE IsFlipped(a, b)
  <2>1. /\ NewLine(n, a, b).out => Limits(b) # {}
        /\ ~NewLine(n, a, b).out => Limits(b) = {}
    BY <1>1 DEF NewLine, IsFlipped, IsSteep
  <2>2. NewLine(n, a, b).from = b
    BY <1>1, NewLineEnds
  <2> QED BY <2>1, <2>2
<1>2. CASE ~IsFlipped(a, b)
  <2>1. /\ NewLine(n, a, b).out => Limits(a) # {}
        /\ ~NewLine(n, a, b).out => Limits(a) = {}
    BY <1>2 DEF NewLine, IsFlipped, IsSteep
  <2>2. NewLine(n, a, b).from = a
    BY <1>2, NewLineEnds
  <2> QED BY <2>1, <2>2
<1> QED BY <1>1, <1>2

LEMMA NewLineWay ==
  ASSUME NEW n, NEW a \in Coordinate, NEW b \in Coordinate
  PROVE  /\ IsSteep(a, b) => /\ NewLine(n, a, b).major = "above"
                             /\ NewLine(n, a, b).dmaj = Abs(a.y - b.y)
                             /\ NewLine(n, a, b).dmin = Abs(a.x - b.x)
                             /\ SameWay(a, b) => NewLine(n, a, b).minor = "right"
                             /\ ~SameWay(a, b) => NewLine(n, a, b).minor = "left"
         /\ ~IsSteep(a, b) => /\ NewLine(n, a, b).major = "right"
                              /\ NewLine(n, a, b).dmaj = Abs(a.x - b.x)
                              /\ NewLine(n, a, b).dmin = Abs(a.y - b.y)
                              /\ SameWay(a, b) => NewLine(n, a, b).minor = "above"
                              /\ ~SameWay(a, b) => NewLine(n, a, b).minor = "below"
<1>1. CASE IsSteep(a, b)
  <2>1. NewLine(n, a, b).major = "above"
    BY <1>1 DEF NewLine, IsSteep
  <2>2. NewLine(n, a, b).dmaj = Abs(a.y - b.y)
    BY <1>1 DEF NewLine, IsSteep
  <2>3. NewLine(n, a, b).dmin = Abs(a.x - b.x)
    BY <1>1 DEF NewLine, IsSteep
  <2>4. SameWay(a, b) => NewLine(n, a, b).minor = "right"
    BY <1>1 DEF NewLine, IsSteep, SameWay
  <2>5. ~SameWay(a, b) => NewLine(n, a, b).minor = "left"
    BY <1>1 DEF NewLine, IsSteep, SameWay
  <2> QED BY <1>1, <2>1, <2>2, <2>3, <2>4, <2>5
<1>2. CASE ~IsSteep(a, b)
  <2>1. NewLine(n, a, b).major = "right"
    BY <1>2 DEF NewLine, IsSteep
  <2>2. NewLine(n, a, b).dmaj = Abs(a.x - b.x)
    BY <1>2 DEF NewLine, IsSteep
  <2>3. NewLine(n, a, b).dmin = Abs(a.y - b.y)
    BY <1>2 DEF NewLine, IsSteep
  <2>4. SameWay(a, b) => NewLine(n, a, b).minor = "above"
    BY <1>2 DEF NewLine, IsSteep, SameWay
  <2>5. ~SameWay(a, b) => NewLine(n, a, b).minor = "below"
    BY <1>2 DEF NewLine, IsSteep, SameWay
  <2> QED BY <1>2, <2>1, <2>2, <2>3, <2>4, <2>5
<1> QED BY <1>1, <1>2

LEMMA NewLineCounts ==
  ASSUME NEW n, NEW a \in Coordinate, NEW b \in Coordinate
  PROVE  /\ NewLine(n, a, b).err = NewLine(n, a, b).dmaj \div 2
         /\ NewLine(n, a, b).loops = NewLine(n, a, b).dmaj + 1
         /\ NewLine(n, a, b).counter = ((RoomOf(NewLine(n, a, b)) % BYTE) + 1) % BYTE
         /\ NewLine(n, a, b).dot
<1> DEFINE d == IF IsSteep(a, b) THEN Abs(a.y - b.y) ELSE Abs(a.x - b.x)
           f == IF IsFlipped(a, b) THEN b ELSE a
           room == IF IsSteep(a, b) THEN win.t - f.y ELSE win.r - f.x
<1>1. NewLine(n, a, b).dmaj = d
  BY DEF NewLine, IsSteep
<1>2. NewLine(n, a, b).err = d \div 2
  BY DEF NewLine, FirstError, IsSteep
<1>3. NewLine(n, a, b).loops = d + 1
  BY DEF NewLine, IsSteep
<1>4. NewLine(n, a, b).dot
  BY DEF NewLine
<1>5. NewLine(n, a, b).counter = ((room % BYTE) + 1) % BYTE
  BY DEF NewLine, IsSteep, IsFlipped
<1>6. RoomOf(NewLine(n, a, b)) = room
  <2>1. NewLine(n, a, b).from = f
    <3>1. CASE IsFlipped(a, b)
      <4>1. NewLine(n, a, b).from = b
        BY <3>1, NewLineEnds
      <4> QED BY <3>1, <4>1
    <3>2. CASE ~IsFlipped(a, b)
      <4>1. NewLine(n, a, b).from = a
        BY <3>2, NewLineEnds
      <4> QED BY <3>2, <4>1
    <3> QED BY <3>1, <3>2
  <2> HIDE DEF f
  <2>2. CASE IsSteep(a, b)
    BY <2>1, <2>2, NewLineWay DEF RoomOf
  <2>3. CASE ~IsSteep(a, b)
    BY <2>1, <2>3, NewLineWay DEF RoomOf
  <2> QED BY <2>2, <2>3
<1> HIDE DEF d, room
<1> QED BY <1>1, <1>2, <1>3, <1>4, <1>5, <1>6

LEMMA NewLineFields ==
  ASSUME Windowed, NEW n, NEW a \in Coordinate, NEW b \in Coordinate
  PROVE  /\ NewLine(n, a, b).from \in {a, b} /\ NewLine(n, a, b).end \in {a, b}
         /\ NewLine(n, a, b).dmaj \in Nat /\ NewLine(n, a, b).dmin \in Nat
         /\ NewLine(n, a, b).dmin <= NewLine(n, a, b).dmaj
         /\ NewLine(n, a, b).major \in {"right", "above"} /\ NewLine(n, a, b).minor \in Sides
         /\ NewLine(n, a, b).err \in Nat /\ NewLine(n, a, b).loops \in Nat
         /\ NewLine(n, a, b).counter \in 0..(BYTE - 1)
         /\ RoomOf(NewLine(n, a, b)) \in Int
<1> DEFINE L == NewLine(n, a, b)
           dx == a.x - b.x
           dy == a.y - b.y
<1>1. dx \in Int /\ dy \in Int
  BY DEF Coordinate
<1>2. Abs(dx) \in Nat /\ Abs(dy) \in Nat
  <2> HIDE DEF dx, dy
  <2> QED BY <1>1, AbsIs
<1>3. L.from \in {a, b} /\ L.end \in {a, b}
  <2>1. \/ L.from = b /\ L.end = a
        \/ L.from = a /\ L.end = b
    BY NewLineEnds
  <2> HIDE DEF L
  <2> QED BY <2>1
<1>4. L.dmaj \in Nat /\ L.dmin \in Nat /\ L.dmin <= L.dmaj
  <2>1. IsSteep(a, b) => L.dmaj = Abs(dy) /\ L.dmin = Abs(dx)
    BY NewLineWay
  <2>2. ~IsSteep(a, b) => L.dmaj = Abs(dx) /\ L.dmin = Abs(dy)
    BY NewLineWay
  <2>3. IsSteep(a, b) <=> Abs(dy) > Abs(dx)
    BY DEF IsSteep
  <2> HIDE DEF L, dx, dy
  <2> QED BY <1>2, <2>1, <2>2, <2>3
<1>5. L.major \in {"right", "above"} /\ L.minor \in Sides
  BY NewLineWay DEF Sides
<1>6. L.err = L.dmaj \div 2 /\ L.loops = L.dmaj + 1
  BY NewLineCounts
<1>7. L.counter = ((RoomOf(L) % BYTE) + 1) % BYTE
  BY NewLineCounts
<1>8. RoomOf(L) \in Int
  <2>1. L.from \in Coordinate
    BY <1>3
  <2>2. win.t \in Int /\ win.r \in Int
    BY DEF Windowed, Windows
  <2> HIDE DEF L
  <2> QED BY <2>1, <2>2 DEF RoomOf, Coordinate
<1>9. BYTE \in Nat \ {0}
  BY SizeAssumption
<1> HIDE DEF L
<1>10. L.err \in Nat /\ L.loops \in Nat
  BY <1>4, <1>6
<1>11. L.counter \in 0..(BYTE - 1)
  <2> DEFINE z == (RoomOf(L) % BYTE) + 1
  <2>1. z \in Int
    BY <1>8, <1>9
  <2> HIDE DEF z
  <2>2. z % BYTE \in 0..(BYTE - 1)
    BY <2>1, <1>9
  <2> QED BY <2>2, <1>7 DEF z
<1> QED BY <1>3, <1>4, <1>5, <1>8, <1>10, <1>11 DEF L

LEMMA NewLineTyped ==
  ASSUME Windowed, NEW n, NEW a \in Coordinate, NEW b \in Coordinate
  PROVE  NewLine(n, a, b) \in Lines
<1> DEFINE L == NewLine(n, a, b)
<1>1. /\ L.from \in Coordinate /\ L.end \in Coordinate /\ L.xy \in Coordinate
      /\ L.dmaj \in Nat /\ L.dmin \in Nat /\ L.err \in Int /\ L.loops \in Nat
      /\ L.major \in {"right", "above"} /\ L.minor \in Sides /\ L.counter \in 0..(BYTE - 1)
  <2>1. L.from \in {a, b} /\ L.end \in {a, b} /\ L.xy = L.from
    BY NewLineFields, NewLineEnds
  <2>2. /\ L.dmaj \in Nat /\ L.dmin \in Nat /\ L.err \in Nat /\ L.loops \in Nat
        /\ L.major \in {"right", "above"} /\ L.minor \in Sides /\ L.counter \in 0..(BYTE - 1)
    BY NewLineFields
  <2> HIDE DEF L
  <2> QED BY <2>1, <2>2
<1>2. L.out \in BOOLEAN /\ L.dotted \in BOOLEAN /\ L.dot \in BOOLEAN
  BY DEF NewLine, BitOf
<1>3. L = [from |-> L.from, end |-> L.end, xy |-> L.xy, out |-> L.out, dotted |-> L.dotted,
           major |-> L.major, minor |-> L.minor, dmaj |-> L.dmaj, dmin |-> L.dmin, err |-> L.err,
           loops |-> L.loops, counter |-> L.counter, dot |-> L.dot]
  BY DEF NewLine
<1> HIDE DEF L
<1>4. L \in Lines
  BY <1>1, <1>2, <1>3 DEF Lines
<1> QED BY <1>4 DEF L

LEMMA NewLineStraight ==
  ASSUME Windowed, NEW n, NEW a \in Coordinate, NEW b \in Coordinate
  PROVE  Straight(NewLine(n, a, b))
<1> DEFINE L == NewLine(n, a, b)
           ax == a.x
           ay == a.y
           bx == b.x
           by == b.y
<1>1. ax \in Int /\ ay \in Int /\ bx \in Int /\ by \in Int
  BY DEF Coordinate
<1>2. /\ IsFlipped(a, b) => L.from = b /\ L.end = a
      /\ ~IsFlipped(a, b) => L.from = a /\ L.end = b
  BY NewLineEnds
<1>3. /\ IsSteep(a, b) => /\ L.major = "above"
                          /\ L.dmaj = Abs(ay - by) /\ L.dmin = Abs(ax - bx)
                          /\ SameWay(a, b) => L.minor = "right"
                          /\ ~SameWay(a, b) => L.minor = "left"
      /\ ~IsSteep(a, b) => /\ L.major = "right"
                           /\ L.dmaj = Abs(ax - bx) /\ L.dmin = Abs(ay - by)
                           /\ SameWay(a, b) => L.minor = "above"
                           /\ ~SameWay(a, b) => L.minor = "below"
  BY NewLineWay
<1>4. L.dmin <= L.dmaj
  BY NewLineFields
<1>5. (L.out => Limits(L.from) # {}) /\ (~L.out => Limits(L.from) = {})
  BY NewLineOut
<1>6. /\ SameWay(a, b) <=> (ax - bx < 0 <=> ay - by < 0)
      /\ IsSteep(a, b) <=> Abs(ay - by) > Abs(ax - bx)
      /\ IsSteep(a, b) => (IsFlipped(a, b) <=> ay - by > 0)
      /\ ~IsSteep(a, b) => (IsFlipped(a, b) <=> ax - bx > 0)
  BY DEF SameWay, IsSteep, IsFlipped
<1> HIDE DEF L
<1>7. ASSUME IsSteep(a, b)
      PROVE  /\ L.major = "above" /\ L.minor \in {"right", "left"}
             /\ RunOf(L, L.end) = L.dmaj /\ RiseOf(L, L.end) = L.dmin
  <2>1. /\ L.major = "above" /\ RunOf(L, L.end) = L.end.y - L.from.y
        /\ SameWay(a, b) => RiseOf(L, L.end) = L.end.x - L.from.x
        /\ ~SameWay(a, b) => RiseOf(L, L.end) = -(L.end.x - L.from.x)
        /\ L.minor \in {"right", "left"}
    BY <1>3, <1>7 DEF RunOf, RiseOf, AcrossOf
  <2>2. CASE ay - by > 0
    <3>1. L.end.y - L.from.y = ay - by /\ L.end.x - L.from.x = ax - bx
      BY <1>2, <1>6, <1>7, <2>2
    <3>2. SameWay(a, b) <=> ~(ax - bx < 0)
      BY <1>1, <1>6, <2>2
    <3> HIDE DEF ax, ay, bx, by
    <3>3. L.dmaj = ay - by /\ (SameWay(a, b) => L.dmin = ax - bx) /\ (~SameWay(a, b) => L.dmin = -(ax - bx))
      BY <1>1, <1>3, <1>7, <2>2, <3>2 DEF Abs
    <3> QED BY <2>1, <3>1, <3>3
  <2>3. CASE ~(ay - by > 0)
    <3>1. L.end.y - L.from.y = by - ay /\ L.end.x - L.from.x = bx - ax
      BY <1>2, <1>6, <1>7, <2>3
    <3> HIDE DEF ax, ay, bx, by
    <3>2. ay - by < 0
      BY <1>1, <1>6, <1>7, <2>3 DEF Abs
    <3>3. SameWay(a, b) <=> ax - bx < 0
      BY <1>6, <3>2
    <3>4. L.dmaj = by - ay /\ (SameWay(a, b) => L.dmin = bx - ax) /\ (~SameWay(a, b) => L.dmin = -(bx - ax))
      BY <1>1, <1>3, <1>7, <3>2, <3>3 DEF Abs
    <3> QED BY <2>1, <3>1, <3>4
  <2> QED BY <2>2, <2>3
<1>8. ASSUME ~IsSteep(a, b)
      PROVE  /\ L.major = "right" /\ L.minor \in {"above", "below"}
             /\ RunOf(L, L.end) = L.dmaj /\ RiseOf(L, L.end) = L.dmin
  <2>1. /\ L.major = "right" /\ RunOf(L, L.end) = L.end.x - L.from.x
        /\ SameWay(a, b) => RiseOf(L, L.end) = L.end.y - L.from.y
        /\ ~SameWay(a, b) => RiseOf(L, L.end) = -(L.end.y - L.from.y)
        /\ L.minor \in {"above", "below"}
    BY <1>3, <1>8 DEF RunOf, RiseOf, AcrossOf
  <2>2. CASE ax - bx > 0
    <3>1. L.end.y - L.from.y = ay - by /\ L.end.x - L.from.x = ax - bx
      BY <1>2, <1>6, <1>8, <2>2
    <3>2. SameWay(a, b) <=> ~(ay - by < 0)
      BY <1>1, <1>6, <2>2
    <3> HIDE DEF ax, ay, bx, by
    <3>3. L.dmaj = ax - bx /\ (SameWay(a, b) => L.dmin = ay - by) /\ (~SameWay(a, b) => L.dmin = -(ay - by))
      BY <1>1, <1>3, <1>8, <2>2, <3>2 DEF Abs
    <3> QED BY <2>1, <3>1, <3>3
  <2>3. CASE ~(ax - bx > 0)
    <3>1. L.end.y - L.from.y = by - ay /\ L.end.x - L.from.x = bx - ax
      BY <1>2, <1>6, <1>8, <2>3
    <3> HIDE DEF ax, ay, bx, by
    <3>2. CASE ax - bx < 0
      <4>1. SameWay(a, b) <=> ay - by < 0
        BY <1>6, <3>2
      <4>2. L.dmaj = bx - ax /\ (SameWay(a, b) => L.dmin = by - ay) /\ (~SameWay(a, b) => L.dmin = -(by - ay))
        BY <1>1, <1>3, <1>8, <3>2, <4>1 DEF Abs
      <4> QED BY <2>1, <3>1, <4>2
    <3>3. CASE ~(ax - bx < 0)
      <4>1. ax - bx = 0 /\ ay - by = 0 /\ bx - ax = 0 /\ by - ay = 0
        BY <1>1, <1>6, <1>8, <2>3, <3>3 DEF Abs
      <4>2. L.dmaj = 0 /\ L.dmin = 0
        BY <1>1, <1>3, <1>8, <4>1 DEF Abs
      <4>3. RunOf(L, L.end) = 0 /\ RiseOf(L, L.end) = 0
        BY <2>1, <3>1, <4>1
      <4> QED BY <2>1, <4>2, <4>3
    <3> QED BY <3>2, <3>3
  <2> QED BY <2>2, <2>3
<1>9. Straight(L)
  BY <1>4, <1>5, <1>7, <1>8 DEF Straight
<1> QED BY <1>9 DEF L

(* The point of a line that has not moved yet.                             *)
LEMMA AtStart ==
  ASSUME NEW l \in Lines
  PROVE  RunOf(l, l.from) = 0 /\ RiseOf(l, l.from) = 0 /\ ErrorAt(l, l.from) = l.dmaj \div 2
<1>1. l.from.x \in Int /\ l.from.y \in Int /\ l.dmaj \in Nat /\ l.dmin \in Nat
  BY DEF Lines, Coordinate
<1>2. RunOf(l, l.from) = 0 /\ AcrossOf(l, l.from) = 0
  BY <1>1 DEF RunOf, AcrossOf
<1>3. RiseOf(l, l.from) = 0
  <2> DEFINE A == AcrossOf(l, l.from)
  <2>1. -A = 0
    <3>1. A \in Int /\ A >= 0 /\ A <= 0
      BY <1>2
    <3> HIDE DEF A
    <3>2. -A \in Int /\ -A >= 0 /\ -A <= 0
      BY <3>1
    <3> QED BY <3>2
  <2>2. CASE l.minor \in {"left", "below"}
    <3>1. RiseOf(l, l.from) = -AcrossOf(l, l.from)
      BY <2>2 DEF RiseOf
    <3> QED BY <3>1, <2>1, <1>2
  <2>3. CASE ~(l.minor \in {"left", "below"})
    <3>1. RiseOf(l, l.from) = AcrossOf(l, l.from)
      BY <2>3 DEF RiseOf
    <3> QED BY <3>1, <1>2
  <2> QED BY <2>2, <2>3
<1> QED BY <1>1, <1>2, <1>3 DEF ErrorAt

LEMMA NewLineTurned ==
  ASSUME Windowed, NEW n, NEW a \in Coordinate, NEW b \in Coordinate
  PROVE  Turned(NewLine(n, a, b)) /\ RunOf(NewLine(n, a, b), NewLine(n, a, b).xy) = 0
<1> DEFINE L == NewLine(n, a, b)
<1>1. L \in Lines /\ L.xy = L.from
  BY NewLineTyped, NewLineEnds
<1>2. /\ L.err = L.dmaj \div 2 /\ L.loops = L.dmaj + 1 /\ L.dot
      /\ L.counter = ((RoomOf(L) % BYTE) + 1) % BYTE
  BY NewLineCounts
<1>3. RoomOf(L) \in Int /\ L.dmaj \in Nat /\ BYTE \in Nat \ {0}
  BY NewLineFields, SizeAssumption
<1> HIDE DEF L
<1>4. RunOf(L, L.xy) = 0 /\ RiseOf(L, L.xy) = 0 /\ ErrorAt(L, L.xy) = L.dmaj \div 2
  BY <1>1, AtStart
<1>5. L.counter = (RoomOf(L) + 1 - 0) % BYTE
  <2>1. RoomOf(L) + 1 - 0 = RoomOf(L) + 1
    BY <1>3
  <2>2. ((RoomOf(L) % BYTE) + 1) % BYTE = (RoomOf(L) + 1) % BYTE
    BY <1>3, CountUp
  <2> QED BY <2>1, <2>2, <1>2
<1>6. L.err \in 0..L.dmaj /\ (L.dmaj > 0 => L.err < L.dmaj) /\ L.loops \in 1..(L.dmaj + 1)
  <2> DEFINE d == L.dmaj
  <2>1. d \div 2 \in 0..d /\ (d > 0 => d \div 2 < d) /\ d + 1 \in 1..(d + 1)
    BY <1>3
  <2> QED BY <2>1, <1>2
<1>7. 0 % 2 = 0 /\ L.dmaj + 1 - L.loops = 0
  BY <1>2, <1>3
<1> QED BY <1>2, <1>4, <1>5, <1>6, <1>7 DEF Turned, L

-----------------------------------------------------------------------------
(* A turn of the loop.                                                     *)
LEMMA LineFields ==
  ASSUME NEW l \in Lines
  PROVE  /\ l.from \in Coordinate /\ l.end \in Coordinate /\ l.xy \in Coordinate
         /\ l.major \in {"right", "above"} /\ l.minor \in Sides /\ l.major \in Sides
         /\ l.dmaj \in Nat /\ l.dmin \in Nat /\ l.err \in Int /\ l.loops \in Nat
         /\ l.counter \in 0..(BYTE - 1)
  BY DEF Lines, Sides

LEMMA GeometryTyped ==
  ASSUME NEW l \in Lines, NEW p \in Coordinate
  PROVE  RunOf(l, p) \in Int /\ AcrossOf(l, p) \in Int /\ RiseOf(l, p) \in Int /\ ErrorAt(l, p) \in Int
<1>1. /\ l.from.x \in Int /\ l.from.y \in Int /\ p.x \in Int /\ p.y \in Int
      /\ l.dmaj \in Nat /\ l.dmin \in Nat
  BY LineFields DEF Coordinate
<1>2. RunOf(l, p) \in Int /\ AcrossOf(l, p) \in Int
  BY <1>1 DEF RunOf, AcrossOf
<1>3. RiseOf(l, p) \in Int
  <2> DEFINE A == AcrossOf(l, p)
  <2>1. A \in Int /\ -A \in Int
    BY <1>2
  <2> QED BY <2>1 DEF RiseOf
<1> DEFINE u == RunOf(l, p)
           v == RiseOf(l, p)
<1>4. u \in Int /\ v \in Int
  BY <1>2, <1>3
<1>5. ErrorAt(l, p) = (l.dmaj \div 2) - (u * l.dmin) + (v * l.dmaj)
  BY DEF ErrorAt
<1> HIDE DEF u, v
<1>6. ErrorAt(l, p) \in Int
  BY <1>1, <1>4, <1>5
<1> QED BY <1>2, <1>3, <1>6

LEMMA MajorStep ==
  ASSUME NEW l \in Lines, Straight(l), NEW p \in Coordinate
  PROVE  /\ RunOf(l, Beside(p, l.major)) = RunOf(l, p) + 1
         /\ RiseOf(l, Beside(p, l.major)) = RiseOf(l, p)
<1>1. l.from.x \in Int /\ l.from.y \in Int /\ p.x \in Int /\ p.y \in Int
  BY LineFields DEF Coordinate
<1>2. CASE l.major = "above"
  <2> DEFINE q == Beside(p, "above")
  <2>1. q.x = p.x /\ q.y = p.y + 1
    BY BesideParts
  <2> HIDE DEF q
  <2>2. RunOf(l, q) = RunOf(l, p) + 1 /\ AcrossOf(l, q) = AcrossOf(l, p)
    BY <1>1, <1>2, <2>1 DEF RunOf, AcrossOf
  <2>3. RiseOf(l, q) = RiseOf(l, p)
    BY <2>2 DEF RiseOf
  <2> QED BY <1>2, <2>2, <2>3 DEF q
<1>3. CASE l.major = "right"
  <2> DEFINE q == Beside(p, "right")
  <2>1. q.x = p.x + 1 /\ q.y = p.y
    BY BesideParts
  <2> HIDE DEF q
  <2>2. RunOf(l, q) = RunOf(l, p) + 1 /\ AcrossOf(l, q) = AcrossOf(l, p)
    BY <1>1, <1>3, <2>1 DEF RunOf, AcrossOf
  <2>3. RiseOf(l, q) = RiseOf(l, p)
    BY <2>2 DEF RiseOf
  <2> QED BY <1>3, <2>2, <2>3 DEF q
<1> QED BY <1>2, <1>3, LineFields

LEMMA MinorStep ==
  ASSUME NEW l \in Lines, Straight(l), NEW p \in Coordinate
  PROVE  /\ RunOf(l, Beside(p, l.minor)) = RunOf(l, p)
         /\ RiseOf(l, Beside(p, l.minor)) = RiseOf(l, p) + 1
<1>1. l.from.x \in Int /\ l.from.y \in Int /\ p.x \in Int /\ p.y \in Int
  BY LineFields DEF Coordinate
<1> DEFINE q == Beside(p, l.minor)
           A == AcrossOf(l, p)
           B == AcrossOf(l, q)
<1>2. \/ l.major = "above" /\ l.minor \in {"right", "left"}
      \/ l.major = "right" /\ l.minor \in {"above", "below"}
  BY LineFields DEF Straight
<1>3. A \in Int
  BY GeometryTyped
<1>4. CASE l.minor \in {"right", "above"}
  <2>1. CASE l.minor = "right"
    <3>1. q.x = p.x + 1 /\ q.y = p.y
      BY <2>1, BesideParts
    <3> HIDE DEF q
    <3>2. RunOf(l, q) = RunOf(l, p) /\ AcrossOf(l, q) = AcrossOf(l, p) + 1
      BY <1>1, <1>2, <2>1, <3>1 DEF RunOf, AcrossOf
    <3> QED BY <2>1, <3>2 DEF RiseOf, q
  <2>2. CASE l.minor = "above"
    <3>1. q.x = p.x /\ q.y = p.y + 1
      BY <2>2, BesideParts
    <3> HIDE DEF q
    <3>2. RunOf(l, q) = RunOf(l, p) /\ AcrossOf(l, q) = AcrossOf(l, p) + 1
      BY <1>1, <1>2, <2>2, <3>1 DEF RunOf, AcrossOf
    <3> QED BY <2>2, <3>2 DEF RiseOf, q
  <2> QED BY <1>4, <2>1, <2>2
<1>5. CASE l.minor \in {"left", "below"}
  <2>1. RunOf(l, q) = RunOf(l, p) /\ B = A - 1
    <3>1. CASE l.minor = "left"
      <4>1. q.x = p.x - 1 /\ q.y = p.y
        BY <3>1, BesideParts
      <4> HIDE DEF q
      <4> QED BY <1>1, <1>2, <3>1, <4>1 DEF RunOf, AcrossOf
    <3>2. CASE l.minor = "below"
      <4>1. q.x = p.x /\ q.y = p.y - 1
        BY <3>2, BesideParts
      <4> HIDE DEF q
      <4> QED BY <1>1, <1>2, <3>2, <4>1 DEF RunOf, AcrossOf
    <3> QED BY <1>5, <3>1, <3>2
  <2>2. RiseOf(l, q) = -B /\ RiseOf(l, p) = -A
    BY <1>5 DEF RiseOf
  <2> HIDE DEF A, B
  <2>3. -B = -A + 1
    BY <1>3, <2>1
  <2> QED BY <2>1, <2>2, <2>3
<1> QED BY <1>2, <1>4, <1>5

Aside(l) == l.err - l.dmin < 0
Stops(l) == Aside(l) /\ ~l.out /\ (l.counter - 1) % BYTE = 0
SideOf(l) == IF Aside(l) THEN Beside(l.xy, l.minor) ELSE l.xy
SpotAside(s) == IF Aside(line) THEN Step(s, line.minor) ELSE s
DrawnHere == IF line.out /\ ~line.dotted THEN Calculated(line.xy) ELSE spot

(* A turn of the loop, the line after it part by part.                     *)
LineTurned ==
  [line EXCEPT
     !.err = IF Aside(line) THEN line.err - line.dmin + line.dmaj ELSE line.err - line.dmin,
     !.loops = line.loops - 1, !.dot = ~line.dot,
     !.counter = IF Aside(line) /\ ~line.out THEN (line.counter - 1) % BYTE ELSE line.counter,
     !.xy = Beside(SideOf(line), line.major)]

LEMMA TurnIs ==
  ASSUME DrawStep
  PROVE  /\ pc = "line"
         /\ UNCHANGED <<cvars, start, win, org, ext, curs, plot, set>>
         /\ Stops(line) => pc' = "move" /\ spot' = DrawnHere /\ line' = line
         /\ ~Stops(line) => /\ spot' = Step(SpotAside(DrawnHere), line.major)
                            /\ line' = LineTurned
                            /\ line.loops = 1 => pc' = "move"
                            /\ line.loops # 1 => pc' = "line"
  BY DEF DrawStep, Stops, Aside, SideOf, SpotAside, DrawnHere, LineTurned

LEMMA LineTurnedKeeps ==
  ASSUME line \in Lines
  PROVE  /\ LineTurned.from = line.from /\ LineTurned.end = line.end
         /\ LineTurned.out = line.out /\ LineTurned.dotted = line.dotted
         /\ LineTurned.major = line.major /\ LineTurned.minor = line.minor
         /\ LineTurned.dmaj = line.dmaj /\ LineTurned.dmin = line.dmin
  BY DEF LineTurned, Lines

LEMMA LineTurnedSets ==
  ASSUME line \in Lines
  PROVE  /\ Aside(line) => LineTurned.err = line.err - line.dmin + line.dmaj
         /\ ~Aside(line) => LineTurned.err = line.err - line.dmin
         /\ LineTurned.loops = line.loops - 1
         /\ LineTurned.dot = ~line.dot
         /\ Aside(line) /\ ~line.out => LineTurned.counter = (line.counter - 1) % BYTE
         /\ ~(Aside(line) /\ ~line.out) => LineTurned.counter = line.counter
         /\ LineTurned.xy = Beside(SideOf(line), line.major)
  BY DEF LineTurned, Lines

LEMMA LineTurnedTyped ==
  ASSUME line \in Lines, line.loops # 0
  PROVE  LineTurned \in Lines
<1>1. /\ line.err - line.dmin + line.dmaj \in Int /\ line.err - line.dmin \in Int
      /\ line.loops - 1 \in Nat
  BY LineFields
<1>2. line.counter \in 0..(BYTE - 1) /\ (line.counter - 1) % BYTE \in 0..(BYTE - 1)
  BY LineFields, SizeAssumption
<1>3. Beside(SideOf(line), line.major) \in Coordinate
  <2>1. SideOf(line) \in Coordinate
    BY LineFields, BesideType DEF SideOf
  <2> QED BY <2>1, LineFields, BesideType
<1>4. (~line.dot) \in BOOLEAN
  OBVIOUS
<1> QED BY <1>1, <1>2, <1>3, <1>4 DEF LineTurned, Lines

(* Lines with the same ends and the same way have the same geometry.       *)
LEMMA SameGeometry ==
  ASSUME NEW l, NEW m, NEW p, m.from = l.from, m.major = l.major, m.minor = l.minor,
         m.dmaj = l.dmaj, m.dmin = l.dmin
  PROVE  /\ RunOf(m, p) = RunOf(l, p) /\ RiseOf(m, p) = RiseOf(l, p)
         /\ ErrorAt(m, p) = ErrorAt(l, p) /\ RoomOf(m) = RoomOf(l)
<1>1. RunOf(m, p) = RunOf(l, p) /\ AcrossOf(m, p) = AcrossOf(l, p) /\ RoomOf(m) = RoomOf(l)
  BY DEF RunOf, AcrossOf, RoomOf
<1>2. RiseOf(m, p) = RiseOf(l, p)
  BY <1>1 DEF RiseOf
<1> QED BY <1>1, <1>2 DEF ErrorAt

(* A point further along has the error of the code.                        *)
LEMMA NextError ==
  ASSUME NEW l \in Lines, NEW p \in Coordinate, NEW q \in Coordinate,
         RunOf(l, q) = RunOf(l, p) + 1
  PROVE  /\ RiseOf(l, q) = RiseOf(l, p) => ErrorAt(l, q) = ErrorAt(l, p) - l.dmin
         /\ RiseOf(l, q) = RiseOf(l, p) + 1 => ErrorAt(l, q) = ErrorAt(l, p) - l.dmin + l.dmaj
<1> DEFINE u == RunOf(l, p)
           v == RiseOf(l, p)
           h == l.dmaj \div 2
           M == l.dmaj
           m == l.dmin
<1>1. u \in Int /\ v \in Int /\ h \in Int /\ M \in Int /\ m \in Int
  BY GeometryTyped, LineFields
<1>2. ErrorAt(l, p) = h - (u * m) + (v * M)
  BY DEF ErrorAt
<1>3. RiseOf(l, q) = v => ErrorAt(l, q) = h - ((u + 1) * m) + (v * M)
  BY DEF ErrorAt
<1>4. RiseOf(l, q) = v + 1 => ErrorAt(l, q) = h - ((u + 1) * m) + ((v + 1) * M)
  BY DEF ErrorAt
<1> HIDE DEF u, v, h, M, m
<1>5. (u + 1) * m = (u * m) + m /\ (v + 1) * M = (v * M) + M
  BY <1>1
<1> DEFINE um == u * m
           vM == v * M
<1>6. um \in Int /\ vM \in Int
  BY <1>1
<1>7. /\ ErrorAt(l, p) = h - um + vM
      /\ RiseOf(l, q) = v => ErrorAt(l, q) = h - (um + m) + vM
      /\ RiseOf(l, q) = v + 1 => ErrorAt(l, q) = h - (um + m) + (vM + M)
  BY <1>2, <1>3, <1>4, <1>5
<1> HIDE DEF um, vM
<1>8. /\ RiseOf(l, q) = v => ErrorAt(l, q) = ErrorAt(l, p) - m
      /\ RiseOf(l, q) = v + 1 => ErrorAt(l, q) = ErrorAt(l, p) - m + M
  BY <1>1, <1>6, <1>7
<1> QED BY <1>8 DEF v, m, M

LEMMA TurnedOn ==
  ASSUME win \in Windows, line \in Lines, Straight(line), Turned(line), line.loops # 1
  PROVE  Straight(LineTurned) /\ Turned(LineTurned)
<1> DEFINE l == LineTurned
           p == line.xy
           s == SideOf(line)
           q == Beside(s, line.major)
<1>1. /\ l.from = line.from /\ l.end = line.end /\ l.out = line.out /\ l.major = line.major
      /\ l.minor = line.minor /\ l.dmaj = line.dmaj /\ l.dmin = line.dmin
  BY LineTurnedKeeps
<1>2. /\ Aside(line) => l.err = line.err - line.dmin + line.dmaj
      /\ ~Aside(line) => l.err = line.err - line.dmin
      /\ l.loops = line.loops - 1 /\ l.dot = ~line.dot /\ l.xy = q
      /\ Aside(line) /\ ~line.out => l.counter = (line.counter - 1) % BYTE
      /\ ~(Aside(line) /\ ~line.out) => l.counter = line.counter
  BY LineTurnedSets
<1>3. p \in Coordinate /\ s \in Coordinate /\ q \in Coordinate
  BY LineFields, BesideType DEF SideOf
<1>4. /\ line.dmaj \in Nat /\ line.dmin \in Nat /\ line.err \in Int /\ line.loops \in Nat
      /\ line.minor \in Sides /\ line.major \in Sides
  BY LineFields
<1> HIDE DEF l
<1>5. /\ RunOf(l, l.end) = RunOf(line, line.end) /\ RiseOf(l, l.end) = RiseOf(line, line.end)
      /\ RunOf(l, l.xy) = RunOf(line, q) /\ RiseOf(l, l.xy) = RiseOf(line, q)
      /\ ErrorAt(l, l.xy) = ErrorAt(line, q) /\ RoomOf(l) = RoomOf(line)
  BY <1>1, <1>2, SameGeometry
<1>6. Straight(l)
  BY <1>1, <1>5 DEF Straight
<1> HIDE DEF p, s, q
<1>7. RunOf(line, s) = RunOf(line, p) /\ (Aside(line) => RiseOf(line, s) = RiseOf(line, p) + 1)
      /\ (~Aside(line) => RiseOf(line, s) = RiseOf(line, p))
  <2>1. CASE Aside(line)
    <3>1. s = Beside(p, line.minor)
      BY <2>1 DEF s, p, SideOf
    <3> QED BY <2>1, <3>1, <1>3, MinorStep
  <2>2. CASE ~Aside(line)
    <3>1. s = p
      BY <2>2 DEF s, p, SideOf
    <3> QED BY <2>2, <3>1
  <2> QED BY <2>1, <2>2
<1>8. RunOf(line, q) = RunOf(line, s) + 1 /\ RiseOf(line, q) = RiseOf(line, s)
  BY <1>3, MajorStep DEF q
<1> DEFINE u == RunOf(line, p)
           v == RiseOf(line, p)
           e == ErrorAt(line, p)
<1>9. u \in Int /\ v \in Int /\ e \in Int
  BY <1>3, GeometryTyped
<1>10. /\ RunOf(l, l.xy) = u + 1
       /\ Aside(line) => RiseOf(l, l.xy) = v + 1 /\ ErrorAt(l, l.xy) = e - line.dmin + line.dmaj
       /\ ~Aside(line) => RiseOf(l, l.xy) = v /\ ErrorAt(l, l.xy) = e - line.dmin
  BY <1>3, <1>5, <1>7, <1>8, NextError
<1>11. /\ line.loops \in 1..(line.dmaj + 1) /\ u = line.dmaj + 1 - line.loops /\ v >= 0
       /\ line.err = e /\ line.err \in 0..line.dmaj /\ (line.dmaj > 0 => line.err < line.dmaj)
       /\ (line.dot => u % 2 = 0) /\ (~line.dot => u % 2 = 1)
       /\ (~line.out => line.counter = (RoomOf(line) + 1 - v) % BYTE)
       /\ line.dmin <= line.dmaj
  BY DEF Turned, Straight, p
<1> HIDE DEF u, v, e
<1>12. l.loops \in 1..(l.dmaj + 1) /\ RunOf(l, l.xy) = l.dmaj + 1 - l.loops /\ RiseOf(l, l.xy) >= 0
  BY <1>1, <1>2, <1>4, <1>9, <1>10, <1>11
<1>13. l.err = ErrorAt(l, l.xy) /\ l.err \in 0..l.dmaj /\ (l.dmaj > 0 => l.err < l.dmaj)
  <2>1. CASE Aside(line)
    <3>1. line.err - line.dmin < 0
      BY <2>1 DEF Aside
    <3> QED BY <2>1, <3>1, <1>1, <1>2, <1>4, <1>10, <1>11
  <2>2. CASE ~Aside(line)
    <3>1. ~(line.err - line.dmin < 0)
      BY <2>2 DEF Aside
    <3> QED BY <2>2, <3>1, <1>1, <1>2, <1>4, <1>10, <1>11
  <2> QED BY <2>1, <2>2
<1>14. (l.dot => RunOf(l, l.xy) % 2 = 0) /\ (~l.dot => RunOf(l, l.xy) % 2 = 1)
  <2>1. (u % 2 = 0 => (u + 1) % 2 = 1) /\ (u % 2 = 1 => (u + 1) % 2 = 0)
    BY <1>9
  <2> QED BY <2>1, <1>2, <1>10, <1>11
<1>15. ~l.out => l.counter = (RoomOf(l) + 1 - RiseOf(l, l.xy)) % BYTE
  <2>1. CASE line.out \/ ~Aside(line)
    BY <2>1, <1>1, <1>2, <1>5, <1>10, <1>11
  <2>2. CASE ~line.out /\ Aside(line)
    <3> DEFINE a == RoomOf(line) + 1 - v
    <3>1. RoomOf(line) \in Int
      BY LineFields DEF RoomOf, Coordinate, Windows
    <3>2. a \in Int /\ a - 1 = RoomOf(line) + 1 - (v + 1)
      BY <3>1, <1>9
    <3>3. line.counter = a % BYTE
      BY <2>2, <1>11
    <3>4. BYTE \in Nat \ {0}
      BY SizeAssumption
    <3> HIDE DEF a
    <3>5. ((a % BYTE) - 1) % BYTE = (a - 1) % BYTE
      BY <3>2, <3>4, CountDown
    <3>6. l.counter = (a - 1) % BYTE
      BY <2>2, <3>3, <3>5, <1>2
    <3> QED BY <2>2, <3>2, <3>6, <1>5, <1>10
  <2> QED BY <2>1, <2>2
<1>16. l.dmaj # 0
  BY <1>1, <1>4, <1>11
<1>17. Turned(l)
  BY <1>12, <1>13, <1>14, <1>15, <1>16 DEF Turned
<1> QED BY <1>6, <1>17 DEF l

(* What lies along a line between its start and a point lies between them. *)
LEMMA Between ==
  ASSUME NEW l \in Lines, Straight(l), NEW a \in Coordinate, NEW c \in Coordinate,
         RunOf(l, a) >= 0, RunOf(l, a) <= RunOf(l, c),
         RiseOf(l, a) >= 0, RiseOf(l, a) <= RiseOf(l, c)
  PROVE  /\ (l.from.x <= a.x /\ a.x <= c.x) \/ (c.x <= a.x /\ a.x <= l.from.x)
         /\ (l.from.y <= a.y /\ a.y <= c.y) \/ (c.y <= a.y /\ a.y <= l.from.y)
<1> DEFINE fx == l.from.x
           fy == l.from.y
           ax == a.x
           ay == a.y
           cx == c.x
           cy == c.y
<1>1. /\ fx \in Int /\ fy \in Int /\ ax \in Int /\ ay \in Int /\ cx \in Int /\ cy \in Int
  BY LineFields DEF Coordinate
<1>2. CASE l.major = "above"
  <2>1. RunOf(l, a) = ay - fy /\ RunOf(l, c) = cy - fy
    BY <1>2 DEF RunOf
  <2>2. CASE l.minor = "right"
    <3>1. RiseOf(l, a) = ax - fx /\ RiseOf(l, c) = cx - fx
      BY <1>2, <2>2 DEF RiseOf, AcrossOf
    <3> HIDE DEF fx, fy, ax, ay, cx, cy
    <3>2. fx <= ax /\ ax <= cx /\ fy <= ay /\ ay <= cy
      BY <1>1, <2>1, <3>1
    <3> QED BY <3>2 DEF fx, fy, ax, ay, cx, cy
  <2>3. CASE l.minor = "left"
    <3>1. RiseOf(l, a) = -(ax - fx) /\ RiseOf(l, c) = -(cx - fx)
      BY <1>2, <2>3 DEF RiseOf, AcrossOf
    <3> HIDE DEF fx, fy, ax, ay, cx, cy
    <3>2. cx <= ax /\ ax <= fx /\ fy <= ay /\ ay <= cy
      BY <1>1, <2>1, <3>1
    <3> QED BY <3>2 DEF fx, fy, ax, ay, cx, cy
  <2> QED BY <1>2, <2>2, <2>3 DEF Straight
<1>3. CASE l.major = "right"
  <2>1. RunOf(l, a) = ax - fx /\ RunOf(l, c) = cx - fx
    BY <1>3 DEF RunOf
  <2>2. CASE l.minor = "above"
    <3>1. RiseOf(l, a) = ay - fy /\ RiseOf(l, c) = cy - fy
      BY <1>3, <2>2 DEF RiseOf, AcrossOf
    <3> HIDE DEF fx, fy, ax, ay, cx, cy
    <3>2. fx <= ax /\ ax <= cx /\ fy <= ay /\ ay <= cy
      BY <1>1, <2>1, <3>1
    <3> QED BY <3>2 DEF fx, fy, ax, ay, cx, cy
  <2>3. CASE l.minor = "below"
    <3>1. RiseOf(l, a) = -(ay - fy) /\ RiseOf(l, c) = -(cy - fy)
      BY <1>3, <2>3 DEF RiseOf, AcrossOf
    <3> HIDE DEF fx, fy, ax, ay, cx, cy
    <3>2. fx <= ax /\ ax <= cx /\ cy <= ay /\ ay <= fy
      BY <1>1, <2>1, <3>1
    <3> QED BY <3>2 DEF fx, fy, ax, ay, cx, cy
  <2> QED BY <1>3, <2>2, <2>3 DEF Straight
<1> QED BY <1>2, <1>3, LineFields

LEMMA BetweenOnScreen ==
  ASSUME Screened, NEW l \in Lines, Straight(l), NEW a \in Coordinate, NEW c \in Coordinate,
         RunOf(l, a) >= 0, RunOf(l, a) <= RunOf(l, c),
         RiseOf(l, a) >= 0, RiseOf(l, a) <= RiseOf(l, c),
         OnScreen(l.from), OnScreen(c)
  PROVE  OnScreen(a)
<1> DEFINE fx == l.from.x
           fy == l.from.y
           ax == a.x
           ay == a.y
           cx == c.x
           cy == c.y
           W == Width
           H == Height
<1>1. /\ fx \in Int /\ fy \in Int /\ ax \in Int /\ ay \in Int /\ cx \in Int /\ cy \in Int
  BY LineFields DEF Coordinate
<1>2. /\ (fx <= ax /\ ax <= cx) \/ (cx <= ax /\ ax <= fx)
      /\ (fy <= ay /\ ay <= cy) \/ (cy <= ay /\ ay <= fy)
  BY Between
<1>3. W \in Int /\ H \in Int
  BY ScreenFacts, ModeFacts DEF Screened, Width
<1>4. fx \in 0..(W - 1) /\ fy \in 0..(H - 1) /\ cx \in 0..(W - 1) /\ cy \in 0..(H - 1)
  BY DEF OnScreen
<1> HIDE DEF fx, fy, ax, ay, cx, cy, W, H
<1>5. ax \in 0..(W - 1) /\ ay \in 0..(H - 1)
  BY <1>1, <1>2, <1>3, <1>4
<1> QED BY <1>5 DEF ax, ay, W, H, OnScreen

LEMMA BetweenSeen ==
  ASSUME win \in Windows, NEW l \in Lines, Straight(l), NEW a \in Coordinate, NEW c \in Coordinate,
         RunOf(l, a) >= 0, RunOf(l, a) <= RunOf(l, c),
         RiseOf(l, a) >= 0, RiseOf(l, a) <= RiseOf(l, c),
         Limits(l.from) = {}, Limits(c) = {}
  PROVE  Limits(a) = {}
<1> DEFINE fx == l.from.x
           fy == l.from.y
           ax == a.x
           ay == a.y
           cx == c.x
           cy == c.y
<1>1. /\ fx \in Int /\ fy \in Int /\ ax \in Int /\ ay \in Int /\ cx \in Int /\ cy \in Int
      /\ win.l \in Int /\ win.b \in Int /\ win.r \in Int /\ win.t \in Int
  BY LineFields DEF Coordinate, Windows
<1>2. /\ (fx <= ax /\ ax <= cx) \/ (cx <= ax /\ ax <= fx)
      /\ (fy <= ay /\ ay <= cy) \/ (cy <= ay /\ ay <= fy)
  BY Between
<1>3. /\ ~(fy < win.b) /\ ~(fy > win.t) /\ ~(fx < win.l) /\ ~(fx > win.r)
      /\ ~(cy < win.b) /\ ~(cy > win.t) /\ ~(cx < win.l) /\ ~(cx > win.r)
  BY LimitsIs
<1> HIDE DEF fx, fy, ax, ay, cx, cy
<1>4. ~(ay < win.b) /\ ~(ay > win.t) /\ ~(ax < win.l) /\ ~(ax > win.r)
  BY <1>1, <1>2, <1>3
<1> QED BY <1>4, LimitsIs DEF ax, ay

(* The spot goes with the point.                                           *)
LEMMA SpotTurned ==
  ASSUME Windowed, line \in Lines, Straight(line), Turned(line), ~line.out,
         OnScreen(line.xy) => spot = Where(line.xy),
         OnScreen(LineTurned.xy)
  PROVE  Step(SpotAside(DrawnHere), line.major) = Where(LineTurned.xy)
<1> DEFINE p == line.xy
           s == SideOf(line)
           q == Beside(s, line.major)
<1>1. LineTurned.xy = q
  BY LineTurnedSets
<1>2. p \in Coordinate /\ s \in Coordinate /\ q \in Coordinate
  BY LineFields, BesideType DEF SideOf
<1>3. line.minor \in Sides /\ line.major \in Sides /\ line.from \in Coordinate
  BY LineFields
<1>4. OnScreen(line.from) /\ Screened
  BY <1>3, WindowSeen DEF Straight, Windowed
<1>5. DrawnHere = spot
  BY DEF DrawnHere
<1>6. CASE Aside(line)
  <2>1. s = Beside(p, line.minor) /\ SpotAside(spot) = Step(spot, line.minor)
    BY <1>6 DEF SideOf, SpotAside
  <2> HIDE DEF p, s, q
  <2>2. RunOf(line, s) = RunOf(line, p) /\ RiseOf(line, s) = RiseOf(line, p) + 1
    BY <2>1, <1>2, MinorStep
  <2>3. RunOf(line, q) = RunOf(line, s) + 1 /\ RiseOf(line, q) = RiseOf(line, s)
    BY <1>2, MajorStep DEF q
  <2>4. /\ RunOf(line, p) \in Int /\ RiseOf(line, p) \in Int /\ RunOf(line, p) >= 0 /\ RiseOf(line, p) >= 0
    <3>1. RunOf(line, p) \in Int /\ RiseOf(line, p) \in Int
      BY <1>2, GeometryTyped
    <3>2. RunOf(line, p) = line.dmaj + 1 - line.loops /\ line.loops \in 1..(line.dmaj + 1) /\ RiseOf(line, p) >= 0
      BY DEF Turned, p
    <3> QED BY <3>1, <3>2, LineFields
  <2> DEFINE u == RunOf(line, p)
             v == RiseOf(line, p)
  <2>5. /\ u >= 0 /\ u <= u + 1 /\ u <= u /\ v >= 0 /\ v + 1 >= 0 /\ v <= v + 1 /\ v + 1 <= v + 1
    BY <2>4
  <2>6. OnScreen(q)
    BY <1>1
  <2>7. OnScreen(p)
    BY <1>2, <1>4, <2>2, <2>3, <2>5, <2>6, BetweenOnScreen
  <2>8. OnScreen(s)
    BY <1>2, <1>4, <2>2, <2>3, <2>5, <2>6, BetweenOnScreen
  <2>9. spot = Where(p)
    BY <2>7 DEF p
  <2>10. Step(Where(p), line.minor) = Where(s)
    BY <2>1, <2>7, <2>8, <1>2, <1>3, <1>4, StepFollows
  <2>11. Step(Where(s), line.major) = Where(q)
    BY <2>6, <2>8, <1>2, <1>3, <1>4, StepFollows DEF q
  <2> QED BY <1>1, <1>5, <2>1, <2>9, <2>10, <2>11
<1>7. CASE ~Aside(line)
  <2>1. s = p /\ SpotAside(spot) = spot
    BY <1>7 DEF SideOf, SpotAside
  <2> HIDE DEF p, s, q
  <2>3. RunOf(line, q) = RunOf(line, p) + 1 /\ RiseOf(line, q) = RiseOf(line, p)
    BY <1>2, <2>1, MajorStep DEF q
  <2>4. /\ RunOf(line, p) \in Int /\ RiseOf(line, p) \in Int /\ RunOf(line, p) >= 0 /\ RiseOf(line, p) >= 0
    <3>1. RunOf(line, p) \in Int /\ RiseOf(line, p) \in Int
      BY <1>2, GeometryTyped
    <3>2. RunOf(line, p) = line.dmaj + 1 - line.loops /\ line.loops \in 1..(line.dmaj + 1) /\ RiseOf(line, p) >= 0
      BY DEF Turned, p
    <3> QED BY <3>1, <3>2, LineFields
  <2> DEFINE u == RunOf(line, p)
             v == RiseOf(line, p)
  <2>5. u >= 0 /\ u <= u + 1 /\ v >= 0 /\ v <= v
    BY <2>4
  <2>6. OnScreen(q)
    BY <1>1
  <2>7. OnScreen(p)
    BY <1>2, <1>4, <2>3, <2>5, <2>6, BetweenOnScreen
  <2>8. spot = Where(p)
    BY <2>7 DEF p
  <2>9. Step(Where(p), line.major) = Where(q)
    BY <2>1, <2>6, <2>7, <1>2, <1>3, <1>4, StepFollows DEF q
  <2> QED BY <1>1, <1>5, <2>1, <2>8, <2>9
<1> QED BY <1>6, <1>7

-----------------------------------------------------------------------------
(* What a line draws.                                                      *)
LEMMA WhereAtIs == ASSUME NEW p PROVE Where(p) = WhereAt(mode, start, p)
  BY DEF Where, WhereAt, Down

LEMMA LimitsInIs == ASSUME NEW p PROVE Limits(p) = LimitsIn(win, p)
  BY DEF Limits, LimitsIn

LEMMA LineDrawnIs ==
  LineDrawn <=> (pc = "move" /\ line # NoLine => DrawnAll(mode, start, win, line, plot, drawn))
  BY DEF LineDrawn, DrawnAll, Stray, Unclipped, ClipsNot, Limits, LimitsIn, WantingAll, InWindow, Again,
         Near, NearOf, RunOf, RiseOf, AcrossOf, Where, WhereAt, Down

LEMMA LineDrawnNext ==
  LineDrawn' <=> (pc' = "move" /\ line' # NoLine => DrawnAll(mode', start', win', line', plot', drawn'))
  BY DEF LineDrawn, DrawnAll, Stray, Unclipped, ClipsNot, Limits, LimitsIn, WantingAll, InWindow, Again,
         Near, NearOf, RunOf, RiseOf, AcrossOf, Where, WhereAt, Down

(* The error is within the bounds of the code where the point is near.     *)
LEMMA ErrorBounds ==
  ASSUME NEW M \in Nat, NEW w \in Int, M > 0
  PROVE  (-M <= 2 * w /\ 2 * w < M) <=> (M \div 2) + w \in 0..(M - 1)
<1>1. \/ M = 2 * (M \div 2)
      \/ M = 2 * (M \div 2) + 1
  OBVIOUS
<1> DEFINE h == M \div 2
<1>2. h \in Int
  OBVIOUS
<1> HIDE DEF h
<1> QED BY <1>1, <1>2 DEF h

LEMMA NearIs ==
  ASSUME NEW l \in Lines, NEW p \in Coordinate
  PROVE  /\ NearOf(l, p) => RunOf(l, p) \in 0..l.dmaj /\ (l.dotted => RunOf(l, p) % 2 = 0)
         /\ l.dmaj > 0 /\ NearOf(l, p) => ErrorAt(l, p) \in 0..(l.dmaj - 1)
         /\ l.dmaj = 0 /\ NearOf(l, p) => p = l.from
         /\ /\ RunOf(l, p) \in 0..l.dmaj /\ (l.dotted => RunOf(l, p) % 2 = 0)
            /\ l.dmaj > 0 => ErrorAt(l, p) \in 0..(l.dmaj - 1)
            /\ l.dmaj = 0 => p = l.from
            => NearOf(l, p)
<1> DEFINE M == l.dmaj
           u == RunOf(l, p)
           v == RiseOf(l, p)
           um == u * l.dmin
           vM == v * M
           w == vM - um
<1>1. M \in Nat /\ l.dmin \in Nat /\ u \in Int /\ v \in Int
  BY LineFields, GeometryTyped
<1>2. um \in Int /\ vM \in Int /\ w \in Int
  <2> HIDE DEF u, v, M
  <2> QED BY <1>1
<1>3. ErrorAt(l, p) = (M \div 2) + w
  <2>1. ErrorAt(l, p) = (M \div 2) - um + vM
    BY DEF ErrorAt
  <2>2. M \div 2 \in Int
    BY <1>1
  <2> HIDE DEF um, vM, M
  <2> QED BY <2>1, <2>2, <1>2
<1>4. M > 0 => ((-M <= 2 * w /\ 2 * w < M) <=> ErrorAt(l, p) \in 0..(M - 1))
  <2> HIDE DEF M, w
  <2> QED BY <1>1, <1>2, <1>3, ErrorBounds
<1>5. /\ NearOf(l, p) => u \in 0..M /\ (l.dotted => u % 2 = 0)
      /\ M # 0 /\ NearOf(l, p) => -M <= 2 * w /\ 2 * w < M
      /\ M = 0 /\ NearOf(l, p) => p = l.from
      /\ /\ u \in 0..M /\ (l.dotted => u % 2 = 0)
         /\ M # 0 => -M <= 2 * w /\ 2 * w < M
         /\ M = 0 => p = l.from
         => NearOf(l, p)
  BY DEF NearOf
<1> HIDE DEF M, u, w
<1>6. /\ NearOf(l, p) => u \in 0..M /\ (l.dotted => u % 2 = 0)
      /\ M > 0 /\ NearOf(l, p) => ErrorAt(l, p) \in 0..(M - 1)
      /\ M = 0 /\ NearOf(l, p) => p = l.from
      /\ /\ u \in 0..M /\ (l.dotted => u % 2 = 0)
         /\ M > 0 => ErrorAt(l, p) \in 0..(M - 1)
         /\ M = 0 => p = l.from
         => NearOf(l, p)
  BY <1>1, <1>4, <1>5
<1> QED BY <1>6 DEF M, u

(* A point is given by how far it is along the line and across.            *)
LEMMA PlaceOnLine ==
  ASSUME NEW l \in Lines, NEW p \in Coordinate, NEW q \in Coordinate,
         RunOf(l, p) = RunOf(l, q), RiseOf(l, p) = RiseOf(l, q)
  PROVE  p = q
<1> DEFINE A == AcrossOf(l, p)
           B == AcrossOf(l, q)
<1>1. l.from.x \in Int /\ l.from.y \in Int /\ p.x \in Int /\ p.y \in Int /\ q.x \in Int /\ q.y \in Int
  BY LineFields DEF Coordinate
<1>2. A \in Int /\ B \in Int
  BY GeometryTyped
<1>3. A = B
  <2>1. CASE l.minor \in {"left", "below"}
    <3>1. -A = -B
      BY <2>1 DEF RiseOf
    <3> HIDE DEF A, B
    <3> QED BY <3>1, <1>2
  <2>2. CASE ~(l.minor \in {"left", "below"})
    BY <2>2 DEF RiseOf
  <2> QED BY <2>1, <2>2
<1>4. p.x = q.x /\ p.y = q.y
  <2>1. CASE l.major = "above"
    BY <1>1, <1>3, <2>1 DEF RunOf, AcrossOf
  <2>2. CASE ~(l.major = "above")
    BY <1>1, <1>3, <2>2 DEF RunOf, AcrossOf
  <2> QED BY <2>1, <2>2
<1> QED BY <1>4 DEF Coordinate

(* Of the points at one distance along a line only one is near.            *)
LEMMA NearUnique ==
  ASSUME NEW l \in Lines, NEW p \in Coordinate, NEW q \in Coordinate,
         NearOf(l, p), NearOf(l, q), RunOf(l, p) = RunOf(l, q)
  PROVE  p = q
<1> DEFINE M == l.dmaj
           m == l.dmin
           u == RunOf(l, p)
           v == RiseOf(l, p)
           w == RiseOf(l, q)
           h == M \div 2
<1>1. M \in Nat /\ m \in Nat /\ u \in Int /\ v \in Int /\ w \in Int /\ h \in Int
  BY LineFields, GeometryTyped
<1>2. CASE M = 0
  BY <1>2, NearIs
<1>3. CASE M > 0
  <2>1. ErrorAt(l, p) = h - (u * m) + (v * M) /\ ErrorAt(l, q) = h - (u * m) + (w * M)
    BY DEF ErrorAt
  <2>2. ErrorAt(l, p) \in 0..(M - 1) /\ ErrorAt(l, q) \in 0..(M - 1)
    BY <1>3, NearIs
  <2> DEFINE um == u * m
             vM == v * M
             wM == w * M
  <2>3. um \in Int /\ vM \in Int /\ wM \in Int
    <3> HIDE DEF u, v, w, M, m
    <3> QED BY <1>1
  <2>4. h - um + vM \in 0..(M - 1) /\ h - um + wM \in 0..(M - 1)
    BY <2>1, <2>2
  <2>5. vM - wM < M /\ wM - vM < M
    <3> HIDE DEF um, vM, wM, h, M
    <3> QED BY <1>1, <2>3, <2>4
  <2> HIDE DEF v, w, M
  <2>6. ~(v >= w + 1)
    <3>1. ASSUME v >= w + 1 PROVE FALSE
      <4>1. v * M >= (w + 1) * M
        BY <3>1, <1>1
      <4>2. (w + 1) * M = (w * M) + M
        BY <1>1
      <4>3. vM >= wM + M
        BY <4>1, <4>2
      <4> HIDE DEF vM, wM
      <4> QED BY <4>3, <2>3, <2>5, <1>1
    <3> QED BY <3>1
  <2>7. ~(w >= v + 1)
    <3>1. ASSUME w >= v + 1 PROVE FALSE
      <4>1. w * M >= (v + 1) * M
        BY <3>1, <1>1
      <4>2. (v + 1) * M = (v * M) + M
        BY <1>1
      <4>3. wM >= vM + M
        BY <4>1, <4>2
      <4> HIDE DEF vM, wM
      <4> QED BY <4>3, <2>3, <2>5, <1>1
    <3> QED BY <3>1
  <2>8. v = w
    BY <1>1, <2>6, <2>7
  <2> QED BY <2>8, PlaceOnLine DEF v, w
<1> QED BY <1>1, <1>2, <1>3

(* The point of a turn is near, unless it falls between two dots.          *)
LEMMA NearHere ==
  ASSUME line \in Lines, Straight(line), Turned(line)
  PROVE  /\ RunOf(line, line.xy) \in 0..line.dmaj
         /\ (line.dotted => line.dot) => NearOf(line, line.xy)
         /\ NearOf(line, line.xy) => (line.dotted => line.dot)
<1> DEFINE p == line.xy
           u == RunOf(line, line.xy)
<1>1. /\ p \in Coordinate /\ line.from \in Coordinate /\ line.dmaj \in Nat /\ line.loops \in Nat
  BY LineFields
<1>2. /\ line.loops \in 1..(line.dmaj + 1) /\ u = line.dmaj + 1 - line.loops
      /\ line.err = ErrorAt(line, p) /\ line.err \in 0..line.dmaj /\ (line.dmaj > 0 => line.err < line.dmaj)
      /\ (line.dot => u % 2 = 0) /\ (~line.dot => u % 2 = 1)
      /\ (line.dmaj = 0 => RiseOf(line, p) = 0)
  BY DEF Turned
<1> HIDE DEF u
<1>3. u \in 0..line.dmaj
  BY <1>1, <1>2
<1>4. line.dmaj = 0 => p = line.from
  <2>1. RunOf(line, line.from) = 0 /\ RiseOf(line, line.from) = 0
    BY AtStart
  <2>2. ASSUME line.dmaj = 0 PROVE p = line.from
    <3>1. RunOf(line, p) = 0
      BY <1>3, <2>2 DEF u
    <3>2. RiseOf(line, p) = 0
      BY <1>2, <2>2
    <3> HIDE DEF p
    <3> QED BY <1>1, <2>1, <3>1, <3>2, PlaceOnLine
  <2> QED BY <2>2
<1>5. line.dmaj > 0 => ErrorAt(line, p) \in 0..(line.dmaj - 1)
  BY <1>1, <1>2
<1>6. (line.dotted => line.dot) => NearOf(line, p)
  BY <1>1, <1>2, <1>3, <1>4, <1>5, NearIs DEF u
<1>7. NearOf(line, p) => (line.dotted => line.dot)
  <2>1. u % 2 = 0 => ~(u % 2 = 1)
    OBVIOUS
  <2> QED BY <2>1, <1>1, <1>2, NearIs DEF u
<1> QED BY <1>3, <1>6, <1>7 DEF u

(* The point of a turn is not further across than the end of the line.     *)
LEMMA RiseBelow ==
  ASSUME line \in Lines, Straight(line), Turned(line)
  PROVE  /\ RunOf(line, line.xy) \in 0..line.dmaj
         /\ RiseOf(line, line.xy) \in 0..line.dmin
<1> DEFINE M == line.dmaj
           m == line.dmin
           u == RunOf(line, line.xy)
           v == RiseOf(line, line.xy)
           h == M \div 2
<1>1. M \in Nat /\ m \in Nat /\ u \in Int /\ v \in Int /\ h \in Nat
  BY LineFields, GeometryTyped
<1>2. /\ v >= 0 /\ (M = 0 => v = 0) /\ (M > 0 => line.err < M)
      /\ line.err = h - (u * m) + (v * M) /\ line.err \in 0..M
  BY DEF Turned, ErrorAt
<1>3. u \in 0..M
  BY NearHere
<1> HIDE DEF M, m, u, v, h
<1>4. ASSUME v >= m + 1 PROVE FALSE
  <2>1. v * M >= (m + 1) * M
    BY <1>1, <1>4
  <2>2. u * m <= M * m /\ (m + 1) * M = (M * m) + M
    BY <1>1, <1>3
  <2> DEFINE x == v * M
             y == u * m
             z == M * m
  <2>3. x \in Int /\ y \in Int /\ z \in Int
    BY <1>1
  <2>4. x >= z + M /\ y <= z /\ line.err = h - y + x
    BY <2>1, <2>2, <1>2
  <2> HIDE DEF x, y, z
  <2>5. line.err >= M
    BY <1>1, <2>3, <2>4
  <2> QED BY <2>5, <1>1, <1>2, <1>4
<1>5. v \in 0..m
  BY <1>1, <1>2, <1>4
<1> QED BY <1>3, <1>5 DEF M, m, u, v

LEMMA SeenInside ==
  ASSUME Windowed, line \in Lines, Straight(line), Turned(line), ~line.out, Limits(line.end) = {}
  PROVE  Limits(line.xy) = {}
<1>1. line.xy \in Coordinate /\ line.end \in Coordinate /\ line.dmaj \in Nat /\ line.dmin \in Nat
  BY LineFields
<1>2. /\ RunOf(line, line.xy) \in 0..line.dmaj /\ RiseOf(line, line.xy) \in 0..line.dmin
  BY RiseBelow
<1>3. RunOf(line, line.end) = line.dmaj /\ RiseOf(line, line.end) = line.dmin /\ Limits(line.from) = {}
  BY DEF Straight
<1>4. /\ RunOf(line, line.xy) >= 0 /\ RunOf(line, line.xy) <= RunOf(line, line.end)
      /\ RiseOf(line, line.xy) >= 0 /\ RiseOf(line, line.xy) <= RiseOf(line, line.end)
  <2> DEFINE a == RunOf(line, line.xy)
             b == RiseOf(line, line.xy)
  <2> HIDE DEF a, b
  <2>1. a >= 0 /\ a <= line.dmaj /\ b >= 0 /\ b <= line.dmin
    BY <1>1, <1>2 DEF a, b
  <2> QED BY <2>1, <1>3 DEF a, b
<1>5. win \in Windows
  BY DEF Windowed
<1> QED BY <1>1, <1>3, <1>4, <1>5, BetweenSeen

(* The point drawn in a turn of a line that is clipped.                    *)
Points == Limits(line.xy) = {} /\ (line.dotted => line.dot)

LEMMA HereIs ==
  ASSUME Windowed, line \in Lines, Straight(line), Turned(line),
         ~line.out /\ OnScreen(line.xy) => spot = Where(line.xy),
         spot \in Spots \cup {NoSpot}, ~(line.dotted /\ line.out), ~ClipsNot(win, line)
  PROVE  /\ Points => DrawnHere = Where(line.xy) /\ Where(line.xy) \in Spots
         /\ (IF line.dotted THEN line.dot ELSE line.out => Limits(line.xy) = {}) => Points
         /\ Points => (IF line.dotted THEN line.dot ELSE line.out => Limits(line.xy) = {})
<1>1. line.xy \in Coordinate
  BY LineFields
<1>2. ~line.out => Limits(line.xy) = {}
  <2>1. ~line.out => Limits(line.end) = {}
    BY LimitsInIs DEF ClipsNot
  <2> QED BY <2>1, SeenInside
<1>3. ASSUME Limits(line.xy) = {}
      PROVE  /\ OnScreen(line.xy) /\ Where(line.xy) \in Spots
             /\ Calculated(line.xy) = Where(line.xy)
  BY <1>1, <1>3, WindowSeen, CalculatedType
<1>4. Points => DrawnHere = Where(line.xy) /\ Where(line.xy) \in Spots
  <2>1. CASE line.out
    BY <2>1, <1>3 DEF Points, DrawnHere
  <2>2. CASE ~line.out
    BY <2>2, <1>3 DEF Points, DrawnHere
  <2> QED BY <2>1, <2>2
<1>5. CASE line.dotted
  BY <1>2, <1>4, <1>5 DEF Points
<1>6. CASE ~line.dotted
  BY <1>2, <1>4, <1>6 DEF Points
<1> QED BY <1>5, <1>6

WantingTo(r) == Wanting(mode, start, win, line, r)

LEMMA WantingIs ==
  ASSUME NEW r, NEW s
  PROVE  s \in WantingTo(r) <=> \E q \in InWindow(win, line) : RunOf(line, q) < r /\ s = Where(q)
  BY WhereAtIs DEF WantingTo, Wanting

LEMMA InWindowIs ==
  ASSUME Windowed, NEW q \in InWindow(win, line)
  PROVE  q \in Coordinate /\ Limits(q) = {} /\ NearOf(line, q) /\ OnScreen(q)
<1>1. q \in [x : win.l..win.r, y : win.b..win.t] /\ NearOf(line, q)
  BY DEF InWindow
<1>2. q \in Coordinate /\ Limits(q) = {}
  BY <1>1, SeenInWindow
<1> QED BY <1>1, <1>2, WindowSeen

LEMMA WantingOn ==
  ASSUME Windowed, line \in Lines, Straight(line), Turned(line)
  PROVE  /\ Points => /\ WantingTo(RunOf(line, line.xy) + 1) =
                           WantingTo(RunOf(line, line.xy)) \cup {Where(line.xy)}
                      /\ Where(line.xy) \notin WantingTo(RunOf(line, line.xy))
         /\ ~Points => WantingTo(RunOf(line, line.xy) + 1) = WantingTo(RunOf(line, line.xy))
<1> DEFINE u == RunOf(line, line.xy)
           p == line.xy
<1>1. p \in Coordinate /\ u \in Int
  BY LineFields, GeometryTyped
<1>2. ASSUME NEW q \in InWindow(win, line)
      PROVE  /\ RunOf(line, q) < u + 1 => RunOf(line, q) < u \/ RunOf(line, q) = u
             /\ RunOf(line, q) < u => RunOf(line, q) < u + 1 /\ RunOf(line, q) # u
             /\ RunOf(line, q) = u => RunOf(line, q) < u + 1
  <2>1. RunOf(line, q) \in Int
    BY InWindowIs, GeometryTyped
  <2> DEFINE r == RunOf(line, q)
  <2> HIDE DEF u, r
  <2> QED BY <2>1, <1>1 DEF r
<1>3. ASSUME NEW q \in InWindow(win, line), RunOf(line, q) = u PROVE Points /\ q = p
  <2>1. q \in Coordinate /\ Limits(q) = {} /\ NearOf(line, q)
    BY InWindowIs
  <2>2. line.dotted => line.dot
    <3>1. line.dotted => u % 2 = 0
      BY <2>1, <1>3, NearIs
    <3>2. ~line.dot => u % 2 = 1
      BY DEF Turned
    <3> HIDE DEF u
    <3> QED BY <3>1, <3>2
  <2>3. NearOf(line, p)
    BY <2>2, NearHere
  <2>4. q = p
    <3> HIDE DEF p
    <3> QED BY <2>1, <2>3, <1>1, <1>3, NearUnique DEF u, p
  <2> QED BY <2>1, <2>2, <2>4 DEF Points
<1>4. ASSUME Points PROVE p \in InWindow(win, line)
  <2>1. p \in [x : win.l..win.r, y : win.b..win.t]
    BY <1>1, <1>4, WindowSeen DEF Points
  <2>2. NearOf(line, p)
    BY <1>4, NearHere DEF Points
  <2> QED BY <2>1, <2>2 DEF InWindow
<1>5. ASSUME Points
      PROVE  /\ WantingTo(u + 1) = WantingTo(u) \cup {Where(p)} /\ Where(p) \notin WantingTo(u)
  <2> HIDE DEF u, p
  <2>1. ASSUME NEW s \in WantingTo(u + 1) PROVE s \in WantingTo(u) \cup {Where(p)}
    <3>1. PICK q \in InWindow(win, line) : RunOf(line, q) < u + 1 /\ s = Where(q)
      BY <2>1, WantingIs
    <3>2. CASE RunOf(line, q) < u
      BY <3>1, <3>2, WantingIs
    <3>3. CASE RunOf(line, q) = u
      BY <3>1, <3>3, <1>3
    <3> QED BY <3>1, <3>2, <3>3, <1>2
  <2>2. ASSUME NEW s \in WantingTo(u) PROVE s \in WantingTo(u + 1)
    <3>1. PICK q \in InWindow(win, line) : RunOf(line, q) < u /\ s = Where(q)
      BY <2>2, WantingIs
    <3> QED BY <3>1, <1>2, WantingIs
  <2>3. Where(p) \in WantingTo(u + 1)
    <3>1. p \in InWindow(win, line) /\ RunOf(line, p) = u
      BY <1>4, <1>5 DEF u, p
    <3> QED BY <3>1, <1>2, WantingIs
  <2>4. ASSUME Where(p) \in WantingTo(u) PROVE FALSE
    <3>1. PICK q \in InWindow(win, line) : RunOf(line, q) < u /\ Where(p) = Where(q)
      BY <2>4, WantingIs
    <3>2. p \in InWindow(win, line)
      BY <1>4, <1>5
    <3>3. p = q
      BY <3>1, <3>2, InWindowIs, WhereUnique DEF Windowed
    <3> QED BY <3>1, <3>3, <1>2 DEF u, p
  <2> QED BY <2>1, <2>2, <2>3, <2>4
<1>6. ASSUME ~Points PROVE WantingTo(u + 1) = WantingTo(u)
  <2> HIDE DEF u, p
  <2>1. ASSUME NEW s \in WantingTo(u + 1) PROVE s \in WantingTo(u)
    <3>1. PICK q \in InWindow(win, line) : RunOf(line, q) < u + 1 /\ s = Where(q)
      BY <2>1, WantingIs
    <3>2. RunOf(line, q) < u
      BY <3>1, <1>2, <1>3, <1>6
    <3> QED BY <3>1, <3>2, WantingIs
  <2>2. ASSUME NEW s \in WantingTo(u) PROVE s \in WantingTo(u + 1)
    <3>1. PICK q \in InWindow(win, line) : RunOf(line, q) < u /\ s = Where(q)
      BY <2>2, WantingIs
    <3> QED BY <3>1, <1>2, WantingIs
  <2> QED BY <2>1, <2>2
<1> QED BY <1>5, <1>6

(* A line that is clipped ends early only at its end: the counter of the   *)
(* room has not wrapped, and the end is in the room.                       *)
LEMMA StopsAtEnd ==
  ASSUME Windowed, line \in Lines, Straight(line), Turned(line), Stops(line), ~ClipsNot(win, line)
  PROVE  RunOf(line, line.xy) = line.dmaj
<1> DEFINE M == line.dmaj
           m == line.dmin
           u == RunOf(line, line.xy)
           v == RiseOf(line, line.xy)
           h == M \div 2
           R == RoomOf(line)
<1>1. M \in Nat /\ m \in Nat /\ u \in Int /\ v \in Int /\ h \in Nat /\ line.err \in Int
  BY LineFields, GeometryTyped
<1>2. u \in 0..M /\ v \in 0..m
  BY RiseBelow
<1>3. /\ (M > 0 => line.err < M) /\ line.err \in 0..M
      /\ line.err = h - (u * m) + (v * M) /\ line.counter = (R + 1 - v) % BYTE
  BY DEF Turned, ErrorAt, Stops
<1>4. m <= M /\ line.err - m < 0 /\ (line.counter - 1) % BYTE = 0 /\ ~line.out
  BY DEF Straight, Stops, Aside
<1>5. Limits(line.from) = {} /\ Limits(line.end) = {} /\ ~(win.r - line.from.x >= BYTE)
  BY <1>4, LimitsInIs DEF Straight, ClipsNot
<1>6. R \in M..(BYTE - 1) /\ R \in Int /\ BYTE \in Nat \ {0}
  <2> DEFINE fx == line.from.x
             fy == line.from.y
             ex == line.end.x
             ey == line.end.y
  <2>1. fx \in Int /\ fy \in Int /\ ex \in Int /\ ey \in Int
    BY LineFields DEF Coordinate
  <2>2. /\ win.l \in Int /\ win.b \in Int /\ win.r \in Int /\ win.t \in Int
        /\ win.b >= 0 /\ win.t < Height
    BY DEF Windowed, Windows, InScreen
  <2>3. Height \in Nat /\ Height <= BYTE /\ BYTE \in Nat \ {0}
    BY ScreenFacts DEF Windowed, Screened
  <2>4. ~(fy < win.b) /\ ~(ey > win.t) /\ ~(ex > win.r)
    BY <1>5, LimitsIs
  <2>5. RunOf(line, line.end) = M
    BY DEF Straight
  <2>6. CASE line.major = "above"
    <3>1. M = ey - fy /\ R = win.t - fy
      BY <2>5, <2>6 DEF RunOf, RoomOf
    <3> DEFINE wt == win.t
               wb == win.b
    <3> HIDE DEF fx, fy, ex, ey, M, R, wt, wb
    <3>2. wt \in Int /\ wb \in Int /\ wb >= 0 /\ wt < Height /\ ~(fy < wb) /\ ~(ey > wt) /\ R = wt - fy
      BY <2>2, <2>4, <3>1 DEF wt, wb
    <3> QED BY <1>1, <2>1, <2>3, <3>1, <3>2
  <2>7. CASE line.major = "right"
    <3>1. M = ex - fx /\ R = win.r - fx
      BY <2>5, <2>7 DEF RunOf, RoomOf
    <3>2. ~(win.r - fx >= BYTE)
      BY <1>5
    <3> DEFINE wr == win.r
    <3> HIDE DEF fx, fy, ex, ey, M, R, wr
    <3>3. wr \in Int /\ ~(ex > wr) /\ R = wr - fx /\ ~(wr - fx >= BYTE)
      BY <2>2, <2>4, <3>1, <3>2 DEF wr
    <3> QED BY <1>1, <2>1, <2>3, <3>1, <3>3
  <2> QED BY <2>6, <2>7, LineFields
<1> HIDE DEF M, m, u, v, h, R
<1>7. R - v = 0
  <2>1. R - v \in 0..(BYTE - 1)
    BY <1>1, <1>2, <1>4, <1>6
  <2>2. (R - v) % BYTE = R - v
    <3> DEFINE z == R - v
    <3> HIDE DEF z
    <3> QED BY <2>1, <1>6, SmallRemainder DEF z
  <2> DEFINE a == R + 1 - v
  <2>3. a \in Int /\ a - 1 = R - v
    BY <1>1, <1>6
  <2> HIDE DEF a
  <2>4. ((a % BYTE) - 1) % BYTE = (a - 1) % BYTE
    BY <2>3, <1>6, CountDown
  <2>5. (R - v) % BYTE = 0
    BY <2>3, <2>4, <1>3, <1>4 DEF a
  <2> QED BY <2>2, <2>5
<1>8. v = M /\ m = M /\ M > 0
  BY <1>1, <1>2, <1>3, <1>4, <1>6, <1>7
<1>9. ASSUME u < M PROVE FALSE
  <2>1. line.err = h - (u * M) + (M * M)
    BY <1>3, <1>8
  <2>2. M * M = ((M - u) * M) + (u * M) /\ (M - u) * M >= M
    <3> DEFINE k == M - u
    <3>1. k \in Nat /\ k >= 1 /\ M = k + u
      BY <1>1, <1>2, <1>9
    <3> HIDE DEF k
    <3>2. (k + u) * M = (k * M) + (u * M) /\ k * M >= M
      BY <3>1, <1>1
    <3> QED BY <3>1, <3>2 DEF k
  <2> DEFINE x == u * M
             y == M * M
             z == (M - u) * M
  <2>3. x \in Int /\ y \in Int /\ z \in Int
    BY <1>1
  <2>4. line.err = h - x + y /\ y = z + x /\ z >= M
    BY <2>1, <2>2
  <2> HIDE DEF x, y, z
  <2>5. line.err >= M
    BY <1>1, <2>3, <2>4
  <2> QED BY <2>5, <1>1, <1>3, <1>8
<1>10. u = M
  BY <1>1, <1>2, <1>9
<1> QED BY <1>10 DEF u, M

(* At its end a line has passed all its points.                            *)
LEMMA WantingEnd ==
  ASSUME Windowed, line \in Lines
  PROVE  WantingTo(line.dmaj + 1) = WantingAll(mode, start, win, line)
<1>1. ASSUME NEW q \in InWindow(win, line) PROVE RunOf(line, q) < line.dmaj + 1
  <2>1. RunOf(line, q) \in 0..line.dmaj /\ line.dmaj \in Nat
    BY InWindowIs, NearIs, LineFields
  <2> DEFINE r == RunOf(line, q)
             M == line.dmaj
  <2> HIDE DEF r, M
  <2> QED BY <2>1 DEF r, M
<1>2. ASSUME NEW s
      PROVE  s \in WantingAll(mode, start, win, line) <=> \E q \in InWindow(win, line) : s = Where(q)
  BY WhereAtIs DEF WantingAll
<1>3. ASSUME NEW s
      PROVE  s \in WantingTo(line.dmaj + 1) <=> s \in WantingAll(mode, start, win, line)
  BY <1>1, <1>2, WantingIs
<1> QED BY <1>3

LEMMA WantingStart ==
  ASSUME Windowed, NEW l \in Lines
  PROVE  Wanting(mode, start, win, l, 0) = {}
<1>1. ASSUME NEW q \in InWindow(win, l) PROVE ~(RunOf(l, q) < 0)
  <2>1. RunOf(l, q) \in 0..l.dmaj /\ l.dmaj \in Nat
    <3>1. q \in Coordinate /\ NearOf(l, q)
      BY SeenInWindow DEF InWindow
    <3> QED BY <3>1, NearIs, LineFields
  <2> DEFINE r == RunOf(l, q)
             M == l.dmaj
  <2> HIDE DEF r, M
  <2> QED BY <2>1 DEF r, M
<1>2. {q \in InWindow(win, l) : RunOf(l, q) < 0} = {}
  BY <1>1
<1> QED BY <1>2 DEF Wanting

(* Lines with the same ends and the same way want the same points.         *)
SameLine(l, k) ==
  /\ k.from = l.from /\ k.end = l.end /\ k.major = l.major /\ k.minor = l.minor
  /\ k.dmaj = l.dmaj /\ k.dmin = l.dmin
  /\ (k.out => l.out) /\ (l.out => k.out)
  /\ (k.dotted => l.dotted) /\ (l.dotted => k.dotted)

LEMMA SameWanted ==
  ASSUME NEW m, NEW st, NEW w, NEW l, NEW k, NEW r, SameLine(l, k)
  PROVE  /\ Wanting(m, st, w, k, r) = Wanting(m, st, w, l, r)
         /\ WantingAll(m, st, w, k) = WantingAll(m, st, w, l)
         /\ ClipsNot(w, k) => ClipsNot(w, l)
         /\ ClipsNot(w, l) => ClipsNot(w, k)
<1>1. \A q : RunOf(k, q) = RunOf(l, q) /\ RiseOf(k, q) = RiseOf(l, q)
  BY SameGeometry DEF SameLine
<1>2. \A q : NearOf(k, q) <=> NearOf(l, q)
  BY <1>1 DEF NearOf, SameLine
<1>3. InWindow(w, k) = InWindow(w, l)
  BY <1>2 DEF InWindow
<1>4. {q \in InWindow(w, k) : RunOf(k, q) < r} = {q \in InWindow(w, l) : RunOf(l, q) < r}
  BY <1>1, <1>3
<1>5. Wanting(m, st, w, k, r) = Wanting(m, st, w, l, r)
  BY <1>4 DEF Wanting
<1>6. WantingAll(m, st, w, k) = WantingAll(m, st, w, l)
  BY <1>3 DEF WantingAll
<1>7. (ClipsNot(w, k) => ClipsNot(w, l)) /\ (ClipsNot(w, l) => ClipsNot(w, k))
  BY DEF ClipsNot, SameLine
<1> QED BY <1>5, <1>6, <1>7

LEMMA SameDrawn ==
  ASSUME NEW m, NEW st, NEW w, NEW l, NEW k, NEW pl, NEW d, NEW r, SameLine(l, k)
  PROVE  /\ DrawnUpTo(m, st, w, l, pl, d, r) => DrawnUpTo(m, st, w, k, pl, d, r)
         /\ DrawnAll(m, st, w, l, pl, d) => DrawnAll(m, st, w, k, pl, d)
<1>1. /\ Wanting(m, st, w, k, r) = Wanting(m, st, w, l, r)
      /\ WantingAll(m, st, w, k) = WantingAll(m, st, w, l)
      /\ ~ClipsNot(w, k) => ~ClipsNot(w, l)
      /\ ~(k.dotted /\ k.out) => ~(l.dotted /\ l.out)
  BY SameWanted DEF SameLine
<1>2. DrawnUpTo(m, st, w, l, pl, d, r) => DrawnUpTo(m, st, w, k, pl, d, r)
  BY <1>1 DEF DrawnUpTo
<1>3. DrawnAll(m, st, w, l, pl, d) => DrawnAll(m, st, w, k, pl, d)
  BY <1>1 DEF DrawnAll
<1> QED BY <1>2, <1>3

(* The spots drawn at.                                                     *)
Drawn(d) == {d[i] : i \in DOMAIN d}

LEMMA AppendIs ==
  ASSUME NEW S, NEW d \in Seq(S), NEW x \in S
  PROVE  /\ Append(d, x) \in Seq(S) /\ Len(Append(d, x)) = Len(d) + 1 /\ Len(d) \in Nat
         /\ Drawn(Append(d, x)) = Drawn(d) \cup {x}
<1> DEFINE e == Append(d, x)
<1>1. /\ e \in Seq(S) /\ Len(e) = Len(d) + 1 /\ Len(d) \in Nat
      /\ DOMAIN e = 1..(Len(d) + 1) /\ DOMAIN d = 1..Len(d)
      /\ e[Len(d) + 1] = x /\ \A i \in 1..Len(d) : e[i] = d[i]
  OBVIOUS
<1> HIDE DEF e
<1>2. ASSUME NEW s \in {e[i] : i \in DOMAIN e} PROVE s \in {d[i] : i \in DOMAIN d} \cup {x}
  <2>1. PICK i \in 1..(Len(d) + 1) : s = e[i]
    BY <1>1, <1>2
  <2>2. i \in 1..Len(d) \/ i = Len(d) + 1
    BY <1>1, <2>1
  <2> QED BY <1>1, <2>1, <2>2
<1>3. ASSUME NEW s \in {d[i] : i \in DOMAIN d} PROVE s \in {e[i] : i \in DOMAIN e}
  <2>1. PICK i \in 1..Len(d) : s = d[i]
    BY <1>1, <1>3
  <2>2. i \in 1..(Len(d) + 1) /\ s = e[i]
    BY <1>1, <2>1
  <2> QED BY <1>1, <2>2
<1>4. x \in {e[i] : i \in DOMAIN e}
  <2>1. Len(d) + 1 \in 1..(Len(d) + 1)
    BY <1>1
  <2> QED BY <1>1, <2>1
<1>5. {e[i] : i \in DOMAIN e} = {d[i] : i \in DOMAIN d} \cup {x}
  BY <1>2, <1>3, <1>4
<1> QED BY <1>1, <1>5 DEF e, Drawn

LEMMA AgainCounts ==
  ASSUME NEW m, NEW st, NEW w, NEW pl
  PROVE  IsFiniteSet(Again(m, st, w, pl)) /\ Cardinality(Again(m, st, w, pl)) \in Nat
<1>1. ASSUME Again(m, st, w, pl) = {}
      PROVE  IsFiniteSet(Again(m, st, w, pl)) /\ Cardinality(Again(m, st, w, pl)) \in Nat
  BY <1>1, FS_EmptySet
<1>2. ASSUME Again(m, st, w, pl) = {WhereAt(m, st, pl.to)}
      PROVE  IsFiniteSet(Again(m, st, w, pl)) /\ Cardinality(Again(m, st, w, pl)) \in Nat
  <2> DEFINE a == WhereAt(m, st, pl.to)
  <2> HIDE DEF a
  <2>1. IsFiniteSet({a}) /\ Cardinality({a}) = 1
    BY FS_Singleton
  <2> QED BY <1>2, <2>1 DEF a
<1>3. Again(m, st, w, pl) = {} \/ Again(m, st, w, pl) = {WhereAt(m, st, pl.to)}
  BY DEF Again
<1> QED BY <1>1, <1>2, <1>3

(* A turn draws the wanted point of its place along the line, if any.      *)
LEMMA DrawnTurn ==
  ASSUME Windowed, line \in Lines, Straight(line), Turned(line),
         ~line.out /\ OnScreen(line.xy) => spot = Where(line.xy),
         spot \in Spots \cup {NoSpot}, drawn \in Seq(Spots \cup {NoSpot}),
         DrawnTo(RunOf(line, line.xy)), DrawStep
  PROVE  /\ drawn' \in Seq(Spots \cup {NoSpot})
         /\ DrawnUpTo(mode, start, win, line, plot, drawn', RunOf(line, line.xy) + 1)
<1> DEFINE u == RunOf(line, line.xy)
           S == Spots \cup {NoSpot}
           x == DrawnHere
           point == IF line.dotted THEN line.dot ELSE line.out => Limits(line.xy) = {}
           twice == Again(mode, start, win, plot)
<1>1. (point => drawn' = Append(drawn, x)) /\ (~point => drawn' = drawn)
  BY DEF DrawStep, DrawnHere
<1>2. x \in S
  BY LineFields, CalculatedType DEF DrawnHere
<1>3. /\ Append(drawn, x) \in Seq(S) /\ Len(Append(drawn, x)) = Len(drawn) + 1 /\ Len(drawn) \in Nat
      /\ Drawn(Append(drawn, x)) = Drawn(drawn) \cup {x}
  <2>1. drawn \in Seq(S)
    OBVIOUS
  <2> DEFINE e == Append(drawn, x)
  <2> HIDE DEF x, S
  <2>2. /\ e \in Seq(S) /\ Len(e) = Len(drawn) + 1 /\ Len(drawn) \in Nat
    BY <1>2, <2>1, AppendIs DEF e
  <2>3. Drawn(e) = Drawn(drawn) \cup {x}
    BY <1>2, <2>1, AppendIs DEF e
  <2> QED BY <2>2, <2>3 DEF e
<1>4. drawn' \in Seq(S)
  BY <1>1, <1>3
<1>5. ASSUME ~(line.dotted /\ line.out), ~ClipsNot(win, line)
      PROVE  /\ Drawn(drawn') = WantingTo(u + 1) \cup twice
             /\ IsFiniteSet(WantingTo(u + 1))
             /\ Len(drawn') = Cardinality(WantingTo(u + 1)) + Cardinality(twice)
  <2>1. /\ Drawn(drawn) = WantingTo(u) \cup twice
        /\ IsFiniteSet(WantingTo(u)) /\ Len(drawn) = Cardinality(WantingTo(u)) + Cardinality(twice)
    BY <1>5 DEF DrawnTo, DrawnUpTo, WantingTo, Drawn
  <2>2. (Points => x = Where(line.xy)) /\ (point => Points) /\ (Points => point)
    BY <1>5, HereIs
  <2>3. Cardinality(twice) \in Nat
    BY AgainCounts
  <2>4. Cardinality(WantingTo(u)) \in Nat
    BY <2>1, FS_CardinalityType
  <2>5. CASE Points
    <3>1. WantingTo(u + 1) = WantingTo(u) \cup {x} /\ x \notin WantingTo(u)
      BY <2>2, <2>5, WantingOn
    <3>2. IsFiniteSet(WantingTo(u + 1)) /\ Cardinality(WantingTo(u + 1)) = Cardinality(WantingTo(u)) + 1
      <4> HIDE DEF x, u
      <4> QED BY <2>1, <3>1, FS_AddElement
    <3>3. drawn' = Append(drawn, x)
      BY <1>1, <2>2, <2>5
    <3> HIDE DEF x, u, twice, point
    <3>4. Drawn(drawn') = Drawn(drawn) \cup {x}
      BY <1>3, <3>3
    <3>5. Drawn(drawn') = WantingTo(u + 1) \cup twice
      BY <2>1, <3>1, <3>4
    <3>6. Len(drawn') = Cardinality(WantingTo(u + 1)) + Cardinality(twice)
      BY <1>3, <2>1, <2>3, <2>4, <3>2, <3>3
    <3> QED BY <3>2, <3>5, <3>6
  <2>6. CASE ~Points
    <3>1. WantingTo(u + 1) = WantingTo(u) /\ drawn' = drawn
      BY <1>1, <2>2, <2>6, WantingOn
    <3> QED BY <2>1, <3>1
  <2> QED BY <2>5, <2>6
<1> QED BY <1>4, <1>5 DEF DrawnUpTo, WantingTo, Drawn

-----------------------------------------------------------------------------
(* The steps.                                                              *)

LEMMA OnlyModes == ASSUME NEW m \in Modes PROVE m \in 0..7
BY ModesAssumption

(* Between plots there is nothing of a line to be kept.                    *)
LEMMA AtRest ==
  ASSUME mode' \in Modes, start' \in Base(mode')..(TOP - 1), set' \in 0..MaxSettings, win' \in Windows,
         PixByte(mode') # 0 => InScreen(mode', win'),
         org' \in Coordinate, ext' \in Coordinate, curs' \in Coordinate, Bounded(ext'),
         plot' \in [n : 0..255, to : Coordinate], (spot \in Spots \cup {NoSpot})',
         pc' = "rest", line' = NoLine, drawn' = <<>>
  PROVE  GraphicsInv'
<1>1. PlacesInv'
  BY DEF PlacesInv, InScreen, Height, Bounded
<1>2. LineInv' /\ SpotFollows'
  BY DEF LineInv, SpotFollows
<1>3. LineDrawn'
  BY LineDrawnNext
<1> QED BY <1>1, <1>2, <1>3 DEF GraphicsInv

LEMMA MoveCursorInv == ASSUME GraphicsInv, MoveCursor PROVE GraphicsInv'
<1>1. PlacesInv /\ mode' = mode
  BY DEF GraphicsInv, MoveCursor, cvars
<1>2. plot.to \in Coordinate
  BY <1>1 DEF PlacesInv
<1>3. NoPlot \in [n : 0..255, to : Coordinate]
  BY DEF NoPlot, Zero, Coordinate
<1>4. (spot \in Spots \cup {NoSpot})'
  BY <1>1, SpotsKept DEF PlacesInv, MoveCursor
<1> QED BY <1>1, <1>2, <1>3, <1>4, AtRest DEF PlacesInv, MoveCursor

LEMMA PlusType == ASSUME NEW a \in Coordinate, NEW b \in Coordinate PROVE Plus(a, b) \in Coordinate
BY DEF Plus, Coordinate

LEMMA SettingIs ==
  ASSUME PlacesInv, Setting
  PROVE  /\ pc = "rest" /\ line = NoLine /\ drawn = <<>>
         /\ set' \in 0..MaxSettings
BY SettingsAssumption DEF PlacesInv, Setting

LEMMA VDU_24Inv == ASSUME GraphicsInv, NEW c \in Corners, VDU_24(c[1], c[2]) PROVE GraphicsInv'
<1> DEFINE lo == c[1]
           hi == c[2]
<1>1. PlacesInv /\ mode' = mode /\ Setting /\ pc' = pc
  BY DEF GraphicsInv, VDU_24, cvars, drawing
<1>2. lo \in Coordinate /\ hi \in Coordinate
  BY SettingsAssumption DEF Coordinate
<1>3. mode \in 0..7 /\ ext \in Coordinate /\ org \in Coordinate /\ win \in Windows
  BY <1>1, OnlyModes DEF PlacesInv
<1>4. win' = Window(mode, lo, hi, ext, org, win).win /\ ext' = Window(mode, lo, hi, ext, org, win).ext
  BY DEF VDU_24
<1> HIDE DEF lo, hi
<1>5. /\ win' \in Windows /\ ext' \in {ext, Plus(hi, Plus(lo, ext))}
      /\ PixByte(mode) # 0 /\ InScreen(mode, win) => InScreen(mode, win')
  BY <1>2, <1>3, <1>4, WindowFacts
<1>6. ext' \in Coordinate
  BY <1>2, <1>3, <1>5, PlusType
<1>7. (spot \in Spots \cup {NoSpot})'
  BY <1>1, SpotsKept DEF PlacesInv, VDU_24, drawing
<1> QED BY <1>1, <1>5, <1>6, <1>7, SettingIs, AtRest DEF PlacesInv, VDU_24, drawing

LEMMA WindowlessIs ==
  ASSUME NEW m \in Modes, Windowless(m)
  PROVE  /\ win' \in Windows /\ (PixByte(m) # 0 => InScreen(m, win'))
         /\ ext' \in Coordinate /\ Bounded(ext') /\ org' \in Coordinate /\ curs' \in Coordinate
<1>1. Zero \in Coordinate
  BY DEF Zero, Coordinate
<1>2. m \in 0..7
  BY OnlyModes
<1>3. win' = DefaultWindow(m).win /\ ext' = DefaultWindow(m).ext
  BY DEF Windowless
<1> QED BY <1>1, <1>2, <1>3, DefaultWindowFacts DEF Windowless

LEMMA VDU_26Inv == ASSUME GraphicsInv, VDU_26 PROVE GraphicsInv'
<1>1. PlacesInv /\ mode' = mode /\ Setting /\ Windowless(mode)
  BY DEF GraphicsInv, VDU_26, cvars
<1>2. (spot \in Spots \cup {NoSpot})'
  <2>1. spot \in Spots \cup {NoSpot} /\ spot' = IF spot = NoSpot THEN NoSpot ELSE [spot EXCEPT !.scan = 0]
    BY <1>1 DEF PlacesInv, VDU_26
  <2>2. 0 \in 0..(SCANS - 1)
    BY SizeAssumption
  <2>3. ASSUME spot \in Spots PROVE [spot EXCEPT !.scan = 0] \in Spots
    BY <2>2, <2>3 DEF Spots
  <2> QED BY <1>1, <2>1, <2>3, SpotsKept
<1> QED BY <1>1, <1>2, SettingIs, WindowlessIs, AtRest DEF PlacesInv, VDU_26

LEMMA VDU_22Inv == ASSUME GraphicsInv, NEW m \in Modes, VDU_22(m) PROVE GraphicsInv'
<1>1. PlacesInv /\ mode' = m /\ Windowless(m) /\ start' = Base(m) /\ pc = "rest"
      /\ spot' = NoSpot /\ UNCHANGED <<pc, plot, line, drawn, set>>
  BY DEF GraphicsInv, VDU_22
<1>2. Base(m) \in Base(m)..(TOP - 1)
  BY OnlyModes, ScreenFacts
<1> QED BY <1>1, <1>2, WindowlessIs, AtRest DEF PlacesInv

LEMMA VDU_29Inv == ASSUME GraphicsInv, NEW o \in Origins, VDU_29(o) PROVE GraphicsInv'
<1>1. PlacesInv /\ mode' = mode /\ Setting
  BY DEF GraphicsInv, VDU_29, cvars
<1>2. o \in Coordinate
  BY SettingsAssumption DEF Coordinate
<1>3. Unscaled(o) \in Coordinate
  <2> DEFINE k == IF PixByte(mode) = 7 THEN 2 ELSE IF PixByte(mode) = 3 THEN 4 ELSE 8
  <2>1. k \in Int /\ curs.x \in Int /\ curs.y \in Int /\ o.x \in Int /\ o.y \in Int
    BY <1>1, <1>2 DEF PlacesInv, Coordinate
  <2> HIDE DEF k
  <2>2. curs.x * k - o.x \in Int /\ curs.y * 4 - o.y \in Int
    BY <2>1
  <2>3. Unscaled(o) = [x |-> curs.x * k - o.x, y |-> curs.y * 4 - o.y]
    BY DEF Unscaled, k
  <2> QED BY <2>2, <2>3 DEF Coordinate
<1>4. (spot \in Spots \cup {NoSpot})'
  BY <1>1, SpotsKept DEF PlacesInv, VDU_29, drawing
<1> QED BY <1>1, <1>2, <1>3, <1>4, SettingIs, AtRest DEF PlacesInv, VDU_29, drawing

LEMMA HardScrollUpInv == ASSUME GraphicsInv, HardScrollUp PROVE GraphicsInv'
<1>1. PlacesInv /\ mode' = mode
  BY DEF GraphicsInv, HardScrollUp, cvars
<1>2. Screened
  BY <1>1, PlacesScreened
<1>3. CellsPerRow(mode) \in 0..Size(mode)
  BY <1>2, ScreenFacts DEF Screened
<1>4. start' \in Base(mode)..(TOP - 1)
  BY <1>2, <1>3, WrapsInScreen DEF Screened, HardScrollUp
<1>5. (spot \in Spots \cup {NoSpot})'
  BY <1>1, SpotsKept DEF PlacesInv, HardScrollUp, drawing
<1> QED BY <1>1, <1>4, <1>5, AtRest DEF PlacesInv, HardScrollUp, drawing

(* What the invariant says of a line in progress.                          *)
LEMMA InProgress ==
  ASSUME GraphicsInv, pc = "line"
  PROVE  /\ Windowed /\ line \in Lines /\ Straight(line) /\ Turned(line) /\ plot.n < 32
         /\ ~line.out /\ OnScreen(line.xy) => spot = Where(line.xy)
         /\ spot \in Spots \cup {NoSpot} /\ drawn \in Seq(Spots \cup {NoSpot})
         /\ DrawnTo(RunOf(line, line.xy))
<1>1. PlacesInv /\ LineInv /\ SpotFollows
  BY DEF GraphicsInv
<1>2. PixByte(mode) # 0 /\ spot \in Spots \cup {NoSpot}
  BY <1>1 DEF PlacesInv
<1> QED BY <1>1, <1>2, PlacesScreened DEF LineInv, SpotFollows

(* The places of the screen in a step that keeps its mode and its start.   *)
LEMMA SamePlaces ==
  ASSUME mode' = mode, start' = start
  PROVE  OnScreen(line.xy)' = OnScreen(line'.xy) /\ Where(line.xy)' = Where(line'.xy)
BY DEF OnScreen, Width, Height, Where, Down

LEMMA SameStraight ==
  ASSUME win' = win, Straight(line'), Turned(line')
  PROVE  Straight(line)' /\ Turned(line)'
<1>1. Straight(line)'
  BY DEF Straight, Limits
<1>2. Turned(line)'
  BY DEF Turned, RoomOf
<1> QED BY <1>1, <1>2

(* The last turn.                                                          *)
LEMMA LineEnds ==
  ASSUME GraphicsInv, DrawStep, Stops(line) \/ line.loops = 1
  PROVE  DrawnAll(mode, start, win, line', plot, drawn')
<1>1. /\ Windowed /\ line \in Lines /\ Straight(line) /\ Turned(line)
      /\ ~line.out /\ OnScreen(line.xy) => spot = Where(line.xy)
      /\ spot \in Spots \cup {NoSpot} /\ drawn \in Seq(Spots \cup {NoSpot})
      /\ DrawnTo(RunOf(line, line.xy))
  BY TurnIs, InProgress
<1>2. DrawnUpTo(mode, start, win, line, plot, drawn', RunOf(line, line.xy) + 1)
  BY <1>1, DrawnTurn
<1>3. SameLine(line, line')
  <2>1. line' = line \/ line' = LineTurned
    BY TurnIs
  <2> QED BY <1>1, <2>1, LineTurnedKeeps DEF SameLine
<1>4. ASSUME ~ClipsNot(win, line) PROVE DrawnAll(mode, start, win, line, plot, drawn')
  <2>1. RunOf(line, line.xy) = line.dmaj
    <3>1. CASE Stops(line)
      BY <1>1, <1>4, <3>1, StopsAtEnd
    <3>2. CASE line.loops = 1
      BY <1>1, <3>2, LineFields DEF Turned
    <3> QED BY <3>1, <3>2
  <2>2. Wanting(mode, start, win, line, RunOf(line, line.xy) + 1) = WantingAll(mode, start, win, line)
    BY <1>1, <2>1, WantingEnd DEF WantingTo
  <2> QED BY <1>2, <2>2 DEF DrawnUpTo, DrawnAll
<1>5. DrawnAll(mode, start, win, line, plot, drawn')
  <2>1. CASE ClipsNot(win, line)
    BY <2>1 DEF DrawnAll
  <2> QED BY <1>4, <2>1
<1> QED BY <1>3, <1>5, SameDrawn

(* Every other turn.                                                       *)
LEMMA LineGoesOn ==
  ASSUME GraphicsInv, DrawStep, ~Stops(line), line.loops # 1
  PROVE  LineInv' /\ SpotFollows'
<1>1. /\ Windowed /\ line \in Lines /\ Straight(line) /\ Turned(line) /\ plot.n < 32
      /\ ~line.out /\ OnScreen(line.xy) => spot = Where(line.xy)
      /\ spot \in Spots \cup {NoSpot} /\ drawn \in Seq(Spots \cup {NoSpot})
      /\ DrawnTo(RunOf(line, line.xy))
  BY TurnIs, InProgress
<1>2. /\ mode' = mode /\ start' = start /\ win' = win /\ plot' = plot
      /\ spot' = Step(SpotAside(DrawnHere), line.major) /\ line' = LineTurned /\ pc' = "line"
  BY TurnIs DEF cvars
<1>3. /\ drawn' \in Seq(Spots \cup {NoSpot})
      /\ DrawnUpTo(mode, start, win, line, plot, drawn', RunOf(line, line.xy) + 1)
  BY <1>1, DrawnTurn
<1>4. line' \in Lines
  <2>1. line.loops # 0
    BY <1>1, LineFields DEF Turned
  <2> QED BY <1>1, <1>2, <2>1, LineTurnedTyped
<1>5. Straight(line') /\ Turned(line')
  <2>1. win \in Windows
    BY <1>1 DEF Windowed
  <2> QED BY <1>1, <1>2, <2>1, TurnedOn
<1>6. RunOf(line', line'.xy) = RunOf(line, line.xy) + 1
  <2>1. /\ RunOf(line', line'.xy) = line'.dmaj + 1 - line'.loops
        /\ RunOf(line, line.xy) = line.dmaj + 1 - line.loops
    BY <1>1, <1>5 DEF Turned
  <2>2. line'.dmaj = line.dmaj /\ line'.loops = line.loops - 1
    BY <1>1, <1>2, LineTurnedKeeps, LineTurnedSets
  <2>3. line.dmaj \in Nat /\ line.loops \in Nat
    BY <1>1, LineFields
  <2> QED BY <2>1, <2>2, <2>3
<1>7. DrawnTo(RunOf(line, line.xy))'
  <2>1. SameLine(line, line')
    BY <1>1, <1>2, LineTurnedKeeps DEF SameLine
  <2>2. DrawnUpTo(mode, start, win, line', plot, drawn', RunOf(line, line.xy) + 1)
    BY <1>3, <2>1, SameDrawn
  <2>3. DrawnUpTo(mode', start', win', line', plot', drawn', RunOf(line', line'.xy))
    BY <1>2, <1>6, <2>2
  <2> QED BY <2>3 DEF DrawnTo
<1>8. LineInv'
  <2>1. Straight(line)' /\ Turned(line)'
    BY <1>2, <1>5, SameStraight
  <2>2. Spots' = Spots
    BY <1>2, SpotsKept
  <2>3. (line \in Lines)'
    BY <1>4 DEF Lines, Sides, Coordinate
  <2> QED BY <1>1, <1>2, <1>3, <1>7, <2>1, <2>2, <2>3 DEF LineInv
<1>9. SpotFollows'
  <2>1. OnScreen(line.xy)' = OnScreen(line'.xy) /\ Where(line.xy)' = Where(line'.xy)
    BY <1>2, SamePlaces
  <2>2. ASSUME ~line'.out, OnScreen(line'.xy) PROVE spot' = Where(line'.xy)
    <3>1. ~line.out
      BY <1>1, <1>2, <2>2, LineTurnedKeeps
    <3> QED BY <1>1, <1>2, <2>2, <3>1, SpotTurned
  <2> QED BY <2>1, <2>2 DEF SpotFollows
<1> QED BY <1>8, <1>9

LEMMA DrawStepInv == ASSUME GraphicsInv, DrawStep PROVE GraphicsInv'
<1>1. /\ PlacesInv /\ pc = "line" /\ Windowed /\ line \in Lines /\ spot \in Spots \cup {NoSpot}
      /\ Straight(line)
  BY TurnIs, InProgress DEF GraphicsInv
<1>2. /\ mode' = mode /\ start' = start /\ win' = win /\ org' = org /\ ext' = ext /\ curs' = curs
      /\ plot' = plot /\ set' = set
  BY TurnIs DEF cvars
<1>3. spot' \in Spots \cup {NoSpot}
  <2>1. Screened
    BY <1>1 DEF Windowed
  <2>2. DrawnHere \in Spots \cup {NoSpot}
    BY <1>1, LineFields, CalculatedType DEF DrawnHere
  <2>3. SpotAside(DrawnHere) \in Spots \cup {NoSpot}
    BY <1>1, <2>1, <2>2, LineFields, StepType DEF SpotAside
  <2>4. Step(SpotAside(DrawnHere), line.major) \in Spots \cup {NoSpot}
    BY <1>1, <2>1, <2>3, LineFields, StepType
  <2> QED BY <2>2, <2>4, TurnIs
<1>4. pc' \in {"line", "move"}
  BY TurnIs
<1>5. PlacesInv'
  <2>1. Spots' = Spots
    BY <1>2, SpotsKept
  <2> QED BY <1>1, <1>2, <1>3, <1>4, <2>1 DEF PlacesInv, InScreen, Height, Bounded
<1>6. CASE Stops(line) \/ line.loops = 1
  <2>1. pc' = "move"
    BY <1>6, TurnIs
  <2>2. LineInv' /\ SpotFollows'
    BY <2>1 DEF LineInv, SpotFollows
  <2>3. LineDrawn'
    BY <1>2, <1>6, LineEnds, LineDrawnNext
  <2> QED BY <1>5, <2>2, <2>3 DEF GraphicsInv
<1>7. CASE ~Stops(line) /\ line.loops # 1
  <2>1. pc' = "line"
    BY <1>7, TurnIs
  <2>2. LineDrawn'
    BY <2>1, LineDrawnNext
  <2> QED BY <1>5, <1>7, <2>2, LineGoesOn DEF GraphicsInv
<1> QED BY <1>6, <1>7

(* Before its first turn a line has drawn nothing, but its end if PLOT     *)
(* draws it.                                                               *)
LEMMA LineStarts ==
  ASSUME Windowed, NEW n, NEW to, NEW l \in Lines, NEW first, NEW d, NEW pl, pl = [n |-> n, to |-> to],
         BitOf(n, 3) /\ Limits(to) = {} => d = <<first>> /\ first = Where(to),
         ~(BitOf(n, 3) /\ Limits(to) = {}) => d = <<>>
  PROVE  DrawnUpTo(mode, start, win, l, pl, d, 0)
<1> DEFINE W == Wanting(mode, start, win, l, 0)
           A == Again(mode, start, win, pl)
           D == {d[i] : i \in DOMAIN d}
<1>1. W = {} /\ IsFiniteSet({}) /\ Cardinality({}) = 0
  BY WantingStart, FS_EmptySet
<1>2. pl.n = n /\ pl.to = to
  OBVIOUS
<1>3. CASE BitOf(n, 3) /\ Limits(to) = {}
  <2>1. d = <<first>> /\ first = WhereAt(mode, start, to)
    BY <1>3, WhereAtIs
  <2>2. A = {first}
    BY <1>2, <1>3, <2>1, LimitsInIs DEF Again
  <2>3. D = {first} /\ Len(d) = 1
    BY <2>1
  <2>4. Cardinality({first}) = 1
    BY FS_Singleton
  <2> HIDE DEF W, A, D
  <2>5. D = W \cup A /\ IsFiniteSet(W) /\ Len(d) = Cardinality(W) + Cardinality(A)
    BY <1>1, <2>2, <2>3, <2>4
  <2> QED BY <2>5 DEF DrawnUpTo, W, A, D
<1>4. CASE ~(BitOf(n, 3) /\ Limits(to) = {})
  <2>1. A = {}
    BY <1>2, <1>4, LimitsInIs DEF Again
  <2>2. D = {} /\ Len(d) = 0
    BY <1>4
  <2> HIDE DEF W, A, D
  <2>3. D = W \cup A /\ IsFiniteSet(W) /\ Len(d) = Cardinality(W) + Cardinality(A)
    BY <1>1, <2>1, <2>2
  <2> QED BY <2>3 DEF DrawnUpTo, W, A, D
<1> QED BY <1>3, <1>4

(* VDU 25, its coordinates scaled.                                         *)
PlotTo(n, c) == Scaled(mode, Moved(BitOf(n, 2), c, ext), org)
FirstOf(n, to) == IF BitOf(n, 3) \/ n >= 64 THEN Calculated(to) ELSE spot
PlotsLine(n, to) ==
  /\ n \in 0..31
  /\ (BitOf(n, 3) /\ Limits(to) = {}) => drawn' = <<FirstOf(n, to)>>
  /\ ~(BitOf(n, 3) /\ Limits(to) = {}) => drawn' = <<>>
  /\ pc' = "line" /\ line' = NewLine(n, curs, to)
  /\ NewLine(n, curs, to).out => spot' = FirstOf(n, to)
  /\ ~NewLine(n, curs, to).out => spot' = Where(NewLine(n, curs, to).xy)

LEMMA PlotIs ==
  ASSUME NEW n, NEW c, VDU_25(n, c)
  PROVE  /\ pc = "rest" /\ PixByte(mode) # 0 /\ UNCHANGED <<cvars, start, win, org, set>>
         /\ ext' = Moved(BitOf(n, 2), c, ext) /\ Bounded(ext')
         /\ \/ UNCHANGED drawing /\ (curs' = curs \/ curs' = PlotTo(n, c))
            \/ /\ plot' = [n |-> n, to |-> PlotTo(n, c)] /\ curs' = curs
               /\ \/ PlotsLine(n, PlotTo(n, c))
                  \/ pc' = "move" /\ line' = line /\ spot' = FirstOf(n, PlotTo(n, c))
<1> DEFINE to == PlotTo(n, c)
           l == NewLine(n, curs, to)
           seen == (BitOf(n, 3) \/ n >= 64) /\ Limits(to) = {}
<1>1. /\ pc = "rest" /\ PixByte(mode) # 0 /\ UNCHANGED <<cvars, start, win, org, set>>
      /\ ext' = Moved(BitOf(n, 2), c, ext) /\ Bounded(ext')
  BY DEF VDU_25
<1>2. \/ n = 4 /\ curs' = to /\ UNCHANGED drawing
      \/ n \in 32..63 \cup 72..255 /\ UNCHANGED <<curs, drawing>>
      \/ /\ n \in (0..31 \ {4}) \cup 64..71
         /\ plot' = [n |-> n, to |-> to]
         /\ drawn' = IF seen THEN <<FirstOf(n, to)>> ELSE <<>>
         /\ IF n < 32 /\ Limits(l.xy) \cap Limits(l.end) = {}
            THEN pc' = "line" /\ line' = l /\ spot' = IF l.out THEN FirstOf(n, to) ELSE Where(l.xy)
            ELSE pc' = "move" /\ line' = line /\ spot' = FirstOf(n, to)
         /\ UNCHANGED curs
  BY DEF VDU_25, PlotTo, FirstOf
<1> HIDE DEF to
<1>3. ASSUME /\ n \in (0..31 \ {4}) \cup 64..71
             /\ drawn' = IF seen THEN <<FirstOf(n, to)>> ELSE <<>>
             /\ pc' = "line" /\ line' = l /\ spot' = IF l.out THEN FirstOf(n, to) ELSE Where(l.xy)
             /\ n < 32
      PROVE  PlotsLine(n, to)
  <2> HIDE DEF l
  <2>1. n \in 0..31 /\ ~(n >= 64)
    BY <1>3
  <2> QED BY <1>3, <2>1 DEF PlotsLine, l
<1>4. \/ UNCHANGED drawing /\ (curs' = curs \/ curs' = to)
      \/ /\ plot' = [n |-> n, to |-> to] /\ curs' = curs
         /\ \/ PlotsLine(n, to)
            \/ pc' = "move" /\ line' = line /\ spot' = FirstOf(n, to)
  BY <1>2, <1>3
<1> QED BY <1>1, <1>4 DEF to

LEMMA LineBegins ==
  ASSUME Windowed, spot \in Spots \cup {NoSpot}, curs \in Coordinate, UNCHANGED <<cvars, start, win>>,
         NEW n, NEW to \in Coordinate, PlotsLine(n, to), plot' = [n |-> n, to |-> to]
  PROVE  /\ LineInv' /\ SpotFollows' /\ spot' \in Spots \cup {NoSpot}
         /\ ~line'.out => spot' \in Spots
<1> DEFINE l == NewLine(n, curs, to)
           first == FirstOf(n, to)
<1>1. /\ l \in Lines /\ Straight(l) /\ Turned(l) /\ RunOf(l, l.xy) = 0
  BY NewLineTyped, NewLineStraight, NewLineTurned
<1>2. /\ first \in Spots \cup {NoSpot}
      /\ BitOf(n, 3) /\ Limits(to) = {} => first = Where(to)
  BY CalculatedType DEF FirstOf
<1>3. ASSUME ~l.out PROVE Where(l.xy) \in Spots
  <2>1. l.xy \in Coordinate /\ Limits(l.xy) = {}
    <3>1. l.xy = l.from
      BY NewLineEnds
    <3>2. Limits(l.from) = {}
      BY <1>1, <1>3 DEF Straight
    <3> QED BY <1>1, <3>1, <3>2, LineFields
  <2> QED BY <2>1, CalculatedType
<1>4. /\ mode' = mode /\ start' = start /\ win' = win /\ line' = l /\ n \in 0..31 /\ pc' = "line"
      /\ (BitOf(n, 3) /\ Limits(to) = {}) => drawn' = <<first>>
      /\ ~(BitOf(n, 3) /\ Limits(to) = {}) => drawn' = <<>>
      /\ l.out => spot' = first
      /\ ~l.out => spot' = Where(l.xy)
  BY DEF PlotsLine, cvars
<1> HIDE DEF l, first
<1>5. drawn' \in Seq(Spots \cup {NoSpot})
  <2> DEFINE S == Spots \cup {NoSpot}
  <2> HIDE DEF S
  <2>1. first \in S
    BY <1>2 DEF S
  <2>2. <<first>> \in Seq(S) /\ <<>> \in Seq(S)
    BY <2>1
  <2> QED BY <1>4, <2>2 DEF S
<1>6. DrawnTo(RunOf(line, line.xy))'
  <2>1. DrawnUpTo(mode, start, win, l, plot', drawn', 0)
    BY <1>1, <1>2, <1>4, LineStarts
  <2>2. DrawnUpTo(mode', start', win', line', plot', drawn', RunOf(line', line'.xy))
    BY <1>1, <1>4, <2>1
  <2> QED BY <2>2 DEF DrawnTo
<1>7. LineInv'
  <2>1. Straight(line)' /\ Turned(line)'
    BY <1>1, <1>4, SameStraight
  <2>2. Spots' = Spots
    BY <1>4, SpotsKept
  <2>3. (line \in Lines)'
    BY <1>1, <1>4 DEF Lines, Sides, Coordinate
  <2>4. plot'.n < 32
    BY <1>4
  <2> QED BY <1>5, <1>6, <2>1, <2>2, <2>3, <2>4 DEF LineInv
<1>8. SpotFollows'
  <2>1. OnScreen(line.xy)' = OnScreen(line'.xy) /\ Where(line.xy)' = Where(line'.xy)
    BY <1>4, SamePlaces
  <2> QED BY <1>4, <2>1 DEF SpotFollows
<1>9. spot' \in Spots \cup {NoSpot}
  BY <1>2, <1>3, <1>4
<1>10. ~line'.out => spot' \in Spots
  BY <1>3, <1>4
<1> QED BY <1>7, <1>8, <1>9, <1>10

LEMMA VDU_25Inv == ASSUME GraphicsInv, NEW p \in Plots, VDU_25(p[1], p[2]) PROVE GraphicsInv'
<1> DEFINE n == p[1]
           c == p[2]
           to == PlotTo(n, c)
<1>1. n \in 0..255 /\ c \in Coordinate
  BY PlotsAssumption DEF Coordinate
<1>2. PlacesInv
  BY DEF GraphicsInv
<1>3. /\ pc = "rest" /\ PixByte(mode) # 0
      /\ mode' = mode /\ start' = start /\ win' = win /\ org' = org /\ set' = set
      /\ ext' = Moved(BitOf(n, 2), c, ext) /\ Bounded(ext')
      /\ \/ UNCHANGED drawing /\ (curs' = curs \/ curs' = to)
         \/ /\ plot' = [n |-> n, to |-> to] /\ curs' = curs
            /\ \/ PlotsLine(n, to)
               \/ pc' = "move" /\ line' = line /\ spot' = FirstOf(n, to)
  BY PlotIs DEF cvars
<1>4. Windowed /\ Screened /\ spot \in Spots \cup {NoSpot} /\ line = NoLine /\ drawn = <<>>
  BY <1>2, <1>3, PlacesScreened DEF PlacesInv
<1> HIDE DEF n, c
<1>5. ext \in Coordinate /\ org \in Coordinate /\ curs \in Coordinate
  BY <1>2 DEF PlacesInv
<1>6. ext' \in Coordinate
  BY <1>1, <1>3, <1>5, PlusType DEF Moved
<1>7. to \in Coordinate
  <2>1. to = Scaled(mode, ext', org)
    BY <1>3 DEF PlotTo
  <2> HIDE DEF to
  <2> QED BY <1>4, <1>5, <1>6, <2>1, ScaledInt DEF Screened
<1> HIDE DEF to
<1>8. CASE UNCHANGED drawing /\ (curs' = curs \/ curs' = to)
  <2>1. spot' = spot /\ pc' = pc /\ plot' = plot /\ line' = line /\ drawn' = drawn
    BY <1>8 DEF drawing
  <2>2. (spot \in Spots \cup {NoSpot})'
    BY <1>3, <1>4, <2>1, SpotsKept
  <2> QED BY <1>2, <1>3, <1>4, <1>5, <1>6, <1>7, <1>8, <2>1, <2>2, AtRest DEF PlacesInv
<1>9. CASE plot' = [n |-> n, to |-> to] /\ curs' = curs /\ (PlotsLine(n, to) \/ (pc' = "move" /\ line' = line /\ spot' = FirstOf(n, to)))
  <2>1. spot \in Spots \cup {NoSpot} /\ FirstOf(n, to) \in Spots \cup {NoSpot}
    BY <1>4, <1>7, CalculatedType DEF FirstOf
  <2>2. ASSUME spot' \in Spots \cup {NoSpot}, pc' \in {"line", "move"} PROVE PlacesInv'
    <3>1. Spots' = Spots
      BY <1>3, SpotsKept
    <3>2. plot' \in [n : 0..255, to : Coordinate]
      BY <1>1, <1>7, <1>9
    <3> QED BY <1>2, <1>3, <1>6, <1>9, <2>2, <3>1, <3>2 DEF PlacesInv, InScreen, Height, Bounded
  <2>3. CASE PlotsLine(n, to)
    <3>1. LineInv' /\ SpotFollows' /\ spot' \in Spots \cup {NoSpot}
      BY <1>3, <1>4, <1>5, <1>7, <1>9, <2>1, <2>3, PlotIs, LineBegins DEF n, c
    <3>2. pc' = "line"
      BY <2>3 DEF PlotsLine
    <3>3. LineDrawn'
      BY <3>2, LineDrawnNext
    <3> QED BY <2>2, <3>1, <3>2, <3>3 DEF GraphicsInv
  <2>4. CASE pc' = "move" /\ line' = line /\ spot' = FirstOf(n, to)
    <3>1. LineInv' /\ SpotFollows'
      BY <2>4 DEF LineInv, SpotFollows
    <3>2. LineDrawn'
      BY <1>4, <2>4, LineDrawnNext DEF NoLine
    <3> QED BY <2>1, <2>2, <2>4, <3>1, <3>2 DEF GraphicsInv
  <2> QED BY <1>9, <2>3, <2>4
<1> QED BY <1>3, <1>8, <1>9

-----------------------------------------------------------------------------
(* The theorems.                                                           *)

LEMMA GraphicsInitInv == Init => GraphicsInv
<1> SUFFICES ASSUME Init PROVE GraphicsInv
  OBVIOUS
<1>1. mode = 4 /\ 4 \in Modes /\ 4 \in 0..7
  BY ModesAssumption DEF Init, CInit
<1>2. Base(4) \in Base(4)..(TOP - 1)
  BY ScreenFacts
<1>3. /\ win \in Windows /\ (PixByte(mode) # 0 => InScreen(mode, win))
      /\ ext \in Coordinate /\ Bounded(ext)
  BY <1>1, DefaultWindowFacts DEF Init
<1>4. Zero \in Coordinate /\ NoPlot \in [n : 0..255, to : Coordinate]
  BY DEF Zero, NoPlot, Coordinate
<1>5. PlacesInv
  BY <1>1, <1>2, <1>3, <1>4, SettingsAssumption DEF Init, PlacesInv, Spots
<1>6. LineInv /\ SpotFollows
  BY DEF Init, LineInv, SpotFollows
<1>7. LineDrawn
  BY LineDrawnIs DEF Init
<1> QED BY <1>5, <1>6, <1>7 DEF GraphicsInv

LEMMA GraphicsKept == ASSUME GraphicsInv, mode' = mode, UNCHANGED gvars PROVE GraphicsInv'
<1>1. /\ start' = start /\ win' = win /\ org' = org /\ ext' = ext /\ curs' = curs /\ spot' = spot
      /\ pc' = pc /\ plot' = plot /\ line' = line /\ drawn' = drawn /\ set' = set
  BY DEF gvars
<1>2. PlacesInv /\ LineInv /\ SpotFollows /\ LineDrawn
  BY DEF GraphicsInv
<1>3. Spots' = Spots
  BY SpotsKept
<1>4. PlacesInv'
  BY <1>1, <1>2, <1>3 DEF PlacesInv, InScreen, Height, Bounded
<1>5. LineInv'
  <2> SUFFICES ASSUME pc = "line"
               PROVE  /\ (line \in Lines)' /\ Straight(line)' /\ Turned(line)' /\ plot'.n < 32
                      /\ drawn' \in Seq(Spots' \cup {NoSpot}) /\ DrawnTo(RunOf(line, line.xy))'
    BY <1>1 DEF LineInv
  <2>1. /\ line \in Lines /\ Straight(line) /\ Turned(line) /\ plot.n < 32
        /\ drawn \in Seq(Spots \cup {NoSpot}) /\ DrawnTo(RunOf(line, line.xy))
    BY <1>2 DEF LineInv
  <2>2. Straight(line)' /\ Turned(line)'
    BY <1>1, <2>1, SameStraight
  <2>3. (line \in Lines)'
    BY <1>1, <2>1 DEF Lines, Sides, Coordinate
  <2>4. DrawnTo(RunOf(line, line.xy))'
    BY <1>1, <2>1 DEF DrawnTo
  <2> QED BY <1>1, <1>3, <2>1, <2>2, <2>3, <2>4
<1>6. SpotFollows'
  BY <1>1, <1>2, SamePlaces DEF SpotFollows
<1>7. LineDrawn'
  BY <1>1, <1>2, LineDrawnIs, LineDrawnNext
<1> QED BY <1>4, <1>5, <1>6, <1>7 DEF GraphicsInv

(* A colour command leaves the graphics as they are.                       *)
LEMMA ColouredInv == ASSUME GraphicsInv, ColourStep, UNCHANGED gvars PROVE GraphicsInv'
<1>1. mode' = mode
  BY DEF ColourStep, VDU_17, VDU_18, VDU_19, VDU_20, SetPalette, Command
<1> QED BY <1>1, GraphicsKept

LEMMA GraphicsNextInv == GraphicsInv /\ [Next]_vars => GraphicsInv'
<1> SUFFICES ASSUME GraphicsInv, [Next]_vars PROVE GraphicsInv'
  OBVIOUS
<1>1. CASE Untouched /\ ColourStep /\ UNCHANGED gvars
  BY <1>1, ColouredInv
<1>2. CASE \E p \in Plots : VDU_25(p[1], p[2])
  BY <1>2, VDU_25Inv
<1>3. CASE DrawStep
  BY <1>3, DrawStepInv
<1>4. CASE MoveCursor
  BY <1>4, MoveCursorInv
<1>5. CASE \E c \in Corners : VDU_24(c[1], c[2])
  BY <1>5, VDU_24Inv
<1>6. CASE VDU_26
  BY <1>6, VDU_26Inv
<1>7. CASE \E o \in Origins : VDU_29(o)
  BY <1>7, VDU_29Inv
<1>8. CASE HardScrollUp
  BY <1>8, HardScrollUpInv
<1>9. CASE \E m \in Modes : VDU_22(m)
  BY <1>9, VDU_22Inv
<1>10. CASE UNCHANGED vars
  BY <1>10, GraphicsKept DEF vars, cvars
<1> QED BY <1>1, <1>2, <1>3, <1>4, <1>5, <1>6, <1>7, <1>8, <1>9, <1>10 DEF Next, Draws

(* The inductive invariant: between commands the window is of the screen   *)
(* and there is no line; in a line the error, the counter and the dot tell *)
(* its distance from the true line, the spot of one that starts in the     *)
(* window is the place of its coordinates while they are on the screen,    *)
(* and the points drawn, if the line is neither stray nor unclipped, are   *)
(* the nearest ones up to here.                                            *)
THEOREM GraphicsInvariant == Spec => []GraphicsInv
<1>1. Init => GraphicsInv
  BY GraphicsInitInv
<1>2. GraphicsInv /\ [Next]_vars => GraphicsInv'
  BY GraphicsNextInv
<1> QED BY <1>1, <1>2, PTL DEF Spec

-----------------------------------------------------------------------------
(* The memory that is drawn in.  A line that starts in the window has a    *)
(* point of the screen for its spot, wherever it goes; only a stray line   *)
(* draws at a spot of which nothing is known.                              *)
MemoryInv ==
  /\ pc = "line" /\ ~line.out => spot \in Spots
  /\ drawn \in Seq(Spots \cup {NoSpot})
  /\ ~Stray => drawn \in Seq(Spots)

LEMMA MemoryAtRest == ASSUME pc' = "rest", drawn' = <<>> PROVE MemoryInv'
<1> DEFINE S == Spots'
           T == (Spots \cup {NoSpot})'
<1> HIDE DEF S, T
<1>1. drawn' \in Seq(S) /\ drawn' \in Seq(T)
  OBVIOUS
<1> QED BY <1>1 DEF MemoryInv, S, T

LEMMA LineIsLine == ASSUME NEW l \in Lines PROVE l # NoLine
<1>1. DOMAIN l # {} /\ DOMAIN NoLine = {}
  BY DEF Lines, NoLine
<1> QED BY <1>1

(* A turn of a line that is not stray draws at a point of the screen.      *)
LEMMA TurnInMemory == ASSUME GraphicsInv, MemoryInv, DrawStep PROVE MemoryInv'
<1> DEFINE S == Spots
           T == Spots \cup {NoSpot}
           x == DrawnHere
           point == IF line.dotted THEN line.dot ELSE line.out => Limits(line.xy) = {}
<1>1. /\ Windowed /\ line \in Lines /\ spot \in T /\ drawn \in Seq(T)
      /\ ~line.out => spot \in S
      /\ ~(line.dotted /\ line.out) => drawn \in Seq(S)
  BY TurnIs, InProgress DEF MemoryInv, Stray
<1>2. line.xy \in Coordinate /\ line.minor \in Sides /\ line.major \in Sides /\ Screened
  BY <1>1, LineFields DEF Windowed
<1>3. /\ x \in T
      /\ ~line.out => x \in S
      /\ point /\ ~(line.dotted /\ line.out) => x \in S
  BY <1>1, <1>2, CalculatedType DEF DrawnHere
<1>4. ASSUME ~line.out PROVE Step(SpotAside(x), line.major) \in S
  <2>1. x \in S
    BY <1>3, <1>4
  <2>2. SpotAside(x) \in S
    BY <1>2, <2>1, StepType DEF SpotAside
  <2> QED BY <1>2, <2>2, StepType
<1>5. /\ line'.out = line.out /\ line'.dotted = line.dotted
      /\ ~line.out => spot' \in S
  BY <1>1, <1>3, <1>4, TurnIs, LineTurnedKeeps
<1>6. /\ line # NoLine
      /\ mode' = mode /\ Spots' = S /\ (Spots \cup {NoSpot})' = T
  <2>1. mode' = mode
    BY TurnIs DEF cvars
  <2> QED BY <1>1, <2>1, LineIsLine, SpotsKept
<1>7. line' # NoLine
  <2>1. CASE line' = line
    BY <1>6, <2>1
  <2>2. CASE line' = LineTurned
    <3>1. DOMAIN LineTurned = DOMAIN line /\ DOMAIN line # {} /\ DOMAIN NoLine = {}
      BY <1>1 DEF LineTurned, Lines, NoLine
    <3> QED BY <2>2, <3>1
  <2> QED BY <2>1, <2>2, TurnIs
<1>8. (point => drawn' = Append(drawn, x)) /\ (~point => drawn' = drawn)
  BY DEF DrawStep, DrawnHere
<1> HIDE DEF S, T, x, point
<1>9. drawn' \in Seq(T) /\ (~(line.dotted /\ line.out) => drawn' \in Seq(S))
  BY <1>1, <1>3, <1>8, AppendIs
<1>10. MemoryInv' = (/\ pc' = "line" /\ ~line'.out => spot' \in S
                     /\ drawn' \in Seq(T)
                     /\ ~Stray' => drawn' \in Seq(S))
  BY <1>6 DEF MemoryInv
<1>11. Stray' = (line' # NoLine /\ line'.dotted /\ line'.out)
  BY DEF Stray
<1> QED BY <1>5, <1>7, <1>9, <1>10, <1>11

(* VDU 25 draws the end of its line, or its point, in the window.          *)
LEMMA PlotInMemory == ASSUME GraphicsInv, NEW p \in Plots, VDU_25(p[1], p[2]) PROVE MemoryInv'
<1> DEFINE n == p[1]
           c == p[2]
           to == PlotTo(n, c)
           S == Spots
           T == Spots \cup {NoSpot}
<1>1. n \in 0..255 /\ c \in Coordinate
  BY PlotsAssumption DEF Coordinate
<1>2. PlacesInv
  BY DEF GraphicsInv
<1>3. /\ pc = "rest" /\ PixByte(mode) # 0 /\ UNCHANGED <<cvars, start, win, org, set>>
      /\ ext' = Moved(BitOf(n, 2), c, ext)
      /\ \/ UNCHANGED drawing
         \/ /\ plot' = [n |-> n, to |-> to] /\ curs' = curs
            /\ \/ PlotsLine(n, to)
               \/ pc' = "move" /\ line' = line
  BY PlotIs
<1>4. \/ UNCHANGED drawing
      \/ drawn' = <<>>
      \/ /\ BitOf(n, 3) \/ n >= 64
         /\ Limits(to) = {} /\ drawn' = <<Calculated(to)>>
  BY DEF VDU_25, PlotTo
<1>5. Windowed /\ Screened /\ spot \in T /\ line = NoLine /\ drawn = <<>>
  BY <1>2, <1>3, PlacesScreened DEF PlacesInv
<1> HIDE DEF n, c
<1>6. ext \in Coordinate /\ org \in Coordinate /\ curs \in Coordinate
  BY <1>2 DEF PlacesInv
<1>7. to \in Coordinate
  <2>1. ext' \in Coordinate
    BY <1>1, <1>3, <1>6, PlusType DEF Moved
  <2>2. to = Scaled(mode, ext', org)
    BY <1>3 DEF PlotTo
  <2> HIDE DEF to
  <2> QED BY <1>5, <1>6, <2>1, <2>2, ScaledInt DEF Screened
<1> HIDE DEF to
<1>8. Spots' = S /\ (Spots \cup {NoSpot})' = T
  BY <1>3, SpotsKept DEF cvars
<1>9. drawn' \in Seq(S) /\ drawn' \in Seq(T)
  <2>1. CASE UNCHANGED drawing
    <3>1. drawn' = <<>>
      BY <1>5, <2>1 DEF drawing
    <3> HIDE DEF S, T
    <3> QED BY <3>1
  <2>2. CASE drawn' = <<>>
    <3> HIDE DEF S, T
    <3> QED BY <2>2
  <2>3. CASE Limits(to) = {} /\ drawn' = <<Calculated(to)>>
    <3>1. Calculated(to) \in S /\ Calculated(to) \in T
      BY <1>5, <1>7, <2>3, CalculatedType
    <3> HIDE DEF S, T
    <3> QED BY <2>3, <3>1
  <2> QED BY <1>4, <2>1, <2>2, <2>3
<1>10. pc' = "line" /\ ~line'.out => spot' \in S
  <2>1. CASE UNCHANGED drawing
    BY <1>3, <2>1 DEF drawing
  <2>2. CASE plot' = [n |-> n, to |-> to] /\ PlotsLine(n, to)
    BY <1>3, <1>5, <1>6, <1>7, <2>2, LineBegins
  <2>3. CASE pc' = "move"
    BY <2>3
  <2> QED BY <1>3, <2>1, <2>2, <2>3
<1> HIDE DEF S, T
<1> QED BY <1>8, <1>9, <1>10 DEF MemoryInv

LEMMA MemoryNext == GraphicsInv /\ MemoryInv /\ [Next]_vars => MemoryInv'
<1> SUFFICES ASSUME GraphicsInv, MemoryInv, [Next]_vars PROVE MemoryInv'
  OBVIOUS
<1>1. CASE \E p \in Plots : VDU_25(p[1], p[2])
  BY <1>1, PlotInMemory
<1>2. CASE DrawStep
  BY <1>2, TurnInMemory
<1>3. CASE UNCHANGED vars
  <2>1. /\ pc' = pc /\ line' = line /\ spot' = spot /\ drawn' = drawn /\ Spots' = Spots
    BY <1>3, SpotsKept DEF vars, gvars, cvars
  <2> QED BY <2>1 DEF MemoryInv, Stray
<1>4. CASE pc' = "rest"
  <2>1. GraphicsInv'
    BY GraphicsNextInv
  <2> QED BY <1>4, <2>1, MemoryAtRest DEF GraphicsInv, PlacesInv
<1>5. \/ \E p \in Plots : VDU_25(p[1], p[2])
      \/ DrawStep
      \/ UNCHANGED vars
      \/ pc' = "rest"
  BY DEF Next, Draws, Untouched, gvars, drawing, MoveCursor, VDU_24, VDU_26, VDU_29, VDU_22, HardScrollUp, Setting
<1> QED BY <1>1, <1>2, <1>3, <1>4, <1>5

LEMMA MemoryShown == MemoryInv => DrawnInMemory
<1> SUFFICES ASSUME MemoryInv, NEW i \in DOMAIN drawn
             PROVE  drawn[i] \in Spots \/ (Stray /\ drawn[i] = NoSpot)
  BY DEF DrawnInMemory
<1> DEFINE S == Spots
<1>1. drawn \in Seq(S \cup {NoSpot}) /\ (~Stray => drawn \in Seq(S))
  BY DEF MemoryInv
<1> HIDE DEF S
<1>2. drawn[i] \in S \cup {NoSpot} /\ (~Stray => drawn[i] \in S)
  BY <1>1
<1> QED BY <1>2 DEF S

LEMMA SpotShown == GraphicsInv /\ MemoryInv /\ ColoursInv => SpotInv
<1> SUFFICES ASSUME GraphicsInv, MemoryInv, ColoursInv PROVE SpotInv
  OBVIOUS
<1>1. PlacesInv /\ LineInv /\ SpotFollows
  BY DEF GraphicsInv
<1>2. ASSUME pc = "line"
      PROVE  line.loops > 0 /\ line.err \in 0..line.dmaj /\ line.counter \in 0..(BYTE - 1)
  <2>1. line \in Lines /\ Turned(line)
    BY <1>1, <1>2 DEF LineInv
  <2>2. line.loops \in 1..(line.dmaj + 1) /\ line.err \in 0..line.dmaj /\ line.dmaj \in Nat
    BY <2>1, LineFields DEF Turned
  <2> QED BY <2>1, <2>2, LineFields
<1>3. {org, ext, curs, plot.to} \subseteq Coordinate /\ Bounded(ext)
  BY <1>1 DEF PlacesInv
<1>4. TypeOK
  BY <1>1, <1>2, <1>3 DEF TypeOK, ColoursInv, PlacesInv
<1>5. WindowOnScreen
  BY <1>1 DEF PlacesInv, InScreen, WidthOf, WindowOnScreen, Width
<1> QED BY <1>1, <1>4, <1>5, MemoryShown DEF SpotInv

(* For screens and parameters of any size, every accepted window is of the *)
(* screen, a line that starts in it is drawn at the place of its           *)
(* coordinates while they are on the screen, and everything is drawn in    *)
(* the memory of the screen but dotted lines that start outside the window *)
(* before a point was computed in the mode.                                *)
THEOREM SpotCorrect == Spec => []SpotInv
<1>1. Init => GraphicsInv /\ MemoryInv /\ ColoursInv
  <2>1. Init => MemoryInv
    BY DEF Init, MemoryInv
  <2> QED BY <2>1, GraphicsInitInv, ColoursInitInv DEF Init
<1>2. (GraphicsInv /\ MemoryInv /\ ColoursInv) /\ [Next]_vars => (GraphicsInv /\ MemoryInv /\ ColoursInv)'
  BY GraphicsNextInv, MemoryNext, ColoursNextInv
<1>3. GraphicsInv /\ MemoryInv /\ ColoursInv => SpotInv
  BY SpotShown
<1> QED BY <1>1, <1>2, <1>3, PTL DEF Spec

(* A line of any length and slope, from and to any points of or outside    *)
(* any window, draws each of its nearest points in the window once.        *)
THEOREM LineCorrect == Spec => []LineDrawn
<1>1. GraphicsInv => LineDrawn
  BY DEF GraphicsInv
<1> QED BY <1>1, GraphicsInvariant, PTL

LEMMA QuotTwice == ASSUME NEW a \in Int PROVE Quot(a * 2, 2) = a
BY DEF Quot

LEMMA QuotFour == ASSUME NEW a \in Int PROVE Quot(Quot(a * 4, 2), 2) = a
BY DEF Quot

LEMMA QuotEight == ASSUME NEW a \in Int PROVE Quot(Quot(a * 8, 2), 4) = a
BY DEF Quot

LEMMA QuotOne == ASSUME NEW a \in Int PROVE Quot(a, 1) = a
BY DEF Quot

(* A cursor that was unscaled scales back to its place.                    *)
LEMMA ScaledBack ==
  ASSUME mode \in 0..7, MapType(mode) = 0, curs \in Coordinate, NEW o \in Coordinate
  PROVE  Scaled(mode, Unscaled(o), o) = curs
<1> DEFINE k == IF PixByte(mode) = 7 THEN 2 ELSE IF PixByte(mode) = 3 THEN 4 ELSE 8
           d == IF PixByte(mode) > 3 THEN 1 ELSE IF PixByte(mode) = 3 THEN 2 ELSE 4
           X == curs.x
           Y == curs.y
<1>1. X \in Int /\ Y \in Int /\ o.x \in Int /\ o.y \in Int /\ curs = [x |-> X, y |-> Y]
  BY DEF Coordinate
<1>2. (k = 2 /\ d = 1) \/ (k = 4 /\ d = 2) \/ (k = 8 /\ d = 4)
  BY DEF PixByte, MapType
<1>3. Unscaled(o).x = X * k - o.x /\ Unscaled(o).y = Y * 4 - o.y
  BY DEF Unscaled
<1>4. Scaled(mode, Unscaled(o), o) =
        [x |-> Quot(Quot(Unscaled(o).x + o.x, 2), d), y |-> Quot(Quot(Unscaled(o).y + o.y, 2), 2)]
  BY DEF Scaled
<1> HIDE DEF k, d, X, Y
<1>5. Unscaled(o).x + o.x = X * k /\ Unscaled(o).y + o.y = Y * 4
  <2>1. X * k \in Int /\ Y * 4 \in Int
    BY <1>1, <1>2
  <2> DEFINE z == X * k
             w == Y * 4
  <2> HIDE DEF z, w
  <2>2. (z - o.x) + o.x = z /\ (w - o.y) + o.y = w
    BY <1>1, <2>1 DEF z, w
  <2> QED BY <1>3, <2>2 DEF z, w
<1>6. Quot(Quot(X * k, 2), d) = X
  <2>1. CASE k = 2 /\ d = 1
    BY <1>1, <2>1, QuotTwice, QuotOne
  <2>2. CASE k = 4 /\ d = 2
    BY <1>1, <2>2, QuotFour
  <2>3. CASE k = 8 /\ d = 4
    BY <1>1, <2>3, QuotEight
  <2> QED BY <1>2, <2>1, <2>2, <2>3
<1>7. Quot(Quot(Y * 4, 2), 2) = Y
  BY <1>1, QuotFour
<1> QED BY <1>1, <1>4, <1>5, <1>6, <1>7

(* In modes 0 to 2 a new origin leaves the cursor where it is, whatever    *)
(* the origins and the cursor are.                                         *)
THEOREM OriginCorrect == Spec => OriginKeepsCursor
<1>1. GraphicsInv /\ [Next]_vars =>
        [(\E o \in Origins : VDU_29(o)) /\ MapType(mode) = 0 /\ PixByte(mode) # 0
           => Scaled(mode, ext', org') = curs]_vars
  <2> SUFFICES ASSUME GraphicsInv, NEW o \in Origins, VDU_29(o), MapType(mode) = 0
               PROVE  Scaled(mode, ext', org') = curs
    OBVIOUS
  <2>1. mode \in 0..7 /\ curs \in Coordinate
    BY OnlyModes DEF GraphicsInv, PlacesInv
  <2>2. o \in Coordinate
    BY SettingsAssumption DEF Coordinate
  <2>3. ext' = Unscaled(o) /\ org' = o
    BY DEF VDU_29
  <2> QED BY <2>1, <2>2, <2>3, ScaledBack
<1> QED BY <1>1, GraphicsInvariant, PTL DEF Spec, OriginKeepsCursor
=============================================================================
