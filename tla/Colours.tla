------------------------------ MODULE Colours ------------------------------
(***************************************************************************)
(* The colours of vdu.c: COLOUR (VDU 17), GCOL (VDU 18), the palette       *)
(* (VDU 19, VDU 20, OSBYTE 155), and the masks through which characters    *)
(* and points reach the screen.                                            *)
(*                                                                         *)
(* A byte is the set of its bits that are 1.  In a mode of 2^b colours it  *)
(* holds 8/b pixels, and plane j of a pixel is one of the 8/b bits from    *)
(* j * 8/b on, the leftmost pixel in the highest.                          *)
(***************************************************************************)
EXTENDS Integers, FiniteSets

CONSTANTS
  Modes,         \* the modes the program selects
  Colour,        \* parameters of COLOUR and GCOL, 128 and above for background
  Operation,     \* first parameters of GCOL
  Physical,      \* physical colours of the palette commands
  MaxCommands    \* bound: colour commands of the program

ASSUME ModesAssumption == Modes \subseteq 0..7 /\ 4 \in Modes
ASSUME ColourAssumption == Colour \subseteq 0..255
ASSUME OperationAssumption == Operation \subseteq 0..5
ASSUME PhysicalAssumption == Physical \subseteq 0..15
ASSUME CommandsAssumption == MaxCommands \in Nat

VARIABLES
  mode,          \* VDU_MODE, with all that vdu_mode takes from the tables
  tfg, tbg,      \* VDU_T_FG, VDU_T_BG
  tor, teor,     \* VDU_T_OR_MASK, VDU_T_EOR_MASK
  gfg, gbg,      \* VDU_G_FG, VDU_G_BG
  pfg, pbg,      \* VDU_P_FG, VDU_P_BG
  palette,       \* VDU_PALETTE
  ula,           \* the palette registers of the video ULA
  asked,         \* history: the colours and operations last asked for
  raw,           \* history: registers that OSBYTE 155 has written
  given          \* colour commands so far

cvars == <<mode, tfg, tbg, tor, teor, gfg, gbg, pfg, pbg, palette, ula, asked, raw, given>>
text == <<tfg, tbg, tor, teor>>
gcol == <<gfg, gbg, pfg, pbg>>
pal == <<palette, ula, raw>>

Byte == 0..7
Xor(a, b) == (a \ b) \cup (b \ a)
Not(a) == Byte \ a
BitOf(n, i) == (n \div 2^i) % 2 = 1

(* _TBL_MODE_COLOURS, as the number of planes, and _TBL_VDU_PIXPB.         *)
Planes(m) == <<1, 2, 4, 1, 1, 2, 1, 0>>[m + 1]
PixByte(m) == <<7, 3, 1, 0, 7, 3, 0, 0>>[m + 1]
Colours(m) == 2^Planes(m)
PerByte(m) == 8 \div Planes(m)

(* _LC432_COLOURS_TAB: a byte of pixels of logical colour c.               *)
Table ==
  [planes \in {1, 2, 4} |-> [c \in 0..(2^planes - 1) |-> {i \in Byte : BitOf(c, i \div (8 \div planes))}]]
Pattern(m, c) == Table[Planes(m)][c]

(* The mask of the pixel in column k of a byte.                            *)
Columns(m) == 0..(PerByte(m) - 1)
PixMask(m, k) == {j * PerByte(m) + PerByte(m) - 1 - k : j \in 0..(Planes(m) - 1)}

-----------------------------------------------------------------------------
(* The palette.                                                            *)

(* The exclusive or with 7 that turns a physical colour into the ULA's.    *)
ToULA(v) == IF v < 8 THEN 7 - v ELSE 23 - v

(* Mutant: the bits of a pixel of two planes are taken to be adjacent.     *)
Bug_Registers(m, l) ==
  LET first == l * 2^(4 - Planes(m)) IN first..(first + 2^(4 - Planes(m)) - 1)

(* pal_write: the registers written for logical colour l, of which there   *)
(* are as many as pixels of l can find in the shift register of the ULA.   *)
Registers(m, l) ==
  LET first == l * 2^(4 - Planes(m))
      Swapped(i) == IF Planes(m) # 2 THEN i
                    ELSE CASE (i \div 2) % 4 = 1 -> i + 2
                           [] (i \div 2) % 4 = 2 -> i - 2
                           [] OTHER -> i
  IN  {Swapped(i) : i \in first..(first + 2^(4 - Planes(m)) - 1)}

(* VDU_20: the palette a mode starts with.                                 *)
Default(m) ==
  CASE Planes(m) = 1 -> <<0, 7>>
    [] Planes(m) = 2 -> <<0, 1, 3, 7>>
    [] Planes(m) = 4 -> [i \in 1..16 |-> i - 1]

(* The ULA: a pixel of colour l looks up the register whose number has the *)
(* planes of l in its bits 3 and, of two planes, 1; its other bits are     *)
(* those of pixels further right.                                          *)
LooksUp(m, l) ==
  {i \in 0..15 : CASE Planes(m) = 1 -> BitOf(i, 3) = BitOf(l, 0)
                   [] Planes(m) = 2 -> BitOf(i, 3) = BitOf(l, 1) /\ BitOf(i, 1) = BitOf(l, 0)
                   [] Planes(m) = 4 -> i = l
                   [] OTHER -> FALSE}

-----------------------------------------------------------------------------
(* The masks.                                                              *)

(* Mutant: the table ends one entry early.                                 *)
Bug_Opt(i) == IF i \in {1, 4, 5, 6, 7} THEN Byte ELSE {}

(* GCOL_OPTS                                                               *)
Opt(i) == IF i \in {1, 4, 5, 6, 7, 10} THEN Byte ELSE {}

(* _LD0B3_set_colour_masks                                                 *)
Masks(c, k) == [or |-> Xor(c \cup Opt(k + 1), Opt(k + 2)), eor |-> Xor(c \cup Opt(k), Opt(k + 5))]

(* VDU_25: the masks of PLOT n.                                            *)
PlotMasks(n) ==
  CASE n % 4 = 0 -> Masks({}, 5)
    [] n % 4 = 1 -> Masks(gfg, pfg)
    [] n % 4 = 2 -> Masks({}, 4)
    [] n % 4 = 3 -> Masks(gbg, pbg)

(* point_at_G_MEM: the byte p after a point through the pixel mask m.      *)
Point(p, m, masks) == Xor(masks.eor \cap m, (m \cap masks.or) \cup p)

(* VDU_OUT_CHAR: the byte for the bits g of a glyph.  With two colours the *)
(* glyph is copied as it is.                                               *)
CharByte(g) == IF Planes(mode) = 1 THEN g ELSE Xor(g \cup tor, teor)

-----------------------------------------------------------------------------
(* The commands.                                                           *)

(* VDU_20, with the colour mask of mode m.                                 *)
Restored(m) ==
  /\ tfg' = IF Planes(m) = 0 THEN {} ELSE IF Planes(m) = 4 THEN 0..5 ELSE Byte
  /\ tbg' = IF Planes(m) = 0 THEN {5} ELSE {}
  /\ IF Planes(m) = 0 THEN UNCHANGED <<tor, teor>> ELSE tor' = Not(tfg') /\ teor' = Not(tfg')
  /\ gfg' = tfg' /\ gbg' = {} /\ pfg' = 0 /\ pbg' = 0
  /\ IF Planes(m) = 0 THEN UNCHANGED pal
     ELSE /\ palette' = [l \in 0..15 |-> IF l < Colours(m) THEN Default(m)[l + 1] ELSE palette[l]]
          /\ ula' = [i \in 0..15 |->
                       ToULA(Default(m)[1 + CHOOSE l \in 0..(Colours(m) - 1) : i \in Registers(m, l)])]
          /\ raw' = {}
  /\ LET white == IF Planes(m) = 4 THEN 7 ELSE Colours(m) - 1
     IN asked' = [tfg |-> white, tbg |-> 0, gfg |-> <<0, white>>, gbg |-> <<0, 0>>]

Command == given < MaxCommands /\ given' = given + 1 /\ mode' = mode

VDU_20 == Command /\ Restored(mode)

(* Mutant: only a new foreground computes the masks.                       *)
Bug_VDU_17(c) ==
  /\ Command /\ UNCHANGED gcol /\ UNCHANGED pal
  /\ IF Planes(mode) = 0 THEN UNCHANGED text /\ UNCHANGED asked
     ELSE LET l == c % Colours(mode)
          IN IF c >= 128
             THEN tbg' = Pattern(mode, l) /\ asked' = [asked EXCEPT !.tbg = l] /\ UNCHANGED <<tfg, tor, teor>>
             ELSE /\ tfg' = Pattern(mode, l) /\ tbg' = tbg /\ asked' = [asked EXCEPT !.tfg = l]
                  /\ teor' = Not(tfg') /\ tor' = Xor(teor', tbg')

(* VDU_17 and VDU_18 share _BC7FF, which changes nothing in mode 7.        *)
VDU_17(c) ==
  /\ Command /\ UNCHANGED gcol /\ UNCHANGED pal
  /\ IF Planes(mode) = 0 THEN UNCHANGED text /\ UNCHANGED asked
     ELSE LET l == c % Colours(mode)
          IN /\ IF c >= 128
                THEN tbg' = Pattern(mode, l) /\ tfg' = tfg /\ asked' = [asked EXCEPT !.tbg = l]
                ELSE tfg' = Pattern(mode, l) /\ tbg' = tbg /\ asked' = [asked EXCEPT !.tfg = l]
             /\ teor' = Not(tfg')
             /\ tor' = Xor(teor', tbg')

VDU_18(k, c) ==
  /\ Command /\ UNCHANGED text /\ UNCHANGED pal
  /\ IF Planes(mode) = 0 THEN UNCHANGED gcol /\ UNCHANGED asked
     ELSE LET l == c % Colours(mode)
          IN IF c >= 128
             THEN /\ gbg' = Pattern(mode, l) /\ pbg' = k /\ UNCHANGED <<gfg, pfg>>
                  /\ asked' = [asked EXCEPT !.gbg = <<k, l>>]
             ELSE /\ gfg' = Pattern(mode, l) /\ pfg' = k /\ UNCHANGED <<gbg, pbg>>
                  /\ asked' = [asked EXCEPT !.gfg = <<k, l>>]

(* VDU_19 and pal_write.  The mask is released between the writes of a     *)
(* register, but no interrupt writes the palette.                          *)
VDU_19(c, v) ==
  LET l == c % Colours(mode)
  IN /\ Command /\ UNCHANGED text /\ UNCHANGED gcol /\ UNCHANGED asked
     /\ palette' = [palette EXCEPT ![l] = v]
     /\ ula' = [i \in 0..15 |-> IF i \in Registers(mode, l) THEN ToULA(v) ELSE ula[i]]
     /\ raw' = raw \ Registers(mode, l)

(* OSBYTE 155 writes one register.                                         *)
SetPalette(i, v) ==
  /\ Command /\ UNCHANGED text /\ UNCHANGED gcol /\ UNCHANGED <<asked, palette>>
  /\ ula' = [ula EXCEPT ![i] = ToULA(v)] /\ raw' = raw \cup {i}

ColourStep ==
  \/ \E c \in Colour : VDU_17(c)
  \/ \E k \in Operation, c \in Colour : VDU_18(k, c)
  \/ \E c \in Colour, v \in Physical : VDU_19(c, v)
  \/ \E i \in 0..15, v \in Physical : SetPalette(i, v)
  \/ VDU_20

(* vdu_init selects mode 4.                                                *)
CInit ==
  /\ mode = 4 /\ given = 0 /\ raw = {}
  /\ tfg = Byte /\ tbg = {} /\ tor = {} /\ teor = {}
  /\ gfg = Byte /\ gbg = {} /\ pfg = 0 /\ pbg = 0
  /\ palette = [l \in 0..15 |-> IF l = 1 THEN 7 ELSE 0]
  /\ ula = [i \in 0..15 |-> IF i < 8 THEN 7 ELSE 0]
  /\ asked = [tfg |-> 1, tbg |-> 0, gfg |-> <<0, 1>>, gbg |-> <<0, 0>>]

-----------------------------------------------------------------------------
(* The registers and masks hold what their types hold.                     *)
CTypeOK ==
  /\ mode \in Modes /\ given \in 0..MaxCommands
  /\ {tfg, tbg, tor, teor, gfg, gbg} \subseteq SUBSET Byte
  /\ {pfg, pbg} \subseteq 0..5
  /\ palette \in [0..15 -> 0..15] /\ ula \in [0..15 -> 0..15] /\ raw \subseteq 0..15

(* Every register a pixel of colour l looks up, whatever its neighbours,   *)
(* holds the physical colour VDU_PALETTE has for l, until OSBYTE 155       *)
(* writes over it: pal_write finds all of them and no other colour's.      *)
PaletteShown ==
  \A l \in 0..(Colours(mode) - 1) :
    \A i \in LooksUp(mode, l) \ raw : ula[i] = ToULA(palette[l])

(* A character shows the foreground last asked for where its glyph is set, *)
(* and the background elsewhere, through masks that COLOUR computes when   *)
(* either changes.  In modes of two colours VDU_OUT_CHAR has no masks.     *)
TextShown ==
  Planes(mode) > 1 =>
    \A k \in Columns(mode) :
      CharByte(PixMask(mode, k)) =
        (Pattern(mode, asked.tfg) \cap PixMask(mode, k)) \cup (Pattern(mode, asked.tbg) \ PixMask(mode, k))

(* What the graphics operation k makes of pixels p with the colour c: it   *)
(* stores, ORs, ANDs, exclusive-ORs, inverts, or leaves them.              *)
Combined(k, c, p) == <<c, p \cup c, p \cap c, Xor(p, c), Not(p), p>>[k + 1]

(* One pair of masks does all the operations of GCOL: a point becomes the  *)
(* asked combination of its colour and the graphics colour, and the other  *)
(* pixels of the byte stay; PLOT n picks foreground, background, inverse   *)
(* or nothing.  Bits do not mix, so bytes of all 0 and all 1 stand for all.*)
PlotsAsAsked ==
  Planes(mode) > 0 =>
    \A n \in 0..3 :
      LET masks == PlotMasks(n)
          want(p) == CASE n = 0 -> p
                       [] n = 1 -> Combined(asked.gfg[1], Pattern(mode, asked.gfg[2]), p)
                       [] n = 2 -> Not(p)
                       [] n = 3 -> Combined(asked.gbg[1], Pattern(mode, asked.gbg[2]), p)
      IN \A p \in {{}, Byte}, k \in Columns(mode) :
           LET m == PixMask(mode, k) IN Point(p, m, masks) = (want(p) \cap m) \cup (p \ m)

(* After every sequence of COLOUR, GCOL, palette and mode commands the     *)
(* registers, the glyphs and the points show the colours asked for.        *)
ColoursShown == PaletteShown /\ TextShown /\ PlotsAsAsked
=============================================================================
