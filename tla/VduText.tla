------------------------------ MODULE VduText ------------------------------
(***************************************************************************)
(* The text side of vdu.c: vdu_write, which collects the bytes of a VDU    *)
(* sequence, and the routines that print, move the cursor, scroll, clear   *)
(* the screen and change the mode.                                         *)
(*                                                                         *)
(* Addresses count character cells.  The screen of a mode is the size      *)
(* cells below END (0x8000); VDU_MEM is where its first row starts, and an *)
(* address past END is the screen's size too high.  The CRTC counts on     *)
(* from the start address it was given, and its cursor shows where that    *)
(* count meets the cursor address.  Both are set in units of eight bytes:  *)
(* a cell or a part of one, but eight cells of a teletext mode.            *)
(*                                                                         *)
(* VDU_STATUS stays 0, since no routine sets a bit of it: no VDU 5, text   *)
(* window, soft scroll or cursor editing.                                  *)
(***************************************************************************)
EXTENDS Integers, Sequences

CONSTANTS
  END,         \* 0x8000 in the code
  Modes,       \* mode numbers
  Geometry,    \* [Modes -> [cols, rows, size, page, ttx]], page: 256 bytes
  PARAMS,      \* _TBL_VDU_PARAMS, negated: [control codes sent -> Nat]
  Chars,       \* printing characters that are sent
  Parameters,  \* bytes that are sent inside a sequence
  UpAtTop,     \* whether a program moves up from the top row
  BLANK        \* ' '

Shape(m) == [cols |-> Geometry[m].cols, rows |-> Geometry[m].rows]

ASSUME GeometryAssumption ==
  /\ END \in Nat
  /\ \A m \in Modes :
       /\ Geometry[m].cols \in Nat \ {0} /\ Geometry[m].rows \in Nat \ {0}
       /\ Geometry[m].size \in Nat /\ Geometry[m].cols * Geometry[m].rows <= Geometry[m].size
       /\ 2 * Geometry[m].size <= END /\ Geometry[m].page \in Nat \ {0}

(* The table's numbers of parameters for the sequences modelled here.      *)
ASSUME ParamsAssumption ==
  /\ DOMAIN PARAMS \subseteq 0..127 /\ \A c \in DOMAIN PARAMS : PARAMS[c] \in Nat
  /\ \A c \in DOMAIN PARAMS \cap {8, 9, 10, 11, 12, 13, 26, 30, 127} : PARAMS[c] = 0
  /\ 22 \in DOMAIN PARAMS => PARAMS[22] = 1
  /\ 31 \in DOMAIN PARAMS => PARAMS[31] = 2

ASSUME BytesAssumption == Parameters \subseteq 0..255 /\ BLANK \notin {35, 95, 96}

VARIABLES
  t,       \* the VDU variables below 0x380, and the registers of the CRTC
  ram,     \* [address -> what the cell shows]
  exec,    \* VDU_EXEC
  queue    \* the parameters in VDU_QUEUE; OSB_VDU_QSIZE counts the others

vars == <<t, ram, exec, queue>>

Waiting == exec # -1

Base(m) == END - Geometry[m].size
Cells(m) == Base(m)..END-1

-----------------------------------------------------------------------------
(* Addresses.                                                              *)

(* if (addr & 0x8000) addr -= VDU_MEM_PAGES << 8.                          *)
Wrap(m, a) == IF a >= END THEN a - Geometry[m].size ELSE a

(* SET_CRTC_16DIV8                                                         *)
Div8(m, a) == IF Geometry[m].ttx THEN a \div 8 ELSE a

(* Mutant: the address is not wrapped.                                     *)
Bug_CursorAt(v, a) == [v EXCEPT !.CRTC_CUR = a, !.TOP_SCAN = a, !.R14 = Div8(v.MODE, a)]

(* SET_CRTC_CURS16_adj: the cursor is at address a.                        *)
CursorAt(v, a) ==
  [v EXCEPT !.CRTC_CUR = a, !.TOP_SCAN = Wrap(v.MODE, a), !.R14 = Div8(v.MODE, a)]

(* _LCF06_calc_text_scan                                                   *)
Scan(v) == v.MEM + Geometry[v.MODE].cols * v.Y + v.X

Placed(v) == CursorAt(v, Scan(v))

(* The hardware's start address follows VDU_MEM.                           *)
StartAt(v, a) == [v EXCEPT !.MEM = a, !.R12 = Div8(v.MODE, a)]

-----------------------------------------------------------------------------
(* Routines: from the variables and the memory to new ones.                *)

(* _LCEAC_clear_line: a row from the address on, which wraps cell by cell. *)
Blanked(m, r, from) ==
  LET row == {Wrap(m, Wrap(m, from) + i) : i \in 0..Geometry[m].cols-1}
  IN [a \in DOMAIN r |-> IF a \in row THEN BLANK ELSE r[a]]

(* _TELETEXT_CHAR_TAB: '#' to '_', '_' to '`', and '`' first to '#', but   *)
(* the loop goes on and finds the '#' in its turn.                         *)
Glyph(m, c) == IF ~Geometry[m].ttx THEN c
               ELSE CASE c = 35 -> 95 [] c = 95 -> 96 [] c = 96 -> 95 [] OTHER -> c

(* Mutant: drawn at the address that the CRTC is given.                    *)
Bug_OutChar(s, c) == [s EXCEPT !.ram[s.v.CRTC_CUR] = Glyph(s.v.MODE, c)]

OutChar(s, c) == [s EXCEPT !.ram[s.v.TOP_SCAN] = Glyph(s.v.MODE, c)]

(* Mutant: the start address is not wrapped.                               *)
Bug_HardScrollUp(v) == StartAt(v, v.MEM + Geometry[v.MODE].cols)

HardScrollUp(v) == StartAt(v, Wrap(v.MODE, v.MEM + Geometry[v.MODE].cols))

(* The size of the screen is added when the page is above the first page   *)
(* of the screen, not below it.                                            *)
HardScrollDown(v) ==
  LET m == v.MEM - Geometry[v.MODE].cols
      Page(a) == a \div Geometry[v.MODE].page
  IN StartAt(v, IF Page(m) > Page(Base(v.MODE)) THEN m + Geometry[v.MODE].size ELSE m)

(* _BC68A_txt_cursor_down                                                  *)
(* Mutant: the new bottom row is not cleared.                              *)
Bug_CursorDown(s) ==
  IF s.v.Y < Geometry[s.v.MODE].rows - 1
    THEN [s EXCEPT !.v = Placed([s.v EXCEPT !.Y = @ + 1])]
    ELSE [s EXCEPT !.v = Placed(HardScrollUp(s.v))]

CursorDown(s) ==
  IF s.v.Y < Geometry[s.v.MODE].rows - 1
    THEN [s EXCEPT !.v = Placed([s.v EXCEPT !.Y = @ + 1])]
    ELSE LET v == HardScrollUp(s.v)
         IN [v |-> Placed(v), ram |-> Blanked(v.MODE, s.ram, Scan([v EXCEPT !.X = 0]))]

(* _BC5F4_txt_cursor_up.  No row is cleared.                               *)
CursorUp(s) ==
  [s EXCEPT !.v = Placed(IF s.v.Y # 0 THEN [s.v EXCEPT !.Y = @ - 1] ELSE HardScrollDown(s.v))]

(* The bound of the comparison is the last column, so that the cursor may  *)
(* stand behind it.                                                        *)
VDU_9(s) ==
  IF s.v.X <= Geometry[s.v.MODE].cols - 1
    THEN [s EXCEPT !.v = CursorAt([s.v EXCEPT !.X = @ + 1], s.v.CRTC_CUR + 1)]
    ELSE CursorDown([s EXCEPT !.v.X = 0])

VDU_8(s) ==
  LET v == s.v
      a == v.CRTC_CUR - 1
      cur == IF a < Base(v.MODE) THEN a + Geometry[v.MODE].size ELSE a
  IN IF v.X = 0 THEN CursorUp([s EXCEPT !.v.X = Geometry[v.MODE].cols - 1])
     ELSE [s EXCEPT !.v = CursorAt([v EXCEPT !.X = @ - 1], cur)]

(* Mutant: it blanks the cell that the cursor leaves.                      *)
Bug_VDU_127(s) == VDU_8(OutChar(s, BLANK))

VDU_127(s) == LET l == VDU_8(s) IN OutChar(l, BLANK)

(* VDU 12: _LCBC1_DOCLS.                                                   *)
VDU_12(s) ==
  LET v == [StartAt(s.v, Base(s.v.MODE)) EXCEPT !.X = 0, !.Y = 0]
  IN [v |-> CursorAt(v, Base(v.MODE)),
      ram |-> [a \in DOMAIN s.ram |-> IF a \in Cells(v.MODE) THEN BLANK ELSE s.ram[a]]]

VDU_13(s) == [s EXCEPT !.v = Placed([s.v EXCEPT !.X = 0])]

(* vdu_mode: the geometry, the default windows and a clear screen.         *)
VDU_22(s, mode) == VDU_12([s EXCEPT !.v.MODE = mode])

(* Mutant: the cursor goes to the start of the memory.                     *)
Bug_VDU_26(s) == [s EXCEPT !.v = CursorAt([s.v EXCEPT !.X = 0, !.Y = 0], Base(s.v.MODE))]

(* VDU 26: it zeroes the cursor with the windows, and keeps the screen.    *)
VDU_26(s) == [s EXCEPT !.v = CursorAt([s.v EXCEPT !.X = 0, !.Y = 0], s.v.MEM)]

(* VDU 31; outside the screen the position is put back, but as (X, X).     *)
VDU_31(s, x, y) ==
  IF x < Geometry[s.v.MODE].cols /\ y < Geometry[s.v.MODE].rows
    THEN [s EXCEPT !.v = Placed([s.v EXCEPT !.X = x, !.Y = y])]
    ELSE [s EXCEPT !.v.Y = s.v.X]

VDU_30(s) == VDU_31(s, 0, 0)

(* _TBL_VDU_ROUTINES, with p the parameters.                               *)
Executed(c, s, p) ==
  CASE c = 8 -> VDU_8(s)
    [] c = 9 -> VDU_9(s)
    [] c = 10 -> CursorDown(s)
    [] c = 11 -> CursorUp(s)
    [] c = 12 -> VDU_12(s)
    [] c = 13 -> VDU_13(s)
    [] c = 22 -> VDU_22(s, p[1])
    [] c = 26 -> VDU_26(s)
    [] c = 30 -> VDU_30(s)
    [] c = 31 -> VDU_31(s, p[1], p[2])
    [] c = 127 -> VDU_127(s)
    [] OTHER -> s

Becomes(s) == t' = s.v /\ ram' = s.ram
Now == [v |-> t, ram |-> ram]

-----------------------------------------------------------------------------
ModeVars(m) == [MODE |-> m, X |-> 0, Y |-> 0, MEM |-> Base(m), CRTC_CUR |-> Base(m),
                TOP_SCAN |-> Base(m), R12 |-> Div8(m, Base(m)), R14 |-> Div8(m, Base(m))]

Init == /\ t \in {ModeVars(m) : m \in Modes}
        /\ ram = [a \in 0..2*END |-> BLANK]
        /\ exec = -1 /\ queue = <<>>

(* Bound: the byte would not scroll down, unless UpAtTop allows it, and    *)
(* VDU 31 names a place on the screen.                                     *)
Down(c) == UpAtTop \/ ~(t.Y = 0 /\ (c = 11 \/ (c \in {8, 127} /\ t.X = 0)))

OnScreen(c, p) ==
  /\ (exec = 31 /\ p = <<>>) => c < Geometry[t.MODE].cols
  /\ (exec = 31 /\ p # <<>>) => c < Geometry[t.MODE].rows
  /\ exec = 22 => c \in Modes

(* vdu_write, by the state of the queue and the byte.                      *)
WriteParameter(c) ==
  /\ Waiting /\ Len(queue) + 1 < PARAMS[exec] /\ OnScreen(c, queue)
  /\ queue' = Append(queue, c)
  /\ UNCHANGED <<t, ram, exec>>

WriteLast(c) ==
  /\ Waiting /\ Len(queue) + 1 = PARAMS[exec] /\ OnScreen(c, queue)
  /\ Becomes(Executed(exec, Now, Append(queue, c)))
  /\ exec' = -1 /\ queue' = <<>>

WriteSequence(c) ==
  /\ ~Waiting /\ PARAMS[c] > 0
  /\ exec' = c
  /\ UNCHANGED <<t, ram, queue>>

WriteControl(c) ==
  /\ ~Waiting /\ PARAMS[c] = 0 /\ Down(c)
  /\ Becomes(Executed(c, Now, <<>>))
  /\ UNCHANGED <<exec, queue>>

WriteChar(c) ==
  /\ ~Waiting
  /\ Becomes(VDU_9(OutChar(Now, c)))
  /\ UNCHANGED <<exec, queue>>

(* The flush of an input buffer forgets the sequence.                      *)
Forget ==
  /\ Waiting
  /\ exec' = -1 /\ queue' = <<>>
  /\ UNCHANGED <<t, ram>>

Next ==
  \/ \E c \in Parameters : WriteParameter(c) \/ WriteLast(c)
  \/ \E c \in DOMAIN PARAMS : WriteSequence(c) \/ WriteControl(c)
  \/ \E c \in Chars : WriteChar(c)
  \/ Forget

Spec == Init /\ [][Next]_vars

-----------------------------------------------------------------------------
(* Properties.                                                             *)

Glyphs == Chars \cup {BLANK, 95, 96}

(* Every variable has its type; the cursor is on the screen or just past   *)
(* the end of its row, and the screen starts inside the screen's memory.   *)
TypeOK ==
  /\ t.MODE \in Modes
  /\ t.X \in 0..Geometry[t.MODE].cols /\ t.Y \in 0..Geometry[t.MODE].rows-1
  /\ t.MEM \in Cells(t.MODE)
  /\ ram \in [0..2*END -> Glyphs]
  /\ exec \in {-1} \cup DOMAIN PARAMS
  /\ queue \in Seq(Parameters) /\ (Waiting => Len(queue) < PARAMS[exec])

(* The cursor that is shown and the cell that is drawn next are those of   *)
(* VDU_T_CURS_X and Y on the screen that is shown, however they were       *)
(* reached: some routines compute the address anew, some step it by one.   *)
(* In teletext the code divides the address of a byte by eight (vdu.c:566) *)
(* and the cursor is shown only to eight columns; the cell that is drawn   *)
(* next is exact in every mode.                                            *)
CursorShown ==
  LET here == t.MEM + t.Y * Geometry[t.MODE].cols + t.X IN
  /\ t.R12 = Div8(t.MODE, t.MEM)
  /\ t.R14 = Div8(t.MODE, here)
  /\ t.TOP_SCAN = Wrap(t.MODE, here)

(* The start of the screen stays in its memory, and the cursor follows     *)
(* it.                                                                     *)
CursorInv == TypeOK /\ CursorShown

(* vdu.c:689: an address past the end of the memory has the size of the    *)
(* screen subtracted "to wraparound the screen".  So what is drawn is      *)
(* always drawn in the memory of the screen.                               *)
ScanInScreen == t.TOP_SCAN \in Cells(t.MODE)

(* Whatever the start of the screen in memory, what is displayed from      *)
(* there on is a text screen: rows scroll together, a new row is blank,    *)
(* and a character changes one cell.  VDU 8 goes back and changes none,    *)
(* and VDU 127 goes back and blanks the one it comes to.                   *)
Shown ==
  [r \in 0..Geometry[t.MODE].rows-1 |->
    [c \in 0..Geometry[t.MODE].cols-1 |->
      ram[Wrap(t.MODE, t.MEM + r * Geometry[t.MODE].cols + c)]]]
Screen == INSTANCE TextScreen WITH
            Shapes <- {Shape(m) : m \in Modes}, shape <- Shape(t.MODE), grid <- Shown,
            x <- t.X, y <- t.Y
RefinesScreen ==
  /\ Screen!Spec
  /\ [][ (WriteControl(8) => Screen!Left) /\ (WriteControl(127) => Screen!Delete) ]_vars

(* Nothing outside the screen's own memory is ever written, and a sequence *)
(* draws nothing before its last byte has come.                            *)
DrawsInScreen ==
  [][ /\ \A a \in DOMAIN ram : ram'[a] # ram[a] => a \in Cells(t'.MODE)
      /\ (Waiting /\ Waiting') => UNCHANGED <<t, ram>> ]_vars
=============================================================================
