------------------------------ MODULE Graphics ------------------------------
(***************************************************************************)
(* The graphics of vdu.c: PLOT (VDU 25), the window (VDU 24, VDU 26), the  *)
(* origin (VDU 29), and the line drawer, which steps the address, the scan *)
(* line and the pixel mask of a point instead of computing them.           *)
(*                                                                         *)
(* Addresses count cells, the bytes one below the other that the CRTC      *)
(* shows as one character.  spot is VDU_G_MEM, VDU_G_CURS_SCAN and         *)
(* VDU_G_PIX_MASK; its pix is the column of the mask, 0 the leftmost.      *)
(* Every plot starts from where the last one has left it.  NoSpot is an    *)
(* address and a mask that were computed in another mode, or never: it may *)
(* be outside the screen memory, and the model follows it no further.      *)
(* VDU_G_CURPREV_INT is left out, which is written and never read, and the *)
(* masks, which PlotMasks gives at each use.                               *)
(***************************************************************************)
EXTENDS Colours, Sequences

CONSTANTS
  WIDE,          \* cells in a row of modes 0 to 2 (80)
  ROWS, SCANS,   \* rows of cells (32) and their scan lines (8)
  TOP,           \* the address behind the screen (0x8000)
  BYTE,          \* the values of a uint8_t (256)
  Plots,         \* parameters of VDU 25: pairs of a code and coordinates
  Corners,       \* pairs of corners given to VDU 24
  Origins,       \* origins given to VDU 29
  EXTENT,        \* bound: external coordinates lie in -EXTENT..EXTENT
  MaxSettings    \* bound: windows and origins of the program

ASSUME SizeAssumption == {WIDE, ROWS, SCANS, BYTE, EXTENT} \subseteq Nat \ {0} /\ WIDE % 2 = 0
ASSUME TopAssumption == TOP \in Nat /\ TOP >= ROWS * WIDE
ASSUME HeightAssumption == ROWS * SCANS <= BYTE
ASSUME PlotsAssumption == \A p \in Plots : p[1] \in 0..255 /\ p[2] \in [x : Int, y : Int]
ASSUME SettingsAssumption ==
  /\ Origins \subseteq [x : Int, y : Int] /\ MaxSettings \in Nat
  /\ \A c \in Corners : {c[1], c[2]} \subseteq [x : Int, y : Int]
\* The corner of the screen lies within the bound on coordinates.
ASSUME ExtentAssumption == EXTENT >= 16 * WIDE - 1 /\ EXTENT >= 4 * ROWS * SCANS - 1

VARIABLES
  start,         \* VDU_MEM
  win,           \* VDU_G_WIN
  org,           \* VDU_G_ORG_EXT
  ext,           \* VDU_G_CUR_EXT
  curs,          \* VDU_G_CURS
  spot,          \* where the next point is drawn, if it is not computed first
  pc,            \* "rest", "line" in the line drawer, "move" before MOVEGCURS
  plot,          \* the VDU 25 in progress: its code n and internal coordinates to
  line,          \* the locals of the line drawer
  drawn,         \* history: the spots it has drawn at
  set            \* windows and origins so far

gvars == <<start, win, org, ext, curs, spot, pc, plot, line, drawn, set>>
vars == <<cvars, gvars>>
drawing == <<spot, pc, plot, line, drawn>>

Zero == [x |-> 0, y |-> 0]
NoSpot == [cell |-> -1, scan |-> -1, pix |-> -1]   \* computed in another mode
NoPlot == [n |-> 0, to |-> Zero]
NoLine == <<>>

-----------------------------------------------------------------------------
(* The screen of a mode.                                                   *)

(* _TAB_MAP_TYPE, _TAB_BPR, _VDU_MEMLOC_TAB, _TEXT_COL_TABLE.              *)
MapType(m) == <<0, 0, 0, 1, 2, 2, 3, 4>>[m + 1]
CellsPerRow(m) == IF MapType(m) < 2 THEN WIDE ELSE WIDE \div 2
Size(m) == ROWS * CellsPerRow(m)
Base(m) == TOP - Size(m)
LastColumn(m) ==
  IF PixByte(m) = 0 THEN CellsPerRow(m) - 1 ELSE (CellsPerRow(m) * (PixByte(m) + 1)) \div 8 - 1

Width == CellsPerRow(mode) * (PixByte(mode) + 1)
Height == ROWS * SCANS
OnScreen(p) == p.x \in 0..(Width - 1) /\ p.y \in 0..(Height - 1)

(* Addresses wrap at the end and at the start of the screen memory.        *)
Down(a) == IF a >= TOP THEN a - Size(mode) ELSE a
Up(a) == IF a < Base(mode) THEN a + Size(mode) ELSE a

(* The four sides a point can be out on (_LD10F_checkGWINLIMS).            *)
Limits(p) ==
  (IF p.y < win.b THEN {"below"} ELSE IF p.y > win.t THEN {"above"} ELSE {}) \cup
  (IF p.x < win.l THEN {"left"} ELSE IF p.x > win.r THEN {"right"} ELSE {})

(* _LD85D_calcpoint of a point in the window.                              *)
Where(p) ==
  [cell |-> Down(start + (ROWS - 1 - p.y \div SCANS) * CellsPerRow(mode) + p.x \div (PixByte(mode) + 1)),
   scan |-> SCANS - 1 - (p.y % SCANS),
   pix |-> p.x % (PixByte(mode) + 1)]

(* The spot after _LD85D_calcpoint, which leaves it alone when the point   *)
(* is out of the window.                                                   *)
Calculated(p) == IF Limits(p) = {} THEN Where(p) ELSE spot

(* The points of the memory of the screen.                                 *)
Spots == [cell : Base(mode)..(TOP - 1), scan : 0..(SCANS - 1), pix : 0..PixByte(mode)]

-----------------------------------------------------------------------------
(* Coordinates.                                                            *)

(* A division of C truncates.                                              *)
Quot(a, b) == IF a >= 0 THEN a \div b ELSE -((-a) \div b)

(* _LD149_scale_coord_mode in mode m: internal coordinates of e.           *)
Scaled(m, e, o) ==
  LET d == IF PixByte(m) > 3 THEN 1 ELSE IF PixByte(m) = 3 THEN 2 ELSE 4
  IN [x |-> Quot(Quot(e.x + o.x, 2), IF MapType(m) = 0 THEN d ELSE 2 * d),
      y |-> Quot(Quot(e.y + o.y, 2), 2)]

(* _LD176_calcintcoord: its argument rel says that c is absolute.          *)
Plus(a, b) == [x |-> a.x + b.x, y |-> a.y + b.y]
Moved(rel, c, e) == IF rel THEN c ELSE Plus(c, e)

(* Mutant: the origin is added instead of taken off.                       *)
Bug_Unscaled(o) ==
  [x |-> curs.x * (IF PixByte(mode) = 7 THEN 2 ELSE IF PixByte(mode) = 3 THEN 4 ELSE 8) + o.x,
   y |-> curs.y * 4 - o.y]
(* _LD1B8_calc_ext: external coordinates of the cursor.                    *)
Unscaled(o) ==
  [x |-> curs.x * (IF PixByte(mode) = 7 THEN 2 ELSE IF PixByte(mode) = 3 THEN 4 ELSE 8) - o.x,
   y |-> curs.y * 4 - o.y]

Bounded(e) == e.x \in -EXTENT..EXTENT /\ e.y \in -EXTENT..EXTENT

-----------------------------------------------------------------------------
(* The window.                                                             *)

(* Mutant: the lower corner is not looked at.                              *)
Bug_Window(m, lo, hi, e, o, w) ==
  LET e1 == Moved(FALSE, lo, e)   bl == Scaled(m, e1, o)
      e2 == Moved(FALSE, hi, e1)  tr == Scaled(m, e2, o)
  IN IF hi.x >= lo.x /\ hi.y >= lo.y /\ tr.y < Height /\ Quot(tr.x, 8) <= LastColumn(m)
     THEN [ext |-> e2, win |-> [l |-> bl.x, b |-> bl.y, r |-> tr.x, t |-> tr.y]]
     ELSE [ext |-> e, win |-> w]
(* VDU_24 in mode m, from the cursor e: the corners count from the cursor, *)
(* the second from the first, and the cursor goes with them when they are  *)
(* accepted.                                                               *)
Window(m, lo, hi, e, o, w) ==
  LET e1 == Moved(FALSE, lo, e)   bl == Scaled(m, e1, o)
      e2 == Moved(FALSE, hi, e1)  tr == Scaled(m, e2, o)
  IN IF /\ hi.x >= lo.x /\ hi.y >= lo.y
        /\ bl.x >= 0 /\ bl.y >= 0 /\ tr.y < Height
        /\ Quot(tr.x, 8) <= LastColumn(m)
     THEN [ext |-> e2, win |-> [l |-> bl.x, b |-> bl.y, r |-> tr.x, t |-> tr.y]]
     ELSE [ext |-> e, win |-> w]

(* VDU_26 in mode m, from 1279,1023 at the top right.                      *)
DefaultWindow(m) ==
  Window(m, Zero, [x |-> 16 * WIDE - 1, y |-> 4 * Height - 1], Zero, Zero, [l |-> 0, b |-> 0, r |-> 0, t |-> 0])

Windowless(m) ==
  /\ win' = DefaultWindow(m).win /\ ext' = DefaultWindow(m).ext
  /\ org' = Zero /\ curs' = Zero

Setting == pc = "rest" /\ set < MaxSettings /\ set' = set + 1

VDU_24(lo, hi) ==
  /\ Setting
  /\ win' = Window(mode, lo, hi, ext, org, win).win
  /\ ext' = Window(mode, lo, hi, ext, org, win).ext
  /\ Bounded(ext')
  /\ UNCHANGED <<cvars, start, org, curs, drawing>>

(* Its memset takes VDU_G_CURS_SCAN along.                                 *)
VDU_26 ==
  /\ Setting /\ Windowless(mode)
  /\ spot' = IF spot = NoSpot THEN NoSpot ELSE [spot EXCEPT !.scan = 0]
  /\ UNCHANGED <<cvars, start, pc, plot, line, drawn>>

VDU_29(o) ==
  /\ Setting
  /\ org' = o /\ ext' = Unscaled(o) /\ Bounded(ext')
  /\ UNCHANGED <<cvars, start, win, curs, drawing>>

(* vdu_mode: VDU 20, VDU 26 and CLS, which puts the screen at its base.    *)
VDU_22(m) ==
  /\ pc = "rest"
  /\ mode' = m /\ given' = given /\ Restored(m)
  /\ Windowless(m) /\ start' = Base(m) /\ spot' = NoSpot
  /\ UNCHANGED <<pc, plot, line, drawn, set>>

(* Mutant: the start does not wrap.                                        *)
Bug_HardScrollUp ==
  /\ pc = "rest" /\ set = 0 /\ start' = start + CellsPerRow(mode)
  /\ UNCHANGED <<cvars, set, win, org, ext, curs, drawing>>

(* The text scrolls (_LC9A4_hard_Scroll_up).  Bound: as long as there was  *)
(* no other setting.                                                       *)
HardScrollUp ==
  /\ pc = "rest" /\ set = 0 /\ start' = Down(start + CellsPerRow(mode))
  /\ UNCHANGED <<cvars, set, win, org, ext, curs, drawing>>

-----------------------------------------------------------------------------
(* The line drawer.                                                        *)

Abs(a) == IF a < 0 THEN -a ELSE a

(* One pixel on: in the same cell, or into the next                        *)
(* (_LD3ED_drawline_right_cell and the three others).                      *)
Right(s) == IF s.pix < PixByte(mode) THEN [s EXCEPT !.pix = @ + 1]
            ELSE [s EXCEPT !.pix = 0, !.cell = Down(@ + 1)]
(* Mutant: the address wraps before the step.                              *)
Bug_Left(s) == IF s.pix > 0 THEN [s EXCEPT !.pix = @ - 1]
               ELSE [s EXCEPT !.pix = PixByte(mode), !.cell = Up(@) - 1]
Left(s) == IF s.pix > 0 THEN [s EXCEPT !.pix = @ - 1]
           ELSE [s EXCEPT !.pix = PixByte(mode), !.cell = Up(@ - 1)]
(* Mutant: the scan line is not reset.                                     *)
Bug_Above(s) == IF s.scan > 0 THEN [s EXCEPT !.scan = @ - 1]
                ELSE [s EXCEPT !.cell = Up(@ - CellsPerRow(mode))]
Above(s) == IF s.scan > 0 THEN [s EXCEPT !.scan = @ - 1]
            ELSE [s EXCEPT !.scan = SCANS - 1, !.cell = Up(@ - CellsPerRow(mode))]
Below(s) == IF s.scan < SCANS - 1 THEN [s EXCEPT !.scan = @ + 1]
            ELSE [s EXCEPT !.scan = 0, !.cell = Down(@ + CellsPerRow(mode))]

Step(s, side) ==
  IF s = NoSpot THEN s
  ELSE CASE side = "right" -> Right(s)
         [] side = "left" -> Left(s)
         [] side = "above" -> Above(s)
         [] side = "below" -> Below(s)

Beside(p, side) ==
  CASE side = "right" -> [p EXCEPT !.x = @ + 1]
    [] side = "left" -> [p EXCEPT !.x = @ - 1]
    [] side = "above" -> [p EXCEPT !.y = @ + 1]
    [] side = "below" -> [p EXCEPT !.y = @ - 1]

(* Mutant: the error starts at the whole distance.                         *)
Bug_FirstError(dmaj) == dmaj

(* The first value of error_acc.                                           *)
FirstError(dmaj) == dmaj \div 2

(* The locals of _LD1ED_draw_line: it starts at the end that is further    *)
(* left or, of a steep line, further down.  from and end are kept as       *)
(* history, and so is xy when the line starts in the window: the code      *)
(* steps xy only when it does not.  The code also shortens a line that     *)
(* starts beyond the right or the top of the window, but the other end of  *)
(* such a line is beyond it too, and it has returned.                      *)
NewLine(n, a, b) ==
  LET dx == a.x - b.x  dy == a.y - b.y
      steep == Abs(dy) > Abs(dx)
      flip == IF steep THEN dy > 0 ELSE dx > 0
      xy == IF flip THEN b ELSE a
      end == IF flip THEN a ELSE b
      room == IF steep THEN win.t - xy.y ELSE win.r - xy.x
      dmaj == IF steep THEN Abs(dy) ELSE Abs(dx)
  IN [from |-> xy, end |-> end, xy |-> xy,
      out |-> Limits(xy) # {}, dotted |-> BitOf(n, 4),
      major |-> IF steep THEN "above" ELSE "right",
      minor |-> IF (dx < 0) = (dy < 0) THEN IF steep THEN "right" ELSE "above"
                ELSE IF steep THEN "left" ELSE "below",
      dmaj |-> dmaj, dmin |-> IF steep THEN Abs(dx) ELSE Abs(dy),
      err |-> FirstError(dmaj), loops |-> dmaj + 1,
      counter |-> ((room % BYTE) + 1) % BYTE,
      dot |-> TRUE]

(* VDU_25.  Parameters it does not implement move the external cursor.     *)
VDU_25(n, c) ==
  LET e == Moved(BitOf(n, 2), c, ext)
      to == Scaled(mode, e, org)
      first == IF BitOf(n, 3) \/ n >= 64 THEN Calculated(to) ELSE spot
      seen == (BitOf(n, 3) \/ n >= 64) /\ Limits(to) = {}
      l == NewLine(n, curs, to)
  IN /\ pc = "rest" /\ PixByte(mode) # 0 /\ Bounded(e)
     /\ ext' = e
     /\ UNCHANGED <<cvars, start, win, org, set>>
     /\ \/ n = 4 /\ curs' = to /\ UNCHANGED drawing
        \/ n \in 32..63 \cup 72..255 /\ UNCHANGED <<curs, drawing>>
        \/ /\ n \in (0..31 \ {4}) \cup 64..71
           /\ plot' = [n |-> n, to |-> to]
           /\ drawn' = IF seen THEN <<first>> ELSE <<>>
           /\ IF n < 32 /\ Limits(l.xy) \cap Limits(l.end) = {}
              THEN pc' = "line" /\ line' = l /\ spot' = IF l.out THEN first ELSE Where(l.xy)
              ELSE pc' = "move" /\ line' = line /\ spot' = first
           /\ UNCHANGED curs

(* One turn of the loop: the point, unless it is out of the window or a    *)
(* gap between dots, then the step.  Only a line that starts outside looks *)
(* at the window.                                                          *)
DrawStep ==
  LET here == IF line.out /\ ~line.dotted THEN Calculated(line.xy) ELSE spot
      point == IF line.dotted THEN line.dot ELSE line.out => Limits(line.xy) = {}
      err == line.err - line.dmin
      aside == err < 0
      stop == aside /\ ~line.out /\ (line.counter - 1) % BYTE = 0
      side(s) == IF aside THEN Step(s, line.minor) ELSE s
      xy == IF aside THEN Beside(line.xy, line.minor) ELSE line.xy
  IN /\ pc = "line"
     /\ drawn' = IF point THEN Append(drawn, here) ELSE drawn
     /\ IF stop THEN pc' = "move" /\ spot' = here /\ line' = line
        ELSE /\ spot' = Step(side(here), line.major)
             /\ line' = [line EXCEPT
                  !.err = IF aside THEN err + line.dmaj ELSE err,
                  !.loops = @ - 1, !.dot = ~@,
                  !.counter = IF aside /\ ~line.out THEN (@ - 1) % BYTE ELSE @,
                  !.xy = Beside(xy, line.major)]
             /\ pc' = IF line.loops = 1 THEN "move" ELSE "line"
     /\ UNCHANGED <<cvars, start, win, org, ext, curs, plot, set>>

(* _LD0D9_MOVEGCURS, which ends a plot and leaves the spot where it is.    *)
MoveCursor ==
  /\ pc = "move"
  /\ curs' = plot.to
  /\ pc' = "rest" /\ plot' = NoPlot /\ line' = NoLine /\ drawn' = <<>>
  /\ UNCHANGED <<cvars, start, win, org, ext, spot, set>>

-----------------------------------------------------------------------------
Init ==
  /\ CInit
  /\ start = Base(4) /\ win = DefaultWindow(4).win /\ ext = DefaultWindow(4).ext
  /\ org = Zero /\ curs = Zero /\ spot = NoSpot
  /\ pc = "rest" /\ plot = NoPlot /\ line = NoLine /\ drawn = <<>> /\ set = 0

(* Bound: a program draws, or it sets colours, since nothing that places a *)
(* point reads a colour and nothing that sets a colour reads a place.      *)
Untouched ==
  set = 0 /\ pc = "rest" /\ start = Base(mode) /\ curs = Zero /\ ext = DefaultWindow(mode).ext

Draws ==
  \/ \E p \in Plots : VDU_25(p[1], p[2])
  \/ DrawStep
  \/ MoveCursor
  \/ \E c \in Corners : VDU_24(c[1], c[2])
  \/ VDU_26
  \/ \E o \in Origins : VDU_29(o)
  \/ HardScrollUp

Next ==
  \/ Untouched /\ ColourStep /\ UNCHANGED gvars
  \/ given = 0 /\ Draws
  \/ \E m \in Modes : VDU_22(m)

Spec == Init /\ [][Next]_vars

-----------------------------------------------------------------------------
Coordinate == [x : Int, y : Int]

(* A point in progress is in the bounds of its types; the counters of the  *)
(* line drawer are never negative.                                         *)
TypeOK ==
  /\ CTypeOK
  /\ start \in Base(mode)..(TOP - 1) /\ set \in 0..MaxSettings
  /\ {org, ext, curs, plot.to} \subseteq Coordinate /\ Bounded(ext)
  /\ spot \in Spots \cup {NoSpot}
  /\ pc \in {"rest", "line", "move"}
  /\ pc = "line" => line.loops > 0 /\ line.err \in 0..line.dmaj /\ line.counter \in 0..(BYTE - 1)

(* Whatever corners VDU 24 is given, from wherever the cursor is and in    *)
(* whatever mode, the window it accepts has only points of the screen.     *)
WindowOnScreen ==
  PixByte(mode) # 0 => win.l >= 0 /\ win.b >= 0 /\ win.r < Width /\ win.t < Height

(* The steps of a line that starts in the window keep address, scan line   *)
(* and mask at the place of its coordinates, over the borders of cells,    *)
(* the end of the screen memory and a scrolled screen, as long as they are *)
(* on the screen.  It is not held back at the window, nor at the screen.   *)
SpotFollows ==
  pc = "line" /\ ~line.out /\ OnScreen(line.xy) => spot = Where(line.xy)

(* A dotted line that starts outside the window: the code draws it from    *)
(* where the last plot left the spot.                                      *)
Stray == line # NoLine /\ line.dotted /\ line.out

(* Every point drawn is in the memory of the screen, whatever the scroll,  *)
(* the window and the plots before.  The code keeps this of a stray line   *)
(* only when a point was computed in this mode before it, at the wrong     *)
(* place as that may be; one drawn at NoSpot can go anywhere.              *)
DrawnInMemory ==
  \A i \in DOMAIN drawn : drawn[i] \in Spots \/ (Stray /\ drawn[i] = NoSpot)

(* A line that starts in the window is drawn at the place of its           *)
(* coordinates while they are on the screen, every plot is drawn in the    *)
(* memory of the screen with the exception that DrawnInMemory names, and   *)
(* windows are of the screen.                                              *)
SpotInv == TypeOK /\ WindowOnScreen /\ SpotFollows /\ DrawnInMemory

(* The points of the line whose distance from the true line is half a      *)
(* point at most, the one nearer its start of two at that distance.        *)
Near(p) ==
  LET a == line.from  b == line.end
      run == IF line.major = "above" THEN p.y - a.y ELSE p.x - a.x
      across == IF line.major = "above" THEN p.x - a.x ELSE p.y - a.y
      rise == IF line.minor \in {"left", "below"} THEN -across ELSE across
      off == 2 * (rise * line.dmaj - run * line.dmin)
  IN /\ run \in 0..line.dmaj
     /\ IF line.dmaj = 0 THEN p = a ELSE -line.dmaj <= off /\ off < line.dmaj
     /\ line.dotted => run % 2 = 0

(* A line from the window to outside it is not clipped, and the counter    *)
(* that was to clip it takes the room of the major axis, modulo 256.       *)
Unclipped == ~line.out /\ (Limits(line.end) # {} \/ win.r - line.from.x >= BYTE)

(* A line has drawn exactly its nearest points that are in the window,     *)
(* each of them once, so that drawing it again with GCOL 3 takes it away,  *)
(* and drawing it from the other end draws the same points.  PLOT codes    *)
(* with 8 draw the end a second time.                                      *)
LineDrawn ==
  pc = "move" /\ line # NoLine /\ ~Stray /\ ~Unclipped =>
    LET want == {Where(p) : p \in {q \in [x : win.l..win.r, y : win.b..win.t] : Near(q)}}
        twice == IF BitOf(plot.n, 3) /\ Limits(plot.to) = {} THEN {Where(plot.to)} ELSE {}
    IN /\ {drawn[i] : i \in DOMAIN drawn} = want \cup twice
       /\ Len(drawn) = Cardinality(want) + Cardinality(twice)

(* VDU 29 recomputes the external cursor for the new origin: the cursor    *)
(* stays where it is, so that a relative plot goes on from it.  In modes 4 *)
(* and 5 calc_ext does not know that pixels are twice as wide.             *)
OriginKeepsCursor ==
  [][(\E o \in Origins : VDU_29(o)) /\ MapType(mode) = 0 /\ PixByte(mode) # 0
       => Scaled(mode, ext', org') = curs]_vars
=============================================================================
