---------------------------- MODULE VduTextProofs ----------------------------
(***************************************************************************)
(* Proofs about module VduText: for modes of every size, any part of the   *)
(* control codes and all characters, as long as no program moves up from   *)
(* the top row; and that it implements module TextScreen.                  *)
(***************************************************************************)
EXTENDS VduText, SequenceTheorems, TLAPS

-----------------------------------------------------------------------------
(* Places on a screen are counted from its start, along the rows.          *)

LEMMA Times ==
  ASSUME NEW c \in Nat, NEW a \in Nat, NEW b \in Nat, a < b
  PROVE  c * a \in Nat /\ c * b \in Nat /\ c * a + c <= c * b
<1>1. PICK d \in Nat : b = a + 1 + d
  <2>1. b - a - 1 \in Nat /\ b = a + 1 + (b - a - 1)
    OBVIOUS
  <2> QED BY <2>1
<1>2. c * a \in Nat /\ c * d \in Nat /\ c * b = c * a + c + c * d
  BY <1>1
<1> QED BY <1>2

LEMMA ModeFacts ==
  ASSUME NEW m \in Modes
  PROVE  /\ Geometry[m].cols \in Nat /\ Geometry[m].cols > 0
         /\ Geometry[m].rows \in Nat /\ Geometry[m].rows > 0
         /\ END \in Nat /\ Geometry[m].size \in Nat /\ Geometry[m].size > 0
         /\ 2 * Geometry[m].size <= END
         /\ Geometry[m].cols * Geometry[m].rows <= Geometry[m].size
<1>a. /\ END \in Nat
      /\ Geometry[m].cols \in Nat \ {0} /\ Geometry[m].rows \in Nat \ {0}
      /\ Geometry[m].size \in Nat /\ Geometry[m].cols * Geometry[m].rows <= Geometry[m].size
      /\ 2 * Geometry[m].size <= END
  BY GeometryAssumption
<1>1. /\ Geometry[m].cols \in Nat /\ Geometry[m].cols > 0
      /\ Geometry[m].rows \in Nat /\ Geometry[m].rows > 0
      /\ END \in Nat /\ Geometry[m].size \in Nat /\ 2 * Geometry[m].size <= END
      /\ Geometry[m].cols * Geometry[m].rows <= Geometry[m].size
  BY <1>a
<1>2. Geometry[m].cols * 0 + Geometry[m].cols <= Geometry[m].cols * Geometry[m].rows
  BY <1>1, Times
<1>3. Geometry[m].size > 0
  BY <1>1, <1>2
<1> QED BY <1>1, <1>3

LEMMA RowFacts ==
  ASSUME NEW m \in Modes, NEW r \in 0..Geometry[m].rows-1
  PROVE  /\ Geometry[m].cols * r \in Nat /\ r * Geometry[m].cols = Geometry[m].cols * r
         /\ Geometry[m].cols * r + Geometry[m].cols <= Geometry[m].size
         /\ Geometry[m].cols * (r + 1) = Geometry[m].cols * r + Geometry[m].cols
         /\ Geometry[m].cols * (r - 1) = Geometry[m].cols * r - Geometry[m].cols
<1>1. Geometry[m].cols \in Nat /\ Geometry[m].rows \in Nat /\ r \in Nat /\ r < Geometry[m].rows
  BY ModeFacts
<1>2. Geometry[m].cols * r \in Nat
      /\ Geometry[m].cols * r + Geometry[m].cols <= Geometry[m].cols * Geometry[m].rows
  BY <1>1, Times
<1>3. Geometry[m].cols * r + Geometry[m].cols <= Geometry[m].size
  BY <1>1, <1>2, ModeFacts
<1> QED BY <1>1, <1>2, <1>3

(* The place of column c of row r.                                         *)
Place(m, r, c) == Geometry[m].cols * r + c

LEMMA PlaceFacts ==
  ASSUME NEW m \in Modes, NEW r \in 0..Geometry[m].rows-1, NEW c \in 0..Geometry[m].cols-1
  PROVE  /\ Place(m, r, c) \in 0..Geometry[m].size-1 /\ r * Geometry[m].cols + c = Place(m, r, c)
         /\ Place(m, r + 1, c) = Place(m, r, c) + Geometry[m].cols
         /\ \A q \in 0..Geometry[m].rows-1, d \in 0..Geometry[m].cols-1 :
              Place(m, r, c) = Place(m, q, d) => r = q /\ c = d
<1>1. /\ Geometry[m].cols \in Nat /\ Geometry[m].size \in Nat /\ Geometry[m].rows \in Nat
      /\ r \in Nat /\ c \in Nat /\ c < Geometry[m].cols
  BY ModeFacts
<1>2. /\ Geometry[m].cols * r \in Nat /\ r * Geometry[m].cols = Geometry[m].cols * r
      /\ Geometry[m].cols * r + Geometry[m].cols <= Geometry[m].size
      /\ Geometry[m].cols * (r + 1) = Geometry[m].cols * r + Geometry[m].cols
  BY RowFacts
<1>3. ASSUME NEW q \in 0..Geometry[m].rows-1, NEW d \in 0..Geometry[m].cols-1,
             Place(m, r, c) = Place(m, q, d)
      PROVE  r = q /\ c = d
  <2>1. q \in Nat /\ d \in Nat /\ d < Geometry[m].cols /\ Geometry[m].cols * q \in Nat
    BY <1>1, RowFacts
  <2>2. CASE r < q
    BY <2>1, <2>2, <1>1, <1>2, <1>3, Times DEF Place
  <2>3. CASE q < r
    BY <2>1, <2>3, <1>1, <1>2, <1>3, Times DEF Place
  <2>4. CASE r = q
    BY <2>1, <2>4, <1>1, <1>2, <1>3 DEF Place
  <2> QED BY <2>1, <2>2, <2>3, <2>4, <1>1
<1> QED BY <1>1, <1>2, <1>3 DEF Place

(* The address of a place: addition modulo the size of the screen.         *)
LEMMA WrapFacts ==
  ASSUME NEW m \in Modes, NEW a \in Cells(m), NEW k \in 0..Geometry[m].size
  PROVE  /\ Wrap(m, a + k) \in Cells(m) /\ Wrap(m, a) = a /\ a \in Int
         /\ \A j \in 0..Geometry[m].size :
              k + j <= Geometry[m].size => Wrap(m, Wrap(m, a + k) + j) = Wrap(m, a + (k + j))
         /\ \A j \in 0..Geometry[m].size-1 :
              k < Geometry[m].size /\ Wrap(m, a + k) = Wrap(m, a + j) => j = k
         /\ Cells(m) \subseteq 0..2*END /\ Base(m) \in Cells(m)
<1>1. END \in Nat /\ Geometry[m].size \in Nat /\ 2 * Geometry[m].size <= END /\ Geometry[m].size > 0
  BY ModeFacts
<1>2. a \in Int /\ END - Geometry[m].size <= a /\ a < END
  BY <1>1 DEF Cells, Base
<1>3. Wrap(m, a + k) \in Cells(m) /\ Wrap(m, a) = a
  BY <1>1, <1>2 DEF Wrap, Cells, Base
<1>4. \A j \in 0..Geometry[m].size :
        k + j <= Geometry[m].size => Wrap(m, Wrap(m, a + k) + j) = Wrap(m, a + (k + j))
  BY <1>1, <1>2 DEF Wrap
<1>5. \A j \in 0..Geometry[m].size-1 :
        k < Geometry[m].size /\ Wrap(m, a + k) = Wrap(m, a + j) => j = k
  BY <1>1, <1>2 DEF Wrap
<1>6. Cells(m) \subseteq 0..2*END /\ Base(m) \in Cells(m)
  BY <1>1 DEF Cells, Base
<1> QED BY <1>2, <1>3, <1>4, <1>5, <1>6

LEMMA CellFacts ==
  ASSUME NEW m \in Modes, NEW a \in Cells(m), NEW k \in 0..Geometry[m].size-1
  PROVE  /\ k \in 0..Geometry[m].size /\ Wrap(m, a + k) \in Cells(m) /\ Wrap(m, a + k) \in 0..2*END
         /\ \A j \in 0..Geometry[m].size-1 : Wrap(m, a + k) = Wrap(m, a + j) => j = k
<1>1. k \in 0..Geometry[m].size /\ k < Geometry[m].size
  BY ModeFacts
<1> QED BY <1>1, WrapFacts

-----------------------------------------------------------------------------
(* The variables and the memory as a routine finds and leaves them.        *)

VarsType == [MODE : Modes, X : Int, Y : Int, MEM : Int, CRTC_CUR : Int, TOP_SCAN : Int,
             R12 : Int, R14 : Int]
Mem == [0..2*END -> Glyphs]
StateType == [v : VarsType, ram : Mem]

(* The cursor is on the screen, and the screen starts in its memory.       *)
Inside(v) ==
  /\ v \in VarsType
  /\ v.X \in 0..Geometry[v.MODE].cols /\ v.Y \in 0..Geometry[v.MODE].rows-1
  /\ v.MEM \in Cells(v.MODE) /\ v.R12 = Div8(v.MODE, v.MEM)

(* The addresses are those of the cursor.                                  *)
Here(v) == v.MEM + Place(v.MODE, v.Y, v.X)
Pointed(v) ==
  /\ v.CRTC_CUR = Here(v) /\ v.TOP_SCAN = Wrap(v.MODE, Here(v))
  /\ v.R14 = Div8(v.MODE, Here(v))

Good(v) == Inside(v) /\ Pointed(v)

LEMMA AddressFacts ==
  ASSUME NEW m \in Modes, NEW a \in Int
  PROVE  Wrap(m, a) \in Int /\ Div8(m, a) \in Int
<1>1. END \in Nat /\ Geometry[m].size \in Nat
  BY ModeFacts
<1>2. Wrap(m, a) \in Int
  BY <1>1 DEF Wrap
<1>3. a \div 8 \in Int
  OBVIOUS
<1> QED BY <1>2, <1>3 DEF Div8

(* The place of the cursor: a cell, or the end of its row.                 *)
LEMMA HereFacts ==
  ASSUME NEW v, Inside(v)
  PROVE  /\ v.MODE \in Modes /\ v.MEM \in Cells(v.MODE) /\ v.MEM \in Int
         /\ Place(v.MODE, v.Y, v.X) \in 0..Geometry[v.MODE].size
         /\ Here(v) \in Int /\ Scan(v) = Here(v) /\ Wrap(v.MODE, Here(v)) \in Cells(v.MODE)
         /\ v.MEM + v.Y * Geometry[v.MODE].cols + v.X = Here(v)
<1>1. v.MODE \in Modes /\ v.MEM \in Cells(v.MODE) /\ v.MEM \in Int
      /\ v.X \in 0..Geometry[v.MODE].cols /\ v.Y \in 0..Geometry[v.MODE].rows-1
  BY DEF Inside, VarsType
<1>2. /\ Geometry[v.MODE].cols * v.Y \in Nat /\ v.Y * Geometry[v.MODE].cols = Geometry[v.MODE].cols * v.Y
      /\ Geometry[v.MODE].cols * v.Y + Geometry[v.MODE].cols <= Geometry[v.MODE].size
      /\ Geometry[v.MODE].cols \in Nat /\ Geometry[v.MODE].size \in Nat
  BY <1>1, RowFacts, ModeFacts
<1>3. Place(v.MODE, v.Y, v.X) \in 0..Geometry[v.MODE].size
  BY <1>1, <1>2 DEF Place
<1>4. Here(v) \in Int /\ Scan(v) = Here(v)
      /\ v.MEM + v.Y * Geometry[v.MODE].cols + v.X = Here(v)
  BY <1>1, <1>2 DEF Here, Scan, Place
<1>5. Wrap(v.MODE, Here(v)) \in Cells(v.MODE)
  BY <1>1, <1>3, WrapFacts DEF Here
<1> QED BY <1>1, <1>3, <1>4, <1>5

(* SET_CRTC_CURS16_adj sets the addresses and nothing else.                *)
LEMMA CursorAtFacts ==
  ASSUME NEW v, Inside(v), NEW a, a = Here(v)
  PROVE  /\ Good(CursorAt(v, a))
         /\ CursorAt(v, a).MODE = v.MODE /\ CursorAt(v, a).MEM = v.MEM
         /\ CursorAt(v, a).X = v.X /\ CursorAt(v, a).Y = v.Y
<1>1. a \in Int /\ v.MODE \in Modes /\ v \in VarsType
  BY HereFacts DEF Inside
<1>2. Wrap(v.MODE, a) \in Int /\ Div8(v.MODE, a) \in Int
  BY <1>1, AddressFacts
<1> DEFINE w == CursorAt(v, a)
<1>3. /\ w \in VarsType /\ w.MODE = v.MODE /\ w.MEM = v.MEM /\ w.X = v.X /\ w.Y = v.Y
      /\ w.R12 = v.R12 /\ w.CRTC_CUR = a /\ w.TOP_SCAN = Wrap(v.MODE, a) /\ w.R14 = Div8(v.MODE, a)
  BY <1>1, <1>2 DEF CursorAt, VarsType
<1> HIDE DEF w
<1>4. Inside(w) /\ Here(w) = Here(v)
  BY <1>3 DEF Inside, Here
<1> QED BY <1>3, <1>4 DEF Good, Pointed, w

LEMMA PlacedFacts ==
  ASSUME NEW v, Inside(v)
  PROVE  /\ Good(Placed(v)) /\ Placed(v).MODE = v.MODE /\ Placed(v).MEM = v.MEM
         /\ Placed(v).X = v.X /\ Placed(v).Y = v.Y
  BY HereFacts, CursorAtFacts DEF Placed

(* The start of the screen moves to another cell of its memory.            *)
LEMMA StartAtFacts ==
  ASSUME NEW v, Inside(v), NEW a \in Cells(v.MODE)
  PROVE  /\ Inside(StartAt(v, a)) /\ StartAt(v, a).MODE = v.MODE /\ StartAt(v, a).MEM = a
         /\ StartAt(v, a).X = v.X /\ StartAt(v, a).Y = v.Y
<1>1. v.MODE \in Modes /\ v \in VarsType /\ a \in Int
  BY WrapFacts, ModeFacts DEF Inside, VarsType
<1>2. Div8(v.MODE, a) \in Int
  BY <1>1, AddressFacts
<1>3. /\ StartAt(v, a) \in VarsType /\ StartAt(v, a).MODE = v.MODE /\ StartAt(v, a).MEM = a
      /\ StartAt(v, a).X = v.X /\ StartAt(v, a).Y = v.Y /\ StartAt(v, a).R12 = Div8(v.MODE, a)
  BY <1>1, <1>2 DEF StartAt, VarsType
<1> QED BY <1>3 DEF Inside

(* The cursor moves to another column or row.                              *)
MovedTo(v, x, y) == [v EXCEPT !.X = x, !.Y = y]

LEMMA MovedType ==
  ASSUME NEW u \in VarsType, NEW x \in Int, NEW y \in Int
  PROVE  /\ MovedTo(u, x, y) \in VarsType /\ MovedTo(u, x, y).MODE = u.MODE
         /\ MovedTo(u, x, y).MEM = u.MEM /\ MovedTo(u, x, y).X = x /\ MovedTo(u, x, y).Y = y
         /\ MovedTo(u, x, y).R12 = u.R12
  BY DEF VarsType, MovedTo

LEMMA MovedFacts ==
  ASSUME NEW v, Inside(v), NEW x \in 0..Geometry[v.MODE].cols, NEW y \in 0..Geometry[v.MODE].rows-1,
         NEW w, w = MovedTo(v, x, y)
  PROVE  /\ Inside(w) /\ w.MODE = v.MODE /\ w.MEM = v.MEM /\ w.X = x /\ w.Y = y
         /\ w.CRTC_CUR = v.CRTC_CUR
<1>1. x \in Int /\ y \in Int
  BY ModeFacts DEF Inside, VarsType
<1> QED BY <1>1 DEF Inside, VarsType, MovedTo

-----------------------------------------------------------------------------
(* What the screen shows.                                                  *)

GridOf(m, mem, r) ==
  [row \in 0..Geometry[m].rows-1 |->
    [c \in 0..Geometry[m].cols-1 |-> r[Wrap(m, mem + Place(m, row, c))]]]
Grid(s) == GridOf(s.v.MODE, s.v.MEM, s.ram)

(* A cell is drawn: one place of the grid changes.                         *)
Drawn(r, at, g) == [r EXCEPT ![at] = g]
GridDrawn(G, y, x, g) == [G EXCEPT ![y][x] = g]

LEMMA PaintFacts ==
  ASSUME NEW m \in Modes, NEW mem \in Cells(m), NEW r \in Mem, NEW g,
         NEW y \in 0..Geometry[m].rows-1, NEW x \in 0..Geometry[m].cols-1
  PROVE  GridOf(m, mem, Drawn(r, Wrap(m, mem + Place(m, y, x)), g))
           = GridDrawn(GridOf(m, mem, r), y, x, g)
<1> DEFINE at == Wrap(m, mem + Place(m, y, x))
           new == [r EXCEPT ![at] = g]
<1>1. \A row \in 0..Geometry[m].rows-1, c \in 0..Geometry[m].cols-1 :
        new[Wrap(m, mem + Place(m, row, c))]
          = IF row = y /\ c = x THEN g ELSE r[Wrap(m, mem + Place(m, row, c))]
  <2> SUFFICES ASSUME NEW row \in 0..Geometry[m].rows-1, NEW c \in 0..Geometry[m].cols-1
               PROVE  new[Wrap(m, mem + Place(m, row, c))]
                        = IF row = y /\ c = x THEN g ELSE r[Wrap(m, mem + Place(m, row, c))]
    OBVIOUS
  <2>1. /\ Place(m, row, c) \in 0..Geometry[m].size-1 /\ Place(m, y, x) \in 0..Geometry[m].size-1
        /\ Place(m, row, c) = Place(m, y, x) => row = y /\ c = x
        /\ Geometry[m].size \in Nat
    BY PlaceFacts, ModeFacts
  <2>2. Wrap(m, mem + Place(m, row, c)) \in 0..2*END
    BY <2>1, CellFacts
  <2>4. Wrap(m, mem + Place(m, row, c)) = at => Place(m, row, c) = Place(m, y, x)
    BY <2>1, CellFacts
  <2>3. Wrap(m, mem + Place(m, row, c)) \in DOMAIN r
    BY <2>2 DEF Mem
  <2> QED BY <2>1, <2>4, <2>3
<1> HIDE DEF new
<1>2. [GridOf(m, mem, r) EXCEPT ![y][x] = g]
        = [row \in 0..Geometry[m].rows-1 |-> [c \in 0..Geometry[m].cols-1 |->
             IF row = y /\ c = x THEN g ELSE r[Wrap(m, mem + Place(m, row, c))]]]
  BY DEF GridOf
<1>3. GridOf(m, mem, new)
        = [row \in 0..Geometry[m].rows-1 |-> [c \in 0..Geometry[m].cols-1 |->
             IF row = y /\ c = x THEN g ELSE r[Wrap(m, mem + Place(m, row, c))]]]
  BY <1>1 DEF GridOf
<1> QED BY <1>2, <1>3 DEF new, Drawn, GridDrawn

(* The screen scrolls: the rows move up and the last is blank, whatever    *)
(* the rest of the memory, part of which the new row was.                  *)
LEMMA ScrollFacts ==
  ASSUME NEW m \in Modes, NEW mem \in Cells(m), NEW r \in Mem,
         NEW n, n = Wrap(m, mem + Geometry[m].cols)
  PROVE  LET new == Blanked(m, r, n + Place(m, Geometry[m].rows - 1, 0))
             old == GridOf(m, mem, r)
         IN /\ n \in Cells(m) /\ new \in Mem
            /\ GridOf(m, n, new)
                 = [row \in 0..Geometry[m].rows-1 |->
                      IF row < Geometry[m].rows - 1 THEN old[row+1]
                                                    ELSE [c \in 0..Geometry[m].cols-1 |-> BLANK]]
            /\ \A a \in 0..2*END : new[a] # r[a] => a \in Cells(m)
<1> DEFINE last == Geometry[m].rows - 1
           from == n + Place(m, last, 0)
           new == Blanked(m, r, from)
           old == GridOf(m, mem, r)
           bottom == {Wrap(m, Wrap(m, from) + i) : i \in 0..Geometry[m].cols-1}
<1>1. /\ Geometry[m].cols \in Nat /\ Geometry[m].cols > 0 /\ Geometry[m].rows \in Nat
      /\ Geometry[m].rows > 0 /\ Geometry[m].size \in Nat /\ last \in 0..Geometry[m].rows-1
  BY ModeFacts
<1>2. Geometry[m].cols \in 0..Geometry[m].size
  BY <1>1, RowFacts
<1>3. n \in Cells(m)
  BY <1>2, WrapFacts
<1>4. ASSUME NEW i \in 0..Geometry[m].cols-1
      PROVE  Wrap(m, Wrap(m, from) + i) = Wrap(m, n + Place(m, last, i))
  <2>1. 0 \in 0..Geometry[m].cols-1 /\ i \in Nat
    BY <1>1
  <2>2. Place(m, last, 0) \in 0..Geometry[m].size-1 /\ Place(m, last, i) \in 0..Geometry[m].size-1
    BY <1>1, <2>1, PlaceFacts
  <2>3. Geometry[m].cols * last \in Nat
    BY <1>1, RowFacts
  <2>4. Place(m, last, i) = Place(m, last, 0) + i
    BY <2>1, <2>3 DEF Place
  <2>5. Place(m, last, 0) \in 0..Geometry[m].size /\ i \in 0..Geometry[m].size
        /\ Place(m, last, 0) + i <= Geometry[m].size
    BY <2>1, <2>2, <2>4, <1>1
  <2> HIDE DEF last
  <2> QED BY <1>3, <2>4, <2>5, WrapFacts
<1>5. bottom \subseteq Cells(m)
  <2> SUFFICES ASSUME NEW i \in 0..Geometry[m].cols-1 PROVE Wrap(m, Wrap(m, from) + i) \in Cells(m)
    OBVIOUS
  <2>1. Place(m, last, i) \in 0..Geometry[m].size-1
    BY <1>1, PlaceFacts
  <2> QED BY <1>3, <1>4, <2>1, CellFacts
<1>6. new = [a \in 0..2*END |-> IF a \in bottom THEN BLANK ELSE r[a]]
  BY DEF Blanked, Mem
<1>7. new \in Mem /\ \A a \in 0..2*END : new[a] # r[a] => a \in Cells(m)
  <2>1. BLANK \in Glyphs
    BY DEF Glyphs
  <2> HIDE DEF bottom, new
  <2> QED BY <1>5, <1>6, <2>1 DEF Mem
<1>8. ASSUME NEW row \in 0..Geometry[m].rows-1, NEW c \in 0..Geometry[m].cols-1
      PROVE  new[Wrap(m, n + Place(m, row, c))]
               = IF row < last THEN old[row+1][c] ELSE BLANK
  <2>1. Place(m, row, c) \in 0..Geometry[m].size-1
    BY PlaceFacts
  <2>2. Wrap(m, n + Place(m, row, c)) \in 0..2*END
    BY <1>1, <1>3, <2>1, WrapFacts
  <2>3. CASE row < last
    <3>1. row + 1 \in 0..Geometry[m].rows-1
      BY <1>1, <2>3
    <3>2. Place(m, row + 1, c) = Place(m, row, c) + Geometry[m].cols
          /\ Place(m, row + 1, c) \in 0..Geometry[m].size-1
      BY <3>1, PlaceFacts
    <3>3. Wrap(m, n + Place(m, row, c)) = Wrap(m, mem + Place(m, row + 1, c))
      <4>1. Geometry[m].cols + Place(m, row, c) = Place(m, row + 1, c)
            /\ Place(m, row, c) \in 0..Geometry[m].size
            /\ Geometry[m].cols + Place(m, row, c) <= Geometry[m].size
        BY <1>1, <2>1, <3>2
      <4> QED BY <4>1, <1>2, WrapFacts
    <3>4. Wrap(m, n + Place(m, row, c)) \notin bottom
      <4> SUFFICES ASSUME NEW i \in 0..Geometry[m].cols-1,
                          Wrap(m, n + Place(m, row, c)) = Wrap(m, n + Place(m, last, i))
                   PROVE  FALSE
        BY <1>4
      <4>1. Place(m, last, i) \in 0..Geometry[m].size-1
            /\ (Place(m, row, c) = Place(m, last, i) => row = last)
        BY <1>1, PlaceFacts
      <4>2. Place(m, row, c) = Place(m, last, i)
        BY <1>3, <2>1, <4>1, CellFacts
      <4> QED BY <4>1, <4>2, <2>3, <1>1
    <3>5. old[row+1][c] = r[Wrap(m, mem + Place(m, row + 1, c))]
      BY <3>1 DEF GridOf
    <3> HIDE DEF bottom, old, new
    <3> QED BY <1>6, <2>2, <2>3, <3>3, <3>4, <3>5
  <2>4. CASE ~(row < last)
    <3>1. row = last
      BY <2>4, <1>1
    <3>2. Wrap(m, n + Place(m, row, c)) \in bottom
      BY <3>1, <1>4
    <3> HIDE DEF bottom, old, new
    <3> QED BY <1>6, <2>2, <2>4, <3>2
  <2> QED BY <2>3, <2>4
<1> HIDE DEF new, old, from
<1>9. GridOf(m, n, new)
        = [row \in 0..Geometry[m].rows-1 |->
             IF row < last THEN old[row+1] ELSE [c \in 0..Geometry[m].cols-1 |-> BLANK]]
  <2>1. \A row \in 0..Geometry[m].rows-1 :
          [c \in 0..Geometry[m].cols-1 |-> new[Wrap(m, n + Place(m, row, c))]]
            = IF row < last THEN old[row+1] ELSE [c \in 0..Geometry[m].cols-1 |-> BLANK]
    <3> SUFFICES ASSUME NEW row \in 0..Geometry[m].rows-1
                 PROVE  [c \in 0..Geometry[m].cols-1 |-> new[Wrap(m, n + Place(m, row, c))]]
                          = IF row < last THEN old[row+1] ELSE [c \in 0..Geometry[m].cols-1 |-> BLANK]
      OBVIOUS
    <3>1. CASE row < last
      <4>1. old[row+1] = [c \in 0..Geometry[m].cols-1 |-> old[row+1][c]]
        <5>1. row + 1 \in 0..Geometry[m].rows-1
          BY <1>1, <3>1
        <5> QED BY <5>1 DEF old, GridOf
      <4> QED BY <1>8, <3>1, <4>1
    <3>2. CASE ~(row < last)
      BY <1>8, <3>2
    <3> QED BY <3>1, <3>2
  <2> QED BY <2>1 DEF GridOf
<1> QED BY <1>3, <1>7, <1>9 DEF new, old, from

-----------------------------------------------------------------------------
(* The routines, each from a state with the cursor inside the screen.      *)

Row0(m) == [c \in 0..Geometry[m].cols-1 |-> BLANK]
ScrolledGrid(m, g) ==
  [row \in 0..Geometry[m].rows-1 |-> IF row < Geometry[m].rows - 1 THEN g[row+1] ELSE Row0(m)]

(* From s to n nothing is drawn outside the memory of the screen.          *)
Within(s, n) == \A a \in 0..2*END : n.ram[a] # s.ram[a] => a \in Cells(n.v.MODE)

Ready(s) == s \in StateType /\ Inside(s.v)

WithVars(s, w) == [s EXCEPT !.v = w]

LEMMA WithV ==
  ASSUME NEW s \in StateType, NEW w \in VarsType
  PROVE  /\ WithVars(s, w) = [v |-> w, ram |-> s.ram] /\ WithVars(s, w) \in StateType
  BY DEF StateType, WithVars

(* The cursor moves, with the addresses or without.                        *)
LEMMA PutFacts ==
  ASSUME NEW s, Ready(s), NEW w, Good(w), w.MODE = s.v.MODE, w.MEM = s.v.MEM
  PROVE  LET n == WithVars(s, w) IN
         /\ Ready(n) /\ n.v = w /\ n.ram = s.ram /\ Grid(n) = Grid(s) /\ Within(s, n)
<1>1. w \in VarsType
  BY DEF Good, Inside
<1>2. WithVars(s, w) = [v |-> w, ram |-> s.ram] /\ WithVars(s, w) \in StateType
  BY <1>1, WithV DEF Ready
<1> QED BY <1>2 DEF Ready, Good, Grid, Within

LEMMA ScrollUpFacts ==
  ASSUME NEW v, Inside(v)
  PROVE  LET u == HardScrollUp(v) IN
         /\ Inside(u) /\ u.MODE = v.MODE /\ u.X = v.X /\ u.Y = v.Y
         /\ u.MEM = Wrap(v.MODE, v.MEM + Geometry[v.MODE].cols)
<1>1. v.MODE \in Modes /\ v.MEM \in Cells(v.MODE)
  BY HereFacts
<1>2. Geometry[v.MODE].cols \in 0..Geometry[v.MODE].size
  <2>1. 0 \in 0..Geometry[v.MODE].rows-1 /\ Geometry[v.MODE].cols \in Nat /\ Geometry[v.MODE].size \in Nat
    BY <1>1, ModeFacts
  <2> QED BY <1>1, <2>1, RowFacts
<1>3. Wrap(v.MODE, v.MEM + Geometry[v.MODE].cols) \in Cells(v.MODE)
  BY <1>1, <1>2, WrapFacts
<1> QED BY <1>3, StartAtFacts DEF HardScrollUp

LEMMA CursorDownFacts ==
  ASSUME NEW s, Ready(s)
  PROVE  LET n == CursorDown(s)  m == s.v.MODE IN
         /\ Ready(n) /\ Good(n.v) /\ n.v.MODE = m /\ n.v.X = s.v.X /\ Within(s, n)
         /\ IF s.v.Y < Geometry[m].rows - 1
              THEN n.v.Y = s.v.Y + 1 /\ Grid(n) = Grid(s)
              ELSE n.v.Y = s.v.Y /\ Grid(n) = ScrolledGrid(m, Grid(s))
<1> DEFINE v == s.v  m == s.v.MODE
<1>1. /\ Inside(v) /\ m \in Modes /\ v \in VarsType /\ s.ram \in Mem /\ s \in StateType
      /\ v.X \in 0..Geometry[m].cols /\ v.Y \in 0..Geometry[m].rows-1 /\ v.MEM \in Cells(m)
      /\ Geometry[m].rows \in Nat
  BY ModeFacts DEF Ready, Inside, StateType, VarsType
<1>2. CASE v.Y < Geometry[m].rows - 1
  <2> DEFINE w == [v EXCEPT !.X = v.X, !.Y = v.Y + 1]
  <2>1. v.Y + 1 \in 0..Geometry[m].rows-1
    BY <1>1, <1>2
  <2>3. w = [v EXCEPT !.Y = @ + 1]
    BY <1>1 DEF VarsType
  <2>a. w = MovedTo(v, v.X, v.Y + 1)
    BY DEF MovedTo
  <2> HIDE DEF w
  <2>2. Inside(w) /\ w.MODE = m /\ w.MEM = v.MEM /\ w.X = v.X /\ w.Y = v.Y + 1
    BY <1>1, <2>1, <2>a, MovedFacts
  <2>4. /\ Good(Placed(w)) /\ Placed(w).MODE = m /\ Placed(w).MEM = v.MEM
        /\ Placed(w).X = v.X /\ Placed(w).Y = v.Y + 1
    BY <2>2, PlacedFacts
  <2>5. CursorDown(s) = WithVars(s, Placed(w))
    BY <1>2, <2>3 DEF CursorDown, WithVars
  <2> QED BY <1>2, <2>4, <2>5, PutFacts
<1>3. CASE ~(v.Y < Geometry[m].rows - 1)
  <2> DEFINE u == HardScrollUp(v)
             z == [u EXCEPT !.X = 0]
             from == Scan(z)
             n == [v |-> Placed(u), ram |-> Blanked(m, s.ram, from)]
  <2>1. v.Y = Geometry[m].rows - 1
    BY <1>1, <1>3
  <2>2. /\ Inside(u) /\ u.MODE = m /\ u.X = v.X /\ u.Y = v.Y
        /\ u.MEM = Wrap(m, v.MEM + Geometry[m].cols)
    BY <1>1, ScrollUpFacts
  <2>3. CursorDown(s) = n
    BY <1>3, <2>2 DEF CursorDown, WithVars
  <2> HIDE DEF u
  <2>4. from = u.MEM + Place(m, Geometry[m].rows - 1, 0)
    <3>1. /\ u \in VarsType /\ u.Y \in 0..Geometry[m].rows-1 /\ 0 \in 0..Geometry[m].cols
      BY <2>2, <1>1, ModeFacts DEF Inside
    <3>2. z = MovedTo(u, 0, u.Y)
      BY <3>1 DEF VarsType, MovedTo
    <3> HIDE DEF z
    <3>3. Inside(z) /\ z.MODE = m /\ z.MEM = u.MEM /\ z.X = 0 /\ z.Y = u.Y
      BY <2>2, <3>1, <3>2, MovedFacts
    <3>4. Scan(z) = u.MEM + Place(m, u.Y, 0)
      BY <3>3, HereFacts DEF Here
    <3> QED BY <2>1, <2>2, <3>4
  <2> HIDE DEF from
  <2>5. /\ u.MEM \in Cells(m) /\ Blanked(m, s.ram, from) \in Mem
        /\ GridOf(m, u.MEM, Blanked(m, s.ram, from)) = ScrolledGrid(m, GridOf(m, v.MEM, s.ram))
        /\ \A a \in 0..2*END : Blanked(m, s.ram, from)[a] # s.ram[a] => a \in Cells(m)
    <3> DEFINE k == u.MEM
    <3> HIDE DEF k, z, n, v
    <3>1. m \in Modes /\ v.MEM \in Cells(m) /\ s.ram \in Mem /\ k = Wrap(m, v.MEM + Geometry[m].cols)
      BY <1>1, <2>2 DEF k, v, Inside
    <3> HIDE DEF m
    <3>2. LET new == Blanked(m, s.ram, k + Place(m, Geometry[m].rows - 1, 0))
              old == GridOf(m, v.MEM, s.ram)
          IN /\ k \in Cells(m) /\ new \in Mem
             /\ GridOf(m, k, new)
                  = [row \in 0..Geometry[m].rows-1 |->
                       IF row < Geometry[m].rows - 1 THEN old[row+1]
                                                     ELSE [c \in 0..Geometry[m].cols-1 |-> BLANK]]
             /\ \A a \in 0..2*END : new[a] # s.ram[a] => a \in Cells(m)
      BY <3>1, ScrollFacts
    <3>3. from = k + Place(m, Geometry[m].rows - 1, 0)
      BY <2>4 DEF k, m
    <3> HIDE DEF from
    <3>4. k \in Cells(m) /\ Blanked(m, s.ram, from) \in Mem
          /\ \A a \in 0..2*END : Blanked(m, s.ram, from)[a] # s.ram[a] => a \in Cells(m)
      BY <3>2, <3>3
    <3>5. GridOf(m, k, Blanked(m, s.ram, from)) = ScrolledGrid(m, GridOf(m, v.MEM, s.ram))
      BY <3>2, <3>3 DEF ScrolledGrid, Row0
    <3> QED BY <3>4, <3>5 DEF k, m, v
  <2>6. /\ Good(Placed(u)) /\ Placed(u).MODE = m /\ Placed(u).MEM = u.MEM
        /\ Placed(u).X = v.X /\ Placed(u).Y = v.Y /\ Placed(u) \in VarsType
    BY <2>2, PlacedFacts DEF Good, Inside
  <2>7. n \in StateType /\ n.v = Placed(u) /\ n.ram = Blanked(m, s.ram, from)
    BY <2>5, <2>6 DEF StateType
  <2> HIDE DEF n
  <2>8. Grid(n) = ScrolledGrid(m, Grid(s))
    BY <2>5, <2>6, <2>7 DEF Grid
  <2>9. Ready(n) /\ Good(n.v) /\ Within(s, n)
    BY <2>5, <2>6, <2>7 DEF Ready, Within, Good
  <2> QED BY <1>3, <2>3, <2>6, <2>7, <2>8, <2>9
<1> QED BY <1>2, <1>3

(* A character is drawn at the cursor; past the end of a row that is the   *)
(* start of the next, or a cell that the next scroll will blank.           *)
LEMMA OutCharFacts ==
  ASSUME NEW s, Ready(s), Good(s.v), NEW c, Glyph(s.v.MODE, c) \in Glyphs
  PROVE  LET n == OutChar(s, c)  m == s.v.MODE  g == Glyph(s.v.MODE, c) IN
         /\ Ready(n) /\ n.v = s.v /\ Within(s, n)
         /\ s.v.X < Geometry[m].cols => Grid(n) = GridDrawn(Grid(s), s.v.Y, s.v.X, g)
         /\ s.v.X = Geometry[m].cols /\ s.v.Y < Geometry[m].rows - 1
              => Grid(n) = GridDrawn(Grid(s), s.v.Y + 1, 0, g)
         /\ s.v.X = Geometry[m].cols /\ s.v.Y = Geometry[m].rows - 1
              => ScrolledGrid(m, Grid(n)) = ScrolledGrid(m, Grid(s))
<1> DEFINE v == s.v  m == s.v.MODE  g == Glyph(m, c)
           at == Wrap(m, v.MEM + Place(m, v.Y, v.X))
           n == OutChar(s, c)
<1>1. /\ m \in Modes /\ v \in VarsType /\ s.ram \in Mem /\ s \in StateType
      /\ v.X \in 0..Geometry[m].cols /\ v.Y \in 0..Geometry[m].rows-1 /\ v.MEM \in Cells(m)
      /\ Geometry[m].rows \in Nat /\ Geometry[m].cols \in Nat /\ Geometry[m].cols > 0
      /\ Geometry[m].size \in Nat /\ Geometry[m].rows > 0
  BY ModeFacts DEF Ready, Inside, StateType, VarsType
<1>2. v.TOP_SCAN = at /\ at \in Cells(m) /\ at \in 0..2*END
  <2>1. v.TOP_SCAN = at /\ at \in Cells(m)
    BY HereFacts DEF Good, Pointed, Ready, Here
  <2>2. 0 \in 0..Geometry[m].size
    BY <1>1
  <2> QED BY <1>1, <2>1, <2>2, WrapFacts
<1> HIDE DEF at
<1>3. n \in StateType /\ n.v = v /\ n.ram = [s.ram EXCEPT ![at] = g]
  <2>1. [s.ram EXCEPT ![at] = g] \in Mem
    BY <1>1, <1>2 DEF Mem
  <2>2. n = [v |-> v, ram |-> [s.ram EXCEPT ![at] = g]]
    BY <1>1, <1>2 DEF OutChar, StateType
  <2> QED BY <1>1, <2>1, <2>2 DEF StateType
<1> HIDE DEF n
<1>4. Ready(n) /\ Within(s, n)
  <2>1. \A a \in 0..2*END : n.ram[a] # s.ram[a] => a = at
    BY <1>1, <1>3 DEF Mem
  <2> QED BY <1>2, <1>3, <2>1 DEF Ready, Within
<1>5. ASSUME v.X < Geometry[m].cols PROVE Grid(n) = GridDrawn(Grid(s), v.Y, v.X, g)
  <2>1. v.X \in 0..Geometry[m].cols-1
    BY <1>1, <1>5
  <2>2. GridOf(m, v.MEM, Drawn(s.ram, Wrap(m, v.MEM + Place(m, v.Y, v.X)), g))
          = GridDrawn(GridOf(m, v.MEM, s.ram), v.Y, v.X, g)
    BY <1>1, <2>1, PaintFacts
  <2> QED BY <1>3, <2>2 DEF Grid, at, Drawn
<1>6. ASSUME v.X = Geometry[m].cols, v.Y < Geometry[m].rows - 1
      PROVE  Grid(n) = GridDrawn(Grid(s), v.Y + 1, 0, g)
  <2>1. v.Y + 1 \in 0..Geometry[m].rows-1 /\ 0 \in 0..Geometry[m].cols-1
    BY <1>1, <1>6
  <2>2. Place(m, v.Y + 1, 0) = Place(m, v.Y, v.X)
    <3>1. Geometry[m].cols * v.Y \in Nat
          /\ Geometry[m].cols * (v.Y + 1) = Geometry[m].cols * v.Y + Geometry[m].cols
      BY <1>1, RowFacts
    <3> QED BY <1>1, <1>6, <3>1 DEF Place
  <2>3. GridOf(m, v.MEM, Drawn(s.ram, Wrap(m, v.MEM + Place(m, v.Y + 1, 0)), g))
          = GridDrawn(GridOf(m, v.MEM, s.ram), v.Y + 1, 0, g)
    BY <1>1, <2>1, PaintFacts
  <2> QED BY <1>3, <2>2, <2>3 DEF Grid, at, Drawn
<1>7. ASSUME v.X = Geometry[m].cols, v.Y = Geometry[m].rows - 1
      PROVE  ScrolledGrid(m, Grid(n)) = ScrolledGrid(m, Grid(s))
  <2>1. ASSUME NEW row \in 0..Geometry[m].rows-1, NEW d \in 0..Geometry[m].cols-1, row > 0
        PROVE  Wrap(m, v.MEM + Place(m, row, d)) # at
    <3>1. Place(m, row, d) \in 0..Geometry[m].size-1 /\ Place(m, row, d) > 0
      <4>1. Place(m, row, d) \in 0..Geometry[m].size-1
        BY <1>1, PlaceFacts
      <4>2. 0 \in Nat /\ row \in Nat /\ 0 < row /\ d \in Nat
        BY <1>1, <2>1
      <4>3. Geometry[m].cols * 0 + Geometry[m].cols <= Geometry[m].cols * row
            /\ Geometry[m].cols * row \in Nat
        BY <1>1, <4>2, Times
      <4> QED BY <1>1, <4>1, <4>2, <4>3 DEF Place
    <3>2. Place(m, v.Y, v.X) \in 0..Geometry[m].size /\ Place(m, row, d) < Place(m, v.Y, v.X)
      <4>1. Place(m, v.Y, v.X) \in 0..Geometry[m].size
        BY HereFacts DEF Ready
      <4>2. /\ Geometry[m].cols * row \in Nat /\ Geometry[m].cols * v.Y \in Nat
            /\ row < v.Y => Geometry[m].cols * row + Geometry[m].cols <= Geometry[m].cols * v.Y
        <5>1. row \in Nat /\ v.Y \in Nat
          BY <1>1
        <5> QED BY <1>1, <5>1, RowFacts, Times
      <4>3. row < v.Y \/ row = v.Y
        BY <1>1, <1>7
      <4> QED BY <1>1, <1>7, <4>1, <4>2, <4>3 DEF Place
    <3>3. END \in Nat /\ v.MEM \in Int /\ v.MEM < END /\ END - Geometry[m].size <= v.MEM
      BY <1>1, ModeFacts DEF Cells, Base
    <3> QED BY <1>1, <3>1, <3>2, <3>3 DEF Wrap, at
  <2>2. ASSUME NEW row \in 0..Geometry[m].rows-1, row < Geometry[m].rows - 1
        PROVE  Grid(n)[row+1] = Grid(s)[row+1]
    <3>1. row + 1 \in 0..Geometry[m].rows-1 /\ row + 1 > 0
      BY <1>1, <2>2
    <3>2. \A d \in 0..Geometry[m].cols-1 :
            n.ram[Wrap(m, v.MEM + Place(m, row + 1, d))] = s.ram[Wrap(m, v.MEM + Place(m, row + 1, d))]
      BY <1>1, <1>3, <2>1, <3>1 DEF Mem
    <3>3. Grid(n)[row+1] = [d \in 0..Geometry[m].cols-1 |-> n.ram[Wrap(m, v.MEM + Place(m, row + 1, d))]]
      BY <1>3, <3>1 DEF Grid, GridOf
    <3>4. Grid(s)[row+1] = [d \in 0..Geometry[m].cols-1 |-> s.ram[Wrap(m, v.MEM + Place(m, row + 1, d))]]
      BY <3>1 DEF Grid, GridOf
    <3> QED BY <3>2, <3>3, <3>4
  <2> QED BY <2>2 DEF ScrolledGrid
<1> QED BY <1>1, <1>3, <1>4, <1>5, <1>6, <1>7 DEF n

-----------------------------------------------------------------------------
(* The other routines.                                                     *)

Ends(s, n) == Ready(n) /\ Good(n.v) /\ Within(s, n)

LEMMA ReadyFacts ==
  ASSUME NEW s, Ready(s)
  PROVE  /\ s \in StateType /\ s.v \in VarsType /\ s.ram \in Mem /\ Inside(s.v)
         /\ s.v.MODE \in Modes /\ s.v.X \in 0..Geometry[s.v.MODE].cols
         /\ s.v.Y \in 0..Geometry[s.v.MODE].rows-1 /\ s.v.MEM \in Cells(s.v.MODE)
         /\ Geometry[s.v.MODE].cols \in Nat /\ Geometry[s.v.MODE].cols > 0
         /\ Geometry[s.v.MODE].rows \in Nat /\ Geometry[s.v.MODE].rows > 0
         /\ s.v.X \in Int /\ s.v.Y \in Int
  BY ModeFacts DEF Ready, Inside, StateType, VarsType

(* The cursor alone is moved.                                              *)
LEMMA TurnFacts ==
  ASSUME NEW s, Ready(s), NEW x \in 0..Geometry[s.v.MODE].cols, NEW y \in 0..Geometry[s.v.MODE].rows-1,
         NEW z, z = WithVars(s, MovedTo(s.v, x, y))
  PROVE  /\ Ready(z) /\ z.v = MovedTo(s.v, x, y) /\ z.ram = s.ram /\ Grid(z) = Grid(s)
         /\ z.v.MODE = s.v.MODE /\ z.v.MEM = s.v.MEM /\ z.v.X = x /\ z.v.Y = y
<1> DEFINE w == MovedTo(s.v, x, y)
<1> HIDE DEF w
<1>1. Inside(w) /\ w.MODE = s.v.MODE /\ w.MEM = s.v.MEM /\ w.X = x /\ w.Y = y
  BY ReadyFacts, MovedFacts DEF w
<1>2. w \in VarsType
  BY <1>1 DEF Inside
<1>3. z = [v |-> w, ram |-> s.ram] /\ z \in StateType
  BY <1>2, WithV, ReadyFacts DEF w
<1> QED BY <1>1, <1>3 DEF w, Ready, Grid

(* The cursor and its addresses are moved.                                 *)
LEMMA CursorToFacts ==
  ASSUME NEW s, Ready(s), NEW x \in 0..Geometry[s.v.MODE].cols, NEW y \in 0..Geometry[s.v.MODE].rows-1,
         NEW a, a = s.v.MEM + Place(s.v.MODE, y, x),
         NEW n, n = WithVars(s, CursorAt(MovedTo(s.v, x, y), a))
  PROVE  /\ Ends(s, n) /\ n.ram = s.ram /\ Grid(n) = Grid(s) /\ n.v.MODE = s.v.MODE
         /\ n.v.MEM = s.v.MEM /\ n.v.X = x /\ n.v.Y = y
<1> DEFINE w == MovedTo(s.v, x, y)
           c == CursorAt(w, a)
<1> HIDE DEF w
<1>0. Inside(s.v) /\ w = MovedTo(s.v, x, y)
  BY DEF Ready, w
<1>1. Inside(w) /\ w.MODE = s.v.MODE /\ w.MEM = s.v.MEM /\ w.X = x /\ w.Y = y
  BY <1>0, MovedFacts
<1>2. a = Here(w)
  BY <1>1 DEF Here
<1> HIDE DEF c
<1>3. Good(c) /\ c.MODE = s.v.MODE /\ c.MEM = s.v.MEM /\ c.X = x /\ c.Y = y
  BY <1>1, <1>2, CursorAtFacts DEF c
<1>4. n = WithVars(s, c)
  BY DEF c, w
<1>5. Ready(n) /\ n.v = c /\ n.ram = s.ram /\ Grid(n) = Grid(s) /\ Within(s, n)
  BY <1>3, <1>4, PutFacts
<1> QED BY <1>3, <1>5 DEF Ends

LEMMA PlacedToFacts ==
  ASSUME NEW s, Ready(s), NEW x \in 0..Geometry[s.v.MODE].cols, NEW y \in 0..Geometry[s.v.MODE].rows-1,
         NEW n, n = WithVars(s, Placed(MovedTo(s.v, x, y)))
  PROVE  /\ Ends(s, n) /\ n.ram = s.ram /\ Grid(n) = Grid(s) /\ n.v.MODE = s.v.MODE
         /\ n.v.MEM = s.v.MEM /\ n.v.X = x /\ n.v.Y = y
<1> DEFINE w == MovedTo(s.v, x, y)
           a == Scan(w)
<1> HIDE DEF w
<1>1. Inside(w) /\ w.MODE = s.v.MODE /\ w.MEM = s.v.MEM /\ w.X = x /\ w.Y = y
  BY ReadyFacts, MovedFacts DEF w
<1>2. a = s.v.MEM + Place(s.v.MODE, y, x)
  BY <1>1, HereFacts DEF Here
<1>3. n = WithVars(s, CursorAt(MovedTo(s.v, x, y), a))
  BY DEF Placed, w
<1> HIDE DEF a
<1> QED BY <1>2, <1>3, CursorToFacts

LEMMA CursorUpFacts ==
  ASSUME NEW s, Ready(s), s.v.Y # 0
  PROVE  LET n == CursorUp(s) IN
         /\ Ends(s, n) /\ n.ram = s.ram /\ Grid(n) = Grid(s) /\ n.v.MODE = s.v.MODE
         /\ n.v.X = s.v.X /\ n.v.Y = s.v.Y - 1
<1>1. s.v.X \in 0..Geometry[s.v.MODE].cols /\ s.v.Y - 1 \in 0..Geometry[s.v.MODE].rows-1
      /\ s.v \in VarsType
  BY ReadyFacts
<1>2. [s.v EXCEPT !.Y = @ - 1] = MovedTo(s.v, s.v.X, s.v.Y - 1)
  BY <1>1 DEF VarsType, MovedTo
<1>3. CursorUp(s) = WithVars(s, Placed(MovedTo(s.v, s.v.X, s.v.Y - 1)))
  BY <1>2 DEF CursorUp, WithVars
<1> QED BY <1>1, <1>3, PlacedToFacts

LEMMA VDU_9Facts ==
  ASSUME NEW s, Ready(s), Good(s.v)
  PROVE  LET n == VDU_9(s)  m == s.v.MODE IN
         /\ Ends(s, n) /\ n.v.MODE = m
         /\ s.v.X < Geometry[m].cols => n.v.X = s.v.X + 1 /\ n.v.Y = s.v.Y /\ Grid(n) = Grid(s)
         /\ s.v.X = Geometry[m].cols =>
              /\ n.v.X = 0
              /\ IF s.v.Y < Geometry[m].rows - 1
                   THEN n.v.Y = s.v.Y + 1 /\ Grid(n) = Grid(s)
                   ELSE n.v.Y = s.v.Y /\ Grid(n) = ScrolledGrid(m, Grid(s))
<1> DEFINE v == s.v  m == s.v.MODE
<1>1. /\ s \in StateType /\ v \in VarsType /\ m \in Modes /\ v.X \in 0..Geometry[m].cols
      /\ v.Y \in 0..Geometry[m].rows-1 /\ Geometry[m].cols \in Nat /\ v.X \in Int
  BY ReadyFacts
<1>2. CASE v.X < Geometry[m].cols
  <2>1. v.X <= Geometry[m].cols - 1 /\ v.X + 1 \in 0..Geometry[m].cols
    BY <1>1, <1>2
  <2>2. v.CRTC_CUR + 1 = v.MEM + Place(m, v.Y, v.X + 1)
    <3>1. v.CRTC_CUR = v.MEM + Place(m, v.Y, v.X) /\ v.MEM \in Int
      BY HereFacts DEF Good, Pointed, Ready, Here
    <3>2. Geometry[m].cols * v.Y \in Nat
      BY <1>1, RowFacts
    <3> QED BY <1>1, <3>1, <3>2 DEF Place
  <2>3. [v EXCEPT !.X = @ + 1] = MovedTo(v, v.X + 1, v.Y)
    BY <1>1 DEF VarsType, MovedTo
  <2>4. VDU_9(s) = WithVars(s, CursorAt(MovedTo(v, v.X + 1, v.Y), v.CRTC_CUR + 1))
    BY <2>1, <2>3 DEF VDU_9, WithVars
  <2>5. LET n == VDU_9(s) IN
        /\ Ends(s, n) /\ Grid(n) = Grid(s) /\ n.v.MODE = m /\ n.v.X = v.X + 1 /\ n.v.Y = v.Y
    BY <1>1, <2>1, <2>2, <2>4, CursorToFacts
  <2> QED BY <1>1, <1>2, <2>5
<1>3. CASE v.X = Geometry[m].cols
  <2> DEFINE z == [s EXCEPT !.v.X = 0]
  <2>1. z = WithVars(s, MovedTo(v, 0, v.Y))
    BY <1>1 DEF StateType, VarsType, MovedTo, WithVars
  <2>2. VDU_9(s) = CursorDown(z)
    BY <1>1, <1>3 DEF VDU_9, WithVars
  <2> HIDE DEF z
  <2>3. Ready(z) /\ z.ram = s.ram /\ Grid(z) = Grid(s) /\ z.v.MODE = m /\ z.v.X = 0 /\ z.v.Y = v.Y
    BY <1>1, <2>1, TurnFacts
  <2>4. LET n == CursorDown(z) IN
         /\ Ready(n) /\ Good(n.v) /\ n.v.MODE = m /\ n.v.X = 0 /\ Within(z, n)
         /\ IF v.Y < Geometry[m].rows - 1
              THEN n.v.Y = v.Y + 1 /\ Grid(n) = Grid(s)
              ELSE n.v.Y = v.Y /\ Grid(n) = ScrolledGrid(m, Grid(s))
    BY <2>3, CursorDownFacts
  <2>5. Within(s, CursorDown(z))
    BY <2>3, <2>4 DEF Within
  <2> QED BY <1>1, <1>3, <2>2, <2>4, <2>5 DEF Ends
<1> QED BY <1>1, <1>2, <1>3

LEMMA VDU_8Facts ==
  ASSUME NEW s, Ready(s), Good(s.v), ~(s.v.X = 0 /\ s.v.Y = 0)
  PROVE  LET n == VDU_8(s)  m == s.v.MODE IN
         /\ Ends(s, n) /\ n.v.MODE = m /\ n.ram = s.ram /\ Grid(n) = Grid(s)
         /\ n.v.X < Geometry[m].cols
         /\ IF s.v.X > 0 THEN n.v.X = s.v.X - 1 /\ n.v.Y = s.v.Y
                         ELSE n.v.X = Geometry[m].cols - 1 /\ n.v.Y = s.v.Y - 1 /\ s.v.Y > 0
<1> DEFINE v == s.v  m == s.v.MODE
<1>1. /\ s \in StateType /\ v \in VarsType /\ m \in Modes /\ v.X \in 0..Geometry[m].cols
      /\ v.Y \in 0..Geometry[m].rows-1 /\ Geometry[m].cols \in Nat /\ Geometry[m].cols > 0
      /\ v.X \in Int /\ v.Y \in Int /\ v.MEM \in Cells(m)
  BY ReadyFacts
<1>2. CASE v.X # 0
  <2>1. v.X - 1 \in 0..Geometry[m].cols /\ v.X > 0 /\ v.X - 1 < Geometry[m].cols
    BY <1>1, <1>2
  <2>2. v.CRTC_CUR - 1 = v.MEM + Place(m, v.Y, v.X - 1) /\ ~(v.CRTC_CUR - 1 < Base(m))
    <3>1. v.CRTC_CUR = v.MEM + Place(m, v.Y, v.X) /\ v.MEM \in Int
      BY HereFacts DEF Good, Pointed, Ready, Here
    <3>2. Geometry[m].cols * v.Y \in Nat
      BY <1>1, RowFacts
    <3>3. v.MEM >= Base(m) /\ Base(m) \in Int
      BY <1>1, ModeFacts DEF Cells, Base
    <3> QED BY <1>1, <2>1, <3>1, <3>2, <3>3 DEF Place
  <2>3. [v EXCEPT !.X = @ - 1] = MovedTo(v, v.X - 1, v.Y)
    BY <1>1 DEF VarsType, MovedTo
  <2>4. VDU_8(s) = WithVars(s, CursorAt(MovedTo(v, v.X - 1, v.Y), v.CRTC_CUR - 1))
    BY <1>2, <2>2, <2>3 DEF VDU_8, WithVars
  <2>5. LET n == VDU_8(s) IN
        /\ Ends(s, n) /\ n.ram = s.ram /\ Grid(n) = Grid(s) /\ n.v.MODE = m
        /\ n.v.X = v.X - 1 /\ n.v.Y = v.Y
    BY <1>1, <2>1, <2>2, <2>4, CursorToFacts
  <2> QED BY <2>1, <2>5
<1>3. CASE v.X = 0
  <2> DEFINE z == [s EXCEPT !.v.X = Geometry[m].cols - 1]
             x == Geometry[m].cols - 1
  <2>1. z = WithVars(s, MovedTo(v, x, v.Y))
    BY <1>1 DEF StateType, VarsType, MovedTo, WithVars
  <2>2. VDU_8(s) = CursorUp(z)
    BY <1>3 DEF VDU_8, WithVars
  <2>3. x \in 0..Geometry[m].cols /\ x < Geometry[m].cols /\ v.Y # 0 /\ v.Y > 0 /\ ~(v.X > 0)
    BY <1>1, <1>3
  <2> HIDE DEF z, x
  <2>4. Ready(z) /\ z.ram = s.ram /\ Grid(z) = Grid(s) /\ z.v.MODE = m /\ z.v.X = x /\ z.v.Y = v.Y
    BY <1>1, <2>1, <2>3, TurnFacts
  <2>5. LET n == CursorUp(z) IN
        /\ Ends(z, n) /\ n.ram = s.ram /\ Grid(n) = Grid(s) /\ n.v.MODE = m
        /\ n.v.X = x /\ n.v.Y = v.Y - 1
    BY <2>3, <2>4, CursorUpFacts
  <2>6. Ends(s, CursorUp(z))
    BY <2>4, <2>5 DEF Ends, Within
  <2> QED BY <2>2, <2>3, <2>5, <2>6 DEF x
<1> QED BY <1>2, <1>3

(* The glyphs that are drawn.                                              *)
LEMMA GlyphFacts ==
  ASSUME NEW m \in Modes
  PROVE  /\ Glyph(m, BLANK) = BLANK /\ BLANK \in Glyphs
         /\ \A c \in Chars : Glyph(m, c) \in Glyphs
<1>1. BLANK # 35 /\ BLANK # 95 /\ BLANK # 96
  BY BytesAssumption
<1> QED BY <1>1 DEF Glyph, Glyphs

LEMMA VDU_127Facts ==
  ASSUME NEW s, Ready(s), Good(s.v), ~(s.v.X = 0 /\ s.v.Y = 0)
  PROVE  LET n == VDU_127(s)  m == s.v.MODE IN
         /\ Ends(s, n) /\ n.v.MODE = m
         /\ Grid(n) = GridDrawn(Grid(s), n.v.Y, n.v.X, BLANK)
         /\ IF s.v.X > 0 THEN n.v.X = s.v.X - 1 /\ n.v.Y = s.v.Y
                         ELSE n.v.X = Geometry[m].cols - 1 /\ n.v.Y = s.v.Y - 1 /\ s.v.Y > 0
<1> DEFINE l == VDU_8(s)  m == s.v.MODE
<1> HIDE DEF l
<1>1. /\ Ends(s, l) /\ l.v.MODE = m /\ l.ram = s.ram /\ Grid(l) = Grid(s)
      /\ l.v.X < Geometry[m].cols
      /\ IF s.v.X > 0 THEN l.v.X = s.v.X - 1 /\ l.v.Y = s.v.Y
                      ELSE l.v.X = Geometry[m].cols - 1 /\ l.v.Y = s.v.Y - 1 /\ s.v.Y > 0
  BY VDU_8Facts DEF l
<1>2. m \in Modes
  BY ReadyFacts
<1>3. LET n == OutChar(l, BLANK) IN
      /\ Ready(n) /\ n.v = l.v /\ Within(l, n)
      /\ Grid(n) = GridDrawn(Grid(l), l.v.Y, l.v.X, BLANK)
  BY <1>1, <1>2, GlyphFacts, OutCharFacts DEF Ends
<1> QED BY <1>1, <1>3 DEF VDU_127, l, Ends, Within

(* The screen is cleared, from any state: its cells are all blank.         *)
LEMMA VDU_12Facts ==
  ASSUME NEW s \in StateType
  PROVE  LET n == VDU_12(s)  m == s.v.MODE IN
         /\ Ends(s, n) /\ n.v.MODE = m /\ n.v.X = 0 /\ n.v.Y = 0
         /\ Grid(n) = [row \in 0..Geometry[m].rows-1 |-> Row0(m)]
<1> DEFINE m == s.v.MODE
           v == [StartAt(s.v, Base(m)) EXCEPT !.X = 0, !.Y = 0]
           r == [a \in DOMAIN s.ram |-> IF a \in Cells(m) THEN BLANK ELSE s.ram[a]]
           n == [v |-> CursorAt(v, Base(m)), ram |-> r]
<1>1. /\ m \in Modes /\ s.v \in VarsType /\ s.ram \in Mem
      /\ Geometry[m].cols \in Nat /\ Geometry[m].cols > 0
      /\ Geometry[m].rows \in Nat /\ Geometry[m].rows > 0
  BY ModeFacts DEF StateType, VarsType
<1>2. Base(m) \in Cells(m) /\ Base(m) \in Int
  BY <1>1, ModeFacts DEF Cells, Base
<1>3. Inside(v) /\ v.MODE = m /\ v.MEM = Base(m) /\ v.X = 0 /\ v.Y = 0
  <2>1. Div8(m, Base(m)) \in Int
    BY <1>1, <1>2, AddressFacts
  <2>2. /\ v \in VarsType /\ v.MODE = m /\ v.MEM = Base(m) /\ v.X = 0 /\ v.Y = 0
        /\ v.R12 = Div8(m, Base(m))
    <3> DEFINE u == StartAt(s.v, Base(m))
    <3>1. u \in VarsType /\ u.MODE = m /\ u.MEM = Base(m) /\ u.R12 = Div8(m, Base(m))
      BY <1>1, <1>2, <2>1 DEF StartAt, VarsType
    <3>2. v = MovedTo(u, 0, 0)
      BY DEF MovedTo
    <3> HIDE DEF u, v
    <3> QED BY <3>1, <3>2, MovedType
  <2>3. 0 \in 0..Geometry[m].cols /\ 0 \in 0..Geometry[m].rows-1
    BY <1>1
  <2> HIDE DEF v
  <2> QED BY <1>2, <2>2, <2>3 DEF Inside
<1>4. VDU_12(s) = n
  BY <1>3 DEF VDU_12
<1> HIDE DEF v
<1>5. Base(m) = Here(v)
  BY <1>1, <1>2, <1>3 DEF Here, Place
<1>6. /\ Good(CursorAt(v, Base(m))) /\ CursorAt(v, Base(m)).MODE = m /\ CursorAt(v, Base(m)).MEM = Base(m)
      /\ CursorAt(v, Base(m)).X = 0 /\ CursorAt(v, Base(m)).Y = 0
  BY <1>3, <1>5, CursorAtFacts
<1>7. CursorAt(v, Base(m)) \in VarsType
  BY <1>6 DEF Good, Inside
<1>8. r \in Mem /\ \A a \in 0..2*END : r[a] # s.ram[a] => a \in Cells(m)
  <2>1. BLANK \in Glyphs
    BY DEF Glyphs
  <2> QED BY <1>1, <2>1 DEF Mem
<1>9. \A k \in 0..Geometry[m].size-1 : r[Wrap(m, Base(m) + k)] = BLANK
  <2> SUFFICES ASSUME NEW k \in 0..Geometry[m].size-1 PROVE r[Wrap(m, Base(m) + k)] = BLANK
    OBVIOUS
  <2>1. Wrap(m, Base(m) + k) \in Cells(m) /\ Wrap(m, Base(m) + k) \in 0..2*END
    BY <1>1, <1>2, CellFacts
  <2> QED BY <1>1, <2>1 DEF Mem
<1> HIDE DEF r
<1>10. GridOf(m, Base(m), r) = [row \in 0..Geometry[m].rows-1 |-> Row0(m)]
  <2>1. \A row \in 0..Geometry[m].rows-1, c \in 0..Geometry[m].cols-1 :
          r[Wrap(m, Base(m) + Place(m, row, c))] = BLANK
    BY <1>1, <1>9, PlaceFacts
  <2> QED BY <2>1 DEF GridOf, Row0
<1>11. n \in StateType /\ n.v = CursorAt(v, Base(m)) /\ n.ram = r
  BY <1>7, <1>8 DEF StateType
<1> HIDE DEF n
<1>12. Ends(s, n) /\ Grid(n) = [row \in 0..Geometry[m].rows-1 |-> Row0(m)]
  BY <1>6, <1>8, <1>10, <1>11 DEF Ends, Ready, Good, Within, Grid
<1> QED BY <1>4, <1>6, <1>11, <1>12

-----------------------------------------------------------------------------
(* What the screen shows of a routine, from s to n: the steps of module    *)
(* TextScreen.                                                             *)

Feeds(s, n, G) ==
  IF s.v.Y < Geometry[s.v.MODE].rows - 1
    THEN n.v.Y = s.v.Y + 1 /\ Grid(n) = G
    ELSE n.v.Y = s.v.Y /\ Grid(n) = ScrolledGrid(s.v.MODE, Grid(s))

ShowsGlyph(s, n) ==
  /\ n.v.MODE = s.v.MODE /\ s.v.X < Geometry[s.v.MODE].cols
  /\ n.v.X = s.v.X + 1 /\ n.v.Y = s.v.Y
  /\ \E g \in Glyphs : Grid(n) = GridDrawn(Grid(s), s.v.Y, s.v.X, g)

ShowsNext(s, n) ==
  /\ n.v.MODE = s.v.MODE /\ s.v.X = Geometry[s.v.MODE].cols /\ n.v.X = 0
  /\ \E g \in Glyphs : Feeds(s, n, GridDrawn(Grid(s), s.v.Y + 1, 0, g))

GoesRight(s, n) ==
  /\ n.v.MODE = s.v.MODE /\ s.v.X < Geometry[s.v.MODE].cols
  /\ n.v.X = s.v.X + 1 /\ n.v.Y = s.v.Y /\ Grid(n) = Grid(s)

GoesNext(s, n) ==
  /\ n.v.MODE = s.v.MODE /\ s.v.X = Geometry[s.v.MODE].cols /\ n.v.X = 0
  /\ Feeds(s, n, Grid(s))

GoesDown(s, n) == n.v.MODE = s.v.MODE /\ n.v.X = s.v.X /\ Feeds(s, n, Grid(s))

GoesUp(s, n) ==
  /\ n.v.MODE = s.v.MODE /\ s.v.Y > 0 /\ n.v.X = s.v.X /\ n.v.Y = s.v.Y - 1
  /\ Grid(n) = Grid(s)

GoesBack(s, n) ==
  /\ n.v.MODE = s.v.MODE
  /\ IF s.v.X > 0 THEN n.v.X = s.v.X - 1 /\ n.v.Y = s.v.Y
                  ELSE n.v.X = Geometry[s.v.MODE].cols - 1 /\ n.v.Y = s.v.Y - 1 /\ s.v.Y > 0

GoesLeft(s, n) == GoesBack(s, n) /\ Grid(n) = Grid(s)
Deletes(s, n) == GoesBack(s, n) /\ Grid(n) = GridDrawn(Grid(s), n.v.Y, n.v.X, BLANK)

Jumps(s, n) ==
  /\ n.v.MODE = s.v.MODE /\ Grid(n) = Grid(s)
  /\ n.v.X \in 0..Geometry[s.v.MODE].cols-1 /\ n.v.Y \in 0..Geometry[s.v.MODE].rows-1

Clears(s, n) ==
  /\ n.v.MODE \in Modes /\ n.v.X = 0 /\ n.v.Y = 0
  /\ Grid(n) = [row \in 0..Geometry[n.v.MODE].rows-1 |-> Row0(n.v.MODE)]

Shows(s, n) ==
  \/ ShowsGlyph(s, n) \/ ShowsNext(s, n) \/ GoesRight(s, n) \/ GoesNext(s, n) \/ GoesDown(s, n)
  \/ GoesUp(s, n) \/ GoesLeft(s, n) \/ Deletes(s, n) \/ Jumps(s, n) \/ Clears(s, n) \/ n = s

(* A printing character: drawn, and the cursor moves on.                   *)
LEMMA CharFacts ==
  ASSUME NEW s, Ready(s), Good(s.v), NEW c \in Chars
  PROVE  LET n == VDU_9(OutChar(s, c)) IN Ends(s, n) /\ Shows(s, n)
<1> DEFINE m == s.v.MODE
           g == Glyph(m, c)
           o == OutChar(s, c)
           n == VDU_9(o)
<1>1. m \in Modes /\ s.v.X \in 0..Geometry[m].cols /\ Geometry[m].cols \in Nat
      /\ s.v.Y \in 0..Geometry[m].rows-1 /\ Geometry[m].rows \in Nat
  BY ReadyFacts
<1>2. g \in Glyphs
  BY <1>1, GlyphFacts
<1> HIDE DEF g, o
<1>3. /\ Ready(o) /\ o.v = s.v /\ Within(s, o)
      /\ s.v.X < Geometry[m].cols => Grid(o) = GridDrawn(Grid(s), s.v.Y, s.v.X, g)
      /\ s.v.X = Geometry[m].cols /\ s.v.Y < Geometry[m].rows - 1
           => Grid(o) = GridDrawn(Grid(s), s.v.Y + 1, 0, g)
      /\ s.v.X = Geometry[m].cols /\ s.v.Y = Geometry[m].rows - 1
           => ScrolledGrid(m, Grid(o)) = ScrolledGrid(m, Grid(s))
  BY <1>2, OutCharFacts DEF g, o
<1> HIDE DEF n
<1>4. /\ Ends(o, n) /\ n.v.MODE = m
      /\ s.v.X < Geometry[m].cols => n.v.X = s.v.X + 1 /\ n.v.Y = s.v.Y /\ Grid(n) = Grid(o)
      /\ s.v.X = Geometry[m].cols =>
           /\ n.v.X = 0
           /\ IF s.v.Y < Geometry[m].rows - 1
                THEN n.v.Y = s.v.Y + 1 /\ Grid(n) = Grid(o)
                ELSE n.v.Y = s.v.Y /\ Grid(n) = ScrolledGrid(m, Grid(o))
  BY <1>3, VDU_9Facts DEF n
<1>5. Ends(s, n)
  BY <1>3, <1>4 DEF Ends, Within
<1>6. CASE s.v.X < Geometry[m].cols
  <2>1. ShowsGlyph(s, n)
    BY <1>2, <1>3, <1>4, <1>6 DEF ShowsGlyph
  <2> QED BY <1>5, <2>1 DEF Shows, n, o
<1>7. CASE s.v.X = Geometry[m].cols
  <2>1. Feeds(s, n, GridDrawn(Grid(s), s.v.Y + 1, 0, g))
    <3>1. CASE s.v.Y < Geometry[m].rows - 1
      BY <1>3, <1>4, <1>7, <3>1 DEF Feeds
    <3>2. CASE ~(s.v.Y < Geometry[m].rows - 1)
      <4>1. s.v.Y = Geometry[m].rows - 1
        BY <1>1, <3>2
      <4> QED BY <1>3, <1>4, <1>7, <3>2, <4>1 DEF Feeds
    <3> QED BY <3>1, <3>2
  <2>2. ShowsNext(s, n)
    BY <1>2, <1>4, <1>7, <2>1 DEF ShowsNext
  <2> QED BY <1>5, <2>2 DEF Shows, n, o
<1> QED BY <1>1, <1>6, <1>7

(* The parameters and the place from which a sequence is executed.         *)
Legal(c, s, p) ==
  /\ c = 11 => s.v.Y # 0
  /\ c \in {8, 127} => ~(s.v.X = 0 /\ s.v.Y = 0)
  /\ c = 22 => p[1] \in Modes
  /\ c = 31 => p[1] \in 0..Geometry[s.v.MODE].cols-1 /\ p[2] \in 0..Geometry[s.v.MODE].rows-1

LEMMA ModeTo ==
  ASSUME NEW s \in StateType, NEW mode \in Modes
  PROVE  LET z == [s EXCEPT !.v.MODE = mode] IN
         z \in StateType /\ z.v.MODE = mode /\ z.ram = s.ram
  BY DEF StateType, VarsType

LEMMA MoveFacts ==
  ASSUME NEW s, Ready(s), NEW x \in 0..Geometry[s.v.MODE].cols-1, NEW y \in 0..Geometry[s.v.MODE].rows-1
  PROVE  LET n == VDU_31(s, x, y) IN Ends(s, n) /\ Shows(s, n)
<1> DEFINE n == VDU_31(s, x, y)
<1>1. x < Geometry[s.v.MODE].cols /\ y < Geometry[s.v.MODE].rows /\ x \in 0..Geometry[s.v.MODE].cols
  BY ReadyFacts
<1>2. n = WithVars(s, Placed(MovedTo(s.v, x, y)))
  BY <1>1 DEF VDU_31, WithVars, MovedTo
<1> HIDE DEF n
<1>3. Ends(s, n) /\ Grid(n) = Grid(s) /\ n.v.MODE = s.v.MODE /\ n.v.X = x /\ n.v.Y = y
  BY <1>1, <1>2, PlacedToFacts
<1> QED BY <1>3 DEF Jumps, Shows, n

LEMMA ExecutedFacts ==
  ASSUME NEW s, Ready(s), Good(s.v), NEW c \in Int, NEW p, Legal(c, s, p)
  PROVE  LET n == Executed(c, s, p) IN Ends(s, n) /\ Shows(s, n)
<1> DEFINE n == Executed(c, s, p)
           m == s.v.MODE
<1>0. /\ s \in StateType /\ m \in Modes /\ s.v.X \in 0..Geometry[m].cols /\ s.v.Y \in 0..Geometry[m].rows-1
      /\ Geometry[m].cols \in Nat /\ Geometry[m].cols > 0
      /\ Geometry[m].rows \in Nat /\ Geometry[m].rows > 0 /\ s.v \in VarsType
      /\ s.v.X \in Int /\ s.v.Y \in Int
  BY ReadyFacts
<1>z. 0 \in 0..Geometry[m].cols /\ 0 \in 0..Geometry[m].cols-1 /\ 0 \in 0..Geometry[m].rows-1
  BY <1>0
<1>1. CASE c = 8
  <2>1. n = VDU_8(s)
    BY <1>1 DEF Executed
  <2>2. ~(s.v.X = 0 /\ s.v.Y = 0)
    BY <1>1 DEF Legal
  <2> HIDE DEF n
  <2>3. Ends(s, n) /\ GoesLeft(s, n)
    BY <2>1, <2>2, VDU_8Facts DEF GoesLeft, GoesBack
  <2> QED BY <2>3 DEF Shows, n
<1>2. CASE c = 9
  <2>1. n = VDU_9(s)
    BY <1>2 DEF Executed
  <2> HIDE DEF n
  <2>2. Ends(s, n) /\ (GoesRight(s, n) \/ GoesNext(s, n))
    BY <1>0, <2>1, VDU_9Facts DEF GoesRight, GoesNext, Feeds
  <2> QED BY <2>2 DEF Shows, n
<1>3. CASE c = 10
  <2>1. n = CursorDown(s)
    BY <1>3 DEF Executed
  <2> HIDE DEF n
  <2>2. Ends(s, n) /\ GoesDown(s, n)
    BY <2>1, CursorDownFacts DEF Ends, GoesDown, Feeds
  <2> QED BY <2>2 DEF Shows, n
<1>4. CASE c = 11
  <2>1. n = CursorUp(s) /\ s.v.Y # 0
    BY <1>4 DEF Executed, Legal
  <2> HIDE DEF n
  <2>2. Ends(s, n) /\ GoesUp(s, n)
    BY <1>0, <2>1, CursorUpFacts DEF GoesUp
  <2> QED BY <2>2 DEF Shows, n
<1>5. CASE c = 12
  <2>1. n = VDU_12(s)
    BY <1>5 DEF Executed
  <2> HIDE DEF n
  <2>2. Ends(s, n) /\ Clears(s, n)
    BY <1>0, <2>1, VDU_12Facts DEF Clears
  <2> QED BY <2>2 DEF Shows, n
<1>6. CASE c = 13
  <2>1. n = VDU_13(s)
    BY <1>6 DEF Executed
  <2>2. [s.v EXCEPT !.X = 0] = MovedTo(s.v, 0, s.v.Y)
    BY <1>0 DEF VarsType, MovedTo
  <2>3. n = WithVars(s, Placed(MovedTo(s.v, 0, s.v.Y)))
    BY <2>1, <2>2 DEF VDU_13, WithVars
  <2> HIDE DEF n
  <2>4. Ends(s, n) /\ Grid(n) = Grid(s) /\ n.v.MODE = m /\ n.v.X = 0 /\ n.v.Y = s.v.Y
    BY <1>0, <1>z, <2>3, PlacedToFacts
  <2>5. Jumps(s, n)
    BY <1>0, <1>z, <2>4 DEF Jumps
  <2> QED BY <2>4, <2>5 DEF Shows, n
<1>7. CASE c = 22
  <2> DEFINE z == [s EXCEPT !.v.MODE = p[1]]
  <2>1. n = VDU_12(z) /\ p[1] \in Modes
    BY <1>7 DEF Executed, VDU_22, Legal
  <2>2. z \in StateType /\ z.v.MODE = p[1] /\ z.ram = s.ram
    BY <1>0, <2>1, ModeTo
  <2> HIDE DEF n, z
  <2>3. Ends(z, n) /\ Clears(s, n)
    BY <2>1, <2>2, VDU_12Facts DEF Clears
  <2>4. Ends(s, n)
    BY <2>2, <2>3 DEF Ends, Within
  <2> QED BY <2>3, <2>4 DEF Shows, n
<1>8. CASE c = 26
  <2>1. n = WithVars(s, CursorAt(MovedTo(s.v, 0, 0), s.v.MEM))
    BY <1>8 DEF Executed, VDU_26, WithVars, MovedTo
  <2>2. s.v.MEM = s.v.MEM + Place(m, 0, 0)
    BY <1>0, HereFacts DEF Place, Ready
  <2> HIDE DEF n
  <2>3. Ends(s, n) /\ Grid(n) = Grid(s) /\ n.v.MODE = m /\ n.v.X = 0 /\ n.v.Y = 0
    BY <1>z, <2>1, <2>2, CursorToFacts
  <2>4. Jumps(s, n)
    BY <1>z, <2>3 DEF Jumps
  <2> QED BY <2>3, <2>4 DEF Shows, n
<1>9. CASE c = 30
  <2>1. n = VDU_31(s, 0, 0)
    BY <1>9 DEF Executed, VDU_30
  <2> QED BY <1>z, <2>1, MoveFacts
<1>10. CASE c = 31
  <2>1. /\ n = VDU_31(s, p[1], p[2])
        /\ p[1] \in 0..Geometry[m].cols-1 /\ p[2] \in 0..Geometry[m].rows-1
    BY <1>10 DEF Executed, Legal
  <2> QED BY <2>1, MoveFacts
<1>11. CASE c = 127
  <2>1. n = VDU_127(s) /\ ~(s.v.X = 0 /\ s.v.Y = 0)
    BY <1>11 DEF Executed, Legal
  <2> HIDE DEF n
  <2>2. Ends(s, n) /\ Deletes(s, n)
    BY <2>1, VDU_127Facts DEF Deletes, GoesBack
  <2> QED BY <2>2 DEF Shows, n
<1>12. CASE c \notin {8, 9, 10, 11, 12, 13, 22, 26, 30, 31, 127}
  <2>1. n = s
    BY <1>12 DEF Executed
  <2>2. Ends(s, s)
    BY DEF Ends, Within
  <2> QED BY <2>1, <2>2 DEF Shows
<1> QED BY <1>1, <1>2, <1>3, <1>4, <1>5, <1>6, <1>7, <1>8, <1>9, <1>10, <1>11, <1>12

-----------------------------------------------------------------------------
(* The invariant: the cursor and its addresses agree, and the parameters   *)
(* that wait are those of the sequence and name a column of the screen.    *)

QueueInv ==
  /\ exec \in {-1} \cup DOMAIN PARAMS /\ queue \in Seq(Parameters)
  /\ IF Waiting THEN Len(queue) < PARAMS[exec] ELSE queue = <<>>
  /\ exec = 31 /\ queue # <<>> => queue[1] \in 0..Geometry[t.MODE].cols-1

TextInv == Good(t) /\ ram \in Mem /\ QueueInv

LEMMA NowFacts ==
  ASSUME TextInv PROVE Ready(Now) /\ Good(Now.v) /\ Now.v = t /\ Now.ram = ram
  BY DEF TextInv, Now, Ready, Good, Inside, StateType

LEMMA BecomesFacts ==
  ASSUME TextInv, NEW n, Ends(Now, n), Becomes(n)
  PROVE  /\ Good(t)' /\ (ram \in Mem)' /\ t' = n.v /\ ram' = n.ram
         /\ \A a \in DOMAIN ram : ram'[a] # ram[a] => a \in Cells(t'.MODE)
<1>1. t' = n.v /\ ram' = n.ram /\ n \in StateType /\ Good(n.v)
  BY DEF Becomes, Ends, Ready
<1>2. \A a \in 0..2*END : n.ram[a] # ram[a] => a \in Cells(n.v.MODE)
  BY NowFacts DEF Ends, Within
<1>3. DOMAIN ram = 0..2*END
  BY DEF TextInv, Mem
<1>4. n.ram \in Mem
  BY <1>1 DEF StateType
<1>5. Good(t') /\ ram' \in Mem
  BY <1>1, <1>4
<1> QED BY <1>1, <1>2, <1>3, <1>5

(* A step leaves the text screen alone, or is a routine's.                 *)
Stays == UNCHANGED <<t, ram>>
Routine == \E n : Ends(Now, n) /\ Shows(Now, n) /\ Becomes(n)

LEMMA InitText == Init => TextInv
<1> SUFFICES ASSUME Init PROVE TextInv
  OBVIOUS
<1>1. PICK m \in Modes : t = ModeVars(m)
  BY DEF Init
<1>2. /\ Geometry[m].cols \in Nat /\ Geometry[m].cols > 0 /\ Geometry[m].rows \in Nat
      /\ Geometry[m].rows > 0 /\ Base(m) \in Int /\ Base(m) \in Cells(m)
  BY ModeFacts DEF Cells, Base
<1>3. Div8(m, Base(m)) \in Int
  BY <1>2, AddressFacts
<1>4. t \in VarsType
  BY <1>1, <1>2, <1>3 DEF ModeVars, VarsType
<1>5. /\ t.MODE = m /\ t.X = 0 /\ t.Y = 0 /\ t.MEM = Base(m) /\ t.CRTC_CUR = Base(m)
      /\ t.TOP_SCAN = Base(m) /\ t.R12 = Div8(m, Base(m)) /\ t.R14 = Div8(m, Base(m))
  BY <1>1 DEF ModeVars
<1>6. Inside(t)
  BY <1>2, <1>4, <1>5 DEF Inside
<1>7. Here(t) = Base(m)
  BY <1>2, <1>5 DEF Here, Place
<1>8. Wrap(m, Base(m)) = Base(m)
  BY <1>2, ModeFacts DEF Wrap, Cells, Base
<1>9. Good(t)
  BY <1>5, <1>6, <1>7, <1>8 DEF Good, Pointed
<1>10. ram \in Mem
  BY DEF Init, Mem, Glyphs
<1>11. QueueInv
  BY DEF Init, QueueInv, Waiting
<1> QED BY <1>9, <1>10, <1>11 DEF TextInv

LEMMA ParamFacts ==
  /\ -1 \notin DOMAIN PARAMS /\ DOMAIN PARAMS \subseteq Int
  /\ \A c \in DOMAIN PARAMS : PARAMS[c] \in Nat
  /\ \A c \in DOMAIN PARAMS : PARAMS[c] > 0 => c \notin {8, 9, 10, 11, 12, 13, 26, 30, 127}
  /\ 22 \in DOMAIN PARAMS => PARAMS[22] = 1
  /\ 31 \in DOMAIN PARAMS => PARAMS[31] = 2
<1>1. DOMAIN PARAMS \subseteq 0..127
  BY ParamsAssumption
<1>2. -1 \notin DOMAIN PARAMS /\ DOMAIN PARAMS \subseteq Int
  BY <1>1
<1>3. \A c \in DOMAIN PARAMS : PARAMS[c] > 0 => c \notin {8, 9, 10, 11, 12, 13, 26, 30, 127}
  BY ParamsAssumption
<1> QED BY <1>2, <1>3, ParamsAssumption

(* Every step, as long as no program moves up from the top row.            *)
LEMMA TextStep ==
  ASSUME UpAtTop = FALSE, TextInv, [Next]_vars
  PROVE  /\ TextInv' /\ (Stays \/ Routine)
         /\ \A a \in DOMAIN ram : ram'[a] # ram[a] => a \in Cells(t'.MODE)
         /\ Waiting /\ Waiting' => UNCHANGED <<t, ram>>
<1> DEFINE Goal == /\ TextInv' /\ (Stays \/ Routine)
                   /\ \A a \in DOMAIN ram : ram'[a] # ram[a] => a \in Cells(t'.MODE)
                   /\ Waiting /\ Waiting' => UNCHANGED <<t, ram>>
<1>a. Good(t) /\ ram \in Mem /\ QueueInv
  BY DEF TextInv
<1>b. ASSUME UNCHANGED <<t, ram>>, QueueInv' PROVE Goal
  BY <1>a, <1>b DEF TextInv, Stays
<1>c. ASSUME NEW n, Ends(Now, n), Shows(Now, n), Becomes(n), QueueInv', ~Waiting' PROVE Goal
  BY <1>c, BecomesFacts DEF TextInv, Routine
<1>d. ASSUME exec' = -1, queue' = <<>> PROVE QueueInv' /\ ~Waiting'
  BY <1>d DEF QueueInv, Waiting
<1>e. ASSUME ~Waiting PROVE queue = <<>> /\ exec = -1
  BY <1>a, <1>e DEF QueueInv, Waiting
<1>f. ASSUME Waiting PROVE exec \in DOMAIN PARAMS /\ Len(queue) < PARAMS[exec] /\ queue \in Seq(Parameters)
  BY <1>a, <1>f DEF QueueInv, Waiting
<1>g. t.MODE \in Modes /\ Geometry[t.MODE].cols \in Nat /\ Geometry[t.MODE].rows \in Nat
  BY <1>a, HereFacts, ModeFacts DEF Good
<1>h. \A c \in Parameters : c \in Nat
  BY BytesAssumption
<1>1. ASSUME NEW c \in Parameters, WriteParameter(c) PROVE Goal
  <2>1. /\ Waiting /\ Len(queue) + 1 < PARAMS[exec] /\ OnScreen(c, queue) /\ queue' = Append(queue, c)
        /\ UNCHANGED <<t, ram>> /\ exec' = exec
    BY <1>1 DEF WriteParameter
  <2>2. queue' \in Seq(Parameters) /\ Len(queue') = Len(queue) + 1 /\ Waiting'
    BY <1>f, <2>1 DEF Waiting
  <2>3. ASSUME exec = 31 PROVE queue'[1] \in 0..Geometry[t.MODE].cols-1
    <3>1. PARAMS[31] = 2 /\ Len(queue) = 0
      BY <1>f, <2>1, <2>3, ParamFacts
    <3>2. queue = <<>> /\ queue'[1] = c
      BY <1>f, <2>1, <3>1
    <3>3. c < Geometry[t.MODE].cols
      BY <2>1, <2>3, <3>2 DEF OnScreen
    <3> QED BY <3>2, <3>3, <1>g, <1>h
  <2>4. QueueInv'
    BY <1>f, <2>1, <2>2, <2>3 DEF QueueInv
  <2> QED BY <1>b, <2>1, <2>4
<1>2. ASSUME NEW c \in Parameters, WriteLast(c) PROVE Goal
  <2> DEFINE p == Append(queue, c)
             n == Executed(exec, Now, p)
  <2>1. /\ Waiting /\ Len(queue) + 1 = PARAMS[exec] /\ OnScreen(c, queue) /\ Becomes(n)
        /\ exec' = -1 /\ queue' = <<>>
    BY <1>2 DEF WriteLast
  <2>2. exec \in DOMAIN PARAMS /\ queue \in Seq(Parameters)
    BY <1>f, <2>1
  <2>3. exec \in Int /\ PARAMS[exec] > 0 /\ exec \notin {8, 11, 127}
    BY <2>1, <2>2, ParamFacts
  <2>4. ASSUME exec = 22 PROVE p[1] \in Modes
    <3>1. Len(queue) = 0
      BY <2>1, <2>2, <2>4, ParamFacts
    <3>2. p[1] = c
      BY <2>2, <3>1
    <3> QED BY <2>1, <2>4, <3>2 DEF OnScreen
  <2>5. ASSUME exec = 31
        PROVE  p[1] \in 0..Geometry[t.MODE].cols-1 /\ p[2] \in 0..Geometry[t.MODE].rows-1
    <3>0. Len(queue) + 1 = PARAMS[exec] /\ PARAMS[exec] = 2
      BY <2>1, <2>2, <2>5, ParamFacts
    <3>a. Len(queue) \in Nat
      BY <2>2
    <3>1. Len(queue) = 1
      BY <3>0, <3>a
    <3>2. p[1] = queue[1] /\ p[2] = c /\ queue # <<>>
      <4>1. 1 \in 1..Len(queue) /\ Len(queue) + 1 = 2 /\ queue # <<>>
        BY <2>2, <3>1
      <4> QED BY <2>2, <4>1, AppendProperties
    <3>3. c < Geometry[t.MODE].rows /\ c \in Nat
      BY <2>1, <2>5, <3>2, <1>h DEF OnScreen
    <3>4. queue[1] \in 0..Geometry[t.MODE].cols-1
      BY <1>a, <2>5, <3>2 DEF QueueInv
    <3> QED BY <3>2, <3>3, <3>4, <1>g
  <2> HIDE DEF p
  <2>6. Legal(exec, Now, p)
    BY <2>3, <2>4, <2>5, NowFacts DEF Legal
  <2>7. Ends(Now, n) /\ Shows(Now, n)
    BY <2>3, <2>6, NowFacts, ExecutedFacts
  <2> HIDE DEF n
  <2> QED BY <1>c, <1>d, <2>1, <2>7
<1>3. ASSUME NEW c \in DOMAIN PARAMS, WriteSequence(c) PROVE Goal
  <2>1. /\ ~Waiting /\ PARAMS[c] > 0 /\ exec' = c /\ UNCHANGED <<t, ram>> /\ queue' = <<>>
    BY <1>3, <1>e DEF WriteSequence
  <2>2. QueueInv'
    BY <2>1, ParamFacts DEF QueueInv
  <2> QED BY <1>b, <2>1, <2>2
<1>4. ASSUME NEW c \in DOMAIN PARAMS, WriteControl(c) PROVE Goal
  <2> DEFINE n == Executed(c, Now, <<>>)
  <2>1. ~Waiting /\ PARAMS[c] = 0 /\ Down(c) /\ Becomes(n) /\ UNCHANGED <<exec, queue>>
    BY <1>4 DEF WriteControl
  <2>2. c # 22 /\ c # 31 /\ c \in Int
    BY <2>1, ParamFacts
  <2>3. Legal(c, Now, <<>>)
    BY <2>1, <2>2, NowFacts DEF Legal, Down
  <2>4. Ends(Now, n) /\ Shows(Now, n)
    BY <2>2, <2>3, NowFacts, ExecutedFacts
  <2> HIDE DEF n
  <2> QED BY <1>c, <1>d, <1>e, <2>1, <2>4
<1>5. ASSUME NEW c \in Chars, WriteChar(c) PROVE Goal
  <2> DEFINE n == VDU_9(OutChar(Now, c))
  <2>1. ~Waiting /\ Becomes(n) /\ UNCHANGED <<exec, queue>>
    BY <1>5 DEF WriteChar
  <2>2. Ends(Now, n) /\ Shows(Now, n)
    BY NowFacts, CharFacts
  <2> HIDE DEF n
  <2> QED BY <1>c, <1>d, <1>e, <2>1, <2>2
<1>6. CASE Forget
  BY <1>6, <1>b, <1>d DEF Forget
<1>7. CASE UNCHANGED vars
  BY <1>7, <1>a, <1>b DEF vars, QueueInv, Waiting
<1>8. Goal
  BY <1>1, <1>2, <1>3, <1>4, <1>5, <1>6, <1>7 DEF Next
<1> QED BY <1>8

LEMMA TextKept == UpAtTop = FALSE => (TextInv /\ [Next]_vars => TextInv')
  BY TextStep

LEMMA Shown0 == UpAtTop = FALSE => (Spec => []TextInv)
<1> SUFFICES ASSUME UpAtTop = FALSE PROVE Spec => []TextInv
  OBVIOUS
<1>1. TextInv /\ [Next]_vars => TextInv'
  BY TextKept
<1> QED BY <1>1, InitText, PTL DEF Spec

(* The cursor that is shown and the cell drawn next are those of the       *)
(* cursor's column and row on the screen that is shown, and the screen     *)
(* starts in its memory, as long as no program moves up from the top row.  *)
THEOREM CursorCorrect == ASSUME UpAtTop = FALSE PROVE Spec => []CursorInv
<1>1. TextInv => CursorInv
  <2> SUFFICES ASSUME TextInv PROVE CursorInv
    OBVIOUS
  <2>1. Inside(t) /\ Pointed(t) /\ ram \in Mem /\ QueueInv
    BY DEF TextInv, Good
  <2>2. TypeOK
    BY <2>1, HereFacts DEF TypeOK, Inside, QueueInv, Mem
  <2>3. t.MEM + t.Y * Geometry[t.MODE].cols + t.X = Here(t)
    BY <2>1, HereFacts
  <2>4. CursorShown
    BY <2>1, <2>3 DEF CursorShown, Inside, Pointed
  <2> QED BY <2>2, <2>4 DEF CursorInv
<1> QED BY <1>1, Shown0, PTL

(* What is drawn next is in the memory of the screen, as vdu.c:689 means   *)
(* it, unless a program has moved up from the top row.                     *)
THEOREM ScanCorrect == ASSUME UpAtTop = FALSE PROVE Spec => []ScanInScreen
<1>1. TextInv => ScanInScreen
  BY HereFacts DEF TextInv, Good, Pointed, ScanInScreen
<1> QED BY <1>1, Shown0, PTL

(* Nothing outside the screen's memory is written, and a sequence draws    *)
(* nothing before its last byte has come.                                  *)
THEOREM DrawsCorrect == ASSUME UpAtTop = FALSE PROVE Spec => DrawsInScreen
<1> DEFINE D == /\ \A a \in DOMAIN ram : ram'[a] # ram[a] => a \in Cells(t'.MODE)
                /\ (Waiting /\ Waiting') => UNCHANGED <<t, ram>>
<1>1. TextInv /\ [Next]_vars => D
  BY TextStep
<1>2. TextInv /\ [Next]_vars => [D]_vars
  BY <1>1
<1> QED BY <1>2, Shown0, PTL DEF Spec, DrawsInScreen

-----------------------------------------------------------------------------
(* Module VduText implements module TextScreen.                            *)

LEMMA ShownFacts == Good(t) => Shown = GridOf(t.MODE, t.MEM, ram)
<1> SUFFICES ASSUME Good(t) PROVE Shown = GridOf(t.MODE, t.MEM, ram)
  OBVIOUS
<1>1. t.MODE \in Modes /\ t.MEM \in Int
  BY HereFacts DEF Good
<1>2. \A row \in 0..Geometry[t.MODE].rows-1, c \in 0..Geometry[t.MODE].cols-1 :
        t.MEM + row * Geometry[t.MODE].cols + c = t.MEM + Place(t.MODE, row, c)
  <2> SUFFICES ASSUME NEW row \in 0..Geometry[t.MODE].rows-1, NEW c \in 0..Geometry[t.MODE].cols-1
               PROVE  t.MEM + row * Geometry[t.MODE].cols + c = t.MEM + Place(t.MODE, row, c)
    OBVIOUS
  <2>1. Geometry[t.MODE].cols * row \in Nat /\ row * Geometry[t.MODE].cols = Geometry[t.MODE].cols * row
        /\ c \in Int
    BY <1>1, RowFacts, ModeFacts
  <2> QED BY <1>1, <2>1 DEF Place
<1> QED BY <1>2 DEF Shown, GridOf

(* What the variables of the text screen are, in a state and its           *)
(* successor.                                                              *)
LEMMA ScreenFacts ==
  ASSUME TextInv, TextInv', NEW n, Ends(Now, n), Becomes(n)
  PROVE  /\ Shown = Grid(Now) /\ Shown' = Grid(n) /\ t = Now.v /\ t' = n.v
<1>1. Shown = GridOf(t.MODE, t.MEM, ram) /\ Shown' = GridOf(t'.MODE, t'.MEM, ram')
  <2>1. Good(t) /\ Good(t)'
    BY DEF TextInv
  <2>2. (Good(t) => Shown = GridOf(t.MODE, t.MEM, ram))'
    BY ShownFacts, PTL
  <2> QED BY <2>1, <2>2, ShownFacts
<1> QED BY <1>1, NowFacts DEF Grid, Becomes

LEMMA BackStep ==
  ASSUME TextInv, TextInv', NEW n, Ends(Now, n), Becomes(n)
  PROVE  (GoesLeft(Now, n) => Screen!Left) /\ (Deletes(Now, n) => Screen!Delete)
<1>1. Shown = Grid(Now) /\ Shown' = Grid(n) /\ t = Now.v /\ t' = n.v
  BY ScreenFacts
<1>2. Shape(t.MODE).cols = Geometry[t.MODE].cols
  BY DEF Shape
<1>3. GoesBack(Now, n) => Screen!Back /\ Shape(t'.MODE) = Shape(t.MODE)
  BY <1>1, <1>2 DEF GoesBack, Screen!Back
<1>4. GoesLeft(Now, n) => Screen!Left
  BY <1>1, <1>3 DEF GoesLeft, Screen!Left
<1>5. Deletes(Now, n) => Screen!Delete
  BY <1>1, <1>3 DEF Deletes, GridDrawn, Screen!Delete
<1> QED BY <1>4, <1>5

LEMMA ScreenStep ==
  ASSUME TextInv, TextInv', NEW n, Ends(Now, n), Shows(Now, n), Becomes(n)
  PROVE  [Screen!Next]_(Screen!vars)
<1> DEFINE m == t.MODE  G == Shown
<1>1. Shown = Grid(Now) /\ Shown' = Grid(n) /\ t = Now.v /\ t' = n.v
  BY ScreenFacts
<1>2. /\ m \in Modes /\ t.X \in 0..Geometry[m].cols /\ t.Y \in 0..Geometry[m].rows-1
      /\ t'.MODE \in Modes
  BY HereFacts DEF TextInv, Good, Inside
<1>3. Shape(m).cols = Geometry[m].cols /\ Shape(m).rows = Geometry[m].rows
  BY DEF Shape
<1>4. Screen!Scrolled = ScrolledGrid(m, Shown)
  BY <1>3 DEF Screen!Scrolled, Screen!BlankRow, ScrolledGrid, Row0
<1>5. \A g : Feeds(Now, n, g) => Screen!Feed(g)
  BY <1>1, <1>3, <1>4 DEF Feeds, Screen!Feed
<1>6. CASE ShowsGlyph(Now, n)
  <2>1. PICK g \in Glyphs : Shown' = [Shown EXCEPT ![t.Y][t.X] = g]
    BY <1>1, <1>6 DEF ShowsGlyph, GridDrawn
  <2>2. t'.MODE = m /\ t.X < Geometry[m].cols /\ t'.X = t.X + 1 /\ t'.Y = t.Y
    BY <1>1, <1>6 DEF ShowsGlyph
  <2>3. Screen!Show(g)
    BY <1>3, <2>1, <2>2 DEF Screen!Show
  <2> QED BY <2>3 DEF Screen!Next
<1>7. CASE ShowsNext(Now, n)
  <2>1. t'.MODE = m /\ t.X = Geometry[m].cols /\ t'.X = 0
    BY <1>1, <1>7 DEF ShowsNext
  <2>2. PICK g \in Glyphs : Feeds(Now, n, GridDrawn(Grid(Now), t.Y + 1, 0, g))
    BY <1>1, <1>7 DEF ShowsNext
  <2>3. Screen!Feed(IF t.Y < Shape(m).rows - 1 THEN [Shown EXCEPT ![t.Y+1][0] = g] ELSE Shown)
    <3>1. CASE t.Y < Shape(m).rows - 1
      BY <1>1, <1>3, <2>2, <3>1 DEF Feeds, Screen!Feed, GridDrawn
    <3>2. CASE ~(t.Y < Shape(m).rows - 1)
      BY <1>1, <1>3, <1>4, <2>2, <3>2 DEF Feeds, Screen!Feed
    <3> QED BY <3>1, <3>2
  <2>4. Screen!ShowPastEnd(g)
    BY <1>3, <2>1, <2>3 DEF Screen!ShowPastEnd
  <2> QED BY <2>4 DEF Screen!Next
<1>8. CASE GoesRight(Now, n)
  <2>1. Screen!Right
    BY <1>1, <1>3, <1>8 DEF GoesRight, Screen!Right
  <2> QED BY <2>1 DEF Screen!Next
<1>9. CASE GoesNext(Now, n)
  <2>1. Screen!RightPastEnd
    BY <1>1, <1>3, <1>5, <1>9 DEF GoesNext, Screen!RightPastEnd
  <2> QED BY <2>1 DEF Screen!Next
<1>10. CASE GoesDown(Now, n)
  <2>1. Screen!Down
    BY <1>1, <1>5, <1>10 DEF GoesDown, Screen!Down
  <2> QED BY <2>1 DEF Screen!Next
<1>11. CASE GoesUp(Now, n)
  <2>1. Screen!Up
    BY <1>1, <1>11 DEF GoesUp, Screen!Up
  <2> QED BY <2>1 DEF Screen!Next
<1>12. CASE GoesLeft(Now, n) \/ Deletes(Now, n)
  BY <1>12, BackStep DEF Screen!Next
<1>13. CASE Jumps(Now, n)
  <2>1. /\ t'.X \in 0..Shape(m).cols-1 /\ t'.Y \in 0..Shape(m).rows-1
        /\ Screen!Move(t'.X, t'.Y)
    BY <1>1, <1>3, <1>13 DEF Jumps, Screen!Move
  <2> QED BY <2>1 DEF Screen!Next
<1>14. CASE Clears(Now, n)
  <2>1. Shown' = Screen!BlankGrid(Shape(t'.MODE)) /\ t'.X = 0 /\ t'.Y = 0
    BY <1>1, <1>14 DEF Clears, Row0, Shape, Screen!BlankGrid, Screen!BlankRow
  <2>2. Screen!Clear(Shape(t'.MODE)) /\ Shape(t'.MODE) \in {Shape(k) : k \in Modes}
    BY <1>2, <2>1 DEF Screen!Clear
  <2> QED BY <2>2 DEF Screen!Next
<1>15. CASE n = Now
  BY <1>1, <1>15 DEF Screen!vars
<1> QED BY <1>6, <1>7, <1>8, <1>9, <1>10, <1>11, <1>12, <1>13, <1>14, <1>15 DEF Shows

(* The two bytes that go back.                                             *)
LEMMA BackBytes ==
  UpAtTop = FALSE =>
    (TextInv /\ TextInv' =>
       (WriteControl(8) => Screen!Left) /\ (WriteControl(127) => Screen!Delete))
<1> SUFFICES ASSUME UpAtTop = FALSE, TextInv, TextInv'
             PROVE  (WriteControl(8) => Screen!Left) /\ (WriteControl(127) => Screen!Delete)
  OBVIOUS
<1>1. ASSUME WriteControl(8) PROVE Screen!Left
  <2> DEFINE n == VDU_8(Now)
  <2>1. Becomes(n) /\ ~(Now.v.X = 0 /\ Now.v.Y = 0)
    BY <1>1, NowFacts DEF WriteControl, Executed, Down
  <2>2. Ends(Now, n) /\ GoesLeft(Now, n)
    BY <2>1, NowFacts, VDU_8Facts DEF GoesLeft, GoesBack
  <2> HIDE DEF n
  <2> QED BY <2>1, <2>2, BackStep
<1>2. ASSUME WriteControl(127) PROVE Screen!Delete
  <2> DEFINE n == VDU_127(Now)
  <2>1. Becomes(n) /\ ~(Now.v.X = 0 /\ Now.v.Y = 0)
    BY <1>2, NowFacts DEF WriteControl, Executed, Down
  <2>2. Ends(Now, n) /\ Deletes(Now, n)
    BY <2>1, NowFacts, VDU_127Facts DEF Deletes, GoesBack
  <2> HIDE DEF n
  <2> QED BY <2>1, <2>2, BackStep
<1> QED BY <1>1, <1>2

LEMMA ScreenInit == Init => Screen!Init
<1> SUFFICES ASSUME Init PROVE Screen!Init
  OBVIOUS
<1>1. TextInv
  BY InitText
<1>2. PICK m \in Modes : t = ModeVars(m)
  BY DEF Init
<1>3. t.MODE = m /\ t.X = 0 /\ t.Y = 0
  BY <1>2 DEF ModeVars
<1>4. Shown = GridOf(m, t.MEM, ram) /\ t.MEM \in Cells(m)
  BY <1>1, <1>3, ShownFacts DEF TextInv, Good, Inside
<1>5. \A row \in 0..Geometry[m].rows-1, c \in 0..Geometry[m].cols-1 :
        Wrap(m, t.MEM + Place(m, row, c)) \in 0..2*END
  <2> SUFFICES ASSUME NEW row \in 0..Geometry[m].rows-1, NEW c \in 0..Geometry[m].cols-1
               PROVE  Wrap(m, t.MEM + Place(m, row, c)) \in 0..2*END
    OBVIOUS
  <2> QED BY <1>4, PlaceFacts, CellFacts
<1>6. Shown = Screen!BlankGrid(Shape(m))
  BY <1>4, <1>5 DEF Init, GridOf, Shape, Screen!BlankGrid, Screen!BlankRow
<1> QED BY <1>3, <1>6 DEF Screen!Init

LEMMA ScreenNext ==
  UpAtTop = FALSE => (TextInv /\ TextInv' /\ [Next]_vars => [Screen!Next]_(Screen!vars))
<1> SUFFICES ASSUME UpAtTop = FALSE, TextInv, TextInv', [Next]_vars PROVE [Screen!Next]_(Screen!vars)
  OBVIOUS
<1>1. CASE Stays
  BY <1>1 DEF Stays, Screen!vars, Shown, Shape
<1>2. CASE Routine
  BY <1>2, ScreenStep DEF Routine
<1> QED BY <1>1, <1>2, TextStep

(* Whatever the start of the screen in memory, what is displayed from      *)
(* there on is a text screen, as long as no program moves up from the top  *)
(* row; VDU 8 goes left on it and VDU 127 deletes.                         *)
THEOREM VduImplementsScreen == ASSUME UpAtTop = FALSE PROVE Spec => RefinesScreen
<1> DEFINE B == (WriteControl(8) => Screen!Left) /\ (WriteControl(127) => Screen!Delete)
<1>1. TextInv /\ TextInv' /\ [Next]_vars => [Screen!Next]_(Screen!vars)
  BY ScreenNext
<1>2. TextInv /\ TextInv' => [B]_vars
  BY BackBytes
<1> QED BY <1>1, <1>2, ScreenInit, Shown0, PTL DEF Spec, RefinesScreen, Screen!Spec
=============================================================================
