----------------------------- MODULE TextScreen -----------------------------
(***************************************************************************)
(* What a program sees of the text output: a grid of characters and a      *)
(* cursor.  Nothing here knows where the screen starts in memory, that it  *)
(* scrolls by moving that start, or how bytes make up a VDU sequence.      *)
(*                                                                         *)
(* Column 0 to cols-1 are on the screen; in column cols the cursor has     *)
(* passed the end of its row.                                              *)
(***************************************************************************)
EXTENDS Integers

CONSTANTS Shapes, Glyphs, BLANK

VARIABLES
  shape,   \* [cols, rows] of the mode
  grid,    \* [row -> [column -> glyph]]
  x, y     \* the cursor

vars == <<shape, grid, x, y>>

BlankRow(s) == [c \in 0..s.cols-1 |-> BLANK]
BlankGrid(s) == [r \in 0..s.rows-1 |-> BlankRow(s)]

Init == /\ shape \in Shapes
        /\ grid = BlankGrid(shape) /\ x = 0 /\ y = 0

Scrolled == [r \in 0..shape.rows-1 |->
               IF r < shape.rows - 1 THEN grid[r+1] ELSE BlankRow(shape)]

(* A row lower: at the bottom the rows move up instead.                    *)
Feed(g) ==
  IF y < shape.rows - 1 THEN y' = y + 1 /\ grid' = g
                        ELSE y' = y /\ grid' = Scrolled

Show(g) ==
  /\ x < shape.cols
  /\ grid' = [grid EXCEPT ![y][x] = g]
  /\ x' = x + 1
  /\ UNCHANGED <<shape, y>>

(* Past the end of a row a glyph goes to the start of the next one, where  *)
(* the cursor goes too, so that the glyph after it takes its place.        *)
ShowPastEnd(g) ==
  /\ x = shape.cols
  /\ Feed(IF y < shape.rows - 1 THEN [grid EXCEPT ![y+1][0] = g] ELSE grid)
  /\ x' = 0
  /\ UNCHANGED shape

Right ==
  /\ x < shape.cols /\ x' = x + 1
  /\ UNCHANGED <<shape, grid, y>>

RightPastEnd == x = shape.cols /\ Feed(grid) /\ x' = 0 /\ UNCHANGED shape

Down == Feed(grid) /\ UNCHANGED <<shape, x>>

Up == y > 0 /\ y' = y - 1 /\ UNCHANGED <<shape, grid, x>>

(* A column back, or to the end of the row above.                          *)
Back ==
  IF x > 0 THEN x' = x - 1 /\ y' = y
           ELSE y > 0 /\ x' = shape.cols - 1 /\ y' = y - 1

Left == Back /\ UNCHANGED <<shape, grid>>

(* Delete blanks the cell it comes to.                                     *)
Delete ==
  /\ Back
  /\ grid' = [grid EXCEPT ![y'][x'] = BLANK]
  /\ UNCHANGED shape

Move(col, row) ==
  /\ x' = col /\ y' = row
  /\ UNCHANGED <<shape, grid>>

Clear(s) ==
  /\ shape' = s /\ grid' = BlankGrid(s) /\ x' = 0 /\ y' = 0

Next ==
  \/ \E g \in Glyphs : Show(g) \/ ShowPastEnd(g)
  \/ Right \/ RightPastEnd \/ Down \/ Up \/ Left \/ Delete
  \/ \E col \in 0..shape.cols-1, row \in 0..shape.rows-1 : Move(col, row)
  \/ \E s \in Shapes : Clear(s)

Spec == Init /\ [][Next]_vars
=============================================================================
