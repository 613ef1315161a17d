----------------------------- MODULE MCGraphics -----------------------------
(* Graphics on a screen of 2 rows of 4 cells, 2 scan lines each, where all *)
(* modes have the same external coordinates, 0 to 63 and 0 to 15.          *)
EXTENDS Graphics

At(x, y) == [x |-> x, y |-> y]

(* Points in the screen and out of it on the left; the plots to them are   *)
(* moves and lines.  Further there are a line up, one out of the top, a    *)
(* dotted inverting line with the end twice, a dotted line without, whose  *)
(* spot is stale when it starts outside, a relative line, a point, and a   *)
(* code that is not implemented.                                           *)
MCPoints == {At(13, 9), At(60, 4), At(-20, 14)}
MCPlots == ({4, 5} \X MCPoints) \cup
  {<<5, At(60, 15)>>, <<5, At(30, 40)>>, <<30, At(13, 9)>>, <<22, At(60, 4)>>,
   <<1, At(80, -10)>>, <<69, At(60, 4)>>, <<85, At(13, 9)>>}
MCCorners == {<<At(-8, -4), At(20, 4)>>}
MCOrigins == {At(16, 4)}
=============================================================================
