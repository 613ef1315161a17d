----------------------------- MODULE MCVduText -----------------------------
(* Two modes for TLC.  The first has three rows of two and one cell more   *)
(* than they need, so that rows straddle the end of the memory, as in the  *)
(* 25-row modes; the second has teletext and fills its memory.             *)
EXTENDS VduText, TLC

MCModes == {0, 1}
MCGeometry ==
  0 :> [cols |-> 2, rows |-> 3, size |-> 7, page |-> 1, ttx |-> FALSE] @@
  1 :> [cols |-> 3, rows |-> 2, size |-> 6, page |-> 2, ttx |-> TRUE]
MCParams == 8 :> 0 @@ 9 :> 0 @@ 10 :> 0 @@ 11 :> 0 @@ 12 :> 0 @@ 13 :> 0 @@
            17 :> 1 @@ 22 :> 1 @@ 26 :> 0 @@ 30 :> 0 @@ 31 :> 2 @@ 127 :> 0
MCChars == {96}
MCParameters == 0..2
=============================================================================
