--------------------------- MODULE MC_FieldEngine ---------------------------
(* Model-checking instance of FieldEngine: three publishers, two published *)
(* loads (one odd, so Suspect halving rounds), tau of two clock units.     *)
EXTENDS FieldEngine

MCIds == {1, 2, 3}
MCLoads == {255, 256}
MCGcAges == {3}
=============================================================================
