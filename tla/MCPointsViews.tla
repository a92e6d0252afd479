--------------------------- MODULE MCPointsViews ---------------------------
(* Rows of one wallet before, in and after a program of ten weeks, and two   *)
(* rivals: one that a single deposit of week 10 ties with, one that only an  *)
(* early deposit passes.                                                     *)
EXTENDS Leaderboard

MCRivals == [r \in {"even", "ahead"} |-> IF r = "even" THEN 36000 ELSE 150000]
=============================================================================
