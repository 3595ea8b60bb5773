--------------------------- MODULE MCPositionSync ---------------------------
(* PositionSync for TLC: the ids of the table. *)
EXTENDS PositionSync

CONSTANT IdCount

MCIds == 1 .. IdCount
=============================================================================
