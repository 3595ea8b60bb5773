--------------------------- MODULE MCDhanHistory ---------------------------
(* DhanHistory for TLC: its constants are numbers, given in the cfg. *)
EXTENDS DhanHistory
=============================================================================
