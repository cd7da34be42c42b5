--------------------------- MODULE MCSessionTurns ---------------------------
(***************************************************************************)
(* Two turns of one session on a disk that may fail: one that failed, and  *)
(* one that is given the history it left.                                  *)
(***************************************************************************)
EXTENDS SessionTurns, TLC
=============================================================================
