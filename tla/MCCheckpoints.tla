--------------------------- MODULE MCCheckpoints ---------------------------
(* Two checkpoints of one student, and two worker incarnations. *)
EXTENDS Checkpoints, TLC
=============================================================================
