---------------------------- MODULE MCPairedBackup ----------------------------
(* Names for the model values of the workers. *)
EXTENDS PairedBackup

CONSTANTS w1, w2, w3
=============================================================================
