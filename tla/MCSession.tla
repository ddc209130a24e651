------------------------------ MODULE MCSession ------------------------------
(* Instances of Session for TLC. *)
EXTENDS Session

MCIndexes == 0..2
=============================================================================
