----------------------------- MODULE MCVideoServer -----------------------------
(* Instances of VideoServer for TLC. *)
EXTENDS VideoServer
=============================================================================
