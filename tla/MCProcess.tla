------------------------------ MODULE MCProcess ------------------------------
(* Instances of Process for TLC: all that exec and the timer may do (the     *)
(* safety run), and the part of it in which no context is lost (liveness).   *)
EXTENDS Process
=============================================================================
