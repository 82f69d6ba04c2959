----------------------------- MODULE MCRewind -----------------------------
(* Instances of Rewind for TLC. *)
EXTENDS Rewind
=============================================================================
