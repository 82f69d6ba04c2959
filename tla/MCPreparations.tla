--------------------------- MODULE MCPreparations ---------------------------
(* Instances of Preparations for TLC. *)
EXTENDS Preparations
=============================================================================
