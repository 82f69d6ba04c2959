--------------------------- MODULE MCCrashRecovery ---------------------------
(* Instances of CrashRecovery for TLC. *)
EXTENDS CrashRecovery
=============================================================================
