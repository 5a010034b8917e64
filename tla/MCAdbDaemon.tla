----------------------------- MODULE MCAdbDaemon -----------------------------
(* TLC instance of AdbDaemon. *)
EXTENDS AdbDaemon
=============================================================================
