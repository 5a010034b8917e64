----------------------------- MODULE MCDevicePoll -----------------------------
(* TLC instance of DevicePoll. *)
EXTENDS DevicePoll
=============================================================================
