------------------------------- MODULE MCPairing -------------------------------
(* TLC instance of Pairing. *)
EXTENDS Pairing
=============================================================================
