--------------------------- MODULE MCStreamStartup ---------------------------
(* TLC instance of StreamStartup. *)
EXTENDS StreamStartup
=============================================================================
