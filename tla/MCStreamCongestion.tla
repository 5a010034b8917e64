------------------------- MODULE MCStreamCongestion -------------------------
(* TLC instance of StreamCongestion. *)
EXTENDS StreamCongestion
=============================================================================
