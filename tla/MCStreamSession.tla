---------------------------- MODULE MCStreamSession ----------------------------
(* TLC instances of StreamSession. *)
EXTENDS StreamSession, TLC

\* Sessions differ in nothing but their name.
Symmetry == Permutations(Sessions)
=============================================================================
