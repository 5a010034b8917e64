------------------------------ MODULE MCFilePush ------------------------------
(* TLC instance of FilePush. *)
EXTENDS FilePush
=============================================================================
