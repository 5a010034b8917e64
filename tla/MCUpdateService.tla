------------------------------ MODULE MCUpdateService ------------------------------
(* Starts TLC on UpdateService.                                            *)
EXTENDS UpdateService
====================================================================================
