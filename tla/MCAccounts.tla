------------------------------- MODULE MCAccounts -------------------------------
(* Starts TLC on Accounts.                                                 *)
EXTENDS Accounts, TLC

Symmetry == Permutations(Tokens) \cup Permutations(Sockets) \cup Permutations(Requests)
=================================================================================
