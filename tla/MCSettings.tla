------------------------------- MODULE MCSettings -------------------------------
(* Starts TLC on Settings. *)
EXTENDS Settings

\* A desktop with Local HTTPS, and a Linux system service without.
TwoSetups ==
    {[service |-> FALSE, cert |-> TRUE, exact |-> FALSE],
     [service |-> TRUE, cert |-> FALSE, exact |-> TRUE]}
=============================================================================
