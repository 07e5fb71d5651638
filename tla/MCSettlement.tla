---------------------------- MODULE MCSettlement ----------------------------
(* Instance of Settlement for TLC: a main branch and one fork, a task that a *)
(* file write completes and one that a command completes.                    *)
EXTENDS Settlement

CONSTANTS main, fork, write, command

MCForks == {fork}
MCStrong == {write}
MCMedium == {command}

\* bound: a history with a change by hand or a memory without its line ends
\* after four transactions, any other after five
Few ==
    \/ seq <= 9
    \/ byHand = {} /\ \A b \in Alive : \A r \in tasks[b] : r.listed
=============================================================================
