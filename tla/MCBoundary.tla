----------------------------- MODULE MCBoundary -----------------------------
(* What happens at and around the boundary of a transaction: the contexts  *)
(* and callbacks of threads that share a store, and the witness of the     *)
(* chain, which processes check beside and inside open transactions.  The  *)
(* two parts share nothing, so each is explored from the initial state of  *)
(* the other.                                                              *)
EXTENDS Transactions, Witness, TLC

CONSTANTS t1, t2, t3, r1, r2, r3, p1, p2

MCInit == Init /\ InitWitness
MCNext ==
  \/ Next /\ InitWitness /\ UNCHANGED witnessVars
  \/ Init /\ NextWitness /\ UNCHANGED vars
MCSpec == MCInit /\ [][MCNext]_<<vars, witnessVars>>

Symmetry == Permutations(Threads) \cup Permutations(Records) \cup Permutations(Processes)
=============================================================================
