---------------------------- MODULE MCExtraction ----------------------------
(* Small instances of ExtractionWorker for TLC.                            *)
EXTENDS ExtractionWorker, TLC

CONSTANTS w1, w2, f1, c1, p1, p2

\* every proposal is of one text, each quotes it from a span of its own; what
\* conflicting readings of one span do, the weak proposals do here
OneText == [p \in Proposals |-> c1]
OwnSpan == [p \in Proposals |-> p]

\* leased workers differ only in their owner uuid
LeasedSymmetry == Permutations(Leased)
=============================================================================
