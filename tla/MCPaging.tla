------------------------------ MODULE MCPaging ------------------------------
(* Instances of Paging for TLC.                                            *)
EXTENDS Paging, TLC

\* The page threads are alike, and so are the destinations and the stops.
Symmetry == Permutations(Jobs) \cup Permutations(Dests) \cup Permutations(Stoppers)
=============================================================================
