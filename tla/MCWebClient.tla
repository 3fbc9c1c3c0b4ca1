---------------------------- MODULE MCWebClient -----------------------------
(* An instance of WebClient for TLC: methods, lists of rows and discards    *)
(* are interchangeable.                                                     *)
EXTENDS WebClient, TLC

Symmetry == Permutations(Methods) \cup Permutations(Rows) \cup Permutations(Discards)
=============================================================================
