----------------------------- MODULE MCAccounts -----------------------------
(* An instance of Accounts for TLC: requests are interchangeable. *)
EXTENDS Accounts, TLC

CONSTANTS admin, imam, p1, p2, r1, r2

MCNames == {admin, imam}
MCPasswords == {p1, p2}
MCRequests == {r1, r2}
Symmetry == Permutations(MCRequests)
=============================================================================
