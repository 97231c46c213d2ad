----------------------------- MODULE MCLibraryPage -----------------------------
(* LibraryPage for TLC: the runs and the queries are interchangeable. *)
EXTENDS LibraryPage, TLC

CONSTANTS r1, r2, q1, q2

PageSymmetry == Permutations({r1, r2}) \cup Permutations({q1, q2})
===============================================================================
