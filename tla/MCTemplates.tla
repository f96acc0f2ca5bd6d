----------------------------- MODULE MCTemplates -----------------------------
(* A small instance of Templates for TLC. *)
EXTENDS Templates

CONSTANTS ua, ub, j1, j2, r1, r2, r3

TwoUsers == {ua, ub}
OneAdmin == {ua}
TwoJobs == {j1, j2}
ThreeRequests == {r1, r2, r3}
Interchangeable == Permutations(TwoJobs) \cup Permutations(ThreeRequests)
=============================================================================
