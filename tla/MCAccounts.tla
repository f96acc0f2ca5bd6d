------------------------------ MODULE MCAccounts ------------------------------
(* A small instance of Accounts for TLC. *)
EXTENDS Accounts

CONSTANTS u1, u2, w1, w2, r1, r2, r3

TwoUsers == {u1, u2}
TwoWords == {w1, w2}
ThreeRequests == {r1, r2, r3}
=============================================================================
