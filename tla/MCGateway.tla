------------------------------ MODULE MCGateway ------------------------------
(* A small instance of Gateway for TLC. *)
EXTENDS Gateway, TLC

CONSTANTS g1, g2

TwoRequests == {g1, g2}
Interchangeable == Permutations(TwoRequests)
=============================================================================
