----------------------------- MODULE Enumerations -----------------------------
(***************************************************************************)
(* Sorting and filtering, as the listings and the answers need them: rows  *)
(* by ORDER BY, and the loops that keep some elements of a slice.  They    *)
(* are functions of finite sets, so that the proofs can speak of them.     *)
(***************************************************************************)
EXTENDS Integers, FiniteSets

\* R, the order, is a set of pairs.
Before(S, R, x) == {y \in S : <<y, x>> \in R}
Enumerate(S, R) ==
  [k \in 1..Cardinality(S) |-> CHOOSE x \in S : Cardinality(Before(S, R, x)) = k - 1]

Ascending(S) == {p \in S \X S : p[1] < p[2]}

\* The indexes of what is kept, and the elements of s that are in T, in the order of s.
KeptAt(s, T) == LET at == {i \in DOMAIN s : s[i] \in T} IN Enumerate(at, Ascending(at))
Filter(s, T) == [k \in DOMAIN KeptAt(s, T) |-> s[KeptAt(s, T)[k]]]
=============================================================================
