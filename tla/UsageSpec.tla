------------------------------ MODULE UsageSpec ------------------------------
(***************************************************************************)
(* What a user's storage account promises: each upload is billed at most   *)
(* once, all of it at once and for good, and only if it fits into the      *)
(* quota in force at that moment; quotas change by administrators only.    *)
(***************************************************************************)
EXTENDS Integers

CONSTANTS Users, Uploads,
  InitQuota,  \* of a new user
  MaxQuota    \* the largest

VARIABLES used, quota,  \* of each user
          bill          \* bytes billed for each upload

vars == <<used, quota, bill>>

Init ==
  /\ used = [u \in Users |-> 0]
  /\ quota = [u \in Users |-> InitQuota]
  /\ bill = [r \in Uploads |-> 0]

\* The check and the charge are one step.
Charge(r, u) ==
  /\ bill[r] = 0
  /\ \E bytes \in 1..quota[u] - used[u] :
       /\ used' = [used EXCEPT ![u] = @ + bytes]
       /\ bill' = [bill EXCEPT ![r] = bytes]
  /\ UNCHANGED quota

SetQuota(u) ==
  /\ \E q \in 0..MaxQuota : quota' = [quota EXCEPT ![u] = q]
  /\ UNCHANGED <<used, bill>>

Next == \E u \in Users : SetQuota(u) \/ \E r \in Uploads : Charge(r, u)

Spec == Init /\ [][Next]_vars
=============================================================================
