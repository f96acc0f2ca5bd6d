--------------------------- MODULE MCJobLifecycle ---------------------------
(* Small instances of JobLifecycle for TLC. *)
EXTENDS JobLifecycle, TLC

CONSTANTS j1, j2, u1, u2, s1

TwoJobs == {j1, j2}
OneJob == {j1}
TwoUsers == {u1, u2}
OneUser == {u1}
OneSession == {s1}

\* Every way main may be configured, and one of each store.
AllDeployments == Deployment
OneOfEach == {[backend |-> "memory", objectStore |-> FALSE, artifacts |-> "oss"],
              [backend |-> "mysql", objectStore |-> TRUE, artifacts |-> "both"]}
WithDatabase == {[backend |-> "mysql", objectStore |-> TRUE, artifacts |-> "oss"]}

Symmetry == Permutations(TwoJobs) \cup Permutations(TwoUsers)
=============================================================================
