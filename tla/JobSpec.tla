------------------------------- MODULE JobSpec -------------------------------
(***************************************************************************)
(* What the job store promises to a client that polls GET /jobs/{id}: a    *)
(* job is queued, then running, then succeeded or failed, and it stays     *)
(* there.  A store that keeps nothing durable may also forget jobs.        *)
(***************************************************************************)
CONSTANT Jobs          \* identifiers newID may return

VARIABLES status,      \* what a poll of each job answers
          forgetful    \* the in-memory store: TTL eviction, restart

vars == <<status, forgetful>>

Terminal == {"succeeded", "failed"}

Init ==
  /\ status = [j \in Jobs |-> "absent"]
  /\ forgetful \in BOOLEAN

Enqueue(j) ==
  /\ status[j] = "absent"
  /\ status' = [status EXCEPT ![j] = "queued"]
  /\ UNCHANGED forgetful

Start(j) ==
  /\ status[j] = "queued"
  /\ status' = [status EXCEPT ![j] = "running"]
  /\ UNCHANGED forgetful

Settle(j) ==
  /\ status[j] = "running"
  /\ \E s \in Terminal : status' = [status EXCEPT ![j] = s]
  /\ UNCHANGED forgetful

\* A restart of the in-memory store forgets every job at once.
Forget ==
  /\ forgetful
  /\ \E gone \in SUBSET Jobs :
       status' = [j \in Jobs |-> IF j \in gone THEN "absent" ELSE status[j]]
  /\ UNCHANGED forgetful

Next == Forget \/ \E j \in Jobs : Enqueue(j) \/ Start(j) \/ Settle(j)

SafeSpec == Init /\ [][Next]_vars

\* Nothing stays queued or running for ever.
Spec == SafeSpec /\ \A j \in Jobs : WF_vars(Start(j)) /\ WF_vars(Settle(j))
=============================================================================
