------------------------------- MODULE Gateway -------------------------------
(***************************************************************************)
(* What stands before a job and after it on the way of the HTTP routes     *)
(* (cmd/genpic/main.go): POST /api/generate passes the rate limiter before *)
(* a worker saves the images, GET /api/artifacts does not.                 *)
(***************************************************************************)
EXTENDS RateLimit, Thumbnails

vars == <<limiter, now, thumbVars>>

TypeOK == LimiterTypeOK /\ ThumbTypeOK
Init == LimiterInit /\ ThumbInit

\* A request that is refused gets a 429; of those let through, one job is followed.
Generate ==
  /\ \E ok \in BOOLEAN :
       /\ Allow(ok)
       /\ IF ok /\ proc[Job].pc = "idle" THEN SaveStart ELSE UNCHANGED thumbVars

Next ==
  \/ Generate
  \/ LimiterTick /\ UNCHANGED thumbVars
  \/ Thumbnail /\ UNCHANGED <<limiter, now>>

Spec == Init /\ [][Next]_vars
=============================================================================
