---------------------------- MODULE JobLifecycle ----------------------------
(***************************************************************************)
(* One image-generation job of cmd/genpic, from POST /api/generate to its  *)
(* terminal status: the HTTP handler (HandleCompatGenerate), the goroutine *)
(* it starts (runJob, finalizeJobResult, maybeCommunityAutoPublic), the    *)
(* job store they share (jobstore.Memory or jobstore.MySQL), and what other*)
(* requests do to the same row meanwhile: login migrates anonymous jobs,   *)
(* the owner changes visibility or settings, the memory store evicts, a    *)
(* database call fails, the process dies.                                  *)
(***************************************************************************)
EXTENDS Naturals

CONSTANTS
  Jobs,            \* job ids (newID: 128 random bits, never repeated)
  Users,           \* user ids
  Sessions,        \* X-Genpic-Session values of anonymous browsers
  Nobody,          \* the empty user id or session id
  Deployments,     \* the configurations main may have started with
  MaxFaults,       \* bound on failed database calls
  MaxCrashes       \* bound on process restarts

Deployment == [backend : {"memory", "mysql"},          \* without or with a database
               objectStore : BOOLEAN,                  \* getObjectStore() # nil
               artifacts : {"oss", "both", "local"}]   \* ossArtifactMode()

ASSUME ConstantsOK ==
  /\ Nobody \notin Users \cup Sessions
  /\ Deployments \subseteq Deployment
  /\ MaxFaults \in Nat
  /\ MaxCrashes \in Nat

VARIABLES
  deploy,      \* the configuration, fixed at startup
  row,         \* the job table
  handler,     \* progress of the POST that submits each job
  scope,       \* the OwnerScope the POST was made with
  worker,      \* progress and locals of the runJob goroutine
  autoPublic,  \* user_settings.community_auto_public
  faults, crashes,  \* how many failures have happened
  \* Observers, read by the properties only:
  asked,       \* the owner has asked for this job to be public
  optedIn      \* the owner's auto-public setting was on after the job succeeded

vars == <<deploy, row, handler, scope, worker, autoPublic, faults, crashes, asked, optedIn>>

Terminal == {"succeeded", "failed"}
Owners == Users \cup {Nobody}
Browsers == Sessions \cup {Nobody}

Row == [status     : {"absent", "queued", "running"} \cup Terminal,
        user       : Owners,
        session    : Browsers,
        images     : {"none", "upstream", "local", "oss"},
        started    : BOOLEAN,
        finished   : BOOLEAN,
        visibility : {"private", "public"}]

NoRow == [status |-> "absent", user |-> Nobody, session |-> Nobody,
          images |-> "none", started |-> FALSE, finished |-> FALSE,
          visibility |-> "private"]

\* Where runJob is: the call it makes next.
Running == {"start", "upstream", "owner", "store", "finish"}
Publishing == {"job", "settings", "list"}
Live == Running \cup Publishing

Worker == [pc     : {"none", "done", "dead"} \cup Live,
           uid    : Owners,     \* owner read before materializing
           author : Owners,     \* owner read before publishing
           result : {"none", "upstream", "local", "oss", "error"}]

NoWorker == [pc |-> "none", uid |-> Nobody, author |-> Nobody, result |-> "none"]

Scope == [user : Owners, session : Browsers]

TypeOK ==
  /\ deploy \in Deployments
  /\ row \in [Jobs -> Row]
  /\ handler \in [Jobs -> {"idle", "entered", "created", "accepted", "refused", "aborted"}]
  /\ scope \in [Jobs -> Scope]
  /\ worker \in [Jobs -> Worker]
  /\ autoPublic \in [Users -> BOOLEAN]
  /\ faults \in 0..MaxFaults
  /\ crashes \in 0..MaxCrashes
  /\ asked \in [Jobs -> BOOLEAN]
  /\ optedIn \in [Jobs -> BOOLEAN]

Present(j) == row[j].status # "absent"
HasAuthStore == deploy.backend = "mysql"

\* A call to the database fails; the in-memory store cannot.
DbFault ==
  /\ deploy.backend = "mysql"
  /\ faults < MaxFaults
  /\ faults' = faults + 1

Init ==
  /\ deploy \in Deployments
  /\ row = [j \in Jobs |-> NoRow]
  /\ handler = [j \in Jobs |-> "idle"]
  /\ scope = [j \in Jobs |-> [user |-> Nobody, session |-> Nobody]]
  /\ worker = [j \in Jobs |-> NoWorker]
  /\ autoPublic = [u \in Users |-> FALSE]
  /\ faults = 0
  /\ crashes = 0
  /\ asked = [j \in Jobs |-> FALSE]
  /\ optedIn = [j \in Jobs |-> FALSE]
-----------------------------------------------------------------------------
(* POST /api/generate *)

\* The handler resolves the caller and uploads the reference images.
Submit(j, u, s) ==
  /\ handler[j] = "idle"
  /\ handler' = [handler EXCEPT ![j] = "entered"]
  /\ scope' = [scope EXCEPT ![j] = [user |-> u, session |-> s]]
  /\ UNCHANGED <<deploy, row, worker, autoPublic, faults, crashes, asked, optedIn>>

\* Bad reference images, quota or upload errors: no job is created.
Refuse(j) ==
  /\ handler[j] = "entered"
  /\ handler' = [handler EXCEPT ![j] = "refused"]
  /\ UNCHANGED <<deploy, row, scope, worker, autoPublic, faults, crashes, asked, optedIn>>

\* Mutant: the session id is kept beside the user id.
QueuedRow_BothOwners(j) ==
  [NoRow EXCEPT !.status = "queued", !.user = scope[j].user, !.session = scope[j].session]

\* jobFromGenerateRequest: a signed-in caller's session id is dropped.
QueuedRow(j) ==
  [NoRow EXCEPT !.status = "queued",
                !.user = scope[j].user,
                !.session = IF scope[j].user = Nobody THEN scope[j].session ELSE Nobody]

\* Mutant: the goroutine is never started.
CreateJob_NotStarted(j) ==
  /\ handler[j] = "entered"
  /\ row' = [row EXCEPT ![j] = QueuedRow(j)]
  /\ handler' = [handler EXCEPT ![j] = "created"]
  /\ UNCHANGED <<deploy, scope, worker, autoPublic, faults, crashes, asked, optedIn>>

\* Store.Create, then `go runJob`.
CreateJob(j) ==
  /\ handler[j] = "entered"
  /\ row' = [row EXCEPT ![j] = QueuedRow(j)]
  /\ worker' = [worker EXCEPT ![j].pc = "start"]
  /\ handler' = [handler EXCEPT ![j] = "created"]
  /\ UNCHANGED <<deploy, scope, autoPublic, faults, crashes, asked, optedIn>>

\* The INSERT reports an error; it may have been applied all the same.
CreateFails(j) ==
  /\ handler[j] = "entered"
  /\ DbFault
  /\ row' \in {row, [row EXCEPT ![j] = QueuedRow(j)]}
  /\ handler' = [handler EXCEPT ![j] = "refused"]
  /\ UNCHANGED <<deploy, scope, worker, autoPublic, crashes, asked, optedIn>>

\* Get(id) and the 202 response; a missing job is a nil pointer.
Reply(j) ==
  /\ handler[j] = "created"
  /\ handler' = [handler EXCEPT ![j] = IF Present(j) THEN "accepted" ELSE "aborted"]
  /\ UNCHANGED <<deploy, row, scope, worker, autoPublic, faults, crashes, asked, optedIn>>

ReplyFails(j) ==
  /\ handler[j] = "created"
  /\ DbFault
  /\ handler' = [handler EXCEPT ![j] = "aborted"]
  /\ UNCHANGED <<deploy, row, scope, worker, autoPublic, crashes, asked, optedIn>>
-----------------------------------------------------------------------------
(* runJob *)

\* Mutant: only the start time is written.
StartedRow_OnlyTime(r) == [r EXCEPT !.started = TRUE]

\* The Update callback that marks a job as running.
StartedRow(r) == [r EXCEPT !.status = "running", !.started = TRUE]

MarkRunning(j) ==
  /\ worker[j].pc = "start"
  /\ worker' = [worker EXCEPT ![j].pc = "upstream"]
  /\ row' = IF Present(j) THEN [row EXCEPT ![j] = StartedRow(@)] ELSE row
  /\ UNCHANGED <<deploy, handler, scope, autoPublic, faults, crashes, asked, optedIn>>

\* Update returns false; runJob does not look.
MarkRunningFails(j) ==
  /\ worker[j].pc = "start"
  /\ DbFault
  /\ worker' = [worker EXCEPT ![j].pc = "upstream"]
  /\ UNCHANGED <<deploy, row, handler, scope, autoPublic, crashes, asked, optedIn>>

\* Mutant: an upstream error returns without finalizing the job.
Generate_DropError(j) ==
  /\ worker[j].pc = "upstream"
  /\ \/ worker' = [worker EXCEPT ![j].pc = "owner", ![j].result = "upstream"]
     \/ worker' = [worker EXCEPT ![j].pc = "done", ![j].result = "error"]
  /\ UNCHANGED <<deploy, row, handler, scope, autoPublic, faults, crashes, asked, optedIn>>

\* executeImageGeneration returns images, an error, or its timeout.
Generate(j) ==
  /\ worker[j].pc = "upstream"
  /\ \/ worker' = [worker EXCEPT ![j].pc = "owner", ![j].result = "upstream"]
     \/ worker' = [worker EXCEPT ![j].pc = "finish", ![j].result = "error"]
  /\ UNCHANGED <<deploy, row, handler, scope, autoPublic, faults, crashes, asked, optedIn>>

\* The owner is read again: a login may have claimed the job since.
ReadOwner(j) ==
  /\ worker[j].pc = "owner"
  /\ worker' = [worker EXCEPT ![j].pc = "store",
                              ![j].uid = IF Present(j) THEN row[j].user ELSE Nobody]
  /\ UNCHANGED <<deploy, row, handler, scope, autoPublic, faults, crashes, asked, optedIn>>

ReadOwnerFails(j) ==
  /\ worker[j].pc = "owner"
  /\ DbFault
  /\ worker' = [worker EXCEPT ![j].pc = "store", ![j].uid = Nobody]
  /\ UNCHANGED <<deploy, row, handler, scope, autoPublic, crashes, asked, optedIn>>

\* Mutant: the owner is not looked at.
UsesObjectStore_AnyOwner(uid) == deploy.objectStore /\ deploy.artifacts # "local"

UsesObjectStore(uid) == uid # Nobody /\ deploy.objectStore /\ deploy.artifacts # "local"

\* What materializing may leave in out["data"]; an image whose fetch fails, or
\* that came without bytes, keeps the upstream URL.
Materialized(uid) ==
  {"upstream", "error"} \cup (IF UsesObjectStore(uid) THEN {"oss"} ELSE {"local"})

StoreOutputs(j) ==
  /\ worker[j].pc = "store"
  /\ \E r \in Materialized(worker[j].uid) :
       worker' = [worker EXCEPT ![j].pc = "finish", ![j].result = r]
  /\ UNCHANGED <<deploy, row, handler, scope, autoPublic, faults, crashes, asked, optedIn>>

\* Mutants: a failed job records its result as images; it gets no finish time.
FinishedRow_ImagesOnError(r, result) ==
  [r EXCEPT !.status = IF result = "error" THEN "failed" ELSE "succeeded",
            !.finished = TRUE, !.images = result]

FinishedRow_NoFinishTime(r, result) ==
  IF result = "error"
  THEN [r EXCEPT !.status = "failed"]
  ELSE [r EXCEPT !.status = "succeeded", !.finished = TRUE, !.images = result]

\* The Update callbacks of finalizeJobResult.
FinishedRow(r, result) ==
  IF result = "error"
  THEN [r EXCEPT !.status = "failed", !.finished = TRUE]
  ELSE [r EXCEPT !.status = "succeeded", !.finished = TRUE, !.images = result]

\* Mutant: a failed job is run again.
AfterFinish_Retry(result) == IF result = "error" THEN "start" ELSE "job"

AfterFinish(result) == IF result = "error" THEN "done" ELSE "job"

OptedInNow(u) == u \in Users /\ autoPublic[u]

FinalizeJobResult(j) ==
  /\ worker[j].pc = "finish"
  /\ row' = IF Present(j)
            THEN [row EXCEPT ![j] = FinishedRow(@, worker[j].result)] ELSE row
  /\ worker' = [worker EXCEPT ![j].pc = AfterFinish(worker[j].result)]
  /\ optedIn' = [optedIn EXCEPT ![j] =
                   @ \/ (worker[j].result # "error" /\ OptedInNow(row[j].user))]
  /\ UNCHANGED <<deploy, handler, scope, autoPublic, faults, crashes, asked>>

FinalizeFails(j) ==
  /\ worker[j].pc = "finish"
  /\ DbFault
  /\ worker' = [worker EXCEPT ![j].pc = AfterFinish(worker[j].result)]
  /\ UNCHANGED <<deploy, row, handler, scope, autoPublic, crashes, asked, optedIn>>
-----------------------------------------------------------------------------
(* maybeCommunityAutoPublic: three calls, any of which may find a changed world *)

PublishReadJob(j) ==
  /\ worker[j].pc = "job"
  /\ worker' =
       IF HasAuthStore /\ row[j].user # Nobody /\ row[j].status = "succeeded"
       THEN [worker EXCEPT ![j].pc = "settings", ![j].author = row[j].user]
       ELSE [worker EXCEPT ![j].pc = "done"]
  /\ UNCHANGED <<deploy, row, handler, scope, autoPublic, faults, crashes, asked, optedIn>>

\* Mutant: the setting is not looked at.
PublishReadSettings_Ignored(j) ==
  /\ worker[j].pc = "settings"
  /\ worker' = [worker EXCEPT ![j].pc = "list"]
  /\ UNCHANGED <<deploy, row, handler, scope, autoPublic, faults, crashes, asked, optedIn>>

PublishReadSettings(j) ==
  /\ worker[j].pc = "settings"
  /\ worker' = [worker EXCEPT ![j].pc = IF autoPublic[worker[j].author] THEN "list" ELSE "done"]
  /\ UNCHANGED <<deploy, row, handler, scope, autoPublic, faults, crashes, asked, optedIn>>

\* UPDATE ... WHERE id = ? AND user_id = ?
WithVisibility(j, u, v) ==
  IF Present(j) /\ row[j].user = u THEN [row EXCEPT ![j].visibility = v] ELSE row

PublishSetVisibility(j) ==
  /\ worker[j].pc = "list"
  /\ row' = WithVisibility(j, worker[j].author, "public")
  /\ worker' = [worker EXCEPT ![j].pc = "done"]
  /\ UNCHANGED <<deploy, handler, scope, autoPublic, faults, crashes, asked, optedIn>>

\* Any of the three calls fails: the job simply is not published.
PublishFails(j) ==
  /\ worker[j].pc \in Publishing
  /\ DbFault
  /\ worker' = [worker EXCEPT ![j].pc = "done"]
  /\ UNCHANGED <<deploy, row, handler, scope, autoPublic, crashes, asked, optedIn>>
-----------------------------------------------------------------------------
(* Other requests and the environment *)

\* PUT /api/jobs/{id}/visibility by a signed-in user; no status is required.
SetVisibility(j, u, v) ==
  /\ HasAuthStore
  /\ Present(j) /\ row[j].user = u
  /\ row' = WithVisibility(j, u, v)
  /\ asked' = [asked EXCEPT ![j] = @ \/ v = "public"]
  /\ UNCHANGED <<deploy, handler, scope, worker, autoPublic, faults, crashes, optedIn>>

UpdateSettings(u, on) ==
  /\ HasAuthStore
  /\ autoPublic' = [autoPublic EXCEPT ![u] = on]
  /\ optedIn' = [j \in Jobs |-> optedIn[j] \/
                   (on /\ row[j].user = u /\ row[j].status = "succeeded")]
  /\ UNCHANGED <<deploy, row, handler, scope, worker, faults, crashes, asked>>

\* Mutant: jobs are matched by the browser they were submitted from, owned or not.
MigrateAnonymousJobs_Claimed(u, s) ==
  /\ HasAuthStore
  /\ row' = [j \in Jobs |->
               IF Present(j) /\ scope[j].session = s
               THEN [row[j] EXCEPT !.user = u, !.session = Nobody]
               ELSE row[j]]
  /\ UNCHANGED <<deploy, handler, scope, worker, autoPublic, faults, crashes, asked, optedIn>>

\* HandleLogin / HandleRegister: the browser's anonymous jobs become the user's.
MigrateAnonymousJobs(u, s) ==
  /\ HasAuthStore
  /\ row' = [j \in Jobs |->
               IF Present(j) /\ row[j].session = s /\ row[j].user = Nobody
               THEN [row[j] EXCEPT !.user = u, !.session = Nobody]
               ELSE row[j]]
  /\ optedIn' = [j \in Jobs |-> optedIn[j] \/
                   (row'[j].user = u /\ row[j].status = "succeeded" /\ autoPublic[u])]
  /\ UNCHANGED <<deploy, handler, scope, worker, autoPublic, faults, crashes, asked>>

\* The sweep of the in-memory store looks at the age of a job, not its status.
Evict(j) ==
  /\ deploy.backend = "memory"
  /\ Present(j)
  /\ row' = [row EXCEPT ![j] = NoRow]
  /\ UNCHANGED <<deploy, handler, scope, worker, autoPublic, faults, crashes, asked, optedIn>>

\* The process dies and is started again: goroutines and the in-memory store
\* are gone, rows in MySQL are as they were, and nothing resumes them.
Crash ==
  /\ crashes < MaxCrashes
  /\ crashes' = crashes + 1
  /\ handler' = [j \in Jobs |-> IF handler[j] \in {"entered", "created"}
                                THEN "aborted" ELSE handler[j]]
  /\ worker' = [j \in Jobs |-> IF worker[j].pc \in Live
                               THEN [worker[j] EXCEPT !.pc = "dead"] ELSE worker[j]]
  /\ row' = IF deploy.backend = "memory" THEN [j \in Jobs |-> NoRow] ELSE row
  /\ UNCHANGED <<deploy, scope, autoPublic, faults, asked, optedIn>>
-----------------------------------------------------------------------------
RunJob(j) ==
  \/ MarkRunning(j) \/ MarkRunningFails(j)
  \/ Generate(j)
  \/ ReadOwner(j) \/ ReadOwnerFails(j)
  \/ StoreOutputs(j)
  \/ FinalizeJobResult(j) \/ FinalizeFails(j)
  \/ PublishReadJob(j) \/ PublishReadSettings(j) \/ PublishSetVisibility(j)
  \/ PublishFails(j)

HandleGenerate(j) ==
  \/ \E u \in Owners, s \in Browsers : Submit(j, u, s)
  \/ Refuse(j)
  \/ CreateJob(j) \/ CreateFails(j)
  \/ Reply(j) \/ ReplyFails(j)

Next ==
  \/ \E j \in Jobs : HandleGenerate(j) \/ RunJob(j) \/ Evict(j)
  \/ \E j \in Jobs, u \in Users, v \in {"private", "public"} : SetVisibility(j, u, v)
  \/ \E u \in Users, on \in BOOLEAN : UpdateSettings(u, on)
  \/ \E u \in Users, s \in Sessions : MigrateAnonymousJobs(u, s)
  \/ Crash

Spec == Init /\ [][Next]_vars

\* A started goroutine keeps running and the upstream call is cut off by its
\* context deadline; handlers that have entered keep running too.
FairSpec ==
  /\ Spec
  /\ \A j \in Jobs : WF_vars(RunJob(j))
-----------------------------------------------------------------------------
(* Properties *)

\* A finished job says so consistently: it carries a finish time and, exactly
\* when it succeeded, images; a running one has a start time and no result.
\* (finalizeJobResult writes status, images and FinishedAt in one Update.)
ResultMatchesStatus ==
  \A j \in Jobs :
    /\ row[j].finished <=> row[j].status \in Terminal
    /\ row[j].images # "none" <=> row[j].status = "succeeded"
    /\ row[j].status = "running" => row[j].started

\* A job is owned by a user or by an anonymous browser, never by both: no
\* interleaving of submission and login migration produces a shared job.
OneOwner ==
  \A j \in Jobs : row[j].user = Nobody \/ row[j].session = Nobody

\* Outputs are put in object storage, and charged to a quota, only under the
\* user who owns the job when the result is written, although the owner was
\* read some steps earlier (runJob lines 391-404).
ChargedToOwner ==
  \A j \in Jobs :
    /\ row[j].images = "oss" => row[j].user # Nobody
    /\ worker[j].uid # Nobody /\ Present(j) => row[j].user = worker[j].uid

\* A job is in the community feed only if its owner asked for that, or had the
\* automatic listing on at some moment after the job succeeded, whatever
\* happens between the three reads and writes of maybeCommunityAutoPublic.
PublishedWithConsent ==
  \A j \in Jobs :
    row[j].visibility = "public" => row[j].user # Nobody /\ (asked[j] \/ optedIn[j])

\* Nothing is lost silently: if a queued or running row has no goroutine left
\* to finish it, or a created job was not acknowledged, then a database call
\* failed or the process died.
Healthy == faults = 0 /\ crashes = 0

UnfinishedHasWorker ==
  Healthy => \A j \in Jobs :
    /\ row[j].status \in {"queued", "running"} => worker[j].pc \in Running
    /\ handler[j] \in {"refused", "aborted"} => ~Present(j)

\* A terminal status is final, with its images, for as long as the row is kept;
\* a started job never goes back to the queue.
TerminalIsFinal ==
  [][\A j \in Jobs :
       Present(j) /\ row'[j].status # "absent" =>
         /\ row[j].status \in Terminal =>
              row'[j].status = row[j].status /\ row'[j].images = row[j].images
         /\ row[j].status # "queued" => row'[j].status # "queued"]_vars

\* The owner of a job changes only from anonymous to a user.
OwnerIsSticky ==
  [][\A j \in Jobs :
       row[j].user # Nobody /\ row'[j].status # "absent" => row'[j].user = row[j].user]_vars

\* The lifecycle the store promises.
Lifecycle == INSTANCE JobSpec
  WITH status <- [j \in Jobs |-> row[j].status],
       forgetful <- (deploy.backend = "memory")

\* While no database call fails, every job follows queued, running, then
\* succeeded or failed (store.go: "Lifecycle").
LifecycleSafeSpec == Lifecycle!SafeSpec

\* Polling ends: an accepted job becomes terminal, or the in-memory store drops
\* it, unless a call on it failed or a restart orphaned its row in MySQL.
Undurable == faults > 0 \/ (crashes > 0 /\ deploy.backend = "mysql")

PollingEnds ==
  \A j \in Jobs :
    handler[j] = "accepted" ~> row[j].status \in Terminal \cup {"absent"} \/ Undurable

\* "Clients poll GET /jobs/{id} until it succeeds or fails" (README.md).
PollingAlwaysEnds ==
  \A j \in Jobs :
    handler[j] = "accepted" ~> row[j].status \in Terminal \cup {"absent"}
-----------------------------------------------------------------------------
(* The inductive invariant behind the safety properties *)

\* Before Store.Create a job has no row and no goroutine.
Fresh(j) ==
  handler[j] \in {"idle", "entered"} => row[j] = NoRow /\ worker[j] = NoWorker

\* A row that is not there has nothing in it.
Empty(j) == ~Present(j) => row[j] = NoRow

\* Only the goroutine of a job settles its row, and once.
Unsettled(j) ==
  worker[j].pc \in Running \cup {"none"} => row[j].status \notin Terminal

\* A result is there when it is to be recorded; one in the object store was put
\* there for an owner.
Delivering(j) ==
  worker[j].pc = "finish" =>
    worker[j].result # "none" /\ (worker[j].result = "oss" => worker[j].uid # Nobody)

\* From the first read of maybeCommunityAutoPublic on, the job has an owner who
\* cannot change, and has succeeded.
Authored(j) ==
  worker[j].pc \in {"settings", "list"} =>
    /\ worker[j].author \in Users
    /\ Present(j) => row[j].user = worker[j].author /\ row[j].status = "succeeded"

\* optedIn has seen every moment at which the setting applied to a succeeded job.
Noted(j) ==
  /\ row[j].status = "succeeded" /\ OptedInNow(row[j].user) => optedIn[j]
  /\ worker[j].pc = "list" /\ Present(j) => optedIn[j]

IInv ==
  /\ TypeOK
  /\ \A j \in Jobs :
       Fresh(j) /\ Empty(j) /\ Unsettled(j) /\ Delivering(j) /\ Authored(j) /\ Noted(j)
  /\ ResultMatchesStatus
  /\ OneOwner
  /\ ChargedToOwner
  /\ PublishedWithConsent
=============================================================================
