------------------------- MODULE JobLifecycleProofs -------------------------
(***************************************************************************)
(* Theorems about JobLifecycle, for every number of jobs, users, sessions, *)
(* failures and restarts, and every deployment.                            *)
(***************************************************************************)
EXTENDS JobLifecycle, TLAPS

-----------------------------------------------------------------------------
(* What the operators on rows return *)

LEMMA NoRowType == NoRow \in Row
BY DEF NoRow, Row, Owners, Browsers

LEMMA QueuedRowType ==
  ASSUME NEW j \in Jobs, TypeOK
  PROVE  QueuedRow(j) \in Row
BY DEF QueuedRow, NoRow, Row, TypeOK, Scope, Owners, Browsers

LEMMA StartedRowType ==
  ASSUME NEW r \in Row
  PROVE  StartedRow(r) \in Row
BY DEF StartedRow, Row

LEMMA FinishedRowType ==
  ASSUME NEW r \in Row, NEW result \in {"none", "upstream", "local", "oss", "error"}
  PROVE  FinishedRow(r, result) \in Row
BY DEF FinishedRow, Row, Terminal

LEMMA WithVisibilityType ==
  ASSUME TypeOK, NEW j \in Jobs, NEW u, NEW v \in {"private", "public"}
  PROVE  WithVisibility(j, u, v) \in [Jobs -> Row]
BY DEF WithVisibility, TypeOK, Row

LEMMA ClaimedRowType ==
  ASSUME NEW r \in Row, NEW u \in Users
  PROVE  [r EXCEPT !.user = u, !.session = Nobody] \in Row
BY DEF Row, Owners, Browsers

LEMMA WorkerType ==
  ASSUME NEW w \in Worker, NEW pc \in {"none", "done", "dead"} \cup Live
  PROVE  [w EXCEPT !.pc = pc] \in Worker
BY DEF Worker

LEMMA WorkerOwnerType ==
  ASSUME NEW w \in Worker, NEW pc \in {"none", "done", "dead"} \cup Live, NEW o \in Owners
  PROVE  /\ [w EXCEPT !.pc = pc, !.uid = o] \in Worker
         /\ [w EXCEPT !.pc = pc, !.author = o] \in Worker
BY DEF Worker
-----------------------------------------------------------------------------
(* Type correctness *)

\* The steps of runJob that change nothing but its locals.
Quiet(j) ==
  \/ MarkRunningFails(j) \/ Generate(j) \/ ReadOwnerFails(j) \/ StoreOutputs(j)
  \/ FinalizeFails(j) \/ PublishReadJob(j) \/ PublishReadSettings(j) \/ PublishFails(j)

LEMMA InitType == Init => TypeOK
<1> SUFFICES ASSUME Init PROVE TypeOK
  OBVIOUS
<1>1. NoWorker \in Worker
  BY DEF NoWorker, Worker, Owners
<1>2. [user |-> Nobody, session |-> Nobody] \in Scope
  BY DEF Scope, Owners, Browsers
<1> QED
  BY <1>1, <1>2, NoRowType, ConstantsOK DEF Init, TypeOK

LEMMA StepType == TypeOK /\ [Next]_vars => TypeOK'
<1> SUFFICES ASSUME TypeOK, [Next]_vars PROVE TypeOK'
  OBVIOUS
<1> USE DEF TypeOK
<1>1. ASSUME NEW j \in Jobs, NEW u \in Owners, NEW s \in Browsers, Submit(j, u, s) PROVE TypeOK'
  BY <1>1 DEF Submit, Scope
<1>2. ASSUME NEW j \in Jobs, Refuse(j) PROVE TypeOK'
  BY <1>2 DEF Refuse
<1>3. ASSUME NEW j \in Jobs, CreateJob(j) PROVE TypeOK'
  BY <1>3, QueuedRowType, WorkerType DEF CreateJob, Live, Running
<1>4. ASSUME NEW j \in Jobs, CreateFails(j) PROVE TypeOK'
  BY <1>4, QueuedRowType, ConstantsOK DEF CreateFails, DbFault
<1>5. ASSUME NEW j \in Jobs, MarkRunning(j) PROVE TypeOK'
  BY <1>5, StartedRowType, WorkerType DEF MarkRunning, Live, Running
<1>6. ASSUME NEW j \in Jobs, FinalizeJobResult(j) PROVE TypeOK'
  <2>1. worker[j].result \in {"none", "upstream", "local", "oss", "error"}
    BY DEF Worker
  <2>2. row' \in [Jobs -> Row]
    BY <1>6, <2>1, FinishedRowType DEF FinalizeJobResult
  <2>3. worker' \in [Jobs -> Worker]
    BY <1>6, WorkerType DEF FinalizeJobResult, AfterFinish, Live, Publishing
  <2>4. optedIn' \in [Jobs -> BOOLEAN]
    BY <1>6 DEF FinalizeJobResult
  <2> QED
    BY <1>6, <2>2, <2>3, <2>4 DEF FinalizeJobResult
<1>7. ASSUME NEW u \in Users, NEW s \in Sessions, MigrateAnonymousJobs(u, s) PROVE TypeOK'
  <2>2. row' \in [Jobs -> Row]
    BY <1>7, ClaimedRowType DEF MigrateAnonymousJobs
  <2>3. optedIn' \in [Jobs -> BOOLEAN]
    BY <1>7 DEF MigrateAnonymousJobs
  <2> QED
    BY <1>7, <2>2, <2>3 DEF MigrateAnonymousJobs
<1>8. CASE Crash
  <2>1. row' \in [Jobs -> Row]
    BY <1>8, NoRowType DEF Crash
  <2>2. worker' \in [Jobs -> Worker]
    BY <1>8, WorkerType DEF Crash
  <2>3. crashes' \in 0..MaxCrashes
    BY <1>8, ConstantsOK DEF Crash
  <2> QED
    BY <1>8, <2>1, <2>2, <2>3 DEF Crash
<1>9. ASSUME NEW j \in Jobs, ReadOwner(j) PROVE TypeOK'
  <2>0. row[j].user \in Owners
    BY DEF Row
  <2>1. [worker[j] EXCEPT !.pc = "store", !.uid = row[j].user] \in Worker
    BY <2>0, WorkerOwnerType DEF Live, Running
  <2>2. [worker[j] EXCEPT !.pc = "store", !.uid = Nobody] \in Worker
    BY DEF Worker, Live, Running, Owners
  <2> QED
    BY <1>9, <2>1, <2>2 DEF ReadOwner
<1>10. ASSUME NEW u \in Users, NEW on \in BOOLEAN, UpdateSettings(u, on) PROVE TypeOK'
  <2>1. optedIn' \in [Jobs -> BOOLEAN]
    BY <1>10 DEF UpdateSettings
  <2>2. autoPublic' \in [Users -> BOOLEAN]
    BY <1>10 DEF UpdateSettings
  <2> QED
    BY <1>10, <2>1, <2>2 DEF UpdateSettings
<1>11. ASSUME NEW j \in Jobs, Quiet(j) PROVE TypeOK'
  <2>1. worker' \in [Jobs -> Worker]
    <3>1. CASE MarkRunningFails(j)
      BY <3>1, WorkerType DEF MarkRunningFails, Live, Running
    <3>2. CASE Generate(j)
      <4>1. [worker[j] EXCEPT !.pc = "owner", !.result = "upstream"] \in Worker
        BY DEF Worker, Live, Running
      <4>2. [worker[j] EXCEPT !.pc = "finish", !.result = "error"] \in Worker
        BY DEF Worker, Live, Running
      <4> QED
        BY <3>2, <4>1, <4>2 DEF Generate
    <3>3. CASE ReadOwnerFails(j)
      <4>1. [worker[j] EXCEPT !.pc = "store", !.uid = Nobody] \in Worker
        BY DEF Worker, Live, Running, Owners
      <4> QED
        BY <3>3, <4>1 DEF ReadOwnerFails
    <3>4. CASE StoreOutputs(j)
      <4>1. ASSUME NEW r \in Materialized(worker[j].uid)
            PROVE  [worker[j] EXCEPT !.pc = "finish", !.result = r] \in Worker
        BY <4>1 DEF Materialized, Worker, Live, Running
      <4> QED
        BY <3>4, <4>1 DEF StoreOutputs
    <3>5. CASE FinalizeFails(j)
      BY <3>5, WorkerType DEF FinalizeFails, AfterFinish, Live, Publishing
    <3>6. CASE PublishReadJob(j)
      <4>0. row[j].user \in Owners
        BY DEF Row
      <4>1. [worker[j] EXCEPT !.pc = "settings", !.author = row[j].user] \in Worker
        BY <4>0, WorkerOwnerType DEF Live, Publishing
      <4> QED
        BY <3>6, <4>1, WorkerType DEF PublishReadJob
    <3>7. CASE PublishReadSettings(j)
      BY <3>7, WorkerType DEF PublishReadSettings, Live, Publishing
    <3>8. CASE PublishFails(j)
      BY <3>8, WorkerType DEF PublishFails
    <3> QED
      BY <1>11, <3>1, <3>2, <3>3, <3>4, <3>5, <3>6, <3>7, <3>8 DEF Quiet
  <2>2. faults' \in 0..MaxFaults
    BY <1>11, ConstantsOK DEF Quiet, MarkRunningFails, Generate, ReadOwnerFails, StoreOutputs,
                FinalizeFails, PublishReadJob, PublishReadSettings, PublishFails, DbFault
  <2> QED
    BY <1>11, <2>1, <2>2 DEF Quiet, MarkRunningFails, Generate, ReadOwnerFails, StoreOutputs,
                FinalizeFails, PublishReadJob, PublishReadSettings, PublishFails
<1>12. ASSUME NEW j \in Jobs, PublishSetVisibility(j) PROVE TypeOK'
  BY <1>12, WithVisibilityType, WorkerType DEF PublishSetVisibility
<1>13. ASSUME NEW j \in Jobs, NEW u \in Users, NEW v \in {"private", "public"},
              SetVisibility(j, u, v)
       PROVE TypeOK'
  BY <1>13, WithVisibilityType DEF SetVisibility
<1>14. ASSUME NEW j \in Jobs, Reply(j) PROVE TypeOK'
  BY <1>14 DEF Reply
<1>15. ASSUME NEW j \in Jobs, ReplyFails(j) PROVE TypeOK'
  BY <1>15, ConstantsOK DEF ReplyFails, DbFault
<1>16. ASSUME NEW j \in Jobs, Evict(j) PROVE TypeOK'
  BY <1>16, NoRowType DEF Evict
<1>17. CASE UNCHANGED vars
  BY <1>17 DEF vars
<1> QED
  BY <1>1, <1>2, <1>3, <1>4, <1>5, <1>6, <1>7, <1>8, <1>9, <1>10, <1>11, <1>12, <1>13, <1>14,
     <1>15, <1>16, <1>17
     DEF Next, HandleGenerate, RunJob, Quiet

\* The state of every job always has its type.
THEOREM TypeCorrect == Spec => []TypeOK
<1>1. Init => TypeOK
  BY InitType
<1>2. TypeOK /\ [Next]_vars => TypeOK'
  BY StepType
<1> QED
  BY <1>1, <1>2, PTL DEF Spec
-----------------------------------------------------------------------------
(* The inductive invariant, one job at a time *)

\* What IInv says of one job.
Good(j) ==
  /\ Fresh(j)
  /\ Empty(j)
  /\ Unsettled(j)
  /\ Delivering(j)
  /\ Authored(j)
  /\ Noted(j)
  /\ row[j].finished <=> row[j].status \in Terminal
  /\ row[j].images # "none" <=> row[j].status = "succeeded"
  /\ row[j].status = "running" => row[j].started
  /\ row[j].user = Nobody \/ row[j].session = Nobody
  /\ row[j].images = "oss" => row[j].user # Nobody
  /\ worker[j].uid # Nobody /\ Present(j) => row[j].user = worker[j].uid
  /\ row[j].visibility = "public" => row[j].user # Nobody /\ (asked[j] \/ optedIn[j])

LEMMA IInvIsGood == IInv <=> TypeOK /\ \A j \in Jobs : Good(j)
BY DEF IInv, Good, ResultMatchesStatus, OneOwner, ChargedToOwner, PublishedWithConsent

LEMMA Untouched ==
  ASSUME NEW j \in Jobs, Good(j),
         row'[j] = row[j], worker'[j] = worker[j], autoPublic' = autoPublic,
         asked'[j] = asked[j], optedIn'[j] = optedIn[j],
         handler'[j] \in {"idle", "entered"} => handler[j] \in {"idle", "entered"}
  PROVE  Good(j)'
BY DEF Good, Fresh, Empty, Unsettled, Delivering, Authored, Noted, Present, OptedInNow

LEMMA InitGood == Init => IInv
<1> SUFFICES ASSUME Init, NEW j \in Jobs PROVE Good(j)
  BY InitType, IInvIsGood
<1> QED
  BY DEF Init, Good, Fresh, Empty, Unsettled, Delivering, Authored, Noted, Present, OptedInNow,
         NoRow, NoWorker, Terminal

LEMMA HandlerGood ==
  ASSUME TypeOK, NEW j \in Jobs, NEW k \in Jobs, Good(k), HandleGenerate(j)
  PROVE  Good(k)'
<1> USE DEF TypeOK
<1>1. ASSUME NEW u \in Owners, NEW s \in Browsers, Submit(j, u, s) PROVE Good(k)'
  BY <1>1, Untouched DEF Submit
<1>2. CASE Refuse(j)
  BY <1>2, Untouched DEF Refuse
<1>3. CASE CreateJob(j)
  <2>1. CASE k # j
    BY <1>3, <2>1, Untouched DEF CreateJob
  <2>2. CASE k = j
    <3>1. row[j] = NoRow /\ worker[j] = NoWorker
      BY <1>3, <2>2 DEF CreateJob, Good, Fresh
    <3>2. row'[j] = QueuedRow(j) /\ worker'[j] = [NoWorker EXCEPT !.pc = "start"]
      BY <1>3, <3>1 DEF CreateJob
    <3>3. handler'[j] = "created"
      BY <1>3 DEF CreateJob
    <3> QED
      BY <2>2, <3>2, <3>3 DEF Good, Fresh, Empty, Unsettled, Delivering, Authored, Noted, Present,
         OptedInNow, QueuedRow, NoRow, NoWorker, Terminal
  <2> QED
    BY <2>1, <2>2
<1>4. CASE CreateFails(j)
  <2>1. CASE k # j \/ row' = row
    BY <1>4, <2>1, Untouched DEF CreateFails
  <2>2. CASE k = j /\ row' # row
    <3>1. worker'[j] = NoWorker
      BY <1>4, <2>2 DEF CreateFails, Good, Fresh
    <3>2. row'[j] = QueuedRow(j) /\ handler'[j] = "refused"
      BY <1>4, <2>2 DEF CreateFails
    <3> QED
      BY <2>2, <3>1, <3>2 DEF Good, Fresh, Empty, Unsettled, Delivering, Authored, Noted, Present,
         OptedInNow, QueuedRow, NoRow, NoWorker, Terminal
  <2> QED
    BY <2>1, <2>2
<1>5. CASE Reply(j)
  BY <1>5, Untouched DEF Reply
<1>6. CASE ReplyFails(j)
  BY <1>6, Untouched DEF ReplyFails
<1> QED
  BY <1>1, <1>2, <1>3, <1>4, <1>5, <1>6 DEF HandleGenerate
LEMMA WorkerGood ==
  ASSUME TypeOK, NEW j \in Jobs, NEW k \in Jobs, Good(k), RunJob(j)
  PROVE  Good(k)'
<1> USE DEF TypeOK
<1>1. CASE k # j
  <2>1. row'[k] = row[k] /\ worker'[k] = worker[k] /\ optedIn'[k] = optedIn[k]
    BY <1>1 DEF RunJob, MarkRunning, MarkRunningFails, Generate, ReadOwner, ReadOwnerFails,
       StoreOutputs, FinalizeJobResult, FinalizeFails, PublishReadJob, PublishReadSettings,
       PublishSetVisibility, WithVisibility, PublishFails
  <2>2. UNCHANGED <<autoPublic, asked, handler>>
    BY DEF RunJob, MarkRunning, MarkRunningFails, Generate, ReadOwner, ReadOwnerFails,
       StoreOutputs, FinalizeJobResult, FinalizeFails, PublishReadJob, PublishReadSettings,
       PublishSetVisibility, PublishFails
  <2> QED
    BY <2>1, <2>2, Untouched
<1>2. CASE k = j
  <2> USE <1>2 DEF Good
  <2>1. handler[j] \notin {"idle", "entered"}
    BY DEF Fresh, NoWorker, RunJob, MarkRunning, MarkRunningFails, Generate, ReadOwner,
       ReadOwnerFails, StoreOutputs, FinalizeJobResult, FinalizeFails, PublishReadJob,
       PublishReadSettings, PublishSetVisibility, PublishFails, Publishing
  <2>2. CASE MarkRunning(j)
    BY <2>1, <2>2 DEF MarkRunning, StartedRow, Row, Worker, Fresh, Empty, Unsettled, Delivering, Authored,
       Noted, Present, OptedInNow, Running, Terminal
  <2>3. CASE MarkRunningFails(j)
    BY <2>1, <2>3 DEF MarkRunningFails, Worker, Fresh, Empty, Unsettled, Delivering, Authored, Noted,
       Present, OptedInNow, Running
  <2>4. CASE Generate(j)
    BY <2>1, <2>4 DEF Generate, Worker, Fresh, Empty, Unsettled, Delivering, Authored, Noted, Present,
       OptedInNow, Running
  <2>5. CASE ReadOwner(j)
    BY <2>1, <2>5 DEF ReadOwner, Worker, Fresh, Empty, Unsettled, Delivering, Authored, Noted, Present,
       OptedInNow, Running
  <2>6. CASE ReadOwnerFails(j)
    BY <2>1, <2>6 DEF ReadOwnerFails, Worker, Fresh, Empty, Unsettled, Delivering, Authored, Noted,
       Present, OptedInNow, Running
  <2>7. CASE StoreOutputs(j)
    BY <2>1, <2>7 DEF StoreOutputs, Materialized, UsesObjectStore, Worker, Fresh, Empty, Unsettled,
       Delivering, Authored, Noted, Present, OptedInNow, Running
  <2>8. CASE FinalizeJobResult(j)
    <3>1. worker'[j] = [worker[j] EXCEPT !.pc = AfterFinish(worker[j].result)]
      BY <2>8 DEF FinalizeJobResult
    <3>2. row'[j] = IF Present(j) THEN FinishedRow(row[j], worker[j].result) ELSE row[j]
      BY <2>8 DEF FinalizeJobResult
    <3>3. optedIn'[j] = (optedIn[j] \/ (worker[j].result # "error" /\ OptedInNow(row[j].user)))
      BY <2>8 DEF FinalizeJobResult
    <3>4. UNCHANGED <<autoPublic, asked, handler>>
      BY <2>8 DEF FinalizeJobResult
    <3>5. worker[j].pc = "finish" /\ row[j] \in Row /\ worker[j] \in Worker
      BY <2>8 DEF FinalizeJobResult
    <3> QED
      BY <2>1, <3>1, <3>2, <3>3, <3>4, <3>5 DEF FinishedRow, AfterFinish, Row, Worker, Fresh, Empty,
         Unsettled, Delivering, Authored, Noted, Present, OptedInNow, Running, Terminal
  <2>9. CASE FinalizeFails(j)
    BY <2>1, <2>9 DEF FinalizeFails, AfterFinish, Worker, Fresh, Empty, Unsettled, Delivering, Authored,
       Noted, Present, OptedInNow, Running
  <2>10. CASE PublishReadJob(j)
    BY <2>1, <2>10 DEF PublishReadJob, Worker, Row, Owners, Fresh, Empty, Unsettled, Delivering, Authored,
       Noted, Present, OptedInNow, Running
  <2>11. CASE PublishReadSettings(j)
    BY <2>1, <2>11 DEF PublishReadSettings, Worker, Fresh, Empty, Unsettled, Delivering, Authored, Noted,
       Present, OptedInNow, Running
  <2>12. CASE PublishSetVisibility(j)
    BY <2>1, <2>12, ConstantsOK DEF PublishSetVisibility, WithVisibility, Row, Worker, Fresh, Empty,
       Unsettled, Delivering, Authored, Noted, Present, OptedInNow, Running, Terminal
  <2>13. CASE PublishFails(j)
    BY <2>1, <2>13 DEF PublishFails, Worker, Fresh, Empty, Unsettled, Delivering, Authored, Noted,
       Present, OptedInNow, Running
  <2> QED
    BY <2>2, <2>3, <2>4, <2>5, <2>6, <2>7, <2>8, <2>9, <2>10, <2>11, <2>12, <2>13 DEF RunJob
<1> QED
  BY <1>1, <1>2
\* What the other requests and the environment do, to every job at once.
Environment ==
  \/ \E j \in Jobs : Evict(j)
  \/ \E j \in Jobs, u \in Users, v \in {"private", "public"} : SetVisibility(j, u, v)
  \/ \E u \in Users, on \in BOOLEAN : UpdateSettings(u, on)
  \/ \E u \in Users, s \in Sessions : MigrateAnonymousJobs(u, s)
  \/ Crash

LEMMA EnvironmentGood ==
  ASSUME TypeOK, NEW k \in Jobs, Good(k), Environment
  PROVE  Good(k)'
<1> USE DEF TypeOK
<1>1. ASSUME NEW j \in Jobs, Evict(j) PROVE Good(k)'
  <2>1. CASE k # j
    BY <1>1, <2>1, Untouched DEF Evict
  <2>2. CASE k = j
    <3>1. row'[k] = NoRow /\ UNCHANGED <<worker, handler, autoPublic, asked, optedIn>>
      BY <1>1, <2>2 DEF Evict
    <3> QED
      BY <3>1 DEF Good, Fresh, Empty, Unsettled, Delivering, Authored, Noted, Present, OptedInNow, NoRow,
         Terminal
  <2> QED
    BY <2>1, <2>2
<1>2. ASSUME NEW j \in Jobs, NEW u \in Users, NEW v \in {"private", "public"},
             SetVisibility(j, u, v)
      PROVE  Good(k)'
  <2>1. CASE k # j
    BY <1>2, <2>1, Untouched DEF SetVisibility, WithVisibility
  <2>2. CASE k = j
    <3>1. row'[k] = [row[k] EXCEPT !.visibility = v] /\ row[k].user = u /\ Present(k)
      BY <1>2, <2>2 DEF SetVisibility, WithVisibility
    <3>2. asked'[k] = (asked[k] \/ v = "public")
      BY <1>2, <2>2 DEF SetVisibility
    <3>3. UNCHANGED <<worker, handler, autoPublic, optedIn>>
      BY <1>2 DEF SetVisibility
    <3>4. row[k] \in Row /\ worker[k] \in Worker /\ u # Nobody
      BY ConstantsOK
    <3>5. /\ row'[k].visibility = v
          /\ row'[k].status = row[k].status /\ row'[k].user = row[k].user
          /\ row'[k].session = row[k].session /\ row'[k].images = row[k].images
          /\ row'[k].started = row[k].started /\ row'[k].finished = row[k].finished
      BY <3>1, <3>4 DEF Row
    <3>6. handler[k] \notin {"idle", "entered"}
      BY <3>1 DEF Good, Fresh, NoRow, Present
    <3> QED
      BY <3>1, <3>2, <3>3, <3>4, <3>5, <3>6 DEF Good, Fresh, Empty, Unsettled, Delivering, Authored,
         Noted, Present, OptedInNow
  <2> QED
    BY <2>1, <2>2
<1>3. ASSUME NEW u \in Users, NEW on \in BOOLEAN, UpdateSettings(u, on) PROVE Good(k)'
  <2>1. UNCHANGED <<row, worker, handler, asked>>
    BY <1>3 DEF UpdateSettings
  <2>2. optedIn'[k] = (optedIn[k] \/ (on /\ row[k].user = u /\ row[k].status = "succeeded"))
    BY <1>3 DEF UpdateSettings
  <2>3. autoPublic' = [autoPublic EXCEPT ![u] = on]
    BY <1>3 DEF UpdateSettings
  <2> QED
    BY <2>1, <2>2, <2>3 DEF Good, Fresh, Empty, Unsettled, Delivering, Authored, Noted, Present, OptedInNow
<1>4. ASSUME NEW u \in Users, NEW s \in Sessions, MigrateAnonymousJobs(u, s) PROVE Good(k)'
  <2>1. UNCHANGED <<worker, handler, autoPublic, asked>>
    BY <1>4 DEF MigrateAnonymousJobs
  <2>2. row'[k] = IF Present(k) /\ row[k].session = s /\ row[k].user = Nobody
                  THEN [row[k] EXCEPT !.user = u, !.session = Nobody] ELSE row[k]
    BY <1>4 DEF MigrateAnonymousJobs
  <2>3. optedIn'[k] = (optedIn[k] \/
                         (row'[k].user = u /\ row[k].status = "succeeded" /\ autoPublic[u]))
    BY <1>4 DEF MigrateAnonymousJobs
  <2>4. row[k] \in Row /\ worker[k] \in Worker /\ u # Nobody /\ s # Nobody
    BY ConstantsOK
  <2>5. CASE row'[k] = row[k]
    BY <2>1, <2>3, <2>5 DEF Good, Fresh, Empty, Unsettled, Delivering, Authored, Noted, Present, OptedInNow
  <2>6. CASE row'[k] # row[k]
    <3>1. Present(k) /\ row[k].user = Nobody /\ row'[k] = [row[k] EXCEPT !.user = u, !.session = Nobody]
      BY <2>2, <2>6
    <3>2. /\ row'[k].user = u /\ row'[k].session = Nobody
          /\ row'[k].status = row[k].status /\ row'[k].images = row[k].images
          /\ row'[k].started = row[k].started /\ row'[k].finished = row[k].finished
          /\ row'[k].visibility = row[k].visibility
      BY <2>4, <3>1 DEF Row
    <3>3. handler[k] \notin {"idle", "entered"}
      BY <3>1 DEF Good, Fresh, NoRow, Present
    <3>4. worker[k].pc \notin {"settings", "list"} /\ worker[k].uid = Nobody
      BY <2>4, <3>1, ConstantsOK DEF Good, Authored
    <3> QED
      BY <2>1, <2>3, <2>4, <3>1, <3>2, <3>3, <3>4 DEF Good, Fresh, Empty, Unsettled, Delivering, Authored,
         Noted, Present, OptedInNow
  <2> QED
    BY <2>5, <2>6
<1>5. CASE Crash
  <2>1. UNCHANGED <<autoPublic, asked, optedIn>>
    BY <1>5 DEF Crash
  <2>2. row'[k] = row[k] \/ row'[k] = NoRow
    BY <1>5 DEF Crash
  <2>3. worker'[k] = IF worker[k].pc \in Live THEN [worker[k] EXCEPT !.pc = "dead"] ELSE worker[k]
    BY <1>5 DEF Crash
  <2>4. handler'[k] = IF handler[k] \in {"entered", "created"} THEN "aborted" ELSE handler[k]
    BY <1>5 DEF Crash
  <2>5. worker[k] \in Worker
    OBVIOUS
  <2>6. worker'[k].uid = worker[k].uid /\ (worker'[k] = worker[k] \/ worker'[k].pc = "dead")
    BY <2>3, <2>5 DEF Worker
  <2>7. CASE row'[k] = row[k]
    BY <2>1, <2>3, <2>4, <2>6, <2>7 DEF Good, Fresh, Empty, Unsettled, Delivering, Authored, Noted,
       Present, OptedInNow, NoWorker, Live, Running, Publishing
  <2>8. CASE row'[k] = NoRow
    BY <2>1, <2>3, <2>4, <2>6, <2>8 DEF Good, Fresh, Empty, Unsettled, Delivering, Authored, Noted,
       Present, OptedInNow, NoRow, NoWorker, Live, Running, Publishing, Terminal
  <2> QED
    BY <2>2, <2>7, <2>8
<1> QED
  BY <1>1, <1>2, <1>3, <1>4, <1>5 DEF Environment

LEMMA StepGood == IInv /\ [Next]_vars => IInv'
<1> SUFFICES ASSUME IInv, [Next]_vars PROVE IInv'
  OBVIOUS
<1>1. TypeOK /\ TypeOK' /\ \A k \in Jobs : Good(k)
  BY StepType, IInvIsGood DEF IInv
<1>2. ASSUME NEW k \in Jobs PROVE Good(k)'
  <2>1. CASE UNCHANGED vars
    BY <1>1, <2>1, Untouched DEF vars
  <2>2. CASE Next
    BY <1>1, <2>2, HandlerGood, WorkerGood, EnvironmentGood DEF Next, Environment
  <2> QED
    BY <2>1, <2>2
<1> QED
  BY <1>1, <1>2 DEF IInv, Good, ResultMatchesStatus, OneOwner, ChargedToOwner, PublishedWithConsent

\* The inductive invariant holds of every state that handlers, goroutines and restarts reach.
THEOREM Inductive == Spec => []IInv
<1>1. Init => IInv
  BY InitGood
<1>2. IInv /\ [Next]_vars => IInv'
  BY StepGood
<1> QED
  BY <1>1, <1>2, PTL DEF Spec
-----------------------------------------------------------------------------
(* The safety invariants *)

\* Status, start and finish time, and images of a row always agree.
THEOREM ResultsAgree == Spec => []ResultMatchesStatus
<1>1. IInv => ResultMatchesStatus
  BY DEF IInv
<1> QED
  BY <1>1, Inductive, PTL

\* No job is owned by a user and by an anonymous browser at once.
THEOREM NeverShared == Spec => []OneOwner
<1>1. IInv => OneOwner
  BY DEF IInv
<1> QED
  BY <1>1, Inductive, PTL

\* Object storage is used, and charged, under the owner of the finished job.
THEOREM RightAccount == Spec => []ChargedToOwner
<1>1. IInv => ChargedToOwner
  BY DEF IInv
<1> QED
  BY <1>1, Inductive, PTL

\* No job enters the community feed without its owner's request or setting.
THEOREM NeverListedUnasked == Spec => []PublishedWithConsent
<1>1. IInv => PublishedWithConsent
  BY DEF IInv
<1> QED
  BY <1>1, Inductive, PTL
-----------------------------------------------------------------------------
(* The action properties *)

\* All that one step can do to a row.
LEMMA RowStep ==
  ASSUME IInv, [Next]_vars, NEW k \in Jobs
  PROVE  \/ row'[k] = row[k]
         \/ row'[k] = NoRow
         \/ row[k] = NoRow /\ row'[k] = QueuedRow(k)
         \/ worker[k].pc = "start" /\ row'[k] = StartedRow(row[k])
         \/ worker[k].pc = "finish" /\ row'[k] = FinishedRow(row[k], worker[k].result)
         \/ \E v \in {"private", "public"} : row'[k] = [row[k] EXCEPT !.visibility = v]
         \/ /\ row[k].user = Nobody
            /\ \E u \in Users : row'[k] = [row[k] EXCEPT !.user = u, !.session = Nobody]
<1> USE DEF IInv, TypeOK
<1>1. ASSUME NEW j \in Jobs, HandleGenerate(j)
      PROVE  row'[k] = row[k] \/ (row[k] = NoRow /\ row'[k] = QueuedRow(k))
  BY <1>1 DEF HandleGenerate, Submit, Refuse, CreateJob, CreateFails, Reply, ReplyFails, Fresh
<1>2. ASSUME NEW j \in Jobs, RunJob(j)
      PROVE  \/ row'[k] = row[k]
             \/ worker[k].pc = "start" /\ row'[k] = StartedRow(row[k])
             \/ worker[k].pc = "finish" /\ row'[k] = FinishedRow(row[k], worker[k].result)
             \/ row'[k] = [row[k] EXCEPT !.visibility = "public"]
  <2>1. CASE MarkRunning(j)
    BY <2>1 DEF MarkRunning
  <2>2. CASE FinalizeJobResult(j)
    BY <2>2 DEF FinalizeJobResult
  <2>3. CASE PublishSetVisibility(j)
    BY <2>3 DEF PublishSetVisibility, WithVisibility
  <2>4. CASE row' = row
    BY <2>4
  <2> QED
    BY <1>2, <2>1, <2>2, <2>3, <2>4 DEF RunJob, MarkRunningFails, Generate, ReadOwner,
       ReadOwnerFails, StoreOutputs, FinalizeFails, PublishReadJob, PublishReadSettings, PublishFails
<1>3. CASE Environment
  <2>1. ASSUME NEW j \in Jobs, Evict(j) PROVE row'[k] \in {row[k], NoRow}
    BY <2>1 DEF Evict
  <2>2. ASSUME NEW j \in Jobs, NEW u \in Users, NEW v \in {"private", "public"},
               SetVisibility(j, u, v)
        PROVE  \/ row'[k] = row[k]
               \/ \E w \in {"private", "public"} : row'[k] = [row[k] EXCEPT !.visibility = w]
    BY <2>2 DEF SetVisibility, WithVisibility
  <2>3. ASSUME NEW u \in Users, NEW on \in BOOLEAN, UpdateSettings(u, on)
        PROVE  row'[k] = row[k]
    BY <2>3 DEF UpdateSettings
  <2>4. ASSUME NEW u \in Users, NEW s \in Sessions, MigrateAnonymousJobs(u, s)
        PROVE  \/ row'[k] = row[k]
               \/ /\ row[k].user = Nobody
                  /\ \E w \in Users : row'[k] = [row[k] EXCEPT !.user = w, !.session = Nobody]
    BY <2>4 DEF MigrateAnonymousJobs
  <2>5. CASE Crash
    BY <2>5 DEF Crash
  <2> QED
    BY <1>3, <2>1, <2>2, <2>3, <2>4, <2>5 DEF Environment
<1>4. CASE UNCHANGED vars
  BY <1>4 DEF vars
<1> QED
  BY <1>1, <1>2, <1>3, <1>4 DEF Next, Environment

\* What that means for the columns the properties read.
LEMMA ColumnStep ==
  ASSUME IInv, [Next]_vars, NEW k \in Jobs, Present(k), row'[k].status # "absent"
  PROVE  /\ row[k].user # Nobody => row'[k].user = row[k].user
         /\ \/ row'[k].status = row[k].status /\ row'[k].images = row[k].images
            \/ worker[k].pc \in {"start", "finish"} /\ row'[k].status # "queued"
<1>1. row[k] \in Row
  BY DEF IInv, TypeOK
<1>2. row[k] # NoRow /\ row'[k] # NoRow
  BY DEF NoRow, Present
<1>3. CASE row'[k] = row[k]
  BY <1>3
<1>4. CASE worker[k].pc = "start" /\ row'[k] = StartedRow(row[k])
  BY <1>1, <1>4 DEF StartedRow, Row
<1>5. CASE worker[k].pc = "finish" /\ row'[k] = FinishedRow(row[k], worker[k].result)
  BY <1>1, <1>5 DEF FinishedRow, Row
<1>6. ASSUME NEW v \in {"private", "public"}, row'[k] = [row[k] EXCEPT !.visibility = v]
      PROVE  /\ row'[k].user = row[k].user
             /\ row'[k].status = row[k].status /\ row'[k].images = row[k].images
  BY <1>1, <1>6 DEF Row
<1>7. ASSUME NEW u \in Users, row'[k] = [row[k] EXCEPT !.user = u, !.session = Nobody]
      PROVE  row'[k].status = row[k].status /\ row'[k].images = row[k].images
  BY <1>1, <1>7 DEF Row
<1> QED
  BY <1>2, <1>3, <1>4, <1>5, <1>6, <1>7, RowStep

\* A job that has a user keeps that user for as long as its row is kept.
THEOREM OwnersStick == Spec => OwnerIsSticky
<1>1. ASSUME IInv, [Next]_vars, NEW k \in Jobs,
             row[k].user # Nobody, row'[k].status # "absent"
      PROVE  row'[k].user = row[k].user
  <2>1. CASE Present(k)
    BY <1>1, <2>1, ColumnStep
  <2>2. CASE ~Present(k)
    BY <1>1, <2>2 DEF IInv, Empty, NoRow
  <2> QED
    BY <2>1, <2>2
<1>2. IInv /\ [Next]_vars =>
        [\A j \in Jobs :
           row[j].user # Nobody /\ row'[j].status # "absent" => row'[j].user = row[j].user]_vars
  BY <1>1
<1> QED
  BY <1>2, Inductive, PTL DEF Spec, OwnerIsSticky

\* A terminal status is final, and no started job returns to the queue.
THEOREM TerminalStays == Spec => TerminalIsFinal
<1> DEFINE Final(k) ==
      Present(k) /\ row'[k].status # "absent" =>
        /\ row[k].status \in Terminal =>
             row'[k].status = row[k].status /\ row'[k].images = row[k].images
        /\ row[k].status # "queued" => row'[k].status # "queued"
<1>1. ASSUME IInv, [Next]_vars, NEW k \in Jobs PROVE Final(k)
  <2>2. worker[k].pc \in {"start", "finish"} => row[k].status \notin Terminal
    BY <1>1 DEF IInv, Unsettled, Running
  <2> QED
    BY <1>1, <2>2, ColumnStep DEF Terminal
<1>2. IInv /\ [Next]_vars => [\A j \in Jobs : Final(j)]_vars
  BY <1>1
<1> QED
  BY <1>2, Inductive, PTL DEF Spec, TerminalIsFinal
-----------------------------------------------------------------------------
(* Nothing is lost silently *)

\* Other requests leave a status as it is; eviction and restart empty the row.
LEMMA EnvironmentStatus ==
  ASSUME TypeOK, Environment, NEW k \in Jobs
  PROVE  row'[k].status \in {row[k].status, "absent"}
<1>1. row \in [Jobs -> Row] /\ row[k] \in Row
  BY DEF TypeOK
<1>2. ASSUME NEW j \in Jobs, Evict(j) PROVE row'[k].status \in {row[k].status, "absent"}
  BY <1>1, <1>2 DEF Evict, NoRow
<1>3. ASSUME NEW j \in Jobs, NEW u \in Users, NEW v \in {"private", "public"},
             SetVisibility(j, u, v)
      PROVE  row'[k].status = row[k].status
  BY <1>1, <1>3 DEF SetVisibility, WithVisibility, Row
<1>4. ASSUME NEW u \in Users, NEW s \in Sessions, MigrateAnonymousJobs(u, s)
      PROVE  row'[k].status = row[k].status
  BY <1>1, <1>4 DEF MigrateAnonymousJobs, Row
<1>5. ASSUME NEW u \in Users, NEW on \in BOOLEAN, UpdateSettings(u, on)
      PROVE  row'[k].status = row[k].status
  BY <1>5 DEF UpdateSettings
<1>6. CASE Crash
  BY <1>6 DEF Crash, NoRow
<1> QED
  BY <1>2, <1>3, <1>4, <1>5, <1>6 DEF Environment

\* What UnfinishedHasWorker says of one job.
Attended(j) ==
  Healthy =>
    /\ row[j].status \in {"queued", "running"} => worker[j].pc \in Running
    /\ handler[j] \in {"refused", "aborted"} => ~Present(j)

LEMMA AttendedStep ==
  ASSUME IInv, [Next]_vars, NEW k \in Jobs, Attended(k)
  PROVE  Attended(k)'
<1> SUFFICES ASSUME Healthy'
             PROVE  /\ row'[k].status \in {"queued", "running"} => worker'[k].pc \in Running
                    /\ handler'[k] \in {"refused", "aborted"} => row'[k].status = "absent"
  BY DEF Attended, Present
<1> USE DEF IInv, TypeOK
<1>1. faults' = 0 /\ crashes' = 0 /\ faults \in Nat /\ crashes \in Nat
  BY ConstantsOK DEF Healthy
<1>2. ASSUME NEW j \in Jobs, HandleGenerate(j)
      PROVE  /\ row'[k].status \in {"queued", "running"} => worker'[k].pc \in Running
             /\ handler'[k] \in {"refused", "aborted"} => row'[k].status = "absent"
  <2>1. Healthy
    BY <1>1, <1>2 DEF Healthy, HandleGenerate, Submit, Refuse, CreateJob, CreateFails, Reply,
       ReplyFails, DbFault
  <2>2. ASSUME NEW u \in Owners, NEW s \in Browsers, Submit(j, u, s)
        PROVE  UNCHANGED <<row, worker>> /\ handler'[k] \in {handler[k], "entered"}
    BY <2>2 DEF Submit
  <2>3. CASE Refuse(j)
    BY <2>1, <2>3 DEF Refuse, Attended, Present, Fresh, NoRow
  <2>4. CASE CreateJob(j)
    <3>1. CASE k = j
      <4>1. worker'[k].pc = "start"
        BY <2>4, <3>1 DEF CreateJob, Worker
      <4>2. handler'[k] = "created"
        BY <2>4, <3>1 DEF CreateJob
      <4> QED
        BY <4>1, <4>2 DEF Running
    <3>2. CASE k # j
      <4>1. row'[k] = row[k] /\ worker'[k] = worker[k] /\ handler'[k] = handler[k]
        BY <2>4, <3>2 DEF CreateJob
      <4> QED
        BY <2>1, <4>1 DEF Attended, Present
    <3> QED
      BY <3>1, <3>2
  <2>5. CASE Reply(j)
    BY <2>1, <2>5 DEF Reply, Attended, Present
  <2>6. ~CreateFails(j) /\ ~ReplyFails(j)
    BY <1>1 DEF CreateFails, ReplyFails, DbFault
  <2> QED
    BY <1>2, <2>1, <2>2, <2>3, <2>4, <2>5, <2>6 DEF HandleGenerate, Attended, Present
<1>3. ASSUME NEW j \in Jobs, RunJob(j)
      PROVE  /\ row'[k].status \in {"queued", "running"} => worker'[k].pc \in Running
             /\ handler'[k] \in {"refused", "aborted"} => row'[k].status = "absent"
  <2>1. Healthy /\ handler' = handler
    BY <1>1, <1>3 DEF Healthy, RunJob, MarkRunning, MarkRunningFails, Generate, ReadOwner,
       ReadOwnerFails, StoreOutputs, FinalizeJobResult, FinalizeFails, PublishReadJob,
       PublishReadSettings, PublishSetVisibility, PublishFails, DbFault
  <2>2. ~DbFault
    BY <1>1, <2>1 DEF Healthy, DbFault
  <2>3. row'[k].status = "absent" <=> row[k].status = "absent"
    <3>1. row[k] \in Row
      OBVIOUS
    <3>2. CASE MarkRunning(j)
      BY <3>1, <3>2 DEF MarkRunning, StartedRow, Row, Present
    <3>3. CASE FinalizeJobResult(j)
      BY <3>1, <3>3 DEF FinalizeJobResult, FinishedRow, Row, Present
    <3>4. CASE PublishSetVisibility(j)
      BY <3>1, <3>4 DEF PublishSetVisibility, WithVisibility, Row
    <3>5. CASE row' = row
      BY <3>5
    <3> QED
      BY <1>3, <3>2, <3>3, <3>4, <3>5 DEF RunJob, MarkRunningFails, Generate, ReadOwner,
         ReadOwnerFails, StoreOutputs, FinalizeFails, PublishReadJob, PublishReadSettings,
         PublishFails
  <2>4. row'[k].status \in {"queued", "running"} => worker'[k].pc \in Running
    <3>1. CASE k # j
      <4>1. row'[k] = row[k] /\ worker'[k] = worker[k]
        BY <1>3, <3>1 DEF RunJob, MarkRunning, MarkRunningFails, Generate, ReadOwner,
           ReadOwnerFails, StoreOutputs, FinalizeJobResult, FinalizeFails, PublishReadJob,
           PublishReadSettings, PublishSetVisibility, WithVisibility, PublishFails
      <4> QED
        BY <2>1, <4>1 DEF Attended
    <3>2. CASE k = j
      <4>1. worker[k] \in Worker /\ row[k] \in Row
        OBVIOUS
      <4>2. CASE worker[k].pc \in {"start", "upstream", "owner", "store"}
        <5>1. worker'[k].pc \in Running
          BY <1>3, <2>2, <3>2, <4>1, <4>2 DEF RunJob, MarkRunning, MarkRunningFails, Generate,
             ReadOwner, ReadOwnerFails, StoreOutputs, FinalizeJobResult, FinalizeFails,
             PublishReadJob, PublishReadSettings, PublishSetVisibility, PublishFails,
             Worker, Running
        <5> QED
          BY <5>1
      <4>3. CASE worker[k].pc = "finish"
        <5>1. FinalizeJobResult(k)
          BY <1>3, <2>2, <3>2, <4>3 DEF RunJob, MarkRunning, MarkRunningFails, Generate,
             ReadOwner, ReadOwnerFails, StoreOutputs, FinalizeFails, PublishReadJob,
             PublishReadSettings, PublishSetVisibility, PublishFails, Publishing
        <5> QED
          BY <4>1, <5>1 DEF FinalizeJobResult, FinishedRow, Row, Present
      <4>4. CASE worker[k].pc \notin Running
        <5>1. row[k].status \notin {"queued", "running"}
          BY <2>1, <4>4 DEF Attended
        <5>2. row'[k] = row[k] \/ row'[k] = [row[k] EXCEPT !.visibility = "public"]
          BY <1>3, <3>2, <4>4 DEF RunJob, MarkRunning, MarkRunningFails, Generate,
             ReadOwner, ReadOwnerFails, StoreOutputs, FinalizeJobResult, FinalizeFails,
             PublishReadJob, PublishReadSettings, PublishSetVisibility, WithVisibility,
             PublishFails, Running
        <5> QED
          BY <4>1, <5>1, <5>2 DEF Row
      <4> QED
        BY <4>2, <4>3, <4>4 DEF Running
    <3> QED
      BY <3>1, <3>2
  <2> QED
    BY <2>1, <2>3, <2>4 DEF Attended, Present
<1>4. ASSUME Environment \/ UNCHANGED vars
      PROVE  /\ row'[k].status \in {"queued", "running"} => worker'[k].pc \in Running
             /\ handler'[k] \in {"refused", "aborted"} => row'[k].status = "absent"
  <2>1. ~Crash
    BY <1>1 DEF Crash
  <2>2. Healthy /\ UNCHANGED <<worker, handler>>
    BY <1>1, <1>4, <2>1 DEF Healthy, Environment, Evict, SetVisibility, UpdateSettings,
       MigrateAnonymousJobs, vars
  <2>3. row'[k].status \in {row[k].status, "absent"}
    BY <1>4, <2>1, EnvironmentStatus DEF vars
  <2> QED
    BY <2>2, <2>3 DEF Attended, Present
<1> QED
  BY <1>2, <1>3, <1>4 DEF Next, Environment

\* While no call fails and nothing restarts, every queued or running row has a
\* goroutine to finish it, and a request that was turned away left no row.
THEOREM NothingLost == Spec => []UnfinishedHasWorker
<1> DEFINE AllAttended == \A j \in Jobs : Attended(j)
<1>1. Init => AllAttended
  BY DEF Init, Attended, NoRow, Present
<1>2. IInv /\ AllAttended /\ [Next]_vars => AllAttended'
  BY AttendedStep
<1>3. AllAttended <=> UnfinishedHasWorker
  BY DEF Attended, UnfinishedHasWorker
<1> QED
  BY <1>1, <1>2, <1>3, Inductive, PTL DEF Spec

-----------------------------------------------------------------------------
(* Progress: the safe part of PollingEnds *)

\* The order of the calls of runJob; the two ends are the same here.
Stage == [none |-> 0, start |-> 1, upstream |-> 2, owner |-> 3, store |-> 4, finish |-> 5,
          job |-> 6, settings |-> 7, list |-> 8, done |-> 9, dead |-> 9]

\* The goroutine of a job goes through its calls in their order, each at most once.
WorkerGoesForward ==
  [][\A j \in Jobs : worker'[j] # worker[j] => Stage[worker'[j].pc] > Stage[worker[j].pc]]_vars

LEMMA RunJobForward ==
  ASSUME TypeOK, NEW j \in Jobs, RunJob(j)
  PROVE  /\ Stage[worker'[j].pc] > Stage[worker[j].pc]
         /\ \A k \in Jobs : k # j => worker'[k] = worker[k]
<1>0. worker \in [Jobs -> Worker] /\ worker[j] \in Worker
  BY DEF TypeOK
<1> DEFINE Moves(a, S) == worker[j].pc = a /\ worker'[j].pc \in S
<1>1. MarkRunning(j) \/ MarkRunningFails(j) => Moves("start", {"upstream"})
  BY <1>0 DEF MarkRunning, MarkRunningFails, Worker
<1>2. Generate(j) => Moves("upstream", {"owner", "finish"})
  BY <1>0 DEF Generate, Worker
<1>3. ReadOwner(j) \/ ReadOwnerFails(j) => Moves("owner", {"store"})
  BY <1>0 DEF ReadOwner, ReadOwnerFails, Worker
<1>4. StoreOutputs(j) => Moves("store", {"finish"})
  BY <1>0 DEF StoreOutputs, Worker
<1>5. FinalizeJobResult(j) \/ FinalizeFails(j) => Moves("finish", {"job", "done"})
  BY <1>0 DEF FinalizeJobResult, FinalizeFails, AfterFinish, Worker
<1>6. PublishReadJob(j) => Moves("job", {"settings", "done"})
  BY <1>0 DEF PublishReadJob, Worker
<1>7. PublishReadSettings(j) => Moves("settings", {"list", "done"})
  BY <1>0 DEF PublishReadSettings, Worker
<1>8. PublishSetVisibility(j) => Moves("list", {"done"})
  BY <1>0 DEF PublishSetVisibility, Worker
<1>9. PublishFails(j) => worker[j].pc \in Publishing /\ worker'[j].pc = "done"
  BY <1>0 DEF PublishFails, Worker
<1>10. \A k \in Jobs : k # j => worker'[k] = worker[k]
  BY <1>0 DEF RunJob, MarkRunning, MarkRunningFails, Generate, ReadOwner, ReadOwnerFails,
     StoreOutputs, FinalizeJobResult, FinalizeFails, PublishReadJob, PublishReadSettings,
     PublishSetVisibility, PublishFails
<1> QED
  BY <1>1, <1>2, <1>3, <1>4, <1>5, <1>6, <1>7, <1>8, <1>9, <1>10 DEF RunJob, Stage, Publishing

\* A goroutine makes each of its calls at most once and never goes back, and none starts for a
\* job that had one: an accepted request is sent to the upstream at most once, whatever fails,
\* and runJob has finitely many steps (HandleCompatGenerate, runJob).
THEOREM WorkersGoForward == Spec => WorkerGoesForward
<1> DEFINE Step == \A j \in Jobs : worker'[j] # worker[j] => Stage[worker'[j].pc] > Stage[worker[j].pc]
<1>1. ASSUME IInv, Next
      PROVE  Step
  <2>0. worker \in [Jobs -> Worker] /\ TypeOK
    BY <1>1 DEF IInv, TypeOK
  <2>1. CASE worker' = worker
    BY <2>1
  <2>2. ASSUME NEW j \in Jobs, RunJob(j) PROVE Step
    BY <2>0, <2>2, RunJobForward
  <2>3. ASSUME NEW j \in Jobs, CreateJob(j) PROVE Step
    <3>1. worker[j].pc = "none"
      BY <1>1, <2>3 DEF CreateJob, IInv, Fresh, NoWorker
    <3>2. worker'[j].pc = "start" /\ \A k \in Jobs : k # j => worker'[k] = worker[k]
      BY <2>0, <2>3 DEF CreateJob, Worker
    <3> QED
      BY <3>1, <3>2 DEF Stage
  <2>4. CASE Crash
    <3> SUFFICES ASSUME NEW j \in Jobs, worker'[j] # worker[j]
                 PROVE  Stage[worker'[j].pc] > Stage[worker[j].pc]
      OBVIOUS
    <3>1. worker[j].pc \in Live /\ worker'[j].pc = "dead"
      BY <2>0, <2>4 DEF Crash, Worker
    <3> QED
      BY <3>1 DEF Live, Running, Publishing, Stage
  <2> QED
    BY <1>1, <2>1, <2>2, <2>3, <2>4 DEF Next, HandleGenerate, Submit, Refuse, CreateFails, Reply,
       ReplyFails, Evict, SetVisibility, UpdateSettings, MigrateAnonymousJobs
<1>2. IInv /\ [Next]_vars => [Step]_vars
  BY <1>1
<1> QED
  BY <1>2, Inductive, PTL DEF Spec, WorkerGoesForward

-----------------------------------------------------------------------------
(* While no database call fails, JobLifecycle implements JobSpec: whatever  *)
(* the handler, the goroutine and the other requests interleave, a client   *)
(* that polls sees queued, running, then succeeded or failed, and a job     *)
(* disappears only from the in-memory store.                                *)

\* Without failed calls, the goroutine's progress tells the status of the row.
Staged(j) ==
  /\ worker[j].pc = "start" => row[j].status \in {"queued", "absent"}
  /\ worker[j].pc \in {"upstream", "owner", "store", "finish"} =>
       row[j].status \in {"running", "absent"}

RInv == IInv /\ faults = 0 /\ \A j \in Jobs : Staged(j)

LEMMA NoDbFault ==
  ASSUME MaxFaults = 0, TypeOK
  PROVE  faults = 0 /\ ~DbFault
BY DEF TypeOK, DbFault

LEMMA StagedStep ==
  ASSUME MaxFaults = 0, IInv, [Next]_vars, NEW k \in Jobs, Staged(k)
  PROVE  Staged(k)'
<1> USE NoDbFault DEF IInv, TypeOK
<1>1. ASSUME NEW j \in Jobs, HandleGenerate(j) PROVE Staged(k)'
  <2>1. CASE CreateJob(j) /\ k = j
    <3>1. worker'[k].pc = "start" /\ row'[k].status = "queued"
      BY <2>1 DEF CreateJob, QueuedRow, NoRow, Worker
    <3> QED
      BY <3>1 DEF Staged
  <2>2. CASE ~(CreateJob(j) /\ k = j)
    <3>1. row'[k] = row[k] /\ worker'[k] = worker[k]
      BY <1>1, <2>2 DEF HandleGenerate, Submit, Refuse, CreateJob, CreateFails, Reply, ReplyFails
    <3> QED
      BY <3>1 DEF Staged
  <2> QED
    BY <2>1, <2>2
<1>2. ASSUME NEW j \in Jobs, RunJob(j) PROVE Staged(k)'
  <2>1. CASE k # j
    <3>1. row'[k] = row[k] /\ worker'[k] = worker[k]
      BY <1>2, <2>1 DEF RunJob, MarkRunning, MarkRunningFails, Generate, ReadOwner,
         ReadOwnerFails, StoreOutputs, FinalizeJobResult, FinalizeFails, PublishReadJob,
         PublishReadSettings, PublishSetVisibility, WithVisibility, PublishFails
    <3> QED
      BY <3>1 DEF Staged
  <2>2. CASE k = j /\ MarkRunning(j)
    <3>1. worker'[k].pc = "upstream"
      BY <2>2 DEF MarkRunning, Worker
    <3>2. row'[k].status \in {"running", "absent"}
      BY <2>2 DEF MarkRunning, StartedRow, Row, Present
    <3> QED
      BY <3>1, <3>2 DEF Staged
  <2>3. CASE k = j /\ (Generate(j) \/ ReadOwner(j) \/ StoreOutputs(j))
    <3>1. row'[k] = row[k] /\ worker[k].pc \in {"upstream", "owner", "store"}
      BY <2>3 DEF Generate, ReadOwner, StoreOutputs
    <3>2. worker'[k].pc \in {"owner", "store", "finish"}
      BY <2>3 DEF Generate, ReadOwner, StoreOutputs, Worker
    <3> QED
      BY <3>1, <3>2 DEF Staged
  <2>4. CASE k = j /\ (FinalizeJobResult(j) \/ PublishReadJob(j) \/ PublishReadSettings(j)
                        \/ PublishSetVisibility(j))
    <3>1. worker'[k].pc \in {"job", "done", "settings", "list"}
      BY <2>4 DEF FinalizeJobResult, AfterFinish, PublishReadJob, PublishReadSettings,
         PublishSetVisibility, Worker
    <3> QED
      BY <3>1 DEF Staged
  <2> QED
    BY <1>2, <2>1, <2>2, <2>3, <2>4 DEF RunJob, MarkRunningFails, ReadOwnerFails, FinalizeFails,
       PublishFails
<1>3. CASE Environment
  <2>1. row'[k].status \in {row[k].status, "absent"}
    BY <1>3, EnvironmentStatus
  <2>2. worker'[k] = worker[k] \/ worker'[k].pc = "dead"
    <3>1. CASE Crash
      BY <3>1 DEF Crash, Worker
    <3>2. CASE ~Crash
      BY <1>3, <3>2 DEF Environment, Evict, SetVisibility, UpdateSettings, MigrateAnonymousJobs
    <3> QED
      BY <3>1, <3>2
  <2> QED
    BY <2>1, <2>2 DEF Staged
<1>4. CASE UNCHANGED vars
  BY <1>4 DEF vars, Staged
<1> QED
  BY <1>1, <1>2, <1>3, <1>4 DEF Next, Environment

LEMMA RInvInductive ==
  ASSUME MaxFaults = 0
  PROVE  Spec => []RInv
<1> DEFINE AllStaged == \A j \in Jobs : Staged(j)
<1>1. Init => AllStaged
  <2> SUFFICES ASSUME Init, NEW j \in Jobs PROVE Staged(j)
    OBVIOUS
  <2>1. worker[j].pc = "none"
    BY DEF Init, NoWorker
  <2> QED
    BY <2>1 DEF Staged
<1>2. IInv /\ AllStaged /\ [Next]_vars => AllStaged'
  <2>1. ASSUME IInv, [Next]_vars, NEW k \in Jobs, Staged(k) PROVE Staged(k)'
    BY <2>1, StagedStep
  <2> QED
    BY <2>1
<1>3. IInv /\ AllStaged => RInv
  BY NoDbFault DEF RInv, IInv
<1> QED
  BY <1>1, <1>2, <1>3, Inductive, PTL DEF Spec
-----------------------------------------------------------------------------
(* Steps of the abstract specification *)

LEMMA Stutters ==
  ASSUME TypeOK, deploy' = deploy, \A k \in Jobs : row'[k].status = row[k].status
  PROVE  UNCHANGED Lifecycle!vars
BY DEF Lifecycle!vars

LEMMA OneChanges ==
  ASSUME TypeOK, deploy' = deploy, NEW j \in Jobs,
         \A k \in Jobs \ {j} : row'[k].status = row[k].status,
         \/ row[j].status = "absent" /\ row'[j].status = "queued"
         \/ row[j].status = "queued" /\ row'[j].status = "running"
         \/ row[j].status = "running" /\ row'[j].status \in Terminal
  PROVE  Lifecycle!Next
BY DEF Lifecycle!Next, Lifecycle!Enqueue, Lifecycle!Start, Lifecycle!Settle, Lifecycle!Terminal,
   Terminal

LEMMA SomeVanish ==
  ASSUME TypeOK, deploy' = deploy, deploy.backend = "memory",
         \A k \in Jobs : row'[k].status \in {row[k].status, "absent"}
  PROVE  Lifecycle!Next
<1> DEFINE gone == {k \in Jobs : row'[k].status = "absent"}
<1>1. gone \in SUBSET Jobs
  OBVIOUS
<1>2. [k \in Jobs |-> row'[k].status] =
        [k \in Jobs |-> IF k \in gone THEN "absent" ELSE [i \in Jobs |-> row[i].status][k]]
  OBVIOUS
<1> QED
  BY <1>1, <1>2 DEF Lifecycle!Next, Lifecycle!Forget

LEMMA StepRefines ==
  ASSUME MaxFaults = 0, RInv, [Next]_vars
  PROVE  [Lifecycle!Next]_(Lifecycle!vars)
<1> USE NoDbFault DEF RInv, IInv, TypeOK
<1>1. deploy' = deploy
  BY DEF Next, HandleGenerate, Submit, Refuse, CreateJob, CreateFails, Reply, ReplyFails, RunJob,
     MarkRunning, MarkRunningFails, Generate, ReadOwner, ReadOwnerFails, StoreOutputs,
     FinalizeJobResult, FinalizeFails, PublishReadJob, PublishReadSettings, PublishSetVisibility,
     PublishFails, Evict, SetVisibility, UpdateSettings, MigrateAnonymousJobs, Crash, vars
<1>2. ASSUME NEW j \in Jobs, CreateJob(j) PROVE Lifecycle!Next
  <2>1. row[j].status = "absent" /\ row'[j].status = "queued"
    BY <1>2 DEF CreateJob, Fresh, QueuedRow, NoRow
  <2>2. \A k \in Jobs \ {j} : row'[k].status = row[k].status
    BY <1>2 DEF CreateJob
  <2> QED
    BY <1>1, <2>1, <2>2, OneChanges
<1>3. ASSUME NEW j \in Jobs, MarkRunning(j), Present(j) PROVE Lifecycle!Next
  <2>1. row[j].status = "queued"
    BY <1>3 DEF MarkRunning, Staged, Present
  <2>2. row'[j].status = "running" /\ \A k \in Jobs \ {j} : row'[k].status = row[k].status
    BY <1>3 DEF MarkRunning, StartedRow, Row
  <2> QED
    BY <1>1, <2>1, <2>2, OneChanges
<1>4. ASSUME NEW j \in Jobs, FinalizeJobResult(j), Present(j) PROVE Lifecycle!Next
  <2>1. row[j].status = "running"
    BY <1>4 DEF FinalizeJobResult, Staged, Present
  <2>2. row'[j].status \in Terminal /\ \A k \in Jobs \ {j} : row'[k].status = row[k].status
    BY <1>4 DEF FinalizeJobResult, FinishedRow, Row, Terminal
  <2> QED
    BY <1>1, <2>1, <2>2, OneChanges
<1>5. ASSUME NEW j \in Jobs, PublishSetVisibility(j) PROVE UNCHANGED Lifecycle!vars
  BY <1>1, <1>5, Stutters DEF PublishSetVisibility, WithVisibility, Row
<1>6. CASE Environment
  <2>1. \A k \in Jobs : row'[k].status \in {row[k].status, "absent"}
    BY <1>6, EnvironmentStatus
  <2>2. CASE deploy.backend = "memory"
    BY <1>1, <2>1, <2>2, SomeVanish
  <2>3. CASE deploy.backend # "memory"
    <3>1. ASSUME NEW j \in Jobs, NEW u \in Users, NEW v \in {"private", "public"},
                 SetVisibility(j, u, v)
          PROVE  \A k \in Jobs : row'[k].status = row[k].status
      BY <3>1 DEF SetVisibility, WithVisibility, Row
    <3>2. ASSUME NEW u \in Users, NEW s \in Sessions, MigrateAnonymousJobs(u, s)
          PROVE  \A k \in Jobs : row'[k].status = row[k].status
      <4>1. ASSUME NEW k \in Jobs PROVE row'[k].status = row[k].status
        BY <3>2 DEF MigrateAnonymousJobs, Row
      <4> QED
        BY <4>1
    <3>3. \A k \in Jobs : row'[k].status = row[k].status
      BY <1>6, <2>3, <3>1, <3>2 DEF Environment, Evict, UpdateSettings, Crash
    <3> QED
      BY <1>1, <3>3, Stutters
  <2> QED
    BY <2>2, <2>3
<1>7. CASE row' = row
  BY <1>1, <1>7, Stutters
<1> QED
  BY <1>2, <1>3, <1>4, <1>5, <1>6, <1>7 DEF Next, Environment, HandleGenerate, Submit, Refuse,
     CreateFails, Reply, ReplyFails, RunJob, MarkRunning, MarkRunningFails, Generate, ReadOwner,
     ReadOwnerFails, StoreOutputs, FinalizeJobResult, FinalizeFails, PublishReadJob,
     PublishReadSettings, PublishFails, vars

\* JobLifecycle implements the lifecycle documented in store.go as long as every
\* call to the database succeeds, restarts included.
THEOREM Refinement ==
  ASSUME MaxFaults = 0
  PROVE  Spec => LifecycleSafeSpec
<1>1. Init => Lifecycle!Init
  BY DEF Init, Lifecycle!Init, NoRow
<1>2. RInv /\ [Next]_vars => [Lifecycle!Next]_(Lifecycle!vars)
  BY StepRefines
<1> QED
  BY <1>1, <1>2, RInvInductive, PTL DEF Spec, LifecycleSafeSpec, Lifecycle!SafeSpec
=============================================================================
