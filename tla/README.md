# A TLA+ model of genpic

genpic serves image generation over HTTP: a browser or an API client posts a
prompt, the server queues a job, calls a third-party provider in the background,
stores the images and lets the client poll. This directory models its stateful
parts, checks them with TLC on small instances and proves their main properties
with TLAPS.

## 1. Inventory

| Part | State | Operations | Hard because | Modelled in |
|---|---|---|---|---|
| Generation jobs (`internal/api/generate.go`, `jobs.go`, `caller.go`) | the job row; the goroutine's locals | submit, run, finalize, publish | one goroutine per job, login and owner act on the same row meanwhile; no recovery | `JobLifecycle`, `JobSpec` |
| Job stores (`internal/jobstore`) | map with TTL, or MySQL table | Create, Get, Update, SetVisibility, evict; List, ListPublic, AdminList, AdminStats | errors become `false`, cursors outlive rows, totals and rows are two queries | `JobLifecycle`, `JobTable`, `JobReaders` |
| Artifacts and quota (`internal/api/oss_materialize.go`, `internal/userstorage`, `internal/storage`) | bucket, ledger, `storage_used_bytes`, `storage_quota_bytes` | upload, compensate, charge, set or adjust a quota | bucket and database are not one transaction; contexts are cancelled | `StorageQuota`, `UsageSpec` |
| Local artifacts (`artifacts.go`, `thumbnail.go`) | files | write, preview on first read | two writers share a temporary name | `Thumbnails` |
| Accounts (`internal/auth`, `authhandlers.go`) | users, sessions, settings | register, log in and out, change settings, reset a password, sweep | handlers are statements without a transaction | `Accounts` |
| Community feed (`community.go`, `mysql.go`) | visibility, `community_listed_at` | publish, hide, page | the stamp is read in one statement and written in another | `JobTable`, `JobReaders` |
| Templates (`internal/templatestore`, `templates.go`) | template rows | save, delete, hide, page | uploads charged before the checks | `Templates` |
| Providers (`internal/provider`, `pkg/httpclient`, `chatcompletions.go`) | none between calls | call, retry, fall back, parse | a POST repeated after a timeout, rounds that fail half-way, a chain of models | `Upstream` |
| Rate limiter (`pkg/ratelimit`) | a counter and the end of its window | Allow | edges of windows | `RateLimit` |
| Administration (`admin_*.go`, `model_stats.go`) | none of its own | totals, totals by model, time series, lists; reset passwords, change quotas | several queries per answer, edges of buckets, zones | `JobReaders`, `Templates`, `Accounts`, `StorageQuota` |
| Migration, configuration, logging, billing stub, idempotency store, `mvplite`, web client | | | | not modelled (section 6) |

Handlers, goroutines and the eviction loop share one process; they meet in the
job store, in MySQL and in the bucket, and never call each other back. The
handler starts `runJob` and forgets it. A login is one `UPDATE` over all rows of
the browser's session. Every job row may therefore change between any two calls
of its goroutine, and every listing or statistic is read while the rows change.

## 2. Modules

| Module | Models | Kind |
|---|---|---|
| `JobSpec` | what a polling client is promised: queued, running, settled | abstract specification |
| `JobLifecycle` | HandleCompatGenerate, runJob, finalizeJobResult, maybeCommunityAutoPublic, both stores, login migration, visibility, settings, eviction, failing calls, restart | detailed specification, implements `JobSpec` |
| `UsageSpec` | what a user's account is promised: an upload is billed at most once, at once, within the quota | abstract specification |
| `StorageQuota` | the upload functions of `oss_materialize.go`, `AppendLedgerAfterUpload`, compensation, quota administration, disconnection | detailed specification, implements `UsageSpec` |
| `Accounts` | registration, login, logout, sessions and their sweeper, settings, password reset | specification |
| `Upstream` | executeImageGeneration from a job or a chat, the meta provider `xiangyun`, the adapters for Gemini, OpenAI and Wan, the HTTP client | specification |
| `JobTable` | the table of jobs and its writers, reduced to the columns that readers look at | component |
| `JobReaders` | history, feed, administrator's list, totals, totals by model, time series, of both stores | specification, extends `JobTable` |
| `Templates` | saving, deleting, showing and hiding templates; the administrator's list | specification |
| `Enumerations` | `ORDER BY`, and the loops that keep some elements of a slice, as functions of finite sets | operators of `JobTable`, `JobReaders`, `Upstream` |
| `RateLimit`, `Thumbnails` | `InMemory.Allow`; writers and readers of one preview file | components |
| `Gateway` | limiter before, preview after a job on the way of the HTTP routes | composition of the two |
| `MC...` | instances for TLC: `MCJobLifecycle`, `MCStorageQuota`, `MCAccounts`, `MCUpstream`, `MCJobReaders`, `MCTemplates`, `MCGateway` | |
| `JobLifecycleProofs`, `StorageQuotaProofs`, `AccountsProofs`, `UpstreamProofs`, `JobReadersProofs`, `TemplatesProofs`, `GatewayProofs` | invariants and theorems | proofs |
| `EnumerationsProofs` | what sorting, filtering, slicing and joining return | lemmas of the proofs about lists |

Operators named `X_Variant` and marked "Mutant" are wrong versions of `X`, kept
beside it: with one of them in place of `X` a run must fail.

### JobLifecycle

`row[j]` is the row of job `j` (`status = "absent"` when there is none);
`worker[j].pc` names the next call of its goroutine, and `uid` and `author` are
the two copies of the owner the goroutine keeps. Each call to the store is one
action, because each takes the store's lock or one statement: the goroutine is
`MarkRunning`, `Generate`, `ReadOwner`, `StoreOutputs`, `FinalizeJobResult`,
then the three calls of `maybeCommunityAutoPublic`. An action named `...Fails`
is the same call returning an error: the code goes on as it does in the source,
most often without looking. A call reported as failed although it was applied is
modelled where that makes a difference (`CreateFails`); elsewhere it is
indistinguishable from the successful call, because the result is ignored.
`Deployments` is the set of configurations `main` may start with: store, object
storage or none, artifact mode. `asked` and `optedIn` only observe.

A restart kills handlers and goroutines. With the in-memory store it also
empties the table.

### StorageQuota

`call[r]` holds the progress and the local variables of one upload call: `keys`
is what a failure deletes, `rows` what is charged at the end. References of a
generation and of a template follow the same code path ("reference"); outputs
differ: no quota check beforehand, images may be skipped, thumbnails may fail,
and the context is not the request's. `lock` is the row lock of `SELECT ... FOR
UPDATE`; `room` is what that statement read. MySQL rolls back the open
transaction of a failed call or a dead process. Bytes are small numbers and
int64 is the range `-MaxInt-1..MaxInt`, so that `AdminAdjustQuota` can wrap.
Users are registered; several processes sharing one database are not modelled.

Seen through `Account`, an upload is only its bill: the bytes of its ledger rows
(`Bill`). All that comes before and after the commit is then a stutter of
`UsageSpec`, and the commit is its `Charge`.

### Accounts

A handler is a sequence of statements, each an action; `req[r]` holds what it
remembers between two of them. `CreateSession` is the end of a registration or
a login that has compared the password earlier; `AdminSetPassword` updates the
hash in one statement and deletes the user's sessions in the next, whose error
is ignored. Settings are read, patched and written back. Passwords are typed
with or without blanks around them: registration trims them and login does not.
`wanted`, `raced` and `uncleared` only observe.

### Upstream

One call, from the request to its answer. `pc` runs through the adapter and the
HTTP client (`generate`, `send`, `wait`, `backoff`, `retryAfter`) or the loop of
the meta provider (`next`); the upstream may answer with any status, any body
that the parsers tell apart, a network error, or never. An outcome is the images
or the error with its type, its code and what `errors.Is` finds in it, because
these decide between retry, fallback and giving up. A dial that times out is a
`context.DeadlineExceeded` to `errors.Is` although the context is alive. A slot
of an answer is a URL, data, white space or empty, because the code tells blank
slots from empty ones: `responseHasRenderableImages` trims, the parsers compare
with `""`. Wire names, prompts and sizes are left out.

### JobTable and JobReaders

A reader is chosen at the start and asks one question, page by page or query by
query, while the writers go on; in memory each call sees one instant, in MySQL
each query. A count is the set of the jobs counted, so that "counted twice" and
"left out" can be said. Creation and end times are taken before a row is stored,
so rows may arrive out of their order. `present` is what the question was about
when it was asked; `disturbed` is set when a row that has been counted on
disappears, a query fails, or (for an offset) a row comes between a page's total
and its rows. Columns the reader does not look at keep one value. A login claims the
jobs of its session while they are listed; accounts come with MySQL, so that in
memory every caller is a session (`Callers`).

### Templates

A save reads its job, uploads, checks and inserts in separate steps. The upload
is `StorageQuota`'s, and here succeeds or leaves nothing. The unique key on the
source job and the ownership checks are in `Insert` and in the steps before it.
An `INSERT` answered with an error may have been applied: `saved` means that the
row is there, whatever the caller was told.

### RateLimit, Thumbnails, Gateway

`Allow` is one step: the clock is read under the lock. `Thumbnails` keeps names
and inodes apart, since the hazard is a writer that truncates a file another one
has already renamed. `Gateway` joins them as `main` does: generation passes the
limiter and its worker writes files; reading a preview passes no limiter.

## 3. Runs

| Run | Instance | Shows |
|---|---|---|
| `lifecycle_failures` | 1 job, 2 users, 1 session, all deployments, 2 failed calls, 1 restart | rows are consistent, charges and publication follow the owner, owners stick, polling ends unless a call failed or a restart met MySQL |
| `lifecycle_two_jobs` | 2 jobs, 1 user, 1 session, both stores, no failed call, 1 restart, symmetric | one owner per job, no lost job, settled rows stay, refinement of `JobSpec` |
| `lifecycle_restart` | 1 job, MySQL, 1 restart | **violated**: the README's promise that polling ends |
| `storage_quota` | 2 uploads of up to 2 images, 1 user, quotas 0 and 5, 1 failure or restart, disconnections | ledger and usage agree, charges are all or nothing, refinement of `UsageSpec` (charged once, in one step, within the quota), every upload ends |
| `storage_disconnect` | the same without failures | **violated**: "on failure, callers should delete uploaded objects" |
| `accounts` | 2 users, 2 passwords, 3 requests, 2 instants, 1 failed statement | passwords change in resets only, stale sessions have one of three reasons, settings are kept until two updates overlap, expired sessions go |
| `upstream` | a chain of 3 providers with a blank and an unknown entry, 1-2 images, answers of up to 2 slots | POSTs are bounded, answers are whole, fallback is justified, good answers are delivered, every call ends |
| `upstream_fallback` | the same | **violated**: a host that cannot be dialled ends the chain |
| `job_readers` | 3 jobs (2 for statistics), 3 owners (2 sessions and a user), 2 models, both stores, 6 readers, pages of 1, 3 instants, 1 failing query, 2 publishing requests | pages show what they should, totals add up, series count once, stamps are kept |
| `listing_mysql` | the same, MySQL | **violated**: pages after the first |
| `templates` | 2 users (1 administrator), 2 jobs, 3 saves, pages of 1, 2 instants, any statement may fail, symmetric | one template per job, references are charged exactly with their templates or left by the saves and deletions that the code does not undo, the administrator's pages are complete |
| `gateway` | limit 2, period 2, 6 instants, 7 calls; 1 worker, 2 readers, 1 failing write | at most twice the limit in any period; previews are whole unless two writers overlap |

Bounds. A job shares nothing with other jobs but the owner, the session and the
settings, all of which two jobs, or one job and two users, already contend for;
two failed calls cover a failure of each half of the goroutine. Two uploads are
enough for every race on one user's lock and quota; users do not interact. Two
images are enough for an upload that fails in the middle. Quota 5 with images of
2 and thumbnails of 1 makes one upload fit exactly, every pair of two-image
uploads exceed, and the largest exceed alone.

Three requests on one account are a login, a reset and an update of settings, or
two updates and a reset; a lifetime of one tick lets a session expire. The chain
of `upstream` has an entry of each kind: one with several rounds, a blank one,
one that refuses some edits, one that is not registered, and a last one.
Two images make two rounds, two slots a partly blank answer. Three jobs in pages
of one are the fewest for which a cursor is evicted between two others; two
groups and two windows suffice for a job to be counted in the wrong place, and
buckets of two ticks in windows that start at 0 and at 1 are clipped at either
end. Three saves are two for one job and one for another. Five ticks with a
period of two are two windows and the spans across their edge.

Symmetry is used for invariants of `templates` and `gateway`, and in
`lifecycle_two_jobs` for safety and the refinement, never for liveness.

Deadlock checking is off: all these systems stop when every request is over or a
bound is reached.

Fairness. `FairSpec` of `JobLifecycle` is weak fairness of each goroutine:
scheduled by the Go runtime, with the upstream call cut off by the context
deadline of `executeImageGeneration` (`generate.go:193-201`). Storing outputs
has no deadline of its own (`runJob` uses a background context); fairness
assumes that the bucket's client returns. Handlers and other requests get no
fairness. `FairSpec` of `StorageQuota` is weak fairness of each upload, under
the same assumption. `FairSpec` of `Accounts` is weak fairness of the sweeper's
`DELETE`: its ticker runs as long as the server, and every failure is followed
by another try. `FairSpec` of `Upstream` is weak fairness of the process's own
steps and of the deadline's passing; the upstream owes nothing.

## 4. Findings

* After a restart with MySQL, an accepted job stays queued or running for ever
  (`lifecycle_restart`): only `go runJob` (`generate.go:488`) moves a row, and
  start-up neither resumes nor fails unfinished rows, while `README.md:32` tells
  clients to poll until the job succeeds or fails. `PollingEnds` is the weaker
  statement that does hold.
* When a client disconnects during a reference upload, the objects stay in the
  bucket (`storage_disconnect`): `deleteOSSObjects` runs under the cancelled
  request context and ignores the errors, against `quota.go:35`.
  `NoFreeStorage` is the weaker statement that does hold.
* A model whose host cannot be dialled ends the meta provider's request while
  there is time and another model (`upstream_fallback`): a dial timeout is a
  `context.DeadlineExceeded` to `errors.Is`, which `xiangyun.go:58` reads as the
  request's own deadline, against the package comment "in a configured order
  until one succeeds on upstream failure".
* In MySQL every page after the first, of a history or of the feed, is empty
  (`listing_mysql`): the self-join at `mysql.go:244` selects columns by names
  both sides have, MySQL refuses it, and the error becomes an empty last page,
  against `mysql.go:234`, "using cursor (a job ID) for pagination".
  `MemoryBrowseSeesAll` is what holds of the other store.

Several properties name cases in which the code does lose something: a lost
update of settings, a commit reported as an error, rows that move between two
pages, a refused template. They do not say that these cases are prevented. They
say that nothing else has the effect, and the cases they admit are listed in
their comments.

Seen while modelling, and stated as the exceptions of properties or left out of
them:

* `ratelimit.go:35` says "at most maxCalls requests per period"; that holds of
  windows, and `RateBounded` proves twice the limit for any span.
* `mysql.go:497` stamps a job "the first time"; overlapping requests and a
  failed `SELECT` stamp it again (`StampedOnce`).
* The administrator's list of templates is ordered by a time without a
  tie-break, and counted in a query of its own (`AdminPagesComplete`).
* References of a refused or deleted template stay charged (`SavesAccounted`).
* Registration trims the password (`authhandlers.go:60`), login does not: a
  password registered with blanks around it works without them only.
* `xiangyun` reports "not registered" if that was the last entry, whatever
  failed before; a model without credentials, or one that refuses the request,
  ends the chain.
* A data URI of Wan with nothing after its comma becomes an image without data
  (`wan.go:291`), and keeps the adapter from looking into `data`; a slot of
  white space passes its tests, and Gemini's. Only the meta provider looks for
  blank slots, so that a direct call to Wan or OpenAI may answer with them, and
  a job stores such an answer as a success (`AnswerComplete` says where blank and
  empty slots can be).
* In MySQL the time series takes the wall clock of the database's times for one
  of the process's zone (`model_stats.go:526`): the two agree only if the
  connection's `loc` says so (`SeriesCountsOnce` states the shift).

## 5. Proofs

Every safety property that a passing run checks, state invariant or action
property, is also proved, for every value of the constants that its module's
assumption allows.

`JobLifecycleProofs` proves, for every value of the constants, `TypeOK`,
`ResultMatchesStatus`, `OneOwner`, `ChargedToOwner`, `PublishedWithConsent`,
`UnfinishedHasWorker`, and the action properties `OwnerIsSticky` and
`TerminalIsFinal`. The only assumption is `ConstantsOK`: the empty id is neither
a user nor a session, deployments are deployments, and the bounds on failures
and restarts are natural numbers (of any size).

None of the four state invariants is inductive alone. `IInv` adds, per job:

* `Fresh`: no row and no goroutine before `Create`, so `Create` never overwrites;
* `Empty`: an absent row has no owner, so eviction and restart lose owners
  without changing them;
* `Unsettled`: while the goroutine has not finalized, the row is not settled;
* `Delivering`: a result in the object store was put there for an owner, so the
  owner read earlier still is the owner (users' jobs cannot be claimed);
* `Authored` and `Noted`: from the first read of automatic publishing on, the
  job has succeeded and keeps its author, and every moment at which the setting
  applied has been observed.

`Good(j)` restates `IInv` for one job; `HandlerGood`, `WorkerGood` and
`EnvironmentGood` show that each action preserves it, for the job the action is
about and, through `Untouched`, for the others. `RowStep` lists what one step can
do to a row and `ColumnStep` reads the action properties off it.

The last part of that module proves `Spec => LifecycleSafeSpec` when `MaxFaults = 0`:
`Staged` ties the goroutine's progress to the row's status, and each step that
changes a status is a step of `JobSpec`. With failed calls the refinement is
false (a result may be dropped, and a job may settle without having been seen
running), which is why the assumption is there.

`StorageQuotaProofs` proves all the safety properties of `StorageQuota` that the
runs check: `TypeOK`, `UsedIsLedgerSum`, `ChargedIsStored`, `AllOrNothing`,
`NoFreeStorage` and the refinement `ChargesAreAtomic`, for any number
of uploads, users, images and failures, any sizes and any quotas in int64. Its
assumption, `ConstantsOK`, says that there are finitely many uploads, that sizes
are natural numbers and that quotas and deltas fit in an int64. `IInv` adds, per
call:

* `OwnKeys`: a call holds keys of its own only, so compensation of one upload
  never touches another's objects;
* `Locked`: between the locked read and the commit the row lock is held, so
  quota minus usage still is what was read; quota changes and other charges
  wait;
* `Accounted`: the ledger holds all rows of a call whose outcome is "charged" or
  "unknown", and none of any other. It makes the set added by a charge disjoint
  from the ledger, which the sum needs;
* `Stored` and `Tracked`: what is about to be charged is in the bucket, and what
  is in the bucket is known to its call.

`Bytes` of a union of disjoint finite sets is the sum (`BytesUnion`, from the
library's facts on cardinality). Steps of one call that leave lock and columns
alone are treated together (`Local`, `LocalFrame`, `LocalGood`), the four ways
to end the transaction in `SettleGood`; `Untouched` covers the other calls.

`ChargesOnce` proves `Spec => ChargesAreAtomic`, the refinement of `UsageSpec`.
A commit adds the rows of one upload, which had none (`Accounted`), so its bill
goes from nothing to their bytes and the others' stay; `Locked` makes these bytes
fit into the quota in force. A quota change under the lock is a `SetQuota`, and
every other step leaves usage, quotas and bills alone. `NeverOverQuota` states
the quota half on its own (`NeverChargedOverQuota`, which the refinement
implies).

`AccountsProofs` proves `TypeOK`, `PasswordOnlyByReset`, `StaleSessionIsLate`
and `SettingsKept` from `AccountsAssumption` (there is a user and a password, the
lifetime is positive). The first two and the third need nothing but the types:
each step that could disturb them is the one that records the reason. For
`SettingsKept` the strengthening says that a request which has read a user's
settings and has not been raced still holds the current ones, so that writing
them back changes only what it names.

`EnumerationsProofs` has the facts about lists. `Enumerate(S, R)` puts at place
`k` the element that `k - 1` others precede, so that a list needs no recursion:
for a finite `S` and a strict total order `R` on it, every place is taken
(`PlaceTaken`, by counting an injection into `1..n`), nothing is listed twice,
and places agree with `R` (`EnumerateFacts`). `Filter` is the sequence at the
kept indexes, in their order (`KeptAtFacts`, `FilterFacts`). The order of a
query is shown to be strict and total where it is used: `Created` breaks ties by
the id, and only one job has a given id.

`UpstreamProofs` proves `TypeOK`, `PostsBounded`, `AnswerComplete`,
`FallbackOnlyAfterUpstreamFailure` and `GoodAnswerKept` for every registry,
chain and number of images, from `UpstreamAssumption`. `CallInv` has three
parts: `Sound` (positions, models and images), `Spent` (the POSTs of the model
at hand are those of the earlier rounds, `Counted`, and the attempts of this
one; later models have none) and `Kept` (nothing has been refused for good, and
no good answer has arrived, before the call is over). `ReturnStep` is the one
place where an adapter's outcome enters the chain or ends the call; it asks that
a success has images (`Deliverable`), which the answers of the three adapters
are shown to have.

`AnswerInv`, on top of it, is about what those images are. `Collected` says that
a call that has no adapter yet holds none, and that the images of one that has
are of its model, not empty, and of exactly the rounds before the present one.
Hence what an adapter returns is an error or whole (`Whole`, `Returnable`), one
lemma per adapter, and stays so through the chat's filter of empty slots
(`FinishShows`, `WholeEnd`). `WaitingAnswer` is where a fallback drops what the
failed model had collected.

`JobReadersProofs` proves all safety properties of `JobReaders`: `TypeOK`,
`MemoryBrowseSeesAll`, `RepeatOnlyAfterEviction`, `AdminBrowseComplete`,
`StatsAddUp`, `SeriesCountsOnce` and `StampedOnce`, for any number of jobs,
writers and failures, any page size, windows, bucket length and zone. They share
`TableInv`, the invariant of the table, and `RowsStep`, what one write may do to
it: a settled row keeps its result and, in memory, every row its owner (in MySQL
a login may change it); a stamp changes only where that is marked; only new jobs
are added, MySQL never evicts, and the in-memory list keeps the order of the
jobs that stay (`InOrder`, in which each job of the table is once, `SameOrder`).

* `StampedOnce`: `Stamps` says that a request between its two statements holds
  the stamp its row has, if it has one, and is alone with the row, unless the
  row is marked.
* `StatsAddUp`: `StillThere` says that what MySQL's first query counted is still
  there, and counted alike, at the second.
* `MemoryBrowseSeesAll` and `RepeatOnlyAfterEviction`: the cursor is the oldest
  job shown. What was in the history at the start and has not been shown is
  older than the cursor while the cursor is there (`SeesInv`); what has been
  shown is not (`RepeatInv`). An evicted cursor begins the list again, which
  repeats but loses nothing. In MySQL there is no second page to repeat on.
* `AdminBrowseComplete`: a job that was there at the start has been shown, or
  there are at least as many jobs in front of it as the pages so far are long
  (`AdminInv`): a new job goes in front of it or behind it, and none leaves, so
  the number only grows. `InFront` is the order of the list in memory and of
  `ORDER BY` in MySQL. The pages end when the offset reaches the total, which is
  the number of jobs at that moment unless one came between the two queries.
* `SeriesCountsOnce`: the buckets so far lie before the cursor and hold the jobs
  of the window that ended in them, so they are disjoint; what is not counted
  yet ended at the cursor or later (`SoFar`). At the end of the window nothing
  does. In MySQL the walls of a day enumerate the groups of one query.

`TemplatesProofs` proves `TypeOK`, `SavesAccounted` and `AdminPagesComplete`.
`Carries` says that a save between its steps knows the owner of its job and
whether it has charged its references, so that the row it inserts has the right
owner and stands for exactly what was charged. `SavesAccounted` does not promise
a clean-up: references of a refused or deleted template stay charged. For the list, `Pending` is the argument
of the administrator's pages above, counted with `Rank`: as long as nothing that
slips is recorded, a template not shown yet has at least `offset` others ahead
of it, and the list is over only when the offset has reached the count.

The assumptions are those of the models: besides types of the constants, that
there is an owner without an account, a group, a window and a filter to choose
(Init has to choose one), and that the code of a job without an error, `NoCode`,
is a code.

`GatewayProofs` proves `RateBounded` and `ThumbWhole`. The calls allowed since
the present window began are at most the limit, so are those of the window
before, and a span of one period reaches no third one: hence twice the limit.
For files, `InodesUnused` (a file that is made is new), `NamesApart` (two names
never refer to one file) and `OneWriter` (until two overlap, an open temporary
file is its writer's alone) make a renamed file whole.

Progress. Liveness itself cannot be proved here, but its safe half can: a step
of a process takes it forward in a finite order, so that it can never run in
circles, and fairness has only to keep it moving. These properties are stated in
the modules of proofs and are not among the runs'.

* `WorkersGoForward` (behind `PollingEnds`): the goroutine of a job goes through
  its calls in their order, each at most once, whatever becomes of its row.
* `UploadsGoForward` (behind `UploadsEnd`): an upload moves to a later stage, or
  stays in its stage with fewer images to put or fewer objects to delete, unless
  its client leaves, which it does once. `NoLockIsLeft` adds that the holder of a
  row lock is always an upload in its transaction: nothing waits for a lock that
  nobody will release.
* `CallsGoForward` (behind `CallEnds`): position in the chain, round, attempt and
  stage within an attempt, in this order, only grow.

`ChainsAreExhausted` is the exact extent of the fourth finding: an error of an
upstream that is not taken for a timeout ends a request only after the last
model of the chain.

Model-checked only:

* the liveness properties `PollingEnds`, `UploadsEnd`, `ExpiredSwept` and
  `CallEnds` as such: liveness under fairness is beyond the proof system's backends;
* the four properties that the code violates, of which the runs show a
  counterexample each.

## 6. What is not modelled

* Schema migration: a list of DDL statements at start-up, each committed by
  MySQL itself; what a crash between two leaves is MySQL's.
* The idempotency store (`pkg/idempotency`): no code calls it. The comment at
  `httpclient/client.go:107` speaks of idempotency keys, but no request of the
  adapters carries one, and a POST is sent again without.
* Configuration, logging, and billing, whose only implementation does nothing.
* `mvplite` and `mvpconfig`: a second program that calls the same adapters
  synchronously and keeps nothing.
* The web client: its polling is the client of `JobSpec`.
* The list of templates for a model and the listing of a user's assets: one
  query each, without pages. (Public templates may crowd a caller's own out of
  the first, `templatestore/mysql.go:65`.)
* Averages of latencies, and the parsing of the administrator's times. A day of
  a series is modelled with a fixed length; in the code it has 24 hours also
  when a zone changes its clock (`model_stats.go:139`).
* Image decoding, hashing and the wording of requests to the providers.

Left to do: a composition of `JobLifecycle`, `Upstream` and `StorageQuota` in
which `Generate` is a call and `StoreOutputs` an upload; several server
processes on one database.
