------------------------------- MODULE JobTable -------------------------------
(***************************************************************************)
(* The table of jobs as its readers see it (internal/jobstore): in memory, *)
(* a list in order of insertion from which old jobs are evicted, or        *)
(* MySQL's generation_jobs.  The writers are the ones of JobLifecycle,     *)
(* reduced to the columns a listing or a statistic looks at.               *)
(***************************************************************************)
EXTENDS Integers, SequencesExt, Enumerations

CONSTANTS
  Stores,     \* the kinds of store to look at: "memory", "mysql"
  Readers,    \* the readers to look at
  Jobs,       \* ids, numbers in no particular order: they are random
  Few,        \* bound: the jobs there are when the reader does not page through many
  Owners,     \* of jobs: records of a user_id and a session_id, "" for none
  Groups,     \* pairs of the model and the provider a job is counted under
  Codes,      \* error codes, NoCode for none
  Requests,   \* requests that make a job public
  TTL,        \* of a job in memory
  MaxLag,     \* bound on the time from taking a timestamp to storing it
  MaxClock,   \* bound on the clock
  MaxFaults   \* bound on failing queries

NoCode == ""

ASSUME JobTableAssumption ==
  /\ Stores \subseteq {"memory", "mysql"}
  /\ Jobs \subseteq Nat \ {0} /\ Few \subseteq Jobs
  /\ (\E o \in Owners : o.user = "") /\ Groups # {} /\ NoCode \in Codes
  /\ TTL \in Nat /\ MaxLag \in Nat /\ MaxClock \in Nat /\ MaxFaults \in Nat

VARIABLES
  store, reader,   \* chosen at the start
  rows,            \* the jobs that are in the store
  used,            \* the ids given so far
  order,           \* Memory.ordered
  publish,         \* the requests between reading a stamp and writing it
  clock, faults,
  restamped        \* history: jobs whose stamp two requests, or a failed SELECT, may change

table == <<rows, used, order, publish, restamped>>
tableVars == <<store, reader, table, clock, faults>>

Null == -1
Time == 0..MaxClock
Statuses == {"running", "succeeded", "failed"}
Row == [owner : Owners, created : Time, status : Statuses, group : Groups, code : Codes,
        finished : Time \cup {Null}, public : BOOLEAN, listed : Time \cup {Null}]
Idle == [job |-> 0, stamp |-> Null]

TableTypeOK ==
  /\ store \in Stores /\ reader \in Readers
  /\ \A id \in DOMAIN rows : rows[id] \in Row
  /\ DOMAIN rows \subseteq used /\ used \subseteq Jobs
  /\ Range(order) = DOMAIN rows /\ Len(order) = Cardinality(DOMAIN rows)
  /\ publish \in [Requests -> [job : Jobs, stamp : Time] \cup {Idle}]
  /\ clock \in Time /\ faults \in 0..MaxFaults
  /\ restamped \subseteq Jobs

TableInit ==
  /\ store \in Stores /\ reader \in Readers
  /\ rows = [id \in {} |-> 0] /\ used = {} /\ order = << >>
  /\ publish = [v \in Requests |-> Idle]
  /\ clock = 0 /\ faults = 0 /\ restamped = {}

\* Bound: the columns that the chosen reader does not look at are left at one value, and
\* a time is stored at once if it does not matter to it.
Columns ==
  CASE reader = "list"   -> {"owner", "created"}
    [] reader = "feed"   -> {"public"}
    [] reader = "admin"  -> {"created"}
    [] reader = "stats"  -> {"status", "group"}
    [] reader = "models" -> {"status", "group", "code", "finished"}
    [] reader = "series" -> {"status", "group", "finished"}
Vary(column, S) == IF column \in Columns THEN S ELSE {CHOOSE x \in S : TRUE}
Taken(column) ==
  IF column \in Columns THEN {t \in Time : t <= clock /\ clock - t <= MaxLag} ELSE {clock}
Room == IF "created" \in Columns THEN Jobs ELSE Few

\* Accounts come with MySQL: without it all jobs are of sessions.
Callers == IF store = "mysql" THEN Owners ELSE {o \in Owners : o.user = ""}

NoFault == UNCHANGED faults
Fault == store = "mysql" /\ faults < MaxFaults /\ faults' = faults + 1
Settled(id) == rows[id].status # "running"

-----------------------------------------------------------------------------
\* CreatedAt is taken before the lock, or the INSERT: rows may arrive out of its order.
Create(id) ==
  /\ id \in Room \ used /\ used' = used \cup {id}
  /\ \E t \in Taken("created"), o \in Vary("owner", Callers), g \in Vary("group", Groups) :
       rows' = [k \in DOMAIN rows \cup {id} |->
                  IF k = id THEN [owner |-> o, created |-> t, status |-> "running", group |-> g,
                                  code |-> NoCode, finished |-> Null, public |-> FALSE, listed |-> Null]
                            ELSE rows[k]]
  /\ order' = Append(order, id)
  /\ NoFault
  /\ UNCHANGED <<store, reader, publish, clock, restamped>>

\* FinishedAt is taken inside Update: under the lock, or before the commit of a transaction.
Settle(id) ==
  /\ "status" \in Columns /\ id \in DOMAIN rows /\ ~Settled(id)
  /\ \E t \in IF store = "memory" THEN {clock} ELSE Taken("finished"), s \in {"succeeded", "failed"},
        c \in Vary("code", Codes) :
       /\ t >= rows[id].created
       /\ rows' = [rows EXCEPT ![id] = [@ EXCEPT !.status = s, !.finished = t,
                                                 !.code = IF s = "failed" THEN c ELSE NoCode]]
  /\ NoFault
  /\ UNCHANGED <<store, reader, used, order, publish, clock, restamped>>

Old(id) == rows[id].created <= clock - TTL
Evict ==
  /\ store = "memory" /\ \E id \in DOMAIN rows : Old(id)
  /\ LET young == {id \in DOMAIN rows : ~Old(id)} IN
       order' = Filter(order, young) /\ rows' = [id \in young |-> rows[id]]
  /\ NoFault
  /\ UNCHANGED <<store, reader, used, publish, clock, restamped>>

\* SetVisibility of MySQL, "public": the stamp of the first time is kept, if the SELECT that
\* looks for it succeeds.  (The memory store has no accounts, and without them nobody may
\* call it.)
\* Mutant: every request takes a new stamp.
Stamp_Fresh(id) == clock
\* Mutant: the stamp that the SELECT finds is used even if it is NULL.
Stamp_Unset(id) == rows[id].listed
Stamp(id) == IF rows[id].listed = Null THEN clock ELSE rows[id].listed

ReadStamp(v, id) ==
  /\ store = "mysql" /\ "public" \in Columns /\ publish[v] = Idle /\ id \in DOMAIN rows
  /\ \/ publish' = [publish EXCEPT ![v] = [job |-> id, stamp |-> Stamp(id)]] /\ NoFault
     \/ publish' = [publish EXCEPT ![v] = [job |-> id, stamp |-> clock]] /\ Fault
  /\ restamped' = IF faults' # faults \/ \E w \in Requests : publish[w].job = id
                    THEN restamped \cup {id} ELSE restamped
  /\ UNCHANGED <<store, reader, rows, used, order, clock>>

WriteStamp(v) ==
  LET id == publish[v].job IN
  /\ publish[v] # Idle
  /\ \/ /\ rows' = [rows EXCEPT ![id] = [@ EXCEPT !.public = TRUE, !.listed = publish[v].stamp]]
        /\ NoFault
     \/ UNCHANGED rows /\ Fault
  /\ publish' = [publish EXCEPT ![v] = Idle]
  /\ UNCHANGED <<store, reader, used, order, clock, restamped>>

MakePrivate(id) ==
  /\ store = "mysql" /\ "public" \in Columns /\ id \in DOMAIN rows /\ rows[id].public
  /\ rows' = [rows EXCEPT ![id].public = FALSE]
  /\ NoFault
  /\ UNCHANGED <<store, reader, used, order, publish, clock, restamped>>

\* A login claims the jobs of its session.
MigrateAnonymousJobs(session, user) ==
  /\ store = "mysql" /\ "owner" \in Columns
  /\ session.user = "" /\ session.session # "" /\ user.user # "" /\ user.session = ""
  /\ rows' = [id \in DOMAIN rows |->
                IF rows[id].owner = session THEN [rows[id] EXCEPT !.owner = user] ELSE rows[id]]
  /\ NoFault
  /\ UNCHANGED <<store, reader, used, order, publish, clock, restamped>>

Tick ==
  /\ clock < MaxClock
  /\ clock' = clock + 1
  /\ NoFault
  /\ UNCHANGED <<store, reader, table>>

Write ==
  \/ \E id \in Jobs : Create(id) \/ Settle(id) \/ MakePrivate(id)
  \/ Evict
  \/ \E v \in Requests, id \in Jobs : ReadStamp(v, id)
  \/ \E v \in Requests : WriteStamp(v)
  \/ \E session, user \in Owners : MigrateAnonymousJobs(session, user)
  \/ Tick
=============================================================================
