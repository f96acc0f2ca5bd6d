------------------------------ MODULE JobReaders ------------------------------
(***************************************************************************)
(* The readers of the table of jobs: a caller's history and the community  *)
(* feed, page by page with the id of the last job as cursor; the           *)
(* administrator's list, page by page with an offset; the totals, the      *)
(* totals by model and the time series of the administration.  One reader  *)
(* asks its question while the writers go on: in memory every call sees    *)
(* the table at one instant, in MySQL every query does, and a call may     *)
(* make two.                                                               *)
(*                                                                         *)
(* A count is modelled by the set of the jobs it counts.  The latencies    *)
(* that the statistics also report are left out.                           *)
(***************************************************************************)
EXTENDS JobTable

CONSTANTS
  Limit,     \* of a page
  Bucket,    \* ticks in an hour or a day of the time series
  Zone,      \* how far the zone of the database's times is ahead of the process's
  Windows    \* pairs of since and until that the administrator may ask for

ASSUME JobReadersAssumption ==
  /\ Limit \in Nat \ {0} /\ Bucket \in Nat \ {0} /\ Zone \in Nat
  /\ Windows # {} /\ \A w \in Windows : w[1] \in Nat /\ w[2] \in Nat /\ w[1] < w[2]

VARIABLES
  view,       \* the reader's progress and what it asks for
  answer,     \* what a statistic has counted so far
  present,    \* history: the jobs the question was about when it was asked
  disturbed   \* history: an eviction, a failing query, or for an offset a new job
              \* between a page and its total, since then

vars == <<tableVars, view, answer, present, disturbed>>

Models == {g[1] : g \in Groups}
ShownCodes == (Codes \ {NoCode}) \cup {"(empty)"}
Ends == {"succeeded", "failed"}
Counted(S) == [S -> SUBSET Jobs]
BucketRow == [start : Nat, jobs : SUBSET Jobs]
View == [step : {"idle", "page", "select", "second", "bucket", "done"},
         scope : Owners, cursor : Nat, total : Nat, shown : Seq(Jobs),
         window : Windows, models : SUBSET Models]

\* The tables of counts: of the first query, and of the second one.
First == IF reader = "stats" THEN Statuses ELSE Groups \X Ends
Second == IF reader = "stats" THEN Groups ELSE Groups \X ShownCodes
NoAnswer == [first |-> [k \in First |-> {}], second |-> [k \in Second |-> {}], buckets |-> << >>]

TypeOK ==
  /\ TableTypeOK
  /\ view \in View
  /\ answer \in [first : Counted(First), second : Counted(Second), buckets : Seq(BucketRow)]
  /\ present \subseteq Jobs /\ disturbed \in BOOLEAN

Init ==
  /\ TableInit
  /\ view = [step |-> "idle", scope |-> CHOOSE o \in Owners : TRUE, cursor |-> 0, total |-> 0,
             shown |-> << >>, window |-> CHOOSE w \in Windows : TRUE, models |-> {}]
  /\ answer = NoAnswer
  /\ present = {} /\ disturbed = FALSE

Finish == view' = [view EXCEPT !.step = "done"]
ReadOnly == UNCHANGED <<store, reader, table, clock>>

-----------------------------------------------------------------------------
(* Pages by cursor *)

\* OwnerScope.ListContains, and the WHERE clause that stands for it.
ListContains(scope, row) ==
  IF scope.user # "" THEN row.owner.user = scope.user
                     ELSE row.owner.user = "" /\ row.owner.session = scope.session
Wanted(scope) ==
  {id \in DOMAIN rows : IF reader = "feed" THEN rows[id].public ELSE ListContains(scope, rows[id])}

Newer(S, Key(_)) ==
  {p \in S \X S : Key(p[1]) > Key(p[2]) \/ (Key(p[1]) = Key(p[2]) /\ p[1] > p[2])}
Newest(S, Key(_)) == Enumerate(S, Newer(S, Key))
Created(id) == rows[id].created
Listed(id) == rows[id].listed

\* Memory.List: a cursor that is no longer there starts from the newest job.
\* Mutant: the page begins with the cursor itself.
After_Inclusive(snap, cursor) ==
  IF cursor \in Range(snap) THEN SelectInSeq(snap, LAMBDA id : id = cursor) - 1 ELSE 0
\* Mutant: a cursor that is no longer there ends the list.
After_End(snap, cursor) ==
  IF cursor = 0 THEN 0
  ELSE IF cursor \in Range(snap) THEN SelectInSeq(snap, LAMBDA id : id = cursor) ELSE Len(snap)
After(snap, cursor) ==
  IF cursor \in Range(snap) THEN SelectInSeq(snap, LAMBDA id : id = cursor) ELSE 0

PageFrom(snap, start) ==
  [jobs |-> SubSeq(snap, start + 1, Min({start + Limit, Len(snap)})),
   next |-> IF start + Limit < Len(snap) THEN snap[start + Limit] ELSE 0]
NoPage == [jobs |-> << >>, next |-> 0]

MemoryList(scope, cursor) ==
  LET snap == Filter(Reverse(order), Wanted(scope))
  IN PageFrom(snap, After(snap, cursor))

\* The query for a page after the first joins the table with itself and selects
\* columns by names that both sides have: MySQL refuses it, and List and ListPublic
\* answer an error with an empty last page.
MysqlList(scope, cursor) ==
  IF cursor # 0 THEN NoPage ELSE PageFrom(Newest(Wanted(scope), Created), 0)
ListPublic(cursor) ==
  IF store = "memory" \/ cursor # 0 THEN NoPage ELSE PageFrom(Newest(Wanted(view.scope), Listed), 0)

Page ==
  IF reader = "feed" THEN ListPublic(view.cursor)
  ELSE IF store = "memory" THEN MemoryList(view.scope, view.cursor)
  ELSE MysqlList(view.scope, view.cursor)

ShowPage(page) ==
  /\ view' = [view EXCEPT !.step = IF page.next = 0 THEN "done" ELSE "page",
                          !.cursor = page.next, !.shown = @ \o page.jobs]
  /\ UNCHANGED <<answer, present>>

BrowseStart ==
  /\ reader \in {"list", "feed"} /\ view.step = "idle"
  /\ \E o \in IF reader = "list" THEN Callers ELSE {view.scope} :
       /\ view' = [view EXCEPT !.step = "page", !.scope = o]
       /\ present' = Wanted(o)
  /\ NoFault
  /\ ReadOnly /\ UNCHANGED <<answer, disturbed>>

List ==
  /\ reader \in {"list", "feed"} /\ view.step = "page"
  /\ \/ ShowPage(Page) /\ NoFault /\ UNCHANGED disturbed
     \/ ShowPage(NoPage) /\ Fault /\ disturbed' = TRUE
  /\ ReadOnly

-----------------------------------------------------------------------------
(* Pages by offset *)

\* Memory.AdminList copies no more of the reversed list than the page needs.
\* Mutant: it copies a page's length, wherever the page begins.
Need_Limit(offset) == Min({Limit, Len(order)})
Need(offset) == Min({offset + Limit, Len(order)})
MemoryRows(offset) ==
  LET rev == SubSeq(Reverse(order), 1, Need(offset))
  IN SubSeq(rev, offset + 1, Min({offset + Limit, Len(rev)}))
MysqlRows(offset) ==
  LET all == Newest(DOMAIN rows, Created) IN SubSeq(all, offset + 1, Min({offset + Limit, Len(all)}))

\* A client of the API asks for the next page while the total says that there is one.
ShowRows(jobs, total) ==
  /\ view' = [view EXCEPT !.step = IF view.cursor + Limit < total THEN "page" ELSE "done",
                          !.cursor = IF view.cursor + Limit < total THEN @ + Limit ELSE @,
                          !.total = 0, !.shown = @ \o jobs]
  /\ UNCHANGED <<answer, present>>

AdminStart ==
  /\ reader = "admin" /\ view.step = "idle"
  /\ view' = [view EXCEPT !.step = "page"]
  /\ present' = DOMAIN rows
  /\ NoFault
  /\ ReadOnly /\ UNCHANGED <<answer, disturbed>>

AdminList ==
  /\ reader = "admin" /\ view.step = "page" /\ store = "memory"
  /\ ShowRows(MemoryRows(view.cursor), Len(order))
  /\ NoFault
  /\ ReadOnly /\ UNCHANGED disturbed

AdminCount ==
  /\ reader = "admin" /\ view.step = "page" /\ store = "mysql"
  /\ \/ /\ view' = [view EXCEPT !.step = "select", !.total = Cardinality(DOMAIN rows)]
        /\ NoFault /\ UNCHANGED <<answer, present, disturbed>>
     \/ ShowRows(<< >>, 0) /\ Fault /\ disturbed' = TRUE
  /\ ReadOnly

AdminSelect ==
  /\ reader = "admin" /\ view.step = "select"
  /\ \/ ShowRows(MysqlRows(view.cursor), view.total) /\ NoFault /\ UNCHANGED disturbed
     \/ ShowRows(<< >>, view.total) /\ Fault /\ disturbed' = TRUE
  /\ ReadOnly

-----------------------------------------------------------------------------
(* Totals, and totals by model *)

\* Mutant: the window includes its end.
InWindow_Closed(t, since, until) == since <= t /\ t <= until
InWindow(t, since, until) == since <= t /\ t < until
Finished(since, until) ==
  {id \in DOMAIN rows : Settled(id) /\ InWindow(rows[id].finished, since, until)}

\* Mutant: jobs without a code are counted under the empty one.
CodeOf_Empty(id) == rows[id].code
CodeOf(id) == IF rows[id].code = NoCode THEN "(empty)" ELSE rows[id].code

InThisWindow == Finished(view.window[1], view.window[2])
FirstCount ==
  IF reader = "stats" THEN [s \in Statuses |-> {id \in DOMAIN rows : rows[id].status = s}]
  ELSE [k \in Groups \X Ends |->
          {id \in InThisWindow : rows[id].group = k[1] /\ rows[id].status = k[2]}]

\* The failures of a group are counted only if the group has a row of its own.
HasRow(g, first) == \E e \in Ends : first[<<g, e>>] # {}
SecondCount(first) ==
  IF reader = "stats" THEN [g \in Groups |-> {id \in DOMAIN rows : rows[id].group = g}]
  ELSE [k \in Groups \X ShownCodes |->
          {id \in InThisWindow : /\ rows[id].group = k[1] /\ HasRow(k[1], first)
                                 /\ rows[id].status = "failed" /\ CodeOf(id) = k[2]}]

StatsStart ==
  /\ reader \in {"stats", "models"} /\ view.step = "idle"
  /\ \E w \in IF reader = "models" THEN Windows ELSE {view.window} :
       view' = [view EXCEPT !.step = "select", !.window = w]
  /\ NoFault
  /\ ReadOnly /\ UNCHANGED <<answer, present, disturbed>>

\* Memory counts both under one lock.
MemoryStats ==
  /\ reader \in {"stats", "models"} /\ view.step = "select" /\ store = "memory"
  /\ answer' = [answer EXCEPT !.first = FirstCount, !.second = SecondCount(FirstCount)]
  /\ Finish /\ NoFault
  /\ ReadOnly /\ UNCHANGED <<present, disturbed>>

\* MySQL makes two queries.  If the first fails all is zero, if the second does there is
\* no breakdown, and the administrator is told nothing.
MysqlTotals ==
  /\ reader \in {"stats", "models"} /\ view.step = "select" /\ store = "mysql"
  /\ \/ /\ answer' = [answer EXCEPT !.first = FirstCount]
        /\ view' = [view EXCEPT !.step = "second"]
        /\ NoFault /\ UNCHANGED disturbed
     \/ Finish /\ Fault /\ disturbed' = TRUE /\ UNCHANGED answer
  /\ ReadOnly /\ UNCHANGED present

MysqlBreakdown ==
  /\ reader \in {"stats", "models"} /\ view.step = "second"
  /\ \/ answer' = [answer EXCEPT !.second = SecondCount(answer.first)] /\ NoFault /\ UNCHANGED disturbed
     \/ Fault /\ disturbed' = TRUE /\ UNCHANGED answer
  /\ Finish
  /\ ReadOnly /\ UNCHANGED present

-----------------------------------------------------------------------------
(* Time series *)

WallStart(t) == t - (t % Bucket)
Later(a, b) == IF a < b THEN b ELSE a
Earlier(a, b) == IF a < b THEN a ELSE b
Series(since, until) == {id \in Finished(since, until) :
                           view.models = {} \/ rows[id].group[1] \in view.models}

SeriesStart ==
  /\ reader = "series" /\ view.step = "idle"
  /\ \E w \in Windows, M \in SUBSET Models :
       /\ view' = [view EXCEPT !.step = "bucket", !.window = w, !.models = M,
                               !.cursor = WallStart(w[1])]
       /\ present' = {id \in DOMAIN rows : /\ Settled(id)
                                           /\ w[1] <= rows[id].finished /\ rows[id].finished < w[2]
                                           /\ M = {} \/ rows[id].group[1] \in M}
  /\ NoFault
  /\ ReadOnly /\ UNCHANGED <<answer, disturbed>>

\* Memory locks the table for each bucket, clipped to the window, in turn.
Clip(start) == [since |-> Later(view.window[1], start), until |-> Earlier(view.window[2], start + Bucket)]
MemoryBucket ==
  /\ reader = "series" /\ view.step = "bucket" /\ store = "memory"
  /\ LET start == view.cursor IN
       IF start < view.window[2]
         THEN /\ answer' = [answer EXCEPT !.buckets = Append(@, [start |-> start,
                              jobs |-> Series(Clip(start).since, Clip(start).until)])]
              /\ view' = [view EXCEPT !.cursor = @ + Bucket]
         ELSE Finish /\ UNCHANGED answer
  /\ NoFault
  /\ ReadOnly /\ UNCHANGED <<present, disturbed>>

\* MySQL makes one query: the day or the hour is the one of the database's times, and its
\* label is then taken for one of the process's zone.
MysqlSeries ==
  /\ reader = "series" /\ view.step = "bucket" /\ store = "mysql"
  /\ \/ /\ LET jobs == Series(view.window[1], view.window[2])
               Wall(id) == WallStart(rows[id].finished + Zone)
               walls == {Wall(id) : id \in jobs}
               starts == Enumerate(walls, Ascending(walls))
           IN answer' = [answer EXCEPT !.buckets = [i \in DOMAIN starts |->
                [start |-> starts[i], jobs |-> {id \in jobs : Wall(id) = starts[i]}]]]
        /\ NoFault /\ UNCHANGED disturbed
     \/ Fault /\ disturbed' = TRUE /\ UNCHANGED answer
  /\ Finish
  /\ ReadOnly /\ UNCHANGED present

-----------------------------------------------------------------------------
Disturbs == DOMAIN rows \ DOMAIN rows' # {} \/ (view.step = "select" /\ DOMAIN rows' # DOMAIN rows)

\* Bound: the table is not followed beyond the answer.
WriteStep ==
  /\ view.step # "done" /\ Write
  /\ disturbed' = (disturbed \/ (view.step # "idle" /\ Disturbs))
  /\ UNCHANGED <<view, answer, present>>

Next ==
  \/ WriteStep
  \/ BrowseStart \/ List
  \/ AdminStart \/ AdminList \/ AdminCount \/ AdminSelect
  \/ StatsStart \/ MemoryStats \/ MysqlTotals \/ MysqlBreakdown
  \/ SeriesStart \/ MemoryBucket \/ MysqlSeries

Spec == Init /\ [][Next]_vars

-----------------------------------------------------------------------------
(* Properties *)

Done == view.step = "done"

\* Browsing a history to its end shows every job that was in it when the browsing began
\* and still is.  (mysql.go:234: "using cursor (a job ID) for pagination")
BrowseSeesAll ==
  Done /\ reader \in {"list", "feed"} /\ ~disturbed => present \cap Wanted(view.scope) \subseteq Range(view.shown)

\* The memory store keeps that, even if the job of the cursor is evicted on the way, new
\* jobs arrive, or an eviction moves the rest.
MemoryBrowseSeesAll ==
  Done /\ store = "memory" /\ reader = "list" => present \cap Wanted(view.scope) \subseteq Range(view.shown)

\* A job is shown twice only if an eviction took away a cursor: then the list starts again.
RepeatOnlyAfterEviction ==
  reader \in {"list", "feed"} /\ ~disturbed => IsInjective(view.shown)

\* The administrator's pages leave out a job that is there throughout only if a job was
\* evicted while they were read, a query failed, or a job came between a page's total and
\* its rows.
AdminBrowseComplete ==
  Done /\ reader = "admin" /\ ~disturbed => present \subseteq Range(view.shown)

\* The totals add up: every job is in one status and under one provider, every failure of
\* a model under one code.  In MySQL the breakdown may count jobs that came after the
\* total, and is missing when its query failed; it never counts less.
StatsAddUp ==
  Done /\ reader \in {"stats", "models"} =>
    LET Total == IF reader = "stats" THEN UNION {answer.first[s] : s \in Statuses}
                 ELSE UNION {answer.first[<<g, "failed">>] : g \in Groups}
        Parts == UNION {answer.second[k] : k \in Second}
    IN /\ \A k, l \in First : k # l => answer.first[k] \cap answer.first[l] = {}
       /\ \A k, l \in Second : k # l => answer.second[k] \cap answer.second[l] = {}
       /\ store = "memory" => Parts = Total
       /\ ~disturbed => Total \subseteq Parts

\* Every job that had finished in the window is in exactly one bucket of the series, and no
\* job is in two; the bucket is the one of its end, in the zone of the database's times.
SeriesCountsOnce ==
  LET Shift == IF store = "mysql" THEN Zone ELSE 0
      In(i) == answer.buckets[i].jobs
      Span(i) == answer.buckets[i].start..(answer.buckets[i].start + Bucket - 1)
  IN Done /\ reader = "series" =>
       /\ \A i, j \in DOMAIN answer.buckets : i # j => In(i) \cap In(j) = {}
       /\ ~disturbed => present \subseteq UNION {In(i) : i \in DOMAIN answer.buckets}
       /\ \A i \in DOMAIN answer.buckets, id \in DOMAIN rows : id \in In(i) =>
            /\ rows[id].finished + Shift \in Span(i)
            /\ view.window[1] <= rows[id].finished /\ rows[id].finished < view.window[2]

\* The stamp that orders the feed is given once: it changes only if two requests to publish
\* the job overlapped, or the query that looks for it failed.  (mysql.go:497: "Only stamp
\* community_listed_at the first time a job is made public")
StampedOnce ==
  [][\A id \in DOMAIN rows : id \in DOMAIN rows' =>
       \/ rows[id].listed \in {Null, rows'[id].listed}
       \/ id \in restamped]_vars
=============================================================================
