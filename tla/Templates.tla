------------------------------ MODULE Templates ------------------------------
(***************************************************************************)
(* Prompt templates (internal/api/templates.go, internal/templatestore):   *)
(* the owner of a succeeded job saves it as a template, with reference     *)
(* images that are uploaded and charged first; owners and administrators   *)
(* delete templates, administrators show and hide them, and read the list  *)
(* of all of them page by page.  A save reads the job, uploads, checks and *)
(* inserts in separate steps.  The upload itself is in StorageQuota: here  *)
(* it succeeds or it leaves nothing.                                       *)
(*                                                                         *)
(* A save is named by its request, and so are the template it inserts and  *)
(* the references it uploads.  A request that is refused before it changes *)
(* anything is not an action.                                              *)
(***************************************************************************)
EXTENDS Integers, SequencesExt

CONSTANTS
  Users, Admins,
  Jobs,       \* the jobs that may be saved
  NoJob,
  Requests,   \* saves; each is made at most once
  Filters,    \* of the administrator's list, "" for none
  Limit,      \* of a page of it
  MaxClock    \* bound on the clock

ASSUME TemplatesAssumption ==
  /\ Admins \subseteq Users /\ Users # {} /\ NoJob \notin Jobs
  /\ Filters \subseteq {"", "private", "public"} /\ Filters # {}
  /\ Limit \in Nat \ {0} /\ MaxClock \in Nat

VARIABLES
  oss,         \* is there an object store?  Chosen at the start
  jobs,        \* what a save reads of a job
  templates,   \* generation_templates, by the save that inserted the row
  charged,     \* saves whose references are in the owner's storage ledger
  req,         \* progress and locals of each save
  view,        \* the administrator's progress through the list
  clock,
  present,     \* history: the templates of the list when its reading began
  disturbed    \* history: why one of them may have slipped from page to page

saving == <<oss, jobs, templates, charged, req>>
vars == <<saving, view, clock, present, disturbed>>

Time == 0..MaxClock
Visibilities == {"private", "public"}
Job == [owner : Users, status : {"running", "succeeded", "failed"}, url : BOOLEAN]
Template == [user : Users, source : Jobs, visibility : Visibilities, refs : BOOLEAN,
             created : Time, updated : Time]
Req == [pc : {"idle", "upload", "check", "insert", "saved", "refused", "deleted"},
        user : Users, job : Jobs \cup {NoJob}, visibility : Visibilities, refs : BOOLEAN, url : BOOLEAN,
        now : Time]
\* A save that has not begun, or whose locals are gone.
Blank(pc) == [pc |-> pc, user |-> CHOOSE u \in Users : TRUE, job |-> NoJob,
              visibility |-> "private", refs |-> FALSE, url |-> FALSE, now |-> 0]
View == [step : {"idle", "page", "select", "done"}, filter : Filters, offset : Nat, total : Nat,
         shown : Seq(Requests)]

TypeOK ==
  /\ oss \in BOOLEAN /\ jobs \in [Jobs -> Job]
  /\ DOMAIN templates \subseteq Requests
  /\ \A t \in DOMAIN templates : templates[t] \in Template
  /\ charged \subseteq Requests
  /\ req \in [Requests -> Req] /\ view \in View
  /\ clock \in Time
  /\ present \subseteq Requests /\ disturbed \in BOOLEAN

Init ==
  /\ oss \in BOOLEAN
  /\ jobs \in [Jobs -> {j \in Job : j.status = "running" /\ ~j.url}]
  /\ templates = [t \in {} |-> 0] /\ charged = {}
  /\ req = [r \in Requests |-> Blank("idle")]
  /\ view = [step |-> "idle", filter |-> CHOOSE f \in Filters : TRUE, offset |-> 0, total |-> 0, shown |-> << >>]
  /\ clock = 0
  /\ present = {} /\ disturbed = FALSE

-----------------------------------------------------------------------------
(* Helpers *)

Goto(r, pc) == req' = [req EXCEPT ![r].pc = pc]
Ends(r, pc) == req' = [req EXCEPT ![r] = Blank(pc)]
Browsing == view.step \in {"page", "select"}
Reading == UNCHANGED <<view, present>>
InList(t, filter) == filter = "" \/ templates[t].visibility = filter
Listed(filter) == {t \in DOMAIN templates : InList(t, filter)}

\* A row that leaves the list moves the later ones up; one that comes between the count
\* and the rows is not counted.
Slips == disturbed' = (disturbed \/ Browsing)
SlipsInSelect == disturbed' = (disturbed \/ view.step = "select")

-----------------------------------------------------------------------------
(* Saving a job *)

\* The job ends (runJob, in JobLifecycle), with or without a result that has a URL.
JobEnds(id) ==
  /\ jobs[id].status = "running"
  /\ \E s \in {"succeeded", "failed"}, url \in BOOLEAN :
       /\ url => s = "succeeded"
       /\ jobs' = [jobs EXCEPT ![id].status = s, ![id].url = url]
  /\ UNCHANGED <<oss, templates, charged, req, clock, disturbed>> /\ Reading

\* Only the owner of a succeeded job gets past the first checks, and only an
\* administrator with "public".
SaveStart(r, id, visibility, refs) ==
  LET user == jobs[id].owner IN
  /\ req[r].pc = "idle" /\ jobs[id].status = "succeeded"
  /\ visibility = "public" => user \in Admins
  /\ req' = [req EXCEPT ![r] = [@ EXCEPT !.pc = IF refs /\ oss THEN "upload" ELSE "check",
       !.user = user, !.job = id, !.visibility = visibility, !.refs = refs, !.url = jobs[id].url]]
  /\ UNCHANGED <<oss, jobs, templates, charged, clock, disturbed>> /\ Reading

\* The references are uploaded and charged, or the quota, the object store or the ledger
\* refuses and they are removed again.
Upload(r) ==
  /\ req[r].pc = "upload"
  /\ \/ charged' = charged \cup {r} /\ Goto(r, "check")
     \/ UNCHANGED charged /\ Ends(r, "refused")
  /\ UNCHANGED <<oss, jobs, templates, clock, disturbed>> /\ Reading

\* The checks that come after the upload: the size of the references, the URL of a result.
Check(r) ==
  /\ req[r].pc = "check"
  /\ \/ req[r].url /\ req' = [req EXCEPT ![r].pc = "insert", ![r].now = clock]
     \/ (~req[r].url \/ req[r].refs) /\ Ends(r, "refused")
  /\ UNCHANGED <<oss, jobs, templates, charged, clock, disturbed>> /\ Reading

\* INSERT: source_job_id is a unique key.  The row is there or it is not: an INSERT that is
\* applied may still be answered with an error, and one that is not applied ("refused": the
\* key is taken, or the statement failed) keeps its references charged.
\* Mutant: the key of migrateTemplateSchema is not unique.
Taken_NotUnique(id) == FALSE
Taken(id) == \E t \in DOMAIN templates : templates[t].source = id
Row(r) == [user |-> req[r].user, source |-> req[r].job, visibility |-> req[r].visibility,
           refs |-> req[r].refs, created |-> req[r].now, updated |-> req[r].now]
Insert(r) ==
  /\ req[r].pc = "insert"
  /\ \/ /\ ~Taken(req[r].job)
        /\ templates' = [t \in DOMAIN templates \cup {r} |-> IF t = r THEN Row(r) ELSE templates[t]]
        /\ Ends(r, "saved") /\ SlipsInSelect
     \/ Ends(r, "refused") /\ UNCHANGED <<templates, disturbed>>
  /\ UNCHANGED <<oss, jobs, charged, clock>> /\ Reading

-----------------------------------------------------------------------------
(* Deleting, showing and hiding *)

\* One DELETE: of the caller's own template, or of a public one by an administrator.  The
\* references stay in the object store and in the ledger.
MayDelete(user, t) ==
  templates[t].user = user \/ (user \in Admins /\ templates[t].visibility = "public")
Delete(user, t) ==
  /\ t \in DOMAIN templates /\ MayDelete(user, t)
  /\ templates' = [k \in DOMAIN templates \ {t} |-> templates[k]]
  /\ Ends(t, "deleted") /\ Slips
  /\ UNCHANGED <<oss, jobs, charged, clock>> /\ Reading

\* Mutant: the visibility in the body is not checked.
Valid_Any(visibility) == TRUE
Valid(visibility) == visibility \in Visibilities
AdminSetTemplateVisibility(t, visibility) ==
  /\ t \in DOMAIN templates /\ Valid(visibility)
  /\ templates' = [templates EXCEPT ![t].visibility = visibility, ![t].updated = clock]
  /\ IF view.filter = "" THEN UNCHANGED disturbed ELSE Slips
  /\ UNCHANGED <<oss, jobs, charged, req, clock>> /\ Reading

-----------------------------------------------------------------------------
(* The administrator's list *)

\* Mutant: the list is in order of the last change.
Rank_Updated(t) == templates[t].updated
Rank(t) == templates[t].created

\* ORDER BY created_at DESC and nothing else: rows of one millisecond come in any order, and
\* not in the same one for every page.
Orders(S) == {s \in SetToSeqs(S) : \A i, j \in DOMAIN s : i < j => Rank(s[i]) >= Rank(s[j])}
Ties(S) == \E t, u \in S : t # u /\ templates[t].created = templates[u].created

ShowRows(rows) ==
  LET more == view.offset + Limit < view.total IN
  view' = [view EXCEPT !.step = IF more THEN "page" ELSE "done",
                       !.offset = IF more THEN @ + Limit ELSE @,
                       !.total = 0, !.shown = @ \o rows]

BrowseStart(filter) ==
  /\ view.step = "idle"
  /\ view' = [view EXCEPT !.step = "page", !.filter = filter]
  /\ present' = Listed(filter)
  /\ UNCHANGED <<saving, clock, disturbed>>

\* An error of either query ends the reading.
ListCount ==
  /\ view.step = "page"
  /\ \/ /\ view' = [view EXCEPT !.step = "select", !.total = Cardinality(Listed(view.filter))]
        /\ UNCHANGED disturbed
     \/ view' = [view EXCEPT !.step = "done"] /\ disturbed' = TRUE
  /\ UNCHANGED <<saving, clock, present>>

ListSelect ==
  /\ view.step = "select"
  /\ \/ /\ \E s \in Orders(Listed(view.filter)) :
             ShowRows(SubSeq(s, view.offset + 1, Min({view.offset + Limit, Len(s)})))
              /\ disturbed' = (disturbed \/ Ties(Listed(view.filter)))
     \/ view' = [view EXCEPT !.step = "done", !.total = 0] /\ disturbed' = TRUE
  /\ UNCHANGED <<saving, clock, present>>

Tick ==
  /\ clock < MaxClock
  /\ clock' = clock + 1
  /\ UNCHANGED <<saving, disturbed>> /\ Reading

\* Bound: nothing is followed beyond the end of the list, or once its reading is disturbed.
Next ==
  /\ view.step # "done" /\ ~disturbed
  /\ \/ \E id \in Jobs : JobEnds(id)
     \/ \E r \in Requests : Upload(r) \/ Check(r) \/ Insert(r)
     \/ \E r \in Requests, id \in Jobs, v \in Visibilities, refs \in BOOLEAN :
          SaveStart(r, id, v, refs)
     \/ \E u \in Users, t \in Requests : Delete(u, t)
     \/ \E t \in Requests, v \in Visibilities \cup {""} : AdminSetTemplateVisibility(t, v)
     \/ \E f \in Filters : BrowseStart(f)
     \/ ListCount \/ ListSelect
     \/ Tick

Spec == Init /\ [][Next]_vars

-----------------------------------------------------------------------------
(* Properties *)

\* Saves and their references: a job is the source of one template at most, whoever saves
\* it at once.  A template is its job's owner's, is there from its INSERT until it is
\* deleted, and has its references charged if it has some and there is an object store.
\* References are charged without a template only while the save is under way, and, for
\* good, if it was refused after the upload or its template was deleted: nothing gives these
\* back.
SavesAccounted ==
  /\ \A t, u \in DOMAIN templates : templates[t].source = templates[u].source => t = u
  /\ \A r \in Requests :
       /\ (req[r].pc = "saved") <=> (r \in DOMAIN templates)
       /\ r \in DOMAIN templates =>
            /\ templates[r].user = jobs[templates[r].source].owner
            /\ (r \in charged) <=> (oss /\ templates[r].refs)
       /\ r \in charged => req[r].pc \notin {"idle", "upload"}

\* An administrator who reads the list to its end misses a template that was in it all the
\* while only if another one left the list meanwhile, one came between the count and the
\* rows of a page, a query failed, or two have the same time of creation.
AdminPagesComplete ==
  view.step = "done" /\ ~disturbed =>
    present \cap Listed(view.filter) \subseteq Range(view.shown)
=============================================================================
