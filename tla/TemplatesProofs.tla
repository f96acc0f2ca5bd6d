---------------------------- MODULE TemplatesProofs ----------------------------
(***************************************************************************)
(* The theorems about saves and their references, and about the pages of   *)
(* the administrator's list, of Templates: for every number of users, jobs,*)
(* saves and failures, and every length of a page.                         *)
(***************************************************************************)
EXTENDS Templates, EnumerationsProofs

-----------------------------------------------------------------------------
(* The inductive invariant.  Between its steps a save carries the owner of  *)
(* its job, and says whether it has charged its references.                 *)

SavingTypeOK ==
  /\ oss \in BOOLEAN /\ jobs \in [Jobs -> Job]
  /\ \A t \in DOMAIN templates : templates[t] \in Template
  /\ req \in [Requests -> Req]
  /\ clock \in Time

UnderWay(r) == req[r].pc \in {"upload", "check", "insert"}
Carries ==
  \A r \in Requests :
    /\ UnderWay(r) => req[r].job \in Jobs /\ req[r].user = jobs[req[r].job].owner
    /\ req[r].pc = "upload" => oss /\ req[r].refs
    /\ req[r].pc \in {"check", "insert"} => ((r \in charged) <=> (oss /\ req[r].refs))

SavesInv == SavingTypeOK /\ Carries /\ SavesAccounted

-----------------------------------------------------------------------------
(* The record of one save changes. *)

Touches(r) == req' \in [Requests -> Req] /\ \A o \in Requests : o # r => req'[o] = req[o]

LEMMA Becomes ==
  ASSUME req \in [Requests -> Req], NEW r \in Requests, NEW x \in Req, req' = [req EXCEPT ![r] = x]
  PROVE  Touches(r) /\ req'[r] = x
BY DEF Touches

LEMMA Clock == MaxClock \in Nat
BY TemplatesAssumption

LEMMA BlankType ==
  ASSUME NEW pc \in {"idle", "saved", "refused", "deleted"}
  PROVE  Blank(pc) \in Req /\ Blank(pc).pc = pc
<1>1. (CHOOSE u \in Users : TRUE) \in Users
  BY TemplatesAssumption
<1>2. 0 \in Time
  BY Clock DEF Time
<1> QED
  BY <1>1, <1>2 DEF Blank, Req, Visibilities

LEMMA EndsStep ==
  ASSUME req \in [Requests -> Req], NEW r \in Requests,
         NEW pc \in {"saved", "refused", "deleted"},
         Ends(r, pc)
  PROVE  Touches(r) /\ req'[r].pc = pc
BY BlankType, Becomes DEF Ends

\* What the invariant says of the saves that a step leaves alone stays true.
LEMMA OneSave ==
  ASSUME SavesInv, NEW r \in Requests, Touches(r), UNCHANGED <<oss, templates>>,
         jobs' \in [Jobs -> Job], \A id \in Jobs : jobs'[id].owner = jobs[id].owner,
         clock' = clock, r \notin DOMAIN templates, req'[r].pc # "saved",
         charged' \subseteq charged \cup {r}, charged \subseteq charged' \cup {r},
         r \in charged' => req'[r].pc \notin {"idle", "upload"},
         req'[r].pc \in {"upload", "check", "insert"} =>
           req'[r].job \in Jobs /\ req'[r].user = jobs'[req'[r].job].owner,
         req'[r].pc = "upload" => oss /\ req'[r].refs,
         req'[r].pc \in {"check", "insert"} => ((r \in charged') <=> (oss /\ req'[r].refs))
  PROVE  SavesInv'
<1>1. SavingTypeOK'
  BY DEF SavesInv, SavingTypeOK, Touches
<1>2. ASSUME NEW o \in Requests, o # r PROVE req'[o] = req[o] /\ ((o \in charged') <=> (o \in charged))
  BY <1>2 DEF Touches
<1>3. Carries'
  <2> SUFFICES ASSUME NEW o \in Requests
               PROVE /\ UnderWay(o)' => req'[o].job \in Jobs /\ req'[o].user = jobs'[req'[o].job].owner
                     /\ req'[o].pc = "upload" => oss' /\ req'[o].refs
                     /\ req'[o].pc \in {"check", "insert"} => ((o \in charged') <=> (oss' /\ req'[o].refs))
    BY DEF Carries
  <2>1. CASE o = r
    BY <2>1 DEF UnderWay
  <2>2. CASE o # r
    BY <1>2, <2>2 DEF SavesInv, Carries, UnderWay
  <2> QED
    BY <2>1, <2>2
<1>4. SavesAccounted'
  <2>1. \A t \in DOMAIN templates : templates[t].source \in Jobs
    BY DEF SavesInv, SavingTypeOK, Template
  <2>2. ASSUME NEW o \in Requests
        PROVE  /\ (req'[o].pc = "saved") <=> (o \in DOMAIN templates')
               /\ o \in DOMAIN templates' =>
                    /\ templates'[o].user = jobs'[templates'[o].source].owner
                    /\ (o \in charged') <=> (oss' /\ templates'[o].refs)
               /\ o \in charged' => req'[o].pc \notin {"idle", "upload"}
    <3>1. CASE o = r
      BY <3>1
    <3>2. CASE o # r
      BY <1>2, <2>1, <3>2 DEF SavesInv, SavesAccounted
    <3> QED
      BY <3>1, <3>2
  <2> QED
    BY <2>2 DEF SavesInv, SavesAccounted
<1> QED
  BY <1>1, <1>3, <1>4 DEF SavesInv

\* A step that changes nothing that a save looks at.
LEMMA SavesIdle ==
  ASSUME SavesInv, UNCHANGED <<oss, templates, charged, req>>, clock' \in Time,
         jobs' \in [Jobs -> Job], \A id \in Jobs : jobs'[id].owner = jobs[id].owner
  PROVE  SavesInv'
<1>1. SavingTypeOK'
  BY DEF SavesInv, SavingTypeOK
<1>2. Carries'
  BY DEF SavesInv, Carries, UnderWay
<1>3. \A t \in DOMAIN templates : templates[t].source \in Jobs
  BY DEF SavesInv, SavingTypeOK, Template
<1>4. SavesAccounted'
  BY <1>3 DEF SavesInv, SavesAccounted
<1> QED
  BY <1>1, <1>2, <1>4 DEF SavesInv

-----------------------------------------------------------------------------
LEMMA SavesStart == Init => SavesInv
<1> SUFFICES ASSUME Init PROVE SavesInv
  OBVIOUS
<1>1. Blank("idle") \in Req /\ Blank("idle").pc = "idle"
  BY BlankType
<1>2. clock \in Time
  BY Clock DEF Init, Time
<1>3. \A r \in Requests : req[r].pc = "idle"
  BY <1>1 DEF Init
<1>4. DOMAIN templates = {} /\ charged = {}
  BY DEF Init
<1>5. oss \in BOOLEAN /\ jobs \in [Jobs -> Job] /\ req \in [Requests -> Req]
  BY <1>1 DEF Init
<1>6. SavingTypeOK
  BY <1>2, <1>4, <1>5 DEF SavingTypeOK
<1>7. Carries
  BY <1>3 DEF Carries, UnderWay
<1>8. SavesAccounted
  BY <1>3, <1>4 DEF SavesAccounted
<1> QED
  BY <1>6, <1>7, <1>8 DEF SavesInv

LEMMA JobEndsKeeps == ASSUME SavesInv, NEW id \in Jobs, JobEnds(id) PROVE SavesInv'
<1>1. PICK s \in {"succeeded", "failed"}, url \in BOOLEAN :
        jobs' = [jobs EXCEPT ![id].status = s, ![id].url = url]
  BY DEF JobEnds
<1>2. jobs' \in [Jobs -> Job] /\ \A k \in Jobs : jobs'[k].owner = jobs[k].owner
  BY <1>1 DEF SavesInv, SavingTypeOK, Job
<1> QED
  BY <1>2, SavesIdle DEF JobEnds, SavesInv, SavingTypeOK

LEMMA SaveStartKeeps ==
  ASSUME SavesInv, NEW r \in Requests, NEW id \in Jobs, NEW v \in Visibilities, NEW refs \in BOOLEAN,
         SaveStart(r, id, v, refs)
  PROVE  SavesInv'
<1> DEFINE step == IF refs /\ oss THEN "upload" ELSE "check"
           x == [req[r] EXCEPT !.pc = step, !.user = jobs[id].owner, !.job = id, !.visibility = v,
                               !.refs = refs, !.url = jobs[id].url]
<1>1. req' = [req EXCEPT ![r] = x] /\ req[r].pc = "idle" /\ UNCHANGED <<oss, jobs, templates, charged, clock>>
  BY DEF SaveStart
<1>2. jobs[id].owner \in Users /\ jobs[id].url \in BOOLEAN
  BY DEF SavesInv, SavingTypeOK, Job
<1>3. x \in Req /\ x.pc = step /\ x.user = jobs[id].owner /\ x.job = id /\ x.refs = refs
  BY <1>2 DEF SavesInv, SavingTypeOK, Req
<1> HIDE DEF x
<1>4. Touches(r) /\ req'[r] = x
  BY <1>1, <1>3, Becomes DEF SavesInv, SavingTypeOK
<1>5. r \notin charged /\ r \notin DOMAIN templates
  BY <1>1 DEF SavesInv, SavesAccounted
<1>6. step = "upload" => oss /\ refs
  OBVIOUS
<1>7. step = "check" => ~(oss /\ refs)
  OBVIOUS
<1>8. step \in {"upload", "check"}
  OBVIOUS
<1> HIDE DEF step
<1> QED
  BY <1>1, <1>3, <1>4, <1>5, <1>6, <1>7, <1>8, OneSave DEF SavesInv, SavingTypeOK

LEMMA UploadKeeps == ASSUME SavesInv, NEW r \in Requests, Upload(r) PROVE SavesInv'
<1>1. /\ req[r].pc = "upload" /\ UNCHANGED <<oss, jobs, templates, clock>>
      /\ req \in [Requests -> Req] /\ jobs \in [Jobs -> Job]
      /\ oss /\ req[r].refs /\ req[r].job \in Jobs /\ req[r].user = jobs[req[r].job].owner
  BY DEF Upload, SavesInv, SavingTypeOK, Carries, UnderWay
<1>2. r \notin DOMAIN templates /\ r \notin charged
  BY <1>1 DEF SavesInv, SavesAccounted
<1>3. CASE charged' = charged \cup {r} /\ Goto(r, "check")
  <2> DEFINE x == [req[r] EXCEPT !.pc = "check"]
  <2>1. /\ x \in Req /\ x.pc = "check" /\ x.user = req[r].user /\ x.job = req[r].job
        /\ x.refs = req[r].refs
    BY <1>1 DEF Req
  <2>2. req' = [req EXCEPT ![r] = x]
    BY <1>3 DEF Goto
  <2> HIDE DEF x
  <2>3. Touches(r) /\ req'[r] = x
    BY <1>1, <2>1, <2>2, Becomes
  <2> QED
    BY <1>1, <1>2, <1>3, <2>1, <2>3, OneSave
<1>4. CASE UNCHANGED charged /\ Ends(r, "refused")
  <2>1. Touches(r) /\ req'[r].pc = "refused"
    BY <1>1, <1>4, EndsStep
  <2> QED
    BY <1>1, <1>2, <1>4, <2>1, OneSave
<1> QED
  BY <1>3, <1>4 DEF Upload

LEMMA CheckKeeps == ASSUME SavesInv, NEW r \in Requests, Check(r) PROVE SavesInv'
<1>1. /\ req[r].pc = "check" /\ UNCHANGED <<oss, jobs, templates, charged, clock>>
      /\ req \in [Requests -> Req] /\ jobs \in [Jobs -> Job] /\ clock \in Time
      /\ (r \in charged) <=> (oss /\ req[r].refs)
      /\ req[r].job \in Jobs /\ req[r].user = jobs[req[r].job].owner
  BY DEF Check, SavesInv, SavingTypeOK, Carries, UnderWay
<1>2. r \notin DOMAIN templates
  BY <1>1 DEF SavesInv, SavesAccounted
<1>3. CASE req' = [req EXCEPT ![r].pc = "insert", ![r].now = clock]
  <2> DEFINE x == [req[r] EXCEPT !.pc = "insert", !.now = clock]
  <2>1. /\ x \in Req /\ x.pc = "insert" /\ x.user = req[r].user /\ x.job = req[r].job
        /\ x.refs = req[r].refs
    BY <1>1 DEF Req
  <2>2. req' = [req EXCEPT ![r] = x]
    BY <1>1, <1>3
  <2> HIDE DEF x
  <2>3. Touches(r) /\ req'[r] = x
    BY <1>1, <2>1, <2>2, Becomes
  <2> QED
    BY <1>1, <1>2, <2>1, <2>3, OneSave
<1>4. CASE Ends(r, "refused")
  <2>1. Touches(r) /\ req'[r].pc = "refused"
    BY <1>1, <1>4, EndsStep
  <2> QED
    BY <1>1, <1>2, <2>1, OneSave
<1> QED
  BY <1>3, <1>4 DEF Check

\* The row that is inserted is of the job's owner, of a job that had no template.
LEMMA InsertKeeps == ASSUME SavesInv, NEW r \in Requests, Insert(r) PROVE SavesInv'
<1>1. /\ req[r].pc = "insert" /\ UNCHANGED <<oss, jobs, charged, clock>>
      /\ req \in [Requests -> Req] /\ jobs \in [Jobs -> Job]
      /\ (r \in charged) <=> (oss /\ req[r].refs)
      /\ req[r].job \in Jobs /\ req[r].user = jobs[req[r].job].owner
  BY DEF Insert, SavesInv, SavingTypeOK, Carries, UnderWay
<1>2. r \notin DOMAIN templates
  BY <1>1 DEF SavesInv, SavesAccounted
<1>3. CASE Ends(r, "refused") /\ UNCHANGED templates
  <2>1. Touches(r) /\ req'[r].pc = "refused"
    BY <1>1, <1>3, EndsStep
  <2> QED
    BY <1>1, <1>2, <1>3, <2>1, OneSave
<1>4. CASE /\ ~Taken(req[r].job) /\ Ends(r, "saved")
           /\ templates' = [t \in DOMAIN templates \cup {r} |-> IF t = r THEN Row(r) ELSE templates[t]]
  <2>1. Touches(r) /\ req'[r].pc = "saved"
    BY <1>1, <1>4, EndsStep
  <2>2. /\ Row(r) \in Template /\ Row(r).user = req[r].user /\ Row(r).source = req[r].job
        /\ Row(r).refs = req[r].refs
    BY <1>1 DEF Row, Template, Req
  <2>3. /\ DOMAIN templates' = DOMAIN templates \cup {r} /\ templates'[r] = Row(r)
        /\ \A t \in DOMAIN templates : templates'[t] = templates[t]
    BY <1>2, <1>4
  <2>4. SavingTypeOK'
    BY <1>1, <2>1, <2>2, <2>3 DEF SavesInv, SavingTypeOK, Touches
  <2>5. Carries'
    BY <1>1, <2>1 DEF SavesInv, Carries, UnderWay, Touches
  <2>6. \A t, u \in DOMAIN templates' : templates'[t].source = templates'[u].source => t = u
    BY <1>4, <2>2, <2>3 DEF SavesInv, SavesAccounted, Taken
  <2>7. ASSUME NEW o \in Requests
        PROVE  /\ (req'[o].pc = "saved") <=> (o \in DOMAIN templates')
               /\ o \in DOMAIN templates' =>
                    /\ templates'[o].user = jobs'[templates'[o].source].owner
                    /\ (o \in charged') <=> (oss' /\ templates'[o].refs)
               /\ o \in charged' => req'[o].pc \notin {"idle", "upload"}
    <3>1. CASE o = r
      BY <1>1, <2>1, <2>2, <2>3, <3>1
    <3>2. CASE o # r
      BY <1>1, <2>1, <2>3, <3>2 DEF SavesInv, SavesAccounted, Touches
    <3> QED
      BY <3>1, <3>2
  <2> QED
    BY <2>4, <2>5, <2>6, <2>7 DEF SavesInv, SavesAccounted
<1> QED
  BY <1>3, <1>4 DEF Insert

LEMMA DeleteKeeps ==
  ASSUME SavesInv, NEW u \in Users, NEW r \in Requests, Delete(u, r)
  PROVE  SavesInv'
<1>1. /\ r \in DOMAIN templates /\ UNCHANGED <<oss, jobs, charged, clock>> /\ Ends(r, "deleted")
      /\ templates' = [k \in DOMAIN templates \ {r} |-> templates[k]]
  BY DEF Delete
<1>2. Touches(r) /\ req'[r].pc = "deleted"
  BY <1>1, EndsStep DEF SavesInv, SavingTypeOK
<1>3. /\ DOMAIN templates' = DOMAIN templates \ {r}
      /\ \A t \in DOMAIN templates' : templates'[t] = templates[t]
  BY <1>1
<1>4. SavingTypeOK'
  BY <1>1, <1>2, <1>3 DEF SavesInv, SavingTypeOK, Touches
<1>5. Carries'
  BY <1>1, <1>2 DEF SavesInv, Carries, UnderWay, Touches
<1>6. \A t, k \in DOMAIN templates' : templates'[t].source = templates'[k].source => t = k
  BY <1>3 DEF SavesInv, SavesAccounted
<1>7. ASSUME NEW o \in Requests
      PROVE  /\ (req'[o].pc = "saved") <=> (o \in DOMAIN templates')
             /\ o \in DOMAIN templates' =>
                  /\ templates'[o].user = jobs'[templates'[o].source].owner
                  /\ (o \in charged') <=> (oss' /\ templates'[o].refs)
             /\ o \in charged' => req'[o].pc \notin {"idle", "upload"}
  <2>1. CASE o = r
    BY <1>2, <1>3, <2>1
  <2>2. CASE o # r
    BY <1>1, <1>2, <1>3, <2>2 DEF SavesInv, SavesAccounted, Touches
  <2> QED
    BY <2>1, <2>2
<1> QED
  BY <1>4, <1>5, <1>6, <1>7 DEF SavesInv, SavesAccounted

LEMMA VisibilityKeeps ==
  ASSUME SavesInv, NEW t \in Requests, NEW v, AdminSetTemplateVisibility(t, v)
  PROVE  SavesInv'
<1>1. /\ t \in DOMAIN templates /\ v \in Visibilities /\ UNCHANGED <<oss, jobs, charged, req, clock>>
      /\ templates' = [templates EXCEPT ![t].visibility = v, ![t].updated = clock]
  BY DEF AdminSetTemplateVisibility, Valid
<1>2. /\ DOMAIN templates' = DOMAIN templates
      /\ \A k \in DOMAIN templates : /\ templates'[k] \in Template
                                     /\ templates'[k].user = templates[k].user
                                     /\ templates'[k].source = templates[k].source
                                     /\ templates'[k].refs = templates[k].refs
  BY <1>1 DEF SavesInv, SavingTypeOK, Template
<1>3. SavingTypeOK'
  BY <1>1, <1>2 DEF SavesInv, SavingTypeOK
<1>4. Carries'
  BY <1>1 DEF SavesInv, Carries, UnderWay
<1>5. SavesAccounted'
  BY <1>1, <1>2 DEF SavesInv, SavesAccounted
<1> QED
  BY <1>3, <1>4, <1>5 DEF SavesInv

LEMMA SavesStep == SavesInv /\ [Next]_vars => SavesInv'
<1> SUFFICES ASSUME SavesInv, [Next]_vars PROVE SavesInv'
  OBVIOUS
<1>1. ASSUME UNCHANGED saving, clock' \in Time PROVE SavesInv'
  BY <1>1, SavesIdle DEF saving, SavesInv, SavingTypeOK
<1>2. CASE (\E f \in Filters : BrowseStart(f)) \/ ListCount \/ ListSelect \/ UNCHANGED vars
  BY <1>1, <1>2 DEF BrowseStart, ListCount, ListSelect, vars, SavesInv, SavingTypeOK
<1>3. CASE Tick
  <2>1. clock' \in Time
    BY <1>3, Clock DEF Tick, SavesInv, SavingTypeOK, Time
  <2> QED
    BY <1>1, <1>3, <2>1 DEF Tick
<1> QED
  BY <1>2, <1>3, JobEndsKeeps, UploadKeeps, CheckKeeps, InsertKeeps, SaveStartKeeps, DeleteKeeps,
     VisibilityKeeps DEF Next

\* However saves, deletions and changes of visibility interleave and whatever fails, a job is
\* the source of one template at most; a template is its job's owner's, and its references
\* are charged exactly if it has some and there is an object store; what is charged without
\* a template belongs to a save that is under way, or that was refused after its upload or
\* whose template was deleted (HandleCreateTemplate gives nothing back, templates.go:203).
THEOREM SavesAreAccounted == Spec => []SavesAccounted
<1>1. SavesInv => SavesAccounted
  BY DEF SavesInv
<1> QED
  BY <1>1, SavesStart, SavesStep, PTL DEF Spec

-----------------------------------------------------------------------------
(* The administrator's list.  The offset counts no more templates than are  *)
(* in front of one that was not shown yet.                                  *)

ListTypeOK ==
  /\ DOMAIN templates \subseteq Requests /\ IsFiniteSet(DOMAIN templates)
  /\ charged \subseteq Requests
  /\ view \in View /\ (view.step = "idle" => view.offset = 0)
  /\ present \subseteq Requests /\ disturbed \in BOOLEAN

Ahead(x) == {t \in Listed(view.filter) : Rank(t) > Rank(x)}
Pending ==
  Browsing /\ ~disturbed =>
    /\ present \subseteq Listed(view.filter)
    /\ view.step = "select" => view.total = Cardinality(Listed(view.filter))
    /\ \A x \in present : x \in Range(view.shown) \/ view.offset <= Cardinality(Ahead(x))

ListInv == ListTypeOK /\ Pending /\ AdminPagesComplete

LEMMA Counts == Limit \in Nat \ {0} /\ MaxClock \in Nat
BY TemplatesAssumption, Zenon

LEMMA ListedIsFinite ==
  ASSUME ListTypeOK, NEW filter
  PROVE  IsFiniteSet(Listed(filter)) /\ Cardinality(Listed(filter)) \in Nat
<1>1. Listed(filter) \in SUBSET DOMAIN templates
  BY DEF Listed
<1> QED
  BY <1>1, FS_Subset, FS_CardinalityType DEF ListTypeOK

LEMMA RankType ==
  ASSUME SavingTypeOK, NEW t \in DOMAIN templates
  PROVE  Rank(t) \in Nat
<1>1. Time \subseteq Nat
  BY Counts DEF Time
<1> QED
  BY <1>1 DEF SavingTypeOK, Template, Rank

\* In a list without ties, the place of a template tells how many are in front of it.
LEMMA PlaceInOrder ==
  ASSUME SavingTypeOK, NEW S \in SUBSET DOMAIN templates, IsFiniteSet(S), ~Ties(S),
         NEW s \in Orders(S)
  PROVE  /\ s \in Seq(S) /\ Len(s) = Cardinality(S) /\ DOMAIN s = 1..Cardinality(S)
         /\ \A x \in S : \E i \in 1..Cardinality(S) : s[i] = x
         /\ \A i \in 1..Cardinality(S) : Cardinality({t \in S : Rank(t) > Rank(s[i])}) = i - 1
<1> DEFINE n == Cardinality(S)
<1>1. n \in Nat
  BY FS_CardinalityType
<1>2. /\ s \in [1..n -> S] /\ \A i, j \in 1..n : i # j => s[i] # s[j]
      /\ \A i, j \in DOMAIN s : i < j => Rank(s[i]) >= Rank(s[j])
  BY DEF Orders, SetToSeqs
<1>3. s \in Seq(S) /\ Len(s) = n /\ DOMAIN s = 1..n
  BY <1>1, <1>2, FunctionIsSeq
<1>4. s \in Injection(1..n, S)
  BY <1>2 DEF Injection, IsInjective
<1>5. IsFiniteSet(1..n) /\ Cardinality(1..n) = n
  BY <1>1, FS_Interval
<1>6. s \in Surjection(1..n, S)
  BY <1>4, <1>5, FS_Injection
<1>7. \A x \in S : \E i \in 1..n : s[i] = x
  BY <1>6 DEF Surjection
<1>8. \A i, j \in 1..n : i < j <=> Rank(s[i]) > Rank(s[j])
  <2> SUFFICES ASSUME NEW i \in 1..n, NEW j \in 1..n
               PROVE  i < j <=> Rank(s[i]) > Rank(s[j])
    OBVIOUS
  <2>1. s[i] \in S /\ s[j] \in S /\ Rank(s[i]) \in Nat /\ Rank(s[j]) \in Nat
    BY <1>2, RankType
  <2>2. i # j => Rank(s[i]) # Rank(s[j])
    BY <1>2, <2>1 DEF Ties, Rank
  <2>3. i < j => Rank(s[i]) >= Rank(s[j])
    BY <1>2, <1>3
  <2>4. j < i => Rank(s[j]) >= Rank(s[i])
    BY <1>2, <1>3
  <2>5. i \in Int /\ j \in Int
    OBVIOUS
  <2> QED
    BY <2>1, <2>2, <2>3, <2>4, <2>5
<1> DEFINE R == {p \in S \X S : Rank(p[1]) > Rank(p[2])}
<1>9. \A x, y \in S : <<x, y>> \in R <=> Rank(x) > Rank(y)
  OBVIOUS
<1>10. \A x \in S : Before(S, R, x) = {t \in S : Rank(t) > Rank(x)}
  BY <1>9 DEF Before
<1>11. \A i, j \in 1..Len(s) : i < j <=> <<s[i], s[j]>> \in R
  BY <1>2, <1>3, <1>8, <1>9
<1>12. \A i \in 1..Len(s) : Cardinality(Before(S, R, s[i])) = i - 1
  <2>1. s \in Seq(S) /\ \A x \in S : \E i \in 1..Len(s) : s[i] = x
    BY <1>3, <1>7
  <2> HIDE DEF R, n
  <2> QED
    BY <1>11, <2>1, PlaceInList
<1>13. \A i \in 1..n : s[i] \in S
  BY <1>2
<1> QED
  BY <1>3, <1>7, <1>10, <1>12, <1>13

\* While the list is read, rows may come in anywhere, but between the count and the rows.
LEMMA PendingKeeps ==
  ASSUME ListTypeOK, ListTypeOK', Pending, UNCHANGED <<view, present>>, disturbed => disturbed',
         Browsing /\ ~disturbed' =>
           /\ Listed(view.filter) \subseteq Listed(view.filter)'
           /\ \A t \in Listed(view.filter) : Rank(t)' = Rank(t)
           /\ view.step = "select" => Listed(view.filter)' = Listed(view.filter)
  PROVE  Pending'
<1> SUFFICES ASSUME Browsing, ~disturbed'
             PROVE  /\ present \subseteq Listed(view.filter)'
                    /\ view.step = "select" => view.total = Cardinality(Listed(view.filter)')
                    /\ \A x \in present : x \in Range(view.shown) \/ view.offset <= Cardinality(Ahead(x)')
  BY DEF Pending, Browsing
<1>1. /\ present \subseteq Listed(view.filter)
      /\ view.step = "select" => view.total = Cardinality(Listed(view.filter))
      /\ \A x \in present : x \in Range(view.shown) \/ view.offset <= Cardinality(Ahead(x))
  BY DEF Pending
<1>2. ASSUME NEW x \in present, x \notin Range(view.shown)
      PROVE  view.offset <= Cardinality(Ahead(x)')
  <2>1. Ahead(x) \in SUBSET (Ahead(x)')
    BY <1>1 DEF Ahead
  <2>2. Ahead(x)' \in SUBSET (Listed(view.filter)')
    BY DEF Ahead
  <2>3. IsFiniteSet(Listed(view.filter)')
    <3>1. (Listed(view.filter)') \in SUBSET DOMAIN templates'
      BY DEF Listed
    <3> QED
      BY <3>1, FS_Subset DEF ListTypeOK
  <2> HIDE DEF Ahead
  <2>4. IsFiniteSet(Ahead(x)') /\ Cardinality(Ahead(x)') \in Nat
    BY <2>2, <2>3, FS_Subset, FS_CardinalityType
  <2>5. Cardinality(Ahead(x)) <= Cardinality(Ahead(x)') /\ Cardinality(Ahead(x)) \in Nat
    BY <2>1, <2>4, FS_Subset, FS_CardinalityType
  <2>6. view.offset \in Nat /\ view.offset <= Cardinality(Ahead(x))
    BY <1>1, <1>2 DEF ListTypeOK, View
  <2> QED
    BY <2>4, <2>5, <2>6
<1> QED
  BY <1>1, <1>2

\* A step of the others, that leaves the templates as they are.
LEMMA OthersKeep ==
  ASSUME SavesInv, ListInv, UNCHANGED <<templates, view, present>>,
         charged' \subseteq Requests, disturbed' \in BOOLEAN,
         disturbed => disturbed'
  PROVE  ListInv'
<1>1. ListTypeOK'
  BY DEF ListInv, ListTypeOK
<1>2. \A f : Listed(f)' = Listed(f)
  BY DEF Listed, InList
<1>3. \A t : Rank(t)' = Rank(t)
  BY DEF Rank
<1>4. Pending'
  BY <1>1, <1>2, <1>3, PendingKeeps DEF ListInv
<1>5. AdminPagesComplete'
  BY <1>2 DEF ListInv, AdminPagesComplete
<1> QED
  BY <1>1, <1>4, <1>5 DEF ListInv

LEMMA InsertKeepsList ==
  ASSUME SavesInv, ListInv, NEW r \in Requests, Insert(r), view.step # "done"
  PROVE  ListInv'
<1>1. /\ UNCHANGED <<charged, view, present>> /\ r \notin DOMAIN templates
  BY DEF Insert, Reading, SavesInv, SavesAccounted
<1>2. CASE UNCHANGED <<templates, disturbed>>
  BY <1>1, <1>2, OthersKeep DEF ListInv, ListTypeOK
<1>3. CASE /\ templates' = [t \in DOMAIN templates \cup {r} |-> IF t = r THEN Row(r) ELSE templates[t]]
           /\ SlipsInSelect
  <2>1. /\ DOMAIN templates' = DOMAIN templates \cup {r}
        /\ \A t \in DOMAIN templates : templates'[t] = templates[t]
    BY <1>1, <1>3
  <2>2. IsFiniteSet(DOMAIN templates')
    BY <2>1, FS_AddElement DEF ListInv, ListTypeOK
  <2>3. disturbed' = (disturbed \/ view.step = "select")
    BY <1>3 DEF SlipsInSelect
  <2>4. ListTypeOK'
    BY <1>1, <2>1, <2>2, <2>3 DEF ListInv, ListTypeOK
  <2>5. ASSUME NEW f
        PROVE  Listed(f) \subseteq Listed(f)' /\ \A t \in Listed(f) : Rank(t)' = Rank(t)
    BY <2>1 DEF Listed, InList, Rank
  <2>6. Pending'
    BY <1>1, <2>3, <2>4, <2>5, PendingKeeps DEF ListInv
  <2>7. AdminPagesComplete'
    BY <1>1 DEF AdminPagesComplete
  <2> QED
    BY <2>4, <2>6, <2>7 DEF ListInv
<1> QED
  BY <1>2, <1>3 DEF Insert

\* A template leaves the list only where that is noted.
LEMMA DeleteKeepsList ==
  ASSUME ListInv, NEW u \in Users, NEW r \in Requests, Delete(u, r), view.step # "done"
  PROVE  ListInv'
<1>1. /\ UNCHANGED <<charged, view, present>>
      /\ templates' = [k \in DOMAIN templates \ {r} |-> templates[k]]
      /\ disturbed' = (disturbed \/ Browsing)
  BY DEF Delete, Reading, Slips
<1>2. DOMAIN templates' = DOMAIN templates \ {r}
  BY <1>1
<1>3. IsFiniteSet(DOMAIN templates')
  BY <1>2, FS_RemoveElement DEF ListInv, ListTypeOK
<1>4. ListTypeOK'
  BY <1>1, <1>2, <1>3 DEF ListInv, ListTypeOK
<1>5. Pending'
  BY <1>1 DEF Pending, Browsing
<1>6. AdminPagesComplete'
  BY <1>1 DEF AdminPagesComplete
<1> QED
  BY <1>4, <1>5, <1>6 DEF ListInv

LEMMA VisibilityKeepsList ==
  ASSUME SavesInv, ListInv, NEW r \in Requests, NEW v, AdminSetTemplateVisibility(r, v),
         view.step # "done"
  PROVE  ListInv'
<1>1. /\ UNCHANGED <<charged, view, present>> /\ r \in DOMAIN templates
      /\ templates' = [templates EXCEPT ![r].visibility = v, ![r].updated = clock]
      /\ view.filter = "" => UNCHANGED disturbed
      /\ view.filter # "" => disturbed' = (disturbed \/ Browsing)
  BY Zenon DEF AdminSetTemplateVisibility, Reading, Slips
<1>2. DOMAIN templates' = DOMAIN templates /\ \A t \in DOMAIN templates : Rank(t)' = Rank(t)
  BY <1>1 DEF Rank, SavesInv, SavingTypeOK, Template
<1>3. disturbed \in BOOLEAN /\ disturbed' \in BOOLEAN /\ (disturbed => disturbed')
  <2>1. disturbed' = disturbed \/ disturbed' = (disturbed \/ Browsing)
    BY Zenon DEF AdminSetTemplateVisibility, Slips
  <2>2. disturbed \in BOOLEAN
    BY DEF ListInv, ListTypeOK
  <2>3. Browsing \in BOOLEAN
    BY DEF Browsing
  <2> HIDE DEF Browsing
  <2> QED
    BY <2>1, <2>2, <2>3
<1>4. ListTypeOK'
  BY <1>1, <1>2, <1>3 DEF ListInv, ListTypeOK
<1>5. Browsing /\ ~disturbed' => view.filter = ""
  BY <1>1, Zenon
<1>6. view.filter = "" => Listed(view.filter)' = Listed(view.filter)
  <2>1. Listed("")' = DOMAIN templates' /\ Listed("") = DOMAIN templates
    BY Zenon DEF Listed, InList
  <2> QED
    BY <1>1, <1>2, <2>1, Zenon
<1>7. Listed(view.filter) \subseteq DOMAIN templates
  BY DEF Listed
<1>8. Pending'
  BY <1>1, <1>2, <1>3, <1>4, <1>5, <1>6, <1>7, PendingKeeps DEF ListInv
<1>9. AdminPagesComplete'
  BY <1>1 DEF AdminPagesComplete
<1> QED
  BY <1>4, <1>8, <1>9 DEF ListInv

\* One page of a list without ties: who is not on it is behind it.
LEMMA PageOfOrder ==
  ASSUME SavingTypeOK, NEW S \in SUBSET DOMAIN templates, IsFiniteSet(S), ~Ties(S),
         NEW s \in Orders(S), NEW offset \in Nat, NEW x \in S,
         offset <= Cardinality({t \in S : Rank(t) > Rank(x)}),
         x \notin Range(SubSeq(s, offset + 1, Min({offset + Limit, Len(s)})))
  PROVE  /\ offset + Limit <= Cardinality({t \in S : Rank(t) > Rank(x)})
         /\ Cardinality({t \in S : Rank(t) > Rank(x)}) < Cardinality(S)
<1> DEFINE A == {t \in S : Rank(t) > Rank(x)}
<1>1. Cardinality(S) \in Nat /\ Limit \in Nat
  BY FS_CardinalityType, Counts
<1>2. s \in Seq(S) /\ Len(s) = Cardinality(S)
  BY PlaceInOrder
<1>3. PICK i \in 1..Cardinality(S) : s[i] = x
  BY PlaceInOrder
<1>4. Cardinality(A) = i - 1
  <2>1. Cardinality({t \in S : Rank(t) > Rank(s[i])}) = i - 1
    BY PlaceInOrder
  <2>2. A = {t \in S : Rank(t) > Rank(s[i])}
    BY <1>3
  <2> QED
    BY <2>1, <2>2
<1> HIDE DEF A
<1>5. offset < i
  BY <1>1, <1>4 DEF A
<1>6. offset + Limit < i
  BY <1>1, <1>2, <1>3, <1>5, PageMisses
<1> QED
  BY <1>1, <1>4, <1>6 DEF A

LEMMA ShowRowsType ==
  ASSUME view \in View, NEW rows \in Seq(Requests), ShowRows(rows)
  PROVE  /\ view' \in View /\ view'.filter = view.filter
         /\ Range(view'.shown) = Range(view.shown) \cup Range(rows)
         /\ view.offset + Limit < view.total => view'.step = "page" /\ view'.offset = view.offset + Limit
         /\ ~(view.offset + Limit < view.total) => view'.step = "done"
<1> DEFINE more == view.offset + Limit < view.total
           step == IF more THEN "page" ELSE "done"
           offset == IF more THEN view.offset + Limit ELSE view.offset
           shown == view.shown \o rows
<1>1. view.offset \in Nat /\ Limit \in Nat /\ view.shown \in Seq(Requests)
  BY Counts DEF View
<1>2. offset \in Nat /\ step \in {"page", "done"}
  BY <1>1
<1>3. shown \in Seq(Requests) /\ Range(shown) = Range(view.shown) \cup Range(rows)
  BY <1>1, ConcatFacts
<1>4. view' = [view EXCEPT !.step = step, !.offset = offset, !.total = 0, !.shown = shown]
  BY DEF ShowRows
<1> HIDE DEF step, offset, shown
<1>5. /\ view' \in View /\ view'.filter = view.filter /\ view'.step = step
      /\ view'.offset = offset /\ view'.shown = shown
  BY <1>2, <1>3, <1>4 DEF View
<1> QED
  BY <1>3, <1>5 DEF step, offset

LEMMA CountKeepsList ==
  ASSUME ListInv, ListCount
  PROVE  ListInv'
<1>1. /\ view.step = "page" /\ UNCHANGED <<templates, charged, present>> /\ view \in View
  BY DEF ListCount, saving, ListInv, ListTypeOK
<1>2. CASE /\ view' = [view EXCEPT !.step = "select", !.total = Cardinality(Listed(view.filter))]
           /\ UNCHANGED disturbed
  <2> DEFINE total == Cardinality(Listed(view.filter))
  <2>1. total \in Nat
    BY ListedIsFinite DEF ListInv
  <2> HIDE DEF total
  <2>2. view' = [view EXCEPT !.step = "select", !.total = total]
    BY <1>2 DEF total
  <2>3. /\ view' \in View /\ view'.step = "select" /\ view'.total = total
        /\ view'.filter = view.filter /\ view'.offset = view.offset /\ view'.shown = view.shown
    BY <1>1, <2>1, <2>2 DEF View
  <2>4. ListTypeOK'
    BY <1>1, <1>2, <2>3 DEF ListInv, ListTypeOK
  <2>5. \A f : Listed(f)' = Listed(f)
    BY <1>1 DEF Listed, InList
  <2>6. \A x : Ahead(x)' = Ahead(x)
    BY <1>1, <2>3, <2>5 DEF Ahead, Rank
  <2>7. Pending'
    BY <1>1, <1>2, <2>3, <2>5, <2>6 DEF ListInv, Pending, Browsing, total
  <2>8. AdminPagesComplete'
    BY <2>3 DEF AdminPagesComplete
  <2> QED
    BY <2>4, <2>7, <2>8 DEF ListInv
<1>3. CASE view' = [view EXCEPT !.step = "done"] /\ disturbed' = TRUE
  <2>1. view' \in View /\ view'.step = "done"
    BY <1>1, <1>3 DEF View
  <2>2. ListTypeOK'
    BY <1>1, <1>3, <2>1 DEF ListInv, ListTypeOK
  <2> QED
    BY <1>3, <2>2 DEF ListInv, Pending, AdminPagesComplete
<1> QED
  BY <1>2, <1>3 DEF ListCount

LEMMA SelectKeepsList ==
  ASSUME SavesInv, ListInv, ListSelect
  PROVE  ListInv'
<1> DEFINE S == Listed(view.filter)
<1>1. /\ view.step = "select" /\ UNCHANGED <<templates, charged, present>> /\ view \in View
      /\ disturbed \in BOOLEAN
  BY DEF ListSelect, saving, ListInv, ListTypeOK
<1>2. S \in SUBSET DOMAIN templates /\ IsFiniteSet(S) /\ Cardinality(S) \in Nat
  <2>1. S \in SUBSET DOMAIN templates
    BY DEF Listed
  <2> QED
    BY <2>1, ListedIsFinite DEF ListInv
<1>3. CASE view' = [view EXCEPT !.step = "done", !.total = 0] /\ disturbed' = TRUE
  <2>1. view' \in View /\ view'.step = "done"
    BY <1>1, <1>3 DEF View
  <2>2. ListTypeOK'
    BY <1>1, <1>3, <2>1 DEF ListInv, ListTypeOK
  <2> QED
    BY <1>3, <2>2 DEF ListInv, Pending, AdminPagesComplete
<1>4. ASSUME NEW s \in Orders(S), disturbed' = (disturbed \/ Ties(S)),
             ShowRows(SubSeq(s, view.offset + 1, Min({view.offset + Limit, Len(s)})))
      PROVE  ListInv'
  <2> DEFINE page == SubSeq(s, view.offset + 1, Min({view.offset + Limit, Len(s)}))
  <2>1. view.offset \in Nat /\ Limit \in Nat \ {0} /\ view.total \in Nat
    BY <1>1, Counts DEF View
  <2>2. s \in Seq(Requests)
    <3>1. s \in [1..Cardinality(S) -> S] /\ S \subseteq Requests
      BY <1>2 DEF Orders, SetToSeqs, ListInv, ListTypeOK
    <3> HIDE DEF S
    <3>2. s \in [1..Cardinality(S) -> Requests]
      BY <3>1
    <3> QED
      BY <1>2, <3>2, FunctionIsSeq
  <2>3. page \in Seq(Requests)
    <3>1. Len(s) \in Nat
      BY <2>2
    <3>2. Min({view.offset + Limit, Len(s)}) \in Nat /\ Min({view.offset + Limit, Len(s)}) <= Len(s)
      BY <2>1, <3>1, MinOfTwo
    <3> QED
      BY <2>1, <2>2, <3>2, SliceFacts
  <2>4. /\ view' \in View /\ view'.filter = view.filter
        /\ Range(view'.shown) = Range(view.shown) \cup Range(page)
        /\ view.offset + Limit < view.total => view'.step = "page" /\ view'.offset = view.offset + Limit
        /\ ~(view.offset + Limit < view.total) => view'.step = "done"
    <3>1. ShowRows(page)
      BY <1>4
    <3> HIDE DEF page
    <3> QED
      BY <1>1, <2>3, <3>1, ShowRowsType
  <2>5. Ties(S) \in BOOLEAN
    BY DEF Ties
  <2>6. ListTypeOK'
    <3>1. disturbed' \in BOOLEAN
      <4> HIDE DEF S
      <4> QED
        BY <1>1, <1>4, <2>5
    <3> QED
      BY <1>1, <1>4, <2>4, <3>1 DEF ListInv, ListTypeOK
  <2>7. \A f : Listed(f)' = Listed(f)
    BY <1>1 DEF Listed, InList
  <2>8. \A x : Ahead(x)' = Ahead(x) /\ Ahead(x) = {t \in S : Rank(t) > Rank(x)}
    BY <1>1, <2>4, <2>7 DEF Ahead, Rank
  <2>9. ASSUME ~disturbed', NEW x \in present, x \notin Range(view'.shown)
        PROVE  view.offset + Limit < view.total /\ view.offset + Limit <= Cardinality(Ahead(x)')
    <3>1. ~Ties(S) /\ ~disturbed
      <4> HIDE DEF S
      <4> QED
        BY <1>1, <1>4, <2>5, <2>9
    <3>2. x \in S /\ view.total = Cardinality(S)
      BY <1>1, <2>9, <3>1 DEF ListInv, Pending, Browsing
    <3>3. x \notin Range(view.shown) /\ x \notin Range(page)
      BY <2>4, <2>9
    <3>4. view.offset <= Cardinality(Ahead(x))
      BY <1>1, <2>9, <3>1, <3>3 DEF ListInv, Pending, Browsing
    <3> HIDE DEF S
    <3>5. /\ view.offset + Limit <= Cardinality({t \in S : Rank(t) > Rank(x)})
          /\ Cardinality({t \in S : Rank(t) > Rank(x)}) < Cardinality(S)
      BY <1>2, <1>4, <2>1, <2>8, <3>1, <3>2, <3>3, <3>4, PageOfOrder DEF SavesInv
    <3>6. Cardinality({t \in S : Rank(t) > Rank(x)}) \in Nat
      <4>1. {t \in S : Rank(t) > Rank(x)} \in SUBSET S
        OBVIOUS
      <4> QED
        BY <1>2, <4>1, FS_Subset, FS_CardinalityType
    <3> DEFINE a == Cardinality({t \in S : Rank(t) > Rank(x)})
    <3>7. Cardinality(Ahead(x)') = a
      BY <2>8
    <3> HIDE DEF a
    <3>8. view.offset + Limit <= a /\ a < Cardinality(S) /\ a \in Nat
      BY <3>5, <3>6 DEF a
    <3> QED
      BY <1>2, <2>1, <3>2, <3>7, <3>8
  <2>10. Pending'
    <3> SUFFICES ASSUME Browsing', ~disturbed'
                 PROVE  /\ present' \subseteq Listed(view.filter)'
                        /\ view'.step # "select"
                        /\ \A x \in present' : x \in Range(view'.shown) \/ view'.offset <= Cardinality(Ahead(x)')
      BY DEF Pending
    <3>1. view'.step = "page" /\ view'.offset = view.offset + Limit
      BY <2>4 DEF Browsing
    <3>2. ~disturbed
      <4> HIDE DEF S
      <4> QED
        BY <1>1, <1>4, <2>5
    <3>3. present' \subseteq Listed(view.filter)'
      BY <1>1, <2>4, <2>7, <3>2 DEF ListInv, Pending, Browsing
    <3> QED
      BY <1>1, <2>9, <3>1, <3>3
  <2>11. AdminPagesComplete'
    BY <1>1, <2>4, <2>9 DEF AdminPagesComplete
  <2> QED
    BY <2>6, <2>10, <2>11 DEF ListInv
<1> QED
  BY <1>1, <1>3, <1>4 DEF ListSelect

LEMMA BrowseKeepsList ==
  ASSUME ListInv, NEW f \in Filters, BrowseStart(f)
  PROVE  ListInv'
<1>1. /\ view.step = "idle" /\ view' = [view EXCEPT !.step = "page", !.filter = f]
      /\ present' = Listed(f) /\ UNCHANGED <<templates, charged, disturbed>>
      /\ view \in View /\ view.offset = 0
  BY DEF BrowseStart, saving, ListInv, ListTypeOK
<1>2. view' \in View /\ view'.step = "page" /\ view'.filter = f /\ view'.offset = 0
  BY <1>1 DEF View
<1>3. present' \subseteq DOMAIN templates
  BY <1>1 DEF Listed
<1>4. ListTypeOK'
  BY <1>1, <1>2, <1>3 DEF ListInv, ListTypeOK
<1>5. Listed(f)' = Listed(f) /\ IsFiniteSet(Listed(f))
  BY <1>1, ListedIsFinite DEF Listed, InList, ListInv
<1>6. ASSUME NEW x
      PROVE  0 <= Cardinality(Ahead(x)')
  <2>1. (Ahead(x)') \in SUBSET Listed(f)
    BY <1>2, <1>5 DEF Ahead
  <2>2. Cardinality(Ahead(x)') \in Nat
    BY <1>5, <2>1, FS_Subset, FS_CardinalityType
  <2> QED
    BY <2>2
<1>7. Pending'
  BY <1>1, <1>2, <1>5, <1>6 DEF Pending
<1>8. AdminPagesComplete'
  BY <1>2 DEF AdminPagesComplete
<1> QED
  BY <1>4, <1>7, <1>8 DEF ListInv

LEMMA ListStart == Init => ListInv
<1> SUFFICES ASSUME Init PROVE ListInv
  OBVIOUS
<1> DEFINE filter == CHOOSE f \in Filters : TRUE
<1>1. filter \in Filters
  <2>1. Filters # {}
    BY TemplatesAssumption, Zenon
  <2> QED
    BY <2>1
<1> HIDE DEF filter
<1>2. view = [step |-> "idle", filter |-> filter, offset |-> 0, total |-> 0, shown |-> << >>]
  BY DEF Init, filter
<1>3. view \in View /\ view.step = "idle" /\ view.offset = 0
  BY <1>1, <1>2 DEF View
<1>4. DOMAIN templates = {} /\ charged = {} /\ present = {} /\ disturbed = FALSE
  BY DEF Init
<1>5. ListTypeOK
  BY <1>3, <1>4, FS_EmptySet DEF ListTypeOK
<1> QED
  BY <1>3, <1>5 DEF ListInv, Pending, Browsing, AdminPagesComplete

LEMMA ListStep == SavesInv /\ ListInv /\ [Next]_vars => ListInv'
<1> SUFFICES ASSUME SavesInv, ListInv, [Next]_vars PROVE ListInv'
  OBVIOUS
<1>1. CASE UNCHANGED vars
  BY <1>1, OthersKeep DEF vars, saving, ListInv, ListTypeOK
<1>2. CASE \/ Tick \/ \E id \in Jobs : JobEnds(id)
           \/ \E r \in Requests : Check(r)
           \/ \E r \in Requests, id \in Jobs, v \in Visibilities, refs \in BOOLEAN : SaveStart(r, id, v, refs)
  BY <1>2, OthersKeep DEF Tick, JobEnds, Check, SaveStart, saving, Reading, ListInv, ListTypeOK
<1>3. ASSUME NEW r \in Requests, Upload(r)
      PROVE  ListInv'
  BY <1>3, OthersKeep DEF Upload, Reading, ListInv, ListTypeOK
<1>4. CASE Next
  <2>1. view.step # "done"
    BY <1>4 DEF Next
  <2> QED
    BY <1>2, <1>3, <1>4, <2>1, InsertKeepsList, DeleteKeepsList, VisibilityKeepsList, BrowseKeepsList,
       CountKeepsList, SelectKeepsList DEF Next
<1> QED
  BY <1>1, <1>4

LEMMA ListInvAlways == Spec => [](SavesInv /\ ListInv)
<1> QED
  BY SavesStart, SavesStep, ListStart, ListStep, PTL DEF Spec

\* The rows, the ledger and the locals of every save keep their shape, and so does the
\* administrator's progress through the list.
THEOREM TypeCorrect == Spec => []TypeOK
<1>1. SavesInv /\ ListInv => TypeOK
  BY DEF SavesInv, SavingTypeOK, ListInv, ListTypeOK, TypeOK
<1> QED
  BY <1>1, ListInvAlways, PTL

\* The administrator's pages leave out a template that was in the list all the while only if
\* another one left it, one came between the count and the rows of a page, a query failed,
\* or two have the same time of creation (MySQLStore.AdminList orders by created_at alone).
THEOREM AdminPagesAreComplete == Spec => []AdminPagesComplete
<1>1. ListInv => AdminPagesComplete
  BY DEF ListInv
<1> QED
  BY <1>1, ListInvAlways, PTL
=============================================================================
