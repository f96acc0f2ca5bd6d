--------------------------- MODULE JobReadersProofs ---------------------------
(***************************************************************************)
(* The theorems about JobReaders, for every number of jobs, requests and   *)
(* failures: the stamps of the feed, the pages of a history and of the     *)
(* administrator's list, the totals and the time series.                   *)
(***************************************************************************)
EXTENDS JobReaders, EnumerationsProofs

LEMMA Bounds ==
  /\ MaxClock \in Nat /\ MaxFaults \in Nat /\ Jobs \subseteq Nat \ {0}
  /\ Limit \in Nat \ {0} /\ Bucket \in Nat \ {0} /\ Zone \in Nat
BY JobTableAssumption, JobReadersAssumption

LEMMA TimeIsNat == Time \subseteq Nat
BY Bounds DEF Time

-----------------------------------------------------------------------------
(* The table.  A request that has read a stamp writes it to a row that has  *)
(* none or has this one, unless the row is restamped.                       *)

Publishing(v) == publish[v] # Idle
Older(a, b) == \E i, j \in DOMAIN order : i < j /\ order[i] = a /\ order[j] = b

Rows ==
  /\ store \in Stores /\ store \in {"memory", "mysql"} /\ reader \in Readers
  /\ DOMAIN rows \subseteq used /\ used \subseteq Jobs
  /\ \A id \in DOMAIN rows : rows[id] \in Row
  /\ publish \in [Requests -> [job : Jobs, stamp : Time] \cup {Idle}]
  /\ clock \in Time /\ faults \in 0..MaxFaults /\ restamped \subseteq Jobs

InOrder ==
  /\ order \in Seq(Jobs)
  /\ Range(order) = DOMAIN rows
  /\ IsInjective(order)

Stamps ==
  \A v \in Requests : Publishing(v) =>
    LET id == publish[v].job IN
    /\ store = "mysql" /\ id \in DOMAIN rows
    /\ rows[id].listed \in {Null, publish[v].stamp} \/ id \in restamped
    /\ \A w \in Requests : publish[w].job = id => w = v \/ id \in restamped

TableInv == Rows /\ InOrder /\ Stamps

\* What a step does to a row that stays: a stamp may be given, a running job settle and, in
\* MySQL, a login claim the job.
SameResult(id) ==
  /\ store = "memory" => rows'[id].owner = rows[id].owner
  /\ rows'[id].created = rows[id].created
  /\ rows'[id].group = rows[id].group
  /\ Settled(id) => /\ rows'[id].status = rows[id].status
                    /\ rows'[id].finished = rows[id].finished /\ rows'[id].code = rows[id].code
SameStamp(id) == rows[id].listed \in {Null, rows'[id].listed} \/ id \in restamped
\* Ids are given once, and a new job is behind all others.
NewIds ==
  /\ used \subseteq used'
  /\ \A id \in DOMAIN rows' : id \in DOMAIN rows \/ id \notin used
SameOrder ==
  \A a, b \in DOMAIN rows' : a \in DOMAIN rows =>
    IF b \in DOMAIN rows THEN Older(a, b)' <=> Older(a, b) ELSE Older(a, b)'
RowsStep ==
  /\ UNCHANGED <<store, reader>>
  /\ store = "mysql" => DOMAIN rows \subseteq DOMAIN rows'
  /\ \A id \in DOMAIN rows : id \in DOMAIN rows' => SameResult(id) /\ SameStamp(id)
  /\ NewIds /\ SameOrder

LEMMA FaultType ==
  ASSUME faults \in 0..MaxFaults, NoFault \/ Fault
  PROVE  faults' \in 0..MaxFaults
BY Bounds DEF NoFault, Fault

\* The list and the ids of the jobs stay as they are.
LEMMA OrderKept ==
  ASSUME InOrder, UNCHANGED <<order, used>>, DOMAIN rows' = DOMAIN rows
  PROVE  InOrder' /\ NewIds /\ SameOrder
<1>1. InOrder'
  BY DEF InOrder
<1>2. \A a, b : Older(a, b)' <=> Older(a, b)
  BY DEF Older
<1> QED
  BY <1>1, <1>2 DEF NewIds, SameOrder

LEMMA JobIsNotIdle ==
  ASSUME TableInv, NEW v \in Requests
  PROVE  Publishing(v) <=> publish[v].job \in Jobs
<1>1. 0 \notin Jobs /\ Idle.job = 0
  BY Bounds DEF Idle
<1>2. publish[v] # Idle => publish[v] \in [job : Jobs, stamp : Time]
  BY DEF TableInv, Rows
<1> QED
  BY <1>1, <1>2 DEF Publishing

\* A step that does not touch the table.
LEMMA TableSame ==
  ASSUME TableInv, UNCHANGED <<store, reader, table>>, clock' \in Time, faults' \in 0..MaxFaults
  PROVE  TableInv' /\ RowsStep
<1>1. UNCHANGED <<rows, used, order, publish, restamped>>
  BY DEF table
<1>2. Rows' /\ Stamps'
  BY <1>1 DEF TableInv, Rows, Stamps, Publishing
<1>3. InOrder' /\ NewIds /\ SameOrder
  BY <1>1, OrderKept DEF TableInv
<1>4. RowsStep
  BY <1>1, <1>3 DEF RowsStep, SameResult, SameStamp
<1> QED
  BY <1>2, <1>3, <1>4 DEF TableInv

LEMMA VaryType ==
  ASSUME NEW column, NEW S, S # {}, NEW x \in Vary(column, S)
  PROVE  x \in S
BY DEF Vary

LEMMA TakenType ==
  ASSUME clock \in Time, NEW column, NEW t \in Taken(column)
  PROVE  t \in Time
BY DEF Taken

LEMMA CreateStep ==
  ASSUME TableInv, NEW id \in Jobs, Create(id)
  PROVE  TableInv' /\ RowsStep
<1> PICK t \in Taken("created"), o \in Vary("owner", Callers), g \in Vary("group", Groups) :
      rows' = [k \in DOMAIN rows \cup {id} |->
                 IF k = id THEN [owner |-> o, created |-> t, status |-> "running", group |-> g,
                                 code |-> NoCode, finished |-> Null, public |-> FALSE, listed |-> Null]
                           ELSE rows[k]]
  BY DEF Create
<1>1. /\ id \notin DOMAIN rows /\ id \notin used /\ used' = used \cup {id} /\ order' = Append(order, id)
      /\ UNCHANGED <<store, reader, publish, restamped, clock, faults>>
  BY DEF Create, TableInv, Rows, NoFault
<1>2. DOMAIN rows' = DOMAIN rows \cup {id} /\ \A k \in DOMAIN rows : rows'[k] = rows[k]
  BY <1>1
<1>3. t \in Time /\ o \in Owners /\ g \in Groups /\ NoCode \in Codes
  <2>1. Callers # {} /\ Callers \subseteq Owners
    BY JobTableAssumption, Zenon DEF Callers
  <2> QED
    BY <2>1, VaryType, TakenType, JobTableAssumption DEF TableInv, Rows
<1>4. rows'[id] \in Row
  BY <1>1, <1>3 DEF Row, Statuses
<1>5. Rows'
  BY <1>1, <1>2, <1>4 DEF TableInv, Rows
<1>6. Stamps'
  BY <1>1, <1>2 DEF TableInv, Stamps, Publishing
<1>7. /\ order' \in Seq(Jobs) /\ Len(order') = Len(order) + 1 /\ order'[Len(order) + 1] = id
      /\ \A i \in 1..Len(order) : order'[i] = order[i]
      /\ DOMAIN order = 1..Len(order) /\ Len(order) \in Nat /\ DOMAIN order' = 1..Len(order) + 1
  BY <1>1 DEF TableInv, InOrder
<1>8. \A i \in 1..Len(order) : order[i] \in DOMAIN rows
  BY <1>7 DEF TableInv, InOrder, Range
<1>9. Range(order') = DOMAIN rows'
  <2>1. \A k \in DOMAIN rows : \E i \in 1..Len(order) : order[i] = k
    BY <1>7 DEF TableInv, InOrder, Range
  <2>2. \A k \in DOMAIN rows' : \E i \in 1..Len(order) + 1 : order'[i] = k
    BY <1>2, <1>7, <2>1
  <2>3. \A i \in 1..Len(order) + 1 : order'[i] \in DOMAIN rows'
    BY <1>2, <1>7, <1>8
  <2> QED
    BY <1>7, <2>2, <2>3 DEF Range
<1>10. InOrder'
  <2>1. \A i, j \in 1..Len(order) + 1 : order'[i] = order'[j] => i = j
    BY <1>1, <1>7, <1>8 DEF TableInv, InOrder, IsInjective
  <2> QED
    BY <1>7, <1>9, <2>1 DEF InOrder, IsInjective
<1>11. SameOrder
  <2> SUFFICES ASSUME NEW a \in DOMAIN rows, NEW b \in DOMAIN rows'
               PROVE  IF b \in DOMAIN rows THEN Older(a, b)' <=> Older(a, b) ELSE Older(a, b)'
    BY DEF SameOrder
  <2>1. PICK i \in 1..Len(order) : order[i] = a
    BY <1>7 DEF TableInv, InOrder, Range
  <2>2. CASE b \in DOMAIN rows
    <3>1. Older(a, b) => Older(a, b)'
      BY <1>7 DEF Older
    <3>2. Older(a, b)' => Older(a, b)
      BY <1>1, <1>7, <2>2 DEF Older
    <3> QED
      BY <2>2, <3>1, <3>2
  <2>3. CASE b \notin DOMAIN rows
    <3>1. b = id
      BY <1>2, <2>3
    <3> QED
      BY <1>7, <2>1, <2>3, <3>1 DEF Older
  <2> QED
    BY <2>2, <2>3
<1>12. RowsStep
  BY <1>1, <1>2, <1>11 DEF RowsStep, SameResult, SameStamp, NewIds
<1> QED
  BY <1>5, <1>6, <1>10, <1>12 DEF TableInv

SettledAs(row, s, t, c) == [row EXCEPT !.status = s, !.finished = t, !.code = c]
SameJob(new, old) ==
  new.owner = old.owner /\ new.created = old.created /\ new.group = old.group /\ new.listed = old.listed

LEMMA SettledRow ==
  ASSUME NEW row \in Row, NEW s \in Statuses, NEW t \in Time, NEW c \in Codes
  PROVE  SettledAs(row, s, t, c) \in Row /\ SameJob(SettledAs(row, s, t, c), row)
<1> DEFINE a == [row EXCEPT !.status = s]
           b == [a EXCEPT !.finished = t]
           new == [b EXCEPT !.code = c]
<1> HIDE DEF Statuses, Time
<1>1. a \in Row /\ SameJob(a, row)
  BY DEF Row, SameJob
<1> HIDE DEF a
<1>2. b \in Row /\ SameJob(b, row)
  BY <1>1 DEF Row, SameJob
<1> HIDE DEF b
<1>3. new \in Row /\ SameJob(new, row)
  BY <1>2 DEF Row, SameJob
<1> QED
  BY <1>3 DEF a, b, SettledAs

LEMMA SettleStep ==
  ASSUME TableInv, NEW id \in Jobs, Settle(id)
  PROVE  TableInv' /\ RowsStep
<1> PICK t \in IF store = "memory" THEN {clock} ELSE Taken("finished"), s \in {"succeeded", "failed"},
         c \in Vary("code", Codes) :
      /\ t >= rows[id].created
      /\ rows' = [rows EXCEPT ![id] = [@ EXCEPT !.status = s, !.finished = t,
                                                !.code = IF s = "failed" THEN c ELSE NoCode]]
  BY Zenon DEF Settle
<1>1. /\ id \in DOMAIN rows /\ ~Settled(id)
      /\ UNCHANGED <<store, reader, used, order, publish, restamped, clock, faults>>
  BY DEF Settle, NoFault
<1>2. DOMAIN rows' = DOMAIN rows /\ \A k \in DOMAIN rows : k # id => rows'[k] = rows[k]
  BY <1>1
<1> DEFINE code == IF s = "failed" THEN c ELSE NoCode
<1>3. t \in Time /\ code \in Codes
  BY VaryType, TakenType, JobTableAssumption DEF TableInv, Rows
<1>4. rows[id] \in Row
  BY <1>1 DEF TableInv, Rows
<1>5. /\ rows'[id] \in Row /\ rows'[id].owner = rows[id].owner /\ rows'[id].created = rows[id].created
      /\ rows'[id].group = rows[id].group /\ rows'[id].listed = rows[id].listed
  <2> HIDE DEF code
  <2>1. rows'[id] = SettledAs(rows[id], s, t, code)
    BY <1>1 DEF code, SettledAs
  <2>2. s \in Statuses
    BY DEF Statuses
  <2> HIDE DEF code
  <2>3. rows'[id] \in Row /\ SameJob(rows'[id], rows[id])
    BY <1>3, <1>4, <2>1, <2>2, SettledRow
  <2> QED
    BY <2>3 DEF SameJob
<1>6. Rows'
  BY <1>1, <1>2, <1>5 DEF TableInv, Rows
<1>7. Stamps'
  BY <1>1, <1>2, <1>5 DEF TableInv, Stamps, Publishing
<1>8. InOrder' /\ NewIds /\ SameOrder
  BY <1>1, <1>2, OrderKept DEF TableInv
<1>9. RowsStep
  BY <1>1, <1>2, <1>5, <1>8 DEF RowsStep, SameResult, SameStamp
<1> QED
  BY <1>6, <1>7, <1>8, <1>9 DEF TableInv

\* What stays keeps its place among what stays.
LEMMA EvictStep ==
  ASSUME TableInv, Evict
  PROVE  TableInv' /\ RowsStep
<1> DEFINE young == {id \in DOMAIN rows : ~Old(id)}
           at == KeptAt(order, young)
           n == Len(at)
<1>1. /\ store = "memory" /\ UNCHANGED <<store, reader, used, publish, restamped, clock, faults>>
      /\ order' = Filter(order, young) /\ rows' = [id \in young |-> rows[id]]
  BY DEF Evict, NoFault
<1>2. DOMAIN rows' = young /\ young \subseteq DOMAIN rows /\ \A k \in DOMAIN rows' : rows'[k] = rows[k]
  BY <1>1
<1>3. \A v \in Requests : ~Publishing(v)
  BY <1>1 DEF TableInv, Stamps
<1>4. Rows' /\ Stamps'
  BY <1>1, <1>2, <1>3 DEF TableInv, Rows, Stamps, Publishing
<1>5. /\ order \in Seq(Jobs) /\ DOMAIN order = 1..Len(order)
      /\ \A i, j \in 1..Len(order) : order[i] = order[j] => i = j
      /\ \A k \in DOMAIN rows : \E i \in 1..Len(order) : order[i] = k
  BY DEF TableInv, InOrder, Range, IsInjective
<1> HIDE DEF young
<1>6. /\ at \in [1..n -> 1..Len(order)] /\ n \in Nat
      /\ \A i \in 1..Len(order) : order[i] \in young => \E k \in 1..n : at[k] = i
      /\ \A i, j \in 1..n : i < j <=> at[i] < at[j]
  <2> HIDE DEF at, n
  <2>1. at = KeptAt(order, young) /\ n = Len(at)
    BY DEF at, n
  <2>2. order \in Seq(Jobs)
    BY <1>5
  <2> QED
    BY <2>1, <2>2, KeptAtFacts
<1>7. /\ order' \in Seq(Jobs) /\ DOMAIN order' = 1..n
      /\ \A k \in 1..n : order'[k] = order[at[k]] /\ order'[k] \in young
  BY <1>1, <1>5, FilterFacts
<1> HIDE DEF at, n
<1>8. \A k \in 1..n : at[k] \in 1..Len(order)
  BY <1>6
<1>9. ASSUME NEW a \in young
      PROVE  \E k \in 1..n : order'[k] = a
  <2>1. PICK i \in 1..Len(order) : order[i] = a
    BY <1>2, <1>5
  <2>2. PICK k \in 1..n : at[k] = i
    BY <1>6, <2>1
  <2> QED
    BY <1>7, <2>1, <2>2
<1>10. InOrder'
  <2>1. Range(order') = DOMAIN rows'
    BY <1>2, <1>7, <1>9 DEF Range
  <2>2. ASSUME NEW i \in 1..n, NEW j \in 1..n, order'[i] = order'[j]
        PROVE  i = j
    <3>1. at[i] = at[j]
      BY <1>5, <1>7, <1>8, <2>2
    <3>2. at[i] \in Int /\ at[j] \in Int /\ i \in Int /\ j \in Int
      BY <1>8
    <3>3. (i < j <=> at[i] < at[j]) /\ (j < i <=> at[j] < at[i])
      BY <1>6
    <3> QED
      BY <3>1, <3>2, <3>3
  <2> QED
    BY <1>7, <2>1, <2>2 DEF InOrder, IsInjective
<1>11. SameOrder
  <2> SUFFICES ASSUME NEW a \in young, NEW b \in young
               PROVE  Older(a, b)' <=> Older(a, b)
    BY <1>2 DEF SameOrder
  <2>1. Older(a, b)' => Older(a, b)
    <3> SUFFICES ASSUME NEW i \in 1..n, NEW j \in 1..n, i < j, order'[i] = a, order'[j] = b
                 PROVE  Older(a, b)
      BY <1>7 DEF Older
    <3>1. at[i] < at[j] /\ order[at[i]] = a /\ order[at[j]] = b
      BY <1>6, <1>7
    <3> QED
      BY <1>5, <1>8, <3>1 DEF Older
  <2>2. Older(a, b) => Older(a, b)'
    <3> SUFFICES ASSUME NEW i \in 1..Len(order), NEW j \in 1..Len(order), i < j, order[i] = a, order[j] = b
                 PROVE  Older(a, b)'
      BY <1>5 DEF Older
    <3>1. PICK k \in 1..n : at[k] = i
      BY <1>6
    <3>2. PICK l \in 1..n : at[l] = j
      BY <1>6
    <3>3. k < l /\ order'[k] = a /\ order'[l] = b
      BY <1>6, <1>7, <3>1, <3>2
    <3> QED
      BY <1>7, <3>3 DEF Older
  <2> QED
    BY <2>1, <2>2
<1>12. RowsStep
  BY <1>1, <1>2, <1>11 DEF RowsStep, SameResult, SameStamp, NewIds
<1> QED
  BY <1>4, <1>10, <1>12 DEF TableInv

LEMMA ReadStampStep ==
  ASSUME TableInv, NEW v \in Requests, NEW id \in Jobs, ReadStamp(v, id)
  PROVE  TableInv' /\ RowsStep
<1>1. /\ store = "mysql" /\ publish[v] = Idle /\ id \in DOMAIN rows
      /\ UNCHANGED <<store, reader, rows, used, order, clock>>
  BY DEF ReadStamp
<1>2. PICK stamp : /\ publish' = [publish EXCEPT ![v] = [job |-> id, stamp |-> stamp]]
                   /\ \/ stamp = Stamp(id) /\ NoFault
                      \/ stamp = clock /\ Fault
  BY DEF ReadStamp
<1>3. Fault => faults' # faults
  BY DEF Fault, TableInv, Rows
<1>4. restamped \subseteq restamped' /\ restamped' \subseteq restamped \cup {id}
  BY DEF ReadStamp
<1>5. faults' # faults \/ (\E w \in Requests : publish[w].job = id) => id \in restamped'
  BY DEF ReadStamp
<1>6. publish'[v] = [job |-> id, stamp |-> stamp] /\ \A w \in Requests : w # v => publish'[w] = publish[w]
  BY <1>2 DEF TableInv, Rows
<1>7. publish'[v].job = id /\ publish'[v].stamp = stamp
  BY <1>6
<1>8. rows[id].listed \in {Null, stamp} \/ id \in restamped'
  BY <1>2, <1>3, <1>5 DEF Stamp
<1>9. Stamps'
  <2> SUFFICES ASSUME NEW u \in Requests, publish'[u] # Idle
               PROVE  LET k == publish'[u].job IN
                      /\ store' = "mysql" /\ k \in DOMAIN rows'
                      /\ rows'[k].listed \in {Null, publish'[u].stamp} \/ k \in restamped'
                      /\ \A w \in Requests : publish'[w].job = k => w = u \/ k \in restamped'
    BY <1>2 DEF Stamps, Publishing
  <2>1. CASE u = v
    BY <1>1, <1>5, <1>6, <1>7, <1>8, <2>1
  <2>2. CASE u # v
    BY <1>1, <1>4, <1>5, <1>6, <1>7, <2>2 DEF TableInv, Stamps, Publishing
  <2> QED
    BY <2>1, <2>2
<1>10. Rows'
  <2>1. stamp \in Time
    BY <1>1, <1>2 DEF TableInv, Rows, Row, Stamp
  <2>2. publish' \in [Requests -> [job : Jobs, stamp : Time] \cup {Idle}]
    BY <1>2, <2>1 DEF TableInv, Rows
  <2>3. faults' \in 0..MaxFaults
    BY <1>2, FaultType DEF TableInv, Rows
  <2> QED
    BY <1>1, <1>4, <2>2, <2>3 DEF TableInv, Rows
<1>11. InOrder' /\ NewIds /\ SameOrder
  BY <1>1, OrderKept DEF TableInv
<1>12. RowsStep
  BY <1>1, <1>11 DEF RowsStep, SameResult, SameStamp
<1> QED
  BY <1>9, <1>10, <1>11, <1>12 DEF TableInv

LEMMA WriteStampStep ==
  ASSUME TableInv, NEW v \in Requests, WriteStamp(v)
  PROVE  TableInv' /\ RowsStep
<1> DEFINE id == publish[v].job
           stamp == publish[v].stamp
<1>1. /\ Publishing(v) /\ publish' = [publish EXCEPT ![v] = Idle]
      /\ UNCHANGED <<store, reader, used, order, clock, restamped>>
  BY DEF WriteStamp, Publishing
<1>2. /\ id \in Jobs /\ id \in DOMAIN rows /\ rows[id] \in Row /\ store = "mysql" /\ stamp \in Time
      /\ rows[id].listed \in {Null, stamp} \/ id \in restamped
      /\ \A w \in Requests : publish[w].job = id => w = v \/ id \in restamped
  BY <1>1 DEF TableInv, Rows, Stamps, Publishing
<1>3. publish'[v] = Idle /\ \A w \in Requests : w # v => publish'[w] = publish[w]
  BY <1>1 DEF TableInv, Rows
<1>4. \/ UNCHANGED rows
      \/ rows' = [rows EXCEPT ![id] = [@ EXCEPT !.public = TRUE, !.listed = stamp]]
  BY DEF WriteStamp
<1> HIDE DEF id, stamp
<1>5. /\ DOMAIN rows' = DOMAIN rows /\ \A k \in DOMAIN rows : k # id => rows'[k] = rows[k]
      /\ rows'[id] \in Row /\ rows'[id].listed \in {rows[id].listed, stamp}
      /\ rows'[id].owner = rows[id].owner /\ rows'[id].created = rows[id].created
      /\ rows'[id].status = rows[id].status /\ rows'[id].finished = rows[id].finished
      /\ rows'[id].group = rows[id].group /\ rows'[id].code = rows[id].code
  <2>1. CASE UNCHANGED rows
    BY <1>2, <2>1
  <2>2. CASE rows' = [rows EXCEPT ![id] = [@ EXCEPT !.public = TRUE, !.listed = stamp]]
    <3>1. rows'[id] = [rows[id] EXCEPT !.public = TRUE, !.listed = stamp]
      BY <1>2, <2>2
    <3>2. DOMAIN rows' = DOMAIN rows /\ \A k \in DOMAIN rows : k # id => rows'[k] = rows[k]
      BY <1>2, <2>2
    <3> QED
      BY <1>2, <3>1, <3>2 DEF Row
  <2> QED
    BY <1>4, <2>1, <2>2
<1>6. Rows'
  <2>1. faults' \in 0..MaxFaults
    BY FaultType DEF WriteStamp, TableInv, Rows
  <2>2. publish' \in [Requests -> [job : Jobs, stamp : Time] \cup {Idle}]
    BY <1>1 DEF TableInv, Rows
  <2> QED
    BY <1>1, <1>5, <2>1, <2>2 DEF TableInv, Rows
<1>7. Stamps'
  <2> SUFFICES ASSUME NEW u \in Requests, publish'[u] # Idle
               PROVE  LET k == publish'[u].job IN
                      /\ store' = "mysql" /\ k \in DOMAIN rows'
                      /\ rows'[k].listed \in {Null, publish'[u].stamp} \/ k \in restamped'
                      /\ \A w \in Requests : publish'[w].job = k => w = u \/ k \in restamped'
    BY <1>1 DEF Stamps, Publishing
  <2>1. u # v /\ publish'[u] = publish[u] /\ Publishing(u)
    BY <1>3 DEF Publishing
  <2>2. publish[u].job = id => id \in restamped
    BY <1>2, <2>1
  <2>3. \A w \in Requests : publish'[w].job \in Jobs => w # v /\ publish'[w] = publish[w]
    BY <1>3, Bounds DEF Idle
  <2>4. publish[u].job \in Jobs
    BY <2>1, JobIsNotIdle
  <2> QED
    BY <1>1, <1>5, <2>1, <2>2, <2>3, <2>4 DEF TableInv, Stamps
<1>8. InOrder' /\ NewIds /\ SameOrder
  BY <1>1, <1>5, OrderKept DEF TableInv
<1>9. RowsStep
  BY <1>1, <1>2, <1>5, <1>8 DEF RowsStep, SameResult, SameStamp, Settled
<1> QED
  BY <1>6, <1>7, <1>8, <1>9 DEF TableInv

LEMMA MakePrivateStep ==
  ASSUME TableInv, NEW id \in Jobs, MakePrivate(id)
  PROVE  TableInv' /\ RowsStep
<1>1. /\ id \in DOMAIN rows /\ rows' = [rows EXCEPT ![id].public = FALSE]
      /\ UNCHANGED <<store, reader, used, order, publish, clock, faults, restamped>>
  BY DEF MakePrivate, NoFault
<1>2. rows[id] \in Row
  BY <1>1 DEF TableInv, Rows
<1>3. /\ DOMAIN rows' = DOMAIN rows /\ \A k \in DOMAIN rows : k # id => rows'[k] = rows[k]
      /\ rows'[id] = [rows[id] EXCEPT !.public = FALSE]
  BY <1>1
<1>4. /\ rows'[id] \in Row
      /\ rows'[id].owner = rows[id].owner /\ rows'[id].created = rows[id].created
      /\ rows'[id].listed = rows[id].listed
      /\ rows'[id].status = rows[id].status /\ rows'[id].finished = rows[id].finished
      /\ rows'[id].group = rows[id].group /\ rows'[id].code = rows[id].code
  BY <1>2, <1>3 DEF Row
<1>5. Rows'
  BY <1>1, <1>3, <1>4 DEF TableInv, Rows
<1>6. Stamps'
  BY <1>1, <1>3, <1>4 DEF TableInv, Stamps, Publishing
<1>7. InOrder' /\ NewIds /\ SameOrder
  BY <1>1, <1>3, OrderKept DEF TableInv
<1>8. RowsStep
  BY <1>1, <1>3, <1>4, <1>7 DEF RowsStep, SameResult, SameStamp, Settled
<1> QED
  BY <1>5, <1>6, <1>7, <1>8 DEF TableInv

LEMMA MigrateStep ==
  ASSUME TableInv, NEW session \in Owners, NEW user \in Owners, MigrateAnonymousJobs(session, user)
  PROVE  TableInv' /\ RowsStep
<1>1. /\ store = "mysql"
      /\ rows' = [id \in DOMAIN rows |->
                    IF rows[id].owner = session THEN [rows[id] EXCEPT !.owner = user] ELSE rows[id]]
      /\ UNCHANGED <<store, reader, used, order, publish, clock, faults, restamped>>
  BY DEF MigrateAnonymousJobs, NoFault
<1>2. DOMAIN rows' = DOMAIN rows
  BY <1>1
<1>3. ASSUME NEW id \in DOMAIN rows
      PROVE  /\ rows'[id] \in Row
             /\ rows'[id].created = rows[id].created /\ rows'[id].listed = rows[id].listed
             /\ rows'[id].status = rows[id].status /\ rows'[id].finished = rows[id].finished
             /\ rows'[id].group = rows[id].group /\ rows'[id].code = rows[id].code
  <2>1. rows[id] \in Row
    BY DEF TableInv, Rows
  <2>2. rows'[id] = rows[id] \/ rows'[id] = [rows[id] EXCEPT !.owner = user]
    BY <1>1
  <2> QED
    BY <2>1, <2>2 DEF Row
<1>4. Rows'
  BY <1>1, <1>2, <1>3 DEF TableInv, Rows
<1>5. Stamps'
  BY <1>1, <1>2, <1>3 DEF TableInv, Stamps, Publishing
<1>6. InOrder' /\ NewIds /\ SameOrder
  BY <1>1, <1>2, OrderKept DEF TableInv
<1>7. RowsStep
  BY <1>1, <1>2, <1>3, <1>6 DEF RowsStep, SameResult, SameStamp, Settled
<1> QED
  BY <1>4, <1>5, <1>6, <1>7 DEF TableInv

LEMMA WriteKeeps ==
  ASSUME TableInv, Write
  PROVE  TableInv' /\ RowsStep
<1>1. CASE Tick
  <2>1. clock' \in Time /\ UNCHANGED <<store, reader, table, faults>>
    BY <1>1, Bounds DEF Tick, NoFault, Time, TableInv, Rows
  <2> QED
    BY <2>1, TableSame DEF TableInv, Rows
<1> QED
  BY <1>1, CreateStep, SettleStep, EvictStep, ReadStampStep, WriteStampStep, MakePrivateStep, MigrateStep
     DEF Write

\* A step is a writer's, or leaves the table alone.
LEMMA ReadersLeaveTable ==
  ASSUME TableInv, [Next]_vars
  PROVE  WriteStep \/ (UNCHANGED <<store, reader, table, clock>> /\ faults' \in 0..MaxFaults)
<1>1. faults \in 0..MaxFaults
  BY DEF TableInv, Rows
<1>2. CASE BrowseStart \/ List
  BY <1>1, <1>2, FaultType DEF BrowseStart, List, ReadOnly
<1>3. CASE AdminStart \/ AdminList \/ AdminCount \/ AdminSelect
  BY <1>1, <1>3, FaultType DEF AdminStart, AdminList, AdminCount, AdminSelect, ReadOnly
<1>4. CASE StatsStart \/ MemoryStats \/ MysqlTotals \/ MysqlBreakdown
  BY <1>1, <1>4, FaultType DEF StatsStart, MemoryStats, MysqlTotals, MysqlBreakdown, ReadOnly
<1>5. CASE SeriesStart \/ MemoryBucket \/ MysqlSeries
  BY <1>1, <1>5, FaultType DEF SeriesStart, MemoryBucket, MysqlSeries, ReadOnly
<1>6. CASE UNCHANGED vars
  BY <1>1, <1>6 DEF vars, tableVars
<1> QED
  BY <1>2, <1>3, <1>4, <1>5, <1>6 DEF Next

LEMMA TableStep ==
  ASSUME TableInv, [Next]_vars
  PROVE  TableInv' /\ RowsStep
<1>1. CASE WriteStep
  BY <1>1, WriteKeeps DEF WriteStep
<1>2. CASE UNCHANGED <<store, reader, table, clock>> /\ faults' \in 0..MaxFaults
  BY <1>2, TableSame DEF TableInv, Rows
<1> QED
  BY <1>1, <1>2, ReadersLeaveTable

LEMMA TableInvInit ==
  ASSUME Init
  PROVE  TableInv
<1>1. /\ DOMAIN rows = {} /\ used = {} /\ publish = [v \in Requests |-> Idle]
      /\ store \in Stores /\ store \in {"memory", "mysql"} /\ reader \in Readers
      /\ order = << >> /\ clock \in Time /\ faults \in 0..MaxFaults /\ restamped = {}
  <2>1. Stores \subseteq {"memory", "mysql"}
    BY JobTableAssumption, Zenon
  <2> QED
    BY <2>1, Bounds DEF Init, TableInit, Time
<1>2. InOrder
  BY <1>1 DEF InOrder, Range, IsInjective
<1> QED
  BY <1>1, <1>2 DEF TableInv, Rows, Stamps, Publishing

\* Every request that holds a stamp holds the one its row has, if the row has one and is not
\* restamped; rows keep their shape (the writers of MySQL and Memory).
THEOREM TableIsSound == Spec => []TableInv
<1> QED
  BY TableInvInit, TableStep, PTL DEF Spec

\* The stamp that orders the feed changes only after overlapping requests to publish the
\* job, or a failed look-up (MySQL.SetVisibility).
THEOREM StampsAreKept == Spec => StampedOnce
<1> DEFINE Step == \A id \in DOMAIN rows : id \in DOMAIN rows' =>
                     \/ rows[id].listed \in {Null, rows'[id].listed}
                     \/ id \in restamped
<1>1. TableInv /\ [Next]_vars => Step
  BY TableStep DEF RowsStep, SameStamp
<1>2. TableInv /\ [Next]_vars => [Step]_vars
  BY <1>1
<1> QED
  BY <1>2, TableIsSound, PTL DEF Spec, StampedOnce

-----------------------------------------------------------------------------
(* The administrator's totals.  Between the two queries of MySQL the jobs   *)
(* that the first one counted are still there, and counted where they were. *)

Counting == reader \in {"stats", "models"}
Apart(f, K) == \A k, l \in K : k # l => f[k] \cap f[l] = {}
Zero(f, K) == \A k \in K : f[k] = {}
Total == IF reader = "stats" THEN UNION {answer.first[s] : s \in Statuses}
         ELSE UNION {answer.first[<<g, "failed">>] : g \in Groups}
Parts == UNION {answer.second[k] : k \in Second}
Sums ==
  /\ Apart(answer.first, First) /\ Apart(answer.second, Second)
  /\ store = "memory" => Parts = Total
  /\ ~disturbed => Total \subseteq Parts

FailedIn(g, id) ==
  /\ id \in DOMAIN rows /\ rows[id].status = "failed" /\ rows[id].group = g
  /\ InWindow(rows[id].finished, view.window[1], view.window[2])
StillThere ==
  /\ reader = "stats" => \A s \in Statuses : answer.first[s] \subseteq DOMAIN rows
  /\ reader = "models" => \A g \in Groups : \A id \in answer.first[<<g, "failed">>] : FailedIn(g, id)

StatsInv ==
  Counting =>
    /\ {"step", "window"} \subseteq DOMAIN view
    /\ view.step \in {"idle", "select", "second", "done"}
    /\ DOMAIN answer = {"first", "second", "buckets"}
    /\ view.step # "done" => Zero(answer.second, Second)
    /\ view.step \in {"idle", "select"} => Zero(answer.first, First)
    /\ view.step = "second" => store = "mysql" /\ Apart(answer.first, First) /\ StillThere
    /\ view.step = "done" => Sums

\* What the two queries count.
LEMMA FirstFacts ==
  ASSUME TableInv, Counting
  PROVE  /\ Apart(FirstCount, First)
         /\ reader = "stats" => UNION {FirstCount[s] : s \in Statuses} = DOMAIN rows
         /\ reader = "models" => \A g \in Groups : \A id :
              id \in FirstCount[<<g, "failed">>] <=> FailedIn(g, id)
<1>1. CASE reader = "stats"
  <2>1. FirstCount = [s \in Statuses |-> {id \in DOMAIN rows : rows[id].status = s}] /\ First = Statuses
    BY <1>1 DEF FirstCount, First
  <2>2. \A id \in DOMAIN rows : rows[id].status \in Statuses
    BY DEF TableInv, Rows, Row
  <2>3. Apart(FirstCount, First)
    BY <2>1 DEF Apart
  <2>4. UNION {FirstCount[s] : s \in Statuses} = DOMAIN rows
    BY <2>1, <2>2
  <2> QED
    BY <1>1, <2>3, <2>4
<1>2. CASE reader = "models"
  <2> DEFINE In(k) == {id \in InThisWindow : rows[id].group = k[1] /\ rows[id].status = k[2]}
  <2>1. FirstCount = [k \in Groups \X Ends |-> In(k)] /\ First = Groups \X Ends
    BY <1>2 DEF FirstCount, First
  <2>2. Apart(FirstCount, First)
    <3> SUFFICES ASSUME NEW k \in Groups \X Ends, NEW l \in Groups \X Ends, NEW id \in In(k), id \in In(l)
                 PROVE  k = l
      BY <2>1 DEF Apart
    <3>1. k[1] = l[1] /\ k[2] = l[2]
      OBVIOUS
    <3> QED
      BY <3>1
  <2>3. ASSUME NEW g \in Groups, NEW id
        PROVE  id \in FirstCount[<<g, "failed">>] <=> FailedIn(g, id)
    <3>1. <<g, "failed">> \in Groups \X Ends
      BY DEF Ends
    <3>2. FirstCount[<<g, "failed">>] = In(<<g, "failed">>)
      BY <2>1, <3>1
    <3>3. id \in InThisWindow <=> /\ id \in DOMAIN rows /\ Settled(id)
                                  /\ InWindow(rows[id].finished, view.window[1], view.window[2])
      BY DEF InThisWindow, Finished
    <3> QED
      BY <3>2, <3>3 DEF FailedIn, Settled
  <2> QED
    BY <1>2, <2>2, <2>3
<1> QED
  BY <1>1, <1>2 DEF Counting

LEMMA SecondFacts ==
  ASSUME TableInv, Counting, NEW first
  PROVE  /\ Apart(SecondCount(first), Second)
         /\ reader = "stats" => UNION {SecondCount(first)[k] : k \in Second} = DOMAIN rows
         /\ reader = "models" => \A id :
              id \in UNION {SecondCount(first)[k] : k \in Second}
                <=> \E g \in Groups : HasRow(g, first) /\ FailedIn(g, id)
<1>1. CASE reader = "stats"
  <2>1. SecondCount(first) = [g \in Groups |-> {id \in DOMAIN rows : rows[id].group = g}] /\ Second = Groups
    BY <1>1 DEF SecondCount, Second
  <2>2. \A id \in DOMAIN rows : rows[id].group \in Groups
    BY <1>1 DEF TableInv, Rows, Row
  <2>3. Apart(SecondCount(first), Second)
    BY <2>1 DEF Apart
  <2>4. UNION {SecondCount(first)[g] : g \in Groups} = DOMAIN rows
    BY <2>1, <2>2
  <2> QED
    BY <1>1, <2>1, <2>3, <2>4
<1>2. CASE reader = "models"
  <2> DEFINE In(k) == {id \in InThisWindow : /\ rows[id].group = k[1] /\ HasRow(k[1], first)
                                            /\ rows[id].status = "failed" /\ CodeOf(id) = k[2]}
  <2>1. SecondCount(first) = [k \in Groups \X ShownCodes |-> In(k)] /\ Second = Groups \X ShownCodes
    BY <1>2 DEF SecondCount, Second
  <2>2. Apart(SecondCount(first), Second)
    <3> SUFFICES ASSUME NEW k \in Groups \X ShownCodes, NEW l \in Groups \X ShownCodes,
                        NEW id \in In(k), id \in In(l)
                 PROVE  k = l
      BY <2>1 DEF Apart
    <3>1. k[1] = l[1] /\ k[2] = l[2]
      OBVIOUS
    <3> QED
      BY <3>1
  <2>3. ASSUME NEW id
        PROVE  id \in UNION {SecondCount(first)[k] : k \in Second}
                 <=> \E g \in Groups : HasRow(g, first) /\ FailedIn(g, id)
    <3>1. id \in InThisWindow <=> /\ id \in DOMAIN rows /\ Settled(id)
                                  /\ InWindow(rows[id].finished, view.window[1], view.window[2])
      BY DEF InThisWindow, Finished
    <3>2. id \in DOMAIN rows => CodeOf(id) \in ShownCodes
      BY <1>2 DEF TableInv, Rows, Row, CodeOf, ShownCodes
    <3>3. ASSUME NEW k \in Groups \X ShownCodes, id \in In(k)
          PROVE  k[1] \in Groups /\ HasRow(k[1], first) /\ FailedIn(k[1], id)
      BY <3>1, <3>3 DEF FailedIn
    <3>4. ASSUME NEW g \in Groups, HasRow(g, first), FailedIn(g, id)
          PROVE  <<g, CodeOf(id)>> \in Groups \X ShownCodes /\ id \in In(<<g, CodeOf(id)>>)
      BY <3>1, <3>2, <3>4 DEF FailedIn, Settled
    <3>5. id \in UNION {SecondCount(first)[k] : k \in Second} <=> \E k \in Groups \X ShownCodes : id \in In(k)
      BY <2>1
    <3> QED
      BY <3>3, <3>4, <3>5
  <2> QED
    BY <1>2, <2>2, <2>3
<1> QED
  BY <1>1, <1>2 DEF Counting

\* A group that has a failure has a row.
LEMMA FailureHasRow ==
  ASSUME NEW g, NEW first, first[<<g, "failed">>] # {}
  PROVE  HasRow(g, first)
BY DEF HasRow, Ends

LEMMA StartStep ==
  ASSUME StatsInv, StatsStart
  PROVE  StatsInv'
<1>1. /\ Counting /\ view.step = "idle" /\ UNCHANGED <<store, reader, answer, disturbed>>
  BY DEF StatsStart, ReadOnly, Counting
<1>2. PICK w : view' = [view EXCEPT !.step = "select", !.window = w]
  BY DEF StatsStart
<1>3. {"step", "window"} \subseteq DOMAIN view' /\ view'.step = "select"
  BY <1>1, <1>2 DEF StatsInv
<1> QED
  BY <1>1, <1>3 DEF StatsInv, Counting, Zero, First, Second

LEMMA FinishStep ==
  ASSUME StatsInv, Counting, view.step # "done", Finish
  PROVE  {"step", "window"} \subseteq DOMAIN view' /\ view'.step = "done"
BY DEF StatsInv, Finish

\* The two queries see one table.
LEMMA MemoryStatsStep ==
  ASSUME TableInv, StatsInv, MemoryStats
  PROVE  StatsInv'
<1>1. /\ Counting /\ view.step = "select" /\ UNCHANGED <<store, reader, disturbed>> /\ Finish
      /\ answer' = [answer EXCEPT !.first = FirstCount, !.second = SecondCount(FirstCount)]
  BY DEF MemoryStats, ReadOnly, Counting
<1> DEFINE first == FirstCount
           second == SecondCount(FirstCount)
<1>2. /\ DOMAIN answer' = {"first", "second", "buckets"}
      /\ answer'.first = first /\ answer'.second = second
  <2>1. DOMAIN answer = {"first", "second", "buckets"}
    BY <1>1 DEF StatsInv
  <2> HIDE DEF first, second
  <2>2. answer' = [answer EXCEPT !.first = first, !.second = second]
    BY <1>1 DEF first, second
  <2> QED
    BY <2>1, <2>2
<1>3. {"step", "window"} \subseteq DOMAIN view' /\ view'.step = "done"
  BY <1>1, FinishStep
<1>4. Apart(first, First) /\ Apart(second, Second)
  BY <1>1, FirstFacts, SecondFacts
<1>5. Parts' = Total'
  <2>1. CASE reader = "stats"
    <3>1. Parts' = UNION {second[k] : k \in Second} /\ Total' = UNION {first[s] : s \in Statuses}
      BY <1>1, <1>2, <2>1 DEF Parts, Total, Second
    <3> QED
      BY <1>1, <2>1, <3>1, FirstFacts, SecondFacts
  <2>2. CASE reader = "models"
    <3>1. /\ Parts' = UNION {second[k] : k \in Second}
          /\ Total' = UNION {first[<<g, "failed">>] : g \in Groups}
      BY <1>1, <1>2, <2>2 DEF Parts, Total, Second, ShownCodes
    <3>2. \A id : id \in Parts' <=> \E g \in Groups : HasRow(g, first) /\ FailedIn(g, id)
      BY <1>1, <2>2, <3>1, SecondFacts
    <3>3. \A g \in Groups : \A id : id \in first[<<g, "failed">>] <=> FailedIn(g, id)
      BY <1>1, <2>2, FirstFacts
    <3>4. \A g \in Groups : first[<<g, "failed">>] # {} => HasRow(g, first)
      BY FailureHasRow
    <3> HIDE DEF first, second
    <3>5. \A id : id \in Total' <=> \E g \in Groups : FailedIn(g, id)
      BY <3>1, <3>3
    <3>6. \A id : id \in Parts' <=> id \in Total'
      BY <3>2, <3>3, <3>4, <3>5
    <3> QED
      BY <3>6
  <2> QED
    BY <1>1, <2>1, <2>2 DEF Counting
<1>6. Sums'
  BY <1>1, <1>2, <1>4, <1>5 DEF Sums, Apart, First, Second, ShownCodes
<1> QED
  BY <1>2, <1>3, <1>6 DEF StatsInv

LEMMA MysqlTotalsStep ==
  ASSUME TableInv, StatsInv, MysqlTotals
  PROVE  StatsInv'
<1>1. /\ Counting /\ view.step = "select" /\ store = "mysql" /\ UNCHANGED <<store, reader, rows>>
  BY DEF MysqlTotals, ReadOnly, Counting, table
<1>2. CASE answer' = [answer EXCEPT !.first = FirstCount] /\ view' = [view EXCEPT !.step = "second"]
  <2> DEFINE first == FirstCount
  <2>1. /\ DOMAIN answer' = {"first", "second", "buckets"}
        /\ answer'.first = first /\ answer'.second = answer.second
    <3>1. DOMAIN answer = {"first", "second", "buckets"}
      BY <1>1 DEF StatsInv
    <3> HIDE DEF first
    <3>2. answer' = [answer EXCEPT !.first = first]
      BY <1>2 DEF first
    <3> QED
      BY <3>1, <3>2
  <2>2. {"step", "window"} \subseteq DOMAIN view' /\ view'.step = "second" /\ view'.window = view.window
    BY <1>1, <1>2 DEF StatsInv
  <2>3. Apart(first, First)
    BY <1>1, FirstFacts
  <2>4. StillThere'
    <3>1. reader = "stats" => \A s \in Statuses : first[s] \subseteq DOMAIN rows
      BY <1>1, FirstFacts
    <3>2. reader = "models" => \A g \in Groups : \A id \in first[<<g, "failed">>] : FailedIn(g, id)
      BY <1>1, FirstFacts
    <3> HIDE DEF first
    <3> QED
      BY <1>1, <2>1, <2>2, <3>1, <3>2 DEF StillThere, FailedIn, InWindow
  <2>5. Zero(answer.second, Second)
    BY <1>1 DEF StatsInv
  <2> HIDE DEF first
  <2> QED
    BY <1>1, <2>1, <2>2, <2>3, <2>4, <2>5 DEF StatsInv, Zero, Apart, First, Second, ShownCodes
<1>3. CASE Finish /\ disturbed' = TRUE /\ UNCHANGED answer
  <2>1. {"step", "window"} \subseteq DOMAIN view' /\ view'.step = "done"
    BY <1>1, <1>3, FinishStep
  <2>2. Zero(answer.first, First) /\ Zero(answer.second, Second) /\ DOMAIN answer = {"first", "second", "buckets"}
    BY <1>1 DEF StatsInv
  <2>3. Sums'
    BY <1>1, <1>3, <2>2 DEF Sums, Zero, Apart, First, Second, ShownCodes
  <2> QED
    BY <1>1, <1>3, <2>1, <2>2, <2>3 DEF StatsInv
<1> QED
  BY <1>2, <1>3 DEF MysqlTotals

LEMMA MysqlBreakdownStep ==
  ASSUME TableInv, StatsInv, MysqlBreakdown
  PROVE  StatsInv'
<1>1. /\ Counting /\ view.step = "second" /\ UNCHANGED <<store, reader>> /\ Finish
  BY DEF MysqlBreakdown, ReadOnly, Counting
<1>2. {"step", "window"} \subseteq DOMAIN view' /\ view'.step = "done"
  BY <1>1, FinishStep
<1>3. /\ DOMAIN answer = {"first", "second", "buckets"} /\ store = "mysql"
      /\ Apart(answer.first, First) /\ StillThere /\ Zero(answer.second, Second)
  BY <1>1 DEF StatsInv
<1>4. CASE answer' = [answer EXCEPT !.second = SecondCount(answer.first)] /\ UNCHANGED disturbed
  <2> DEFINE first == answer.first
             second == SecondCount(first)
  <2>1. /\ DOMAIN answer' = {"first", "second", "buckets"}
        /\ answer'.first = first /\ answer'.second = second
    <3> HIDE DEF second
    <3>1. answer' = [answer EXCEPT !.second = second]
      BY <1>4 DEF second
    <3> QED
      BY <1>3, <3>1
  <2>2. Apart(second, Second)
    BY <1>1, SecondFacts
  <2>3. Total' \subseteq Parts'
    <3>1. CASE reader = "stats"
      <4>1. Parts' = UNION {second[k] : k \in Second} /\ Total' = UNION {first[s] : s \in Statuses}
        BY <1>1, <2>1, <3>1 DEF Parts, Total, Second
      <4>2. UNION {second[k] : k \in Second} = DOMAIN rows
        BY <1>1, <3>1, SecondFacts
      <4>3. \A s \in Statuses : first[s] \subseteq DOMAIN rows
        BY <1>3, <3>1 DEF StillThere
      <4> HIDE DEF first, second
      <4> QED
        BY <4>1, <4>2, <4>3
    <3>2. CASE reader = "models"
      <4>1. /\ Parts' = UNION {second[k] : k \in Second}
            /\ Total' = UNION {first[<<g, "failed">>] : g \in Groups}
        BY <1>1, <2>1, <3>2 DEF Parts, Total, Second, ShownCodes
      <4>2. \A id : id \in Parts' <=> \E g \in Groups : HasRow(g, first) /\ FailedIn(g, id)
        BY <1>1, <3>2, <4>1, SecondFacts
      <4>3. \A g \in Groups : \A id \in first[<<g, "failed">>] : FailedIn(g, id) /\ HasRow(g, first)
        BY <1>3, <3>2, FailureHasRow DEF StillThere
      <4> HIDE DEF first, second
      <4> QED
        BY <4>1, <4>2, <4>3
    <3> QED
      BY <1>1, <3>1, <3>2 DEF Counting
  <2> HIDE DEF second
  <2>4. Sums'
    BY <1>1, <1>3, <2>1, <2>2, <2>3 DEF Sums, Apart, First, Second, ShownCodes
  <2> QED
    BY <1>2, <2>1, <2>4 DEF StatsInv
<1>5. CASE disturbed' = TRUE /\ UNCHANGED answer
  <2>1. Sums'
    BY <1>1, <1>3, <1>5 DEF Sums, Zero, Apart, First, Second, ShownCodes
  <2> QED
    BY <1>2, <1>3, <1>5, <2>1 DEF StatsInv
<1> QED
  BY <1>4, <1>5 DEF MysqlBreakdown

\* The writers take nothing away from what the first query counted.
LEMMA WritesKeepStats ==
  ASSUME TableInv, StatsInv, RowsStep, UNCHANGED <<view, answer>>,
         view.step # "done" \/ UNCHANGED disturbed
  PROVE  StatsInv'
<1> SUFFICES ASSUME Counting
             PROVE  StatsInv'
  BY DEF StatsInv, Counting, RowsStep
<1>1. UNCHANGED <<store, reader>>
  BY DEF RowsStep
<1>2. view.step = "second" => StillThere'
  <2> SUFFICES ASSUME view.step = "second"
               PROVE  StillThere'
    OBVIOUS
  <2>1. store = "mysql" /\ StillThere
    BY DEF StatsInv
  <2>2. DOMAIN rows \subseteq DOMAIN rows'
    BY <2>1 DEF RowsStep
  <2>3. ASSUME NEW g, NEW id, FailedIn(g, id)
        PROVE  FailedIn(g, id)'
    BY <2>2, <2>3 DEF FailedIn, RowsStep, SameResult, Settled, InWindow
  <2> QED
    BY <1>1, <2>1, <2>2, <2>3 DEF StillThere
<1>3. view.step = "done" => Sums'
  <2> SUFFICES ASSUME view.step = "done"
               PROVE  Sums'
    OBVIOUS
  <2>1. Sums /\ UNCHANGED disturbed
    BY DEF StatsInv
  <2>2. First' = First /\ Second' = Second
    BY <1>1 DEF First, Second, ShownCodes
  <2>3. Total' = Total /\ Parts' = Parts
    BY <1>1, <2>2 DEF Total, Parts
  <2> QED
    BY <1>1, <2>1, <2>2, <2>3 DEF Sums, Apart
<1> QED
  BY <1>1, <1>2, <1>3 DEF StatsInv, Counting, Zero, Apart, First, Second, ShownCodes

LEMMA StatsStep ==
  ASSUME TableInv, StatsInv, [Next]_vars
  PROVE  StatsInv'
<1>1. CASE WriteStep
  <2>1. view.step # "done" /\ UNCHANGED <<view, answer>> /\ Write
    BY <1>1 DEF WriteStep
  <2> QED
    BY <2>1, WriteKeeps, WritesKeepStats
<1>2. CASE StatsStart \/ MemoryStats \/ MysqlTotals \/ MysqlBreakdown
  BY <1>2, StartStep, MemoryStatsStep, MysqlTotalsStep, MysqlBreakdownStep
<1>3. CASE ~Counting /\ UNCHANGED reader
  BY <1>3 DEF StatsInv, Counting
<1>4. CASE UNCHANGED vars
  <2>1. UNCHANGED <<view, answer, disturbed>>
    BY <1>4 DEF vars
  <2> QED
    BY <2>1, TableStep, WritesKeepStats
<1>5. \/ WriteStep \/ StatsStart \/ MemoryStats \/ MysqlTotals \/ MysqlBreakdown \/ UNCHANGED vars
      \/ ~Counting /\ UNCHANGED reader
  BY DEF Next, ReadOnly, Counting, BrowseStart, List, AdminStart, AdminList, AdminCount, AdminSelect,
     SeriesStart, MemoryBucket, MysqlSeries
<1> QED
  BY <1>1, <1>2, <1>3, <1>4, <1>5

LEMMA StatsInvInit ==
  ASSUME Init
  PROVE  StatsInv
<1>1. /\ view.step = "idle" /\ {"step", "window"} \subseteq DOMAIN view
      /\ answer = NoAnswer
  BY DEF Init
<1>2. /\ DOMAIN answer = {"first", "second", "buckets"}
      /\ Zero(answer.first, First) /\ Zero(answer.second, Second)
  BY <1>1 DEF NoAnswer, Zero
<1> QED
  BY <1>1, <1>2 DEF StatsInv

\* The totals of Memory and MySQL.AdminStats and AdminModelStats add up: a breakdown made by
\* a second query never counts less than the first, and in memory no more.
THEOREM StatsAreSums == Spec => []StatsAddUp
<1>1. StatsInv => StatsAddUp
  <2> SUFFICES ASSUME StatsInv, Counting, view.step = "done"
               PROVE  StatsAddUp
    BY DEF StatsAddUp, Done, Counting
  <2>1. Sums
    BY DEF StatsInv
  <2> QED
    BY <2>1 DEF StatsAddUp, Sums, Apart, Total, Parts
<1>2. Spec => []StatsInv
  BY StatsInvInit, StatsStep, TableIsSound, PTL DEF Spec
<1> QED
  BY <1>1, <1>2, PTL

-----------------------------------------------------------------------------

-----------------------------------------------------------------------------
(* The list of the memory store is a line: each job of the table is in it   *)
(* once.                                                                    *)

LEMMA OrderFacts ==
  ASSUME TableInv
  PROVE  /\ order \in Seq(Jobs) /\ Len(order) \in Nat /\ DOMAIN order = 1..Len(order)
         /\ \A i \in 1..Len(order) : order[i] \in DOMAIN rows
         /\ \A id \in DOMAIN rows : \E i \in 1..Len(order) : order[i] = id
         /\ \A i, j \in 1..Len(order) : order[i] = order[j] => i = j
         /\ \A i, j \in 1..Len(order) : i < j <=> Older(order[i], order[j])
<1>1. /\ order \in Seq(Jobs) /\ Len(order) \in Nat /\ DOMAIN order = 1..Len(order)
      /\ \A i, j \in 1..Len(order) : order[i] = order[j] => i = j
  BY DEF TableInv, InOrder, IsInjective
<1>2. /\ \A i \in 1..Len(order) : order[i] \in DOMAIN rows
      /\ \A id \in DOMAIN rows : \E i \in 1..Len(order) : order[i] = id
  BY <1>1 DEF TableInv, InOrder, Range
<1>3. \A i, j \in 1..Len(order) : i < j <=> Older(order[i], order[j])
  BY <1>1 DEF Older
<1> QED
  BY <1>1, <1>2, <1>3

LEMMA OlderIsOrder ==
  ASSUME TableInv
  PROVE  /\ \A a, b : Older(a, b) => a \in DOMAIN rows /\ b \in DOMAIN rows /\ ~Older(b, a) /\ a # b
         /\ \A a, b, c : Older(a, b) /\ Older(b, c) => Older(a, c)
         /\ \A a, b \in DOMAIN rows : a = b \/ Older(a, b) \/ Older(b, a)
<1> DEFINE n == Len(order)
<1>1. /\ n \in Nat /\ DOMAIN order = 1..n
      /\ \A i \in 1..n : order[i] \in DOMAIN rows
      /\ \A id \in DOMAIN rows : \E i \in 1..n : order[i] = id
      /\ \A i, j \in 1..n : order[i] = order[j] => i = j
  BY OrderFacts
<1> HIDE DEF n
<1>2. ASSUME NEW a, NEW b, Older(a, b)
      PROVE  a \in DOMAIN rows /\ b \in DOMAIN rows /\ ~Older(b, a) /\ a # b
  BY <1>1, <1>2 DEF Older
<1>3. ASSUME NEW a, NEW b, NEW c, Older(a, b), Older(b, c)
      PROVE  Older(a, c)
  <2>1. PICK i, j \in 1..n : i < j /\ order[i] = a /\ order[j] = b
    BY <1>1, <1>3 DEF Older
  <2>2. PICK k, l \in 1..n : k < l /\ order[k] = b /\ order[l] = c
    BY <1>1, <1>3 DEF Older
  <2>3. i < l
    BY <1>1, <2>1, <2>2
  <2> QED
    BY <1>1, <2>1, <2>2, <2>3 DEF Older
<1>4. ASSUME NEW a \in DOMAIN rows, NEW b \in DOMAIN rows
      PROVE  a = b \/ Older(a, b) \/ Older(b, a)
  <2>1. PICK i \in 1..n : order[i] = a
    BY <1>1
  <2>2. PICK j \in 1..n : order[j] = b
    BY <1>1
  <2>3. i = j \/ i < j \/ j < i
    BY <1>1
  <2> QED
    BY <1>1, <2>1, <2>2, <2>3 DEF Older
<1> QED
  BY <1>2, <1>3, <1>4

\* A list without repetition is as long as its set of elements.
LEMMA ListCounts ==
  ASSUME NEW T, NEW s \in Seq(T), IsInjective(s)
  PROVE  IsFiniteSet(Range(s)) /\ Cardinality(Range(s)) = Len(s)
<1> DEFINE n == Len(s)
           S == Range(s)
<1>1. n \in Nat /\ DOMAIN s = 1..n /\ s = [i \in 1..n |-> s[i]]
  OBVIOUS
<1>2. (\A i \in 1..n : s[i] \in S) /\ (\A x \in S : \E i \in 1..n : s[i] = x)
  BY <1>1 DEF Range
<1>3. \A i, j \in 1..n : s[i] = s[j] => i = j
  BY <1>1 DEF IsInjective
<1> HIDE DEF n, S
<1>4. s \in [1..n -> S]
  BY <1>1, <1>2
<1>5. s \in Bijection(1..n, S)
  BY <1>2, <1>3, <1>4 DEF Bijection, Injection, Surjection, IsInjective
<1>6. IsFiniteSet(1..n) /\ ExistsBijection(1..n, S)
  <2>1. 1 \in Int /\ n \in Int
    BY <1>1
  <2>2. IsFiniteSet(1..n)
    BY <2>1, FS_Interval
  <2>3. ExistsBijection(1..n, S)
    BY <1>5 DEF ExistsBijection
  <2> QED
    BY <2>2, <2>3
<1>7. IsFiniteSet(S) /\ Cardinality(S) = n
  BY <1>1, <1>6, FS_Bijection, FS_CountingElements
<1> QED
  BY <1>7 DEF n, S

LEMMA OrderCounts ==
  ASSUME TableInv
  PROVE  IsFiniteSet(DOMAIN rows) /\ Len(order) = Cardinality(DOMAIN rows)
BY ListCounts DEF TableInv, InOrder

LEMMA ReverseFacts ==
  ASSUME NEW T, NEW s \in Seq(T)
  PROVE  /\ Reverse(s) \in Seq(T) /\ Len(Reverse(s)) = Len(s) /\ DOMAIN Reverse(s) = 1..Len(s)
         /\ \A i \in 1..Len(s) : Len(s) - i + 1 \in 1..Len(s) /\ Reverse(s)[i] = s[Len(s) - i + 1]
<1> DEFINE n == Len(s)
           r == [i \in 1..n |-> s[n - i + 1]]
<1>1. n \in Nat /\ \A i \in 1..n : s[i] \in T
  OBVIOUS
<1> HIDE DEF n
<1>2. \A i \in 1..n : n - i + 1 \in 1..n
  BY <1>1
<1>3. r \in [1..n -> T] /\ \A i \in 1..n : r[i] = s[n - i + 1]
  BY <1>1, <1>2
<1>4. Reverse(s) = r
  BY DEF Reverse, n
<1> HIDE DEF r
<1>5. r \in Seq(T) /\ Len(r) = n /\ DOMAIN r = 1..n
  BY <1>1, <1>3, FunctionIsSeq
<1> QED
  BY <1>2, <1>3, <1>4, <1>5 DEF n

\* The jobs of a set, the newest first.
Listing(s, W) ==
  /\ s \in Seq(Jobs) /\ Range(s) = W
  /\ \A i, j \in DOMAIN s : i < j <=> Older(s[j], s[i])

LEMMA ReverseListing ==
  ASSUME TableInv
  PROVE  Listing(Reverse(order), DOMAIN rows)
<1> DEFINE rev == Reverse(order)
           m == Len(order)
<1>1. /\ order \in Seq(Jobs) /\ m \in Nat
      /\ \A i \in 1..m : order[i] \in DOMAIN rows
      /\ \A id \in DOMAIN rows : \E i \in 1..m : order[i] = id
      /\ \A i, j \in 1..m : i < j <=> Older(order[i], order[j])
  BY OrderFacts
<1>2. /\ rev \in Seq(Jobs) /\ Len(rev) = m /\ DOMAIN rev = 1..m
      /\ \A i \in 1..m : m - i + 1 \in 1..m /\ rev[i] = order[m - i + 1]
  BY <1>1, ReverseFacts
<1> HIDE DEF rev, m
<1>3. \A id \in DOMAIN rows : \E i \in 1..m : rev[i] = id
  <2> SUFFICES ASSUME NEW id \in DOMAIN rows
               PROVE  \E i \in 1..m : rev[i] = id
    OBVIOUS
  <2>1. PICK k \in 1..m : order[k] = id
    BY <1>1
  <2>2. m - k + 1 \in 1..m /\ m - (m - k + 1) + 1 = k
    BY <1>1
  <2> QED
    BY <1>2, <2>1, <2>2
<1>4. \A i, j \in 1..m : i < j <=> Older(rev[j], rev[i])
  <2> SUFFICES ASSUME NEW i \in 1..m, NEW j \in 1..m
               PROVE  i < j <=> Older(rev[j], rev[i])
    OBVIOUS
  <2>1. /\ m - i + 1 \in 1..m /\ rev[i] = order[m - i + 1]
        /\ m - j + 1 \in 1..m /\ rev[j] = order[m - j + 1]
    BY <1>2
  <2>2. m - j + 1 < m - i + 1 <=> Older(order[m - j + 1], order[m - i + 1])
    BY <1>1, <2>1
  <2>3. i < j <=> m - j + 1 < m - i + 1
    BY <1>1
  <2> QED
    BY <2>1, <2>2, <2>3
<1>5. Range(rev) = DOMAIN rows
  <2>1. \A i \in DOMAIN rev : rev[i] \in DOMAIN rows
    BY <1>1, <1>2
  <2>2. \A id \in DOMAIN rows : \E i \in DOMAIN rev : rev[i] = id
    BY <1>2, <1>3
  <2> QED
    BY <2>1, <2>2 DEF Range
<1> QED
  BY <1>2, <1>4, <1>5 DEF Listing, rev

LEMMA MemoryListing ==
  ASSUME TableInv, NEW W \in SUBSET DOMAIN rows
  PROVE  Listing(Filter(Reverse(order), W), W)
<1> DEFINE rev == Reverse(order)
           at == KeptAt(rev, W)
           n == Len(at)
           s == Filter(rev, W)
           m == Len(rev)
<1>1. /\ rev \in Seq(Jobs) /\ Range(rev) = DOMAIN rows
      /\ \A i, j \in DOMAIN rev : i < j <=> Older(rev[j], rev[i])
  BY ReverseListing DEF Listing
<1> HIDE DEF rev
<1>2. m \in Nat /\ DOMAIN rev = 1..m
  BY <1>1
<1>3. \A id \in W : \E i \in 1..m : rev[i] = id
  BY <1>1, <1>2 DEF Range
<1>4. \A i, j \in 1..m : i < j <=> Older(rev[j], rev[i])
  BY <1>1, <1>2
<1> HIDE DEF m
<1>5. /\ at \in [1..n -> 1..m] /\ n \in Nat
      /\ \A k \in 1..n : rev[at[k]] \in W
      /\ \A i \in 1..m : rev[i] \in W => \E k \in 1..n : at[k] = i
      /\ \A i, j \in 1..n : i < j <=> at[i] < at[j]
  <2> HIDE DEF at, n
  <2>1. at = KeptAt(rev, W) /\ n = Len(at)
    BY DEF at, n
  <2>2. rev \in Seq(Jobs) /\ Len(rev) = m
    BY <1>1 DEF m
  <2>3. /\ KeptAt(rev, W) \in [1..Len(KeptAt(rev, W)) -> 1..Len(rev)] /\ Len(KeptAt(rev, W)) \in Nat
        /\ \A k \in 1..Len(KeptAt(rev, W)) : rev[KeptAt(rev, W)[k]] \in W
        /\ \A i \in 1..Len(rev) : rev[i] \in W => \E k \in 1..Len(KeptAt(rev, W)) : KeptAt(rev, W)[k] = i
        /\ \A i, j \in 1..Len(KeptAt(rev, W)) : i < j <=> KeptAt(rev, W)[i] < KeptAt(rev, W)[j]
    BY <2>2, KeptAtFacts
  <2> QED
    BY <2>1, <2>2, <2>3
<1>6. /\ s \in Seq(Jobs) /\ DOMAIN s = 1..n
      /\ \A k \in 1..n : s[k] = rev[at[k]] /\ s[k] \in W
      /\ \A i \in 1..m : rev[i] \in W => \E k \in 1..n : s[k] = rev[i]
  <2> HIDE DEF at, n, s
  <2>1. rev \in Seq(Jobs) /\ DOMAIN rev = 1..m
    BY <1>1, <1>2
  <2>2. /\ Filter(rev, W) \in Seq(Jobs) /\ Len(Filter(rev, W)) = Len(KeptAt(rev, W))
        /\ DOMAIN Filter(rev, W) = 1..Len(KeptAt(rev, W))
    BY <2>1, FilterFacts
  <2>3. \A k \in DOMAIN Filter(rev, W) : Filter(rev, W)[k] = rev[KeptAt(rev, W)[k]] /\ Filter(rev, W)[k] \in W
    BY <2>1, FilterFacts
  <2>4. \A k \in 1..n : s[k] = rev[at[k]] /\ s[k] \in W
    BY <2>2, <2>3 DEF at, n, s
  <2>5. \A i \in 1..m : rev[i] \in W => \E k \in 1..n : s[k] = rev[i]
    BY <1>5, <2>4
  <2> QED
    BY <2>2, <2>4, <2>5 DEF at, n, s
<1> HIDE DEF at, n, s
<1>7. Range(s) = W
  <2>1. \A id \in W : \E k \in 1..n : s[k] = id
    BY <1>3, <1>6
  <2> QED
    BY <1>6, <2>1 DEF Range
<1>8. \A i, j \in DOMAIN s : i < j <=> Older(s[j], s[i])
  <2> SUFFICES ASSUME NEW i \in 1..n, NEW j \in 1..n
               PROVE  i < j <=> Older(s[j], s[i])
    BY <1>6
  <2>1. at[i] \in 1..m /\ at[j] \in 1..m /\ s[i] = rev[at[i]] /\ s[j] = rev[at[j]]
    BY <1>5, <1>6
  <2>2. i < j <=> at[i] < at[j]
    BY <1>5
  <2> QED
    BY <1>4, <2>1, <2>2
<1> QED
  BY <1>6, <1>7, <1>8 DEF Listing, s, rev

-----------------------------------------------------------------------------

-----------------------------------------------------------------------------
(* A page.                                                                  *)

LEMMA PageFacts ==
  ASSUME NEW s \in Seq(Jobs), NEW start \in Nat, start <= Len(s)
  PROVE  /\ PageFrom(s, start).jobs \in Seq(Jobs) /\ PageFrom(s, start).next \in Nat
         /\ \A k \in DOMAIN PageFrom(s, start).jobs :
              /\ k >= 1 /\ k <= Limit /\ start + k \in 1..Len(s) /\ PageFrom(s, start).jobs[k] = s[start + k]
         /\ \A i \in 1..Len(s) : start < i /\ i <= start + Limit =>
              i - start \in DOMAIN PageFrom(s, start).jobs /\ PageFrom(s, start).jobs[i - start] = s[i]
         /\ start + Limit < Len(s) => PageFrom(s, start).next = s[start + Limit]
         /\ start + Limit >= Len(s) => PageFrom(s, start).next = 0
<1> DEFINE n == Len(s)
           to == Min({start + Limit, n})
           page == PageFrom(s, start)
<1>1. n \in Nat /\ Limit \in Nat \ {0} /\ Jobs \subseteq Nat /\ start <= n /\ \A i \in 1..n : s[i] \in Jobs
  BY Bounds
<1>2. /\ page.jobs = SubSeq(s, start + 1, to)
      /\ page.next = IF start + Limit < n THEN s[start + Limit] ELSE 0
  BY DEF PageFrom
<1> HIDE DEF n, page
<1>3. to = IF start + Limit <= n THEN start + Limit ELSE n
  BY <1>1, MinOfTwo
<1> HIDE DEF to
<1>4. to \in Nat /\ to <= n /\ to <= start + Limit /\ (start + Limit <= n => to = start + Limit) /\ (to < start + Limit => to = n)
  BY <1>1, <1>3
<1>5. /\ page.jobs \in Seq(Jobs) /\ DOMAIN page.jobs = 1..to - start
      /\ \A k \in 1..to - start : page.jobs[k] = s[start + k]
  BY <1>2, <1>4, SliceFacts DEF n
<1>6. ASSUME NEW k \in 1..to - start
      PROVE  k >= 1 /\ k <= Limit /\ start + k \in 1..n
  BY <1>1, <1>4
<1>7. ASSUME NEW i \in 1..n, start < i, i <= start + Limit
      PROVE  i - start \in 1..to - start /\ start + (i - start) = i
  BY <1>1, <1>4, <1>7
<1>8. page.next \in Nat
  <2>1. start + Limit < n => start + Limit \in 1..n
    BY <1>1
  <2>2. start + Limit < n => s[start + Limit] \in Nat
    BY <1>1, <2>1, Zenon
  <2> QED
    BY <1>2, <2>2
<1>9. \A i \in 1..n : start < i /\ i <= start + Limit =>
         i - start \in DOMAIN page.jobs /\ page.jobs[i - start] = s[i]
  <2> SUFFICES ASSUME NEW i \in 1..n, start < i, i <= start + Limit
               PROVE  i - start \in DOMAIN page.jobs /\ page.jobs[i - start] = s[i]
    OBVIOUS
  <2>1. i - start \in 1..to - start /\ start + (i - start) = i
    BY <1>7
  <2> QED
    BY <1>5, <2>1
<1>10. start + Limit >= n => ~(start + Limit < n)
  BY <1>1
<1> QED
  BY <1>2, <1>5, <1>6, <1>8, <1>9, <1>10 DEF n, page

\* Where a page of a listing lies: it ends with its cursor, and what is neither on it nor
\* before it is behind its cursor.
LEMMA PageOfListing ==
  ASSUME TableInv, NEW W \in SUBSET DOMAIN rows, NEW s, Listing(s, W), NEW start \in Nat, start <= Len(s)
  PROVE  LET page == PageFrom(s, start)
             shown == Range(page.jobs)
         IN /\ page.jobs \in Seq(Jobs) /\ page.next \in Nat
            /\ IsInjective(page.jobs) /\ shown \subseteq W
            /\ start > 0 => \A x \in shown : Older(x, s[start])
            /\ page.next # 0 => page.next \in shown /\ \A x \in shown : x = page.next \/ Older(page.next, x)
            /\ \A y \in W : \/ y \in shown
                            \/ start > 0 /\ (y = s[start] \/ Older(s[start], y))
                            \/ page.next # 0 /\ Older(y, page.next)
<1> DEFINE jobs == PageFrom(s, start).jobs
           next == PageFrom(s, start).next
           n == Len(s)
<1>1. /\ s \in Seq(Jobs) /\ n \in Nat /\ start <= n
      /\ \A i \in 1..n : s[i] \in W
      /\ \A y \in W : \E i \in 1..n : s[i] = y
      /\ \A i, j \in 1..n : i < j <=> Older(s[j], s[i])
  BY DEF Listing, Range
<1>2. /\ jobs \in Seq(Jobs) /\ next \in Nat
      /\ \A k \in DOMAIN jobs : k >= 1 /\ k <= Limit /\ start + k \in 1..n /\ jobs[k] = s[start + k]
      /\ \A i \in 1..n : start < i /\ i <= start + Limit => i - start \in DOMAIN jobs /\ jobs[i - start] = s[i]
      /\ start + Limit < n => next = s[start + Limit]
      /\ start + Limit >= n => next = 0
  <2>1. s \in Seq(Jobs)
    BY <1>1
  <2> QED
    BY <2>1, PageFacts
<1> HIDE DEF jobs, next, n
<1>3. Limit \in Nat \ {0} /\ 0 \notin Jobs /\ DOMAIN jobs = 1..Len(jobs) /\ Len(jobs) \in Nat
  BY <1>2, Bounds
<1>4. \A a, b : Older(a, b) => ~Older(b, a) /\ a # b
  BY OlderIsOrder
<1>5. IsInjective(jobs)
  <2> SUFFICES ASSUME NEW k \in DOMAIN jobs, NEW l \in DOMAIN jobs, k < l
               PROVE  jobs[k] # jobs[l]
    BY <1>3 DEF IsInjective
  <2>1. start + k < start + l /\ start + k \in 1..n /\ start + l \in 1..n
    BY <1>2, <1>3
  <2>2. Older(s[start + l], s[start + k])
    BY <1>1, <2>1
  <2> QED
    BY <1>2, <1>4, <2>2
<1>6. Range(jobs) \subseteq W
  BY <1>1, <1>2 DEF Range
<1>7. ASSUME start > 0, NEW x \in Range(jobs)
      PROVE  Older(x, s[start])
  <2>1. PICK k \in DOMAIN jobs : jobs[k] = x
    BY DEF Range
  <2>2. start \in 1..n /\ start + k \in 1..n /\ start < start + k /\ x = s[start + k]
    BY <1>1, <1>2, <1>3, <1>7, <2>1
  <2> QED
    BY <1>1, <2>2
<1>8. ASSUME next # 0
      PROVE  start + Limit \in 1..n /\ next = s[start + Limit]
  BY <1>1, <1>2, <1>3, <1>8
<1>9. ASSUME next # 0, NEW x \in Range(jobs)
      PROVE  x = next \/ Older(next, x)
  <2>1. PICK k \in DOMAIN jobs : jobs[k] = x
    BY DEF Range
  <2>2. start + k \in 1..n /\ x = s[start + k] /\ (k = Limit \/ start + k < start + Limit)
    BY <1>1, <1>2, <1>3, <2>1
  <2>3. start + Limit \in 1..n /\ next = s[start + Limit]
    BY <1>8, <1>9
  <2> QED
    BY <1>1, <2>2, <2>3
<1>10. ASSUME NEW y \in W
       PROVE  \/ y \in Range(jobs)
              \/ start > 0 /\ (y = s[start] \/ Older(s[start], y))
              \/ next # 0 /\ Older(y, next)
  <2>1. PICK i \in 1..n : s[i] = y
    BY <1>1
  <2>2. CASE i <= start
    <3>1. start \in 1..n /\ start > 0 /\ (i = start \/ i < start)
      BY <1>1, <2>2
    <3> QED
      BY <1>1, <2>1, <3>1
  <2>3. CASE start < i /\ i <= start + Limit
    BY <1>2, <2>1, <2>3 DEF Range
  <2>4. CASE start + Limit < i
    <3>1. start + Limit < n /\ start + Limit \in 1..n
      BY <1>1, <1>3, <2>4
    <3>2. next = s[start + Limit] /\ next \in W
      BY <1>1, <1>2, <3>1
    <3>3. W \subseteq Jobs
      BY DEF TableInv, Rows
    <3> QED
      BY <1>1, <1>3, <2>1, <2>4, <3>1, <3>2, <3>3
  <2> QED
    BY <1>1, <1>3, <2>2, <2>3, <2>4
<1>11. ASSUME next # 0
       PROVE  next \in Range(jobs)
  <2>1. start + Limit \in 1..n /\ next = s[start + Limit] /\ start < start + Limit
    BY <1>3, <1>8, <1>11
  <2> QED
    BY <1>2, <2>1 DEF Range
<1> QED
  BY <1>2, <1>5, <1>6, <1>7, <1>9, <1>10, <1>11 DEF jobs, next

\* Memory.List looks for the cursor in what the caller may see.
LEMMA AfterFacts ==
  ASSUME TableInv, NEW W \in SUBSET DOMAIN rows, NEW s, Listing(s, W), NEW cursor
  PROVE  /\ After(s, cursor) \in Nat /\ After(s, cursor) <= Len(s)
         /\ cursor \in W => After(s, cursor) > 0 /\ s[After(s, cursor)] = cursor
         /\ cursor \notin W => After(s, cursor) = 0
<1> DEFINE n == Len(s)
<1>1. /\ s \in Seq(Jobs) /\ n \in Nat /\ DOMAIN s = 1..n /\ Range(s) = W
      /\ \A i, j \in 1..n : i < j <=> Older(s[j], s[i])
  BY DEF Listing
<1> HIDE DEF n
<1>2. CASE cursor \notin W
  BY <1>1, <1>2 DEF After, n
<1>3. CASE cursor \in W
  <2>1. PICK i \in 1..n : s[i] = cursor
    BY <1>1, <1>3 DEF Range
  <2>2. ASSUME NEW j \in 1..n, s[j] = cursor
        PROVE  j = i
    <3>1. ~Older(cursor, cursor)
      BY OlderIsOrder
    <3>2. ~(i < j) /\ ~(j < i)
      BY <1>1, <2>1, <2>2, <3>1
    <3> QED
      BY <3>2
  <2>3. {j \in 1..n : s[j] = cursor} = {i}
    BY <2>1, <2>2
  <2>4. Min({i}) = i
    BY DEF Min
  <2>5. SelectInSeq(s, LAMBDA id : id = cursor) = i
    BY <2>3, <2>4 DEF SelectInSeq, n
  <2>6. After(s, cursor) = i
    BY <1>1, <1>3, <2>5 DEF After
  <2> QED
    BY <1>1, <1>3, <2>1, <2>6 DEF n
<1> QED
  BY <1>2, <1>3

-----------------------------------------------------------------------------

-----------------------------------------------------------------------------
(* The orders of MySQL: by a time, the latest first, and then by the id.    *)

LEMMA LatestIsTotal ==
  ASSUME NEW S \in SUBSET Nat, NEW f \in [S -> Int],
         NEW R, R = {p \in S \X S : f[p[1]] > f[p[2]] \/ (f[p[1]] = f[p[2]] /\ p[1] > p[2])}
  PROVE  StrictTotal(R, S)
<1>1. \A x, y \in S : <<x, y>> \in R <=> f[x] > f[y] \/ (f[x] = f[y] /\ x > y)
  OBVIOUS
<1>2. \A x \in S : f[x] \in Int /\ x \in Int
  OBVIOUS
<1> QED
  BY <1>1, <1>2 DEF StrictTotal

LEMMA NewerIsTotal ==
  ASSUME TableInv, NEW S \in SUBSET DOMAIN rows
  PROVE  StrictTotal(Newer(S, Created), S) /\ StrictTotal(Newer(S, Listed), S) /\ IsFiniteSet(S)
<1>1. S \in SUBSET Nat /\ \A id \in S : rows[id].created \in Int /\ rows[id].listed \in Int
  <2>1. DOMAIN rows \subseteq Jobs /\ Jobs \subseteq Nat /\ \A id \in S : rows[id] \in Row
    BY Bounds DEF TableInv, Rows
  <2>2. \A row \in Row : row.created \in Time /\ row.listed \in Time \cup {Null}
    BY DEF Row
  <2>3. \A t \in Time \cup {Null} : t \in Int
    BY TimeIsNat DEF Null
  <2> HIDE DEF Time, Null
  <2> QED
    BY <2>1, <2>2, <2>3
<1>2. StrictTotal(Newer(S, Created), S)
  <2> DEFINE f == [id \in S |-> rows[id].created]
  <2>1. f \in [S -> Int] /\ \A id \in S : f[id] = Created(id)
    BY <1>1 DEF Created
  <2> HIDE DEF f
  <2>2. Newer(S, Created) = {p \in S \X S : f[p[1]] > f[p[2]] \/ (f[p[1]] = f[p[2]] /\ p[1] > p[2])}
    BY <2>1 DEF Newer
  <2> QED
    BY <1>1, <2>1, <2>2, LatestIsTotal
<1>3. StrictTotal(Newer(S, Listed), S)
  <2> DEFINE f == [id \in S |-> rows[id].listed]
  <2>1. f \in [S -> Int] /\ \A id \in S : f[id] = Listed(id)
    BY <1>1 DEF Listed
  <2> HIDE DEF f
  <2>2. Newer(S, Listed) = {p \in S \X S : f[p[1]] > f[p[2]] \/ (f[p[1]] = f[p[2]] /\ p[1] > p[2])}
    BY <2>1 DEF Newer
  <2> QED
    BY <1>1, <2>1, <2>2, LatestIsTotal
<1>4. IsFiniteSet(S)
  BY OrderCounts, FS_Subset
<1> QED
  BY <1>2, <1>3, <1>4

LEMMA NewestFacts ==
  ASSUME TableInv, NEW S \in SUBSET DOMAIN rows, NEW s, s = Newest(S, Created) \/ s = Newest(S, Listed)
  PROVE  /\ s \in Seq(Jobs) /\ Len(s) \in Nat /\ DOMAIN s = 1..Len(s)
         /\ \A k \in 1..Len(s) : s[k] \in S
         /\ \A i, j \in 1..Len(s) : s[i] = s[j] => i = j
<1>1. PICK R : s = Enumerate(S, R) /\ StrictTotal(R, S)
  BY NewerIsTotal DEF Newest
<1>2. S \subseteq Jobs /\ IsFiniteSet(S)
  BY NewerIsTotal DEF TableInv, Rows
<1>3. /\ s \in Seq(S) /\ DOMAIN s = 1..Cardinality(S) /\ Len(s) = Cardinality(S)
      /\ \A i, j \in DOMAIN s : s[i] = s[j] => i = j
  BY <1>1, <1>2, EnumerateOnce
<1>4. Len(s) \in Nat /\ \A k \in 1..Len(s) : s[k] \in S
  BY <1>3
<1>5. s \in Seq(Jobs)
  <2>1. s \in [1..Len(s) -> Jobs]
    BY <1>2, <1>3, <1>4
  <2> QED
    BY <1>4, <2>1, FunctionIsSeq
<1> QED
  BY <1>3, <1>4, <1>5

-----------------------------------------------------------------------------
(* The pages of a history and of the feed.                                  *)

LEMMA WantedType ==
  ASSUME NEW scope
  PROVE  Wanted(scope) \in SUBSET DOMAIN rows
BY DEF Wanted

LEMMA MemoryPage ==
  ASSUME TableInv, NEW scope, NEW cursor
  PROVE  LET W == Wanted(scope)
             page == MemoryList(scope, cursor)
             shown == Range(page.jobs)
         IN /\ page.jobs \in Seq(Jobs) /\ page.next \in Nat
            /\ IsInjective(page.jobs) /\ shown \subseteq W
            /\ cursor \in W => \A x \in shown : Older(x, cursor)
            /\ page.next # 0 => page.next \in shown /\ \A x \in shown : x = page.next \/ Older(page.next, x)
            /\ \A y \in W : \/ y \in shown
                            \/ cursor \in W /\ (y = cursor \/ Older(cursor, y))
                            \/ page.next # 0 /\ Older(y, page.next)
<1> DEFINE W == Wanted(scope)
           s == Filter(Reverse(order), W)
           start == After(s, cursor)
<1>1. W \in SUBSET DOMAIN rows /\ MemoryList(scope, cursor) = PageFrom(s, start)
  BY WantedType DEF MemoryList
<1> HIDE DEF W
<1>2. Listing(s, W)
  BY <1>1, MemoryListing
<1> HIDE DEF s
<1>3. /\ start \in Nat /\ start <= Len(s)
      /\ cursor \in W => start > 0 /\ s[start] = cursor
      /\ cursor \notin W => start = 0
  BY <1>1, <1>2, AfterFacts
<1> HIDE DEF start
<1> DEFINE page == PageFrom(s, start)
           shown == Range(page.jobs)
<1>4. /\ page.jobs \in Seq(Jobs) /\ page.next \in Nat
      /\ IsInjective(page.jobs) /\ shown \subseteq W
      /\ start > 0 => \A x \in shown : Older(x, s[start])
      /\ page.next # 0 => page.next \in shown /\ \A x \in shown : x = page.next \/ Older(page.next, x)
      /\ \A y \in W : \/ y \in shown
                      \/ start > 0 /\ (y = s[start] \/ Older(s[start], y))
                      \/ page.next # 0 /\ Older(y, page.next)
  BY <1>1, <1>2, <1>3, PageOfListing
<1> HIDE DEF page
<1>5. cursor \in W <=> start > 0
  BY <1>3
<1>6. cursor \in W => s[start] = cursor
  BY <1>3
<1> QED
  BY <1>1, <1>4, <1>5, <1>6 DEF page, W

\* MySQL answers one page.
LEMMA MysqlPage ==
  ASSUME TableInv, NEW page, NEW scope,
         \/ page = NoPage
         \/ page = PageFrom(Newest(Wanted(scope), Created), 0)
         \/ page = PageFrom(Newest(Wanted(scope), Listed), 0)
  PROVE  page.jobs \in Seq(Jobs) /\ page.next \in Nat /\ IsInjective(page.jobs)
<1>1. CASE page = NoPage
  BY <1>1 DEF NoPage, IsInjective
<1>2. ASSUME NEW s, s = Newest(Wanted(scope), Created) \/ s = Newest(Wanted(scope), Listed),
             page = PageFrom(s, 0)
      PROVE  page.jobs \in Seq(Jobs) /\ page.next \in Nat /\ IsInjective(page.jobs)
  <2>1. /\ s \in Seq(Jobs) /\ Len(s) \in Nat
        /\ \A i, j \in 1..Len(s) : s[i] = s[j] => i = j
    BY <1>2, WantedType, NewestFacts
  <2>2. 0 \in Nat /\ 0 <= Len(s)
    BY <2>1
  <2>3. /\ page.jobs \in Seq(Jobs) /\ page.next \in Nat
        /\ \A k \in DOMAIN page.jobs : 0 + k \in 1..Len(s) /\ page.jobs[k] = s[0 + k]
    BY <1>2, <2>1, <2>2, PageFacts
  <2>4. DOMAIN page.jobs = 1..Len(page.jobs)
    BY <2>3
  <2>5. \A k \in DOMAIN page.jobs : 0 + k = k
    BY <2>4
  <2> QED
    BY <2>1, <2>3, <2>5 DEF IsInjective
<1> QED
  BY <1>1, <1>2

LEMMA PageType ==
  ASSUME TableInv
  PROVE  Page.jobs \in Seq(Jobs) /\ Page.next \in Nat /\ IsInjective(Page.jobs)
<1>1. CASE reader # "feed" /\ store = "memory"
  <2>1. Page = MemoryList(view.scope, view.cursor)
    BY <1>1 DEF Page
  <2> QED
    BY <2>1, MemoryPage
<1>2. CASE reader = "feed" \/ store # "memory"
  BY <1>2, MysqlPage DEF Page, ListPublic, MysqlList
<1> QED
  BY <1>1, <1>2

-----------------------------------------------------------------------------

-----------------------------------------------------------------------------
(* The reader's progress keeps its shape.                                   *)

ReaderTypeOK ==
  /\ view \in View
  /\ answer \in [first : Counted(First), second : Counted(Second), buckets : Seq(BucketRow)]
  /\ present \subseteq Jobs /\ disturbed \in BOOLEAN

LEMMA WallFacts ==
  ASSUME NEW t \in Nat
  PROVE  WallStart(t) \in Nat /\ WallStart(t) <= t /\ t < WallStart(t) + Bucket
<1>1. Bucket \in Nat \ {0}
  BY Bounds
<1>2. t % Bucket \in 0..Bucket - 1 /\ t % Bucket <= t
  BY <1>1
<1> DEFINE m == t % Bucket
<1> HIDE DEF m
<1>3. m \in 0..Bucket - 1 /\ m <= t
  BY <1>2 DEF m
<1>4. WallStart(t) = t - m
  BY DEF WallStart, m
<1> QED
  BY <1>1, <1>3, <1>4

LEMMA ShowPageView ==
  ASSUME view \in View, NEW page, page.jobs \in Seq(Jobs), page.next \in Nat, ShowPage(page)
  PROVE  /\ view' \in View /\ view'.scope = view.scope /\ view'.cursor = page.next
         /\ view'.shown = view.shown \o page.jobs
         /\ view'.step = IF page.next = 0 THEN "done" ELSE "page"
<1> DEFINE step == IF page.next = 0 THEN "done" ELSE "page"
           shown == view.shown \o page.jobs
<1>1. view' = [view EXCEPT !.step = step, !.cursor = page.next, !.shown = shown]
  BY DEF ShowPage
<1>2. shown \in Seq(Jobs) /\ step \in {"page", "done"}
  <2>1. view.shown \in Seq(Jobs)
    BY DEF View
  <2> QED
    BY <2>1, ConcatFacts
<1>3. step = IF page.next = 0 THEN "done" ELSE "page"
  OBVIOUS
<1> HIDE DEF step, shown
<1>4. view' \in View /\ view'.scope = view.scope /\ view'.cursor = page.next /\ view'.shown = shown /\ view'.step = step
  BY <1>1, <1>2 DEF View
<1> QED
  BY <1>3, <1>4 DEF shown

LEMMA ShowRowsView ==
  ASSUME view \in View, NEW jobs \in Seq(Jobs), NEW total, ShowRows(jobs, total)
  PROVE  /\ view' \in View /\ view'.shown = view.shown \o jobs
         /\ view.cursor + Limit < total => view'.step = "page" /\ view'.cursor = view.cursor + Limit
         /\ ~(view.cursor + Limit < total) => view'.step = "done"
<1> DEFINE more == view.cursor + Limit < total
           step == IF more THEN "page" ELSE "done"
           cursor == IF more THEN view.cursor + Limit ELSE view.cursor
           shown == view.shown \o jobs
<1>1. view' = [view EXCEPT !.step = step, !.cursor = cursor, !.total = 0, !.shown = shown]
  BY DEF ShowRows
<1>2. shown \in Seq(Jobs) /\ step \in {"page", "done"} /\ cursor \in Nat
  <2>1. view.shown \in Seq(Jobs) /\ view.cursor \in Nat /\ Limit \in Nat
    BY Bounds DEF View
  <2>2. shown \in Seq(Jobs)
    BY <2>1, ConcatFacts
  <2> QED
    BY <2>1, <2>2
<1> HIDE DEF step, cursor, shown
<1>3. view' \in View /\ view'.cursor = cursor /\ view'.shown = shown /\ view'.step = step
  BY <1>1, <1>2 DEF View
<1> QED
  BY <1>3 DEF shown, step, cursor

LEMMA FinishView ==
  ASSUME view \in View, Finish
  PROVE  view' \in View /\ view'.step = "done" /\ view'.window = view.window
BY DEF Finish, View

\* The pages of the administrator: what is on them is where it is in the whole list.
LEMMA MemoryRowsFacts ==
  ASSUME TableInv, NEW offset \in Nat
  PROVE  /\ MemoryRows(offset) \in Seq(Jobs)
         /\ \A i \in 1..Len(order) : offset < i /\ i <= offset + Limit =>
              Reverse(order)[i] \in Range(MemoryRows(offset))
<1> DEFINE all == Reverse(order)
           n == Len(order)
           need == Need(offset)
           rev == SubSeq(all, 1, need)
           to == Min({offset + Limit, Len(rev)})
<1>1. n \in Nat /\ Limit \in Nat \ {0} /\ order \in Seq(Jobs)
  BY Bounds, OrderFacts
<1>2. all \in Seq(Jobs) /\ Len(all) = n
  BY <1>1, ReverseFacts
<1>3. need = IF offset + Limit <= n THEN offset + Limit ELSE n
  BY <1>1, MinOfTwo DEF Need
<1>4. MemoryRows(offset) = SubSeq(rev, offset + 1, to)
  BY DEF MemoryRows
<1> HIDE DEF all, n, need
<1>5. need \in Nat /\ need <= n /\ need <= offset + Limit
      /\ (\A i \in 1..n : i <= offset + Limit => i <= need)
  BY <1>1, <1>3
<1>6. rev \in Seq(Jobs) /\ DOMAIN rev = 1..need /\ \A k \in 1..need : rev[k] = all[k]
  <2>1. /\ SubSeq(all, 0 + 1, need) \in Seq(Jobs) /\ DOMAIN SubSeq(all, 0 + 1, need) = 1..need - 0
        /\ \A k \in 1..need - 0 : SubSeq(all, 0 + 1, need)[k] = all[0 + k]
    BY <1>2, <1>5, SliceFacts
  <2>2. 0 + 1 = 1 /\ need - 0 = need /\ \A k \in 1..need : 0 + k = k
    BY <1>5
  <2> QED
    BY <2>1, <2>2
<1>7. Len(rev) = need
  BY <1>5, <1>6
<1> HIDE DEF rev
<1>8. to = IF offset + Limit <= need THEN offset + Limit ELSE need
  BY <1>1, <1>5, <1>7, MinOfTwo
<1> HIDE DEF to
<1>9. to \in Nat /\ to <= need /\ (\A i \in 1..n : i <= offset + Limit => i <= to)
  BY <1>1, <1>5, <1>8
<1>10. /\ MemoryRows(offset) \in Seq(Jobs) /\ DOMAIN MemoryRows(offset) = 1..to - offset
       /\ \A k \in 1..to - offset : MemoryRows(offset)[k] = rev[offset + k]
  BY <1>4, <1>6, <1>7, <1>9, SliceFacts
<1>11. ASSUME NEW i \in 1..n, offset < i, i <= offset + Limit
       PROVE  all[i] \in Range(MemoryRows(offset))
  <2>1. i - offset \in 1..to - offset /\ offset + (i - offset) = i /\ i \in 1..need
    BY <1>1, <1>5, <1>9, <1>11
  <2>2. MemoryRows(offset)[i - offset] = all[i]
    BY <1>6, <1>10, <2>1
  <2> QED
    BY <1>10, <2>1, <2>2 DEF Range
<1> QED
  BY <1>10, <1>11 DEF all, n

LEMMA MysqlRowsFacts ==
  ASSUME TableInv, NEW offset \in Nat
  PROVE  LET all == Newest(DOMAIN rows, Created) IN
         /\ all \in Seq(Jobs) /\ MysqlRows(offset) \in Seq(Jobs)
         /\ MysqlRows(offset) = SubSeq(all, offset + 1, Min({offset + Limit, Len(all)}))
<1> DEFINE all == Newest(DOMAIN rows, Created)
           to == Min({offset + Limit, Len(all)})
<1>1. all \in Seq(Jobs) /\ Len(all) \in Nat
  BY NewestFacts
<1>2. MysqlRows(offset) = SubSeq(all, offset + 1, to)
  BY DEF MysqlRows
<1> HIDE DEF all
<1>3. to \in Nat /\ to <= Len(all)
  BY <1>1, Bounds, MinOfTwo
<1> HIDE DEF to
<1>4. MysqlRows(offset) \in Seq(Jobs)
  BY <1>1, <1>2, <1>3, SliceFacts
<1> QED
  BY <1>1, <1>2, <1>4 DEF all, to

-----------------------------------------------------------------------------

LEMMA CountsType ==
  ASSUME TableInv
  PROVE  FirstCount \in Counted(First) /\ \A f : SecondCount(f) \in Counted(Second)
<1>1. DOMAIN rows \subseteq Jobs
  BY DEF TableInv, Rows
<1>2. FirstCount \in Counted(First)
  BY <1>1 DEF FirstCount, First, Counted, InThisWindow, Finished
<1>3. ASSUME NEW f
      PROVE  SecondCount(f) \in Counted(Second)
  BY <1>1 DEF SecondCount, Second, Counted, InThisWindow, Finished
<1> QED
  BY <1>2, <1>3

LEMMA WindowType ==
  ASSUME NEW w \in Windows
  PROVE  w[1] \in Nat /\ w[2] \in Nat /\ w[1] < w[2]
BY JobReadersAssumption

LEMMA BrowseType ==
  ASSUME TableInv, ReaderTypeOK, BrowseStart \/ List
  PROVE  ReaderTypeOK'
<1>1. /\ view \in View /\ present \subseteq Jobs /\ disturbed \in BOOLEAN /\ UNCHANGED <<answer, reader>>
      /\ answer \in [first : Counted(First), second : Counted(Second), buckets : Seq(BucketRow)]
  BY DEF ReaderTypeOK, BrowseStart, List, ReadOnly, ShowPage
<1>2. First' = First /\ Second' = Second
  BY <1>1 DEF First, Second, ShownCodes
<1>3. CASE BrowseStart
  <2>1. PICK o \in IF reader = "list" THEN Callers ELSE {view.scope} :
           /\ view' = [view EXCEPT !.step = "page", !.scope = o]
           /\ present' = Wanted(o)
    BY <1>3 DEF BrowseStart
  <2>2. o \in Owners
    <3>1. view.scope \in Owners
      BY <1>1 DEF View
    <3> QED
      BY <3>1, Zenon DEF Callers
  <2>3. view' \in View
    BY <1>1, <2>1, <2>2 DEF View
  <2>4. present' \subseteq Jobs /\ UNCHANGED disturbed
    BY <1>3, <2>1, WantedType DEF TableInv, Rows, BrowseStart
  <2> QED
    BY <1>1, <1>2, <2>3, <2>4 DEF ReaderTypeOK, Counted
<1>4. CASE List
  <2>1. /\ ShowPage(Page) \/ ShowPage(NoPage)
        /\ UNCHANGED disturbed \/ disturbed' = TRUE
    BY <1>4 DEF List, ShowPage
  <2>2. NoPage.jobs \in Seq(Jobs) /\ NoPage.next \in Nat
    BY DEF NoPage
  <2>3. view' \in View
    BY <1>1, <2>1, <2>2, PageType, ShowPageView
  <2>4. UNCHANGED present
    BY <1>4 DEF List, ShowPage
  <2> QED
    BY <1>1, <1>2, <2>1, <2>3, <2>4 DEF ReaderTypeOK, Counted
<1> QED
  BY <1>3, <1>4

LEMMA AdminType ==
  ASSUME TableInv, ReaderTypeOK, AdminStart \/ AdminList \/ AdminCount \/ AdminSelect
  PROVE  ReaderTypeOK'
<1>1. /\ view \in View /\ present \subseteq Jobs /\ disturbed \in BOOLEAN /\ UNCHANGED <<answer, reader>>
      /\ answer \in [first : Counted(First), second : Counted(Second), buckets : Seq(BucketRow)]
      /\ UNCHANGED present \/ present' = DOMAIN rows
      /\ UNCHANGED disturbed \/ disturbed' = TRUE
  BY DEF ReaderTypeOK, AdminStart, AdminList, AdminCount, AdminSelect, ReadOnly, ShowRows
<1>2. First' = First /\ Second' = Second
  BY <1>1 DEF First, Second, ShownCodes
<1>3. view.cursor \in Nat /\ Cardinality(DOMAIN rows) \in Nat
  BY <1>1, OrderCounts, FS_CardinalityType DEF View
<1>4. MemoryRows(view.cursor) \in Seq(Jobs) /\ MysqlRows(view.cursor) \in Seq(Jobs) /\ << >> \in Seq(Jobs)
  <2>1. MemoryRows(view.cursor) \in Seq(Jobs)
    BY <1>3, MemoryRowsFacts
  <2>2. MysqlRows(view.cursor) \in Seq(Jobs)
    BY <1>3, MysqlRowsFacts
  <2> QED
    BY <2>1, <2>2
<1>5. \/ view' = [view EXCEPT !.step = "page"]
      \/ view' = [view EXCEPT !.step = "select", !.total = Cardinality(DOMAIN rows)]
      \/ \E jobs \in Seq(Jobs) : \E total : ShowRows(jobs, total)
  BY <1>4 DEF AdminStart, AdminList, AdminCount, AdminSelect
<1>6. view' \in View
  <2> DEFINE count == Cardinality(DOMAIN rows)
  <2>1. CASE view' = [view EXCEPT !.step = "page"]
    BY <1>1, <2>1 DEF View
  <2>2. CASE view' = [view EXCEPT !.step = "select", !.total = count]
    <3>1. count \in Nat
      BY <1>3
    <3> HIDE DEF count
    <3> QED
      BY <1>1, <2>2, <3>1 DEF View
  <2>3. ASSUME NEW jobs \in Seq(Jobs), NEW total, ShowRows(jobs, total)
        PROVE  view' \in View
    BY <1>1, <2>3, ShowRowsView
  <2> QED
    BY <1>5, <2>1, <2>2, <2>3
<1>7. present' \subseteq Jobs
  BY <1>1 DEF TableInv, Rows
<1> QED
  BY <1>1, <1>2, <1>6, <1>7 DEF ReaderTypeOK, Counted

LEMMA StatsType ==
  ASSUME TableInv, ReaderTypeOK, StatsStart \/ MemoryStats \/ MysqlTotals \/ MysqlBreakdown
  PROVE  ReaderTypeOK'
<1>1. /\ view \in View /\ present \subseteq Jobs /\ disturbed \in BOOLEAN /\ UNCHANGED <<present, reader>>
      /\ answer \in [first : Counted(First), second : Counted(Second), buckets : Seq(BucketRow)]
      /\ UNCHANGED disturbed \/ disturbed' = TRUE
  BY DEF ReaderTypeOK, StatsStart, MemoryStats, MysqlTotals, MysqlBreakdown, ReadOnly
<1>2. First' = First /\ Second' = Second
  BY <1>1 DEF First, Second, ShownCodes
<1>3. \/ \E w \in Windows : view' = [view EXCEPT !.step = "select", !.window = w]
      \/ view' = [view EXCEPT !.step = "second"]
      \/ Finish
  <2>1. view.window \in Windows
    BY <1>1 DEF View
  <2> QED
    BY <2>1 DEF StatsStart, MemoryStats, MysqlTotals, MysqlBreakdown
<1>4. view' \in View
  BY <1>1, <1>3, FinishView DEF View
<1>5. \/ UNCHANGED answer
      \/ \E f \in Counted(First) : answer' = [answer EXCEPT !.first = f]
      \/ \E f \in Counted(Second) : answer' = [answer EXCEPT !.second = f]
      \/ \E f \in Counted(First), g \in Counted(Second) : answer' = [answer EXCEPT !.first = f, !.second = g]
  BY CountsType DEF StatsStart, MemoryStats, MysqlTotals, MysqlBreakdown
<1>6. answer' \in [first : Counted(First), second : Counted(Second), buckets : Seq(BucketRow)]
  BY <1>1, <1>5
<1> QED
  BY <1>1, <1>2, <1>4, <1>6 DEF ReaderTypeOK, Counted

\* The jobs that fall into a part of the window.
LEMMA SeriesIsOfJobs ==
  ASSUME TableInv, NEW since, NEW until
  PROVE  Series(since, until) \subseteq DOMAIN rows /\ Series(since, until) \subseteq Jobs
BY DEF Series, Finished, TableInv, Rows

LEMMA MemoryBucketType ==
  ASSUME TableInv, ReaderTypeOK, MemoryBucket
  PROVE  ReaderTypeOK'
<1>1. /\ view \in View /\ present \subseteq Jobs /\ disturbed \in BOOLEAN /\ UNCHANGED <<present, disturbed, reader>>
      /\ answer \in [first : Counted(First), second : Counted(Second), buckets : Seq(BucketRow)]
  BY DEF ReaderTypeOK, MemoryBucket, ReadOnly
<1>2. First' = First /\ Second' = Second
  BY <1>1 DEF First, Second, ShownCodes
<1>3. CASE view.cursor < view.window[2]
  <2> DEFINE jobs == Series(Clip(view.cursor).since, Clip(view.cursor).until)
             row == [start |-> view.cursor, jobs |-> jobs]
             cursor == view.cursor + Bucket
  <2>1. /\ answer' = [answer EXCEPT !.buckets = Append(@, row)]
        /\ view' = [view EXCEPT !.cursor = cursor]
    BY <1>3 DEF MemoryBucket
  <2>2. row \in BucketRow /\ cursor \in Nat
    BY <1>1, SeriesIsOfJobs, Bounds DEF View, BucketRow
  <2> HIDE DEF row, cursor
  <2>3. view' \in View
    BY <1>1, <2>1, <2>2 DEF View
  <2> DEFINE buckets == Append(answer.buckets, row)
  <2>4. buckets \in Seq(BucketRow)
    BY <1>1, <2>2
  <2>5. answer' = [answer EXCEPT !.buckets = buckets]
    BY <2>1
  <2> HIDE DEF buckets
  <2>6. answer' \in [first : Counted(First), second : Counted(Second), buckets : Seq(BucketRow)]
    BY <1>1, <2>4, <2>5
  <2> QED
    BY <1>1, <1>2, <2>3, <2>6 DEF ReaderTypeOK, Counted
<1>4. CASE ~(view.cursor < view.window[2])
  <2>1. UNCHANGED answer /\ view' \in View
    BY <1>1, <1>4, FinishView DEF MemoryBucket
  <2> QED
    BY <1>1, <1>2, <2>1 DEF ReaderTypeOK, Counted
<1> QED
  BY <1>3, <1>4

-----------------------------------------------------------------------------

\* What MySQL.AdminModelSeries answers.
WallOf(id) == WallStart(rows[id].finished + Zone)
Walls == {WallOf(id) : id \in Series(view.window[1], view.window[2])}
Starts == Enumerate(Walls, Ascending(Walls))
MysqlBuckets ==
  [i \in DOMAIN Starts |->
     [start |-> Starts[i], jobs |-> {id \in Series(view.window[1], view.window[2]) : WallOf(id) = Starts[i]}]]

\* A job of the series has ended, in its part of the window.
LEMMA SeriesFacts ==
  ASSUME TableInv, NEW since \in Nat, NEW until, NEW id \in Series(since, until)
  PROVE  /\ id \in DOMAIN rows /\ Settled(id) /\ rows[id].finished \in Nat
         /\ since <= rows[id].finished /\ rows[id].finished < until
         /\ view.models = {} \/ rows[id].group[1] \in view.models
<1>1. /\ id \in DOMAIN rows /\ Settled(id) /\ since <= rows[id].finished /\ rows[id].finished < until
      /\ view.models = {} \/ rows[id].group[1] \in view.models
  BY DEF Series, Finished, InWindow
<1>2. rows[id].finished \in Time \cup {Null}
  BY <1>1 DEF TableInv, Rows, Row
<1>3. rows[id].finished \in Nat
  <2>1. ~(since <= Null)
    BY DEF Null
  <2> QED
    BY <1>1, <1>2, <2>1, TimeIsNat
<1> QED
  BY <1>1, <1>3

LEMMA StartsFacts ==
  ASSUME TableInv, ReaderTypeOK
  PROVE  /\ Starts \in Seq(Nat) /\ Len(Starts) \in Nat /\ DOMAIN Starts = 1..Len(Starts)
         /\ \A id \in Series(view.window[1], view.window[2]) :
              /\ WallOf(id) \in Nat /\ WallOf(id) <= rows[id].finished + Zone
              /\ rows[id].finished + Zone < WallOf(id) + Bucket
              /\ \E i \in 1..Len(Starts) : Starts[i] = WallOf(id)
         /\ \A i, j \in 1..Len(Starts) : Starts[i] = Starts[j] => i = j
<1> DEFINE S == Series(view.window[1], view.window[2])
<1>1. view.window[1] \in Nat
  BY WindowType DEF ReaderTypeOK, View
<1>2. ASSUME NEW id \in S
      PROVE  /\ WallOf(id) \in Nat /\ WallOf(id) <= rows[id].finished + Zone
             /\ rows[id].finished + Zone < WallOf(id) + Bucket
  <2>1. rows[id].finished + Zone \in Nat
    BY <1>1, SeriesFacts, Bounds
  <2> QED
    BY <2>1, WallFacts DEF WallOf
<1>3. Walls \in SUBSET Nat /\ Walls \in SUBSET Int
  BY <1>2 DEF Walls
<1>4. IsFiniteSet(Walls)
  <2>1. IsFiniteSet(S)
    BY SeriesIsOfJobs, OrderCounts, FS_Subset
  <2> DEFINE f == [id \in S |-> WallOf(id)]
  <2>2. Walls = {f[id] : id \in S}
    BY DEF Walls
  <2>3. f \in [S -> Walls] /\ \A w \in Walls : \E id \in S : f[id] = w
    BY DEF Walls
  <2> HIDE DEF f, S
  <2>4. f \in Surjection(S, Walls)
    BY <2>3 DEF Surjection
  <2> QED
    BY <2>1, <2>4, FS_Surjection
<1>5. /\ Starts \in Seq(Walls) /\ DOMAIN Starts = 1..Cardinality(Walls) /\ Len(Starts) = Cardinality(Walls)
      /\ \A w \in Walls : \E i \in DOMAIN Starts : Starts[i] = w
      /\ \A i, j \in DOMAIN Starts : Starts[i] = Starts[j] => i = j
  BY <1>3, <1>4, AscendingIsTotal, EnumerateOnce DEF Starts
<1>6. Starts \in Seq(Nat) /\ Len(Starts) \in Nat
  <2>1. Starts \in Seq(Walls)
    BY <1>5
  <2>2. /\ Len(Starts) \in Nat /\ \A i \in 1..Len(Starts) : Starts[i] \in Walls
        /\ Starts = [i \in 1..Len(Starts) |-> Starts[i]]
    BY <2>1
  <2>3. Starts \in [1..Len(Starts) -> Nat]
    BY <1>3, <2>2
  <2> QED
    BY <2>2, <2>3, FunctionIsSeq
<1>7. \A id \in S : WallOf(id) \in Walls
  BY DEF Walls
<1> QED
  BY <1>2, <1>5, <1>6, <1>7

LEMMA MysqlBucketsType ==
  ASSUME TableInv, ReaderTypeOK
  PROVE  MysqlBuckets \in Seq(BucketRow) /\ DOMAIN MysqlBuckets = DOMAIN Starts
<1> DEFINE n == Len(Starts)
<1>1. n \in Nat /\ DOMAIN Starts = 1..n /\ \A i \in 1..n : Starts[i] \in Nat
  <2>1. Starts \in Seq(Nat)
    BY StartsFacts
  <2> QED
    BY <2>1
<1> HIDE DEF n
<1>2. MysqlBuckets \in [1..n -> BucketRow]
  BY <1>1, SeriesIsOfJobs DEF MysqlBuckets, BucketRow
<1>3. MysqlBuckets \in Seq(BucketRow)
  BY <1>1, <1>2, FunctionIsSeq
<1> QED
  BY <1>1, <1>2, <1>3

LEMMA MysqlSeriesType ==
  ASSUME TableInv, ReaderTypeOK, MysqlSeries
  PROVE  ReaderTypeOK'
<1>1. /\ view \in View /\ present \subseteq Jobs /\ disturbed \in BOOLEAN /\ UNCHANGED <<present, reader>>
      /\ UNCHANGED disturbed \/ disturbed' = TRUE
      /\ answer \in [first : Counted(First), second : Counted(Second), buckets : Seq(BucketRow)]
      /\ Finish
  BY DEF ReaderTypeOK, MysqlSeries, ReadOnly
<1>2. First' = First /\ Second' = Second
  BY <1>1 DEF First, Second, ShownCodes
<1>3. answer' = [answer EXCEPT !.buckets = MysqlBuckets] \/ UNCHANGED answer
  BY DEF MysqlSeries, MysqlBuckets, Starts, Walls, WallOf
<1>4. answer' \in [first : Counted(First), second : Counted(Second), buckets : Seq(BucketRow)]
  BY <1>1, <1>3, MysqlBucketsType
<1>5. view' \in View
  BY <1>1, FinishView
<1> QED
  BY <1>1, <1>2, <1>4, <1>5 DEF ReaderTypeOK, Counted

LEMMA SeriesStartView ==
  ASSUME view \in View, NEW w \in Windows, NEW M \in SUBSET Models,
         view' = [view EXCEPT !.step = "bucket", !.window = w, !.models = M, !.cursor = WallStart(w[1])]
  PROVE  /\ view' \in View /\ view'.step = "bucket" /\ view'.window = w /\ view'.models = M
         /\ view'.cursor = WallStart(w[1])
<1> DEFINE cursor == WallStart(w[1])
<1>1. cursor \in Nat
  BY WindowType, WallFacts
<1> HIDE DEF cursor
<1>2. view' = [view EXCEPT !.step = "bucket", !.window = w, !.models = M, !.cursor = cursor]
  BY DEF cursor
<1>3. view' \in View /\ view'.step = "bucket" /\ view'.window = w /\ view'.models = M /\ view'.cursor = cursor
  BY <1>1, <1>2 DEF View
<1> QED
  BY <1>3 DEF cursor

LEMMA SeriesStartType ==
  ASSUME TableInv, ReaderTypeOK, SeriesStart
  PROVE  ReaderTypeOK'
<1>1. /\ view \in View /\ disturbed \in BOOLEAN /\ UNCHANGED <<answer, disturbed, reader>>
      /\ answer \in [first : Counted(First), second : Counted(Second), buckets : Seq(BucketRow)]
  BY DEF ReaderTypeOK, SeriesStart, ReadOnly
<1>2. First' = First /\ Second' = Second
  BY <1>1 DEF First, Second, ShownCodes
<1>3. present' \subseteq DOMAIN rows /\ view' \in View
  BY <1>1, SeriesStartView DEF SeriesStart
<1>4. present' \subseteq Jobs
  BY <1>3 DEF TableInv, Rows
<1> QED
  BY <1>1, <1>2, <1>3, <1>4 DEF ReaderTypeOK, Counted

LEMMA ReaderTypeStep ==
  ASSUME TableInv, ReaderTypeOK, [Next]_vars
  PROVE  ReaderTypeOK'
<1>1. CASE WriteStep \/ UNCHANGED vars
  <2>1. UNCHANGED <<view, answer, present, reader>>
    BY <1>1, TableStep DEF WriteStep, vars, tableVars, RowsStep
  <2>2. First' = First /\ Second' = Second
    BY <2>1 DEF First, Second, ShownCodes
  <2>3. disturbed' \in BOOLEAN
    <3>1. CASE WriteStep
      BY <3>1 DEF WriteStep, ReaderTypeOK, Disturbs
    <3>2. CASE UNCHANGED disturbed
      BY <3>2 DEF ReaderTypeOK
    <3> QED
      BY <1>1, <3>1, <3>2 DEF vars
  <2> QED
    BY <2>1, <2>2, <2>3 DEF ReaderTypeOK, Counted
<1>2. CASE Next /\ ~WriteStep
  BY <1>2, BrowseType, AdminType, StatsType, SeriesStartType, MemoryBucketType, MysqlSeriesType DEF Next
<1> QED
  BY <1>1, <1>2

LEMMA ReaderTypeInit ==
  ASSUME Init
  PROVE  ReaderTypeOK
<1> DEFINE scope == CHOOSE o \in Owners : TRUE
           window == CHOOSE w \in Windows : TRUE
<1>1. scope \in Owners /\ window \in Windows
  BY JobTableAssumption, JobReadersAssumption, Zenon
<1> HIDE DEF scope, window
<1>2. view = [step |-> "idle", scope |-> scope, cursor |-> 0, total |-> 0, shown |-> << >>,
              window |-> window, models |-> {}]
  BY DEF Init, scope, window
<1>3. view \in View
  BY <1>1, <1>2 DEF View
<1>4. answer = NoAnswer /\ present = {} /\ disturbed = FALSE
  BY DEF Init
<1>5. answer \in [first : Counted(First), second : Counted(Second), buckets : Seq(BucketRow)]
  BY <1>4 DEF NoAnswer, Counted
<1> QED
  BY <1>3, <1>4, <1>5 DEF ReaderTypeOK

LEMMA ReaderAlways == Spec => [](TableInv /\ ReaderTypeOK)
<1> QED
  BY TableInvInit, TableStep, ReaderTypeInit, ReaderTypeStep, PTL DEF Spec

\* The rows, the list of the memory store, which is as long as the table, and the reader's
\* progress keep their shape.
THEOREM TypeCorrect == Spec => []TypeOK
<1>1. TableInv => TableTypeOK
  <2> SUFFICES ASSUME TableInv PROVE TableTypeOK
    OBVIOUS
  <2>1. Len(order) = Cardinality(DOMAIN rows) /\ Range(order) = DOMAIN rows
    BY OrderCounts DEF TableInv, InOrder
  <2> QED
    BY <2>1 DEF TableInv, Rows, TableTypeOK
<1>2. TableInv /\ ReaderTypeOK => TypeOK
  BY <1>1 DEF ReaderTypeOK, TypeOK
<1> QED
  BY <1>2, ReaderAlways, PTL

-----------------------------------------------------------------------------

-----------------------------------------------------------------------------
(* Browsing a history.  The cursor is the oldest job shown so far; what was  *)
(* there at the beginning and has not been shown is older still, as long as  *)
(* the cursor is there.                                                      *)

Browsing == reader \in {"list", "feed"}
InMemory == store = "memory" /\ reader = "list"
Shown == Range(view.shown)

RepeatInv ==
  Browsing /\ ~disturbed =>
    /\ IsInjective(view.shown)
    /\ view.step = "idle" => view.cursor = 0
    /\ view.step \in {"idle", "page"} /\ view.cursor = 0 => view.shown = << >>
    /\ InMemory /\ view.step = "page" /\ view.cursor # 0 =>
         /\ view.cursor \in Wanted(view.scope)
         /\ \A x \in Shown : x = view.cursor \/ Older(view.cursor, x)

SeesInv ==
  InMemory =>
    /\ view.step = "idle" => view.cursor = 0
    /\ present \subseteq used /\ view.cursor \in used \cup {0}
    /\ view.step = "page" /\ view.cursor \in Wanted(view.scope) =>
         \A x \in present \cap Wanted(view.scope) : x \in Shown \/ Older(x, view.cursor)
    /\ view.step = "done" => present \cap Wanted(view.scope) \subseteq Shown

\* Whether a job is in a history depends on its owner alone, which stays in memory.
LEMMA SameOwner ==
  ASSUME NEW scope, NEW a, NEW b, a.owner = b.owner
  PROVE  ListContains(scope, a) <=> ListContains(scope, b)
BY Zenon DEF ListContains

LEMMA WantedKept ==
  ASSUME RowsStep, UNCHANGED view, InMemory, NEW id \in DOMAIN rows, id \in DOMAIN rows'
  PROVE  id \in Wanted(view.scope)' <=> id \in Wanted(view.scope)
<1>1. rows'[id].owner = rows[id].owner /\ reader' = reader /\ reader = "list"
  BY DEF RowsStep, SameResult, InMemory
<1>2. ListContains(view.scope, rows'[id]) <=> ListContains(view.scope, rows[id])
  BY <1>1, SameOwner
<1> QED
  BY <1>1, <1>2 DEF Wanted

LEMMA WriteKeepsRepeat ==
  ASSUME TableInv, RepeatInv, WriteStep
  PROVE  RepeatInv'
<1>1. TableInv' /\ RowsStep /\ UNCHANGED view /\ disturbed' = (disturbed \/ (view.step # "idle" /\ Disturbs))
  BY WriteKeeps DEF WriteStep
<1>2. UNCHANGED <<store, reader>>
  BY <1>1 DEF RowsStep
<1> SUFFICES ASSUME Browsing, ~disturbed'
             PROVE  RepeatInv'
  BY <1>2 DEF RepeatInv, Browsing
<1>3. ~disturbed /\ (view.step # "idle" => DOMAIN rows \subseteq DOMAIN rows')
  BY <1>1 DEF Disturbs
<1>4. ASSUME InMemory, view.step = "page", view.cursor # 0
      PROVE  /\ view.cursor \in Wanted(view.scope)'
             /\ \A x \in Shown : x = view.cursor \/ Older(view.cursor, x)'
  <2>1. /\ view.cursor \in Wanted(view.scope) /\ \A x \in Shown : x = view.cursor \/ Older(view.cursor, x)
        /\ DOMAIN rows \subseteq DOMAIN rows' /\ reader = "list"
    BY <1>3, <1>4 DEF RepeatInv, InMemory
  <2>2. view.cursor \in DOMAIN rows /\ view.cursor \in Wanted(view.scope)'
    BY <1>1, <1>4, <2>1, WantedType, WantedKept
  <2>3. ASSUME NEW x, Older(view.cursor, x)
        PROVE  Older(view.cursor, x)'
    <3>1. x \in DOMAIN rows
      BY <2>3, OlderIsOrder
    <3>2. SameOrder
      BY <1>1 DEF RowsStep
    <3> QED
      BY <1>1, <2>1, <2>2, <2>3, <3>1, <3>2 DEF SameOrder
  <2> QED
    BY <2>1, <2>2, <2>3
<1>5. Shown' = Shown
  BY <1>1 DEF Shown
<1> QED
  BY <1>1, <1>2, <1>3, <1>4, <1>5 DEF RepeatInv, InMemory, Browsing

LEMMA WriteKeepsSees ==
  ASSUME TableInv, SeesInv, WriteStep
  PROVE  SeesInv'
<1>1. TableInv' /\ RowsStep /\ UNCHANGED <<view, present>> /\ view.step # "done"
  BY WriteKeeps DEF WriteStep
<1>2. UNCHANGED <<store, reader>> /\ NewIds /\ SameOrder
  BY <1>1 DEF RowsStep
<1> SUFFICES ASSUME InMemory
             PROVE  SeesInv'
  BY <1>2 DEF SeesInv, InMemory
<1>3. /\ present \subseteq used' /\ view.cursor \in used' \cup {0} /\ used' \subseteq Jobs
      /\ present \subseteq used /\ view.cursor \in used \cup {0} /\ 0 \notin Jobs
  BY <1>1, <1>2, Bounds DEF SeesInv, NewIds, TableInv, Rows
<1>4. \A x \in Wanted(view.scope)' : x \in used => x \in DOMAIN rows' /\ x \in DOMAIN rows /\ x \in Wanted(view.scope)
  <2> SUFFICES ASSUME NEW x \in Wanted(view.scope)', x \in used
               PROVE  x \in DOMAIN rows' /\ x \in DOMAIN rows /\ x \in Wanted(view.scope)
    OBVIOUS
  <2>1. x \in DOMAIN rows'
    BY DEF Wanted
  <2>2. x \in DOMAIN rows
    BY <1>2, <2>1 DEF NewIds
  <2> QED
    BY <1>1, <2>1, <2>2, WantedKept DEF InMemory
<1>5. ASSUME view.step = "page", view.cursor \in Wanted(view.scope)', NEW x \in present, x \in Wanted(view.scope)'
      PROVE  x \in Shown \/ Older(x, view.cursor)'
  <2>1. /\ view.cursor \in DOMAIN rows /\ view.cursor \in DOMAIN rows' /\ view.cursor \in Wanted(view.scope)
        /\ x \in DOMAIN rows /\ x \in DOMAIN rows' /\ x \in Wanted(view.scope)
    <3>1. view.cursor \in DOMAIN rows'
      BY <1>5 DEF Wanted
    <3>2. view.cursor # 0
      BY <1>1, <1>3, <3>1 DEF TableInv, Rows
    <3> QED
      BY <1>3, <1>4, <1>5, <3>2
  <2>2. x \in Shown \/ Older(x, view.cursor)
    BY <1>5, <2>1 DEF SeesInv
  <2> QED
    BY <1>1, <1>2, <2>1, <2>2 DEF SameOrder
<1>6. Shown' = Shown
  BY <1>1 DEF Shown
<1> QED
  BY <1>1, <1>2, <1>3, <1>5, <1>6 DEF SeesInv, InMemory

LEMMA BrowseStartKeeps ==
  ASSUME TableInv, ReaderTypeOK, RepeatInv, SeesInv, BrowseStart
  PROVE  RepeatInv' /\ SeesInv'
<1>1. PICK o \in IF reader = "list" THEN Callers ELSE {view.scope} :
         /\ view' = [view EXCEPT !.step = "page", !.scope = o]
         /\ present' = Wanted(o)
  BY DEF BrowseStart
<1>2. /\ Browsing /\ view.step = "idle" /\ UNCHANGED <<store, reader, rows, used, order, disturbed>>
      /\ view \in View
  BY DEF BrowseStart, Browsing, ReadOnly, table, ReaderTypeOK
<1>3. view'.step = "page" /\ view'.cursor = view.cursor /\ view'.shown = view.shown
  BY <1>1, <1>2 DEF View
<1>4. RepeatInv'
  BY <1>2, <1>3 DEF RepeatInv, Browsing
<1>5. SeesInv'
  <2> SUFFICES ASSUME InMemory
               PROVE  SeesInv'
    BY <1>2 DEF SeesInv, InMemory
  <2>1. view.cursor = 0 /\ present' \subseteq DOMAIN rows /\ 0 \notin DOMAIN rows /\ DOMAIN rows \subseteq used
    BY <1>1, <1>2, WantedType, Bounds DEF SeesInv, TableInv, Rows
  <2>2. 0 \notin Wanted(view.scope)'
    BY <1>2, <2>1 DEF Wanted
  <2> QED
    BY <1>2, <1>3, <2>1, <2>2 DEF SeesInv
<1> QED
  BY <1>4, <1>5

LEMMA ConcatIsInjective ==
  ASSUME NEW T, NEW s \in Seq(T), NEW t \in Seq(T), IsInjective(s), IsInjective(t),
         Range(s) \cap Range(t) = {}
  PROVE  IsInjective(s \o t)
<1> DEFINE m == Len(s)
           n == Len(t)
           u == s \o t
<1>1. /\ u \in Seq(T) /\ Len(u) = m + n
      /\ \A k \in 1..m : u[k] = s[k]
      /\ \A k \in 1..n : u[m + k] = t[k]
  BY ConcatFacts
<1>2. m \in Nat /\ n \in Nat /\ DOMAIN u = 1..m + n /\ DOMAIN s = 1..m /\ DOMAIN t = 1..n
  BY <1>1
<1> HIDE DEF m, n, u
<1>3. \A k \in 1..m + n :
        (k \in 1..m /\ u[k] = s[k]) \/ (k - m \in 1..n /\ u[k] = t[k - m])
  <2> SUFFICES ASSUME NEW k \in 1..m + n, k \notin 1..m
               PROVE  k - m \in 1..n /\ u[k] = t[k - m]
    BY <1>1
  <2>1. k - m \in 1..n /\ m + (k - m) = k
    BY <1>2
  <2> QED
    BY <1>1, <2>1
<1>4. \A k \in 1..m, l \in 1..n : s[k] # t[l]
  BY <1>2 DEF Range
<1> SUFFICES ASSUME NEW k \in 1..m + n, NEW l \in 1..m + n, u[k] = u[l]
             PROVE  k = l
  BY <1>2 DEF IsInjective, u
<1>5. CASE k \in 1..m /\ l \in 1..m
  BY <1>1, <1>2, <1>5 DEF IsInjective
<1>6. CASE k - m \in 1..n /\ l - m \in 1..n /\ u[k] = t[k - m] /\ u[l] = t[l - m]
  <2>1. k - m = l - m
    BY <1>2, <1>6 DEF IsInjective
  <2> QED
    BY <1>2, <2>1
<1> QED
  BY <1>1, <1>3, <1>4, <1>5, <1>6

LEMMA ListKeepsRepeat ==
  ASSUME TableInv, ReaderTypeOK, RepeatInv, List
  PROVE  RepeatInv'
<1>1. /\ view.step = "page" /\ Browsing /\ UNCHANGED <<store, reader, rows, order>>
      /\ view \in View /\ view.shown \in Seq(Jobs)
  BY DEF List, Browsing, ReadOnly, table, ReaderTypeOK, View
<1> SUFFICES ASSUME ~disturbed'
             PROVE  RepeatInv'
  BY DEF RepeatInv
<1>2. ShowPage(Page) /\ ~disturbed
  BY DEF List
<1> DEFINE jobs == Page.jobs
           next == Page.next
<1>3. jobs \in Seq(Jobs) /\ next \in Nat /\ IsInjective(jobs)
  BY PageType
<1>4. /\ view'.scope = view.scope /\ view'.cursor = next /\ view'.shown = view.shown \o jobs
      /\ view'.step = IF next = 0 THEN "done" ELSE "page"
  BY <1>1, <1>2, <1>3, ShowPageView
<1>5. /\ IsInjective(view.shown)
      /\ view.cursor = 0 => view.shown = << >>
      /\ InMemory /\ view.cursor # 0 =>
           /\ view.cursor \in Wanted(view.scope)
           /\ \A x \in Shown : x = view.cursor \/ Older(view.cursor, x)
  BY <1>1, <1>2 DEF RepeatInv
<1>6. Wanted(view.scope)' = Wanted(view.scope) /\ \A a, b : Older(a, b)' <=> Older(a, b)
  BY <1>1, <1>4 DEF Wanted, Older
<1>7. Shown' = Shown \cup Range(jobs)
  BY <1>1, <1>3, <1>4, ConcatFacts DEF Shown
<1>8. view.cursor = 0 => Shown = {} /\ view'.shown = jobs
  <2>1. view.shown = << >> => Shown = {} /\ view.shown \o jobs = jobs
    BY <1>3 DEF Shown, Range
  <2> HIDE DEF jobs
  <2> QED
    BY <1>4, <1>5, <2>1
<1>9. CASE InMemory
  <2>1. Page = MemoryList(view.scope, view.cursor)
    BY <1>9 DEF InMemory, Page
  <2>2. /\ view.cursor \in Wanted(view.scope) => \A x \in Range(jobs) : Older(x, view.cursor)
        /\ next # 0 => next \in Range(jobs) /\ \A x \in Range(jobs) : x = next \/ Older(next, x)
        /\ Range(jobs) \subseteq Wanted(view.scope)
        /\ \A y \in Wanted(view.scope) :
              \/ y \in Range(jobs)
              \/ view.cursor \in Wanted(view.scope) /\ (y = view.cursor \/ Older(view.cursor, y))
              \/ next # 0 /\ Older(y, next)
    BY <2>1, MemoryPage
  <2> HIDE DEF jobs, next
  <2>3. IsInjective(view'.shown)
    <3>1. CASE view.cursor = 0
      BY <1>3, <1>8, <3>1
    <3>2. CASE view.cursor # 0
      <4>1. Shown \cap Range(jobs) = {}
        <5> SUFFICES ASSUME NEW x \in Shown, x \in Range(jobs)
                     PROVE  FALSE
          OBVIOUS
        <5>1. Older(x, view.cursor) /\ (x = view.cursor \/ Older(view.cursor, x))
          BY <1>5, <1>9, <2>2, <3>2
        <5> QED
          BY <5>1, OlderIsOrder
      <4>2. IsInjective(view.shown \o jobs)
        BY <1>1, <1>3, <1>5, <4>1, ConcatIsInjective DEF Shown
      <4> QED
        BY <1>4, <4>2
    <3> QED
      BY <3>1, <3>2
  <2>4. ASSUME next # 0, NEW x \in Shown
        PROVE  x = next \/ Older(next, x)
    <3>1. view.cursor # 0 /\ (x = view.cursor \/ Older(view.cursor, x)) /\ view.cursor \in Wanted(view.scope)
      BY <1>5, <1>8, <1>9, <2>4
    <3>2. next \in Range(jobs)
      BY <2>2, <2>4
    <3>3. Older(next, view.cursor)
      BY <2>2, <3>1, <3>2
    <3> QED
      BY <3>1, <3>3, OlderIsOrder
  <2> QED
    BY <1>1, <1>4, <1>6, <1>7, <2>2, <2>3, <2>4 DEF RepeatInv, InMemory
<1>10. CASE ~InMemory
  <2>1. view.cursor # 0 => Page = NoPage
    BY <1>1, <1>10 DEF Page, ListPublic, MysqlList, InMemory, Browsing
  <2>2. IsInjective(view'.shown)
    <3>1. CASE view.cursor = 0
      BY <1>3, <1>8, <3>1
    <3>2. CASE view.cursor # 0
      <4>1. jobs = << >>
        BY <2>1, <3>2 DEF NoPage
      <4>2. Range(view.shown) \cap Range(jobs) = {}
        BY <4>1 DEF Range
      <4>3. IsInjective(view.shown \o jobs)
        BY <1>1, <1>3, <1>5, <4>2, ConcatIsInjective
      <4> QED
        BY <1>4, <4>3
    <3> QED
      BY <3>1, <3>2
  <2>3. ~InMemory'
    BY <1>1, <1>10 DEF InMemory
  <2> HIDE DEF jobs, next
  <2> QED
    BY <1>4, <2>2, <2>3 DEF RepeatInv
<1> QED
  BY <1>9, <1>10

LEMMA ListKeepsSees ==
  ASSUME TableInv, ReaderTypeOK, SeesInv, List
  PROVE  SeesInv'
<1>1. /\ view.step = "page" /\ UNCHANGED <<store, reader, rows, order, used, present>>
      /\ view \in View /\ view.shown \in Seq(Jobs)
  BY DEF List, ShowPage, ReadOnly, table, ReaderTypeOK, View
<1> SUFFICES ASSUME InMemory
             PROVE  SeesInv'
  BY <1>1 DEF SeesInv, InMemory
<1>2. ShowPage(Page) /\ Page = MemoryList(view.scope, view.cursor)
  BY DEF List, Fault, Page, InMemory
<1> DEFINE jobs == Page.jobs
           next == Page.next
           W == Wanted(view.scope)
<1>3. jobs \in Seq(Jobs) /\ next \in Nat
  BY PageType
<1>4. /\ view'.scope = view.scope /\ view'.cursor = next /\ view'.shown = view.shown \o jobs
      /\ view'.step = IF next = 0 THEN "done" ELSE "page"
  BY <1>1, <1>2, <1>3, ShowPageView
<1>5. /\ next # 0 => next \in W
      /\ \A y \in W :
           \/ y \in Range(jobs)
           \/ view.cursor \in W /\ (y = view.cursor \/ Older(view.cursor, y))
           \/ next # 0 /\ Older(y, next)
  BY <1>2, MemoryPage
<1>6. Wanted(view.scope)' = W /\ \A a, b : Older(a, b)' <=> Older(a, b)
  BY <1>1, <1>4 DEF Wanted, Older
<1>7. Shown' = Shown \cup Range(jobs)
  BY <1>1, <1>3, <1>4, ConcatFacts DEF Shown
<1> HIDE DEF jobs, next, W
<1>8. /\ present \subseteq used /\ next \in used \cup {0}
      /\ view.cursor \in W => \A x \in present \cap W : x \in Shown \/ Older(x, view.cursor)
  BY <1>1, <1>5, WantedType DEF SeesInv, TableInv, Rows, W
<1>9. ASSUME NEW x \in present \cap W
      PROVE  x \in Shown' \/ (next # 0 /\ Older(x, next))
  <2>1. CASE view.cursor \in W /\ (x = view.cursor \/ Older(view.cursor, x))
    <3>1. ~Older(x, view.cursor)
      BY <2>1, OlderIsOrder
    <3> QED
      BY <1>7, <1>8, <1>9, <2>1, <3>1
  <2> QED
    BY <1>5, <1>7, <1>9, <2>1
<1> QED
  BY <1>1, <1>4, <1>6, <1>8, <1>9 DEF SeesInv

-----------------------------------------------------------------------------

\* The other readers, and a stutter.
LEMMA OthersKeepBrowse ==
  ASSUME RepeatInv, SeesInv, UNCHANGED <<store, reader>>, ~Browsing \/ UNCHANGED vars
  PROVE  RepeatInv' /\ SeesInv'
<1>1. CASE ~Browsing
  BY <1>1 DEF RepeatInv, SeesInv, Browsing, InMemory
<1>2. CASE UNCHANGED vars
  <2>1. UNCHANGED <<store, reader, rows, used, order, view, present, disturbed>>
    BY <1>2 DEF vars, tableVars, table
  <2>2. Wanted(view.scope)' = Wanted(view.scope) /\ \A a, b : Older(a, b)' <=> Older(a, b)
    BY <2>1 DEF Wanted, Older
  <2> QED
    BY <2>1, <2>2 DEF RepeatInv, SeesInv, Browsing, InMemory, Shown
<1> QED
  BY <1>1, <1>2

LEMMA BrowseStep ==
  ASSUME TableInv, ReaderTypeOK, RepeatInv, SeesInv, [Next]_vars
  PROVE  RepeatInv' /\ SeesInv'
<1>1. CASE WriteStep
  BY <1>1, WriteKeepsRepeat, WriteKeepsSees
<1>2. CASE BrowseStart \/ List
  BY <1>2, BrowseStartKeeps, ListKeepsRepeat, ListKeepsSees
<1>3. CASE UNCHANGED vars
  BY <1>3, OthersKeepBrowse DEF vars, tableVars
<1>4. CASE \/ AdminStart \/ AdminList \/ AdminCount \/ AdminSelect
           \/ StatsStart \/ MemoryStats \/ MysqlTotals \/ MysqlBreakdown
           \/ SeriesStart \/ MemoryBucket \/ MysqlSeries
  <2>1. UNCHANGED <<store, reader>>
    BY TableStep DEF RowsStep
  <2> QED
    BY <1>4, <2>1, OthersKeepBrowse
       DEF Browsing, AdminStart, AdminList, AdminCount, AdminSelect, StatsStart, MemoryStats,
           MysqlTotals, MysqlBreakdown, SeriesStart, MemoryBucket, MysqlSeries
<1> QED
  BY <1>1, <1>2, <1>3, <1>4 DEF Next

LEMMA BrowseInit ==
  ASSUME Init
  PROVE  RepeatInv /\ SeesInv
<1>1. view.step = "idle" /\ view.cursor = 0 /\ view.shown = << >> /\ present = {}
  BY DEF Init
<1> QED
  BY <1>1 DEF RepeatInv, SeesInv, IsInjective

LEMMA BrowseAlways == Spec => [](RepeatInv /\ SeesInv)
<1> QED
  BY ReaderAlways, BrowseInit, BrowseStep, PTL DEF Spec

\* Memory.List, page by page, shows every job that was in the history when the browsing began
\* and still is, although jobs come and are evicted meanwhile, the job of the cursor among
\* them.
THEOREM MemoryBrowseIsComplete == Spec => []MemoryBrowseSeesAll
<1>1. SeesInv => MemoryBrowseSeesAll
  BY DEF SeesInv, InMemory, Shown, MemoryBrowseSeesAll, Done
<1> QED
  BY <1>1, BrowseAlways, PTL

\* A job is shown twice only if an eviction took away a cursor (Memory.List starts again), or
\* a query failed.
THEOREM BrowseRepeatsNothing == Spec => []RepeatOnlyAfterEviction
<1>1. RepeatInv => RepeatOnlyAfterEviction
  BY DEF RepeatInv, Browsing, RepeatOnlyAfterEviction
<1> QED
  BY <1>1, BrowseAlways, PTL

-----------------------------------------------------------------------------
(* The administrator's pages.  A job that was there at the beginning has     *)
(* been shown, or as many jobs are in front of it as the pages so far are    *)
(* long: those that come push it back, and none leaves the table.            *)

InFront(x) ==
  IF store = "memory" THEN {y \in DOMAIN rows : Older(x, y)}
                      ELSE Before(DOMAIN rows, Newer(DOMAIN rows, Created), x)

AdminInv ==
  reader = "admin" =>
    /\ view.step = "idle" => view.cursor = 0
    /\ view.step \in {"page", "select"} /\ ~disturbed =>
         /\ present \subseteq DOMAIN rows
         /\ view.step = "select" => store = "mysql" /\ view.total = Cardinality(DOMAIN rows)
         /\ \A x \in present : x \in Shown \/ view.cursor <= Cardinality(InFront(x))
    /\ view.step = "done" /\ ~disturbed => present \subseteq Shown

LEMMA InFrontType ==
  ASSUME TableInv, NEW x
  PROVE  InFront(x) \in SUBSET DOMAIN rows /\ IsFiniteSet(InFront(x)) /\ Cardinality(InFront(x)) \in Nat
<1>1. InFront(x) \in SUBSET DOMAIN rows
  BY DEF InFront, Before
<1> QED
  BY <1>1, OrderCounts, FS_Subset, FS_CardinalityType

LEMMA MemoryPlace ==
  ASSUME TableInv, store = "memory", NEW x \in DOMAIN rows
  PROVE  /\ Cardinality(InFront(x)) + 1 \in 1..Len(order)
         /\ x = Reverse(order)[Cardinality(InFront(x)) + 1]
<1> DEFINE S == DOMAIN rows
           R == {p \in S \X S : Older(p[2], p[1])}
           s == Reverse(order)
           n == Len(order)
<1>1. n \in Nat /\ order \in Seq(Jobs)
  BY OrderFacts
<1>2. Len(s) = n
  BY <1>1, ReverseFacts
<1>3. s \in Seq(Jobs) /\ Range(s) = S /\ \A i, j \in DOMAIN s : i < j <=> Older(s[j], s[i])
  BY ReverseListing DEF Listing
<1> HIDE DEF S, s, n
<1>4. DOMAIN s = 1..n /\ (\A i \in 1..n : s[i] \in S) /\ (\A y \in S : \E i \in 1..n : s[i] = y)
  BY <1>2, <1>3 DEF Range
<1>5. \A i, j \in 1..n : i < j <=> <<s[i], s[j]>> \in R
  BY <1>3, <1>4
<1> HIDE DEF R
<1>6. s \in Seq(S)
  <2>1. s = [i \in 1..n |-> s[i]]
    BY <1>3, <1>4
  <2>2. s \in [1..n -> S]
    BY <1>4, <2>1
  <2> QED
    BY <1>1, <2>2, FunctionIsSeq DEF n
<1>7. PICK i \in 1..n : s[i] = x
  BY <1>4 DEF S
<1>8. Cardinality(Before(S, R, s[i])) = i - 1
  <2>1. /\ \A y \in S : \E j \in 1..Len(s) : s[j] = y
        /\ \A j, k \in 1..Len(s) : j < k <=> <<s[j], s[k]>> \in R
        /\ i \in 1..Len(s)
    BY <1>2, <1>4, <1>5
  <2> QED
    BY <1>6, <2>1, PlaceInList
<1>9. Before(S, R, x) = InFront(x)
  BY DEF Before, InFront, R, S
<1>10. Cardinality(InFront(x)) = i - 1
  BY <1>7, <1>8, <1>9
<1>11. (i - 1) + 1 = i
  BY <1>1
<1> QED
  BY <1>7, <1>10, <1>11 DEF s, n

LEMMA MysqlPlace ==
  ASSUME TableInv, store # "memory", NEW x \in DOMAIN rows
  PROVE  LET all == Newest(DOMAIN rows, Created) IN
         /\ Cardinality(InFront(x)) + 1 \in 1..Len(all) /\ Len(all) = Cardinality(DOMAIN rows)
         /\ x = all[Cardinality(InFront(x)) + 1]
<1> DEFINE S == DOMAIN rows
           R == Newer(S, Created)
           c == Cardinality(Before(S, R, x))
<1>1. IsFiniteSet(S) /\ StrictTotal(R, S)
  BY NewerIsTotal
<1>2. c = Cardinality(InFront(x))
  BY DEF InFront
<1>3. Newest(S, Created) = Enumerate(S, R)
  BY DEF Newest
<1> HIDE DEF S, R
<1>4. x \in S
  BY DEF S
<1>5. c + 1 \in 1..Cardinality(S) /\ x = Enumerate(S, R)[c + 1]
  BY <1>1, <1>4, EnumerateFacts
<1>6. Len(Enumerate(S, R)) = Cardinality(S)
  BY <1>1, EnumerateOnce
<1> QED
  BY <1>2, <1>3, <1>5, <1>6 DEF S

LEMMA WriteKeepsAdmin ==
  ASSUME TableInv, ReaderTypeOK, AdminInv, WriteStep
  PROVE  AdminInv'
<1>1. /\ TableInv' /\ RowsStep /\ UNCHANGED <<view, present>> /\ view.step # "done"
      /\ disturbed' = (disturbed \/ (view.step # "idle" /\ Disturbs))
  BY WriteKeeps DEF WriteStep
<1>2. UNCHANGED <<store, reader>> /\ SameOrder
  BY <1>1 DEF RowsStep
<1>3. Shown' = Shown
  BY <1>1 DEF Shown
<1> SUFFICES ASSUME reader = "admin", view.step \in {"page", "select"}, ~disturbed'
             PROVE  /\ present \subseteq DOMAIN rows'
                    /\ view.step = "select" => store = "mysql" /\ view.total = Cardinality(DOMAIN rows')
                    /\ \A x \in present : x \in Shown \/ view.cursor <= Cardinality(InFront(x)')
  BY <1>1, <1>2, <1>3 DEF AdminInv
<1>4. /\ ~disturbed /\ DOMAIN rows \subseteq DOMAIN rows'
      /\ view.step = "select" => DOMAIN rows' = DOMAIN rows
  BY <1>1 DEF Disturbs
<1>5. /\ present \subseteq DOMAIN rows
      /\ view.step = "select" => store = "mysql" /\ view.total = Cardinality(DOMAIN rows)
      /\ \A x \in present : x \in Shown \/ view.cursor <= Cardinality(InFront(x))
  BY <1>4 DEF AdminInv
<1>6. ASSUME NEW x \in DOMAIN rows
      PROVE  InFront(x) \subseteq InFront(x)'
  <2>1. CASE store = "memory"
    <3> SUFFICES ASSUME NEW y \in DOMAIN rows, Older(x, y)
                 PROVE  y \in DOMAIN rows' /\ Older(x, y)'
      BY <1>2, <2>1 DEF InFront
    <3> QED
      BY <1>2, <1>4 DEF SameOrder
  <2>2. CASE store # "memory"
    <3>1. \A y \in DOMAIN rows : rows'[y].created = rows[y].created
      BY <1>1, <1>4 DEF RowsStep, SameResult
    <3> QED
      BY <1>2, <1>4, <2>2, <3>1 DEF InFront, Before, Newer, Created
  <2> QED
    BY <2>1, <2>2
<1>7. ASSUME NEW x \in present, view.cursor <= Cardinality(InFront(x)), view.cursor \in Int
      PROVE  view.cursor <= Cardinality(InFront(x)')
  <2> DEFINE A == InFront(x)
             B == InFront(x)'
  <2>1. IsFiniteSet(B) /\ Cardinality(B) \in Nat
    <3>1. IsFiniteSet(DOMAIN rows')
      BY <1>1, ListCounts DEF TableInv, InOrder
    <3>2. B \in SUBSET DOMAIN rows'
      BY DEF InFront, Before
    <3> HIDE DEF B
    <3> QED
      BY <3>1, <3>2, FS_Subset, FS_CardinalityType
  <2>2. A \in SUBSET B /\ Cardinality(A) \in Nat
    BY <1>5, <1>6, InFrontType
  <2> HIDE DEF A, B
  <2>3. Cardinality(A) <= Cardinality(B)
    BY <2>1, <2>2, FS_Subset
  <2> QED
    BY <1>7, <2>1, <2>2, <2>3 DEF A, B
<1>8. view.cursor \in Int
  BY DEF ReaderTypeOK, View
<1> QED
  BY <1>4, <1>5, <1>7, <1>8

-----------------------------------------------------------------------------

\* A page has been shown: what it leaves out is further behind than it reaches, and the page
\* is not the last one if there is such a job.
LEMMA ShowRowsKeeps ==
  ASSUME TableInv, ReaderTypeOK, AdminInv, reader = "admin", view.step \in {"page", "select"}, ~disturbed,
         UNCHANGED <<store, reader, rows, order, present, disturbed>>,
         NEW jobs \in Seq(Jobs), ShowRows(jobs, Cardinality(DOMAIN rows)),
         \A x \in DOMAIN rows :
           /\ Cardinality(InFront(x)) < Cardinality(DOMAIN rows)
           /\ view.cursor <= Cardinality(InFront(x)) =>
                x \in Range(jobs) \/ view.cursor + Limit <= Cardinality(InFront(x))
  PROVE  AdminInv'
<1> DEFINE n == Cardinality(DOMAIN rows)
<1>1. /\ view'.shown = view.shown \o jobs
      /\ view.cursor + Limit < n => view'.step = "page" /\ view'.cursor = view.cursor + Limit
      /\ ~(view.cursor + Limit < n) => view'.step = "done"
  BY ShowRowsView DEF ReaderTypeOK
<1>2. present \subseteq DOMAIN rows /\ \A x \in present : x \in Shown \/ view.cursor <= Cardinality(InFront(x))
  BY DEF AdminInv
<1>3. Shown' = Shown \cup Range(jobs)
  <2>1. view.shown \in Seq(Jobs)
    BY DEF ReaderTypeOK, View
  <2> QED
    BY <1>1, <2>1, ConcatFacts DEF Shown
<1>4. \A x : InFront(x)' = InFront(x)
  BY DEF InFront, Before, Newer, Created, Older
<1>5. n \in Nat /\ view.cursor \in Nat /\ Limit \in Nat /\ \A x \in present : Cardinality(InFront(x)) \in Nat
  BY OrderCounts, FS_CardinalityType, InFrontType, Bounds DEF ReaderTypeOK, View
<1>6. ASSUME NEW x \in present, x \notin Shown'
      PROVE  view.cursor + Limit <= Cardinality(InFront(x)) /\ view.cursor + Limit < n
  <2>1. /\ view.cursor + Limit <= Cardinality(InFront(x))
        /\ Cardinality(InFront(x)) < n
    BY <1>2, <1>3, <1>6
  <2> QED
    BY <1>5, <2>1
<1> HIDE DEF n
<1>7. view'.step # "idle" /\ view'.step # "select"
  BY <1>1
<1>8. CASE view.cursor + Limit < n
  BY <1>1, <1>2, <1>4, <1>6, <1>7, <1>8 DEF AdminInv
<1>9. CASE ~(view.cursor + Limit < n)
  BY <1>1, <1>6, <1>9 DEF AdminInv
<1> QED
  BY <1>8, <1>9

LEMMA AdminStartKeeps ==
  ASSUME TableInv, ReaderTypeOK, AdminInv, AdminStart
  PROVE  AdminInv'
<1>1. /\ reader = "admin" /\ view.step = "idle" /\ view' = [view EXCEPT !.step = "page"]
      /\ present' = DOMAIN rows /\ view \in View /\ UNCHANGED <<store, reader, rows, order>>
  BY DEF AdminStart, ReaderTypeOK, ReadOnly, table
<1>2. view'.step = "page" /\ view'.cursor = 0
  BY <1>1 DEF AdminInv, View
<1>3. \A x : InFront(x)' = InFront(x)
  BY <1>1 DEF InFront, Before, Newer, Created, Older
<1>4. \A x : 0 <= Cardinality(InFront(x))
  <2>1. \A x : Cardinality(InFront(x)) \in Nat
    BY InFrontType
  <2> QED
    BY <2>1
<1> QED
  BY <1>1, <1>2, <1>3, <1>4 DEF AdminInv

LEMMA AdminListKeeps ==
  ASSUME TableInv, ReaderTypeOK, AdminInv, AdminList
  PROVE  AdminInv'
<1> DEFINE jobs == MemoryRows(view.cursor)
<1>1. /\ reader = "admin" /\ view.step = "page" /\ store = "memory" /\ ShowRows(jobs, Len(order))
      /\ UNCHANGED <<store, reader, rows, order, present, disturbed>>
  BY DEF AdminList, ReadOnly, table, ShowRows
<1>2. view.cursor \in Nat /\ Limit \in Nat
  BY Bounds DEF ReaderTypeOK, View
<1>3. /\ jobs \in Seq(Jobs)
      /\ \A i \in 1..Len(order) : view.cursor < i /\ i <= view.cursor + Limit => Reverse(order)[i] \in Range(jobs)
  BY <1>2, MemoryRowsFacts
<1>4. Len(order) = Cardinality(DOMAIN rows) /\ Len(order) \in Nat
  BY OrderCounts, OrderFacts
<1> HIDE DEF jobs
<1>5. ASSUME NEW x \in DOMAIN rows
      PROVE  /\ Cardinality(InFront(x)) < Cardinality(DOMAIN rows)
             /\ view.cursor <= Cardinality(InFront(x)) =>
                  x \in Range(jobs) \/ view.cursor + Limit <= Cardinality(InFront(x))
  <2> DEFINE c == Cardinality(InFront(x))
  <2>1. c \in Nat /\ c + 1 \in 1..Len(order) /\ x = Reverse(order)[c + 1]
    BY <1>1, MemoryPlace, InFrontType
  <2> HIDE DEF c
  <2>2. c < Cardinality(DOMAIN rows)
    BY <1>4, <2>1
  <2>3. view.cursor <= c /\ ~(view.cursor + Limit <= c) => view.cursor < c + 1 /\ c + 1 <= view.cursor + Limit
    BY <1>2, <2>1
  <2>4. view.cursor <= c => x \in Range(jobs) \/ view.cursor + Limit <= c
    BY <1>3, <2>1, <2>3
  <2> QED
    BY <2>2, <2>4 DEF c
<1>6. CASE disturbed
  BY <1>1, <1>3, <1>6, ShowRowsView DEF AdminInv, ReaderTypeOK
<1>7. CASE ~disturbed
  BY <1>1, <1>3, <1>4, <1>5, <1>7, ShowRowsKeeps
<1> QED
  BY <1>6, <1>7

\* Nothing is claimed after a query has failed.
LEMMA DisturbedAdmin ==
  ASSUME disturbed', view'.step # "idle"
  PROVE  AdminInv'
BY DEF AdminInv

LEMMA AdminCountKeeps ==
  ASSUME TableInv, ReaderTypeOK, AdminInv, AdminCount
  PROVE  AdminInv'
<1>1. /\ reader = "admin" /\ view.step = "page" /\ store = "mysql" /\ view \in View
      /\ UNCHANGED <<store, reader, rows, order, present>>
  BY DEF AdminCount, ReadOnly, table, ShowRows, ReaderTypeOK
<1>2. CASE view' = [view EXCEPT !.step = "select", !.total = Cardinality(DOMAIN rows)] /\ UNCHANGED disturbed
  <2> DEFINE n == Cardinality(DOMAIN rows)
  <2>1. view'.step = "select" /\ view'.total = n /\ view'.cursor = view.cursor /\ view'.shown = view.shown
    <3> HIDE DEF n
    <3>1. view' = [view EXCEPT !.step = "select", !.total = n]
      BY <1>2 DEF n
    <3> QED
      BY <1>1, <3>1 DEF View
  <2>2. \A x : InFront(x)' = InFront(x)
    BY <1>1 DEF InFront, Before, Newer, Created, Older
  <2>3. Shown' = Shown
    BY <2>1 DEF Shown
  <2> HIDE DEF n
  <2>4. n = Cardinality(DOMAIN rows)
    BY DEF n
  <2> QED
    BY <1>1, <1>2, <2>1, <2>2, <2>3, <2>4 DEF AdminInv
<1>3. CASE ShowRows(<< >>, 0) /\ disturbed' = TRUE
  <2>1. view'.step \in {"page", "done"}
    BY <1>3 DEF ShowRows, ReaderTypeOK, View
  <2> QED
    BY <1>3, <2>1, DisturbedAdmin
<1> QED
  BY <1>2, <1>3 DEF AdminCount

LEMMA AdminSelectKeeps ==
  ASSUME TableInv, ReaderTypeOK, AdminInv, AdminSelect
  PROVE  AdminInv'
<1>1. /\ reader = "admin" /\ view.step = "select" /\ view \in View
      /\ UNCHANGED <<store, reader, rows, order, present>>
  BY DEF AdminSelect, ReadOnly, table, ShowRows, ReaderTypeOK
<1>2. ASSUME NEW jobs, ShowRows(jobs, view.total), disturbed'
      PROVE  AdminInv'
  <2>1. view'.step \in {"page", "done"}
    BY <1>1, <1>2 DEF ShowRows, View
  <2> QED
    BY <1>2, <2>1, DisturbedAdmin
<1>3. CASE ShowRows(MysqlRows(view.cursor), view.total) /\ UNCHANGED disturbed /\ ~disturbed
  <2> DEFINE jobs == MysqlRows(view.cursor)
             all == Newest(DOMAIN rows, Created)
  <2>1. store # "memory" /\ view.total = Cardinality(DOMAIN rows)
    BY <1>1, <1>3 DEF AdminInv
  <2>2. view.cursor \in Nat /\ Limit \in Nat
    BY <1>1, Bounds DEF View
  <2>3. /\ jobs \in Seq(Jobs) /\ all \in Seq(Jobs)
        /\ jobs = SubSeq(all, view.cursor + 1, Min({view.cursor + Limit, Len(all)}))
    BY <2>2, MysqlRowsFacts
  <2>4. ASSUME NEW x \in DOMAIN rows
        PROVE  /\ Cardinality(InFront(x)) < Cardinality(DOMAIN rows)
               /\ view.cursor <= Cardinality(InFront(x)) =>
                    x \in Range(jobs) \/ view.cursor + Limit <= Cardinality(InFront(x))
    <3> DEFINE c == Cardinality(InFront(x))
               n == Cardinality(DOMAIN rows)
    <3>1. c + 1 \in 1..Len(all) /\ Len(all) = n /\ x = all[c + 1]
      BY <2>1, MysqlPlace
    <3>2. c \in Nat /\ n \in Nat
      BY InFrontType, OrderCounts, FS_CardinalityType
    <3> HIDE DEF c, n, jobs, all
    <3>3. c < n
      BY <3>1, <3>2
    <3>4. ASSUME view.cursor <= c, x \notin Range(jobs)
          PROVE  view.cursor + Limit <= c
      <4>1. view.cursor < c + 1
        BY <2>2, <3>2, <3>4
      <4>2. all[c + 1] \notin Range(SubSeq(all, view.cursor + 1, Min({view.cursor + Limit, Len(all)})))
        BY <2>3, <3>1, <3>4
      <4>3. view.cursor + Limit < c + 1
        BY <2>2, <2>3, <3>1, <4>1, <4>2, PageMisses
      <4> QED
        BY <2>2, <3>2, <4>3
    <3> QED
      BY <3>3, <3>4 DEF c, n
  <2> HIDE DEF jobs, all
  <2>5. ShowRows(jobs, Cardinality(DOMAIN rows))
    BY <1>3, <2>1 DEF jobs
  <2> QED
    BY <1>1, <1>3, <2>3, <2>4, <2>5, ShowRowsKeeps
<1> QED
  BY <1>2, <1>3 DEF AdminSelect

LEMMA AdminStep ==
  ASSUME TableInv, ReaderTypeOK, AdminInv, [Next]_vars
  PROVE  AdminInv'
<1>1. UNCHANGED reader
  BY TableStep DEF RowsStep
<1>2. CASE reader # "admin"
  BY <1>1, <1>2 DEF AdminInv
<1>3. CASE WriteStep
  BY <1>3, WriteKeepsAdmin
<1>4. CASE AdminStart \/ AdminList \/ AdminCount \/ AdminSelect
  BY <1>4, AdminStartKeeps, AdminListKeeps, AdminCountKeeps, AdminSelectKeeps
<1>5. CASE UNCHANGED vars
  <2>1. UNCHANGED <<store, reader, rows, order, view, present, disturbed>>
    BY <1>5 DEF vars, tableVars, table
  <2>2. \A x : InFront(x)' = InFront(x)
    BY <2>1 DEF InFront, Before, Newer, Created, Older
  <2> QED
    BY <2>1, <2>2 DEF AdminInv, Shown
<1>6. CASE \/ BrowseStart \/ List \/ StatsStart \/ MemoryStats \/ MysqlTotals \/ MysqlBreakdown
           \/ SeriesStart \/ MemoryBucket \/ MysqlSeries
  <2>1. reader # "admin"
    BY <1>6 DEF BrowseStart, List, StatsStart, MemoryStats, MysqlTotals, MysqlBreakdown, SeriesStart,
         MemoryBucket, MysqlSeries
  <2> QED
    BY <1>2, <2>1
<1> QED
  BY <1>3, <1>4, <1>5, <1>6 DEF Next

\* Memory.AdminList and MySQL.AdminList, page by page, leave out a job that is there all the
\* while only if one was evicted meanwhile, one came between a page's total and its rows, or
\* a query failed.
THEOREM AdminBrowseIsComplete == Spec => []AdminBrowseComplete
<1>1. Init => AdminInv
  BY DEF Init, AdminInv
<1>2. Spec => []AdminInv
  BY <1>1, AdminStep, ReaderAlways, PTL DEF Spec
<1>3. AdminInv => AdminBrowseComplete
  BY DEF AdminInv, AdminBrowseComplete, Done, Shown
<1> QED
  BY <1>2, <1>3, PTL

-----------------------------------------------------------------------------

-----------------------------------------------------------------------------
(* The time series.  The buckets so far lie before the cursor, and hold the  *)
(* jobs of the window that ended in them; what has not been counted ended    *)
(* behind the cursor.                                                        *)

Start(i) == answer.buckets[i].start
In(i) == answer.buckets[i].jobs
Buckets == DOMAIN answer.buckets
Inside(id) ==
  /\ id \in DOMAIN rows /\ Settled(id)
  /\ view.window[1] <= rows[id].finished /\ rows[id].finished < view.window[2]
OfModels(id) == view.models = {} \/ rows[id].group[1] \in view.models

SoFar ==
  /\ \A i \in Buckets :
       /\ Start(i) + Bucket <= view.cursor /\ In(i) \subseteq used
       /\ \A id \in In(i) : id \in DOMAIN rows =>
            Inside(id) /\ Start(i) <= rows[id].finished /\ rows[id].finished < Start(i) + Bucket
  /\ \A i, j \in Buckets : i # j => In(i) \cap In(j) = {}
  /\ ~disturbed => \A id \in present :
       /\ Inside(id) /\ OfModels(id)
       /\ rows[id].finished >= view.cursor \/ \E i \in Buckets : id \in In(i)

SeriesInv ==
  reader = "series" =>
    /\ view.step = "idle" => answer.buckets = << >>
    /\ view.step = "bucket" /\ store = "mysql" => answer.buckets = << >>
    /\ view.step = "bucket" => SoFar
    /\ SeriesCountsOnce

LEMMA FinishedType ==
  ASSUME TableInv, NEW id \in DOMAIN rows
  PROVE  rows[id].finished \in Int
<1>1. rows[id].finished \in Time \cup {Null}
  BY DEF TableInv, Rows, Row
<1>2. Null \in Int /\ \A t \in Time : t \in Int
  BY TimeIsNat DEF Null
<1> HIDE DEF Null
<1> QED
  BY <1>1, <1>2

LEMMA BucketsType ==
  ASSUME ReaderTypeOK
  PROVE  /\ answer.buckets \in Seq(BucketRow) /\ Len(answer.buckets) \in Nat /\ Buckets = 1..Len(answer.buckets)
         /\ \A i \in Buckets : Start(i) \in Nat /\ In(i) \subseteq Jobs
<1>1. answer.buckets \in Seq(BucketRow)
  BY DEF ReaderTypeOK
<1>2. Len(answer.buckets) \in Nat /\ Buckets = 1..Len(answer.buckets)
  BY <1>1 DEF Buckets
<1>3. \A i \in Buckets : answer.buckets[i] \in BucketRow
  BY <1>1 DEF Buckets
<1> QED
  BY <1>1, <1>2, <1>3 DEF BucketRow, Start, In

LEMMA WriteKeepsSeries ==
  ASSUME TableInv, SeriesInv, WriteStep
  PROVE  SeriesInv'
<1>1. /\ RowsStep /\ UNCHANGED <<view, answer, present>> /\ view.step # "done"
      /\ disturbed' = (disturbed \/ (view.step # "idle" /\ Disturbs))
  BY WriteKeeps DEF WriteStep
<1>2. UNCHANGED <<store, reader>> /\ NewIds
  BY <1>1 DEF RowsStep
<1>3. SeriesCountsOnce'
  BY <1>1 DEF SeriesCountsOnce, Done
<1>4. ASSUME NEW id \in DOMAIN rows, id \in DOMAIN rows', Settled(id)
      PROVE  Settled(id)' /\ rows'[id].finished = rows[id].finished /\ rows'[id].group = rows[id].group
  BY <1>1, <1>4 DEF RowsStep, SameResult, Settled
<1>5. ASSUME NEW id, Inside(id), id \in DOMAIN rows'
      PROVE  Inside(id)' /\ rows'[id].finished = rows[id].finished /\ (OfModels(id) => OfModels(id)')
  BY <1>1, <1>4, <1>5 DEF Inside, OfModels
<1> SUFFICES ASSUME reader = "series", view.step = "bucket"
             PROVE  SoFar'
  BY <1>1, <1>2, <1>3 DEF SeriesInv
<1>6. SoFar
  BY DEF SeriesInv
<1>7. ASSUME NEW i \in Buckets
      PROVE  /\ Start(i) + Bucket <= view.cursor /\ In(i) \subseteq used'
             /\ \A id \in In(i) : id \in DOMAIN rows' =>
                  Inside(id)' /\ Start(i) <= rows'[id].finished /\ rows'[id].finished < Start(i) + Bucket
  <2>1. Start(i) + Bucket <= view.cursor /\ In(i) \subseteq used /\ In(i) \subseteq used'
    BY <1>2, <1>6 DEF SoFar, NewIds
  <2>2. ASSUME NEW id \in In(i), id \in DOMAIN rows'
        PROVE  Inside(id)' /\ Start(i) <= rows'[id].finished /\ rows'[id].finished < Start(i) + Bucket
    <3>1. id \in DOMAIN rows
      BY <1>2, <2>1, <2>2 DEF NewIds
    <3>2. Inside(id) /\ Start(i) <= rows[id].finished /\ rows[id].finished < Start(i) + Bucket
      BY <1>6, <2>2, <3>1 DEF SoFar
    <3> QED
      BY <1>5, <2>2, <3>2
  <2> QED
    BY <2>1, <2>2
<1>8. ASSUME ~disturbed', NEW id \in present
      PROVE  /\ Inside(id)' /\ OfModels(id)'
             /\ rows'[id].finished >= view.cursor \/ \E i \in Buckets : id \in In(i)
  <2>1. /\ Inside(id) /\ OfModels(id)
        /\ rows[id].finished >= view.cursor \/ \E i \in Buckets : id \in In(i)
    BY <1>1, <1>6, <1>8 DEF SoFar
  <2>2. id \in DOMAIN rows'
    BY <1>1, <1>8, <2>1 DEF Disturbs, Inside
  <2> QED
    BY <1>5, <2>1, <2>2
<1>9. Buckets' = Buckets /\ \A i : Start(i)' = Start(i) /\ In(i)' = In(i)
  BY <1>1 DEF Buckets, Start, In
<1> QED
  BY <1>1, <1>6, <1>7, <1>8, <1>9 DEF SoFar

LEMMA SeriesStartKeeps ==
  ASSUME TableInv, ReaderTypeOK, SeriesInv, SeriesStart
  PROVE  SeriesInv'
<1>1. PICK w \in Windows, M \in SUBSET Models :
        /\ view' = [view EXCEPT !.step = "bucket", !.window = w, !.models = M, !.cursor = WallStart(w[1])]
        /\ present' = {id \in DOMAIN rows : /\ Settled(id)
                                            /\ w[1] <= rows[id].finished /\ rows[id].finished < w[2]
                                            /\ M = {} \/ rows[id].group[1] \in M}
  BY DEF SeriesStart
<1>2. /\ UNCHANGED <<store, reader, rows, used, answer>> /\ reader = "series" /\ answer.buckets = << >>
  BY DEF SeriesStart, ReadOnly, table, SeriesInv
<1>3. /\ view'.step = "bucket" /\ view'.window = w /\ view'.models = M /\ view'.cursor = WallStart(w[1])
  BY <1>1, SeriesStartView DEF ReaderTypeOK
<1>4. Buckets' = {}
  BY <1>2 DEF Buckets
<1>5. ASSUME NEW id \in present'
      PROVE  Inside(id)' /\ OfModels(id)' /\ rows'[id].finished >= view'.cursor
  <2>1. /\ id \in DOMAIN rows /\ Settled(id) /\ w[1] <= rows[id].finished /\ rows[id].finished < w[2]
        /\ M = {} \/ rows[id].group[1] \in M
    BY <1>1
  <2>2. WallStart(w[1]) <= w[1] /\ WallStart(w[1]) \in Nat /\ w[1] \in Nat /\ rows[id].finished \in Int
    BY <2>1, WindowType, WallFacts, FinishedType
  <2>3. rows[id].finished >= WallStart(w[1])
    BY <2>1, <2>2
  <2> QED
    BY <1>2, <1>3, <2>1, <2>3 DEF Inside, OfModels, Settled
<1>6. SoFar'
  BY <1>4, <1>5 DEF SoFar
<1>7. SeriesCountsOnce'
  BY <1>3 DEF SeriesCountsOnce, Done
<1> QED
  BY <1>2, <1>3, <1>6, <1>7 DEF SeriesInv

LEMMA MemoryBucketKeeps ==
  ASSUME TableInv, ReaderTypeOK, SeriesInv, MemoryBucket
  PROVE  SeriesInv'
<1>1. /\ UNCHANGED <<store, reader, rows, used, present, disturbed>> /\ reader = "series" /\ store = "memory"
      /\ view.step = "bucket" /\ view \in View /\ SoFar
      /\ answer \in [first : Counted(First), second : Counted(Second), buckets : Seq(BucketRow)]
  BY DEF MemoryBucket, ReadOnly, table, ReaderTypeOK, SeriesInv
<1>2. /\ view.cursor \in Nat /\ view.window[1] \in Nat /\ view.window[2] \in Nat /\ Bucket \in Nat \ {0}
      /\ answer.buckets \in Seq(BucketRow) /\ Len(answer.buckets) \in Nat /\ Buckets = 1..Len(answer.buckets)
      /\ \A i \in Buckets : Start(i) \in Nat
  BY <1>1, WindowType, BucketsType, Bounds DEF View
<1>3. CASE view.cursor < view.window[2]
  <2> DEFINE since == Clip(view.cursor).since
             until == Clip(view.cursor).until
             jobs == Series(since, until)
             row == [start |-> view.cursor, jobs |-> jobs]
  <2> PICK n \in Nat : n = Len(answer.buckets)
    BY <1>2
  <2>1. /\ answer' = [answer EXCEPT !.buckets = Append(@, row)]
        /\ view' = [view EXCEPT !.cursor = @ + Bucket]
    BY <1>3 DEF MemoryBucket
  <2>2. /\ since = Later(view.window[1], view.cursor) /\ until = Earlier(view.window[2], view.cursor + Bucket)
        /\ since \in Nat /\ until \in Nat
    BY <1>2 DEF Clip, Later, Earlier
  <2>3. \A t \in Int : since <= t /\ t < until <=>
          /\ view.window[1] <= t /\ t < view.window[2]
          /\ view.cursor <= t /\ t < view.cursor + Bucket
    <3> HIDE DEF since, until
    <3>1. since = IF view.window[1] >= view.cursor THEN view.window[1] ELSE view.cursor
      BY <1>2, <2>2 DEF Later
    <3>2. until = IF view.window[2] <= view.cursor + Bucket THEN view.window[2] ELSE view.cursor + Bucket
      BY <1>2, <2>2 DEF Earlier
    <3> QED
      BY <1>2, <3>1, <3>2
  <2>4. \A id \in DOMAIN rows : id \in jobs <=>
          /\ Inside(id) /\ OfModels(id)
          /\ view.cursor <= rows[id].finished /\ rows[id].finished < view.cursor + Bucket
    <3> SUFFICES ASSUME NEW id \in DOMAIN rows
                 PROVE  id \in jobs <=>
                          /\ Inside(id) /\ OfModels(id)
                          /\ view.cursor <= rows[id].finished /\ rows[id].finished < view.cursor + Bucket
      OBVIOUS
    <3> HIDE DEF since, until
    <3>1. since <= rows[id].finished /\ rows[id].finished < until <=>
            /\ view.window[1] <= rows[id].finished /\ rows[id].finished < view.window[2]
            /\ view.cursor <= rows[id].finished /\ rows[id].finished < view.cursor + Bucket
      BY <2>3, FinishedType
    <3> QED
      BY <3>1 DEF Series, Finished, InWindow, Inside, OfModels
  <2>5. jobs \subseteq DOMAIN rows /\ jobs \subseteq used
    BY SeriesIsOfJobs DEF TableInv, Rows
  <2>6. row.start = view.cursor /\ row.jobs = jobs /\ row \in BucketRow
    BY <1>2, SeriesIsOfJobs DEF BucketRow
  <2> HIDE DEF row, jobs, since, until
  <2>7. /\ view'.cursor = view.cursor + Bucket /\ view'.step = "bucket"
        /\ view'.window = view.window /\ view'.models = view.models
    BY <1>1, <2>1 DEF View
  <2>8. answer'.buckets = Append(answer.buckets, row)
    BY <1>1, <2>1
  <2>9. /\ Buckets' = 1..n + 1 /\ n + 1 \notin Buckets
        /\ \A i \in Buckets : i \in Buckets' /\ answer'.buckets[i] = answer.buckets[i]
        /\ answer'.buckets[n + 1] = row
        /\ \A i \in Buckets' : i \in Buckets \/ i = n + 1
    BY <1>2, <2>6, <2>8 DEF Buckets
  <2>10. /\ \A i \in Buckets : Start(i)' = Start(i) /\ In(i)' = In(i)
         /\ Start(n + 1)' = view.cursor /\ In(n + 1)' = jobs
    BY <2>6, <2>9 DEF Start, In
  <2>11. \A id : Inside(id)' = Inside(id) /\ OfModels(id)' = OfModels(id)
    BY <1>1, <2>7 DEF Inside, OfModels, Settled
  <2>12. ASSUME NEW i \in Buckets'
         PROVE  /\ Start(i)' + Bucket <= view'.cursor /\ (In(i)') \subseteq used
                /\ \A id \in In(i)' : id \in DOMAIN rows =>
                     Inside(id) /\ Start(i)' <= rows[id].finished /\ rows[id].finished < Start(i)' + Bucket
    <3>1. CASE i \in Buckets
      <4>1. /\ Start(i) + Bucket <= view.cursor /\ In(i) \subseteq used
            /\ \A id \in In(i) : id \in DOMAIN rows =>
                 Inside(id) /\ Start(i) <= rows[id].finished /\ rows[id].finished < Start(i) + Bucket
        BY <1>1, <3>1 DEF SoFar
      <4>2. Start(i) + Bucket <= view'.cursor
        BY <1>2, <2>7, <3>1, <4>1
      <4> QED
        BY <2>10, <3>1, <4>1, <4>2
    <3>2. CASE i = n + 1
      <4>1. Start(i)' + Bucket <= view'.cursor
        BY <1>2, <2>7, <2>10, <3>2
      <4> QED
        BY <2>4, <2>5, <2>10, <3>2, <4>1
    <3> QED
      BY <2>9, <3>1, <3>2
  <2>13. ASSUME NEW i \in Buckets, NEW id \in In(i), id \in jobs
         PROVE  FALSE
    <3>1. id \in DOMAIN rows /\ rows[id].finished \in Int /\ Start(i) \in Nat
      BY <1>2, <2>5, <2>13, FinishedType
    <3>2. Start(i) + Bucket <= view.cursor /\ rows[id].finished < Start(i) + Bucket
      BY <1>1, <3>1 DEF SoFar
    <3>3. view.cursor <= rows[id].finished
      BY <2>4, <2>13, <3>1
    <3> QED
      BY <1>2, <3>1, <3>2, <3>3
  <2>14. \A i, j \in Buckets' : i # j => (In(i)') \cap (In(j)') = {}
    <3> SUFFICES ASSUME NEW i \in Buckets', NEW j \in Buckets', i # j
                 PROVE  (In(i)') \cap (In(j)') = {}
      OBVIOUS
    <3>1. CASE i \in Buckets /\ j \in Buckets
      BY <1>1, <2>10, <3>1 DEF SoFar
    <3>2. CASE i \in Buckets /\ j = n + 1
      BY <2>10, <2>13, <3>2
    <3>3. CASE i = n + 1 /\ j \in Buckets
      BY <2>10, <2>13, <3>3
    <3> QED
      BY <2>9, <3>1, <3>2, <3>3
  <2>15. ASSUME ~disturbed, NEW id \in present
         PROVE  /\ Inside(id) /\ OfModels(id)
                /\ rows[id].finished >= view'.cursor \/ \E i \in Buckets' : id \in In(i)'
    <3>1. /\ Inside(id) /\ OfModels(id)
          /\ rows[id].finished >= view.cursor \/ \E i \in Buckets : id \in In(i)
      BY <1>1, <2>15 DEF SoFar
    <3>2. CASE \E i \in Buckets : id \in In(i)
      BY <2>9, <2>10, <3>1, <3>2
    <3>3. CASE rows[id].finished >= view.cursor
      <4>1. id \in DOMAIN rows /\ rows[id].finished \in Int
        BY <3>1, FinishedType DEF Inside
      <4>2. rows[id].finished >= view'.cursor \/ id \in jobs
        BY <1>2, <2>4, <2>7, <3>1, <3>3, <4>1
      <4>3. id \in jobs => \E i \in Buckets' : id \in In(i)'
        BY <1>2, <2>9, <2>10
      <4> QED
        BY <3>1, <4>2, <4>3
    <3> QED
      BY <3>1, <3>2, <3>3
  <2>16. SoFar'
    BY <1>1, <2>11, <2>12, <2>14, <2>15 DEF SoFar
  <2>17. SeriesCountsOnce'
    BY <2>7 DEF SeriesCountsOnce, Done
  <2> QED
    BY <1>1, <2>7, <2>16, <2>17 DEF SeriesInv
<1>4. CASE ~(view.cursor < view.window[2])
  <2>1. UNCHANGED answer /\ view'.step = "done" /\ view'.window = view.window
    BY <1>1, <1>4, FinishView DEF MemoryBucket
  <2>2. ASSUME ~disturbed, NEW id \in present
        PROVE  \E i \in Buckets : id \in In(i)
    <3>1. /\ id \in DOMAIN rows /\ rows[id].finished < view.window[2]
          /\ rows[id].finished >= view.cursor \/ \E i \in Buckets : id \in In(i)
      BY <1>1, <2>2 DEF SoFar, Inside
    <3>2. ~(rows[id].finished >= view.cursor)
      BY <1>2, <1>4, <3>1, FinishedType
    <3> QED
      BY <3>1, <3>2
  <2>3. ASSUME NEW i \in Buckets, NEW id \in DOMAIN rows, id \in In(i)
        PROVE  /\ rows[id].finished + 0 \in Start(i)..(Start(i) + Bucket - 1)
               /\ view.window[1] <= rows[id].finished /\ rows[id].finished < view.window[2]
    <3>1. Inside(id) /\ Start(i) <= rows[id].finished /\ rows[id].finished < Start(i) + Bucket
      BY <1>1, <2>3 DEF SoFar
    <3>2. rows[id].finished \in Int /\ Start(i) \in Nat
      BY <1>2, FinishedType
    <3> QED
      BY <1>2, <3>1, <3>2 DEF Inside
  <2>4. \A i, j \in Buckets : i # j => In(i) \cap In(j) = {}
    BY <1>1 DEF SoFar
  <2>5. SeriesCountsOnce'
    BY <1>1, <2>1, <2>2, <2>3, <2>4 DEF SeriesCountsOnce, Buckets, In, Start
  <2> QED
    BY <2>1, <2>5 DEF SeriesInv
<1> QED
  BY <1>3, <1>4

-----------------------------------------------------------------------------

LEMMA MysqlSeriesKeeps ==
  ASSUME TableInv, ReaderTypeOK, SeriesInv, MysqlSeries
  PROVE  SeriesInv'
<1> DEFINE S == Series(view.window[1], view.window[2])
<1>1. /\ UNCHANGED <<store, reader, rows, present>> /\ reader = "series" /\ store = "mysql"
      /\ view.step = "bucket" /\ view \in View /\ SoFar /\ answer.buckets = << >>
      /\ answer \in [first : Counted(First), second : Counted(Second), buckets : Seq(BucketRow)]
      /\ Finish
  BY DEF MysqlSeries, ReadOnly, table, ReaderTypeOK, SeriesInv
<1>2. view'.step = "done" /\ view'.window = view.window
  BY <1>1, FinishView
<1>3. view.window[1] \in Nat /\ Bucket \in Nat \ {0} /\ Zone \in Nat
  BY <1>1, WindowType, Bounds DEF View
<1>4. CASE answer' = [answer EXCEPT !.buckets = MysqlBuckets] /\ UNCHANGED disturbed
  <2>1. answer'.buckets = MysqlBuckets
    BY <1>1, <1>4
  <2>2. /\ DOMAIN MysqlBuckets = DOMAIN Starts
        /\ \A i \in DOMAIN Starts : /\ MysqlBuckets[i].start = Starts[i]
                                    /\ MysqlBuckets[i].jobs = {id \in S : WallOf(id) = Starts[i]}
    BY DEF MysqlBuckets
  <2>3. /\ \A id \in S : /\ WallOf(id) \in Nat /\ WallOf(id) <= rows[id].finished + Zone
                         /\ rows[id].finished + Zone < WallOf(id) + Bucket
                         /\ \E i \in DOMAIN Starts : Starts[i] = WallOf(id)
        /\ \A i, j \in DOMAIN Starts : Starts[i] = Starts[j] => i = j
    BY StartsFacts
  <2>4. Buckets' = DOMAIN Starts /\ \A i \in DOMAIN Starts :
          Start(i)' = Starts[i] /\ In(i)' = {id \in S : WallOf(id) = Starts[i]}
    BY <2>1, <2>2 DEF Buckets, Start, In
  <2>5. \A i, j \in Buckets' : i # j => (In(i)') \cap (In(j)') = {}
    BY <2>3, <2>4
  <2>6. ASSUME ~disturbed, NEW id \in present
        PROVE  \E i \in Buckets' : id \in In(i)'
    <3>1. Inside(id) /\ OfModels(id)
      BY <1>1, <2>6 DEF SoFar
    <3>2. id \in S
      BY <3>1 DEF Series, Finished, InWindow, Inside, OfModels
    <3> QED
      BY <2>3, <2>4, <3>2
  <2>7. ASSUME NEW i \in Buckets', NEW id \in DOMAIN rows, id \in In(i)'
        PROVE  /\ rows[id].finished + Zone \in Start(i)'..(Start(i)' + Bucket - 1)
               /\ view.window[1] <= rows[id].finished /\ rows[id].finished < view.window[2]
    <3>1. id \in S /\ WallOf(id) = Start(i)'
      BY <2>4, <2>7
    <3>2. /\ rows[id].finished \in Nat
          /\ view.window[1] <= rows[id].finished /\ rows[id].finished < view.window[2]
      BY <1>3, <3>1, SeriesFacts
    <3>3. /\ Start(i)' \in Nat /\ Start(i)' <= rows[id].finished + Zone
          /\ rows[id].finished + Zone < Start(i)' + Bucket
      BY <2>3, <3>1
    <3> QED
      BY <1>3, <3>2, <3>3
  <2>8. SeriesCountsOnce'
    BY <1>1, <1>2, <1>4, <2>5, <2>6, <2>7 DEF SeriesCountsOnce, Buckets, Start, In
  <2> QED
    BY <1>2, <2>8 DEF SeriesInv
<1>5. CASE disturbed' = TRUE /\ UNCHANGED answer
  <2>1. Buckets' = {}
    BY <1>1, <1>5 DEF Buckets
  <2>2. SeriesCountsOnce'
    BY <1>5, <2>1 DEF SeriesCountsOnce, Buckets
  <2> QED
    BY <1>2, <2>2 DEF SeriesInv
<1>6. \/ answer' = [answer EXCEPT !.buckets = MysqlBuckets] /\ UNCHANGED disturbed
      \/ disturbed' = TRUE /\ UNCHANGED answer
  BY DEF MysqlSeries, MysqlBuckets, Starts, Walls, WallOf
<1> QED
  BY <1>4, <1>5, <1>6

LEMMA SeriesStep ==
  ASSUME TableInv, ReaderTypeOK, SeriesInv, [Next]_vars
  PROVE  SeriesInv'
<1>1. UNCHANGED reader
  BY TableStep DEF RowsStep
<1>2. CASE reader # "series"
  BY <1>1, <1>2 DEF SeriesInv
<1>3. CASE WriteStep
  BY <1>3, WriteKeepsSeries
<1>4. CASE SeriesStart \/ MemoryBucket \/ MysqlSeries
  BY <1>4, SeriesStartKeeps, MemoryBucketKeeps, MysqlSeriesKeeps
<1>5. CASE UNCHANGED vars
  <2>1. UNCHANGED <<store, reader, rows, used, view, answer, present, disturbed>>
    BY <1>5 DEF vars, tableVars, table
  <2>2. SoFar' <=> SoFar
    BY <2>1 DEF SoFar, Buckets, Start, In, Inside, OfModels, Settled
  <2>3. SeriesCountsOnce' <=> SeriesCountsOnce
    BY <2>1 DEF SeriesCountsOnce, Done
  <2> QED
    BY <2>1, <2>2, <2>3 DEF SeriesInv
<1>6. CASE \/ BrowseStart \/ List \/ AdminStart \/ AdminList \/ AdminCount \/ AdminSelect
           \/ StatsStart \/ MemoryStats \/ MysqlTotals \/ MysqlBreakdown
  <2>1. reader # "series"
    BY <1>6 DEF BrowseStart, List, StatsStart, MemoryStats, MysqlTotals, MysqlBreakdown, AdminStart,
         AdminList, AdminCount, AdminSelect
  <2> QED
    BY <1>2, <2>1
<1> QED
  BY <1>3, <1>4, <1>5, <1>6 DEF Next

\* Every job that had finished in the window when the series was asked for is in one bucket,
\* the one of its end, and no job is in two: Memory.AdminModelSeries, which locks the table
\* for each bucket in turn, and MySQL's, which groups by the database's days or hours.
THEOREM SeriesIsComplete == Spec => []SeriesCountsOnce
<1>1. Init => SeriesInv
  <2> SUFFICES ASSUME Init PROVE SeriesInv
    OBVIOUS
  <2>1. view.step = "idle" /\ answer.buckets = << >>
    BY DEF Init, NoAnswer
  <2> QED
    BY <2>1 DEF SeriesInv, SeriesCountsOnce, Done
<1>2. Spec => []SeriesInv
  BY <1>1, SeriesStep, ReaderAlways, PTL DEF Spec
<1>3. SeriesInv => SeriesCountsOnce
  BY DEF SeriesInv, SeriesCountsOnce
<1> QED
  BY <1>2, <1>3, PTL
=============================================================================
