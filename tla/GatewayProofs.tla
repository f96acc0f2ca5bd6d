---------------------------- MODULE GatewayProofs ----------------------------
(***************************************************************************)
(* Proofs about Gateway: the rate limiter lets through no more than twice  *)
(* its limit in any span of a period, and a preview is whole unless two    *)
(* writers overlapped.                                                     *)
(***************************************************************************)
EXTENDS Gateway, FiniteSetTheorems, TLAPS

-----------------------------------------------------------------------------
(* The rate limiter.  Only two windows can meet a span of one period: the   *)
(* current one, and of the calls before it those of the period before its   *)
(* start, which belong to one window.                                       *)

Start == resetAt - Period
Current == {c \in allowed : Start <= c[2]}
Previous == {c \in allowed : Start - Period <= c[2] /\ c[2] < Start}
Span(t) == {c \in allowed : t <= c[2] /\ c[2] <= t + Period}

LimiterInv ==
  /\ LimiterTypeOK
  /\ count <= attempts
  /\ Start <= now
  /\ \A c \in allowed : c[2] <= resetAt
  /\ Cardinality(Current) <= MaxCalls /\ Cardinality(Current) <= count
  /\ Cardinality(Previous) <= MaxCalls
  /\ \A t \in 0..MaxTime : Cardinality(Span(t)) <= 2 * MaxCalls

\* The calls that were let through are finitely many, and so are those of any span.
LEMMA AllowedFinite ==
  ASSUME LimiterTypeOK
  PROVE  /\ IsFiniteSet(allowed)
         /\ \A S \in SUBSET allowed : IsFiniteSet(S) /\ Cardinality(S) \in Nat
<1>1. IsFiniteSet(1..MaxAttempts) /\ IsFiniteSet(0..MaxTime)
  BY FS_Interval, RateLimitAssumption
<1>2. IsFiniteSet((1..MaxAttempts) \X (0..MaxTime))
  BY <1>1, FS_Product
<1>3. IsFiniteSet(allowed)
  BY <1>2, FS_Subset DEF LimiterTypeOK
<1>4. \A S \in SUBSET allowed : IsFiniteSet(S)
  BY <1>3, FS_Subset
<1> QED
  BY <1>3, <1>4, FS_CardinalityType

\* One call more in a finite set is one more at most.
LEMMA OneMore ==
  ASSUME NEW S, NEW T, NEW x, IsFiniteSet(S), T \subseteq S \cup {x}
  PROVE  IsFiniteSet(T) /\ Cardinality(T) <= Cardinality(S) + 1
<1>1. IsFiniteSet(S \cup {x}) /\ Cardinality(S \cup {x}) <= Cardinality(S) + 1
  <2>1. Cardinality(S) \in Nat
    BY FS_CardinalityType
  <2> QED
    BY <2>1, FS_AddElement
<1>2. IsFiniteSet(T) /\ Cardinality(T) <= Cardinality(S \cup {x})
  BY <1>1, FS_Subset
<1>3. Cardinality(T) \in Nat /\ Cardinality(S) \in Nat /\ Cardinality(S \cup {x}) \in Nat
  BY <1>1, <1>2, FS_CardinalityType
<1> QED
  BY <1>1, <1>2, <1>3

LEMMA SubsetBound ==
  ASSUME NEW S, NEW T, IsFiniteSet(S), T \subseteq S
  PROVE  IsFiniteSet(T) /\ Cardinality(T) <= Cardinality(S)
BY FS_Subset

LEMMA LimiterStarts == LimiterInit => LimiterInv
<1> SUFFICES ASSUME LimiterInit PROVE LimiterInv
  OBVIOUS
<1> USE RateLimitAssumption
<1>1. LimiterTypeOK /\ Start <= now /\ count <= attempts
  BY DEF LimiterInit, LimiterTypeOK, Start, Never
<1>2. Current = {} /\ Previous = {} /\ \A t \in 0..MaxTime : Span(t) = {}
  BY DEF LimiterInit, Current, Previous, Span
<1>3. Cardinality({}) = 0
  BY FS_EmptySet
<1>4. Cardinality(Current) = 0 /\ Cardinality(Previous) = 0
  BY <1>2, <1>3
<1>5. \A t \in 0..MaxTime : Cardinality(Span(t)) = 0
  BY <1>2, <1>3
<1>6. \A c \in allowed : c[2] <= resetAt
  BY DEF LimiterInit
<1> QED
  BY <1>1, <1>4, <1>5, <1>6 DEF LimiterInv, LimiterInit

\* A call that is refused changes nothing but the counters.
LEMMA RefusedKeeps ==
  ASSUME LimiterInv, Allow(FALSE)
  PROVE  LimiterInv'
<1> USE RateLimitAssumption
<1>1. /\ now <= resetAt /\ count' = count + 1 /\ resetAt' = resetAt
      /\ allowed' = allowed /\ now' = now /\ attempts' = attempts + 1
      /\ attempts < MaxAttempts
  BY DEF LimiterInv, LimiterTypeOK, Allow, Never
<1>2. Current' = Current /\ Previous' = Previous /\ \A t \in 0..MaxTime : Span(t)' = Span(t)
  BY <1>1 DEF Current, Previous, Start, Span
<1>3. Cardinality(Current) \in Nat
  BY AllowedFinite DEF LimiterInv, Current
<1>4. LimiterTypeOK' /\ (count <= attempts)' /\ (Start <= now)'
  BY <1>1 DEF LimiterInv, LimiterTypeOK, Start
<1>5. \A c \in allowed' : c[2] <= resetAt'
  BY <1>1 DEF LimiterInv
<1>6. Cardinality(Current') <= MaxCalls /\ Cardinality(Current') <= count'
  BY <1>1, <1>2, <1>3 DEF LimiterInv, LimiterTypeOK
<1>7. Cardinality(Previous') <= MaxCalls
  BY <1>2 DEF LimiterInv
<1>8. \A t \in 0..MaxTime : Cardinality(Span(t)') <= 2 * MaxCalls
  BY <1>2 DEF LimiterInv
<1> QED
  BY <1>4, <1>5, <1>6, <1>7, <1>8 DEF LimiterInv

\* A call that is let through is the last of its window, and of the spans that contain the
\* present: those lie in the window and the period before it, or in the window that has
\* ended and the call itself.
LEMMA AllowedKeeps ==
  ASSUME LimiterInv, Allow(TRUE)
  PROVE  LimiterInv'
<1> DEFINE call == <<attempts + 1, now>>
<1> USE RateLimitAssumption
<1>1. /\ allowed' = allowed \cup {call} /\ now' = now /\ attempts' = attempts + 1
      /\ attempts < MaxAttempts /\ attempts \in Nat /\ now \in 0..MaxTime
  BY DEF LimiterInv, LimiterTypeOK, Allow
<1>2. CASE now > resetAt
  <2>1. count' = 1 /\ resetAt' = now + Period /\ Start' = now
    BY <1>2 DEF Allow, LimiterInv, LimiterTypeOK, Start
  <2>2. \A c \in allowed : c[2] \in 0..MaxTime /\ c[2] <= resetAt
    BY DEF LimiterInv, LimiterTypeOK
  <2>3. call[2] = now
    OBVIOUS
  <2>4. Current' \subseteq {} \cup {call}
    BY <1>1, <1>2, <2>1, <2>2 DEF Current, LimiterInv, LimiterTypeOK, Never
  <2>5. Previous' \subseteq Current
    BY <1>1, <1>2, <2>1, <2>2, <2>3 DEF Previous, Current, Start, LimiterInv, LimiterTypeOK, Never
  <2>6. IsFiniteSet(Current') /\ Cardinality(Current') <= 1
    <3>1. IsFiniteSet({}) /\ Cardinality({}) = 0
      BY FS_EmptySet
    <3>2. IsFiniteSet(Current') /\ Cardinality(Current') <= Cardinality({}) + 1
      BY <2>4, <3>1, OneMore
    <3> QED
      BY <3>1, <3>2
  <2>7. Cardinality(Previous') <= MaxCalls
    <3>1. Current \subseteq allowed
      BY DEF Current
    <3>2. IsFiniteSet(Current) /\ Cardinality(Current) \in Nat /\ Cardinality(Current) <= MaxCalls
      BY <3>1, AllowedFinite DEF LimiterInv
    <3>3. IsFiniteSet(Previous') /\ Cardinality(Previous') <= Cardinality(Current)
      BY <2>5, <3>2, SubsetBound
    <3>4. Cardinality(Previous') \in Nat
      BY <3>3, FS_CardinalityType
    <3> QED
      BY <3>2, <3>3, <3>4
  <2>8. ASSUME NEW t \in 0..MaxTime PROVE Cardinality(Span(t)') <= 2 * MaxCalls
    <3>1. CASE call \in Span(t)'
      <4>1. Span(t)' \subseteq Current \cup {call}
        BY <1>1, <1>2, <2>2, <2>3, <3>1 DEF Span, Current, Start, LimiterInv, LimiterTypeOK, Never
      <4>2. Current \subseteq allowed
        BY DEF Current
      <4>3. IsFiniteSet(Current) /\ Cardinality(Current) \in Nat /\ Cardinality(Current) <= MaxCalls
        BY <4>2, AllowedFinite DEF LimiterInv
      <4>4. IsFiniteSet(Span(t)') /\ Cardinality(Span(t)') <= Cardinality(Current) + 1
        BY <4>1, <4>3, OneMore
      <4>5. Cardinality(Span(t)') \in Nat
        BY <4>4, FS_CardinalityType
      <4> QED
        BY <4>3, <4>4, <4>5
    <3>2. CASE call \notin Span(t)'
      <4>1. Span(t)' = Span(t)
        BY <1>1, <3>2 DEF Span
      <4> QED
        BY <4>1 DEF LimiterInv
    <3> QED
      BY <3>1, <3>2
  <2>9. LimiterTypeOK' /\ (count <= attempts)' /\ (Start <= now)'
    BY <1>1, <2>1 DEF LimiterInv, LimiterTypeOK
  <2>10. \A c \in allowed' : c[2] <= resetAt'
    BY <1>1, <1>2, <2>1, <2>2, <2>3 DEF LimiterInv, LimiterTypeOK, Never
  <2>11. Cardinality(Current') \in Nat
    BY <2>6, FS_CardinalityType
  <2>12. Cardinality(Current') <= MaxCalls /\ Cardinality(Current') <= count'
    BY <2>1, <2>6, <2>11
  <2> QED
    BY <2>7, <2>8, <2>9, <2>10, <2>12 DEF LimiterInv
<1>3. CASE ~(now > resetAt)
  <2>1. /\ count' = count + 1 /\ resetAt' = resetAt /\ count + 1 <= MaxCalls
        /\ Start' = Start /\ Start \in Int /\ Start <= now /\ now <= resetAt
    BY <1>1, <1>3 DEF Allow, Within, LimiterInv, LimiterTypeOK, Never, Start
  <2>2. \A c \in allowed : c[2] \in 0..MaxTime /\ c[2] <= resetAt
    BY DEF LimiterInv, LimiterTypeOK
  <2>3. call[2] = now
    OBVIOUS
  <2>4. Current' \subseteq Current \cup {call}
    BY <1>1, <2>1 DEF Current
  <2>5. Previous' = Previous
    BY <1>1, <2>1, <2>3 DEF Previous
  <2>6. /\ IsFiniteSet(Current) /\ Cardinality(Current) \in Nat /\ Cardinality(Current) <= count
        /\ IsFiniteSet(Previous) /\ Cardinality(Previous) \in Nat /\ Cardinality(Previous) <= MaxCalls
    <3>1. Current \subseteq allowed /\ Previous \subseteq allowed
      BY DEF Current, Previous
    <3> QED
      BY <3>1, AllowedFinite DEF LimiterInv
  <2>7. IsFiniteSet(Current') /\ Cardinality(Current') <= Cardinality(Current) + 1
    BY <2>4, <2>6, OneMore
  <2>8. Cardinality(Current') \in Nat
    BY <2>7, FS_CardinalityType
  <2>9. Cardinality(Current') <= MaxCalls /\ Cardinality(Current') <= count'
    BY <2>1, <2>6, <2>7, <2>8 DEF LimiterInv, LimiterTypeOK
  <2>10. ASSUME NEW t \in 0..MaxTime PROVE Cardinality(Span(t)') <= 2 * MaxCalls
    <3>1. CASE call \in Span(t)'
      <4>1. Start - Period <= t
        BY <1>1, <2>1, <2>3, <3>1 DEF Span
      <4>2. Span(t)' \subseteq Current' \cup Previous
        BY <1>1, <2>1, <2>2, <2>3, <2>5, <4>1 DEF Span, Current, Previous
      <4>3. /\ IsFiniteSet(Current' \cup Previous)
            /\ Cardinality(Current' \cup Previous) <= Cardinality(Current') + Cardinality(Previous)
        <5>1. IsFiniteSet(Current' \cup Previous)
          BY <2>6, <2>7, FS_Union
        <5>2. Cardinality(Current' \cup Previous)
                = Cardinality(Current') + Cardinality(Previous) - Cardinality(Current' \cap Previous)
          BY <2>6, <2>7, FS_Union
        <5>3. Cardinality(Current' \cap Previous) \in Nat
          BY <2>7, FS_Intersection, FS_CardinalityType
        <5> QED
          BY <5>1, <5>2, <5>3, <2>6, <2>8
      <4>4. IsFiniteSet(Span(t)') /\ Cardinality(Span(t)') <= Cardinality(Current' \cup Previous)
        BY <4>2, <4>3, SubsetBound
      <4>5. Cardinality(Span(t)') \in Nat /\ Cardinality(Current' \cup Previous) \in Nat
        BY <4>3, <4>4, FS_CardinalityType
      <4> QED
        BY <2>6, <2>8, <2>9, <4>3, <4>4, <4>5
    <3>2. CASE call \notin Span(t)'
      <4>1. Span(t)' = Span(t)
        BY <1>1, <3>2 DEF Span
      <4> QED
        BY <4>1 DEF LimiterInv
    <3> QED
      BY <3>1, <3>2
  <2>11. LimiterTypeOK' /\ (count <= attempts)' /\ (Start <= now)'
    BY <1>1, <2>1 DEF LimiterInv, LimiterTypeOK
  <2>12. \A c \in allowed' : c[2] <= resetAt'
    BY <1>1, <2>1, <2>2, <2>3
  <2> QED
    BY <2>5, <2>6, <2>9, <2>10, <2>11, <2>12 DEF LimiterInv
<1> QED
  BY <1>2, <1>3

\* The clock moves no call to another window.
LEMMA TickKeeps ==
  ASSUME LimiterInv, LimiterTick
  PROVE  LimiterInv'
<1>1. /\ now' = now + 1 /\ now < MaxTime /\ count' = count /\ resetAt' = resetAt
      /\ attempts' = attempts /\ allowed' = allowed
  BY DEF LimiterTick, limiter
<1>2. Current' = Current /\ Previous' = Previous /\ \A t \in 0..MaxTime : Span(t)' = Span(t)
  BY <1>1 DEF Current, Previous, Start, Span
<1>3. LimiterTypeOK' /\ (Start <= now)'
  BY <1>1, RateLimitAssumption DEF LimiterInv, LimiterTypeOK, Start, Never
<1> QED
  BY <1>1, <1>2, <1>3 DEF LimiterInv

LEMMA LimiterIdle ==
  ASSUME LimiterInv, UNCHANGED <<limiter, now>>
  PROVE  LimiterInv'
BY DEF LimiterInv, LimiterTypeOK, limiter, Current, Previous, Start, Span

\* However requests fall about the ends of windows, no span of a period lets through more
\* than twice the limit of ratelimit.go, for every limit, period and clock.
THEOREM RateIsBounded == Spec => []RateBounded
<1>1. Init => LimiterInv
  BY LimiterStarts DEF Init
<1>2. LimiterInv /\ [Next]_vars => LimiterInv'
  <2> SUFFICES ASSUME LimiterInv, [Next]_vars PROVE LimiterInv'
    OBVIOUS
  <2>1. CASE Generate
    <3>1. PICK ok \in BOOLEAN : Allow(ok)
      BY <2>1 DEF Generate
    <3> QED
      BY <3>1, RefusedKeeps, AllowedKeeps
  <2>2. CASE LimiterTick
    BY <2>2, TickKeeps
  <2>3. CASE UNCHANGED <<limiter, now>>
    BY <2>3, LimiterIdle
  <2> QED
    BY <2>1, <2>2, <2>3 DEF Next, vars
<1>3. LimiterInv => RateBounded
  BY DEF LimiterInv, RateBounded, Span
<1> QED
  BY <1>1, <1>2, <1>3, PTL DEF Spec

-----------------------------------------------------------------------------
(* The previews.  While nobody has overlapped, the file of the temporary    *)
(* name is the one that its only writer has open, and no writer can open    *)
(* the file that the preview's name refers to.                              *)

Pcs == {"idle", "image", "fill", "stat", "read", "open", "write", "rename", "serve", "done"}
\* The progress of a writer that has not made its file.
Unopened == {"idle", "image", "fill", "stat", "read", "open"}

InodesUnused == \A p \in Writers : proc[p].pc \in Unopened => files[Thumb] # p /\ files[TmpName] # p
NamesApart == files[TmpName] # None => files[TmpName] # files[Thumb]
OneWriter ==
  /\ \A p \in Writing, q \in Writing : p = q
  /\ \A p \in Writing : files[TmpName] = proc[p].fd /\ files[TmpName] # None
  /\ \A p \in Writers : proc[p].pc = "rename" => content[proc[p].fd] = "whole"

\* Overlapped or not, a writer has a file open.
HasFile == \A p \in Writing : proc[p].fd # None

ThumbInv ==
  /\ ThumbTypeOK
  /\ HasFile
  /\ InodesUnused
  /\ NamesApart
  /\ ~overlapped => OneWriter
  /\ ThumbWhole

\* A writer's record becomes the one given.
Becomes(p, c, d, a) == proc' = [proc EXCEPT ![p] = [pc |-> c, fd |-> d, reply |-> a]]

LEMMA GotoBecomes ==
  ASSUME ThumbTypeOK, NEW p \in Writers, NEW c \in Pcs, Goto(p, c)
  PROVE  Becomes(p, c, proc[p].fd, proc[p].reply)
<1>1. proc[p] = [pc |-> proc[p].pc, fd |-> proc[p].fd, reply |-> proc[p].reply]
  BY DEF ThumbTypeOK, Proc
<1>2. [proc[p] EXCEPT !.pc = c] = [pc |-> c, fd |-> proc[p].fd, reply |-> proc[p].reply]
  BY <1>1
<1> QED
  BY <1>2 DEF Goto, Becomes

LEMMA WriterFacts ==
  ASSUME ThumbTypeOK, NEW p \in Writers, NEW c \in Pcs, NEW d \in Inodes \cup {None},
         NEW a \in {None, "404", "partial", "whole"}, Becomes(p, c, d, a)
  PROVE  /\ proc' \in [Writers -> Proc]
         /\ proc'[p].pc = c /\ proc'[p].fd = d /\ proc'[p].reply = a
         /\ \A q \in Writers : q # p => proc'[q] = proc[q]
<1>1. [pc |-> c, fd |-> d, reply |-> a] \in Proc
  BY DEF Proc, Pcs
<1> QED
  BY <1>1 DEF ThumbTypeOK, Becomes

LEMMA FieldTypes ==
  ASSUME ThumbTypeOK, NEW p \in Writers
  PROVE  /\ proc[p].pc \in Pcs /\ proc[p].fd \in Inodes \cup {None}
         /\ proc[p].reply \in {None, "404", "partial", "whole"}
BY DEF ThumbTypeOK, Proc, Pcs

LEMMA InodeNames ==
  /\ Job \in Writers /\ Requests \subseteq Writers /\ Writers \subseteq Inodes
  /\ "image" \in Inodes /\ None \notin Inodes /\ "image" \notin Writers
  /\ {Thumb, TmpName, "0.png"} = Names /\ Thumb # TmpName /\ Thumb # "0.png" /\ TmpName # "0.png"
BY ThumbnailsAssumption DEF Writers, Inodes, None, Names, Thumb, TmpName

\* A step that leaves the disk alone, and that starts no writing, keeps the invariant if it
\* answers with a whole preview or with none.
LEMMA MoveKeeps ==
  ASSUME ThumbInv, NEW p \in Writers, NEW c \in Pcs, NEW d \in Inodes \cup {None},
         NEW a \in {None, "404", "partial", "whole"}, Becomes(p, c, d, a),
         UNCHANGED <<disk, overlapped>>, errors' \in 0..MaxErrors,
         c \notin {"write", "rename"}, c \in Unopened => proc[p].pc \in Unopened,
         a = "partial" => overlapped \/ proc[p].reply = "partial"
  PROVE  ThumbInv'
<1>1. /\ proc' \in [Writers -> Proc]
      /\ proc'[p].pc = c /\ proc'[p].fd = d /\ proc'[p].reply = a
      /\ \A q \in Writers : q # p => proc'[q] = proc[q]
  BY WriterFacts DEF ThumbInv
<1>2. files' = files /\ content' = content /\ overlapped' = overlapped
  BY DEF disk
<1>3. ThumbTypeOK' /\ HasFile'
  BY <1>1, <1>2 DEF ThumbInv, ThumbTypeOK, HasFile, Writing
<1>4. InodesUnused' /\ NamesApart'
  BY <1>1, <1>2 DEF ThumbInv, InodesUnused, NamesApart
<1>5. ASSUME ~overlapped' PROVE OneWriter'
  <2>1. OneWriter
    BY <1>2, <1>5 DEF ThumbInv
  <2>2. Writing' = Writing \ {p}
    BY <1>1 DEF Writing
  <2> QED
    BY <1>1, <1>2, <2>1, <2>2 DEF OneWriter, Writing
<1>6. ThumbWhole'
  <2>1. \A r \in Requests : r \in Writers
    BY InodeNames
  <2> QED
    BY <1>1, <1>2, <2>1 DEF ThumbInv, ThumbWhole
<1> QED
  BY <1>3, <1>4, <1>5, <1>6 DEF ThumbInv

LEMMA ThumbStarts == ThumbInit => ThumbInv
<1> SUFFICES ASSUME ThumbInit PROVE ThumbInv
  OBVIOUS
<1>1. ThumbTypeOK
  <2>1. [pc |-> "idle", fd |-> None, reply |-> None] \in Proc
    BY DEF Proc
  <2>2. proc \in [Writers -> Proc]
    BY <2>1 DEF ThumbInit
  <2> QED
    <3>1. files \in [Names -> Inodes \cup {None}]
      BY DEF ThumbInit
    <3>2. content \in [Inodes -> {"empty", "whole"}]
      BY DEF ThumbInit
    <3>3. errors = 0 /\ overlapped \in BOOLEAN
      BY DEF ThumbInit
    <3>4. MaxErrors \in Nat
      BY ThumbnailsAssumption
    <3>5. errors \in 0..MaxErrors
      BY <3>3, <3>4
    <3> QED
      BY <2>2, <3>1, <3>2, <3>3, <3>5 DEF ThumbTypeOK
<1>2. files[Thumb] = None /\ files[TmpName] = None
  BY InodeNames DEF ThumbInit
<1>3. \A p \in Writers : p # None /\ proc[p].pc = "idle" /\ proc[p].reply = None
  BY InodeNames DEF ThumbInit
<1>4. Writing = {}
  BY <1>3 DEF Writing
<1>5. \A r \in Requests : proc[r].reply # "partial"
  BY <1>3, InodeNames DEF None
<1> QED
  BY <1>1, <1>2, <1>3, <1>4, <1>5
     DEF ThumbInv, HasFile, InodesUnused, NamesApart, OneWriter, ThumbWhole

LEMMA SaveStartKeeps == ASSUME ThumbInv, SaveStart PROVE ThumbInv'
<1>1. proc[Job].pc = "idle" /\ Goto(Job, "image") /\ UNCHANGED <<disk, overlapped>> /\ errors' = errors
  BY DEF SaveStart, NoError
<1>2. Becomes(Job, "image", proc[Job].fd, proc[Job].reply)
  BY <1>1, GotoBecomes, InodeNames DEF ThumbInv, Pcs
<1> QED
  BY <1>1, <1>2, MoveKeeps, FieldTypes, InodeNames DEF ThumbInv, ThumbTypeOK, Pcs, Unopened

LEMMA OpenImageKeeps == ASSUME ThumbInv, OpenImage PROVE ThumbInv'
<1>1. /\ proc[Job].pc = "image" /\ Goto(Job, "fill") /\ errors' = errors
      /\ content' = content /\ overlapped' = overlapped
      /\ files' = [files EXCEPT !["0.png"] = "image"]
  BY DEF OpenImage, NoError
<1>2. Becomes(Job, "fill", proc[Job].fd, proc[Job].reply)
  BY <1>1, GotoBecomes, InodeNames DEF ThumbInv, Pcs
<1>3. /\ proc' \in [Writers -> Proc]
      /\ proc'[Job].pc = "fill" /\ proc'[Job].fd = proc[Job].fd /\ proc'[Job].reply = proc[Job].reply
      /\ \A q \in Writers : q # Job => proc'[q] = proc[q]
  BY <1>2, WriterFacts, FieldTypes, InodeNames DEF ThumbInv, Pcs
<1>4. files'[Thumb] = files[Thumb] /\ files'[TmpName] = files[TmpName]
  BY <1>1, InodeNames DEF ThumbInv, ThumbTypeOK
<1>5. ThumbTypeOK' /\ HasFile'
  BY <1>1, <1>3, InodeNames DEF ThumbInv, ThumbTypeOK, HasFile, Writing
<1>6. InodesUnused' /\ NamesApart'
  BY <1>1, <1>3, <1>4, InodeNames DEF ThumbInv, InodesUnused, NamesApart, Unopened
<1>7. Writing' = Writing
  BY <1>1, <1>3 DEF Writing
<1>8. ~overlapped' => OneWriter'
  BY <1>1, <1>3, <1>4, <1>7 DEF ThumbInv, OneWriter, Writing
<1>9. ThumbWhole'
  BY <1>1, <1>3, <1>4, InodeNames DEF ThumbInv, ThumbWhole
<1> QED
  BY <1>5, <1>6, <1>8, <1>9 DEF ThumbInv

\* Whoever writes, a file that becomes whole makes nothing partial.
LEMMA WholeKeeps ==
  ASSUME ThumbInv, NEW p \in Writers, NEW c \in Pcs, Goto(p, c), NEW i \in Inodes,
         content' = [content EXCEPT ![i] = "whole"], errors' = errors,
         UNCHANGED <<files, overlapped>>,
         \/ proc[p].pc = "write" /\ c = "rename" /\ i = proc[p].fd
         \/ proc[p].pc = "fill" /\ c = "open"
  PROVE  ThumbInv'
<1>1. Becomes(p, c, proc[p].fd, proc[p].reply)
  BY GotoBecomes DEF ThumbInv
<1>2. /\ proc' \in [Writers -> Proc]
      /\ proc'[p].pc = c /\ proc'[p].fd = proc[p].fd /\ proc'[p].reply = proc[p].reply
      /\ \A q \in Writers : q # p => proc'[q] = proc[q]
  BY <1>1, WriterFacts, FieldTypes DEF ThumbInv
<1>3. files' = files /\ overlapped' = overlapped
  OBVIOUS
<1>4. \A j \in Inodes : content[j] = "whole" => content'[j] = "whole"
  BY DEF ThumbInv, ThumbTypeOK
<1>5. ThumbTypeOK' /\ HasFile'
  BY <1>2 DEF ThumbInv, ThumbTypeOK, HasFile, Writing
<1>6. InodesUnused' /\ NamesApart'
  BY <1>2 DEF ThumbInv, InodesUnused, NamesApart, Unopened
<1>7. ASSUME ~overlapped' PROVE OneWriter'
  <2>1. OneWriter
    BY <1>3, <1>7 DEF ThumbInv
  <2>2. Writing' = Writing
    BY <1>2 DEF Writing
  <2>3. ASSUME NEW q \in Writers, proc'[q].pc = "rename" PROVE content'[proc'[q].fd] = "whole"
    <3>1. CASE q = p
      BY <1>2, <2>3, <3>1 DEF ThumbInv, ThumbTypeOK
    <3>2. CASE q # p
      <4>1. q \in Writing /\ proc[q].pc = "rename" /\ proc'[q].fd = proc[q].fd
        BY <1>2, <2>3, <3>2 DEF Writing
      <4>2. content[proc[q].fd] = "whole" /\ proc[q].fd \in Inodes
        BY <2>1, <4>1, FieldTypes DEF OneWriter, ThumbInv
      <4> QED
        BY <1>4, <4>1, <4>2
    <3> QED
      BY <3>1, <3>2
  <2>4. \A q \in Writing : proc'[q].fd = proc[q].fd
    BY <1>2 DEF Writing
  <2> QED
    BY <2>1, <2>2, <2>3, <2>4, <1>3 DEF OneWriter
<1>8. ThumbWhole'
  <2>1. files[Thumb] \in Inodes \cup {None}
    BY InodeNames DEF ThumbInv, ThumbTypeOK
  <2>2. \A r \in Requests : proc'[r].reply = proc[r].reply
    BY <1>2, InodeNames
  <2> QED
    BY <1>3, <1>4, <2>1, <2>2 DEF ThumbInv, ThumbWhole
<1> QED
  BY <1>5, <1>6, <1>7, <1>8 DEF ThumbInv

\* A writer that fails answers and leaves the disk as it is.
LEMMA FailureKeeps ==
  ASSUME ThumbInv, NEW p \in Writers, NEW a \in {None, "404"}, Reply(p, a),
         errors' \in 0..MaxErrors, UNCHANGED <<disk, overlapped>>
  PROVE  ThumbInv'
<1>1. Becomes(p, "done", None, a)
  BY DEF Reply, Becomes
<1>2. "done" \in Pcs /\ "done" \notin Unopened /\ a # "partial"
  BY DEF Pcs, Unopened, None
<1> QED
  BY <1>1, <1>2, MoveKeeps

LEMMA FillImageKeeps == ASSUME ThumbInv, FillImage PROVE ThumbInv'
<1>1. CASE content' = [content EXCEPT !["image"] = "whole"] /\ Goto(Job, "open") /\ NoError
  BY <1>1, WholeKeeps, InodeNames DEF FillImage, NoError, Pcs
<1>2. CASE Reply(Job, None) /\ Error /\ UNCHANGED content
  <2>1. errors' \in 0..MaxErrors
    BY <1>2, ThumbnailsAssumption DEF Error, ThumbInv, ThumbTypeOK
  <2> QED
    BY <1>2, <2>1, FailureKeeps, InodeNames DEF FillImage, disk
<1> QED
  BY <1>1, <1>2 DEF FillImage

LEMMA GetStartKeeps == ASSUME ThumbInv, NEW r \in Requests, GetStart(r) PROVE ThumbInv'
<1>1. proc[r].pc = "idle" /\ Goto(r, "stat") /\ UNCHANGED <<disk, overlapped>> /\ errors' = errors
  BY DEF GetStart, NoError
<1>2. Becomes(r, "stat", proc[r].fd, proc[r].reply) /\ r \in Writers
  BY <1>1, GotoBecomes, InodeNames DEF ThumbInv, Pcs
<1> QED
  BY <1>1, <1>2, MoveKeeps, FieldTypes DEF ThumbInv, ThumbTypeOK, Pcs, Unopened

LEMMA StatKeeps == ASSUME ThumbInv, NEW r \in Requests, Stat(r) PROVE ThumbInv'
<1>1. /\ proc[r].pc = "stat" /\ UNCHANGED <<disk, overlapped>> /\ errors' = errors
      /\ \E c \in {"serve", "read"} : Goto(r, c)
  BY DEF Stat, NoError
<1>2. PICK c \in {"serve", "read"} : Goto(r, c)
  BY <1>1
<1>3. Becomes(r, c, proc[r].fd, proc[r].reply) /\ r \in Writers /\ c \in Pcs
  BY <1>2, GotoBecomes, InodeNames DEF ThumbInv, Pcs
<1> QED
  BY <1>1, <1>3, MoveKeeps, FieldTypes DEF ThumbInv, ThumbTypeOK, Unopened

LEMMA ReadImageKeeps == ASSUME ThumbInv, NEW r \in Requests, ReadImage(r) PROVE ThumbInv'
<1>1. proc[r].pc = "read" /\ UNCHANGED <<disk, overlapped>> /\ errors' = errors /\ r \in Writers
  BY InodeNames DEF ReadImage, NoError
<1>2. CASE Goto(r, "open")
  <2>1. Becomes(r, "open", proc[r].fd, proc[r].reply)
    BY <1>1, <1>2, GotoBecomes DEF ThumbInv, Pcs
  <2> QED
    BY <1>1, <2>1, MoveKeeps, FieldTypes DEF ThumbInv, ThumbTypeOK, Pcs, Unopened
<1>3. CASE Reply(r, "404")
  BY <1>1, <1>3, FailureKeeps DEF ThumbInv, ThumbTypeOK
<1> QED
  BY <1>2, <1>3 DEF ReadImage

LEMMA ServeKeeps == ASSUME ThumbInv, NEW r \in Requests, Serve(r) PROVE ThumbInv'
<1> DEFINE a == IF files[Thumb] = None THEN "404"
                ELSE IF content[files[Thumb]] = "whole" THEN "whole" ELSE "partial"
<1>1. Becomes(r, "done", None, a) /\ UNCHANGED <<disk, overlapped>> /\ errors' = errors /\ r \in Writers
  BY InodeNames DEF Serve, Reply, Becomes, NoError
<1>2. a = "partial" => overlapped
  BY DEF ThumbInv, ThumbWhole
<1>3. a \in {None, "404", "partial", "whole"}
  OBVIOUS
<1> HIDE DEF a
<1> QED
  BY <1>1, <1>2, <1>3, MoveKeeps DEF ThumbInv, ThumbTypeOK, Pcs, Unopened

\* The file that is opened is new, or is the one that the temporary name refers to: it is
\* never the preview.
LEMMA OpenTmpKeeps == ASSUME ThumbInv, NEW p \in Writers, OpenTmp(p) PROVE ThumbInv'
<1> DEFINE inode == IF files[TmpName] = None THEN p ELSE files[TmpName]
<1>1. /\ proc[p].pc = "open" /\ errors' = errors
      /\ files' = [files EXCEPT ![TmpName] = inode]
      /\ content' = [content EXCEPT ![inode] = "empty"]
      /\ proc' = [proc EXCEPT ![p] = [pc |-> "write", fd |-> inode, reply |-> None]]
      /\ overlapped' = (overlapped \/ Writing # {})
  BY DEF OpenTmp, NoError
<1>2. /\ inode \in Inodes /\ inode # files[Thumb] /\ inode # None
      /\ inode = p \/ inode = files[TmpName]
  BY <1>1, InodeNames DEF ThumbInv, ThumbTypeOK, InodesUnused, NamesApart, Unopened
<1> HIDE DEF inode
<1>3. Becomes(p, "write", inode, None)
  BY <1>1 DEF Becomes
<1>4. /\ proc' \in [Writers -> Proc]
      /\ proc'[p].pc = "write" /\ proc'[p].fd = inode /\ proc'[p].reply = None
      /\ \A q \in Writers : q # p => proc'[q] = proc[q]
  BY <1>2, <1>3, WriterFacts, FieldTypes DEF ThumbInv, Pcs
<1>5. files'[Thumb] = files[Thumb] /\ files'[TmpName] = inode
  BY <1>1, InodeNames DEF ThumbInv, ThumbTypeOK
<1>6. ThumbTypeOK' /\ HasFile'
  <2>1. overlapped' \in BOOLEAN
    BY <1>1
  <2>2. files' \in [Names -> Inodes \cup {None}] /\ content' \in [Inodes -> {"empty", "whole"}]
    BY <1>1, <1>2 DEF ThumbInv, ThumbTypeOK
  <2> QED
    BY <1>1, <1>2, <1>4, <2>1, <2>2 DEF ThumbInv, ThumbTypeOK, HasFile, Writing
<1>7. InodesUnused'
  BY <1>2, <1>4, <1>5 DEF ThumbInv, InodesUnused, Unopened
<1>8. NamesApart'
  BY <1>2, <1>5 DEF NamesApart
<1>9. ASSUME ~overlapped' PROVE OneWriter'
  <2>1. Writing = {}
    BY <1>1, <1>9
  <2>2. Writing' = {p}
    BY <1>4, <2>1 DEF Writing
  <2>3. \A q \in Writers : proc'[q].pc # "rename"
    BY <1>4, <2>1 DEF Writing
  <2> QED
    BY <1>2, <1>4, <1>5, <2>2, <2>3 DEF OneWriter
<1>10. ThumbWhole'
  <2>1. overlapped => overlapped'
    BY <1>1
  <2>2. \A r \in Requests : proc'[r].reply \in {proc[r].reply, None}
    BY <1>4, InodeNames
  <2>3. files[Thumb] \in Inodes \cup {None}
    BY InodeNames DEF ThumbInv, ThumbTypeOK
  <2>4. files[Thumb] # None => content'[files[Thumb]] = content[files[Thumb]]
    BY <1>1, <1>2, <2>3 DEF ThumbInv, ThumbTypeOK
  <2> QED
    BY <1>5, <2>1, <2>2, <2>4 DEF ThumbInv, ThumbWhole, None
<1> QED
  BY <1>6, <1>7, <1>8, <1>9, <1>10 DEF ThumbInv

LEMMA FailsKeeps ==
  ASSUME ThumbInv, NEW p \in Writers, ThumbFails(p), errors' \in 0..MaxErrors,
         UNCHANGED <<disk, overlapped>>
  PROVE  ThumbInv'
<1>1. Reply(p, None) \/ Reply(p, "404")
  BY DEF ThumbFails
<1> QED
  BY <1>1, FailureKeeps

LEMMA WriteTmpKeeps == ASSUME ThumbInv, NEW p \in Writers, WriteTmp(p) PROVE ThumbInv'
<1>1. CASE content' = [content EXCEPT ![proc[p].fd] = "whole"] /\ Goto(p, "rename") /\ NoError
  <2>1. proc[p].fd \in Inodes
    BY FieldTypes DEF WriteTmp, ThumbInv, HasFile, Writing
  <2> QED
    BY <1>1, <2>1, WholeKeeps DEF WriteTmp, NoError, Pcs
<1>2. CASE ThumbFails(p) /\ Error /\ UNCHANGED content
  <2>1. errors' \in 0..MaxErrors
    BY <1>2, ThumbnailsAssumption DEF Error, ThumbInv, ThumbTypeOK
  <2> QED
    BY <1>2, <2>1, FailsKeeps DEF WriteTmp, disk
<1> QED
  BY <1>1, <1>2 DEF WriteTmp

\* The only writer renames the file it has filled.
LEMMA RenameKeeps == ASSUME ThumbInv, NEW p \in Writers, Rename(p) PROVE ThumbInv'
<1>1. proc[p].pc = "rename" /\ errors' = errors /\ content' = content /\ overlapped' = overlapped
  BY DEF Rename, NoError
<1>2. CASE files[TmpName] = None
  <2>1. ThumbFails(p) /\ UNCHANGED files /\ errors' \in 0..MaxErrors
    BY <1>1, <1>2 DEF Rename, ThumbInv, ThumbTypeOK
  <2> QED
    BY <1>1, <2>1, FailsKeeps DEF disk
<1>3. CASE files[TmpName] # None
  <2> DEFINE c == IF p = Job THEN "done" ELSE "serve"
             d == IF p = Job THEN None ELSE proc[p].fd
             a == IF p = Job THEN None ELSE proc[p].reply
  <2>1. files' = [n \in Names |-> CASE n = Thumb -> files[TmpName] [] n = TmpName -> None
                                    [] OTHER -> files[n]]
    BY <1>3 DEF Rename
  <2>2. Becomes(p, c, d, a)
    <3>1. CASE p = Job
      BY <1>3, <3>1 DEF Rename, Reply, Becomes
    <3>2. CASE p # Job
      BY <1>3, <3>2, GotoBecomes DEF Rename, ThumbInv, Pcs
    <3> QED
      BY <3>1, <3>2
  <2>3. c \in {"done", "serve"} /\ d \in Inodes \cup {None}
        /\ a \in {None, "404", "partial", "whole"} /\ (a = proc[p].reply \/ a = None)
    BY FieldTypes DEF ThumbInv
  <2> HIDE DEF c, d, a
  <2>4. /\ proc' \in [Writers -> Proc]
        /\ proc'[p].pc = c /\ proc'[p].fd = d /\ proc'[p].reply = a
        /\ \A q \in Writers : q # p => proc'[q] = proc[q]
    BY <2>2, <2>3, WriterFacts DEF ThumbInv, Pcs
  <2>5. files'[Thumb] = files[TmpName] /\ files'[TmpName] = None
    BY <2>1, InodeNames
  <2>6. ThumbTypeOK' /\ HasFile'
    <3>1. files' \in [Names -> Inodes \cup {None}]
      BY <2>1, InodeNames DEF ThumbInv, ThumbTypeOK
    <3> QED
      BY <1>1, <2>3, <2>4, <3>1 DEF ThumbInv, ThumbTypeOK, HasFile, Writing
  <2>7. InodesUnused' /\ NamesApart'
    BY <1>1, <2>3, <2>4, <2>5, InodeNames DEF ThumbInv, InodesUnused, NamesApart, Unopened
  <2>8. ASSUME ~overlapped' PROVE OneWriter' /\ content'[files'[Thumb]] = "whole"
    <3>1. OneWriter /\ p \in Writing
      BY <1>1, <2>8 DEF ThumbInv, Writing
    <3>2. Writing' = {} /\ Writing = {p}
      BY <2>3, <2>4, <3>1 DEF OneWriter, Writing
    <3>3. content[files[TmpName]] = "whole"
      BY <1>1, <3>1 DEF OneWriter
    <3>4. \A q \in Writers : proc'[q].pc # "rename"
      BY <3>2 DEF Writing
    <3> QED
      BY <1>1, <2>5, <3>2, <3>3, <3>4 DEF OneWriter
  <2>9. ThumbWhole'
    <3>1. ASSUME NEW r \in Requests, ~overlapped' PROVE proc'[r].reply # "partial"
      <4>1. proc[r].reply # "partial" /\ r \in Writers
        BY <1>1, <3>1, InodeNames DEF ThumbInv, ThumbWhole
      <4> QED
        BY <2>3, <2>4, <4>1 DEF None
    <3> QED
      BY <2>8, <3>1 DEF ThumbWhole
  <2> QED
    BY <2>6, <2>7, <2>8, <2>9 DEF ThumbInv
<1> QED
  BY <1>2, <1>3

LEMMA ThumbIdle == ASSUME ThumbInv, UNCHANGED thumbVars PROVE ThumbInv'
BY DEF ThumbInv, ThumbTypeOK, HasFile, InodesUnused, NamesApart, OneWriter, Writing, ThumbWhole, thumbVars, disk

LEMMA ThumbStep == ThumbInv /\ [Next]_vars => ThumbInv'
<1> SUFFICES ASSUME ThumbInv, [Next]_vars PROVE ThumbInv'
  OBVIOUS
<1>1. CASE Generate
  BY <1>1, SaveStartKeeps, ThumbIdle DEF Generate
<1>2. CASE Thumbnail
  BY <1>2, OpenImageKeeps, FillImageKeeps, GetStartKeeps, StatKeeps, ReadImageKeeps, ServeKeeps,
     OpenTmpKeeps, WriteTmpKeeps, RenameKeeps DEF Thumbnail
<1>3. CASE UNCHANGED thumbVars
  BY <1>3, ThumbIdle
<1> QED
  BY <1>1, <1>2, <1>3 DEF Next, vars

\* Unless two writers of the temporary file overlap, a preview that can be served is whole,
\* for any number of requests and failures (thumbnail.go:96, artifacts.go).
THEOREM ThumbIsWhole == Spec => []ThumbWhole
<1>1. Init => ThumbInv
  BY ThumbStarts DEF Init
<1>2. ThumbInv => ThumbWhole
  BY DEF ThumbInv
<1> QED
  BY <1>1, <1>2, ThumbStep, PTL DEF Spec

=============================================================================
