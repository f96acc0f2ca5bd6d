---------------------------- MODULE UpstreamProofs ----------------------------
(***************************************************************************)
(* The theorems about retries, rounds and the fallback of Upstream, for    *)
(* every registry, chain of models and bound on images.                    *)
(***************************************************************************)
EXTENDS Upstream, EnumerationsProofs

-----------------------------------------------------------------------------
(* The inductive invariant.  While an adapter has the call, the POSTs of    *)
(* its model are those of the rounds before and the attempts of this one;   *)
(* no model has been given up for good, and none has answered, before the   *)
(* call is over.                                                            *)

Waiting == {"idle", "next", "generate"}
Sending == {"send", "retryAfter", "backoff"}
Adapting == {"generate", "wait"} \cup Sending

Counted == (round - 1) * (1 + MaxRetries(Adapter))

Sound ==
  /\ pc \in Waiting \cup Sending \cup {"wait", "done"}
  /\ pos \in 0..Len(Chain) + 1
  /\ pc = "idle" => pos = 0
  /\ posts \in [0..Len(Chain) -> Nat]
  /\ images \in Seq(Image)
  /\ pc \notin {"idle", "done"} => call.n \in 1..MaxN
  /\ pc \in Adapting => model \in DOMAIN Backend \ {Xiangyun} /\ pos \in 0..Len(Chain)

Spent ==
  /\ \A i \in 0..Len(Chain) : i > pos \/ (i = pos /\ pc \in Waiting) => posts[i] = 0
  /\ pc \in Waiting => attempt = 0 /\ round = 1
  /\ pc \in Adapting => round \in 1..Rounds /\ attempt \in 0..MaxRetries(Adapter)
  /\ pc \in Sending => posts[pos] <= Counted + attempt
  /\ pc = "wait" => posts[pos] <= Counted + attempt + 1

Kept ==
  /\ pc # "done" => refused = {} /\ answered = {}
  /\ FallbackOnlyAfterUpstreamFailure
  /\ GoodAnswerKept

CallInv == Sound /\ Spent /\ Kept

-----------------------------------------------------------------------------
(* Facts about the constants, the adapters and the outcomes *)

LEMMA Bounds == MaxN \in Nat \ {0} /\ Len(Chain) \in Nat
BY UpstreamAssumption

LEMMA AdapterFacts ==
  ASSUME model \in DOMAIN Backend \ {Xiangyun}, call.n \in 1..MaxN
  PROVE  /\ Adapter \in Providers
         /\ MaxRetries(Adapter) \in {1, 2}
         /\ Rounds \in 1..MaxN
<1>1. Adapter \in Providers
  BY UpstreamAssumption DEF Adapter
<1>2. MaxRetries(Adapter) \in {1, 2}
  BY DEF MaxRetries
<1>3. Rounds \in 1..MaxN
  BY Bounds DEF Rounds
<1> QED
  BY <1>1, <1>2, <1>3

\* What executeImageGeneration and the chain may be given: a failure, or some images.
Deliverable(o) == Failed(o) \/ \E ims : ims # << >> /\ o = OK(ims)

LEMMA OKFacts ==
  ASSUME NEW ims
  PROVE  ~Failed(OK(ims)) /\ OK(ims).cause = "none" /\ OK(ims).images = ims
BY DEF OK, Failed

LEMMA ErrorsFail ==
  ASSUME NEW type, NEW code, NEW cause, type # "ok"
  PROVE  Failed(Err(type, code, cause)) /\ Err(type, code, cause).type = type
                                        /\ Err(type, code, cause).code = code
BY DEF Err, Failed

\* Images are not turned into a failure at the end of a call.
LEMMA FinishKeeps ==
  ASSUME NEW ims, ims # << >>, Finish(OK(ims))
  PROVE  ~Failed(result')
<1>1. OK(ims).cause = "none" /\ OK(ims).type = "ok" /\ OK(ims).images = ims
  BY DEF OK
<1>2. ChatContent(OK(ims)).type = "ok"
  <2>1. CASE call.entry = "chat"
    <3> DEFINE shown == Filter(ims, {im \in Image : ~Empty(im)})
    <3>1. ChatContent(OK(ims)) = [OK(ims) EXCEPT !.images = shown]
      BY <1>1, <2>1 DEF ChatContent
    <3> HIDE DEF shown
    <3>2. [OK(ims) EXCEPT !.images = shown].type = "ok"
      BY DEF OK
    <3> QED
      BY <3>1, <3>2
  <2>2. CASE call.entry # "chat"
    BY <1>1, <2>2 DEF ChatContent
  <2> QED
    BY <2>1, <2>2
<1>3. result' = ChatContent(OK(ims))
  BY <1>1 DEF Finish, Failed
<1> QED
  BY <1>2, <1>3 DEF Failed

-----------------------------------------------------------------------------
(* The steps that end an adapter's call *)

\* After the end nothing is counted any more.
LEMMA OverStep ==
  ASSUME Sound, Spent, pc' = "done", images' = << >>, UNCHANGED posts,
         \/ pos' = pos
         \/ pc = "idle" /\ pos' = 0
  PROVE  (Sound /\ Spent)'
<1>1. images' \in Seq(Image)
  OBVIOUS
<1>2. Sound'
  BY <1>1, Bounds DEF Sound, Waiting, Sending, Adapting
<1>3. Spent'
  BY DEF Sound, Spent, Waiting, Sending, Adapting
<1> QED
  BY <1>2, <1>3

LEMMA ReturnStep ==
  ASSUME CallInv, pc \in Adapting, NEW o, Deliverable(o), Return(o), UNCHANGED <<callVars, posts>>
  PROVE  CallInv'
<1> DEFINE f == IF Failed(o) \/ pos = 0 \/ Renderable(o.images) THEN o
                ELSE UpstreamErr("empty_image_slots")
           goes == pos > 0 /\ Failed(f) /\ IsRetriableUpstreamFailure(f)
           late == f.type # "upstream" \/ f.code = "upstream_timeout"
           whole == ~Failed(o) /\ ~\E i \in DOMAIN o.images : Blank(o.images[i])
<1>1. pc \notin {"idle", "done"} /\ refused = {} /\ answered = {}
  BY DEF CallInv, Kept, Adapting, Sending
<1>2. /\ refused' = IF Failed(f) /\ late THEN {pos} ELSE {}
      /\ answered' = IF whole THEN {pos} ELSE {}
  BY <1>1 DEF Return
<1>3. whole => f = o /\ \E ims : ims # << >> /\ o = OK(ims)
  BY OKFacts DEF Deliverable, Renderable
<1>4. CASE goes
  <2>1. /\ pc' = "next" /\ pos' = pos + 1 /\ images' = << >> /\ attempt' = 0 /\ round' = 1
    BY <1>4 DEF Return
  <2>2. ~(Failed(f) /\ late) /\ ~whole
    BY <1>3, <1>4 DEF IsRetriableUpstreamFailure
  <2>3. refused' = {} /\ answered' = {}
    BY <1>2, <2>2
  <2>4. Sound'
    <3>1. images' \in Seq(Image)
      BY <2>1
    <3>2. pos' \in 0..Len(Chain) + 1
      BY <2>1, Bounds DEF CallInv, Sound
    <3> QED
      BY <1>1, <2>1, <3>1, <3>2 DEF CallInv, Sound, Waiting, Sending, Adapting, callVars
  <2>5. Spent'
    BY <2>1, Bounds DEF CallInv, Sound, Spent, Waiting, Sending, Adapting
  <2>6. Kept'
    BY <2>1, <2>3 DEF Kept, FallbackOnlyAfterUpstreamFailure, GoodAnswerKept
  <2> QED
    BY <2>4, <2>5, <2>6 DEF CallInv
<1>5. CASE ~goes
  <2>1. Finish(f) /\ pos' = pos
    BY <1>5 DEF Return
  <2>2. pc' = "done" /\ images' = << >>
    BY <2>1 DEF Finish
  <2>3. (Sound /\ Spent)'
    BY <2>1, <2>2, OverStep DEF CallInv
  <2>4. whole => ~Failed(result')
    BY <1>3, <2>1, FinishKeeps
  <2>5. Kept'
    BY <1>2, <2>1, <2>2, <2>4 DEF Kept, FallbackOnlyAfterUpstreamFailure, GoodAnswerKept
  <2> QED
    BY <2>3, <2>5 DEF CallInv
<1> QED
  BY <1>4, <1>5

\* The common ways to fail.
LEMMA FailStep ==
  ASSUME CallInv, pc \in Adapting, NEW type, NEW code, NEW cause, type # "ok",
         Return(Err(type, code, cause)), UNCHANGED <<callVars, posts>>
  PROVE  CallInv'
BY ErrorsFail, ReturnStep DEF Deliverable

LEMMA UpstreamFailStep ==
  ASSUME CallInv, pc \in Adapting, NEW code, Return(UpstreamErr(code)),
         UNCHANGED <<callVars, posts>>
  PROVE  CallInv'
BY FailStep DEF UpstreamErr

-----------------------------------------------------------------------------
(* The steps before an adapter has the call *)

LEMMA EndKept ==
  ASSUME Kept, pc # "done", pc' = "done", UNCHANGED history
  PROVE  Kept'
BY DEF Kept, FallbackOnlyAfterUpstreamFailure, GoodAnswerKept, history

LEMMA GoOnKept ==
  ASSUME Kept, pc # "done", pc' # "done", UNCHANGED <<refused, answered>>
  PROVE  Kept'
BY DEF Kept, FallbackOnlyAfterUpstreamFailure, GoodAnswerKept

LEMMA ExecuteStep ==
  ASSUME CallInv, pc = "idle", NEW entry, NEW id, NEW n \in 0..MaxN + 1, NEW refs, NEW edit,
         NEW boxes, NEW fourK, NEW creds,
         Execute(entry, id, n, refs, edit, boxes, fourK, creds)
  PROVE  CallInv'
<1> DEFINE m == Resolve(id, fourK)
           problem == IF n > MaxN THEN BadRequest("invalid_n")
                      ELSE IF ~Parse(refs) THEN BadRequest("invalid_reference")
                      ELSE IF m \notin DOMAIN Backend THEN Err("not_found", "model_not_found", "none")
                      ELSE NoOutcome
<1>1. CASE Failed(problem)
  <2>1. Finish(problem) /\ UNCHANGED <<pos, history>>
    BY <1>1 DEF Execute
  <2>2. pc' = "done" /\ images' = << >> /\ UNCHANGED <<posts, pos>>
    BY <2>1 DEF Finish, history
  <2>3. (Sound /\ Spent)'
    BY <2>2, OverStep DEF CallInv
  <2> QED
    BY <2>1, <2>2, <2>3, EndKept DEF CallInv
<1>2. CASE ~Failed(problem)
  <2>1. n <= MaxN /\ m \in DOMAIN Backend
    <3>1. /\ Failed(BadRequest("invalid_n")) /\ Failed(BadRequest("invalid_reference"))
          /\ Failed(Err("not_found", "model_not_found", "none"))
      BY DEF BadRequest, Err, Failed
    <3> QED
      BY <1>2, <3>1, Bounds
  <2>2. /\ call' = [entry |-> entry, n |-> IF n = 0 THEN 1 ELSE n, editable |-> EditAllowed(edit, refs, boxes),
                    fourK |-> fourK, creds |-> creds]
        /\ model' = m
        /\ IF m = Xiangyun THEN pc' = "next" /\ pos' = 1 ELSE pc' = "generate" /\ pos' = 0
        /\ UNCHANGED <<attempt, round, images, history>>
    BY <1>2 DEF Execute
  <2> HIDE DEF problem, m
  <2>3. call'.n \in 1..MaxN
    BY <2>1, <2>2, Bounds
  <2>4. posts' = posts /\ refused' = refused /\ answered' = answered
    BY <2>2 DEF history
  <2>5. pos' \in 0..1 /\ attempt' = 0 /\ round' = 1
    BY <2>2 DEF CallInv, Spent, Waiting
  <2>6. Sound'
    <3>1. pos' \in 0..Len(Chain) + 1
      BY <2>5, Bounds
    <3>2. pc' = "generate" => model' \in DOMAIN Backend \ {Xiangyun} /\ pos' \in 0..Len(Chain)
      BY <2>1, <2>2, Bounds
    <3> QED
      BY <2>2, <2>3, <2>4, <3>1, <3>2 DEF CallInv, Sound, Waiting, Sending, Adapting
  <2>7. Spent'
    <3>1. \A i \in 0..Len(Chain) : posts'[i] = 0
      BY <2>4, Bounds DEF CallInv, Sound, Spent, Waiting
    <3>2. pc' = "generate" => Rounds' \in 1..MaxN /\ MaxRetries(Adapter)' \in {1, 2}
      <4> SUFFICES ASSUME pc' = "generate"
                   PROVE  Rounds' \in 1..MaxN /\ MaxRetries(Adapter)' \in {1, 2}
        OBVIOUS
      <4>1. model' \in DOMAIN Backend \ {Xiangyun}
        BY <2>1, <2>2
      <4>2. (model \in DOMAIN Backend \ {Xiangyun} /\ call.n \in 1..MaxN
               => Rounds \in 1..MaxN /\ MaxRetries(Adapter) \in {1, 2})'
        BY AdapterFacts, PTL
      <4> QED
        BY <2>3, <4>1, <4>2
    <3> QED
      BY <2>2, <2>5, <3>1, <3>2, Bounds DEF Spent, Waiting, Sending, Adapting
  <2>8. Kept'
    BY <2>2, <2>4, GoOnKept DEF CallInv
  <2> QED
    BY <2>6, <2>7, <2>8 DEF CallInv
<1> QED
  BY <1>1, <1>2

LEMMA RunJobStep ==
  ASSUME CallInv, RunJob
  PROVE  CallInv'
BY ExecuteStep DEF RunJob

LEMMA ChatStep ==
  ASSUME CallInv, HandleChatCompletions
  PROVE  CallInv'
<1> PICK id \in DOMAIN Backend \cup {"unknown"}, n \in 0..MaxN + 1, stream \in BOOLEAN,
         fourK \in BOOLEAN, messages \in UpTo(Message, 2), creds \in Creds :
      IF stream \/ messages = << >> \/ ~Extracted(messages).prompt
        THEN Finish(BadRequest("bad_chat")) /\ UNCHANGED <<callVars, pos, model, lastErr, history>>
        ELSE Execute("chat", id, n, Extracted(messages).refs, "", FALSE, fourK, creds)
  BY DEF HandleChatCompletions
<1>1. pc = "idle"
  BY DEF HandleChatCompletions
<1>2. CASE stream \/ messages = << >> \/ ~Extracted(messages).prompt
  <2>1. pc' = "done" /\ images' = << >> /\ UNCHANGED <<posts, pos, history>>
    BY <1>2 DEF Finish, history
  <2>2. (Sound /\ Spent)'
    BY <2>1, OverStep DEF CallInv
  <2> QED
    BY <1>1, <2>1, <2>2, EndKept DEF CallInv
<1>3. CASE ~(stream \/ messages = << >> \/ ~Extracted(messages).prompt)
  BY <1>1, <1>3, ExecuteStep
<1> QED
  BY <1>2, <1>3

-----------------------------------------------------------------------------
(* The steps while an adapter has the call *)

LEMMA TryNextStep ==
  ASSUME CallInv, TryNext
  PROVE  CallInv'
<1>1. pc = "next" /\ attempt = 0 /\ round = 1 /\ UNCHANGED <<callVars, history>>
  BY DEF TryNext, CallInv, Spent, Waiting
<1>2. UNCHANGED <<posts, refused, answered, call>>
  BY <1>1 DEF history, callVars
<1> DEFINE id == IF Chain[pos] \in GeminiIDs THEN Resolve(Chain[pos], call.fourK) ELSE Chain[pos]
<1>3. CASE pos > Len(Chain)
  <2>1. pc' = "done" /\ images' = << >> /\ pos' = pos
    BY <1>3 DEF TryNext, Finish
  <2>2. (Sound /\ Spent)'
    BY <1>2, <2>1, OverStep DEF CallInv
  <2> QED
    BY <1>1, <2>1, <2>2, EndKept DEF CallInv
<1>4. CASE pos <= Len(Chain) /\ (Chain[pos] \in Skipped \/ id \notin DOMAIN Backend \ {Xiangyun})
  <2>1. pc' = "next" /\ pos' = pos + 1 /\ UNCHANGED <<attempt, round, images>>
    BY <1>1, <1>4, Bounds DEF TryNext, CallInv, Sound
  <2>2. Sound'
    BY <1>1, <1>2, <1>4, <2>1, Bounds DEF CallInv, Sound, Waiting, Sending, Adapting
  <2>3. Spent'
    BY <1>1, <1>2, <2>1, Bounds DEF CallInv, Sound, Spent, Waiting, Sending, Adapting
  <2> QED
    BY <1>1, <1>2, <2>1, <2>2, <2>3, GoOnKept DEF CallInv
<1>5. CASE pos <= Len(Chain) /\ Chain[pos] \notin Skipped /\ id \in DOMAIN Backend \ {Xiangyun}
  <2>1. pc' = "generate" /\ model' = id /\ UNCHANGED <<pos, attempt, round, images>>
    BY <1>1, <1>5, Bounds DEF TryNext, CallInv, Sound
  <2>2. call'.n \in 1..MaxN /\ model' \in DOMAIN Backend \ {Xiangyun}
    BY <1>1, <1>2, <1>5, <2>1 DEF CallInv, Sound
  <2> HIDE DEF id
  <2>3. Sound'
    BY <1>1, <1>2, <1>5, <2>1, <2>2, Bounds DEF CallInv, Sound, Waiting, Sending, Adapting
  <2>4. Rounds' \in 1..MaxN /\ MaxRetries(Adapter)' \in {1, 2}
    <3>1. (model \in DOMAIN Backend \ {Xiangyun} /\ call.n \in 1..MaxN
             => Rounds \in 1..MaxN /\ MaxRetries(Adapter) \in {1, 2})'
      BY AdapterFacts, PTL
    <3> QED
      BY <2>2, <3>1
  <2>5. Spent'
    BY <1>1, <1>2, <2>1, <2>4, Bounds DEF CallInv, Sound, Spent, Waiting, Sending, Adapting
  <2> QED
    BY <1>1, <1>2, <2>1, <2>3, <2>5, GoOnKept DEF CallInv
<1> QED
  BY <1>3, <1>4, <1>5, Bounds DEF CallInv, Sound

\* The adapter's number of attempts and of rounds stays while it has the call.
LEMMA SameAdapter ==
  ASSUME UNCHANGED <<call, model>>
  PROVE  MaxRetries(Adapter)' = MaxRetries(Adapter) /\ Rounds' = Rounds
BY DEF MaxRetries, Rounds, Adapter

\* A step of the HTTP client that does not end the adapter's call.
LEMMA ClientStep ==
  ASSUME CallInv, pc \in Adapting, UNCHANGED <<call, model, pos, round, images, refused, answered>>,
         \/ /\ pc \in {"generate"} \cup Sending /\ pc' \in Sending
            /\ UNCHANGED <<attempt, posts>>
         \/ /\ pc = "send" /\ pc' = "wait"
            /\ posts' = [posts EXCEPT ![pos] = @ + 1] /\ UNCHANGED attempt
         \/ /\ pc = "wait" /\ pc' \in Sending
            /\ CanRetry /\ attempt' = attempt + 1 /\ UNCHANGED posts
  PROVE  CallInv'
<1>1. /\ MaxRetries(Adapter)' = MaxRetries(Adapter) /\ Rounds' = Rounds /\ Counted' = Counted
      /\ MaxRetries(Adapter) \in {1, 2} /\ Rounds \in 1..MaxN /\ round \in 1..Rounds
      /\ attempt \in 0..MaxRetries(Adapter)
  BY SameAdapter, AdapterFacts DEF CallInv, Sound, Spent, Counted, Adapting, Sending
<1>2. Counted \in Nat
  <2>1. round - 1 \in Nat
    BY <1>1, Bounds
  <2>2. CASE MaxRetries(Adapter) = 1
    BY <2>1, <2>2 DEF Counted
  <2>3. CASE MaxRetries(Adapter) = 2
    BY <2>1, <2>3 DEF Counted
  <2> QED
    BY <1>1, <2>2, <2>3
<1>3. pos \in 0..Len(Chain) /\ posts[pos] \in Nat /\ pos \in Nat
  BY Bounds DEF CallInv, Sound, Adapting
<1>4. Sound'
  BY <1>3, Bounds DEF CallInv, Sound, Waiting, Sending, Adapting
<1>5. Spent'
  <2>1. attempt' \in 0..MaxRetries(Adapter)
    BY <1>1 DEF CanRetry
  <2>2. \A i \in 0..Len(Chain) : i > pos => posts'[i] = 0
    BY <1>3 DEF CallInv, Sound, Spent
  <2>3. pc = "generate" => posts[pos] = 0 /\ attempt = 0
    BY <1>3 DEF CallInv, Spent, Waiting
  <2>4. pc' \in Sending => posts'[pos] <= Counted + attempt'
    BY <1>1, <1>2, <1>3, <2>3 DEF CallInv, Spent, Sending
  <2>5. pc' = "wait" => posts'[pos] <= Counted + attempt' + 1
    BY <1>1, <1>2, <1>3 DEF CallInv, Sound, Spent, Sending
  <2>6. pc' \in Sending \cup {"wait"}
    OBVIOUS
  <2> QED
    BY <1>1, <2>1, <2>2, <2>4, <2>5, <2>6 DEF Spent, Waiting, Sending, Adapting
<1>6. Kept'
  BY GoOnKept DEF CallInv, Adapting, Sending
<1> QED
  BY <1>4, <1>5, <1>6 DEF CallInv

LEMMA GenerateStep ==
  ASSUME CallInv, Generate
  PROVE  CallInv'
<1>1. pc = "generate" /\ UNCHANGED callVars
  BY DEF Generate
<1>2. CASE \E type, code, cause : type # "ok" /\ Refuse(Err(type, code, cause))
  BY <1>1, <1>2, FailStep DEF Refuse, Adapting
<1>3. CASE Post
  <2>1. pc' = "send" /\ UNCHANGED <<call, model, pos, round, attempt, images, posts, refused, answered>>
    BY <1>1, <1>3 DEF Post, Locals, history, callVars
  <2> QED
    BY <1>1, <2>1, ClientStep DEF Adapting, Sending
<1>4. \/ Refuse(BadRequest("upstream_credentials"))
      \/ Refuse(Err("validation", "build_request", "none"))
      \/ Post
  BY DEF Generate, GenerateGemini, GenerateOpenAI, GenerateWan
<1> QED
  BY <1>2, <1>3, <1>4 DEF BadRequest

LEMMA SendStep ==
  ASSUME CallInv, Send
  PROVE  CallInv'
<1>1. pc = "send" /\ UNCHANGED callVars
  BY DEF Send
<1>2. CASE Return(Err("internal", "build_request_failed", "none")) /\ UNCHANGED posts
  BY <1>1, <1>2, FailStep DEF Adapting, Sending
<1>3. CASE Return(UpstreamTimeout) /\ UNCHANGED posts
  BY <1>1, <1>3, UpstreamFailStep DEF UpstreamTimeout, Adapting, Sending
<1>4. CASE /\ pc' = "wait" /\ posts' = [posts EXCEPT ![pos] = @ + 1]
           /\ UNCHANGED <<Locals, lastErr, result, refused, answered>>
  <2>1. UNCHANGED <<call, model, pos, round, attempt, images, refused, answered>>
    BY <1>1, <1>4 DEF Locals, callVars
  <2> QED
    BY <1>1, <1>4, <2>1, ClientStep DEF Adapting, Sending
<1> QED
  BY <1>2, <1>3, <1>4 DEF Send

LEMMA RetryStep ==
  ASSUME CallInv, pc = "wait", CanRetry, NEW where \in {"backoff", "retryAfter"}, Retry(where),
         UNCHANGED <<callVars, posts>>
  PROVE  CallInv'
<1>1. /\ attempt' = attempt + 1 /\ pc' = where
      /\ UNCHANGED <<call, model, pos, round, images, refused, answered, posts>>
  BY DEF Retry, callVars
<1> QED
  BY <1>1, ClientStep DEF Adapting, Sending

LEMMA NetworkErrorStep ==
  ASSUME CallInv, NEW cause, NetworkError(cause)
  PROVE  CallInv'
<1>1. CASE CanRetry
  BY <1>1, RetryStep DEF NetworkError
<1>2. CASE ~CanRetry
  BY <1>2, FailStep DEF NetworkError, Adapting
<1> QED
  BY <1>1, <1>2

LEMMA TransientStep ==
  ASSUME CallInv, NEW retryAfter, Transient(retryAfter)
  PROVE  CallInv'
<1>1. CASE CanRetry
  BY <1>1, RetryStep DEF Transient
<1>2. CASE ~CanRetry
  BY <1>2, UpstreamFailStep DEF Transient, Adapting
<1> QED
  BY <1>1, <1>2

LEMMA OtherFailStep ==
  ASSUME CallInv, AbortWait \/ ReadError \/ OtherStatus
  PROVE  CallInv'
<1>1. CASE AbortWait
  BY <1>1, UpstreamFailStep DEF AbortWait, UpstreamTimeout, Adapting
<1>2. CASE ReadError
  BY <1>2, FailStep DEF ReadError, Adapting
<1>3. CASE OtherStatus
  BY <1>3, UpstreamFailStep DEF OtherStatus, Adapting
<1> QED
  BY <1>1, <1>2, <1>3

LEMMA PauseStep ==
  ASSUME CallInv, RetryAfter \/ Backoff
  PROVE  CallInv'
<1>1. pc \in {"retryAfter", "backoff"} /\ UNCHANGED <<callVars, posts>>
  BY DEF RetryAfter, Backoff
<1>2. CASE Return(UpstreamTimeout)
  BY <1>1, <1>2, UpstreamFailStep DEF UpstreamTimeout, Adapting, Sending
<1>3. CASE Return(Err("upstream", "context_cancelled", CtxErr))
  BY <1>1, <1>3, FailStep DEF Adapting, Sending
<1>4. CASE pc' \in {"backoff", "send"} /\ UNCHANGED <<Locals, lastErr, result, refused, answered>>
  <2>1. UNCHANGED <<call, model, pos, round, attempt, images, posts, refused, answered>>
    BY <1>1, <1>4 DEF Locals, callVars
  <2> QED
    BY <1>1, <1>4, <2>1, ClientStep DEF Adapting, Sending
<1> QED
  BY <1>2, <1>3, <1>4 DEF RetryAfter, Backoff

-----------------------------------------------------------------------------
(* The steps that read an answer *)

\* The slots of an answer are a sequence, and so are those of them that are read.
LEMMA SlotsType ==
  ASSUME NEW slots \in Slots
  PROVE  slots \in Seq(Kinds)
<1>1. PICK k \in 0..MaxSlots : slots \in [1..k -> Kinds]
  BY DEF Slots, UpTo
<1>2. k \in Nat
  BY UpstreamAssumption
<1> QED
  BY <1>1, <1>2

LEMMA PartsType ==
  ASSUME NEW parts \in Parts
  PROVE  parts \in Seq(Kinds \cup {"none"})
<1>1. PICK k \in 0..MaxSlots : parts \in [1..k -> Kinds \cup {"none"}]
  BY DEF Parts, UpTo
<1>2. k \in Nat
  BY UpstreamAssumption
<1> QED
  BY <1>1, <1>2

LEMMA ReadSlots ==
  ASSUME NEW slots, slots \in Slots \/ slots \in Parts, NEW T \in SUBSET Kinds
  PROVE  LET read == Filter(slots, T) IN
         read \in Seq(Kinds) /\ \A k \in DOMAIN read : read[k] \in T
<1> DEFINE U == Kinds \cup {"none"}
           read == Filter(slots, T)
           n == Len(KeptAt(slots, T))
<1>1. slots \in Seq(U)
  <2>1. \A s \in Seq(Kinds) : s \in Seq(U)
    OBVIOUS
  <2> QED
    BY <2>1, SlotsType, PartsType
<1> HIDE DEF U
<1>2. read \in Seq(U) /\ DOMAIN read = 1..n /\ \A k \in DOMAIN read : read[k] \in T
  BY <1>1, FilterFacts
<1> HIDE DEF read, n
<1>3. Len(read) \in Nat /\ DOMAIN read = 1..Len(read)
  BY <1>2
<1>4. read = [k \in 1..Len(read) |-> read[k]]
  <2>1. \A s \in Seq(U) : s = [k \in 1..Len(s) |-> s[k]]
    OBVIOUS
  <2> QED
    BY <1>2, <2>1
<1>5. read \in [1..Len(read) -> Kinds]
  BY <1>2, <1>3, <1>4
<1>6. read \in Seq(Kinds)
  BY <1>3, <1>5
<1> QED
  BY <1>2, <1>6 DEF read

\* The images of a sequence of slots: as many, of this model and round, and of their kinds.
LEMMA ImgsFacts ==
  ASSUME CallInv, pc = "wait", NEW kinds \in Seq(Kinds)
  PROVE  /\ Imgs(kinds) \in Seq(Image) /\ DOMAIN Imgs(kinds) = DOMAIN kinds
         /\ kinds # << >> => Imgs(kinds) # << >>
         /\ \A i \in DOMAIN kinds : /\ Imgs(kinds)[i].model = model /\ Imgs(kinds)[i].round = round
                                    /\ Imgs(kinds)[i].kind = kinds[i]
<1> DEFINE k == Len(kinds)
<1>1. k \in Nat /\ kinds \in [1..k -> Kinds] /\ DOMAIN kinds = 1..k
  OBVIOUS
<1>2. kinds # << >> => k # 0
  OBVIOUS
<1> HIDE DEF k
<1>3. model \in DOMAIN Backend /\ round \in 1..MaxN
  BY AdapterFacts, Bounds DEF CallInv, Sound, Spent, Adapting
<1>4. \A i \in 1..k : Img(kinds[i]) \in Image
  BY <1>1, <1>3 DEF Img, Image
<1>5. Imgs(kinds) = [i \in 1..k |-> Img(kinds[i])]
  BY <1>1 DEF Imgs
<1>6. Imgs(kinds) \in [1..k -> Image]
  BY <1>4, <1>5
<1>7. Imgs(kinds) \in Seq(Image) /\ Len(Imgs(kinds)) = k
  BY <1>1, <1>6
<1>8. \A i \in DOMAIN kinds : Imgs(kinds)[i] = Img(kinds[i])
  BY <1>1, <1>5
<1> QED
  BY <1>1, <1>2, <1>5, <1>7, <1>8 DEF Img

\* What a response of Gemini is read as.
Inline(parts) == Filter(parts, {"b64", "spaces"})

LEMMA InlineImages ==
  ASSUME CallInv, pc = "wait", NEW parts \in Parts
  PROVE  LET found == Imgs(Inline(parts)) IN
         /\ found \in Seq(Image)
         /\ \A i \in DOMAIN found : found[i].model = model /\ found[i].round = round /\ ~Empty(found[i])
<1> DEFINE kinds == Inline(parts)
<1>1. {"b64", "spaces"} \in SUBSET Kinds
  BY DEF Kinds
<1>2. kinds \in Seq(Kinds) /\ \A k \in DOMAIN kinds : kinds[k] \in {"b64", "spaces"}
  BY <1>1, ReadSlots DEF Inline
<1> HIDE DEF kinds
<1>3. /\ Imgs(kinds) \in Seq(Image) /\ DOMAIN Imgs(kinds) = DOMAIN kinds
      /\ \A i \in DOMAIN kinds : /\ Imgs(kinds)[i].model = model /\ Imgs(kinds)[i].round = round
                                 /\ Imgs(kinds)[i].kind = kinds[i]
  BY <1>2, ImgsFacts
<1>4. \A i \in DOMAIN Imgs(kinds) : ~Empty(Imgs(kinds)[i])
  BY <1>2, <1>3 DEF Empty
<1> QED
  BY <1>3, <1>4 DEF kinds

LEMMA AnswerGeminiStep ==
  ASSUME CallInv, AnswerGemini
  PROVE  CallInv'
<1> PICK json \in BOOLEAN, error \in Codes, parts \in Parts :
      Collect(ParseGenerateContent(json, error, parts))
  BY DEF AnswerGemini
<1> DEFINE found == Imgs(Inline(parts))
           o == ParseGenerateContent(json, error, parts)
<1>1. pc = "wait" /\ UNCHANGED <<callVars, posts>>
  BY DEF AnswerGemini
<1>2. found \in Seq(Image)
  BY <1>1, InlineImages
<1>3. (\E code : o = UpstreamErr(code)) \/ o = OK(found)
  BY DEF ParseGenerateContent, ParseError, Inline
<1> HIDE DEF found, o
<1>4. CASE \E code : o = UpstreamErr(code)
  <2>1. Failed(o)
    BY <1>4, ErrorsFail DEF UpstreamErr
  <2>2. Return(o)
    BY <2>1 DEF Collect, o
  <2> QED
    BY <1>1, <1>4, <2>2, UpstreamFailStep DEF Adapting
<1>5. CASE o = OK(found)
  <2>1. ~Failed(o) /\ o.images = found
    BY <1>5, OKFacts
  <2>2. CASE found = << >>
    BY <1>1, <2>1, <2>2, UpstreamFailStep DEF Collect, o, Adapting
  <2>3. CASE found # << >> /\ round < Rounds
    <3>1. /\ images' = images \o found /\ round' = round + 1 /\ attempt' = 0 /\ pc' = "send"
          /\ UNCHANGED <<pos, model, refused, answered, call, posts>>
      BY <1>1, <2>1, <2>3 DEF Collect, o, callVars
    <3>2. images' \in Seq(Image)
      BY <1>2, <3>1 DEF CallInv, Sound
    <3>3. Sound'
      BY <1>1, <3>1, <3>2 DEF CallInv, Sound, Waiting, Sending, Adapting
    <3>4. /\ MaxRetries(Adapter)' = MaxRetries(Adapter) /\ Rounds' = Rounds
          /\ MaxRetries(Adapter) \in {1, 2} /\ Rounds \in 1..MaxN /\ round \in 1..Rounds
          /\ attempt \in 0..MaxRetries(Adapter) /\ posts[pos] <= Counted + attempt + 1
          /\ posts[pos] \in Nat
      BY <1>1, <3>1, SameAdapter, AdapterFacts DEF CallInv, Sound, Spent, Adapting
    <3>5. posts'[pos'] <= Counted' + attempt'
      <4>1. Counted' = round * (1 + MaxRetries(Adapter)) /\ posts[pos] <= Counted'
        <5>1. CASE MaxRetries(Adapter) = 1
          BY <3>1, <3>4, <5>1, Bounds DEF Counted
        <5>2. CASE MaxRetries(Adapter) = 2
          BY <3>1, <3>4, <5>2, Bounds DEF Counted
        <5> QED
          BY <3>4, <5>1, <5>2
      <4>2. round * (1 + MaxRetries(Adapter)) \in Nat
        BY <3>4, Bounds
      <4> QED
        BY <3>1, <3>4, <4>1, <4>2
    <3>6. Spent'
      BY <1>1, <2>3, <3>1, <3>4, <3>5, Bounds DEF CallInv, Sound, Spent, Waiting, Sending, Adapting
    <3> QED
      BY <1>1, <3>1, <3>3, <3>6, GoOnKept DEF CallInv
  <2>4. CASE found # << >> /\ ~(round < Rounds)
    <3>1. Return(OK(images \o found))
      BY <2>1, <2>4 DEF Collect, o
    <3>2. images \o found # << >>
      BY <1>2, <2>4 DEF CallInv, Sound
    <3>3. Deliverable(OK(images \o found))
      BY <3>2 DEF Deliverable
    <3> QED
      BY <1>1, <3>1, <3>3, ReturnStep DEF Adapting
  <2> QED
    BY <2>2, <2>3, <2>4
<1> QED
  BY <1>3, <1>4, <1>5

LEMMA SlotsDelivered ==
  ASSUME CallInv, pc = "wait", NEW slots \in Slots
  PROVE  Deliverable(ParseInnerPayload(slots))
<1>1. slots # << >> => Imgs(slots) # << >>
  BY SlotsType, ImgsFacts
<1> QED
  BY <1>1, ErrorsFail DEF ParseInnerPayload, Deliverable, UpstreamErr

LEMMA AnswerOpenAIStep ==
  ASSUME CallInv, AnswerOpenAI
  PROVE  CallInv'
<1> PICK json \in BOOLEAN, envelope \in {"", "success", "other"}, status \in {"", "SUCCESS", "other"},
         error \in Codes, slots \in Slots :
      Return(ParseOpenAIImages(json, envelope, status, error, slots))
  BY DEF AnswerOpenAI
<1>1. pc = "wait" /\ UNCHANGED <<callVars, posts>>
  BY DEF AnswerOpenAI
<1>2. \A code : Deliverable(UpstreamErr(code))
  BY ErrorsFail DEF Deliverable, UpstreamErr
<1>3. Deliverable(ParseOpenAIImages(json, envelope, status, error, slots))
  BY <1>1, <1>2, SlotsDelivered
     DEF ParseOpenAIImages, ParseError, ParseAggregatorEnvelope, ParseDirectImages
<1> QED
  BY <1>1, <1>3, ReturnStep DEF Adapting

LEMMA AnswerWanStep ==
  ASSUME CallInv, AnswerWan
  PROVE  CallInv'
<1> PICK json \in BOOLEAN, code \in Codes, content \in Parts, data \in Slots :
      LET o == ParseDashScope(json, code, content, data) IN
      Return(IF ~Failed(o) /\ o.images = << >> THEN UpstreamErr("empty_response") ELSE o)
  BY DEF AnswerWan
<1> DEFINE o == ParseDashScope(json, code, content, data)
<1>1. pc = "wait" /\ UNCHANGED <<callVars, posts>>
  BY DEF AnswerWan
<1>2. Failed(o) \/ \E ims : o = OK(ims)
  BY ErrorsFail DEF ParseDashScope, ParseError, UpstreamErr, ImagesFromDashScopeShape
<1> HIDE DEF o
<1>3. CASE ~Failed(o) /\ o.images = << >>
  BY <1>1, <1>3, UpstreamFailStep DEF Adapting, o
<1>4. CASE ~(~Failed(o) /\ o.images = << >>)
  <2>1. Deliverable(o)
    BY <1>2, <1>4, OKFacts DEF Deliverable
  <2>2. Return(o)
    BY <1>4 DEF o
  <2> QED
    BY <1>1, <2>1, <2>2, ReturnStep DEF Adapting
<1> QED
  BY <1>3, <1>4

-----------------------------------------------------------------------------
(* The invariant, and what follows from it *)

LEMMA CallInvInit ==
  ASSUME Init
  PROVE  CallInv
<1>1. Sound
  BY Bounds DEF Init, Sound, Waiting, Sending, Adapting
<1>2. Spent
  BY DEF Init, Spent, Waiting, Sending, Adapting
<1>3. Kept
  BY DEF Init, Kept, FallbackOnlyAfterUpstreamFailure, GoodAnswerKept
<1> QED
  BY <1>1, <1>2, <1>3 DEF CallInv

\* The deadline and the client's leaving change the context only.
LEMMA ContextStep ==
  ASSUME CallInv, UNCHANGED <<call, pc, pos, model, attempt, round, images, result, posts, refused, answered>>
  PROVE  CallInv'
<1>1. Sound'
  BY DEF CallInv, Sound, Adapting, Sending
<1>2. Spent'
  BY DEF CallInv, Spent, Counted, Rounds, Adapter, MaxRetries, Adapting, Sending
<1>3. Kept'
  BY DEF CallInv, Kept, FallbackOnlyAfterUpstreamFailure, GoodAnswerKept
<1> QED
  BY <1>1, <1>2, <1>3 DEF CallInv

LEMMA CallInvStep ==
  ASSUME CallInv, [Next]_vars
  PROVE  CallInv'
<1>1. CASE Deadline \/ Disconnect \/ UNCHANGED vars
  <2>1. UNCHANGED <<call, pc, pos, model, attempt, round, images, result, posts, refused, answered>>
    BY <1>1 DEF Deadline, Disconnect, vars, Locals, history
  <2> QED
    BY <2>1, ContextStep
<1>2. CASE Local
  BY <1>2, TryNextStep, GenerateStep, SendStep, OtherFailStep, PauseStep DEF Local
<1>3. CASE Remote
  BY <1>3, NetworkErrorStep, TransientStep, OtherFailStep, AnswerGeminiStep, AnswerOpenAIStep,
     AnswerWanStep DEF Remote
<1> QED
  BY <1>1, <1>2, <1>3, RunJobStep, ChatStep DEF Next

\* Along a call the POSTs, the attempts and the rounds agree, and nothing is given up or
\* answered before its end (the adapters and httpclient.Client.Do).
THEOREM CallIsSound == Spec => []CallInv
<1> QED
  BY CallInvInit, CallInvStep, PTL DEF Spec

LEMMA SpentBounds ==
  ASSUME CallInv
  PROVE  PostsBounded
<1> SUFFICES ASSUME Running, model # Xiangyun, pos \in DOMAIN posts
             PROVE  posts[pos] <= Rounds * (1 + MaxRetries(Adapter))
  BY DEF PostsBounded
<1>1. call.n \in 1..MaxN /\ pos \in 0..Len(Chain)
  BY DEF CallInv, Sound, Running
<1>2. Rounds \in Nat /\ MaxRetries(Adapter) \in {1, 2}
  BY <1>1, Bounds DEF Rounds, MaxRetries
<1>3. CASE pc = "next"
  <2>1. posts[pos] = 0
    BY <1>1, <1>3 DEF CallInv, Spent, Waiting
  <2> QED
    BY <1>2, <2>1
<1>4. CASE pc = "generate"
  <2>1. posts[pos] = 0
    BY <1>1, <1>4 DEF CallInv, Spent, Waiting
  <2> QED
    BY <1>2, <2>1
<1>5. CASE pc \in Sending \cup {"wait"}
  <2>1. /\ round \in 1..Rounds /\ attempt \in 0..MaxRetries(Adapter)
        /\ posts[pos] \in Nat /\ posts[pos] <= Counted + attempt + 1
    <3>1. round \in 1..Rounds /\ attempt \in 0..MaxRetries(Adapter) /\ posts[pos] \in Nat
      BY <1>1, <1>5 DEF CallInv, Sound, Spent, Adapting
    <3>2. Counted \in Int
      BY <1>2, <3>1 DEF Counted
    <3> QED
      BY <1>2, <1>5, <3>1, <3>2 DEF CallInv, Spent
  <2>2. CASE MaxRetries(Adapter) = 1
    BY <1>2, <2>1, <2>2 DEF Counted
  <2>3. CASE MaxRetries(Adapter) = 2
    BY <1>2, <2>1, <2>3 DEF Counted
  <2> QED
    BY <1>2, <2>2, <2>3
<1> QED
  BY <1>3, <1>4, <1>5 DEF CallInv, Sound, Running, Waiting

\* Whatever fails and however the deadline falls, a model is sent at most one POST and its
\* retries for each of its rounds (httpclient.Client.Do, gemini.Provider.Generate).
THEOREM PostsAreBounded == Spec => []PostsBounded
BY CallIsSound, SpentBounds, PTL

\* xiangyun goes on to another model only after failures on the upstream's side
\* (isRetriableUpstreamFailure).
THEOREM FallbackIsJustified == Spec => []FallbackOnlyAfterUpstreamFailure
<1>1. CallInv => FallbackOnlyAfterUpstreamFailure
  BY DEF CallInv, Kept
<1> QED
  BY <1>1, CallIsSound, PTL

\* An answer without a blank slot ends the request, and successfully
\* (xiangyun.Provider.Generate, executeImageGeneration).
THEOREM GoodAnswersAreKept == Spec => []GoodAnswerKept
<1>1. CallInv => GoodAnswerKept
  BY DEF CallInv, Kept
<1> QED
  BY <1>1, CallIsSound, PTL

-----------------------------------------------------------------------------
(* The second inductive invariant, about what a call has collected and      *)
(* what it returns.  Only Gemini collects: images of its model, none of     *)
(* them empty, of all rounds before the present one.                        *)

Collected ==
  /\ pc \in Waiting => images = << >>
  /\ pc \in Adapting =>
       /\ \A i \in DOMAIN images : images[i].model = model /\ ~Empty(images[i])
       /\ {images[i].round : i \in DOMAIN images} = 1..round - 1

AnswerInv == TypeOK /\ Collected /\ AnswerComplete

\* The images of a whole answer of the model that is being called.
Whole(ims) ==
  /\ ims \in Seq(Image) /\ ims # << >>
  /\ \A i \in DOMAIN ims : ims[i].model = model /\ (Adapter = "gemini" => ~Empty(ims[i]))
  /\ {ims[i].round : i \in DOMAIN ims} = 1..Rounds

\* What an adapter may return.
Returnable(o) == (Failed(o) /\ Outcome(o)) \/ \E ims : Whole(ims) /\ o = OK(ims)

-----------------------------------------------------------------------------
(* Outcomes *)

LEMMA OutcomeType ==
  ASSUME NEW type \in {"ok", "invalid_request", "validation", "not_found", "internal", "upstream"},
         NEW code, NEW cause \in {"none", "deadline", "canceled"}, NEW ims \in Seq(Image)
  PROVE  Outcome([type |-> type, code |-> code, cause |-> cause, images |-> ims])
BY DEF Outcome

LEMMA OKType ==
  ASSUME NEW ims \in Seq(Image)
  PROVE  Outcome(OK(ims))
BY OutcomeType DEF OK

LEMMA ErrType ==
  ASSUME NEW type \in {"invalid_request", "validation", "not_found", "internal", "upstream"},
         NEW code, NEW cause \in {"none", "deadline", "canceled"}
  PROVE  Outcome(Err(type, code, cause)) /\ Failed(Err(type, code, cause))
<1>1. << >> \in Seq(Image)
  OBVIOUS
<1> QED
  BY <1>1, OutcomeType, ErrorsFail DEF Err

LEMMA UpstreamErrType ==
  ASSUME NEW code
  PROVE  Outcome(UpstreamErr(code)) /\ Failed(UpstreamErr(code))
BY ErrType DEF UpstreamErr

LEMMA FilledFacts ==
  ASSUME NEW ims \in Seq(Image)
  PROVE  LET shown == Filter(ims, {im \in Image : ~Empty(im)}) IN
         /\ shown \in Seq(Image)
         /\ \A k \in DOMAIN shown : (\E i \in DOMAIN ims : shown[k] = ims[i]) /\ ~Empty(shown[k])
         /\ \A i \in DOMAIN ims : ~Empty(ims[i]) => \E k \in DOMAIN shown : shown[k] = ims[i]
<1> DEFINE T == {im \in Image : ~Empty(im)}
           shown == Filter(ims, T)
           at == KeptAt(ims, T)
<1>1. \A i \in DOMAIN ims : ims[i] \in Image
  OBVIOUS
<1>2. \A im \in Image : im \in T <=> ~Empty(im)
  OBVIOUS
<1> HIDE DEF T
<1>3. /\ shown \in Seq(Image) /\ DOMAIN shown = 1..Len(at)
      /\ \A k \in DOMAIN shown : shown[k] = ims[at[k]] /\ shown[k] \in T
      /\ \A i \in DOMAIN ims : ims[i] \in T => \E k \in DOMAIN shown : shown[k] = ims[i]
  BY FilterFacts
<1>4. at \in [1..Len(at) -> 1..Len(ims)] /\ DOMAIN ims = 1..Len(ims)
  BY KeptAtFacts
<1> HIDE DEF shown, at
<1>5. ASSUME NEW k \in DOMAIN shown
      PROVE  at[k] \in DOMAIN ims /\ shown[k] = ims[at[k]] /\ ~Empty(shown[k])
  BY <1>1, <1>2, <1>3, <1>4
<1>6. \A i \in DOMAIN ims : ~Empty(ims[i]) => \E k \in DOMAIN shown : shown[k] = ims[i]
  BY <1>1, <1>2, <1>3
<1> QED
  BY <1>3, <1>5, <1>6 DEF shown, T

\* A failure stays one at the end of a call.
LEMMA FinishFails ==
  ASSUME NEW o, Failed(o), Outcome(o), Finish(o)
  PROVE  Failed(result') /\ Outcome(result')
<1>1. CASE o.cause = "deadline"
  BY <1>1, UpstreamErrType DEF Finish, UpstreamTimeout
<1>2. CASE o.cause # "deadline"
  <2>1. result' = ChatContent(o)
    BY <1>2 DEF Finish
  <2> DEFINE shown == Filter(o.images, {im \in Image : ~Empty(im)})
  <2>2. shown \in Seq(Image)
    BY FilledFacts DEF Outcome
  <2>3. CASE call.entry = "chat"
    <3>1. result' = [o EXCEPT !.images = shown]
      BY <2>1, <2>3 DEF ChatContent
    <3> HIDE DEF shown
    <3> QED
      BY <2>2, <3>1 DEF Outcome, Failed
  <2>4. CASE call.entry # "chat"
    BY <2>1, <2>4 DEF ChatContent
  <2> QED
    BY <2>3, <2>4
<1> QED
  BY <1>1, <1>2

\* Images are shown at the end of a call, in a chat those that are not empty.
LEMMA FinishShows ==
  ASSUME NEW ims \in Seq(Image), ims # << >>, Finish(OK(ims))
  PROVE  /\ Outcome(result')
         /\ \A k \in DOMAIN result'.images : \E i \in DOMAIN ims : result'.images[k] = ims[i]
         /\ call.entry # "chat" => result'.images = ims
         /\ call.entry = "chat" => \A k \in DOMAIN result'.images : ~Empty(result'.images[k])
         /\ call.entry = "chat" => \A i \in DOMAIN ims : ~Empty(ims[i]) =>
              \E k \in DOMAIN result'.images : result'.images[k] = ims[i]
<1>1. OK(ims).cause = "none" /\ ~Failed(OK(ims)) /\ OK(ims).images = ims /\ Outcome(OK(ims))
  BY OKFacts, OKType
<1>2. result' = ChatContent(OK(ims))
  BY <1>1 DEF Finish
<1> DEFINE shown == Filter(ims, {im \in Image : ~Empty(im)})
           o == OK(ims)
<1>3. CASE call.entry = "chat"
  <2>1. result' = [o EXCEPT !.images = shown]
    BY <1>1, <1>2, <1>3 DEF ChatContent
  <2>2. /\ shown \in Seq(Image)
        /\ \A k \in DOMAIN shown : (\E i \in DOMAIN ims : shown[k] = ims[i]) /\ ~Empty(shown[k])
        /\ \A i \in DOMAIN ims : ~Empty(ims[i]) => \E k \in DOMAIN shown : shown[k] = ims[i]
    BY FilledFacts
  <2> HIDE DEF shown, o
  <2>3. result'.images = shown /\ Outcome(result')
    BY <1>1, <2>1, <2>2 DEF Outcome, o
  <2> QED
    BY <1>3, <2>2, <2>3
<1>4. CASE call.entry # "chat"
  <2>1. result' = o
    BY <1>2, <1>4 DEF ChatContent
  <2> HIDE DEF o
  <2> QED
    BY <1>1, <1>4, <2>1 DEF o
<1> QED
  BY <1>3, <1>4

LEMMA WholeEnd ==
  ASSUME NEW ims, Whole(ims), pos \in Nat, pos > 0 => Renderable(ims), Finish(OK(ims)),
         UNCHANGED <<callVars, model, pos>>
  PROVE  AnswerComplete' /\ Outcome(result')
<1> DEFINE r == result'.images
<1>1. ims \in Seq(Image) /\ ims # << >>
  BY DEF Whole
<1>2. /\ Outcome(result')
      /\ \A k \in DOMAIN r : \E i \in DOMAIN ims : r[k] = ims[i]
      /\ call.entry # "chat" => r = ims
      /\ call.entry = "chat" => \A k \in DOMAIN r : ~Empty(r[k])
      /\ call.entry = "chat" => \A i \in DOMAIN ims : ~Empty(ims[i]) => \E k \in DOMAIN r : r[k] = ims[i]
  BY <1>1, FinishShows
<1>3. r \in Seq(Image)
  BY <1>2 DEF Outcome
<1>4. \E i \in DOMAIN ims : TRUE
  <2>1. Len(ims) \in Nat /\ DOMAIN ims = 1..Len(ims) /\ Len(ims) # 0
    BY <1>1
  <2>2. 1 \in DOMAIN ims
    BY <2>1
  <2> QED
    BY <2>2
<1> DEFINE used == {r[i].model : i \in DOMAIN r}
           rounds == {r[i].round : i \in DOMAIN r}
           full == pos > 0 \/ Adapter = "gemini"
<1> HIDE DEF r
<1>5. used \subseteq {model}
  BY <1>2 DEF Whole
<1>6. rounds \subseteq 1..Rounds
  BY <1>2 DEF Whole
<1>7. full => \A i \in DOMAIN ims : ~Empty(ims[i])
  BY DEF Whole, Renderable, Blank, Empty
<1>8. full \/ call.entry # "chat" => \A i \in DOMAIN ims : \E k \in DOMAIN r : r[k] = ims[i]
  BY <1>2, <1>7
<1>9. full \/ call.entry # "chat" => used # {}
  BY <1>4, <1>8
<1>10. full => 1..Rounds \subseteq rounds
  BY <1>8 DEF Whole
<1>11. pos > 0 => Renderable(r)
  <2>1. pos > 0 => \A k \in DOMAIN r : ~Blank(r[k])
    BY <1>2 DEF Renderable
  <2>2. pos > 0 => r # << >>
    BY <1>9
  <2> QED
    BY <2>1, <2>2 DEF Renderable
<1>12. Adapter = Backend[model]
  BY DEF Adapter
<1>13. Backend[model] = "gemini" => rounds = 1..call.n
  BY <1>6, <1>10, <1>12 DEF Rounds
<1>14. Backend[model] # "gemini" => rounds \subseteq {1}
  BY <1>6, <1>12 DEF Rounds
<1>15. call.entry = "chat" \/ Adapter = "gemini" => \A i \in DOMAIN r : ~Empty(r[i])
  BY <1>2, <1>7
<1>16. call' = call /\ model' = model /\ pos' = pos
  BY DEF callVars
<1> HIDE DEF used, rounds, full
<1>17. /\ used \subseteq {model}
       /\ used # {} \/ (call.entry = "chat" /\ pos = 0 /\ Backend[model] # "gemini")
       /\ Backend[model] = "gemini" => rounds = 1..call.n
       /\ Backend[model] # "gemini" => rounds \subseteq {1}
       /\ pos > 0 => Renderable(r)
       /\ call.entry = "chat" \/ Backend[model] = "gemini" => \A i \in DOMAIN r : ~Empty(r[i])
  BY <1>5, <1>9, <1>11, <1>12, <1>13, <1>14, <1>15 DEF full
<1> QED
  BY <1>2, <1>16, <1>17 DEF AnswerComplete, r, used, rounds

-----------------------------------------------------------------------------
(* The steps *)

\* The part of the types that CallInv does not give.
Typed ==
  /\ call \in Call /\ ctx \in {"live", "deadline", "canceled"}
  /\ model \in DOMAIN Backend \cup {Xiangyun}
  /\ attempt \in 0..2 /\ round \in 1..MaxN
  /\ Outcome(lastErr) /\ Outcome(result)
  /\ refused \subseteq 0..Len(Chain) /\ answered \subseteq 0..Len(Chain)

LEMMA TypeFromParts == CallInv /\ Typed => TypeOK
<1> SUFFICES ASSUME CallInv, Typed
             PROVE  TypeOK
  OBVIOUS
<1>1. pc \in {"idle", "next", "generate", "send", "wait", "retryAfter", "backoff", "done"}
  BY DEF CallInv, Sound, Waiting, Sending
<1>2. pos \in 0..Len(Chain) + 1 /\ images \in Seq(Image) /\ posts \in [0..Len(Chain) -> Nat]
  BY DEF CallInv, Sound
<1> QED
  BY <1>1, <1>2 DEF Typed, TypeOK

\* A call that goes on without the adapter keeps nothing of what it collected.
LEMMA WaitingAnswer ==
  ASSUME (CallInv)', Typed', pc' \in Waiting, images' = << >>
  PROVE  AnswerInv'
<1>1. TypeOK'
  BY TypeFromParts, PTL
<1>2. pc' # "done" /\ pc' # "wait" /\ pc' \notin Sending
  BY DEF Waiting, Sending
<1>3. Collected'
  <2>1. pc' = "generate" => {images'[i].round : i \in DOMAIN images'} = 1..round' - 1
    <3>1. pc' = "generate" => round' = 1
      BY DEF CallInv, Spent, Waiting
    <3> QED
      BY <3>1
  <2> QED
    BY <1>2, <2>1 DEF Collected, Adapting
<1> QED
  BY <1>1, <1>2, <1>3 DEF AnswerInv, AnswerComplete

\* A failure ends the call.
LEMMA FailedEnd ==
  ASSUME CallInv', AnswerInv, NEW o, Failed(o), Outcome(o), Finish(o),
         UNCHANGED <<callVars, model, lastErr>>,
         refused' \subseteq 0..Len(Chain), answered' \subseteq 0..Len(Chain)
  PROVE  AnswerInv'
<1>1. Failed(result') /\ Outcome(result')
  BY FinishFails
<1>2. pc' = "done" /\ images' = << >> /\ attempt' = 0 /\ round' = 1
  BY DEF Finish
<1>3. Typed'
  BY <1>1, <1>2, Bounds DEF AnswerInv, TypeOK, Typed, callVars
<1>4. TypeOK'
  BY <1>3, TypeFromParts, PTL
<1>5. Collected' /\ AnswerComplete'
  BY <1>1, <1>2 DEF Collected, AnswerComplete, Waiting, Adapting, Sending
<1> QED
  BY <1>4, <1>5 DEF AnswerInv

LEMMA ReturnAnswer ==
  ASSUME CallInv, CallInv', AnswerInv, pc \in Adapting, NEW o, Returnable(o), Return(o),
         UNCHANGED callVars
  PROVE  AnswerInv'
<1> DEFINE f == IF Failed(o) \/ pos = 0 \/ Renderable(o.images) THEN o
                ELSE UpstreamErr("empty_image_slots")
           goes == pos > 0 /\ Failed(f) /\ IsRetriableUpstreamFailure(f)
<1>1. refused' \subseteq 0..Len(Chain) /\ answered' \subseteq 0..Len(Chain)
  <2>1. pos \in 0..Len(Chain)
    BY DEF CallInv, Sound
  <2>2. refused' \subseteq refused \cup {pos} /\ answered' \subseteq answered \cup {pos}
    BY DEF Return
  <2> QED
    BY <2>1, <2>2 DEF AnswerInv, TypeOK
<1>2. pos \in Nat
  BY Bounds DEF CallInv, Sound
<1>3. Failed(f) => Outcome(f)
  <2>1. Failed(o) => Outcome(o)
    BY OKFacts DEF Returnable
  <2> QED
    BY <2>1, UpstreamErrType
<1>4. ~Failed(f) => \E ims : Whole(ims) /\ f = OK(ims) /\ (pos > 0 => Renderable(ims))
  <2>1. ~Failed(f) => f = o /\ ~Failed(o) /\ (pos > 0 => Renderable(o.images))
    BY <1>2, UpstreamErrType
  <2> HIDE DEF f
  <2> QED
    BY <2>1, OKFacts DEF Returnable
<1>5. CASE goes
  <2>1. /\ pc' = "next" /\ lastErr' = f /\ images' = << >> /\ attempt' = 0 /\ round' = 1
        /\ UNCHANGED <<result, model>>
    BY <1>5 DEF Return
  <2>2. Typed'
    <3>1. Outcome(lastErr')
      BY <1>3, <1>5, <2>1
    <3> QED
      BY <1>1, <2>1, <3>1, Bounds DEF AnswerInv, TypeOK, Typed, callVars
  <2> QED
    BY <2>1, <2>2, WaitingAnswer DEF Waiting
<1>6. CASE ~goes /\ Failed(f)
  <2>1. Finish(f) /\ UNCHANGED <<lastErr, model>>
    BY <1>6 DEF Return
  <2> HIDE DEF f, goes
  <2> QED
    BY <1>1, <1>3, <1>6, <2>1, FailedEnd
<1>7. CASE ~goes /\ ~Failed(f)
  <2>1. Finish(f) /\ UNCHANGED <<lastErr, model, pos>>
    BY <1>7 DEF Return
  <2>2. AnswerComplete' /\ Outcome(result')
    <3> HIDE DEF f, goes
    <3>1. PICK ims : Whole(ims) /\ f = OK(ims) /\ (pos > 0 => Renderable(ims))
      BY <1>4, <1>7
    <3>2. Finish(OK(ims)) /\ UNCHANGED <<callVars, model, pos>>
      BY <2>1, <3>1
    <3> QED
      BY <1>2, <3>1, <3>2, WholeEnd
  <2>3. pc' = "done" /\ images' = << >> /\ attempt' = 0 /\ round' = 1
    BY <2>1 DEF Finish
  <2>4. Typed'
    BY <1>1, <2>1, <2>2, <2>3, Bounds DEF AnswerInv, TypeOK, Typed, callVars
  <2>5. TypeOK'
    BY <2>4, TypeFromParts, PTL
  <2>6. Collected'
    BY <2>3 DEF Collected, Waiting, Adapting, Sending
  <2> QED
    BY <2>2, <2>5, <2>6 DEF AnswerInv
<1> QED
  BY <1>5, <1>6, <1>7

LEMMA FailAnswer ==
  ASSUME CallInv, CallInv', AnswerInv, pc \in Adapting,
         NEW type \in {"invalid_request", "validation", "not_found", "internal", "upstream"},
         NEW code, NEW cause \in {"none", "deadline", "canceled"},
         Return(Err(type, code, cause)), UNCHANGED callVars
  PROVE  AnswerInv'
BY ErrType, ReturnAnswer DEF Returnable

LEMMA UpstreamFailAnswer ==
  ASSUME CallInv, CallInv', AnswerInv, pc \in Adapting, NEW code, Return(UpstreamErr(code)),
         UNCHANGED callVars
  PROVE  AnswerInv'
BY FailAnswer DEF UpstreamErr

\* The steps of the HTTP client leave what is collected alone.
LEMMA ClientAnswer ==
  ASSUME CallInv, CallInv', AnswerInv, pc \in Adapting, pc' \in Sending \cup {"wait"},
         UNCHANGED <<callVars, model, round, images, lastErr, result, refused, answered>>
  PROVE  AnswerInv'
<1>1. pc' \in Adapting /\ pc' \notin Waiting /\ pc' # "done"
  BY DEF Adapting, Waiting, Sending
<1>2. attempt' \in 0..2
  <2>1. attempt' \in 0..MaxRetries(Adapter)'
    BY <1>1 DEF CallInv, Spent
  <2>2. MaxRetries(Adapter)' \in {1, 2}
    BY DEF MaxRetries
  <2> QED
    BY <2>1, <2>2
<1>3. Typed'
  BY <1>2 DEF AnswerInv, TypeOK, Typed, callVars
<1>4. TypeOK'
  BY <1>3, TypeFromParts, PTL
<1>5. Collected'
  BY <1>1 DEF AnswerInv, Collected, Empty
<1> QED
  BY <1>1, <1>4, <1>5 DEF AnswerInv, AnswerComplete

LEMMA ExecuteAnswer ==
  ASSUME CallInv, CallInv', AnswerInv, pc = "idle", NEW entry \in {"job", "chat"}, NEW id,
         NEW n \in 0..MaxN + 1, NEW refs, NEW edit, NEW boxes \in BOOLEAN, NEW fourK \in BOOLEAN,
         NEW creds \in Creds, Execute(entry, id, n, refs, edit, boxes, fourK, creds)
  PROVE  AnswerInv'
<1> DEFINE m == Resolve(id, fourK)
           problem == IF n > MaxN THEN BadRequest("invalid_n")
                      ELSE IF ~Parse(refs) THEN BadRequest("invalid_reference")
                      ELSE IF m \notin DOMAIN Backend THEN Err("not_found", "model_not_found", "none")
                      ELSE NoOutcome
<1>1. UNCHANGED <<ctx, lastErr, refused, answered>>
  BY DEF Execute, history
<1>2. CASE Failed(problem)
  <2>1. Finish(problem) /\ UNCHANGED <<callVars, model>>
    BY <1>1, <1>2 DEF Execute, callVars
  <2>2. Outcome(problem)
    <3>1. /\ Outcome(BadRequest("invalid_n")) /\ Outcome(BadRequest("invalid_reference"))
          /\ Outcome(Err("not_found", "model_not_found", "none"))
      BY ErrType DEF BadRequest
    <3>2. Outcome(NoOutcome)
      <4>1. << >> \in Seq(Image)
        OBVIOUS
      <4> QED
        BY <4>1, OKType DEF NoOutcome
    <3> QED
      BY <3>1, <3>2
  <2>3. refused' \subseteq 0..Len(Chain) /\ answered' \subseteq 0..Len(Chain)
    BY <1>1 DEF AnswerInv, TypeOK
  <2> HIDE DEF problem
  <2> QED
    BY <1>1, <1>2, <2>1, <2>2, <2>3, FailedEnd
<1>3. CASE ~Failed(problem)
  <2>1. n <= MaxN /\ m \in DOMAIN Backend
    <3>1. /\ Failed(BadRequest("invalid_n")) /\ Failed(BadRequest("invalid_reference"))
          /\ Failed(Err("not_found", "model_not_found", "none"))
      BY DEF BadRequest, Err, Failed
    <3> QED
      BY <1>3, <3>1, Bounds
  <2>2. /\ call' = [entry |-> entry, n |-> IF n = 0 THEN 1 ELSE n, editable |-> EditAllowed(edit, refs, boxes),
                    fourK |-> fourK, creds |-> creds]
        /\ model' = m /\ pc' \in {"next", "generate"}
        /\ UNCHANGED <<attempt, round, images, result>>
    BY <1>3 DEF Execute
  <2> HIDE DEF problem, m
  <2>3. call' \in Call
    <3>1. (IF n = 0 THEN 1 ELSE n) \in 1..MaxN
      BY <2>1, Bounds
    <3>2. EditAllowed(edit, refs, boxes) \in BOOLEAN
      BY DEF EditAllowed
    <3> QED
      BY <2>2, <3>1, <3>2 DEF Call
  <2>4. Typed'
    BY <1>1, <2>1, <2>2, <2>3 DEF AnswerInv, TypeOK, Typed
  <2>5. images' = << >> /\ pc' \in Waiting
    BY <2>2 DEF AnswerInv, Collected, Waiting
  <2> QED
    BY <2>4, <2>5, WaitingAnswer
<1> QED
  BY <1>2, <1>3

LEMMA EntryAnswer ==
  ASSUME CallInv, CallInv', AnswerInv, RunJob \/ HandleChatCompletions
  PROVE  AnswerInv'
<1>1. CASE RunJob
  BY <1>1, ExecuteAnswer DEF RunJob
<1>2. CASE HandleChatCompletions
  <2> PICK id \in DOMAIN Backend \cup {"unknown"}, n \in 0..MaxN + 1, stream \in BOOLEAN,
           fourK \in BOOLEAN, messages \in UpTo(Message, 2), creds \in Creds :
        IF stream \/ messages = << >> \/ ~Extracted(messages).prompt
          THEN Finish(BadRequest("bad_chat")) /\ UNCHANGED <<callVars, pos, model, lastErr, history>>
          ELSE Execute("chat", id, n, Extracted(messages).refs, "", FALSE, fourK, creds)
    BY <1>2 DEF HandleChatCompletions
  <2>1. pc = "idle"
    BY <1>2 DEF HandleChatCompletions
  <2>2. CASE stream \/ messages = << >> \/ ~Extracted(messages).prompt
    <3>1. Outcome(BadRequest("bad_chat")) /\ Failed(BadRequest("bad_chat"))
      BY ErrType DEF BadRequest
    <3>2. /\ Finish(BadRequest("bad_chat"))
          /\ UNCHANGED <<callVars, model, lastErr>> /\ refused' = refused /\ answered' = answered
      BY <2>2 DEF history
    <3>3. refused' \subseteq 0..Len(Chain) /\ answered' \subseteq 0..Len(Chain)
      BY <3>2 DEF AnswerInv, TypeOK
    <3> QED
      BY <3>1, <3>2, <3>3, FailedEnd
  <2>3. CASE ~(stream \/ messages = << >> \/ ~Extracted(messages).prompt)
    BY <2>1, <2>3, ExecuteAnswer
  <2> QED
    BY <2>2, <2>3
<1> QED
  BY <1>1, <1>2

LEMMA TryNextAnswer ==
  ASSUME CallInv, CallInv', AnswerInv, TryNext
  PROVE  AnswerInv'
<1>1. /\ pc = "next" /\ UNCHANGED <<callVars, history>> /\ UNCHANGED <<refused, answered, call, ctx>>
      /\ refused' \subseteq 0..Len(Chain) /\ answered' \subseteq 0..Len(Chain)
  BY DEF TryNext, history, callVars, AnswerInv, TypeOK
<1> DEFINE id == IF Chain[pos] \in GeminiIDs THEN Resolve(Chain[pos], call.fourK) ELSE Chain[pos]
           gone == Err("internal", "xiangyun_backend", "none")
<1>2. CASE pos > Len(Chain)
  <2> DEFINE o == IF Failed(lastErr) THEN lastErr ELSE BadRequest("xiangyun_no_backend")
  <2>1. Finish(o) /\ UNCHANGED <<model, lastErr>>
    BY <1>2 DEF TryNext
  <2>2. Failed(o) /\ Outcome(o)
    BY ErrType DEF BadRequest, AnswerInv, TypeOK
  <2> HIDE DEF o
  <2> QED
    BY <1>1, <2>1, <2>2, FailedEnd
<1>3. CASE pos <= Len(Chain)
  <2>1. pos \in Nat
    BY Bounds DEF CallInv, Sound
  <2>2. /\ pc' \in {"next", "generate"} /\ UNCHANGED <<attempt, round, images, result>>
        /\ lastErr' \in {lastErr, gone} /\ model' \in {model} \cup DOMAIN Backend
    BY <1>1, <1>3, <2>1, Bounds DEF TryNext
  <2>3. Outcome(lastErr')
    BY <2>2, ErrType DEF AnswerInv, TypeOK
  <2>4. Typed'
    BY <1>1, <2>2, <2>3 DEF AnswerInv, TypeOK, Typed
  <2>5. images' = << >> /\ pc' \in Waiting
    BY <1>1, <2>2 DEF AnswerInv, Collected, Waiting
  <2> QED
    BY <2>4, <2>5, WaitingAnswer
<1> QED
  BY <1>2, <1>3, Bounds DEF CallInv, Sound

LEMMA GenerateAnswer ==
  ASSUME CallInv, CallInv', AnswerInv, Generate
  PROVE  AnswerInv'
<1>1. pc = "generate" /\ UNCHANGED callVars
  BY DEF Generate
<1>2. CASE Refuse(BadRequest("upstream_credentials"))
  BY <1>1, <1>2, FailAnswer DEF Refuse, BadRequest, Adapting
<1>3. CASE Refuse(Err("validation", "build_request", "none"))
  BY <1>1, <1>3, FailAnswer DEF Refuse, Adapting
<1>4. CASE Post
  <2>1. pc' = "send" /\ UNCHANGED <<model, round, images, lastErr, result, refused, answered>>
    BY <1>4 DEF Post, Locals, history
  <2> QED
    BY <1>1, <2>1, ClientAnswer DEF Adapting, Sending
<1>5. \/ Refuse(BadRequest("upstream_credentials"))
      \/ Refuse(Err("validation", "build_request", "none"))
      \/ Post
  BY DEF Generate, GenerateGemini, GenerateOpenAI, GenerateWan
<1> QED
  BY <1>2, <1>3, <1>4, <1>5

LEMMA CtxErrType ==
  ASSUME AnswerInv
  PROVE  CtxErr \in {"none", "deadline", "canceled"}
BY DEF AnswerInv, TypeOK, CtxErr

LEMMA PauseAnswer ==
  ASSUME CallInv, CallInv', AnswerInv, Send \/ AbortWait \/ RetryAfter \/ Backoff
  PROVE  AnswerInv'
<1>1. pc \in Adapting /\ UNCHANGED callVars
  BY DEF Send, AbortWait, RetryAfter, Backoff, Adapting, Sending
<1>2. CASE Return(UpstreamTimeout)
  BY <1>1, <1>2, UpstreamFailAnswer DEF UpstreamTimeout
<1>3. CASE Return(Err("internal", "build_request_failed", "none"))
  BY <1>1, <1>3, FailAnswer
<1>4. CASE Return(Err("upstream", "context_cancelled", CtxErr))
  BY <1>1, <1>4, CtxErrType, FailAnswer
<1>5. CASE pc' \in {"wait", "backoff", "send"} /\ UNCHANGED <<Locals, lastErr, result, refused, answered>>
  <2>1. UNCHANGED <<model, round, images, lastErr, result, refused, answered>>
    BY <1>5 DEF Locals
  <2> QED
    BY <1>1, <1>5, <2>1, ClientAnswer DEF Sending
<1> QED
  BY <1>2, <1>3, <1>4, <1>5 DEF Send, AbortWait, RetryAfter, Backoff

LEMMA RetryAnswer ==
  ASSUME CallInv, CallInv', AnswerInv, pc = "wait", NEW where \in {"backoff", "retryAfter"},
         Retry(where), UNCHANGED callVars
  PROVE  AnswerInv'
<1>1. pc' = where /\ UNCHANGED <<model, round, images, lastErr, result, refused, answered>>
  BY DEF Retry
<1> QED
  BY <1>1, ClientAnswer DEF Adapting, Sending

LEMMA RemoteFailAnswer ==
  ASSUME CallInv, CallInv', AnswerInv,
         \/ \E cause \in {"none", "deadline"} : NetworkError(cause)
         \/ ReadError
         \/ \E retryAfter \in BOOLEAN : Transient(retryAfter)
         \/ OtherStatus
  PROVE  AnswerInv'
<1>1. pc = "wait" /\ pc \in Adapting /\ UNCHANGED callVars
  BY DEF NetworkError, ReadError, Transient, OtherStatus, Adapting
<1>2. CASE \E where \in {"backoff", "retryAfter"} : Retry(where)
  BY <1>1, <1>2, RetryAnswer
<1>3. CASE \E cause \in {"none", "deadline"} : Return(Err("upstream", "exhausted_retries", cause))
  BY <1>1, <1>3, FailAnswer
<1>4. CASE Return(Err("upstream", "read_error", CtxErr))
  BY <1>1, <1>4, CtxErrType, FailAnswer
<1>5. CASE Return(UpstreamErr("upstream_http_error"))
  BY <1>1, <1>5, UpstreamFailAnswer
<1> QED
  BY <1>2, <1>3, <1>4, <1>5 DEF NetworkError, ReadError, Transient, OtherStatus

-----------------------------------------------------------------------------
(* The answers *)

\* A single answer of slots is whole where one round is all there is.
LEMMA SlotsWhole ==
  ASSUME CallInv, pc = "wait", Adapter # "gemini", NEW kinds \in Seq(Kinds), kinds # << >>
  PROVE  Whole(Imgs(kinds))
<1>1. Rounds = 1
  BY DEF Rounds
<1>2. round = 1
  <2>1. round \in 1..Rounds
    BY DEF CallInv, Spent, Adapting
  <2> QED
    BY <1>1, <2>1
<1>3. \E i \in DOMAIN kinds : TRUE
  <2>1. Len(kinds) \in Nat /\ DOMAIN kinds = 1..Len(kinds) /\ Len(kinds) # 0
    OBVIOUS
  <2>2. 1 \in DOMAIN kinds
    BY <2>1
  <2> QED
    BY <2>2
<1> DEFINE ims == Imgs(kinds)
<1>4. /\ ims \in Seq(Image) /\ DOMAIN ims = DOMAIN kinds /\ ims # << >>
      /\ \A i \in DOMAIN kinds : ims[i].model = model /\ ims[i].round = round /\ ims[i].kind = kinds[i]
  BY ImgsFacts
<1> HIDE DEF ims
<1>5. {ims[i].round : i \in DOMAIN ims} = 1..1
  BY <1>2, <1>3, <1>4
<1> QED
  BY <1>1, <1>4, <1>5 DEF Whole, ims

LEMMA AnswerOpenAIAnswer ==
  ASSUME CallInv, CallInv', AnswerInv, AnswerOpenAI
  PROVE  AnswerInv'
<1> PICK json \in BOOLEAN, envelope \in {"", "success", "other"}, status \in {"", "SUCCESS", "other"},
         error \in Codes, slots \in Slots :
      Return(ParseOpenAIImages(json, envelope, status, error, slots))
  BY DEF AnswerOpenAI
<1>1. pc = "wait" /\ Adapter = "openai" /\ pc \in Adapting /\ UNCHANGED callVars
  BY DEF AnswerOpenAI, Adapting
<1>2. \A code : Returnable(UpstreamErr(code))
  BY UpstreamErrType DEF Returnable
<1>3. Returnable(ParseInnerPayload(slots))
  <2>1. slots # << >> => Whole(Imgs(slots))
    BY <1>1, SlotsType, SlotsWhole
  <2> QED
    BY <1>2, <2>1 DEF ParseInnerPayload, Returnable
<1>4. Returnable(ParseOpenAIImages(json, envelope, status, error, slots))
  BY <1>2, <1>3 DEF ParseOpenAIImages, ParseError, ParseAggregatorEnvelope, ParseDirectImages
<1> QED
  BY <1>1, <1>4, ReturnAnswer

\* What a response of Wan is read as.
LEMMA DashScopeForms ==
  ASSUME NEW json, NEW code, NEW content \in Parts, NEW data \in Slots
  PROVE  LET o == ParseDashScope(json, code, content, data) IN
         \/ \E c : o = UpstreamErr(c)
         \/ \E shown \in Seq(Kinds) : o = OK(Imgs(shown))
<1>1. Kinds \in SUBSET Kinds /\ Kinds \ {"empty"} \in SUBSET Kinds
  OBVIOUS
<1>2. Filter(content, Kinds) \in Seq(Kinds) /\ Filter(data, Kinds \ {"empty"}) \in Seq(Kinds)
  BY <1>1, ReadSlots
<1> QED
  BY <1>2 DEF ParseDashScope, ParseError, ImagesFromDashScopeShape

LEMMA AnswerWanAnswer ==
  ASSUME CallInv, CallInv', AnswerInv, AnswerWan
  PROVE  AnswerInv'
<1> PICK json \in BOOLEAN, code \in Codes, content \in Parts, data \in Slots :
      LET o == ParseDashScope(json, code, content, data) IN
      Return(IF ~Failed(o) /\ o.images = << >> THEN UpstreamErr("empty_response") ELSE o)
  BY DEF AnswerWan
<1> DEFINE o == ParseDashScope(json, code, content, data)
<1>1. pc = "wait" /\ Adapter = "wan" /\ pc \in Adapting /\ UNCHANGED callVars
  BY DEF AnswerWan, Adapting
<1>2. ASSUME NEW shown \in Seq(Kinds)
      PROVE  Imgs(shown) # << >> => Whole(Imgs(shown))
  <2>1. shown # << >> => Whole(Imgs(shown))
    BY <1>1, SlotsWhole
  <2>2. shown = << >> => Imgs(shown) = << >>
    <3>1. Imgs(shown) \in Seq(Image) /\ DOMAIN Imgs(shown) = DOMAIN shown
      BY <1>1, ImgsFacts
    <3>2. \A s \in Seq(Image) : DOMAIN s = {} => s = << >>
      <4> TAKE s \in Seq(Image)
      <4>1. Len(s) \in Nat /\ DOMAIN s = 1..Len(s)
        OBVIOUS
      <4>2. DOMAIN s = {} => Len(s) = 0
        <5>1. Len(s) # 0 => 1 \in DOMAIN s
          BY <4>1
        <5> QED
          BY <5>1
      <4> QED
        BY <4>2
    <3>3. shown = << >> => DOMAIN shown = {}
      OBVIOUS
    <3> QED
      BY <3>1, <3>2, <3>3
  <2> QED
    BY <2>1, <2>2
<1>3. \A c : Failed(UpstreamErr(c)) /\ Returnable(UpstreamErr(c))
  BY UpstreamErrType DEF Returnable
<1>4. \/ \E c : o = UpstreamErr(c)
      \/ \E shown \in Seq(Kinds) : o = OK(Imgs(shown))
  BY DashScopeForms
<1> HIDE DEF o
<1>5. CASE ~Failed(o) /\ o.images = << >>
  <2>1. Return(UpstreamErr("empty_response"))
    BY <1>5 DEF o
  <2> QED
    BY <1>1, <2>1, UpstreamFailAnswer
<1>6. CASE Failed(o) \/ o.images # << >>
  <2>1. Return(o)
    BY <1>6 DEF o
  <2>2. Returnable(o)
    BY <1>2, <1>3, <1>4, <1>6, OKFacts DEF Returnable
  <2> QED
    BY <1>1, <2>1, <2>2, ReturnAnswer
<1> QED
  BY <1>5, <1>6

\* A round more: its images after those of the rounds before.
RoundsOf(ims) == {ims[i].round : i \in DOMAIN ims}
AllOf(ims, m) == \A i \in DOMAIN ims : ims[i].model = m /\ ~Empty(ims[i])

LEMMA JoinRounds ==
  ASSUME NEW s \in Seq(Image), NEW t \in Seq(Image), t # << >>, NEW k \in Nat \ {0}, NEW m,
         AllOf(s, m), RoundsOf(s) = 1..k - 1, AllOf(t, m), \A i \in DOMAIN t : t[i].round = k
  PROVE  s \o t \in Seq(Image) /\ s \o t # << >> /\ AllOf(s \o t, m) /\ RoundsOf(s \o t) = 1..k
<1> DEFINE u == s \o t
<1>1. /\ u \in Seq(Image) /\ Len(u) = Len(s) + Len(t) /\ Range(u) = Range(s) \cup Range(t)
  BY ConcatFacts
<1>2. Len(t) \in Nat /\ DOMAIN t = 1..Len(t) /\ Len(t) # 0 /\ Len(s) \in Nat
  OBVIOUS
<1>3. 1 \in DOMAIN t
  BY <1>2
<1> HIDE DEF u
<1>4. u # << >>
  <2>1. Len(u) # 0
    BY <1>1, <1>2
  <2> QED
    BY <2>1
<1>5. AllOf(u, m)
  <2>1. \A x \in Range(s) \cup Range(t) : x.model = m /\ ~Empty(x)
    BY DEF Range, AllOf
  <2> QED
    BY <1>1, <2>1 DEF Range, AllOf
<1>6. RoundsOf(u) = {x.round : x \in Range(s)} \cup {x.round : x \in Range(t)}
  <2>1. RoundsOf(u) = {x.round : x \in Range(u)}
    BY DEF Range, RoundsOf
  <2> QED
    BY <1>1, <2>1
<1>7. {x.round : x \in Range(s)} = 1..k - 1
  <2>1. RoundsOf(s) = {x.round : x \in Range(s)}
    BY DEF Range, RoundsOf
  <2> QED
    BY <2>1
<1>8. {x.round : x \in Range(t)} = {k}
  BY <1>3 DEF Range
<1>9. (1..k - 1) \cup {k} = 1..k
  OBVIOUS
<1> QED
  BY <1>1, <1>4, <1>5, <1>6, <1>7, <1>8, <1>9 DEF u

LEMMA AnswerGeminiAnswer ==
  ASSUME CallInv, CallInv', AnswerInv, AnswerGemini
  PROVE  AnswerInv'
<1> PICK json \in BOOLEAN, error \in Codes, parts \in Parts :
      Collect(ParseGenerateContent(json, error, parts))
  BY DEF AnswerGemini
<1> DEFINE found == Imgs(Inline(parts))
           o == ParseGenerateContent(json, error, parts)
           all == images \o found
<1>1. pc = "wait" /\ Adapter = "gemini" /\ pc \in Adapting /\ UNCHANGED callVars
  BY DEF AnswerGemini, Adapting
<1>2. /\ found \in Seq(Image)
      /\ \A i \in DOMAIN found : found[i].model = model /\ found[i].round = round /\ ~Empty(found[i])
  BY <1>1, InlineImages
<1>3. (\E code : o = UpstreamErr(code)) \/ o = OK(found)
  BY DEF ParseGenerateContent, ParseError, Inline
<1> HIDE DEF found, o
<1>4. round \in Nat \ {0} /\ round \in 1..Rounds /\ Rounds \in 1..MaxN
  BY <1>1, AdapterFacts, Bounds DEF CallInv, Sound, Spent, Adapting
<1>5. found # << >> => all \in Seq(Image) /\ all # << >> /\ AllOf(all, model) /\ RoundsOf(all) = 1..round
  <2>1. images \in Seq(Image) /\ AllOf(images, model) /\ RoundsOf(images) = 1..round - 1
    BY <1>1 DEF AnswerInv, TypeOK, Collected, AllOf, RoundsOf
  <2>2. AllOf(found, model) /\ \A i \in DOMAIN found : found[i].round = round
    BY <1>2 DEF AllOf
  <2> QED
    BY <1>2, <1>4, <2>1, <2>2, JoinRounds
<1> HIDE DEF all
<1>6. CASE \E code : o = UpstreamErr(code)
  <2>1. Failed(o)
    BY <1>6, UpstreamErrType
  <2>2. Return(o)
    BY <2>1 DEF Collect, o
  <2> QED
    BY <1>1, <1>6, <2>2, UpstreamFailAnswer
<1>7. CASE o = OK(found)
  <2>1. ~Failed(o) /\ o.images = found
    BY <1>7, OKFacts
  <2>2. CASE found = << >>
    BY <1>1, <2>1, <2>2, UpstreamFailAnswer DEF Collect, o
  <2>3. CASE found # << >> /\ round < Rounds
    <3>1. /\ images' = all /\ round' = round + 1 /\ attempt' = 0 /\ pc' = "send"
          /\ UNCHANGED <<model, lastErr, result, refused, answered>>
      BY <2>1, <2>3 DEF Collect, o, all
    <3>2. Typed'
      <4>1. round' \in 1..MaxN
        BY <1>4, <2>3, <3>1, Bounds
      <4> QED
        BY <1>1, <3>1, <4>1 DEF AnswerInv, TypeOK, Typed, callVars
    <3>3. TypeOK'
      BY <3>2, TypeFromParts, PTL
    <3>4. Collected'
      <4>1. 1..round = 1..round' - 1
        BY <1>4, <3>1
      <4> QED
        BY <1>5, <2>3, <3>1, <4>1 DEF Collected, Waiting, Empty, AllOf, RoundsOf
    <3> QED
      BY <3>1, <3>3, <3>4 DEF AnswerInv, AnswerComplete
  <2>4. CASE found # << >> /\ ~(round < Rounds)
    <3>1. Return(OK(all))
      BY <2>1, <2>4 DEF Collect, o, all
    <3>2. Whole(all)
      <4>1. round = Rounds
        BY <1>4, <2>4, Bounds
      <4> QED
        BY <1>5, <2>4, <4>1 DEF Whole, AllOf, RoundsOf
    <3>3. Returnable(OK(all))
      BY <3>2 DEF Returnable
    <3> QED
      BY <1>1, <3>1, <3>3, ReturnAnswer
  <2> QED
    BY <2>2, <2>3, <2>4
<1> QED
  BY <1>3, <1>6, <1>7

-----------------------------------------------------------------------------
LEMMA AnswerInvInit ==
  ASSUME Init
  PROVE  AnswerInv
<1>1. CallInv
  BY CallInvInit
<1>2. << >> \in Seq(Image) /\ pc = "idle" /\ images = << >>
  BY DEF Init
<1>3. call \in Call
  BY Bounds DEF Init, NoCall, Call, Creds
<1>4. Outcome(lastErr) /\ Outcome(result)
  BY <1>2, OKType DEF Init, NoOutcome
<1>5. Typed
  BY <1>3, <1>4, Bounds DEF Init, Typed
<1>6. TypeOK
  BY <1>1, <1>5, TypeFromParts
<1> QED
  BY <1>2, <1>6 DEF AnswerInv, Collected, AnswerComplete, Waiting, Adapting, Sending

LEMMA ContextAnswer ==
  ASSUME CallInv', AnswerInv, ctx' \in {ctx, "deadline", "canceled"},
         UNCHANGED <<call, pc, pos, model, attempt, round, images, lastErr, result, refused, answered>>
  PROVE  AnswerInv'
<1>1. Typed'
  BY DEF AnswerInv, TypeOK, Typed
<1>2. TypeOK'
  BY <1>1, TypeFromParts, PTL
<1>3. Collected'
  BY DEF AnswerInv, Collected, Adapting
<1>4. AnswerComplete'
  BY DEF AnswerInv, AnswerComplete
<1> QED
  BY <1>2, <1>3, <1>4 DEF AnswerInv

LEMMA AnswerInvStep ==
  ASSUME CallInv, CallInv', AnswerInv, [Next]_vars
  PROVE  AnswerInv'
<1>1. CASE Deadline \/ Disconnect \/ UNCHANGED vars
  <2>1. /\ ctx' \in {ctx, "deadline", "canceled"}
        /\ UNCHANGED <<call, pc, pos, model, attempt, round, images, lastErr, result, refused, answered>>
    BY <1>1 DEF Deadline, Disconnect, vars, Locals, history
  <2> QED
    BY <2>1, ContextAnswer
<1>2. CASE Local
  BY <1>2, TryNextAnswer, GenerateAnswer, PauseAnswer DEF Local
<1>3. CASE Remote
  BY <1>3, RemoteFailAnswer, AnswerGeminiAnswer, AnswerOpenAIAnswer, AnswerWanAnswer DEF Remote
<1> QED
  BY <1>1, <1>2, <1>3, EntryAnswer DEF Next

\* What a call has collected is of the model and the rounds it went through, and its outcome
\* is an error or a whole answer (the adapters' Generate, executeImageGeneration).
THEOREM AnswersAreSound == Spec => []AnswerInv
<1>1. Init => CallInv /\ AnswerInv
  BY CallInvInit, AnswerInvInit
<1>2. CallInv /\ AnswerInv /\ [Next]_vars => (CallInv /\ AnswerInv)'
  BY CallInvStep, AnswerInvStep
<1> QED
  BY <1>1, <1>2, PTL DEF Spec

\* The types of a call's state, for every registry, chain and bound.
THEOREM TypeCorrect == Spec => []TypeOK
<1>1. AnswerInv => TypeOK
  BY DEF AnswerInv
<1> QED
  BY <1>1, AnswersAreSound, PTL

\* An answer is whole: of one model, of every round of Gemini, with nothing of the models
\* that failed before, with no blank slot from the meta model and no empty one from Gemini or
\* in a chat, whatever blank slots the adapters let through (xiangyun.Provider.Generate,
\* gemini.Provider.Generate, wan's imagesFromDashScopeShape, buildChatCompletionsResponse).
THEOREM AnswersAreComplete == Spec => []AnswerComplete
<1>1. AnswerInv => AnswerComplete
  BY DEF AnswerInv
<1> QED
  BY <1>1, AnswersAreSound, PTL

-----------------------------------------------------------------------------
(* Progress.  That a call ends needs fairness, and is left to TLC          *)
(* (CallEnds); that no step takes it back does not.                        *)

\* The order of the steps of one attempt.
Stage == [next |-> 1, generate |-> 2, retryAfter |-> 3, backoff |-> 4, send |-> 5, wait |-> 6]

\* Another model, else another round, else another attempt, else another step of this one.
Forward ==
  \/ pos' > pos
  \/ pos' = pos /\ round' > round
  \/ pos' = pos /\ round' = round /\ attempt' > attempt
  \/ pos' = pos /\ round' = round /\ attempt' = attempt /\ Stage[pc'] > Stage[pc]

\* Every step of a call ends it or takes it forward, but for the one in which its context
\* dies; and what is over stays over.
CallGoesForward ==
  [][/\ pc # "done"
     /\ Running => \/ ctx = "live" /\ ctx' # "live" /\ UNCHANGED <<pc, pos, round, attempt>>
                   \/ pc' = "done"
                   \/ Running' /\ Forward]_vars

\* An upstream failure, but for a timeout, ends a request to the meta model only when there
\* is no model left to try.
GivesUp == pos > 0 /\ result'.type = "upstream" /\ result'.code # "upstream_timeout"
ChainIsExhausted ==
  [][(pc # "done" /\ pc' = "done" /\ GivesUp) => pos > Len(Chain)]_vars

Goes ==
  \/ Running' /\ Forward
  \/ pc' = "done" /\ (GivesUp => pos > Len(Chain))

LEMMA Counters ==
  ASSUME AnswerInv
  PROVE  pos \in Nat /\ round \in Nat /\ attempt \in Nat
BY Bounds DEF AnswerInv, TypeOK

LEMMA LaterStage ==
  ASSUME AnswerInv, UNCHANGED <<pos, round, attempt>>,
         pc \in DOMAIN Stage, pc' \in DOMAIN Stage, Stage[pc'] > Stage[pc]
  PROVE  Goes
<1>1. Running'
  BY DEF Stage, Running
<1> QED
  BY <1>1 DEF Goes, Forward

LEMMA ShownType ==
  ASSUME NEW o, Outcome(o)
  PROVE  ChatContent(o).type = o.type /\ ChatContent(o).code = o.code
<1> DEFINE shown == Filter(o.images, {im \in Image : ~Empty(im)})
<1>1. CASE call.entry = "chat"
  <2>1. ChatContent(o) = [o EXCEPT !.images = shown]
    BY <1>1 DEF ChatContent
  <2> HIDE DEF shown
  <2> QED
    BY <2>1 DEF Outcome
<1>2. CASE call.entry # "chat"
  BY <1>2 DEF ChatContent
<1> QED
  BY <1>1, <1>2

\* What an adapter returns: a failure, or some images.
Typical(o) ==
  /\ Outcome(o)
  /\ ~Failed(o) => o.images # << >>

LEMMA FailTypical ==
  ASSUME NEW o, Failed(o), Outcome(o)
  PROVE  Typical(o)
BY DEF Typical

LEMMA OKTypical ==
  ASSUME NEW ims \in Seq(Image), ims # << >>
  PROVE  Typical(OK(ims))
BY OKFacts, OKType DEF Typical

LEMMA ReturnGoes ==
  ASSUME CallInv, AnswerInv, pc \in Adapting, NEW o, Typical(o), Return(o)
  PROVE  Goes
<1> DEFINE f == IF Failed(o) \/ pos = 0 \/ Renderable(o.images) THEN o
                ELSE UpstreamErr("empty_image_slots")
           goes == pos > 0 /\ Failed(f) /\ IsRetriableUpstreamFailure(f)
<1>1. Typical(f)
  BY UpstreamErrType, FailTypical
<1>2. CASE goes
  <2>1. pc' = "next" /\ pos' = pos + 1
    BY <1>2 DEF Return
  <2>2. pos' > pos
    BY <2>1, Counters
  <2> QED
    BY <2>1, <2>2 DEF Goes, Forward, Running
<1>3. CASE ~goes
  <2>1. Finish(f)
    BY <1>3 DEF Return
  <2>2. CASE pos = 0
    BY <2>1, <2>2 DEF Finish, Goes, GivesUp
  <2>3. CASE pos # 0
    <3>1. Failed(f) => ~IsRetriableUpstreamFailure(f)
      BY <1>3, <2>3, Counters
    <3> HIDE DEF f, goes
    <3>2. CASE f.cause = "deadline"
      <4>1. result' = UpstreamTimeout
        BY <2>1, <3>2 DEF Finish
      <4>2. result'.code = "upstream_timeout"
        BY <4>1, ErrorsFail DEF UpstreamTimeout, UpstreamErr
      <4> QED
        BY <2>1, <4>2 DEF Finish, Goes, GivesUp
    <3>3. CASE f.cause # "deadline"
      <4>1. result' = ChatContent(f)
        BY <1>1, <2>1, <3>3 DEF Finish, Typical
      <4>2. result'.type = f.type /\ result'.code = f.code
        BY <1>1, <4>1, ShownType DEF Typical
      <4>3. ~GivesUp
        BY <3>1, <3>3, <4>2 DEF GivesUp, IsRetriableUpstreamFailure, Failed
      <4> QED
        BY <2>1, <4>3 DEF Finish, Goes
    <3> QED
      BY <3>2, <3>3
  <2> QED
    BY <2>2, <2>3
<1> QED
  BY <1>2, <1>3

LEMMA FailGoes ==
  ASSUME CallInv, AnswerInv, pc \in Adapting,
         NEW type \in {"invalid_request", "validation", "not_found", "internal", "upstream"},
         NEW code, NEW cause \in {"none", "deadline", "canceled"},
         Return(Err(type, code, cause))
  PROVE  Goes
BY ErrType, FailTypical, ReturnGoes

LEMMA UpstreamFailGoes ==
  ASSUME CallInv, AnswerInv, pc \in Adapting, NEW code, Return(UpstreamErr(code))
  PROVE  Goes
BY FailGoes DEF UpstreamErr

LEMMA TryNextGoes ==
  ASSUME CallInv, AnswerInv, TryNext
  PROVE  Goes
<1>1. pc = "next"
  BY DEF TryNext
<1>2. CASE pos > Len(Chain)
  BY <1>2 DEF TryNext, Finish, Goes
<1>3. CASE pos <= Len(Chain)
  <2>1. \/ pc' = "next" /\ pos' = pos + 1
        \/ pc' = "generate" /\ UNCHANGED <<pos, round, attempt>>
    BY <1>1, <1>3, Counters, Bounds DEF TryNext
  <2>2. CASE pc' = "next" /\ pos' = pos + 1
    <3>1. pos' > pos
      BY <2>2, Counters
    <3> QED
      BY <2>2, <3>1 DEF Goes, Forward, Running
  <2>3. CASE pc' = "generate" /\ UNCHANGED <<pos, round, attempt>>
    BY <1>1, <2>3, LaterStage DEF Stage
  <2> QED
    BY <2>1, <2>2, <2>3
<1> QED
  BY <1>2, <1>3, Counters, Bounds

LEMMA GenerateGoes ==
  ASSUME CallInv, AnswerInv, Generate
  PROVE  Goes
<1>1. pc = "generate" /\ pc \in Adapting
  BY DEF Generate, Adapting
<1>2. CASE Refuse(BadRequest("upstream_credentials"))
  BY <1>1, <1>2, FailGoes DEF Refuse, BadRequest
<1>3. CASE Refuse(Err("validation", "build_request", "none"))
  BY <1>1, <1>3, FailGoes DEF Refuse
<1>4. CASE Post
  <2>1. pc' = "send" /\ UNCHANGED <<pos, round, attempt>>
    BY <1>4 DEF Post, Locals
  <2> QED
    BY <1>1, <2>1, LaterStage DEF Stage
<1>5. \/ Refuse(BadRequest("upstream_credentials"))
      \/ Refuse(Err("validation", "build_request", "none"))
      \/ Post
  BY DEF Generate, GenerateGemini, GenerateOpenAI, GenerateWan
<1> QED
  BY <1>2, <1>3, <1>4, <1>5

\* The steps of the HTTP client that the adapter waits for.
LEMMA ClientGoes ==
  ASSUME CallInv, AnswerInv, Send \/ AbortWait \/ RetryAfter \/ Backoff
  PROVE  Goes
<1>1. pc \in Adapting
  BY DEF Send, AbortWait, RetryAfter, Backoff, Adapting, Sending
<1>2. CASE Return(UpstreamTimeout)
  BY <1>1, <1>2, UpstreamFailGoes DEF UpstreamTimeout
<1>3. CASE Return(Err("internal", "build_request_failed", "none"))
  BY <1>1, <1>3, FailGoes
<1>4. CASE Return(Err("upstream", "context_cancelled", CtxErr))
  BY <1>1, <1>4, CtxErrType, FailGoes
<1>5. CASE /\ UNCHANGED Locals
           /\ \/ pc = "send" /\ pc' = "wait"
              \/ pc = "retryAfter" /\ pc' = "backoff"
              \/ pc = "backoff" /\ pc' = "send"
  <2>1. UNCHANGED <<pos, round, attempt>>
    BY <1>5 DEF Locals
  <2> QED
    BY <1>5, <2>1, LaterStage DEF Stage
<1> QED
  BY <1>2, <1>3, <1>4, <1>5 DEF Send, AbortWait, RetryAfter, Backoff

LEMMA RetryGoes ==
  ASSUME AnswerInv, NEW where \in {"backoff", "retryAfter"}, Retry(where)
  PROVE  Goes
<1>1. UNCHANGED <<pos, round>> /\ attempt' > attempt /\ pc' = where
  BY Counters DEF Retry
<1> QED
  BY <1>1 DEF Goes, Forward, Running

LEMMA RemoteFailGoes ==
  ASSUME CallInv, AnswerInv,
         \/ \E cause \in {"none", "deadline"} : NetworkError(cause)
         \/ ReadError
         \/ \E retryAfter \in BOOLEAN : Transient(retryAfter)
         \/ OtherStatus
  PROVE  Goes
<1>1. pc \in Adapting
  BY DEF NetworkError, ReadError, Transient, OtherStatus, Adapting
<1>2. CASE \E where \in {"backoff", "retryAfter"} : Retry(where)
  BY <1>2, RetryGoes
<1>3. CASE \E cause \in {"none", "deadline"} : Return(Err("upstream", "exhausted_retries", cause))
  BY <1>1, <1>3, FailGoes
<1>4. CASE Return(Err("upstream", "read_error", CtxErr))
  BY <1>1, <1>4, CtxErrType, FailGoes
<1>5. CASE Return(UpstreamErr("upstream_http_error"))
  BY <1>1, <1>5, UpstreamFailGoes
<1> QED
  BY <1>2, <1>3, <1>4, <1>5 DEF NetworkError, ReadError, Transient, OtherStatus

LEMMA AnswerGeminiGoes ==
  ASSUME CallInv, AnswerInv, AnswerGemini
  PROVE  Goes
<1> PICK json \in BOOLEAN, error \in Codes, parts \in Parts :
      Collect(ParseGenerateContent(json, error, parts))
  BY DEF AnswerGemini
<1> DEFINE found == Imgs(Inline(parts))
           o == ParseGenerateContent(json, error, parts)
<1>1. pc = "wait" /\ pc \in Adapting
  BY DEF AnswerGemini, Adapting
<1>2. found \in Seq(Image)
  BY <1>1, InlineImages
<1>3. (\E code : o = UpstreamErr(code)) \/ o = OK(found)
  BY DEF ParseGenerateContent, ParseError, Inline
<1> HIDE DEF found
<1>4. Outcome(o)
  BY <1>2, <1>3, OKType, UpstreamErrType
<1>5. o.images \in Seq(Image)
  BY <1>4 DEF Outcome
<1> HIDE DEF o
<1>6. CASE Failed(o)
  <2>1. Return(o)
    BY <1>6 DEF Collect, o
  <2> QED
    BY <1>1, <1>4, <1>6, <2>1, FailTypical, ReturnGoes
<1>7. CASE ~Failed(o) /\ o.images = << >>
  BY <1>1, <1>7, UpstreamFailGoes DEF Collect, o
<1>8. CASE ~Failed(o) /\ o.images # << >> /\ round < Rounds
  <2>1. pos' = pos /\ round' = round + 1 /\ pc' = "send"
    BY <1>8 DEF Collect, o
  <2>2. round' > round
    BY <2>1, Counters
  <2> QED
    BY <2>1, <2>2 DEF Goes, Forward, Running
<1>9. CASE ~Failed(o) /\ o.images # << >> /\ ~(round < Rounds)
  <2>1. Return(OK(images \o o.images))
    BY <1>9 DEF Collect, o
  <2>2. images \o o.images \in Seq(Image) /\ images \o o.images # << >>
    BY <1>5, <1>9 DEF AnswerInv, TypeOK
  <2> QED
    BY <1>1, <2>1, <2>2, OKTypical, ReturnGoes
<1> QED
  BY <1>6, <1>7, <1>8, <1>9

LEMMA AnswerOpenAIGoes ==
  ASSUME CallInv, AnswerInv, AnswerOpenAI
  PROVE  Goes
<1> PICK json \in BOOLEAN, envelope \in {"", "success", "other"}, status \in {"", "SUCCESS", "other"},
         error \in Codes, slots \in Slots :
      Return(ParseOpenAIImages(json, envelope, status, error, slots))
  BY DEF AnswerOpenAI
<1>1. pc = "wait" /\ pc \in Adapting
  BY DEF AnswerOpenAI, Adapting
<1>2. \A code : Typical(UpstreamErr(code))
  BY UpstreamErrType, FailTypical
<1>3. Typical(ParseInnerPayload(slots))
  <2>1. slots # << >> => Imgs(slots) \in Seq(Image) /\ Imgs(slots) # << >>
    BY <1>1, SlotsType, ImgsFacts
  <2> QED
    BY <1>2, <2>1, OKTypical DEF ParseInnerPayload
<1>4. Typical(ParseOpenAIImages(json, envelope, status, error, slots))
  BY <1>2, <1>3 DEF ParseOpenAIImages, ParseError, ParseAggregatorEnvelope, ParseDirectImages
<1> QED
  BY <1>1, <1>4, ReturnGoes

LEMMA AnswerWanGoes ==
  ASSUME CallInv, AnswerInv, AnswerWan
  PROVE  Goes
<1> PICK json \in BOOLEAN, code \in Codes, content \in Parts, data \in Slots :
      LET o == ParseDashScope(json, code, content, data) IN
      Return(IF ~Failed(o) /\ o.images = << >> THEN UpstreamErr("empty_response") ELSE o)
  BY DEF AnswerWan
<1> DEFINE o == ParseDashScope(json, code, content, data)
<1>1. pc = "wait" /\ pc \in Adapting
  BY DEF AnswerWan, Adapting
<1>2. \A shown \in Seq(Kinds) : Imgs(shown) \in Seq(Image)
  BY <1>1, ImgsFacts
<1>3. \/ \E c : o = UpstreamErr(c)
      \/ \E shown \in Seq(Kinds) : o = OK(Imgs(shown))
  BY DashScopeForms
<1> HIDE DEF o
<1>4. Outcome(o)
  BY <1>2, <1>3, OKType, UpstreamErrType
<1>5. CASE ~Failed(o) /\ o.images = << >>
  BY <1>1, <1>5, UpstreamFailGoes DEF o
<1>6. CASE Failed(o) \/ o.images # << >>
  <2>1. Return(o)
    BY <1>6 DEF o
  <2> QED
    BY <1>1, <1>4, <1>6, <2>1, ReturnGoes DEF Typical
<1> QED
  BY <1>5, <1>6

\* A step of a call that is running.
LEMMA CallStep ==
  ASSUME CallInv, AnswerInv, Local \/ Remote
  PROVE  Goes
<1>1. CASE Local
  BY <1>1, TryNextGoes, GenerateGoes, ClientGoes DEF Local
<1>2. CASE Remote
  BY <1>2, RemoteFailGoes, AnswerGeminiGoes, AnswerOpenAIGoes, AnswerWanGoes DEF Remote
<1> QED
  BY <1>1, <1>2

LEMMA LocalRunning ==
  ASSUME Local \/ Remote
  PROVE  Running
BY DEF Local, Remote, TryNext, Generate, Send, AbortWait, RetryAfter, Backoff, NetworkError,
       ReadError, Transient, OtherStatus, AnswerGemini, AnswerOpenAI, AnswerWan, Running

\* Every step of a call ends it or takes it on - to the next model, the next round, the next
\* attempt or the next step of this one -, and nothing happens after its end: with the bounds
\* on models, rounds and attempts, the finite measure behind CallEnds (xiangyun and gemini
\* Provider.Generate, httpclient.Client.Do).
THEOREM CallsGoForward == Spec => CallGoesForward
<1> DEFINE Step == /\ pc # "done"
                   /\ Running => \/ ctx = "live" /\ ctx' # "live" /\ UNCHANGED <<pc, pos, round, attempt>>
                                 \/ pc' = "done"
                                 \/ Running' /\ Forward
<1>1. ASSUME CallInv, AnswerInv, Next
      PROVE  Step
  <2>1. CASE Local \/ Remote
    <3>1. Goes /\ Running
      BY <1>1, <2>1, CallStep, LocalRunning
    <3> QED
      BY <3>1 DEF Goes, Running
  <2>2. CASE Deadline \/ Disconnect
    <3>1. /\ ctx = "live" /\ ctx' # "live" /\ UNCHANGED <<pc, pos, round, attempt>> /\ Running
      BY <2>2 DEF Deadline, Disconnect, Locals
    <3> QED
      BY <3>1 DEF Running
  <2>3. CASE RunJob \/ HandleChatCompletions
    BY <2>3 DEF RunJob, HandleChatCompletions, Running
  <2> QED
    BY <1>1, <2>1, <2>2, <2>3 DEF Next
<1>2. CallInv /\ AnswerInv /\ [Next]_vars => [Step]_vars
  BY <1>1
<1> QED
  BY <1>2, CallIsSound, AnswersAreSound, PTL DEF Spec, CallGoesForward

\* xiangyun does not give up early: whatever happens along the chain, an upstream failure that
\* is not a timeout is what the request ends with only after the last model
\* (xiangyun.Provider.Generate, isRetriableUpstreamFailure, executeImageGeneration).
THEOREM ChainsAreExhausted == Spec => ChainIsExhausted
<1> DEFINE Step == (pc # "done" /\ pc' = "done" /\ GivesUp) => pos > Len(Chain)
<1>1. ASSUME CallInv, AnswerInv, Next
      PROVE  Step
  <2>1. CASE Local \/ Remote
    BY <1>1, <2>1, CallStep DEF Goes, Running
  <2>2. CASE Deadline \/ Disconnect
    BY <2>2 DEF Deadline, Disconnect
  <2>3. CASE RunJob \/ HandleChatCompletions
    <3>1. pos = 0
      BY <1>1, <2>3 DEF RunJob, HandleChatCompletions, CallInv, Sound
    <3> QED
      BY <3>1 DEF GivesUp
  <2> QED
    BY <1>1, <2>1, <2>2, <2>3 DEF Next
<1>2. CallInv /\ AnswerInv /\ [Next]_vars => [Step]_vars
  BY <1>1
<1> QED
  BY <1>2, CallIsSound, AnswersAreSound, PTL DEF Spec, ChainIsExhausted
=============================================================================
