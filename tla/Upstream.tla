------------------------------- MODULE Upstream -------------------------------
(***************************************************************************)
(* One image generation against the upstream providers: the two ways into  *)
(* it (a job of POST /api/generate, a chat completion), the dispatch of    *)
(* executeImageGeneration, the meta provider xiangyun that tries a list of *)
(* models, the adapters for Gemini, OpenAI and Wan, and the HTTP client    *)
(* with its retries.  The adapters keep no state between calls, so one     *)
(* call at a time is the whole system.                                     *)
(*                                                                         *)
(* A catalog id ("gemini/x") and its wire name ("x") are one value; wire   *)
(* names chosen by model_id_map, prompts, sizes and tokens are left out.   *)
(***************************************************************************)
EXTENDS Enumerations, Sequences, FiniteSetsExt

CONSTANTS
  Backend,      \* the registry: [catalog id -> name of the provider that serves it]
  Xiangyun,     \* the id of the meta model
  Chain,        \* its configured list of ids
  Skipped,      \* the ids of the list that are blank or start with "xiangyun/"
  GeminiIDs,    \* the ids that start with "gemini/"
  FourK,        \* image_size_4k_model_map: [id -> id]
  Configured,   \* the providers that have credentials in config.yaml
  MaxN,         \* most images per request (4)
  MaxRefs,      \* most reference images per request (6)
  MaxSlots      \* bound on the images in one upstream answer

Providers == {"gemini", "openai", "wan"}

ASSUME UpstreamAssumption ==
  /\ \A id \in DOMAIN Backend : Backend[id] \in Providers \cup {"xiangyun"}
  /\ \A id \in DOMAIN Backend : Backend[id] = "xiangyun" <=> id = Xiangyun
  /\ Configured \subseteq Providers /\ Len(Chain) \in Nat
  /\ MaxN \in Nat \ {0} /\ MaxRefs \in Nat /\ MaxSlots \in Nat

VARIABLES
  call,      \* the request
  ctx,       \* its context: "live", "deadline" (passed) or "canceled" (client gone)
  pc,
  pos,       \* index in Chain of the model being tried, 0 for a direct call
  model,     \* the id that is being called
  attempt,   \* retries so far of the present POST
  round,     \* Gemini sends one POST per image
  images,    \* what this adapter call has collected
  lastErr,
  result,
  posts,     \* history: POSTs attempted for each position
  refused,   \* history: positions whose adapter failed, but not on the upstream's side
  answered   \* history: positions whose adapter returned images, none of them blank

callVars == <<call, ctx>>
history == <<posts, refused, answered>>
vars == <<call, ctx, pc, pos, model, attempt, round, images, lastErr, result, history>>

-----------------------------------------------------------------------------
(* Outcomes: the images of a response, or an error *)

\* What a slot holds: a URL, data, white space in place of either, or nothing.
Kinds == {"url", "b64", "spaces", "empty"}
Image == [model : DOMAIN Backend, round : 1..MaxN, kind : Kinds]
Img(kind) == [model |-> model, round |-> round, kind |-> kind]
Empty(im) == im.kind = "empty"
Blank(im) == im.kind \in {"spaces", "empty"}

\* cause: what errors.Is finds in the chain of wrapped errors.
Err(type, code, cause) == [type |-> type, code |-> code, cause |-> cause, images |-> << >>]
UpstreamErr(code) == Err("upstream", code, "none")
UpstreamTimeout == UpstreamErr("upstream_timeout")
BadRequest(code) == Err("invalid_request", code, "none")
OK(ims) == [type |-> "ok", code |-> "", cause |-> "none", images |-> ims]
NoOutcome == OK(<< >>)
Failed(o) == o.type # "ok"

\* Sequences of at most k elements of S.
UpTo(S, k) == UNION {[1..j -> S] : j \in 0..k}

Edits == {"", "image_edit", "inpaint", "unknown"}
Creds == {"none", "good", "malformed"}   \* in the request; malformed: no URL
\* What the later steps read of a request.
Call == [entry : {"none", "job", "chat"}, n : 1..MaxN, editable : BOOLEAN, fourK : BOOLEAN,
         creds : Creds]
NoCall == [entry |-> "none", n |-> 1, editable |-> TRUE, fourK |-> FALSE, creds |-> "none"]

MaxRetries(p) == IF p = "openai" THEN 2 ELSE 1

Init ==
  /\ call = NoCall /\ ctx = "live" /\ pc = "idle"
  /\ pos = 0 /\ model = Xiangyun /\ attempt = 0 /\ round = 1
  /\ images = << >> /\ lastErr = NoOutcome /\ result = NoOutcome
  /\ posts = [i \in 0..Len(Chain) |-> 0]
  /\ refused = {} /\ answered = {}

-----------------------------------------------------------------------------
(* The end of a call *)

Locals == <<pos, model, attempt, round, images>>

\* buildChatCompletionsResponse shows no empty slot; a job keeps them all.
ChatContent(o) ==
  IF call.entry = "chat" THEN [o EXCEPT !.images = Filter(@, {im \in Image : ~Empty(im)})] ELSE o

\* The last part of executeImageGeneration.
Finish(o) ==
  /\ pc' = "done"
  /\ result' = IF o.cause = "deadline" THEN UpstreamTimeout
               ELSE IF ~Failed(o) /\ o.images = << >> THEN UpstreamErr("empty_response")
               ELSE ChatContent(o)
  /\ images' = << >> /\ attempt' = 0 /\ round' = 1

\* Mutant: the type of the error is not looked at.
IsRetriable_AnyType(o) == o.cause # "deadline" /\ o.code # "upstream_timeout"

IsRetriableUpstreamFailure(o) ==
  /\ o.cause # "deadline"
  /\ o.type = "upstream"
  /\ o.code # "upstream_timeout"

\* Mutant: only slots with a URL count as images.
Renderable_UrlOnly(ims) == ims # << >> /\ \A i \in DOMAIN ims : ims[i].kind = "url"
\* Every slot has a URL or data.
Renderable(ims) == ims # << >> /\ \A i \in DOMAIN ims : ~Blank(ims[i])

\* The adapter returns o: to executeImageGeneration, or into the loop over the chain, where
\* images that cannot be shown are a failure.
Return(o) ==
  LET f == IF Failed(o) \/ pos = 0 \/ Renderable(o.images) THEN o
           ELSE UpstreamErr("empty_image_slots") IN
  /\ refused' = IF Failed(f) /\ (f.type # "upstream" \/ f.code = "upstream_timeout")
                  THEN refused \cup {pos} ELSE refused
  /\ answered' = IF ~Failed(o) /\ ~\E i \in DOMAIN o.images : Blank(o.images[i])
                   THEN answered \cup {pos} ELSE answered
  /\ IF pos > 0 /\ Failed(f) /\ IsRetriableUpstreamFailure(f)
       THEN /\ pc' = "next" /\ lastErr' = f /\ pos' = pos + 1
            /\ images' = << >> /\ attempt' = 0 /\ round' = 1
            /\ UNCHANGED <<result, model>>
       ELSE Finish(f) /\ UNCHANGED <<lastErr, pos, model>>

-----------------------------------------------------------------------------
(* Entries *)

\* refimages.Parse: at most MaxRefs, each valid base64 of an allowed size and type.
Parse(refs) == Len(refs) <= MaxRefs /\ \A i \in DOMAIN refs : refs[i] = "good"

\* The 4K route of an id, or the id itself.
Resolve(id, fourK) == IF fourK /\ id \in DOMAIN FourK THEN FourK[id] ELSE id

\* buildDashScopeRequest: what the edit types of Wan require.
EditAllowed(edit, refs, boxes) ==
  \/ edit = ""
  \/ edit = "image_edit" /\ refs # << >>
  \/ edit = "inpaint" /\ refs # << >> /\ boxes

\* executeImageGeneration up to the call of the provider: n counts from 0 (unset).
Execute(entry, id, n, refs, edit, boxes, fourK, creds) ==
  LET m == Resolve(id, fourK)
      problem == IF n > MaxN THEN BadRequest("invalid_n")
                 ELSE IF ~Parse(refs) THEN BadRequest("invalid_reference")
                 ELSE IF m \notin DOMAIN Backend THEN Err("not_found", "model_not_found", "none")
                 ELSE NoOutcome IN
  /\ IF Failed(problem)
       THEN Finish(problem) /\ UNCHANGED <<call, pos, model>>
       ELSE /\ call' = [entry |-> entry, n |-> IF n = 0 THEN 1 ELSE n,
                        editable |-> EditAllowed(edit, refs, boxes),
                        fourK |-> fourK, creds |-> creds]
            /\ model' = m
            /\ IF m = Xiangyun THEN pc' = "next" /\ pos' = 1
                               ELSE pc' = "generate" /\ pos' = 0
            /\ UNCHANGED <<attempt, round, images, result>>
  /\ UNCHANGED <<ctx, lastErr, history>>

\* A job's request has complete credentials, except for the meta model.
RunJob ==
  /\ pc = "idle"
  /\ \E id \in DOMAIN Backend \cup {"unknown"}, n \in 0..MaxN + 1,
        refs \in UpTo({"good", "bad"}, MaxRefs + 1), edit \in Edits,
        boxes, fourK \in BOOLEAN, creds \in Creds :
       /\ creds = "none" => id = Xiangyun
       /\ Execute("job", id, n, refs, edit, boxes, fourK, creds)

\* A chat message, by the kinds of its parts: text, a data URI (valid or not), and what is
\* skipped (blank text, a remote URL).
Message == [user : BOOLEAN, parts : SUBSET {"text", "data", "garbled", "other"}]

\* extractChatPrompt: the last message of the user, else the last message.
Extracted(messages) ==
  LET mine == {i \in DOMAIN messages : messages[i].user}
      last == IF mine = {} THEN Len(messages) ELSE Max(mine)
      parts == messages[last].parts IN
  [prompt |-> "text" \in parts,
   refs |-> (IF "data" \in parts THEN <<"good">> ELSE << >>)
              \o (IF "garbled" \in parts THEN <<"bad">> ELSE << >>)]

HandleChatCompletions ==
  /\ pc = "idle"
  /\ \E id \in DOMAIN Backend \cup {"unknown"}, n \in 0..MaxN + 1, stream, fourK \in BOOLEAN,
        messages \in UpTo(Message, 2), creds \in Creds :
       IF \/ stream
          \/ messages = << >>
          \/ ~Extracted(messages).prompt
         THEN Finish(BadRequest("bad_chat")) /\ UNCHANGED <<callVars, pos, model, lastErr, history>>
         ELSE Execute("chat", id, n, Extracted(messages).refs, "", FALSE, fourK, creds)

-----------------------------------------------------------------------------
(* xiangyun: the loop over the configured models *)

TryNext ==
  /\ pc = "next"
  /\ IF pos > Len(Chain)
       THEN /\ Finish(IF Failed(lastErr) THEN lastErr ELSE BadRequest("xiangyun_no_backend"))
            /\ UNCHANGED <<pos, model, lastErr>>
     ELSE LET id == IF Chain[pos] \in GeminiIDs THEN Resolve(Chain[pos], call.fourK) ELSE Chain[pos]
          IN
       IF Chain[pos] \in Skipped
         THEN pos' = pos + 1 /\ UNCHANGED <<pc, model, attempt, round, images, lastErr, result>>
       ELSE IF id \notin DOMAIN Backend \ {Xiangyun}
         THEN /\ lastErr' = Err("internal", "xiangyun_backend", "none")
              /\ pos' = pos + 1
              /\ UNCHANGED <<pc, model, attempt, round, images, result>>
       ELSE pc' = "generate" /\ model' = id
            /\ UNCHANGED <<pos, attempt, round, images, lastErr, result>>
  /\ UNCHANGED <<callVars, history>>

-----------------------------------------------------------------------------
(* Adapters: Generate up to the first POST *)

Adapter == Backend[model]

\* compatctx.Resolve: the request's credentials win over the configured ones.
HasCredentials == call.creds # "none" \/ Adapter \in Configured

Post == pc' = "send" /\ UNCHANGED <<Locals, lastErr, result, history>>
Refuse(o) == Return(o) /\ UNCHANGED posts

GenerateGemini == Adapter = "gemini" /\ Post

\* References that passed Parse are a valid multipart body.
GenerateOpenAI == Adapter = "openai" /\ Post

GenerateWan ==
  /\ Adapter = "wan"
  /\ IF call.editable THEN Post ELSE Refuse(Err("validation", "build_request", "none"))

Generate ==
  /\ pc = "generate"
  /\ \/ ~HasCredentials /\ Refuse(BadRequest("upstream_credentials"))
     \/ HasCredentials /\ (GenerateGemini \/ GenerateOpenAI \/ GenerateWan)
  /\ UNCHANGED callVars

Rounds == IF Adapter = "gemini" THEN call.n ELSE 1

-----------------------------------------------------------------------------
(* The HTTP client: Do *)

CtxErr == IF ctx = "live" THEN "none" ELSE ctx

\* Nothing is sent under a dead context.
Send ==
  /\ pc = "send"
  /\ IF call.creds = "malformed"
       THEN Return(Err("internal", "build_request_failed", "none")) /\ UNCHANGED posts
     ELSE IF ctx # "live" THEN Return(UpstreamTimeout) /\ UNCHANGED posts
     ELSE /\ pc' = "wait"
          /\ posts' = [posts EXCEPT ![pos] = @ + 1]
          /\ UNCHANGED <<Locals, lastErr, result, refused, answered>>
  /\ UNCHANGED callVars

\* Mutant: one retry too many.
CanRetry_Once == attempt <= MaxRetries(Adapter)
CanRetry == attempt < MaxRetries(Adapter)

Retry(where) ==
  /\ attempt' = attempt + 1 /\ pc' = where
  /\ UNCHANGED <<pos, model, round, images, lastErr, result, refused, answered>>

\* The upstream may have executed the POST all the same.  A dial that times out is a
\* context.DeadlineExceeded to errors.Is (net.errTimeout), whatever the context.
NetworkError(cause) ==
  /\ pc = "wait" /\ ctx = "live"
  /\ IF CanRetry THEN Retry("backoff")
                 ELSE Return(Err("upstream", "exhausted_retries", cause))
  /\ UNCHANGED <<callVars, posts>>

\* Mutant: a POST in flight does not notice its context.
AbortWait_Never == pc = "wait" /\ FALSE
AbortWait ==
  /\ pc = "wait" /\ ctx # "live"
  /\ Return(UpstreamTimeout)
  /\ UNCHANGED <<callVars, posts>>

ReadError ==
  /\ pc = "wait"
  /\ Return(Err("upstream", "read_error", CtxErr))
  /\ UNCHANGED <<callVars, posts>>

\* 429, 502, 503 or 504; the last one is handed to the adapter like any other status.
Transient(retryAfter) ==
  /\ pc = "wait"
  /\ IF CanRetry THEN Retry(IF retryAfter THEN "retryAfter" ELSE "backoff")
                 ELSE Return(UpstreamErr("upstream_http_error"))
  /\ UNCHANGED <<callVars, posts>>

OtherStatus ==
  /\ pc = "wait"
  /\ Return(UpstreamErr("upstream_http_error"))
  /\ UNCHANGED <<callVars, posts>>

\* When both are ready, select takes either.
RetryAfter ==
  /\ pc = "retryAfter"
  /\ \/ pc' = "backoff" /\ UNCHANGED <<Locals, lastErr, result, refused, answered>>
     \/ ctx # "live" /\ Return(UpstreamTimeout)
  /\ UNCHANGED <<callVars, posts>>

Backoff ==
  /\ pc = "backoff"
  /\ \/ pc' = "send" /\ UNCHANGED <<Locals, lastErr, result, refused, answered>>
     \/ ctx # "live" /\ Return(Err("upstream", "context_cancelled", CtxErr))
  /\ UNCHANGED <<callVars, posts>>

-----------------------------------------------------------------------------
(* What the adapters read from a 200.  The error code of OpenAI and Wan is the upstream's. *)

Codes == {"none", "other", "upstream_timeout"}
Imgs(kinds) == [i \in DOMAIN kinds |-> Img(kinds[i])]
ParseError == UpstreamErr("parse_error")

\* Lists of slots, of which some may not be read as one ("none").
Slots == UpTo(Kinds, MaxSlots)
Parts == UpTo(Kinds \cup {"none"}, MaxSlots)

\* parts: those of all candidates; "none" are the ones without inline data.
ParseGenerateContent(json, error, parts) ==
  IF ~json THEN ParseError
  ELSE IF error # "none" THEN UpstreamErr("upstream_error")
  ELSE OK(Imgs(Filter(parts, {"b64", "spaces"})))

\* Every round has to bring some image.
\* Mutant: a round without images is passed over.
Collect_SkipEmpty(o) ==
  IF Failed(o) THEN Return(o)
  ELSE IF round < Rounds
    THEN /\ images' = images \o o.images /\ round' = round + 1
         /\ attempt' = 0 /\ pc' = "send"
         /\ UNCHANGED <<pos, model, lastErr, result, refused, answered>>
  ELSE IF images \o o.images = << >> THEN Return(UpstreamErr("empty_response"))
  ELSE Return(OK(images \o o.images))

Collect(o) ==
  IF Failed(o) THEN Return(o)
  ELSE IF o.images = << >> THEN Return(UpstreamErr("empty_response"))
  ELSE IF round < Rounds
    THEN /\ images' = images \o o.images /\ round' = round + 1
         /\ attempt' = 0 /\ pc' = "send"
         /\ UNCHANGED <<pos, model, lastErr, result, refused, answered>>
  ELSE Return(OK(images \o o.images))

ParseInnerPayload(slots) ==
  IF slots = << >> THEN UpstreamErr("empty_response") ELSE OK(Imgs(slots))

ParseDirectImages(error, slots) ==
  IF error # "none" THEN UpstreamErr(error) ELSE ParseInnerPayload(slots)

ParseAggregatorEnvelope(envelope, status, slots) ==
  IF envelope # "success" THEN UpstreamErr("aggregator_error")
  ELSE IF status \notin {"", "SUCCESS"} THEN UpstreamErr("aggregator_status")
  ELSE ParseInnerPayload(slots)

ParseOpenAIImages(json, envelope, status, error, slots) ==
  IF ~json THEN ParseError
  ELSE IF envelope # "" THEN ParseAggregatorEnvelope(envelope, status, slots)
  ELSE ParseDirectImages(error, slots)

\* The native object, in metadata or the body itself.  Parts without an image, or with a data
\* URI that has no comma, are passed over; what follows the comma may be empty.
ImagesFromDashScopeShape(code, content) ==
  IF code # "none" THEN UpstreamErr(code) ELSE OK(Imgs(Filter(content, Kinds)))

\* data: the OpenAI-like list, used when the native object has no image; its empty slots are
\* passed over.
ParseDashScope(json, code, content, data) ==
  LET native == ImagesFromDashScopeShape(code, content) IN
  IF ~json THEN ParseError
  ELSE IF Failed(native) \/ native.images # << >> THEN native
  ELSE OK(Imgs(Filter(data, Kinds \ {"empty"})))

AnswerGemini ==
  /\ pc = "wait" /\ Adapter = "gemini"
  /\ \E json \in BOOLEAN, error \in Codes, parts \in Parts :
       Collect(ParseGenerateContent(json, error, parts))
  /\ UNCHANGED <<callVars, posts>>

AnswerOpenAI ==
  /\ pc = "wait" /\ Adapter = "openai"
  /\ \E json \in BOOLEAN, envelope \in {"", "success", "other"},
        status \in {"", "SUCCESS", "other"}, error \in Codes, slots \in Slots :
       Return(ParseOpenAIImages(json, envelope, status, error, slots))
  /\ UNCHANGED <<callVars, posts>>

AnswerWan ==
  /\ pc = "wait" /\ Adapter = "wan"
  /\ \E json \in BOOLEAN, code \in Codes, content \in Parts, data \in Slots :
       LET o == ParseDashScope(json, code, content, data) IN
       Return(IF ~Failed(o) /\ o.images = << >> THEN UpstreamErr("empty_response") ELSE o)
  /\ UNCHANGED <<callVars, posts>>

-----------------------------------------------------------------------------
(* The context *)

Running == pc \notin {"idle", "done"}

Deadline ==
  /\ Running /\ ctx = "live"
  /\ ctx' = "deadline"
  /\ UNCHANGED <<call, pc, Locals, lastErr, result, history>>

\* The client of a chat closes the connection; a job's context has no parent.
Disconnect ==
  /\ Running /\ ctx = "live" /\ call.entry = "chat"
  /\ ctx' = "canceled"
  /\ UNCHANGED <<call, pc, Locals, lastErr, result, history>>

-----------------------------------------------------------------------------
Local == TryNext \/ Generate \/ Send \/ AbortWait \/ RetryAfter \/ Backoff
Remote ==
  \/ \E cause \in {"none", "deadline"} : NetworkError(cause)
  \/ ReadError
  \/ \E retryAfter \in BOOLEAN : Transient(retryAfter)
  \/ OtherStatus
  \/ AnswerGemini
  \/ AnswerOpenAI
  \/ AnswerWan

Next == RunJob \/ HandleChatCompletions \/ Local \/ Remote \/ Deadline \/ Disconnect

Spec == Init /\ [][Next]_vars

(* A goroutine that can run does, timers fire, and the deadline of the context passes.    *)
(* The upstream owes nothing: it may never answer.                                        *)
FairSpec == Spec /\ WF_vars(Local) /\ WF_vars(Deadline)
-----------------------------------------------------------------------------
(* Properties *)

Outcome(o) ==
  /\ DOMAIN o = {"type", "code", "cause", "images"}
  /\ o.type \in {"ok", "invalid_request", "validation", "not_found", "internal", "upstream"}
  /\ o.cause \in {"none", "deadline", "canceled"}
  /\ o.images \in Seq(Image)

TypeOK ==
  /\ call \in Call
  /\ ctx \in {"live", "deadline", "canceled"}
  /\ pc \in {"idle", "next", "generate", "send", "wait", "retryAfter", "backoff", "done"}
  /\ pos \in 0..Len(Chain) + 1
  /\ model \in DOMAIN Backend \cup {Xiangyun}
  /\ attempt \in 0..2 /\ round \in 1..MaxN
  /\ images \in Seq(Image)
  /\ Outcome(lastErr) /\ Outcome(result)
  /\ posts \in [0..Len(Chain) -> Nat]
  /\ refused \subseteq 0..Len(Chain) /\ answered \subseteq 0..Len(Chain)

\* The POSTs a request may cost: whatever fails and however the deadline falls, one model is
\* sent at most one POST and its retries for each of its rounds.
PostsBounded ==
  Running /\ model # Xiangyun /\ pos \in DOMAIN posts =>
    posts[pos] <= Rounds * (1 + MaxRetries(Adapter))

\* An answer is whole: its images are of one model and, if that is Gemini, of every round;
\* nothing is left in it of the models and rounds that failed before; the meta model
\* answers with no blank slot, Gemini and a chat with no empty one.  (A direct answer may
\* have slots that are blank, and one of OpenAI's or Wan's may be all empty: a chat then
\* shows none.)
AnswerComplete ==
  pc = "done" /\ ~Failed(result) =>
    LET used == {result.images[i].model : i \in DOMAIN result.images}
        rounds == {result.images[i].round : i \in DOMAIN result.images} IN
    /\ used \subseteq {model}
    /\ used # {} \/ (call.entry = "chat" /\ pos = 0 /\ Backend[model] # "gemini")
    /\ Backend[model] = "gemini" => rounds = 1..call.n
    /\ Backend[model] # "gemini" => rounds \subseteq {1}
    /\ pos > 0 => Renderable(result.images)
    /\ call.entry = "chat" \/ Backend[model] = "gemini" =>
         \A i \in DOMAIN result.images : ~Empty(result.images[i])

\* A model of the chain is tried only after all models before it failed on the upstream's
\* side: a request that one of them refused is not passed on, nor one that is out of time.
FallbackOnlyAfterUpstreamFailure == \A i \in refused : i = pos /\ pc = "done"

\* Images that were generated (and paid for) without a blank slot are delivered: the request
\* does not fail, or go on to another model, after a model's answer was complete.
GoodAnswerKept ==
  /\ pc = "done" /\ Failed(result) => answered = {}
  /\ \A i \in answered : pos = i

\* Every call comes to an end, also when the upstream never answers.
CallEnds == Running ~> pc = "done"

\* "tries catalog image models in a configured order until one succeeds on upstream failure
\* (502-class APIErr)": while there is time and another model, an upstream failure does not
\* end the request.
FallbackReachesNext ==
  [][(pc' = "done" /\ pc # "done" /\ pos > 0 /\ result'.type = "upstream" /\ ctx = "live")
       => pos >= Len(Chain)]_vars
=============================================================================
