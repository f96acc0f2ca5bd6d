------------------------------ MODULE RateLimit ------------------------------
(***************************************************************************)
(* The global rate limiter (pkg/ratelimit): a counter of calls in a window *)
(* that begins with the first call after the end of the one before.  The   *)
(* clock is read under the limiter's lock, so a call is one step.          *)
(***************************************************************************)
EXTENDS Integers, FiniteSets

CONSTANTS
  MaxCalls,     \* global_rpm; without it there is no limiter
  Period,       \* a minute, in ticks
  MaxTime,      \* bound on the clock
  MaxAttempts   \* bound on the calls

ASSUME RateLimitAssumption ==
  /\ MaxCalls \in Nat \ {0} /\ Period \in Nat \ {0}
  /\ MaxTime \in Nat /\ MaxAttempts \in Nat

VARIABLES
  count, resetAt,   \* the window; before the first call its end lies before the clock
  now,
  attempts,         \* history: calls so far
  allowed           \* history: the allowed ones, each with its number and time

limiter == <<count, resetAt, attempts, allowed>>

Never == -1

LimiterTypeOK ==
  /\ count \in 0..MaxAttempts
  /\ resetAt \in {Never} \cup (Period..(MaxTime + Period))
  /\ now \in 0..MaxTime
  /\ attempts \in 0..MaxAttempts
  /\ allowed \subseteq (1..MaxAttempts) \X (0..MaxTime)

LimiterInit == count = 0 /\ resetAt = Never /\ now = 0 /\ attempts = 0 /\ allowed = {}

\* Mutant: one call too many is allowed.
Within_OneMore(n) == n <= MaxCalls + 1
Within(n) == n <= MaxCalls

\* InMemory.Allow.  A call that is refused is counted all the same.
Allow(ok) ==
  /\ attempts < MaxAttempts /\ attempts' = attempts + 1
  /\ IF now > resetAt
       THEN count' = 1 /\ resetAt' = now + Period /\ ok
       ELSE count' = count + 1 /\ UNCHANGED resetAt /\ ok = Within(count + 1)
  /\ allowed' = IF ok THEN allowed \cup {<<attempts', now>>} ELSE allowed
  /\ UNCHANGED now

LimiterTick == now < MaxTime /\ now' = now + 1 /\ UNCHANGED limiter

-----------------------------------------------------------------------------
\* However the calls fall about the ends of windows, no span of a period lets through more
\* than twice the limit.  (ratelimit.go:35 says "at most maxCalls requests per period",
\* which holds of the windows and not of any other span.)
RateBounded ==
  \A t \in 0..MaxTime : Cardinality({c \in allowed : t <= c[2] /\ c[2] <= t + Period}) <= 2 * MaxCalls
=============================================================================
