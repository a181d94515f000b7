---------------------------- MODULE ToolRuntime ----------------------------
(***************************************************************************)
(* BaseTool.execute (app/tools/base.py): concurrent calls of one tool,     *)
(* each of which counts itself against its user's rate limit, looks for a  *)
(* cached result, asks the provider up to max_retries + 1 times and caches *)
(* the answer.  Each Redis command and each provider request is a step.    *)
(*                                                                         *)
(* A result is named by the call whose provider request produced it.       *)
(***************************************************************************)
EXTENDS Naturals, FiniteSets

CONSTANTS
    Calls,        \* the calls of execute
    UserOf,       \* UserOf[c]: context.user_id, or "anonymous"
    PayloadOf,    \* PayloadOf[c]: what the cache key is the digest of
    NoResult,     \* the absence of a result
    MaxCalls,     \* max_calls_per_minute
    MaxRetries,   \* max_retries
    Faults        \* the kinds of failure the environment may produce

FaultKinds ==
    { "redis",      \* a command raises; Redis may have executed it
      "provider",   \* the provider raises, or outlives its timeout
      "stop",       \* the call is cancelled or its process dies
      "db" }        \* a database statement or a commit fails

Users == {UserOf[c] : c \in Calls}
Payloads == {PayloadOf[c] : c \in Calls}

ASSUME ToolAssumption ==
    /\ IsFiniteSet(Calls)
    /\ NoResult \notin Calls
    /\ MaxCalls \in Nat \ {0}
    /\ MaxRetries \in Nat
    /\ Faults \subseteq FaultKinds

VARIABLES
    place,      \* place[c]: where call c stands
    attempt,    \* attempt[c]: requests that failed since call c missed the cache
    result,     \* result[c]: what call c is going to return
    count,      \* count[i]: the rate limit counter of user i, 0 if absent
    timed,      \* timed[i]: that counter has a time to live
    cache,      \* cache[p]: the cached result for payload p
    passed,     \* passed[i]: calls let through while the counter of i lives
    opener,     \* for a property: opener[i] is the call whose INCR made the
                \* counter of i
    unset       \* for a property: calls that ended in their INCR or EXPIRE

history == <<opener, unset>>
toolVars == <<place, attempt, result, count, timed, cache, passed, history>>

Places ==
    { "idle",        \* execute is not called yet
      "expiring",    \* first of its window, at EXPIRE
      "looking",     \* at the GET of the cached result
      "calling",     \* waiting for the provider
      "storing",     \* at the SET of the result
      "returned", "raised", "stopped" }

Over == {"returned", "raised", "stopped"}
-----------------------------------------------------------------------------
ToolInit ==
    /\ place = [c \in Calls |-> "idle"]
    /\ attempt = [c \in Calls |-> 0]
    /\ result = [c \in Calls |-> NoResult]
    /\ count = [i \in Users |-> 0]
    /\ timed = [i \in Users |-> FALSE]
    /\ cache = [p \in Payloads |-> NoResult]
    /\ passed = [i \in Users |-> {}]
    /\ opener = [i \in Users |-> NoResult]
    /\ unset = {}

Move(c, from, to) == place[c] = from /\ place' = [place EXCEPT ![c] = to]

(***************************************************************************)
(* Names that end in "Slip" are not part of the model: each is what the    *)
(* definition after it would become under a plausible mistake in the code, *)
(* kept to show that a property of the model tells the two apart.          *)
(***************************************************************************)
\* "count > max_calls_per_minute" off by one.
OneTooManySlip(n) == n > MaxCalls + 1

TooMany(n) == n > MaxCalls

\* INCR taken to answer the old value.
OldValueSlip(n) == n = 0

\* The call that brings the counter to life sets its time to live.
OpensWindow(n) == n = 1

\* _enforce_rate_limit up to its first await that follows the INCR.
Count(c) ==
    LET i == UserOf[c]
        n == count[i] + 1 IN
    /\ Move(c, "idle", IF OpensWindow(n) THEN "expiring"
                       ELSE IF TooMany(n) THEN "raised" ELSE "looking")
    /\ count' = [count EXCEPT ![i] = n]
    /\ passed' = [passed EXCEPT ![i] = IF TooMany(n) THEN @ ELSE @ \cup {c}]
    /\ opener' = [opener EXCEPT ![i] = IF count[i] = 0 THEN c ELSE @]
    /\ UNCHANGED <<attempt, result, timed, cache, unset>>

\* INCR raises, counted or not.
CountFails(c) ==
    /\ "redis" \in Faults
    /\ Move(c, "idle", "raised")
    /\ unset' = unset \cup {c}
    /\ \/ UNCHANGED <<count, opener>>
       \/ LET i == UserOf[c] IN
          /\ count' = [count EXCEPT ![i] = @ + 1]
          /\ opener' = [opener EXCEPT ![i] = IF count[i] = 0 THEN c ELSE @]
    /\ UNCHANGED <<attempt, result, timed, cache, passed>>

SetExpiry(c) ==
    /\ Move(c, "expiring", "looking")
    /\ timed' = [timed EXCEPT ![UserOf[c]] = TRUE]
    /\ UNCHANGED <<attempt, result, count, cache, passed, history>>

SetExpiryFails(c) ==
    /\ "redis" \in Faults
    /\ Move(c, "expiring", "raised")
    /\ timed' \in {timed, [timed EXCEPT ![UserOf[c]] = TRUE]}
    /\ unset' = unset \cup {c}
    /\ UNCHANGED <<attempt, result, count, cache, passed, opener>>

Hit(c) ==
    /\ cache[PayloadOf[c]] # NoResult
    /\ Move(c, "looking", "returned")
    /\ result' = [result EXCEPT ![c] = cache[PayloadOf[c]]]
    /\ UNCHANGED <<attempt, count, timed, cache, passed, history>>

Miss(c) ==
    /\ cache[PayloadOf[c]] = NoResult
    /\ Move(c, "looking", "calling")
    /\ UNCHANGED <<attempt, result, count, timed, cache, passed, history>>

LookFails(c) ==
    /\ "redis" \in Faults
    /\ Move(c, "looking", "raised")
    /\ UNCHANGED <<attempt, result, count, timed, cache, passed, history>>

\* The provider answers.
Answer(c) ==
    /\ Move(c, "calling", "storing")
    /\ attempt' = [attempt EXCEPT ![c] = 0]
    /\ result' = [result EXCEPT ![c] = c]
    /\ UNCHANGED <<count, timed, cache, passed, history>>

\* The retry loop starts over where it should raise.
EndlessSlip(c) ==
    /\ attempt' = [attempt EXCEPT ![c] = IF @ < MaxRetries THEN @ + 1 ELSE 0]
    /\ UNCHANGED place

\* A TimeoutError or a ToolExecutionError: the next attempt if one is left.
TryAgain(c) ==
    IF attempt[c] < MaxRetries
      THEN attempt' = [attempt EXCEPT ![c] = @ + 1] /\ UNCHANGED place
      ELSE attempt' = [attempt EXCEPT ![c] = 0] /\ place' = [place EXCEPT ![c] = "raised"]

RequestFails(c) ==
    /\ "provider" \in Faults
    /\ place[c] = "calling"
    /\ TryAgain(c)
    /\ UNCHANGED <<result, count, timed, cache, passed, history>>

\* Any other exception is not retried.
RequestBreaks(c) ==
    /\ "provider" \in Faults
    /\ Move(c, "calling", "raised")
    /\ attempt' = [attempt EXCEPT ![c] = 0]
    /\ UNCHANGED <<result, count, timed, cache, passed, history>>

Store(c) ==
    /\ Move(c, "storing", "returned")
    /\ cache' = [cache EXCEPT ![PayloadOf[c]] = result[c]]
    /\ UNCHANGED <<attempt, result, count, timed, passed, history>>

\* The provider's answer is thrown away with the exception.
StoreFails(c) ==
    /\ "redis" \in Faults
    /\ Move(c, "storing", "raised")
    /\ cache' \in {cache, [cache EXCEPT ![PayloadOf[c]] = result[c]]}
    /\ result' = [result EXCEPT ![c] = NoResult]
    /\ UNCHANGED <<attempt, count, timed, passed, history>>

Begin(c) == Count(c) \/ CountFails(c)

Continue(c) ==
    \/ SetExpiry(c)
    \/ SetExpiryFails(c)
    \/ Hit(c)
    \/ Miss(c)
    \/ LookFails(c)
    \/ Answer(c)
    \/ RequestFails(c)
    \/ RequestBreaks(c)
    \/ Store(c)
    \/ StoreFails(c)

\* The call ends at one of its awaits: the wait_for of its agent runs out,
\* or its process dies.
Stop(c) ==
    /\ "stop" \in Faults
    /\ place[c] \notin Over \cup {"idle"}
    /\ place' = [place EXCEPT ![c] = "stopped"]
    /\ result' = [result EXCEPT ![c] = NoResult]
    /\ attempt' = [attempt EXCEPT ![c] = 0]
    /\ unset' = IF place[c] = "expiring" THEN unset \cup {c} ELSE unset
    /\ UNCHANGED <<count, timed, cache, passed, opener>>

\* The minute of user i is over.
WindowEnds(i) ==
    /\ timed[i]
    /\ count' = [count EXCEPT ![i] = 0]
    /\ timed' = [timed EXCEPT ![i] = FALSE]
    /\ passed' = [passed EXCEPT ![i] = {}]
    /\ opener' = [opener EXCEPT ![i] = NoResult]
    /\ UNCHANGED <<place, attempt, result, cache, unset>>

\* Fifteen minutes after it was stored, a cached result expires.
ForgetResult(p) ==
    /\ cache[p] # NoResult
    /\ cache' = [cache EXCEPT ![p] = NoResult]
    /\ UNCHANGED <<place, attempt, result, count, timed, passed, history>>

ToolStep ==
    \/ \E c \in Calls : Begin(c) \/ Continue(c) \/ Stop(c)
    \/ \E i \in Users : WindowEnds(i)
    \/ \E p \in Payloads : ForgetResult(p)

\* A request is over at the latest at its timeout, Redis answers or raises,
\* and drops a key whose time is up.
ToolFairness ==
    /\ \A c \in Calls : WF_toolVars(Continue(c))
    /\ \A i \in Users : WF_toolVars(WindowEnds(i))
-----------------------------------------------------------------------------
\* Every variable has the type its declaration announces; no call asks the
\* provider more than max_retries + 1 times.
ToolTypeOK ==
    /\ place \in [Calls -> Places]
    /\ attempt \in [Calls -> 0 .. MaxRetries]
    /\ result \in [Calls -> Calls \cup {NoResult}]
    /\ count \in [Users -> Nat]
    /\ timed \in [Users -> BOOLEAN]
    /\ cache \in [Payloads -> Calls \cup {NoResult}]
    /\ passed \in [Users -> SUBSET Calls]
    /\ opener \in [Users -> Calls \cup {NoResult}]
    /\ unset \subseteq Calls

\* While a user's counter lives, no more of the user's calls get through
\* than the limit allows, however they interleave (base.py 120-130).
LimitHolds == \A i \in Users : Cardinality(passed[i]) <= MaxCalls

\* A counter without a time to live, and with it a user who is shut out for
\* good once the limit is reached, has one possible cause: the very call whose
\* INCR made the counter is about to send its EXPIRE, or was stopped there, or
\* one of these two commands of it raised (base.py 122-124).  No interleaving
\* of calls makes one, nor a refusal, nor a failure of the provider, nor a call
\* that ends anywhere else.
OrphanedCounters ==
    \A i \in Users : count[i] > 0 /\ ~ timed[i] =>
        \E c \in Calls : c = opener[i] /\ (place[c] = "expiring" \/ c \in unset)

\* A call that has begun returns, raises or is stopped.
CallsEnd == \A c \in Calls : place[c] # "idle" ~> place[c] \in Over
=============================================================================
