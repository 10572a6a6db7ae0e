--------------------------- MODULE CircuitBreaker ---------------------------
(***************************************************************************)
(* The breaker of one gRPC client of the gateway (pkg/circuitbreaker) and  *)
(* what the client's methods make of it (internal/client/grpc_auth.go and  *)
(* grpc_user.go): every RPC is a closure given to Execute.                 *)
(*                                                                         *)
(* Execute is gobreaker's: it looks at the state before the RPC and again  *)
(* after it, each time under its lock, and meanwhile RPCs run side by side.*)
(* gobreaker numbers the periods between two changes ("generations") and   *)
(* ignores the result of an RPC of an earlier one; here the breaker knows  *)
(* the running RPCs of its current period. Counts that no state reads are  *)
(* left out. Nothing happens when a deadline of the breaker passes: the    *)
(* next caller finds out.                                                  *)
(***************************************************************************)
EXTENDS Naturals, FiniteSets

CONSTANTS
  Request,      \* HTTP requests under way at a time
  MaxRequests,  \* circuit_breakers.maxrequests
  MaxFailures   \* circuit_breakers.maxfailures

ASSUME BreakerAssumption ==
  /\ MaxRequests \in Nat \ {0}
  /\ MaxFailures \in Nat

VARIABLES
  breaker,     \* the state, its counts and the RPCs of the current period
  due,         \* the interval, or the timeout, of the period has passed
  running,     \* requests whose RPC is under way
  told,        \* told[r]: what the client's method returned for r last
  stale,       \* history: RPCs that have seen the state change
  everDown     \* history: some RPC failed for want of an answer

vars == <<breaker, due, running, told, stale, everDown>>

\* What an RPC can come to: an answer, an answer that is an error of the
\* business ("invalid credentials"), or none.
Result == {"ok", "business", "transport"}

\* A new period.
Fresh(s) == [state |-> s, requests |-> 0, successes |-> 0, failures |-> 0, calls |-> {}]

Init ==
  /\ breaker = Fresh("closed")
  /\ due = FALSE
  /\ running = {}
  /\ told = [r \in Request |-> "none"]
  /\ stale = {}
  /\ everDown = FALSE
-----------------------------------------------------------------------------
\* The breaker as currentState leaves it: a passed interval clears the counts
\* of a closed one, a passed timeout makes an open one half open.
Current ==
  IF ~due THEN breaker
  ELSE Fresh(IF breaker.state = "open" THEN "half" ELSE breaker.state)

\* The breaker is now b, and nothing is due.
SetBreaker(b) ==
  /\ breaker' = b
  /\ due' = FALSE

(* The operators named ...Mutant are faulty variants of the definition that *)
(* follows them. No specification uses them: they show which fault each     *)
(* property finds.                                                          *)

\* One probe too many is let through.
AdmitsOneMoreMutant(b) ==
  b.state = "closed" \/ (b.state = "half" /\ b.requests <= MaxRequests)

\* beforeRequest lets the RPC through.
Admits(b) ==
  b.state = "closed" \/ (b.state = "half" /\ b.requests < MaxRequests)

\* More successes are asked for than probes are let through.
SuccessNeverEnoughMutant(b) ==
  IF b.state = "closed" THEN [b EXCEPT !.failures = 0]
  ELSE IF b.successes + 1 > MaxRequests THEN Fresh("closed")
  ELSE [b EXCEPT !.successes = @ + 1]

Success(b) ==
  IF b.state = "closed" THEN [b EXCEPT !.failures = 0]
  ELSE IF b.successes + 1 >= MaxRequests THEN Fresh("closed")
  ELSE [b EXCEPT !.successes = @ + 1]

\* ReadyToTrip compares with >; a half-open breaker opens at once.
Failure(b) ==
  IF b.state = "half" \/ b.failures + 1 > MaxFailures THEN Fresh("open")
  ELSE [b EXCEPT !.failures = @ + 1]

\* Every result counts, whatever the period of its RPC.
AfterRpcCountsStaleMutant(r, o) ==
  LET b == [Current EXCEPT !.calls = @ \ {r}]
  IN  IF b.state = "open" THEN b
      ELSE IF o = "ok" THEN Success(b) ELSE Failure(b)

\* afterRequest. IsSuccessful is not set: every error is a failure.
AfterRpc(r, o) ==
  LET b == [Current EXCEPT !.calls = @ \ {r}]
  IN  IF r \notin Current.calls THEN Current
      ELSE IF o = "ok" THEN Success(b) ELSE Failure(b)

\* The RPCs that have seen the state change, after the step to b.
Staling(b, rs) ==
  IF b.state # breaker.state THEN rs ELSE stale \cap rs
-----------------------------------------------------------------------------
\* Execute starts the RPC of r.
Call(r) ==
  /\ r \notin running
  /\ Admits(Current)
  /\ SetBreaker([Current EXCEPT
       !.requests = IF Current.state = "half" THEN @ + 1 ELSE @,
       !.calls = @ \cup {r}])
  /\ running' = running \cup {r}
  /\ told' = [told EXCEPT ![r] = "none"]
  /\ stale' = Staling(Current, running)
  /\ UNCHANGED everDown

\* ErrOpenState is "service unavailable"; ErrTooManyRequests has no mapping.
Refuse(r) ==
  /\ r \notin running
  /\ ~Admits(Current)
  /\ SetBreaker(Current)
  /\ told' = [told EXCEPT ![r] =
       IF Current.state = "open" THEN "unavailable" ELSE "error"]
  /\ stale' = Staling(Current, running)
  /\ UNCHANGED <<running, everDown>>

\* The RPC of r ends with o. No answer is codes.Unavailable, or a deadline or
\* a cancelled context, which are errors without a mapping.
Return(r, o) ==
  /\ r \in running
  /\ SetBreaker(AfterRpc(r, o))
  /\ running' = running \ {r}
  /\ \E a \in CASE o = "ok"        -> {"answered"}
                [] o = "business"  -> {"answered", "error"}
                [] o = "transport" -> {"unavailable", "error"} :
       told' = [told EXCEPT ![r] = a]
  /\ stale' = Staling(AfterRpc(r, o), running \ {r})
  /\ everDown' = (everDown \/ o = "transport")

\* The RPC of r ends with an error.
Fails(r) == \E o \in Result \ {"ok"} : Return(r, o)

\* The interval of the closed state passes; with interval 0 never.
IntervalEnds ==
  /\ breaker.state = "closed" /\ ~due
  /\ due' = TRUE
  /\ UNCHANGED <<breaker, running, told, stale, everDown>>

\* The timeout of the open state passes.
TimeoutEnds ==
  /\ breaker.state = "open" /\ ~due
  /\ due' = TRUE
  /\ UNCHANGED <<breaker, running, told, stale, everDown>>

Next ==
  \/ \E r \in Request : Call(r) \/ Refuse(r) \/ \E o \in Result : Return(r, o)
  \/ IntervalEnds
  \/ TimeoutEnds

Spec == Init /\ [][Next]_vars

\* RPCs end, by middleware.Timeout at the latest, and the timeout passes.
\* Nobody has to call.
FairSpec ==
  /\ Spec
  /\ WF_vars(TimeoutEnds)
  /\ \A r \in Request : WF_vars(\E o \in Result : Return(r, o))
-----------------------------------------------------------------------------
(* Properties.                                                             *)

Breakers ==
  [state : {"closed", "open", "half"},
   requests : 0..MaxRequests,
   successes : 0..(MaxRequests - 1),
   failures : 0..MaxFailures,
   calls : SUBSET Request]

\* The types of the variables. The breaker's counts stay within its limits.
TypeOK ==
  /\ breaker \in Breakers
  /\ due \in BOOLEAN
  /\ running \in SUBSET Request
  /\ told \in [Request -> {"none", "answered", "unavailable", "error"}]
  /\ stale \in SUBSET Request
  /\ everDown \in BOOLEAN

\* A service that is being tried out meets at most MaxRequests RPCs of the
\* trial at a time, whatever is still running from before and however the
\* trial's own results come in (Execute, MaxRequests). The trial cannot get
\* stuck either: as long as it refuses requests, one of its own RPCs is still
\* under way and will decide it. No result of a probe goes uncounted.
ProbesBounded ==
  breaker.state = "half" =>
    /\ Cardinality(running \ stale) + breaker.successes <= MaxRequests
    /\ ~Admits(breaker) => running \ stale # {}

\* A result that comes in after the state has changed moves nothing: a success
\* from before the breaker opened does not help to close it, a late failure
\* does not open it again (the generations of Execute).
StaleResultsAreIgnored ==
  [][\A r \in stale :
       r \in running /\ r \notin running' => breaker' = Current]_vars

\* When RPCs have stopped failing and requests keep coming, the breaker ends up
\* closed: no mixture of probes, late results and timeouts leaves it open or
\* half open, nor refusing for ever.
Recovers ==
  /\ <>[][\A r \in Request : ~Fails(r)]_vars
  /\ WF_vars(\E r \in Request : Call(r) \/ Refuse(r))
  => <>[](breaker.state = "closed")

\* "Service unavailable" is said of a service that has failed to answer. It is
\* also said of one that has answered every RPC: errors of the business are
\* failures to the breaker.
UnavailableMeansDown ==
  \A r \in Request : told[r] = "unavailable" => everDown
=============================================================================
