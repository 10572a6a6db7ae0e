---------------------------- MODULE RateLimiter ----------------------------
(***************************************************************************)
(* The gateway's rate limiter on Redis, for one limited path               *)
(* (services/gateway/internal/delivery/rest/middleware/ratelimiter.go).    *)
(*                                                                         *)
(* A request goes through checkLimit for the path's counter and then for   *)
(* the counter of its RemoteAddr, which is an address and a port: one TCP  *)
(* connection. A check is INCR, then EXPIRE if it was the first, then DEL  *)
(* if the EXPIRE failed: separate commands, interleaved with those of all  *)
(* other requests. go-redis repeats a command whose reply did not come at  *)
(* most MaxRetries times, and runs none once the request's context has     *)
(* ended. Assumption: an attempt that was given up is executed before the  *)
(* next command, or never.                                                 *)
(***************************************************************************)
EXTENDS Naturals, FiniteSets

CONSTANTS
  Request,     \* HTTP requests to the path
  Addr,        \* RemoteAddr values
  All,         \* the counter of the whole path
  AllLimit,    \* rate_limiter.all.limits of the path; 0 is "no limit"
  IPLimit,     \* rate_limiter.ip.limits of the path; 0 is "no limit"
  MaxRetries   \* go-redis' Options.MaxRetries

ASSUME LimitsAssumption ==
  /\ AllLimit \in Nat
  /\ IPLimit \in Nat
  /\ MaxRetries \in Nat
  /\ All \notin Addr

VARIABLES
  count,       \* count[k]: the counter in Redis; 0 when there is no such key
  ttl,         \* counters whose key has an expiry
  pc,          \* pc[r]: the Redis command r is about to run
  from,        \* from[r]: its RemoteAddr while it is being checked
  at,          \* at[r]: the counter it is checking
  exceeded,    \* exceeded[r]: allExceeded || ipExceeded so far
  tries,       \* tries[r]: repeats of the current command so far
  gone,        \* requests whose context has ended
  outcome,     \* outcome[r]: what became of the request
  window,      \* history: window[k], the requests counted since k last expired
  unsure,      \* history: counters with a command whose reply was given up
  undone       \* history: counters that checkLimit's DEL has removed

locals == <<pc, from, at, exceeded, tries, gone, outcome>>
history == <<window, unsure, undone>>
vars == <<count, ttl, locals, history>>

Counter == Addr \cup {All}
Limit(k) == IF k = All THEN AllLimit ELSE IPLimit
Running == {"incr", "expire", "del"}

Init ==
  /\ count = [k \in Counter |-> 0]
  /\ ttl = {}
  /\ pc = [r \in Request |-> "idle"]
  /\ from = [r \in Request |-> All]
  /\ at = [r \in Request |-> All]
  /\ exceeded = [r \in Request |-> FALSE]
  /\ tries = [r \in Request |-> 0]
  /\ gone = {}
  /\ outcome = [r \in Request |-> "none"]
  /\ window = [k \in Counter |-> {}]
  /\ unsure = {}
  /\ undone = {}
-----------------------------------------------------------------------------
\* r goes on to command p on counter k; e: a limit is exceeded already.
Goto(r, p, k, e) ==
  /\ pc' = [pc EXCEPT ![r] = p]
  /\ at' = [at EXCEPT ![r] = k]
  /\ exceeded' = [exceeded EXCEPT ![r] = e]
  /\ tries' = [tries EXCEPT ![r] = 0]
  /\ UNCHANGED <<from, gone, outcome>>

\* The middleware is done with r; its locals and its context are gone.
Finish(r, o) ==
  /\ pc' = [pc EXCEPT ![r] = "done"]
  /\ at' = [at EXCEPT ![r] = All]
  /\ exceeded' = [exceeded EXCEPT ![r] = FALSE]
  /\ tries' = [tries EXCEPT ![r] = 0]
  /\ from' = [from EXCEPT ![r] = All]
  /\ gone' = gone \ {r}
  /\ outcome' = [outcome EXCEPT ![r] = o]

(* The operators named ...Mutant are faulty variants of the definition that *)
(* follows them. No specification uses them: they show which fault each     *)
(* property finds.                                                          *)

\* The second check's result overwrites the first's.
CheckedForgetsAllMutant(r, n) ==
  LET over == n >= Limit(at[r])
  IN  IF at[r] = All /\ IPLimit > 0
        THEN Goto(r, "incr", from[r], over)
        ELSE Finish(r, IF over THEN "limited" ELSE "admitted")

\* checkLimit returns a count of n for r's counter: the second check, or the
\* decision. The last request the limit allows is exceeded already:
\* 'remaining == 0'.
Checked(r, n) ==
  LET over == exceeded[r] \/ n >= Limit(at[r])
  IN  IF at[r] = All /\ IPLimit > 0
        THEN Goto(r, "incr", from[r], over)
        ELSE Finish(r, IF over THEN "limited" ELSE "admitted")

\* One repeat too many.
NoReplyOnceMoreMutant(r) ==
  /\ \/ /\ r \notin gone /\ tries[r] <= MaxRetries
        /\ tries' = [tries EXCEPT ![r] = @ + 1]
        /\ UNCHANGED <<pc, from, at, exceeded, gone, outcome>>
     \/ IF pc[r] = "expire" THEN Goto(r, "del", at[r], exceeded[r])
                            ELSE Finish(r, "error")
  /\ unsure' = unsure \cup {at[r]}

\* The reply to r's command does not come: it is run again, or the error is
\* handled. A failed EXPIRE is followed by DEL, with the same context; any
\* other error is the 500 of the request.
NoReply(r) ==
  /\ \/ /\ r \notin gone /\ tries[r] < MaxRetries
        /\ tries' = [tries EXCEPT ![r] = @ + 1]
        /\ UNCHANGED <<pc, from, at, exceeded, gone, outcome>>
     \/ IF pc[r] = "expire" THEN Goto(r, "del", at[r], exceeded[r])
                            ELSE Finish(r, "error")
  /\ unsure' = unsure \cup {at[r]}
-----------------------------------------------------------------------------
\* Middleware: the first counter that has a limit, if any.
Arrive(r, a) ==
  /\ pc[r] = "idle"
  /\ IF AllLimit = 0 /\ IPLimit = 0
       THEN Finish(r, "admitted")
       ELSE /\ pc' = [pc EXCEPT ![r] = "incr"]
            /\ from' = [from EXCEPT ![r] = a]
            /\ at' = [at EXCEPT ![r] = IF AllLimit > 0 THEN All ELSE a]
            /\ UNCHANGED <<exceeded, tries, gone, outcome>>
  /\ UNCHANGED <<count, ttl, history>>

\* Only the path's counter is given an expiry.
IncrAllOnlyMutant(r) ==
  /\ pc[r] = "incr" /\ r \notin gone
  /\ count' = [count EXCEPT ![at[r]] = @ + 1]
  /\ window' = [window EXCEPT ![at[r]] = @ \cup {r}]
  /\ \/ /\ IF count[at[r]] = 0 /\ at[r] = All
             THEN Goto(r, "expire", at[r], exceeded[r])
             ELSE Checked(r, count[at[r]] + 1)
        /\ UNCHANGED unsure
     \/ NoReply(r)
  /\ UNCHANGED <<ttl, undone>>

Incr(r) ==
  /\ pc[r] = "incr" /\ r \notin gone
  /\ count' = [count EXCEPT ![at[r]] = @ + 1]
  /\ window' = [window EXCEPT ![at[r]] = @ \cup {r}]
  /\ \/ /\ IF count[at[r]] = 0
             THEN Goto(r, "expire", at[r], exceeded[r])
             ELSE Checked(r, count[at[r]] + 1)
        /\ UNCHANGED unsure
     \/ NoReply(r)
  /\ UNCHANGED <<ttl, undone>>

\* The expiry is set with SET key 1 EX, which forgets who came in between.
ExpireSetsMutant(r) ==
  /\ pc[r] = "expire" /\ r \notin gone
  /\ ttl' = ttl \cup {at[r]}
  /\ count' = [count EXCEPT ![at[r]] = 1]
  /\ \/ Checked(r, 1) /\ UNCHANGED unsure
     \/ NoReply(r)
  /\ UNCHANGED <<window, undone>>

\* EXPIRE; on a key that is not there it does nothing and is no error. The
\* count was 1.
Expire(r) ==
  /\ pc[r] = "expire" /\ r \notin gone
  /\ ttl' = IF count[at[r]] > 0 THEN ttl \cup {at[r]} ELSE ttl
  /\ \/ Checked(r, 1) /\ UNCHANGED unsure
     \/ NoReply(r)
  /\ UNCHANGED <<count, window, undone>>

Del(r) ==
  /\ pc[r] = "del" /\ r \notin gone
  /\ count' = [count EXCEPT ![at[r]] = 0]
  /\ ttl' = ttl \ {at[r]}
  /\ undone' = undone \cup {at[r]}
  /\ \/ Finish(r, "error") /\ UNCHANGED unsure
     \/ NoReply(r)
  /\ UNCHANGED window

\* A command that did not reach Redis; after the end of the context none does.
CommandLost(r) ==
  /\ pc[r] \in Running
  /\ NoReply(r)
  /\ UNCHANGED <<count, ttl, window, undone>>

\* The client goes away, or the request's time is over.
Cancel(r) ==
  /\ pc[r] \in Running /\ r \notin gone
  /\ gone' = gone \cup {r}
  /\ UNCHANGED <<count, ttl, pc, from, at, exceeded, tries, outcome, history>>

\* The expiry of a counter.
Elapse(k) ==
  /\ k \in ttl
  /\ count' = [count EXCEPT ![k] = 0]
  /\ ttl' = ttl \ {k}
  /\ window' = [window EXCEPT ![k] = {}]
  /\ unsure' = unsure \ {k}
  /\ undone' = undone \ {k}
  /\ UNCHANGED locals

\* The gateway's process ends.
Crash ==
  LET cut == {r \in Request : pc[r] \in Running}
  IN  /\ cut # {}
      /\ pc' = [r \in Request |-> IF r \in cut THEN "done" ELSE pc[r]]
      /\ at' = [r \in Request |-> All]
      /\ exceeded' = [r \in Request |-> FALSE]
      /\ tries' = [r \in Request |-> 0]
      /\ from' = [r \in Request |-> All]
      /\ gone' = {}
      /\ outcome' = [r \in Request |-> IF r \in cut THEN "error" ELSE outcome[r]]
      /\ unsure' = unsure \cup {at[r] : r \in cut}
      /\ UNCHANGED <<count, ttl, window, undone>>

Step(r) == Incr(r) \/ Expire(r) \/ Del(r) \/ CommandLost(r)

Next ==
  \/ \E r \in Request : Step(r) \/ Cancel(r) \/ \E a \in Addr : Arrive(r, a)
  \/ \E k \in Counter : Elapse(k)
  \/ Crash

Spec == Init /\ [][Next]_vars
-----------------------------------------------------------------------------
(* Properties.                                                             *)

\* The types of the variables.
TypeOK ==
  /\ count \in [Counter -> Nat]
  /\ ttl \subseteq {k \in Counter : count[k] > 0}
  /\ pc \in [Request -> Running \cup {"idle", "done"}]
  /\ from \in [Request -> Counter]
  /\ at \in [Request -> Counter]
  /\ exceeded \in [Request -> BOOLEAN]
  /\ tries \in [Request -> 0..MaxRetries]
  /\ gone \subseteq {r \in Request : pc[r] \in Running}
  /\ outcome \in [Request -> {"none", "admitted", "limited", "error"}]
  /\ window \in [Counter -> SUBSET Request]
  /\ unsure \subseteq Counter
  /\ undone \subseteq Counter

Admitted(k) == {r \in window[k] : outcome[r] = "admitted"}

\* Within one window of a counter fewer requests than its limit are admitted,
\* however their checks interleave and fail, unless checkLimit has removed the
\* counter after an EXPIRE that failed.
WithinLimit ==
  \A k \in Counter :
    Limit(k) > 0 /\ k \notin undone => Cardinality(Admitted(k)) < Limit(k)

\* The counter counts each request of its window once, whatever of their
\* commands interleave and wherever the window ends, unless a reply about it
\* was given up or checkLimit has removed it. However many replies are lost it
\* never counts one more than MaxRetries + 1 times: nobody is refused for
\* requests that were not made, and a fault takes no more than that share of
\* the limit (go-redis' repeats of INCR).
CountsEachOnce ==
  \A k \in Counter :
    /\ k \notin unsure \cup undone => count[k] = Cardinality(window[k])
    /\ count[k] <= (MaxRetries + 1) * Cardinality(window[k])

\* A counter that would never expire is one that a request is about to give
\* its expiry, or a reply about it was given up: no order of the requests'
\* commands alone leaves such a counter.
NoExpiryNeedsFault ==
  \A k \in Counter :
    count[k] > 0 /\ k \notin ttl =>
      k \in unsure \/ \E r \in Request : pc[r] = "expire" /\ at[r] = k

\* Every counter expires, unless the request that started it is still working
\* at it or has failed. It need not: when the reply to the first INCR is lost,
\* go-redis repeats it, the repeat counts 2 and nobody sets the expiry.
EveryCounterExpires ==
  \A k \in Counter :
    count[k] > 0 /\ k \notin ttl =>
      \E r \in window[k] : outcome[r] = "error" \/ (pc[r] \in Running /\ at[r] = k)
=============================================================================
