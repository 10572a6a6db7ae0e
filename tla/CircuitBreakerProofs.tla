------------------------ MODULE CircuitBreakerProofs ------------------------
(* Theorems about CircuitBreaker, for every set of requests and every      *)
(* setting of the breaker.                                                 *)
EXTENDS CircuitBreaker, FiniteSetTheorems, TLAPS

(* What gobreaker's functions make of a breaker b.                         *)

\* A new period is a breaker.
LEMMA FreshTyped ==
  ASSUME NEW s \in {"closed", "open", "half"}
  PROVE  Fresh(s) \in Breakers
BY BreakerAssumption DEF Fresh, Breakers

\* What currentState returns is the breaker, or a new period.
LEMMA CurrentTyped ==
  ASSUME TypeOK
  PROVE  /\ Current \in Breakers
         /\ Current.calls \subseteq breaker.calls
         /\ Current = breaker \/ (due /\ Current = Fresh("half")) \/ (due /\ Current = Fresh("closed"))
<1>1. breaker \in Breakers
  BY DEF TypeOK
<1>2. CASE ~due
  BY <1>1, <1>2 DEF Current
<1>3. CASE due /\ breaker.state = "open"
  <2>1. Current = Fresh("half")
    BY <1>3 DEF Current
  <2> QED
    BY <1>1, <1>3, <2>1, FreshTyped DEF Fresh
<1>4. CASE due /\ breaker.state # "open"
  <2>1. Current = Fresh(breaker.state) /\ breaker.state \in {"closed", "half"}
    BY <1>1, <1>4 DEF Current, Breakers
  <2> QED
    BY <1>1, <1>4, <2>1, FreshTyped DEF Fresh
<1> QED
  BY <1>2, <1>3, <1>4 DEF TypeOK

\* A success counts, or closes a half-open breaker.
LEMMA SuccessTyped ==
  ASSUME NEW b \in Breakers, b.state # "open"
  PROVE  /\ Success(b) \in Breakers
         /\ \/ Success(b) = Fresh("closed") /\ b.state = "half"
            \/ /\ Success(b).state = b.state
               /\ Success(b).calls = b.calls
               /\ Success(b).requests = b.requests
               /\ b.state = "half" => Success(b).successes = b.successes + 1
<1>1. CASE b.state = "closed"
  <2>1. Success(b) = [b EXCEPT !.failures = 0]
    BY <1>1 DEF Success
  <2> QED
    BY <1>1, <2>1, BreakerAssumption DEF Breakers
<1>2. CASE b.state = "half" /\ b.successes + 1 >= MaxRequests
  <2>1. Success(b) = Fresh("closed")
    BY <1>2 DEF Success
  <2> QED
    BY <1>2, <2>1, FreshTyped
<1>3. CASE b.state = "half" /\ ~(b.successes + 1 >= MaxRequests)
  <2>1. Success(b) = [b EXCEPT !.successes = @ + 1]
    BY <1>3 DEF Success
  <2>2. b.successes + 1 \in 0..(MaxRequests - 1)
    BY <1>3, BreakerAssumption DEF Breakers
  <2> QED
    BY <1>3, <2>1, <2>2 DEF Breakers
<1> QED
  BY <1>1, <1>2, <1>3 DEF Breakers

\* A failure counts, or opens the breaker; half open it always does.
LEMMA FailureTyped ==
  ASSUME NEW b \in Breakers, b.state # "open"
  PROVE  /\ Failure(b) \in Breakers
         /\ \/ Failure(b) = Fresh("open")
            \/ /\ b.state = "closed"
               /\ Failure(b).state = "closed"
               /\ Failure(b).calls = b.calls
<1>1. CASE b.state = "half" \/ b.failures + 1 > MaxFailures
  <2>1. Failure(b) = Fresh("open")
    BY <1>1 DEF Failure
  <2> QED
    BY <2>1, FreshTyped
<1>2. CASE ~(b.state = "half" \/ b.failures + 1 > MaxFailures)
  <2>1. Failure(b) = [b EXCEPT !.failures = @ + 1]
    BY <1>2 DEF Failure
  <2>2. b.failures + 1 \in 0..MaxFailures
    BY <1>2, BreakerAssumption DEF Breakers
  <2> QED
    BY <1>2, <2>1, <2>2 DEF Breakers
<1> QED
  BY <1>1, <1>2
-----------------------------------------------------------------------------
(* The inductive invariant: which RPCs belong to the current period.       *)

\* The RPCs of the period are running and have seen no change; while the
\* service is being tried out they are all that have not.
Members ==
  /\ stale \subseteq running
  /\ breaker.calls \subseteq running \ stale
  /\ breaker.state = "half" => running \ stale \subseteq breaker.calls
  /\ breaker.state = "open" => breaker.calls = {}
  /\ breaker.state = "half" => ~due

\* Every RPC of a trial was counted when it was let through, and is under way
\* or has succeeded.
Trial ==
  /\ IsFiniteSet(breaker.calls)
  /\ breaker.state = "half" =>
       Cardinality(breaker.calls) + breaker.successes = breaker.requests

Inv == TypeOK /\ Members /\ Trial

\* Initially nothing runs.
LEMMA InvInit == Init => Inv
<1> SUFFICES ASSUME Init PROVE Inv
  OBVIOUS
<1>1. TypeOK
  BY FreshTyped DEF Init, TypeOK
<1>2. Members
  BY DEF Init, Members, Fresh
<1>3. Trial
  BY FS_EmptySet DEF Init, Trial, Fresh
<1> QED
  BY <1>1, <1>2, <1>3 DEF Inv

\* Looking at the breaker keeps the invariant: a period that starts knows no RPC.
LEMMA CurrentInv ==
  ASSUME Inv, NEW ss, ss = Staling(Current, running)
  PROVE  /\ ss \subseteq running
         /\ Current.calls \subseteq running \ ss
         /\ Current.state = "half" => running \ ss \subseteq Current.calls
         /\ Current.state = "open" => Current.calls = {}
         /\ IsFiniteSet(Current.calls)
         /\ Current.state = "half" =>
              Cardinality(Current.calls) + Current.successes = Current.requests
         /\ stale \cap Current.calls = {}
<1>1. CASE Current = breaker
  <2>1. ss = stale
    BY <1>1 DEF Inv, Members, Staling
  <2> QED
    BY <1>1, <2>1 DEF Inv, Members, Trial
<1>2. CASE due /\ Current = Fresh("half")
  <2>1. /\ Current.state = "half"
        /\ Current.calls = {}
        /\ Current.successes = 0
        /\ Current.requests = 0
    BY <1>2 DEF Fresh
  <2>2. ss = running
    BY <1>2, <2>1 DEF Inv, Members, Staling
  <2> QED
    BY <2>1, <2>2, FS_EmptySet DEF Inv, Members
<1>3. CASE due /\ Current = Fresh("closed")
  <2>1. Current.state = "closed" /\ Current.calls = {}
    BY <1>3 DEF Fresh
  <2> QED
    BY <2>1, FS_EmptySet DEF Inv, Members, Staling
<1> QED
  BY <1>1, <1>2, <1>3, CurrentTyped DEF Inv

\* Execute starts an RPC.
LEMMA CallInv ==
  ASSUME Inv, NEW r \in Request, Call(r)
  PROVE  Inv'
<1> DEFINE b == [Current EXCEPT
                   !.requests = IF Current.state = "half" THEN @ + 1 ELSE @,
                   !.calls = @ \cup {r}]
           ss == Staling(Current, running)
<1>1. Current \in Breakers /\ Current.calls \subseteq breaker.calls
  BY CurrentTyped DEF Inv
<1>2. breaker' = b /\ due' = FALSE /\ running' = running \cup {r} /\ stale' = ss
  BY DEF Call, SetBreaker
<1>3. /\ r \notin running
      /\ Current.state = "closed" \/ (Current.state = "half" /\ Current.requests < MaxRequests)
  BY DEF Call, Admits
<1>4. /\ b.state = Current.state
      /\ b.calls = Current.calls \cup {r}
      /\ b.successes = Current.successes
      /\ Current.state = "half" => b.requests = Current.requests + 1
  BY <1>1 DEF Breakers
<1>5. b \in Breakers
  <2>1. (IF Current.state = "half" THEN Current.requests + 1 ELSE Current.requests)
          \in 0..MaxRequests
    BY <1>1, <1>3, BreakerAssumption DEF Breakers
  <2> QED
    BY <1>1, <2>1 DEF Breakers
<1> HIDE DEF b
<1>6. TypeOK'
  <2>1. ss \subseteq running
    BY CurrentInv
  <2>2. told' \in [Request -> {"none", "answered", "unavailable", "error"}]
    BY DEF Call, Inv, TypeOK
  <2>3. everDown' \in BOOLEAN
    BY DEF Call, Inv, TypeOK
  <2> QED
    BY <1>2, <1>5, <2>1, <2>2, <2>3 DEF Inv, TypeOK
<1>7. Members'
  BY <1>2, <1>3, <1>4, CurrentInv DEF Members
<1>8. Trial'
  <2>1. r \notin Current.calls
    BY <1>3, CurrentInv
  <2>2. IsFiniteSet(b.calls) /\ Cardinality(b.calls) = Cardinality(Current.calls) + 1
    <3> DEFINE C == Current.calls
    <3>1. b.calls = C \cup {r} /\ IsFiniteSet(C) /\ r \notin C
      BY <1>4, <2>1, CurrentInv
    <3> HIDE DEF C
    <3>2. IsFiniteSet(C \cup {r}) /\ Cardinality(C \cup {r}) = Cardinality(C) + 1
      BY <3>1, FS_AddElement
    <3> QED
      BY <3>1, <3>2 DEF C
  <2>3. Cardinality(Current.calls) \in Nat
    BY CurrentInv, FS_CardinalityType
  <2>4. Current.successes \in Nat /\ Current.requests \in Nat
    BY <1>1, BreakerAssumption DEF Breakers
  <2> QED
    BY <1>2, <1>4, <2>2, <2>3, <2>4, CurrentInv DEF Trial
<1> QED
  BY <1>6, <1>7, <1>8 DEF Inv

\* Execute refuses an RPC.
LEMMA RefuseInv ==
  ASSUME Inv, NEW r \in Request, Refuse(r)
  PROVE  Inv'
<1>1. Current \in Breakers
  BY CurrentTyped DEF Inv
<1>2. /\ breaker' = Current /\ due' = FALSE /\ running' = running
      /\ stale' = Staling(Current, running)
  BY DEF Refuse, SetBreaker
<1>3. TypeOK'
  <2>1. stale' \subseteq running
    BY <1>2, CurrentInv
  <2>2. told' \in [Request -> {"none", "answered", "unavailable", "error"}]
    BY DEF Refuse, Inv, TypeOK
  <2>3. everDown' \in BOOLEAN
    BY DEF Refuse, Inv, TypeOK
  <2> QED
    BY <1>1, <1>2, <2>1, <2>2, <2>3 DEF Inv, TypeOK
<1>4. Members' /\ Trial'
  BY <1>2, CurrentInv DEF Members, Trial
<1> QED
  BY <1>3, <1>4 DEF Inv

\* An RPC of the current period ends: the breaker counts it, or starts a new
\* period.
LEMMA CountedReturn ==
  ASSUME Inv, NEW r \in Request, NEW o \in Result, r \in Current.calls,
         NEW n, n = AfterRpc(r, o)
  PROVE  /\ n \in Breakers
         /\ Current = breaker
         /\ \/ n.state # breaker.state /\ n.calls = {} /\ n = Fresh(n.state) /\ n.state # "half"
            \/ /\ n.state = breaker.state
               /\ n.state # "open"
               /\ n.calls = breaker.calls \ {r}
               /\ n.state = "half" =>
                    n.requests = breaker.requests /\ n.successes = breaker.successes + 1
<1> DEFINE b == [Current EXCEPT !.calls = @ \ {r}]
<1>1. Current = breaker
  BY CurrentTyped DEF Inv, Fresh
<1>2. breaker \in Breakers /\ breaker.state # "open"
  BY <1>1 DEF Inv, TypeOK, Members
<1>3. /\ b \in Breakers
      /\ b.state = breaker.state
      /\ b.calls = breaker.calls \ {r}
      /\ b.requests = breaker.requests
      /\ b.successes = breaker.successes
  BY <1>1, <1>2 DEF Breakers
<1>4. n = IF o = "ok" THEN Success(b) ELSE Failure(b)
  BY DEF AfterRpc
<1> HIDE DEF b
<1>5. CASE o = "ok"
  <2>1. n = Success(b)
    BY <1>4, <1>5
  <2>2. b.state # "open"
    BY <1>2, <1>3
  <2>3. CASE n = Fresh("closed") /\ b.state = "half"
    BY <1>1, <1>3, <2>3, FreshTyped DEF Fresh
  <2>4. CASE ~(n = Fresh("closed") /\ b.state = "half")
    BY <1>1, <1>2, <1>3, <2>1, <2>2, <2>4, SuccessTyped
  <2> QED
    BY <2>3, <2>4
<1>6. CASE o # "ok"
  <2>1. n = Failure(b)
    BY <1>4, <1>6
  <2>2. b.state # "open"
    BY <1>2, <1>3
  <2>3. CASE n = Fresh("open")
    BY <1>1, <1>2, <2>3, FreshTyped DEF Fresh
  <2>4. CASE n # Fresh("open")
    BY <1>1, <1>2, <1>3, <2>1, <2>2, <2>4, FailureTyped
  <2> QED
    BY <2>3, <2>4
<1> QED
  BY <1>5, <1>6

\* An RPC ends.
LEMMA ReturnInv ==
  ASSUME Inv, NEW r \in Request, NEW o \in Result, Return(r, o)
  PROVE  Inv'
<1>1. /\ breaker' = AfterRpc(r, o)
      /\ due' = FALSE
      /\ running' = running \ {r}
      /\ stale' = Staling(AfterRpc(r, o), running \ {r})
  BY DEF Return, SetBreaker
<1>2. told' \in [Request -> {"none", "answered", "unavailable", "error"}]
  <2>1. PICK a \in {"answered", "unavailable", "error"} : told' = [told EXCEPT ![r] = a]
    BY DEF Return, Result
  <2> QED
    BY <2>1 DEF Inv, TypeOK
<1>3. everDown' \in BOOLEAN
  BY DEF Return
<1>4. stale' \subseteq running'
  BY <1>1 DEF Inv, Members, Staling
<1>5. CASE r \notin Current.calls
  <2>1. breaker' = Current
    BY <1>1, <1>5 DEF AfterRpc
  <2>2. stale' = Staling(Current, running) \ {r}
    BY <1>1, <1>5, <2>1 DEF Staling
  <2>3. TypeOK'
    BY <1>1, <1>2, <1>3, <1>4, <2>1, CurrentTyped DEF Inv, TypeOK
  <2>4. Members' /\ Trial'
    BY <1>1, <1>4, <1>5, <2>1, <2>2, CurrentInv DEF Members, Trial
  <2> QED
    BY <2>3, <2>4 DEF Inv
<1>6. CASE r \in Current.calls
  <2>1. /\ breaker' \in Breakers
        /\ \/ /\ breaker'.state # breaker.state
              /\ breaker'.calls = {}
              /\ breaker'.state # "half"
           \/ /\ breaker'.state = breaker.state
              /\ breaker'.state # "open"
              /\ breaker'.calls = breaker.calls \ {r}
              /\ breaker'.state = "half" =>
                   /\ breaker'.requests = breaker.requests
                   /\ breaker'.successes = breaker.successes + 1
    BY <1>1, <1>6, CountedReturn
  <2>2. TypeOK'
    BY <1>1, <1>2, <1>3, <1>4, <2>1 DEF Inv, TypeOK
  <2>3. r \in breaker.calls
    BY <1>6, CountedReturn
  <2>4. CASE breaker'.state # breaker.state
    BY <1>1, <1>4, <2>1, <2>2, <2>4, FS_EmptySet DEF Inv, Members, Trial
  <2>5. CASE breaker'.state = breaker.state
    <3>1. breaker'.state # "open" /\ breaker'.calls = breaker.calls \ {r}
      BY <2>1, <2>5
    <3>2. stale' = stale \ {r}
      BY <1>1, <2>5 DEF Staling, Inv, Members
    <3>3. Members'
      BY <1>1, <3>1, <3>2, <2>5 DEF Inv, Members
    <3>4. /\ IsFiniteSet(breaker'.calls)
          /\ Cardinality(breaker'.calls) = Cardinality(breaker.calls) - 1
          /\ Cardinality(breaker.calls) \in Nat
      BY <2>3, <3>1, FS_RemoveElement, FS_CardinalityType DEF Inv, Trial
    <3>5. breaker.successes \in Nat /\ breaker.requests \in Nat
      BY BreakerAssumption DEF Inv, TypeOK, Breakers
    <3>6. Trial'
      BY <2>1, <2>5, <3>4, <3>5 DEF Inv, Trial
    <3> QED
      BY <2>2, <3>3, <3>6 DEF Inv
  <2> QED
    BY <2>2, <2>4, <2>5 DEF Inv
<1> QED
  BY <1>5, <1>6

LEMMA InvStep == Inv /\ [Next]_vars => Inv'
<1> SUFFICES ASSUME Inv, [Next]_vars PROVE Inv'
  OBVIOUS
<1>1. CASE IntervalEnds \/ TimeoutEnds
  BY <1>1 DEF IntervalEnds, TimeoutEnds, Inv, TypeOK, Members, Trial
<1>2. CASE UNCHANGED vars
  BY <1>2 DEF vars, Inv, TypeOK, Members, Trial
<1> QED
  BY <1>1, <1>2, CallInv, RefuseInv, ReturnInv DEF Next

LEMMA InvAlways == Spec => []Inv
<1>1. Init => Inv
  BY InvInit
<1> QED
  BY <1>1, InvStep, PTL DEF Spec
-----------------------------------------------------------------------------
(* The theorems.                                                           *)

\* The variables keep their types, and the counts stay within the settings.
THEOREM TypeCorrect == Spec => []TypeOK
<1>1. Inv => TypeOK
  BY DEF Inv
<1> QED
  BY <1>1, InvAlways, PTL

\* A service that is being tried out meets at most MaxRequests RPCs of the
\* trial at a time.
THEOREM ProbesBoundedCorrect == Spec => []ProbesBounded
<1>1. Inv => ProbesBounded
  <2> SUFFICES ASSUME Inv, breaker.state = "half"
               PROVE  /\ Cardinality(running \ stale) + breaker.successes <= MaxRequests
                      /\ ~Admits(breaker) => running \ stale # {}
    BY DEF ProbesBounded
  <2>1. running \ stale = breaker.calls
    BY DEF Inv, Members
  <2>2. Cardinality(breaker.calls) \in Nat
    BY FS_CardinalityType DEF Inv, Trial
  <2>3. /\ breaker.successes \in Nat
        /\ breaker.successes < MaxRequests
        /\ breaker.requests \in Nat
        /\ breaker.requests <= MaxRequests
    BY BreakerAssumption DEF Inv, TypeOK, Breakers
  <2>4. Cardinality(breaker.calls) + breaker.successes = breaker.requests
    BY DEF Inv, Trial
  <2>5. Cardinality(breaker.calls) + breaker.successes <= MaxRequests
    BY <2>2, <2>3, <2>4, BreakerAssumption
  <2>6. ASSUME ~Admits(breaker) PROVE breaker.calls # {}
    <3>1. breaker.requests = MaxRequests
      BY <2>3, <2>6, BreakerAssumption DEF Admits
    <3>2. Cardinality(breaker.calls) # 0
      BY <2>2, <2>3, <2>4, <3>1, BreakerAssumption
    <3> QED
      BY <3>2, FS_EmptySet
  <2> QED
    BY <2>1, <2>5, <2>6
<1> QED
  BY <1>1, InvAlways, PTL

\* A result that comes in after the state has changed moves nothing.
THEOREM StaleResultsAreIgnoredCorrect == Spec => StaleResultsAreIgnored
<1>1. Inv /\ [Next]_vars =>
        [\A r \in stale : r \in running /\ r \notin running' => breaker' = Current]_vars
  <2> SUFFICES ASSUME Inv, [Next]_vars, NEW r \in stale, r \in running, r \notin running'
               PROVE  breaker' = Current
    OBVIOUS
  <2>1. PICK o \in Result : Return(r, o)
    BY DEF Next, Call, Refuse, Return, IntervalEnds, TimeoutEnds, vars
  <2>2. r \notin Current.calls
    BY CurrentInv
  <2> QED
    BY <2>1, <2>2 DEF Return, SetBreaker, AfterRpc
<1> QED
  BY <1>1, InvAlways, PTL DEF Spec, StaleResultsAreIgnored
=============================================================================
