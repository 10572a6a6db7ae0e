------------------------ MODULE GatewaySessionProofs ------------------------
(* Theorems about GatewaySession, for every set of requests, calls and     *)
(* tokens and every number of gRPC and go-redis repeats. The gateway only  *)
(* uses the auth service in the way AuthService allows, so the theorems of *)
(* AuthServiceProofs hold under it; the properties of the session follow   *)
(* from its invariant Inv and from what the gateway knows of its requests. *)
EXTENDS GatewaySession, AuthServicePromise

Routes == {"login", "refresh", "logout"}

\* The types of the gateway's and the browser's variables.
HttpTyped ==
  /\ stage \in [Request -> {"idle", "calling", "done", "lost"}]
  /\ route \in [Request -> {"none"} \cup Routes]
  /\ sent \in [Request -> Token \cup {NoToken}]
  /\ call \in [Request -> Call \cup {NoCall}]
  /\ attempts \in [Request -> 0..MaxAttempts]
  /\ status \in [Request -> {0, 200, 401, 403, 500, 503}]
  /\ jar \in Token \cup {NoToken}

\* What the handler of a request has done, from where it is.
Handled ==
  \A r \in Request :
    /\ stage[r] = "idle" =>
         /\ route[r] = "none" /\ call[r] = NoCall /\ sent[r] = NoToken
         /\ attempts[r] = 0 /\ status[r] = 0
    /\ stage[r] = "calling" =>
         /\ call[r] \in Call
         /\ status[r] = 0
         /\ route[r] \in {"refresh", "logout"} => sent[r] # NoToken
         /\ route[r] \in Routes
    /\ route[r] = "login" => sent[r] = NoToken

\* The current attempt of a request is an RPC on the cookie it carried, and
\* nobody else's.
OwnAttempts ==
  /\ \A r \in Request :
       call[r] # NoCall =>
         /\ pc[call[r]] # "idle"
         /\ route[r] = "login" => op[call[r]] = "generate"
         /\ route[r] = "refresh" => op[call[r]] = "refresh" /\ arg[call[r]] = sent[r]
         /\ route[r] = "logout" => op[call[r]] = "revoke" /\ arg[call[r]] = sent[r]
  /\ \A r, q \in Request : call[r] = call[q] /\ call[r] # NoCall => r = q

\* Every token presented to the service was sent by a browser, to the route
\* that makes this RPC.
RouteOf(k) == IF k = "refresh" THEN "refresh" ELSE "logout"

AllSent ==
  \A c \in Call :
    op[c] \in {"refresh", "revoke"} =>
      \E r \in Request : stage[r] # "idle" /\ sent[r] = arg[c] /\ route[r] = RouteOf(op[c])

\* Cookies are tokens that came back in an OK response.
Cookies ==
  /\ jar \in Issued \cup {NoToken}
  /\ \A r \in Request : sent[r] \in Issued \cup {NoToken}

\* The browser does not know a token before the response that brings it.
Undelivered ==
  \A r \in Request :
    stage[r] = "calling" /\ new[call[r]] \in Token =>
      /\ jar # new[call[r]]
      /\ \A q \in Request : sent[q] # new[call[r]]

\* A 200 of /refresh is the service's OK.
Exchanged ==
  \A r \in Request :
    route[r] = "refresh" /\ status[r] = 200 => call[r] \in Call /\ reply[call[r]] = "OK"

\* A 200 that arrived has replaced or cleared the cookie of its request.
Replaced ==
  \A r \in Request :
    stage[r] = "done" /\ status[r] = 200 /\ sent[r] # NoToken => jar # sent[r]

GatewayInv ==
  /\ Inv
  /\ HttpTyped
  /\ Handled
  /\ OwnAttempts
  /\ AllSent
  /\ Cookies
  /\ Undelivered
  /\ Exchanged
  /\ Replaced

LEMMA GatewayInvInit == GatewayInit => GatewayInv
<1> SUFFICES ASSUME GatewayInit PROVE GatewayInv
  OBVIOUS
<1>1. Inv
  BY InvInit DEF GatewayInit
<1>2. HttpTyped /\ Handled
  BY MaxAttemptsAssumption, ConstantsAssumption DEF GatewayInit, HttpTyped, Handled, Routes
<1>3. OwnAttempts /\ AllSent /\ Cookies /\ Undelivered /\ Exchanged /\ Replaced
  BY ConstantsAssumption DEF GatewayInit, Init, OwnAttempts, AllSent, Cookies, Undelivered,
     Exchanged, Replaced
<1> QED
  BY <1>1, <1>2, <1>3 DEF GatewayInv

\* The steps, without the order in which requests start.
LEMMA GatewayMoves ==
  ASSUME GatewayNext
  PROVE  \/ \E r \in Request, k \in Routes :
              stage[r] = "idle" /\ (NoCookie(r, k) \/ Refused(r, k) \/ Begin(r, k))
         \/ \E r \in Request : Receive(r) \/ Retry(r) \/ Unavailable(r) \/ Timeout(r)
         \/ CookieExpires
         \/ Service
BY DEF GatewayNext, Routes, NoCookie, Refused, Begin, Receives
-----------------------------------------------------------------------------
(* The steps of the service.                                               *)

\* An attempt starts an idle call on the cookie, which mints a token nobody
\* has, or none yet.
LEMMA AttemptStarts ==
  ASSUME Inv, NEW r \in Request, NEW k \in Routes, NEW t \in Token \cup {NoToken},
         k # "login" => t \in Issued,
         Attempt(r, k, t)
  PROVE  /\ Next
         /\ \E c \in Call :
              /\ pc[c] = "idle"
              /\ call' = [call EXCEPT ![r] = c]
              /\ k = "refresh" => op'[c] = "refresh" /\ arg'[c] = t
              /\ k = "logout" => op'[c] = "revoke" /\ arg'[c] = t
              /\ k = "login" => op'[c] = "generate"
              /\ new'[c] \in (Token \ Minted) \cup {NoToken}
              /\ \A d \in Call \ {c} :
                   op'[d] = op[d] /\ arg'[d] = arg[d] /\ new'[d] = new[d]
<1> DEFINE c == NextCall
<1>1. c \in Call /\ pc[c] = "idle" /\ new[c] = NoToken
  BY DEF Attempt, NextCall, IdleCalls, Inv, Typed, Phases
<1>2. op \in [Call -> {"none", "generate", "refresh", "revoke"}]
        /\ arg \in [Call -> Token \cup {Junk, NoToken}] /\ new \in [Call -> Token \cup {NoToken}]
  BY DEF Inv, Typed, DataOK
<1>3. CASE k = "login"
  <2>1. NextToken \in Token \ Minted
    BY <1>3, Zenon DEF Attempt, NextToken, Minted
  <2>2. StartGenerate(c, NextToken) /\ call' = [call EXCEPT ![r] = c]
    BY <1>3 DEF Attempt
  <2>3. Next
    BY <1>1, <2>1, <2>2 DEF Next, Start
  <2> HIDE DEF c
  <2> QED
    BY <1>1, <1>2, <1>3, <2>1, <2>2, <2>3 DEF StartGenerate
<1>4. CASE k = "refresh"
  <2>1. StartRefresh(c, t) /\ call' = [call EXCEPT ![r] = c]
    BY <1>4 DEF Attempt
  <2>2. Next
    BY <1>1, <1>4, <2>1 DEF Next, Start
  <2> HIDE DEF c
  <2> QED
    BY <1>1, <1>2, <1>4, <2>1, <2>2 DEF StartRefresh
<1>5. CASE k = "logout"
  <2>1. StartRevoke(c, t) /\ call' = [call EXCEPT ![r] = c]
    BY <1>5 DEF Attempt
  <2>2. Next
    BY <1>1, <1>5, <2>1 DEF Next, Start
  <2> HIDE DEF c
  <2> QED
    BY <1>1, <1>2, <1>5, <2>1, <2>2 DEF StartRevoke
<1> QED
  BY <1>3, <1>4, <1>5 DEF Routes

\* By itself the service answers and mints; it starts no RPC.
LEMMA ServiceSteps ==
  ASSUME Service
  PROVE  Next /\ UNCHANGED <<op, arg>> /\ UNCHANGED httpVars
<1> USE DEF inputVars
<1>1. UNCHANGED httpVars
  BY DEF Service
<1>2. ASSUME NEW c \in Call,
             \/ Save(c) \/ GetMissing(c) \/ Exists(c) \/ PipeDel(c) \/ PipeSetNX(c)
             \/ Revoke(c) \/ CommandLost(c)
      PROVE  Next /\ UNCHANGED <<op, arg>>
  BY <1>2 DEF Next, Step, Save, GetMissing, Exists, PipeDel, PipeSetNX, Revoke, CommandLost
<1>3. ASSUME NEW c \in Call, Token # Minted, Get(c, NextToken)
      PROVE  Next /\ UNCHANGED <<op, arg>>
  <2>1. NextToken \in Token
    BY <1>3, Zenon DEF NextToken, Minted
  <2> QED
    BY <1>3, <2>1 DEF Next, Step, Get
<1>4. ASSUME NEW t \in Token, Expire(t) \/ Evict(t)
      PROVE  Next /\ UNCHANGED <<op, arg>>
  BY <1>4 DEF Next, Expire, Evict
<1>5. ASSUME Crash
      PROVE  Next /\ UNCHANGED <<op, arg>>
  BY <1>5 DEF Next, Crash
<1>6. ASSUME NEW m \in late, ArrivesLate(m)
      PROVE  Next /\ UNCHANGED <<op, arg>>
  BY <1>6 DEF Next, ArrivesLate
<1> QED
  BY <1>1, <1>2, <1>3, <1>4, <1>5, <1>6 DEF Service

\* What the service does by itself disturbs no request.
LEMMA ServiceKeeps ==
  ASSUME GatewayInv, [Next]_vars, UNCHANGED <<op, arg>>, UNCHANGED httpVars
  PROVE  GatewayInv'
<1> USE DEF httpVars
<1>1. Inv /\ Inv' /\ Frame /\ Minting /\ Typed /\ Typed'
  BY InvStep, StepFacts DEF GatewayInv, Inv
<1>2. Issued \subseteq Issued' /\ Issued \subseteq Minted
  BY <1>1, IssuedGrows DEF Issued, Minted
<1>3. HttpTyped' /\ Handled' /\ AllSent' /\ Replaced'
  BY DEF GatewayInv, HttpTyped, Handled, AllSent, Replaced
<1>4. OwnAttempts'
  <2>1. \A c \in Call : pc[c] # "idle" => pc'[c] # "idle"
    BY <1>1 DEF Typed, Phases
  <2> QED
    BY <2>1, ConstantsAssumption DEF GatewayInv, OwnAttempts, HttpTyped
<1>5. Cookies'
  BY <1>2 DEF GatewayInv, Cookies
<1>6. Undelivered'
  <2> SUFFICES ASSUME NEW r \in Request, stage[r] = "calling", new'[call[r]] \in Token
               PROVE  /\ jar # new'[call[r]]
                      /\ \A q \in Request : sent[q] # new'[call[r]]
    BY DEF Undelivered
  <2>1. call[r] \in Call
    BY DEF GatewayInv, Handled
  <2>2. CASE new'[call[r]] = new[call[r]]
    BY <2>2 DEF GatewayInv, Undelivered
  <2>3. CASE new'[call[r]] # new[call[r]]
    BY <1>1, <1>2, <2>1, <2>3, ConstantsAssumption DEF GatewayInv, Cookies, Minting
  <2> QED
    BY <2>2, <2>3
<1>7. Exchanged'
  <2>1. \A c \in Call : reply[c] = "OK" => reply'[c] = "OK"
    BY <1>1 DEF Frame, Typed, Phases
  <2> QED
    BY <2>1 DEF GatewayInv, Exchanged
<1> QED
  BY <1>1, <1>3, <1>4, <1>5, <1>6, <1>7 DEF GatewayInv
-----------------------------------------------------------------------------
(* The steps of the gateway.                                               *)

\* A request that starts an attempt: its first, or a repeat.
LEMMA AttemptKeeps ==
  ASSUME GatewayInv, NEW r \in Request, NEW k \in Routes,
         stage[r] \in {"idle", "calling"},
         status[r] = 0, attempts[r] < MaxAttempts,
         route' = [route EXCEPT ![r] = k],
         sent' = [sent EXCEPT ![r] = sent'[r]],
         sent'[r] \in {sent[r], jar},
         stage[r] = "calling" => sent'[r] = sent[r] /\ route[r] = k,
         IF k = "login" THEN sent'[r] = NoToken ELSE sent'[r] # NoToken,
         Attempt(r, k, sent'[r]),
         stage' = [stage EXCEPT ![r] = "calling"],
         UNCHANGED <<status, jar>>
  PROVE  GatewayInv'
<1> DEFINE t == sent'[r]
<1>1. t \in Issued \cup {NoToken} /\ t \in Token \cup {NoToken}
  BY DEF GatewayInv, Cookies, Issued
<1>2. k # "login" => t \in Issued
  BY <1>1
<1>3. Next
  BY <1>1, <1>2, AttemptStarts DEF GatewayInv
<1>4. PICK c \in Call :
        /\ pc[c] = "idle"
        /\ call' = [call EXCEPT ![r] = c]
        /\ k = "refresh" => op'[c] = "refresh" /\ arg'[c] = t
        /\ k = "logout" => op'[c] = "revoke" /\ arg'[c] = t
        /\ k = "login" => op'[c] = "generate"
        /\ new'[c] \in (Token \ Minted) \cup {NoToken}
        /\ \A d \in Call \ {c} :
             op'[d] = op[d] /\ arg'[d] = arg[d] /\ new'[d] = new[d]
  BY <1>1, <1>2, AttemptStarts DEF GatewayInv
<1>5. Inv /\ Inv' /\ Frame /\ Typed /\ Typed'
  BY <1>3, InvStep, StepFacts DEF GatewayInv, Inv
<1>6. Issued \subseteq Issued' /\ Issued \subseteq Minted
  BY <1>3, <1>5, IssuedGrows DEF Issued, Minted
<1>7. attempts' = [attempts EXCEPT ![r] = attempts[r] + 1] /\ attempts[r] \in 0..MaxAttempts
  BY DEF Attempt, GatewayInv, HttpTyped
<1> HIDE DEF t
<1>8. HttpTyped'
  <2>1. attempts' \in [Request -> 0..MaxAttempts]
    BY <1>7, MaxAttemptsAssumption DEF GatewayInv, HttpTyped
  <2>2. sent' \in [Request -> Token \cup {NoToken}]
    BY <1>1 DEF t, GatewayInv, HttpTyped
  <2>3. call' \in [Request -> Call \cup {NoCall}]
    BY <1>4 DEF GatewayInv, HttpTyped
  <2> QED
    BY <2>1, <2>2, <2>3 DEF GatewayInv, HttpTyped
<1>9. Handled'
  BY <1>4, <1>7, <1>8 DEF GatewayInv, Handled, HttpTyped, Routes
<1>10. \A q \in Request : call[q] # c
  BY <1>4, ConstantsAssumption DEF GatewayInv, OwnAttempts
<1>11. OwnAttempts'
  <2>1. \A d \in Call : pc[d] # "idle" \/ d = c => pc'[d] # "idle"
    BY <1>4, <1>5 DEF Typed, Phases, Routes
  <2>2. \A q \in Request \ {r} :
          call'[q] = call[q] /\ route'[q] = route[q] /\ sent'[q] = sent[q]
    BY <1>4 DEF GatewayInv, HttpTyped
  <2>3. call'[r] = c /\ route'[r] = k
    BY <1>4 DEF GatewayInv, HttpTyped
  <2>4. \A q \in Request \ {r} : call[q] \in Call \cup {NoCall}
    BY DEF GatewayInv, HttpTyped
  <2> QED
    BY <1>4, <1>10, <2>1, <2>2, <2>3, <2>4, ConstantsAssumption DEF t, GatewayInv, OwnAttempts
<1>12. AllSent'
  <2> SUFFICES ASSUME NEW d \in Call, op'[d] \in {"refresh", "revoke"}
               PROVE  \E q \in Request :
                        stage'[q] # "idle" /\ sent'[q] = arg'[d] /\ route'[q] = RouteOf(op'[d])
    BY DEF AllSent
  <2>1. CASE d = c
    BY <1>4, <2>1 DEF t, Routes, GatewayInv, HttpTyped, RouteOf
  <2>2. CASE d # c
    <3>1. PICK q \in Request : stage[q] # "idle" /\ sent[q] = arg'[d] /\ route[q] = RouteOf(op'[d])
      BY <1>4, <2>2 DEF GatewayInv, AllSent
    <3>2. CASE q # r
      BY <3>1, <3>2 DEF GatewayInv, HttpTyped
    <3>3. CASE q = r
      <4>1. stage[r] = "calling" /\ route'[r] = route[r] /\ sent'[r] = sent[r]
        BY <3>1, <3>3 DEF GatewayInv, HttpTyped
      <4> QED
        BY <3>1, <3>3, <4>1 DEF GatewayInv, HttpTyped
    <3> QED
      BY <3>2, <3>3
  <2> QED
    BY <2>1, <2>2
<1>13. Cookies'
  BY <1>1, <1>6 DEF t, GatewayInv, Cookies, HttpTyped
<1>14. Undelivered'
  <2> SUFFICES ASSUME NEW q \in Request, stage'[q] = "calling", new'[call'[q]] \in Token
               PROVE  /\ jar # new'[call'[q]]
                      /\ \A p \in Request : sent'[p] # new'[call'[q]]
    BY DEF Undelivered
  <2>1. \A p \in Request : sent'[p] \in {sent[p], jar}
    BY DEF GatewayInv, HttpTyped
  <2>2. CASE q = r
    <3>1. new'[call'[q]] \in Token \ Minted
      BY <1>4, <2>2, ConstantsAssumption DEF GatewayInv, HttpTyped
    <3> QED
      BY <1>6, <2>1, <3>1, ConstantsAssumption DEF GatewayInv, Cookies
  <2>3. CASE q # r
    <3>1. call'[q] = call[q] /\ stage[q] = "calling" /\ call[q] \in Call
      BY <1>4, <2>3 DEF GatewayInv, HttpTyped, Handled
    <3>2. new'[call'[q]] = new[call[q]]
      BY <1>4, <1>10, <3>1
    <3> QED
      BY <2>1, <3>1, <3>2 DEF GatewayInv, Undelivered
  <2> QED
    BY <2>2, <2>3
<1>15. Exchanged'
  <2>1. \A d \in Call : reply[d] = "OK" => reply'[d] = "OK"
    BY <1>5 DEF Frame, Typed, Phases
  <2>2. \A q \in Request \ {r} : call'[q] = call[q] /\ route'[q] = route[q]
    BY <1>4 DEF GatewayInv, HttpTyped
  <2> QED
    BY <2>1, <2>2 DEF GatewayInv, Exchanged
<1>16. Replaced'
  BY DEF GatewayInv, Replaced, HttpTyped
<1> QED
  BY <1>5, <1>8, <1>9, <1>11, <1>12, <1>13, <1>14, <1>15, <1>16 DEF GatewayInv

\* A request that is answered, and whose response arrives or not: refused
\* before an RPC was made, or after one.
LEMMA ResponseKeeps ==
  ASSUME GatewayInv, NEW r \in Request, NEW k \in Routes, NEW o, NEW t,
         \/ stage[r] = "idle" /\ o \in {"Unavailable", "Other"}
         \/ stage[r] = "calling" /\ sent'[r] = sent[r] /\ route[r] = k,
         o = "OK" => t = new[call[r]] /\ reply[call[r]] = "OK",
         route' = [route EXCEPT ![r] = k],
         sent' = [sent EXCEPT ![r] = sent'[r]],
         sent'[r] \in {sent[r], jar},
         k = "login" => sent'[r] = NoToken,
         Respond(r, k, o, t),
         UNCHANGED <<vars, call, attempts>>
  PROVE  GatewayInv'
<1> USE DEF vars
<1>1. Inv /\ Inv' /\ Typed
  BY InvStep DEF GatewayInv, Inv
<1>2. Issued' = Issued /\ Issued \subseteq Token
  BY DEF Issued
<1>3. o = "OK" /\ k # "logout" => call[r] \in Call /\ t \in Issued
  <2> SUFFICES ASSUME o = "OK", k # "logout" PROVE call[r] \in Call /\ t \in Issued
    OBVIOUS
  <2>1. stage[r] = "calling" /\ call[r] \in Call /\ route[r] = k
    BY DEF GatewayInv, Handled
  <2>2. new[call[r]] \in Token
    <3>1. op[call[r]] \in {"generate", "refresh"}
      BY <2>1, ConstantsAssumption DEF GatewayInv, OwnAttempts, Routes
    <3> QED
      BY <1>1, <2>1, <3>1 DEF Typed, Phases
  <2> QED
    BY <2>1, <2>2 DEF Issued
<1>4. /\ status' = [status EXCEPT ![r] = StatusFor(k, o)]
      /\ stage' = [stage EXCEPT ![r] = stage'[r]]
      /\ stage'[r] \in {"done", "lost"}
      /\ stage'[r] = "done" => jar' = CookieAfter(k, o, t)
      /\ stage'[r] = "lost" => jar' = jar
  BY DEF Respond, GatewayInv, HttpTyped
<1>5. StatusFor(k, o) \in {200, 403, 500, 503}
  BY DEF StatusFor
<1>6. \/ jar' \in {jar, NoToken}
      \/ jar' = t /\ o = "OK" /\ k # "logout"
  <2>1. CASE k = "logout" /\ o # "Unavailable"
    BY <1>4, <2>1 DEF CookieAfter
  <2>2. CASE k \in {"login", "refresh"} /\ o = "OK"
    BY <1>4, <2>2 DEF CookieAfter
  <2>3. CASE \/ k = "logout" /\ o = "Unavailable"
             \/ k \in {"login", "refresh"} /\ o # "OK"
    BY <1>4, <2>3 DEF CookieAfter
  <2> QED
    BY <2>1, <2>2, <2>3 DEF Routes
<1>7. \A q \in Request : sent'[q] \in {sent[q], jar} /\ (q # r => sent'[q] = sent[q])
  BY DEF GatewayInv, HttpTyped
<1>8. Cookies'
  BY <1>2, <1>3, <1>6, <1>7 DEF GatewayInv, Cookies
<1>9. HttpTyped'
  <2>1. sent' \in [Request -> Token \cup {NoToken}]
    BY DEF GatewayInv, HttpTyped
  <2>2. jar' \in Token \cup {NoToken}
    BY <1>2, <1>8 DEF Cookies
  <2>3. status' \in [Request -> {0, 200, 401, 403, 500, 503}]
    BY <1>4, <1>5 DEF GatewayInv, HttpTyped
  <2>4. stage' \in [Request -> {"idle", "calling", "done", "lost"}]
    BY <1>4 DEF GatewayInv, HttpTyped
  <2> QED
    BY <2>1, <2>2, <2>3, <2>4 DEF GatewayInv, HttpTyped
<1>10. Handled'
  BY <1>4 DEF GatewayInv, Handled, HttpTyped
<1>11. \A q \in Request \ {r} : route'[q] = route[q] /\ status'[q] = status[q] /\ stage'[q] = stage[q]
  BY <1>4 DEF GatewayInv, HttpTyped
<1>12. route'[r] = k /\ status'[r] = StatusFor(k, o)
  BY <1>4 DEF GatewayInv, HttpTyped
<1>13. stage[r] = "idle" => call[r] = NoCall
  BY DEF GatewayInv, Handled
<1>14. OwnAttempts'
  BY <1>7, <1>11, <1>12, <1>13 DEF GatewayInv, OwnAttempts
<1>15. AllSent'
  BY <1>4, <1>7, <1>11 DEF GatewayInv, AllSent
<1>16. Undelivered'
  <2> SUFFICES ASSUME NEW q \in Request, stage'[q] = "calling", new[call[q]] \in Token
               PROVE  /\ jar' # new[call[q]]
                      /\ \A p \in Request : sent'[p] # new[call[q]]
    BY DEF Undelivered
  <2>1. q # r /\ stage[q] = "calling" /\ call[q] \in Call
    BY <1>4, <1>11 DEF GatewayInv, Handled
  <2>2. \A p \in Request : sent'[p] # new[call[q]]
    BY <1>7, <2>1 DEF GatewayInv, Undelivered
  <2>3. jar' # new[call[q]]
    <3>1. CASE jar' \in {jar, NoToken}
      BY <2>1, <3>1, ConstantsAssumption DEF GatewayInv, Undelivered
    <3>2. CASE jar' = t /\ o = "OK" /\ k # "logout"
      <4>1. call[r] \in Call /\ call[r] # call[q]
        BY <1>3, <2>1, <3>2, ConstantsAssumption DEF GatewayInv, OwnAttempts
      <4> QED
        BY <1>1, <2>1, <3>2, <4>1 DEF Inv, UniqueMint
    <3> QED
      BY <1>6, <3>1, <3>2
  <2> QED
    BY <2>2, <2>3
<1>17. Exchanged'
  <2>1. k = "refresh" /\ StatusFor(k, o) = 200 => o = "OK"
    BY DEF StatusFor
  <2> QED
    BY <1>3, <1>11, <1>12, <2>1 DEF GatewayInv, Exchanged
<1>18. Replaced'
  <2> SUFFICES ASSUME NEW q \in Request, stage'[q] = "done", status'[q] = 200, sent'[q] # NoToken
               PROVE  jar' # sent'[q]
    BY DEF Replaced
  <2>1. CASE q = r
    <3>1. jar' = CookieAfter(k, o, t) /\ StatusFor(k, o) = 200 /\ k # "login"
      BY <1>4, <1>12, <2>1
    <3>2. CASE k = "logout"
      BY <3>1, <3>2 DEF CookieAfter, StatusFor
    <3>3. CASE k = "refresh"
      <4>1. o = "OK" /\ jar' = t
        BY <3>1, <3>3 DEF CookieAfter, StatusFor
      <4>2. stage[r] = "calling" /\ t = new[call[r]] /\ t \in Token
        BY <1>2, <1>3, <3>3, <4>1
      <4> QED
        BY <2>1, <4>1, <4>2 DEF GatewayInv, Undelivered
    <3> QED
      BY <3>1, <3>2, <3>3 DEF Routes
  <2>2. CASE q # r
    <3>1. stage[q] = "done" /\ status[q] = 200 /\ sent'[q] = sent[q] /\ jar # sent[q]
      BY <1>7, <1>11, <2>2 DEF GatewayInv, Replaced
    <3>2. CASE jar' = t /\ o = "OK" /\ k # "logout"
      <4>1. stage[r] = "calling" /\ t = new[call[r]] /\ t \in Token
        BY <1>2, <1>3, <3>2
      <4> QED
        BY <3>1, <3>2, <4>1 DEF GatewayInv, Undelivered
    <3> QED
      BY <1>6, <3>1, <3>2
  <2> QED
    BY <2>1, <2>2
<1> QED
  BY <1>1, <1>8, <1>9, <1>10, <1>14, <1>15, <1>16, <1>17, <1>18 DEF GatewayInv

LEMMA NoCookieKeeps ==
  ASSUME GatewayInv, NEW r \in Request, NEW k \in Routes, NoCookie(r, k)
  PROVE  GatewayInv'
<1> USE DEF vars
<1>1. Inv' /\ Issued' = Issued
  BY InvStep DEF GatewayInv, NoCookie, Issued
<1>2. /\ stage[r] = "idle" /\ call[r] = NoCall /\ jar = NoToken
      /\ route' = [route EXCEPT ![r] = k]
      /\ sent' = [sent EXCEPT ![r] = NoToken]
      /\ stage' = [stage EXCEPT ![r] = "done"]
      /\ status' = [status EXCEPT ![r] = 401]
      /\ UNCHANGED <<vars, call, attempts, jar>>
  BY DEF NoCookie, Receives, GatewayInv, Handled
<1>3. HttpTyped' /\ Handled' /\ Cookies'
  BY <1>1, <1>2 DEF GatewayInv, HttpTyped, Handled, Cookies
<1>4. OwnAttempts' /\ AllSent'
  BY <1>2 DEF GatewayInv, HttpTyped, OwnAttempts, AllSent
<1>5. Undelivered' /\ Exchanged' /\ Replaced'
  BY <1>2, ConstantsAssumption DEF GatewayInv, HttpTyped, Undelivered, Exchanged, Replaced
<1> QED
  BY <1>1, <1>3, <1>4, <1>5 DEF GatewayInv

LEMMA CookieExpiresKeeps ==
  ASSUME GatewayInv, CookieExpires
  PROVE  GatewayInv'
<1> USE DEF vars, CookieExpires
<1>1. Inv' /\ Issued' = Issued
  BY InvStep DEF GatewayInv, Issued
<1> QED
  BY <1>1, ConstantsAssumption DEF GatewayInv, HttpTyped, Handled, OwnAttempts, AllSent,
     Cookies, Undelivered, Exchanged, Replaced

LEMMA GatewayInvStep == GatewayInv /\ [GatewayNext]_allVars => GatewayInv'
<1> SUFFICES ASSUME GatewayInv, [GatewayNext]_allVars PROVE GatewayInv'
  OBVIOUS
<1>0. HttpTyped /\ Handled /\ Cookies
  BY DEF GatewayInv
<1>1. ASSUME NEW r \in Request, NEW k \in Routes, stage[r] = "idle", NoCookie(r, k)
      PROVE  GatewayInv'
  BY <1>1, NoCookieKeeps
<1>2. ASSUME NEW r \in Request, NEW k \in Routes, stage[r] = "idle", Refused(r, k)
      PROVE  GatewayInv'
  <2>1. PICK o \in {"Unavailable", "Other"} : Respond(r, k, o, NoToken)
    BY <1>2 DEF Refused
  <2>2. /\ route' = [route EXCEPT ![r] = k]
        /\ sent' = [sent EXCEPT ![r] = IF k = "login" THEN NoToken ELSE jar]
        /\ sent'[r] = IF k = "login" THEN NoToken ELSE jar
        /\ UNCHANGED <<vars, call, attempts>>
    BY <1>0, <1>2 DEF Refused, Receives, HttpTyped
  <2>3. sent[r] = NoToken
    BY <1>0, <1>2 DEF Handled
  <2> QED
    BY <1>2, <2>1, <2>2, <2>3, ResponseKeeps
<1>3. ASSUME NEW r \in Request, NEW k \in Routes, stage[r] = "idle", Begin(r, k)
      PROVE  GatewayInv'
  <2>1. /\ route' = [route EXCEPT ![r] = k]
        /\ sent' = [sent EXCEPT ![r] = IF k = "login" THEN NoToken ELSE jar]
        /\ sent'[r] = IF k = "login" THEN NoToken ELSE jar
        /\ stage' = [stage EXCEPT ![r] = "calling"]
        /\ UNCHANGED <<status, jar>>
    BY <1>0, <1>3 DEF Begin, Receives, HttpTyped
  <2>2. sent[r] = NoToken /\ status[r] = 0 /\ attempts[r] = 0
    BY <1>0, <1>3 DEF Handled
  <2>3. Attempt(r, k, sent'[r])
    <3>1. CASE k = "login"
      BY <1>3, <2>1, <3>1 DEF Begin, Attempt
    <3>2. CASE k # "login"
      BY <1>3, <2>1, <3>2 DEF Begin
    <3> QED
      BY <3>1, <3>2
  <2>4. k # "login" => jar # NoToken
    BY <1>3 DEF Begin
  <2>5. sent' = [sent EXCEPT ![r] = sent'[r]]
    BY <2>1
  <2>6. /\ sent'[r] \in {sent[r], jar}
        /\ IF k = "login" THEN sent'[r] = NoToken ELSE sent'[r] # NoToken
    <3>1. CASE k = "login"
      BY <2>1, <2>2, <3>1
    <3>2. CASE k # "login"
      BY <2>1, <2>4, <3>2
    <3> QED
      BY <3>1, <3>2
  <2>7. /\ stage[r] \in {"idle", "calling"} /\ stage[r] # "calling"
        /\ attempts[r] < MaxAttempts
    BY <1>3, <2>2, MaxAttemptsAssumption
  <2> QED
    BY <2>1, <2>2, <2>3, <2>5, <2>6, <2>7, AttemptKeeps
<1>4. ASSUME NEW r \in Request, Receive(r) \/ Unavailable(r) \/ Timeout(r)
      PROVE  GatewayInv'
  <2>1. PICK o \in {reply[call[r]], "Unavailable", "Other"}, t \in {new[call[r]], NoToken} :
          /\ Respond(r, route[r], o, t)
          /\ o = "OK" => o = reply[call[r]] /\ t = new[call[r]]
    <3>1. CASE Receive(r)
      BY <3>1 DEF Receive
    <3>2. CASE Unavailable(r)
      BY <3>2 DEF Unavailable
    <3>3. CASE Timeout(r)
      BY <3>3 DEF Timeout
    <3> QED
      BY <1>4, <3>1, <3>2, <3>3
  <2>2. stage[r] = "calling" /\ UNCHANGED <<vars, route, sent, call, attempts>>
    BY <1>4 DEF Receive, Unavailable, Timeout
  <2>3. /\ route[r] \in Routes
        /\ route' = [route EXCEPT ![r] = route[r]]
        /\ sent' = [sent EXCEPT ![r] = sent'[r]]
        /\ route[r] = "login" => sent[r] = NoToken
    BY <1>0, <2>2 DEF HttpTyped, Handled
  <2> QED
    BY <1>4, <2>1, <2>2, <2>3, ResponseKeeps
<1>5. ASSUME NEW r \in Request, Retry(r)
      PROVE  GatewayInv'
  <2>1. /\ stage[r] = "calling" /\ attempts[r] < MaxAttempts
        /\ Attempt(r, route[r], sent[r])
        /\ UNCHANGED <<stage, route, sent, status, jar>>
    BY <1>5 DEF Retry
  <2>2. /\ route[r] \in Routes /\ status[r] = 0
        /\ route' = [route EXCEPT ![r] = route[r]]
        /\ sent' = [sent EXCEPT ![r] = sent'[r]]
        /\ stage' = [stage EXCEPT ![r] = "calling"]
        /\ IF route[r] = "login" THEN sent[r] = NoToken ELSE sent[r] # NoToken
    BY <1>0, <2>1 DEF HttpTyped, Handled, Routes
  <2> QED
    BY <1>5, <2>1, <2>2, AttemptKeeps
<1>6. CASE CookieExpires
  BY <1>6, CookieExpiresKeeps
<1>7. CASE Service
  BY <1>7, ServiceSteps, ServiceKeeps
<1>8. CASE UNCHANGED allVars
  BY <1>8, ServiceKeeps DEF allVars, vars
<1> QED
  BY <1>1, <1>2, <1>3, <1>4, <1>5, <1>6, <1>7, <1>8, GatewayMoves

LEMMA GatewayInvAlways == GatewaySpec => []GatewayInv
BY GatewayInvInit, GatewayInvStep, PTL DEF GatewaySpec
-----------------------------------------------------------------------------
(* Theorems.                                                               *)

\* Every step of the gateway is a step of the service or invisible to it: the
\* attempts of gRPC and the cookies of browsers are calls that AuthService
\* allows, with tokens its clients were given.
THEOREM GatewayUsesService == GatewaySpec => Spec
<1>1. GatewayInit => Init
  BY DEF GatewayInit
<1>2. GatewayInv /\ [GatewayNext]_allVars => [Next]_vars
  <2> SUFFICES ASSUME GatewayInv, [GatewayNext]_allVars PROVE [Next]_vars
    OBVIOUS
  <2>0. HttpTyped /\ Handled /\ Cookies /\ Inv
    BY DEF GatewayInv
  <2>1. ASSUME NEW r \in Request, NEW k \in Routes, NoCookie(r, k) \/ Refused(r, k)
        PROVE  UNCHANGED vars
    BY <2>1 DEF NoCookie, Refused
  <2>2. ASSUME NEW r \in Request, NEW k \in Routes, Begin(r, k)
        PROVE  Next
    <3>1. Attempt(r, k, jar) /\ (k # "login" => jar # NoToken)
      BY <2>2 DEF Begin
    <3> QED
      BY <2>0, <3>1, AttemptStarts DEF HttpTyped, Cookies
  <2>3. ASSUME NEW r \in Request, Receive(r) \/ Unavailable(r) \/ Timeout(r)
        PROVE  UNCHANGED vars
    BY <2>3 DEF Receive, Unavailable, Timeout
  <2>4. ASSUME NEW r \in Request, Retry(r)
        PROVE  Next
    <3>1. Attempt(r, route[r], sent[r]) /\ stage[r] = "calling"
      BY <2>4 DEF Retry
    <3>2. route[r] \in Routes /\ (route[r] # "login" => sent[r] # NoToken)
      BY <2>0, <3>1 DEF Handled, Routes
    <3> QED
      BY <2>0, <3>1, <3>2, AttemptStarts DEF HttpTyped, Cookies
  <2>5. CASE CookieExpires
    BY <2>5 DEF CookieExpires
  <2>6. CASE UNCHANGED allVars
    BY <2>6 DEF allVars
  <2> QED
    BY <2>1, <2>2, <2>3, <2>4, <2>5, <2>6, ServiceSteps, GatewayMoves
<1> QED
  BY <1>1, <1>2, GatewayInvAlways, PTL DEF GatewaySpec, Spec

\* The variables of gateway and browser keep their types; gRPC never makes
\* more than MaxAttempts attempts.
THEOREM GatewayTypeCorrect == GatewaySpec => []GatewayTypeOK
<1>1. GatewayInv => GatewayTypeOK
  BY TypeParts DEF GatewayInv, Inv, Typed, HttpTyped, Routes, GatewayTypeOK
<1> QED
  BY <1>1, GatewayInvAlways, PTL

\* However many tabs and repeats present a cookie to /refresh, one is answered
\* 200, unless a late SET NX has put that cookie's key back.
THEOREM OneExchangeCorrect == GatewaySpec => []OneExchangePerCookie
<1>1. GatewayInv /\ SingleUse => OneExchangePerCookie
  <2> SUFFICES ASSUME GatewayInv, SingleUse, NEW r \in Request, NEW q \in Request,
                      route[r] = "refresh", status[r] = 200,
                      route[q] = "refresh", status[q] = 200,
                      sent[r] = sent[q], sent[r] \notin revived
               PROVE  r = q
    BY DEF OneExchangePerCookie
  <2>1. /\ call[r] \in Call /\ reply[call[r]] = "OK"
        /\ call[q] \in Call /\ reply[call[q]] = "OK"
    BY DEF GatewayInv, Exchanged
  <2>2. /\ op[call[r]] = "refresh" /\ arg[call[r]] = sent[r]
        /\ op[call[q]] = "refresh" /\ arg[call[q]] = sent[q]
    BY <2>1, ConstantsAssumption DEF GatewayInv, OwnAttempts
  <2>3. call[r] = call[q]
    BY <2>1, <2>2 DEF SingleUse
  <2> QED
    BY <2>1, <2>3, ConstantsAssumption DEF GatewayInv, OwnAttempts
<1> QED
  BY <1>1, GatewayInvAlways, GatewayUsesService, SingleUseCorrect, PTL

\* The token of a logout that the service has answered is not in Redis, unless
\* a late SET NX has put it back.
THEOREM AnsweredLogoutCorrect == GatewaySpec => []AnsweredLogoutRevokes
<1>1. GatewayInv => AnsweredLogoutRevokes
  <2> SUFFICES ASSUME GatewayInv, NEW r \in Request, route[r] = "logout",
                      call[r] # NoCall, reply[call[r]] \in {"OK", "Unauthenticated"},
                      sent[r] \notin revived
               PROVE  sent[r] \notin store
    BY DEF AnsweredLogoutRevokes
  <2>1. call[r] \in Call /\ op[call[r]] = "revoke" /\ arg[call[r]] = sent[r]
    BY DEF GatewayInv, HttpTyped, OwnAttempts
  <2>2. CASE reply[call[r]] = "OK"
    BY <2>1, <2>2, ConstantsAssumption DEF GatewayInv, Inv, Winners, Took, Takers
  <2>3. CASE reply[call[r]] = "Unauthenticated"
    BY <2>1, <2>3 DEF GatewayInv, Inv, NotFoundMeansGone
  <2> QED
    BY <2>2, <2>3
<1> QED
  BY <1>1, GatewayInvAlways, PTL

\* An answered logout that leaves the browser in the session was overtaken by
\* a /refresh of the same cookie: whoever took the token of the logout decides.
\* A revocation would have ended the session, whichever attempt it was; only an
\* exchange leaves another token, and exchanges come from /refresh. A session
\* that a late SET NX has broken is left out.
THEOREM LogoutRaceCorrect == GatewaySpec => []LogoutLosesToRefreshOnly
<1>1. GatewayInv /\ EndedInv => LogoutLosesToRefreshOnly
  <2> SUFFICES ASSUME GatewayInv, EndedInv, NEW r \in Request,
                      route[r] = "logout", call[r] # NoCall,
                      reply[call[r]] \in {"OK", "Unauthenticated"},
                      jar \in store, session[jar] = session[sent[r]],
                      session[jar] \notin Broken
               PROVE  /\ reply[call[r]] = "Unauthenticated"
                      /\ \E q \in Request : route[q] = "refresh" /\ sent[q] = sent[r]
    BY DEF LogoutLosesToRefreshOnly
  <2> DEFINE d == call[r]
             t == sent[r]
  <2>1. Inv /\ Lineage /\ OneOpenEnd /\ Ended /\ Typed
    BY DEF EndedInv, SessionInv, Inv
  <2>2. d \in Call /\ op[d] = "revoke" /\ arg[d] = t
    BY DEF GatewayInv, HttpTyped, OwnAttempts
  <2>3. t \in Issued /\ t \in Token /\ arg[d] \in Token /\ t \notin revived
    <3>1. t \in Issued \cup {NoToken} /\ arg[d] \in Issued \cup {Junk}
      BY <2>1, <2>2 DEF GatewayInv, Cookies, Inv, Inputs
    <3> QED
      BY <2>2, <3>1, ConstantsAssumption DEF Issued, Broken
  <2>4. jar \in Issued /\ jar \in Token
    BY <2>1, ConstantsAssumption DEF GatewayInv, Cookies, Issued, Typed, DataOK
  <2>5. OpenEnd(jar)
    BY <2>1, <2>4, LiveIsOpenEnd
  <2>6. t \notin store
    BY <2>1, <2>2, <2>3, ConstantsAssumption DEF Inv, Winners, Took, Takers, NotFoundMeansGone
  <2>7. taker[t] # NoCall
    <3>1. taker[t] = NoCall => OpenEnd(t)
      BY <2>1, <2>3, IssuedInChain DEF OpenEnd
    <3> QED
      BY <2>1, <2>3, <2>4, <2>5, <2>6, <3>1 DEF OneOpenEnd
  <2> DEFINE c == taker[t]
  <2>8. c \in Call /\ arg[c] = t
    BY <2>1, <2>3, <2>7 DEF Inv, Takers, Typed, DataOK
  <2>9. op[c] # "revoke"
    BY <2>1, <2>3, <2>4, <2>5, <2>8 DEF Ended
  <2>10. op[c] = "refresh"
    BY <2>1, <2>3, <2>8, <2>9, ConstantsAssumption DEF Inv, Inputs
  <2>11. d # c /\ reply[d] # "OK"
    BY <2>1, <2>2, <2>3, <2>9 DEF Inv, Winners, Took
  <2>12. PICK q \in Request : sent[q] = arg[c] /\ route[q] = RouteOf(op[c])
    BY <2>8, <2>10, Zenon DEF GatewayInv, AllSent
  <2> QED
    BY <2>8, <2>10, <2>11, <2>12 DEF RouteOf
<1> QED
  BY <1>1, GatewayInvAlways, GatewayUsesService, EndedAlways, PTL

\* A cookie that the browser holds and that does not work was presented by a
\* request that is under way, failed, or whose response was lost.
THEOREM StaleCookieCorrect == GatewaySpec => []StaleCookieHasCause
<1>1. GatewayInv => StaleCookieHasCause
  <2> SUFFICES ASSUME GatewayInv, jar # NoToken, jar \notin store \cup expired
               PROVE  \E r \in Request :
                        /\ sent[r] = jar
                        /\ stage[r] \in {"calling", "lost"} \/ status[r] # 200
    BY DEF StaleCookieHasCause
  <2>1. jar \in Issued /\ jar \in Token /\ taker[jar] # NoCall
    BY DEF GatewayInv, Cookies, Issued, Inv, IssuedIsLive
  <2> DEFINE c == taker[jar]
  <2>2. c \in Call /\ arg[c] = jar
    BY <2>1 DEF GatewayInv, Inv, Takers, Typed, DataOK
  <2>3. op[c] \in {"refresh", "revoke"}
    BY <2>1, <2>2, ConstantsAssumption DEF GatewayInv, Inv, Inputs
  <2>4. PICK r \in Request : stage[r] # "idle" /\ sent[r] = jar
    BY <2>2, <2>3, Zenon DEF GatewayInv, AllSent
  <2>5. stage[r] = "done" => status[r] # 200
    BY <2>4 DEF GatewayInv, Replaced
  <2>6. stage[r] \in {"calling", "done", "lost"}
    BY <2>4 DEF GatewayInv, HttpTyped
  <2> QED
    BY <2>4, <2>5, <2>6
<1> QED
  BY <1>1, GatewayInvAlways, PTL

\* What the service promises of logins it promises to the gateway's browsers:
\* one live token per session, and none after a revocation that was answered
\* OK, however gRPC repeats RPCs that are not idempotent.
THEOREM SessionsUnderGateway == GatewaySpec => [](OneLivePerSession /\ RevokeEndsSession)
BY GatewayUsesService, OneLivePerSessionCorrect, RevokeEndsSessionCorrect, PTL

\* And so does its promise: whatever the gateway and gRPC do, what Redis holds
\* changes only the way sessions are opened, rotated and closed.
THEOREM PromiseUnderGateway == GatewaySpec => ImplementsPromise
BY GatewayUsesService, PromiseKept
=============================================================================
