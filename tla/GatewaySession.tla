--------------------------- MODULE GatewaySession ---------------------------
(***************************************************************************)
(* A browser, the gateway and the auth service: POST /login, /refresh and  *)
(* /logout (services/gateway/internal/delivery/rest/handler.go) through    *)
(* the gRPC client (internal/client/grpc_auth.go) to AuthService.          *)
(*                                                                         *)
(* An HTTP request makes at most MaxAttempts gRPC attempts: gRPC's retry   *)
(* policy repeats an RPC that failed with UNAVAILABLE, whatever the server *)
(* has done with it meanwhile. An attempt is a call of AuthService. The    *)
(* gateway's middleware gives a request up after 15 seconds; the browser   *)
(* may not receive the response. /login starts where the user service has  *)
(* accepted the credentials. The circuit breaker is its two refusals.      *)
(*                                                                         *)
(* Definitions named ...Mutant are faulty variants, as in AuthService.      *)
(*                                                                         *)
(* Which idle member of Call serves an attempt and which unused member of  *)
(* Token it mints make no difference, so they are chosen, not quantified.  *)
(***************************************************************************)
EXTENDS AuthService

CONSTANTS
  Request,     \* HTTP requests
  MaxAttempts  \* retry_max_attempts of the gRPC client

ASSUME MaxAttemptsAssumption == MaxAttempts \in Nat \ {0}

VARIABLES
  stage,       \* stage[r]: "idle", "calling", "done", or "lost" on the way back
  route,       \* route[r]: what the request asks for
  sent,        \* sent[r]: the refresh_token cookie it carries
  call,        \* call[r]: its current gRPC attempt
  attempts,    \* attempts[r]: gRPC attempts made
  status,      \* status[r]: the HTTP status
  jar          \* the browser's refresh_token cookie

httpVars == <<stage, route, sent, call, attempts, status, jar>>
allVars == <<vars, httpVars>>

GatewayInit ==
  /\ Init
  /\ stage = [r \in Request |-> "idle"]
  /\ route = [r \in Request |-> "none"]
  /\ sent = [r \in Request |-> NoToken]
  /\ call = [r \in Request |-> NoCall]
  /\ attempts = [r \in Request |-> 0]
  /\ status = [r \in Request |-> 0]
  /\ jar = NoToken
-----------------------------------------------------------------------------
IdleCalls == {c \in Call : pc[c] = "idle"}
NextCall == CHOOSE c \in IdleCalls : TRUE

\* The same token the smallest instances mint next, whoever mints it.
NextToken == CHOOSE t \in Token \ Minted : TRUE

\* One more gRPC attempt for r, an RPC of kind k on token t.
Attempt(r, k, t) ==
  /\ IdleCalls # {}
  /\ \/ k = "login" /\ Token # Minted /\ StartGenerate(NextCall, NextToken)
     \/ k = "refresh" /\ StartRefresh(NextCall, t)
     \/ k = "logout" /\ StartRevoke(NextCall, t)
  /\ call' = [call EXCEPT ![r] = NextCall]
  /\ attempts' = [attempts EXCEPT ![r] = @ + 1]

\* The HTTP status for the outcome o of the RPC: what grpc_auth.go makes of
\* the gRPC status and the handler of that. "Other" is a deadline, or the
\* breaker's ErrTooManyRequests, which the client does not know.
StatusFor(k, o) ==
  CASE o = "OK"                                          -> 200
    [] o = "Unavailable"                                 -> 503
    [] k = "logout" /\ o \notin {"OK", "Unavailable"}    -> 200
    [] k = "refresh" /\ o \in {"Unauthenticated", "Internal"} -> 403
    [] OTHER                                             -> 500

\* RefreshTokens returns the new token in the body only.
CookieAfterNotSetMutant(k, o, t) ==
  CASE k = "logout" /\ o # "Unavailable" -> NoToken
    [] k = "login" /\ o = "OK"           -> t
    [] OTHER                             -> jar

\* The cookie the response leaves in the browser: setCookie, clearCookie, or
\* the one that is there.
CookieAfter(k, o, t) ==
  CASE k = "logout" /\ o # "Unavailable"       -> NoToken
    [] k \in {"login", "refresh"} /\ o = "OK"  -> t
    [] OTHER                                   -> jar

\* The handler of r writes its response; the browser receives it or not.
Respond(r, k, o, t) ==
  /\ status' = [status EXCEPT ![r] = StatusFor(k, o)]
  /\ \/ /\ stage' = [stage EXCEPT ![r] = "done"]
        /\ jar' = CookieAfter(k, o, t)
     \/ /\ stage' = [stage EXCEPT ![r] = "lost"]
        /\ UNCHANGED jar
-----------------------------------------------------------------------------
\* The browser sends the cookie it has.
Receives(r, k) ==
  /\ stage[r] = "idle"
  /\ route' = [route EXCEPT ![r] = k]
  /\ sent' = [sent EXCEPT ![r] = IF k = "login" THEN NoToken ELSE jar]

\* RefreshTokens and LogoutUser without a cookie.
NoCookie(r, k) ==
  /\ k # "login" /\ jar = NoToken
  /\ Receives(r, k)
  /\ status' = [status EXCEPT ![r] = 401]
  /\ stage' = [stage EXCEPT ![r] = "done"]
  /\ UNCHANGED <<vars, call, attempts, jar>>

\* The breaker is open (ErrOpenState) or half open and busy
\* (ErrTooManyRequests): no RPC is made.
Refused(r, k) ==
  /\ k = "login" \/ jar # NoToken
  /\ Receives(r, k)
  /\ \E o \in {"Unavailable", "Other"} : Respond(r, k, o, NoToken)
  /\ UNCHANGED <<vars, call, attempts>>

Begin(r, k) ==
  /\ k = "login" \/ jar # NoToken
  /\ Receives(r, k)
  /\ Attempt(r, k, jar)
  /\ stage' = [stage EXCEPT ![r] = "calling"]
  /\ UNCHANGED <<status, jar>>

\* The answer of the auth service arrives.
Receive(r) ==
  /\ stage[r] = "calling"
  /\ reply[call[r]] \notin {"none", "Lost"}
  /\ Respond(r, route[r], reply[call[r]], new[call[r]])
  /\ UNCHANGED <<vars, route, sent, call, attempts>>

\* One attempt more than retry_max_attempts.
RetryOnceMoreMutant(r) ==
  /\ stage[r] = "calling"
  /\ attempts[r] <= MaxAttempts
  /\ Attempt(r, route[r], sent[r])
  /\ UNCHANGED <<stage, route, sent, status, jar>>

\* The connection breaks, or the service has crashed: UNAVAILABLE, repeated
\* by gRPC while attempts are left. The attempt itself goes on at the server.
Retry(r) ==
  /\ stage[r] = "calling"
  /\ attempts[r] < MaxAttempts
  /\ Attempt(r, route[r], sent[r])
  /\ UNCHANGED <<stage, route, sent, status, jar>>

Unavailable(r) ==
  /\ stage[r] = "calling"
  /\ Respond(r, route[r], "Unavailable", NoToken)
  /\ UNCHANGED <<vars, route, sent, call, attempts>>

\* middleware.Timeout(15 s) cancels the request's context.
Timeout(r) ==
  /\ stage[r] = "calling"
  /\ Respond(r, route[r], "Other", NoToken)
  /\ UNCHANGED <<vars, route, sent, call, attempts>>

\* The cookie's MaxAge is the token's TTL, counted from the response on: the
\* browser drops the cookie some time after the token has expired.
CookieExpires ==
  /\ jar \in expired
  /\ jar' = NoToken
  /\ UNCHANGED <<vars, stage, route, sent, call, attempts, status>>

\* The auth service, Redis and time go on by themselves.
Service ==
  /\ \/ \E c \in Call :
          \/ Save(c)
          \/ Token # Minted /\ Get(c, NextToken)
          \/ GetMissing(c)
          \/ Exists(c)
          \/ PipeDel(c)
          \/ PipeSetNX(c)
          \/ Revoke(c)
          \/ CommandLost(c)
     \/ \E m \in late : ArrivesLate(m)
     \/ \E t \in Token : Expire(t) \/ Evict(t)
     \/ Crash
  /\ UNCHANGED httpVars

\* Requests start in a fixed order; they overlap in every way.
GatewayNext ==
  \/ \E k \in {"login", "refresh", "logout"} :
       LET r == CHOOSE q \in Request : stage[q] = "idle"
       IN  /\ \E q \in Request : stage[q] = "idle"
           /\ NoCookie(r, k) \/ Refused(r, k) \/ Begin(r, k)
  \/ \E r \in Request : Receive(r) \/ Retry(r) \/ Unavailable(r) \/ Timeout(r)
  \/ CookieExpires
  \/ Service

GatewaySpec == GatewayInit /\ [][GatewayNext]_allVars
-----------------------------------------------------------------------------
(* Properties. What a late SET NX of the service has put back or broken    *)
(* (AuthService's 'revived' and 'Broken') is left out of them.             *)

\* The types of the gateway's and the browser's variables.
GatewayTypeOK ==
  /\ TypeOK
  /\ stage \in [Request -> {"idle", "calling", "done", "lost"}]
  /\ route \in [Request -> {"none", "login", "refresh", "logout"}]
  /\ sent \in [Request -> Token \cup {NoToken}]
  /\ call \in [Request -> Call \cup {NoCall}]
  /\ attempts \in [Request -> 0..MaxAttempts]
  /\ status \in [Request -> {0, 200, 401, 403, 500, 503}]
  /\ jar \in Token \cup {NoToken}

\* A cookie buys one new pair of tokens: of all /refresh requests that carry
\* it, tabs racing and gRPC repeating included, one is answered 200.
OneExchangePerCookie ==
  \A r, q \in Request :
    /\ route[r] = "refresh" /\ status[r] = 200
    /\ route[q] = "refresh" /\ status[q] = 200
    /\ sent[r] = sent[q] /\ sent[r] \notin revived
    => r = q

\* A browser is not logged out behind its back: the cookie it holds works, or
\* has expired, or a request that carried it is under way, failed, or its
\* response was lost (setCookie in LoginUser and RefreshTokens).
StaleCookieHasCause ==
  jar # NoToken =>
    \/ jar \in store \cup expired
    \/ \E r \in Request :
         sent[r] = jar /\ (stage[r] \in {"calling", "lost"} \/ status[r] # 200)

\* When the auth service has answered a /logout, the token is revoked, even
\* if gRPC repeated the RPC and the answer is the "not found" of the repeat
\* (LogoutUser, RevokeRefreshToken).
AnsweredLogoutRevokes ==
  \A r \in Request :
    /\ route[r] = "logout" /\ stage[r] \in {"done", "lost"}
    /\ call[r] # NoCall /\ reply[call[r]] \in {"OK", "Unauthenticated"}
    /\ sent[r] \notin revived
    => sent[r] \notin store

\* A /logout that the auth service has answered fails to end the session only
\* by losing to a /refresh of the same cookie, and is then answered "not
\* found": no repeat of gRPC, no abandoned attempt that the service goes on
\* with, no expiry and no crash brings a session back (LogoutUser,
\* RefreshTokens).
LogoutLosesToRefreshOnly ==
  \A r \in Request :
    /\ route[r] = "logout" /\ call[r] # NoCall
    /\ reply[call[r]] \in {"OK", "Unauthenticated"}
    /\ jar \in store /\ session[jar] = session[sent[r]] /\ session[jar] \notin Broken
    => /\ reply[call[r]] = "Unauthenticated"
       /\ \E q \in Request : route[q] = "refresh" /\ sent[q] = sent[r]

\* /refresh answered 403 "token revoked or expired or not found" says so of
\* the token. It may be none of these: codes.Internal is mapped to it too.
ForbiddenMeansDead ==
  \A r \in Request :
    status[r] = 403 => sent[r] \notin store \/ sent[r] \in expired

\* After a /logout that the auth service has answered, the browser is logged
\* out of the session. It need not be: a /refresh that overtook the logout has
\* put another token in place, and its late response sets the cookie again.
LogoutEndsSession ==
  \A r \in Request :
    /\ route[r] = "logout" /\ status[r] = 200
    /\ call[r] # NoCall /\ reply[call[r]] \in {"OK", "Unauthenticated"}
    => ~(jar \in store /\ session[jar] = session[sent[r]])
=============================================================================
