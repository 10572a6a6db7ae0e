-------------------------- MODULE RefreshSessions --------------------------
(***************************************************************************)
(* What the auth service promises about refresh tokens, whatever its       *)
(* storage: a login opens a session, a session has at most one token that  *)
(* can still be exchanged, an exchange replaces that token by one that was *)
(* never used before, and a closed session never opens again. A session    *)
(* can break: a used token of it is exchangeable again. The promise then   *)
(* says of it only that it has no part in the other sessions.              *)
(* (JWTService, services/auth/internal/service/jwt.go)                     *)
(***************************************************************************)
CONSTANTS
  Session,   \* logins; each opens one session
  Token,     \* refresh tokens
  NoToken    \* "this session has no exchangeable token"; not in Token

VARIABLES
  head,      \* head[s]: the token of session s that can be exchanged
  opened,    \* sessions that have been opened
  used,      \* tokens that have been the head of some session
  broken     \* sessions that have broken; their head is not spoken of

vars == <<head, opened, used, broken>>

Init ==
  /\ head = [s \in Session |-> NoToken]
  /\ opened = {}
  /\ used = {}
  /\ broken = {}

\* GenerateTokens: the first token of a new session.
Open(s, t) ==
  /\ s \notin opened
  /\ t \notin used
  /\ head' = [head EXCEPT ![s] = t]
  /\ opened' = opened \cup {s}
  /\ used' = used \cup {t}
  /\ UNCHANGED broken

\* RefreshTokens: the head is exchanged for a token never seen before.
Rotate(s, t) ==
  /\ head[s] # NoToken
  /\ t \notin used
  /\ head' = [head EXCEPT ![s] = t]
  /\ used' = used \cup {t}
  /\ UNCHANGED <<opened, broken>>

\* RevokeRefreshToken, the expiry of a head, an exchange that failed half way;
\* a crash of the service can end several sessions at once.
Close(S) ==
  /\ S # {}
  /\ \A s \in S : head[s] # NoToken
  /\ head' = [s \in Session |-> IF s \in S THEN NoToken ELSE head[s]]
  /\ UNCHANGED <<opened, used, broken>>

\* A used token of the session is exchangeable again.
Break(s) ==
  /\ s \in opened \ broken
  /\ head' = [head EXCEPT ![s] = NoToken]
  /\ broken' = broken \cup {s}
  /\ UNCHANGED <<opened, used>>

\* An exchange in a broken session, for a token never seen before.
Stray(t) ==
  /\ broken # {}
  /\ t \notin used
  /\ used' = used \cup {t}
  /\ UNCHANGED <<head, opened, broken>>

Next ==
  \/ \E s \in Session, t \in Token : Open(s, t) \/ Rotate(s, t)
  \/ \E S \in SUBSET Session : Close(S)
  \/ \E s \in Session : Break(s)
  \/ \E t \in Token : Stray(t)

Spec == Init /\ [][Next]_vars
=============================================================================
