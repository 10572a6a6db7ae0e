---------------------------- MODULE UserService ----------------------------
(***************************************************************************)
(* Users: POST /register and the first half of POST /login at the gateway  *)
(* (delivery/rest/handler.go, client/grpc_user.go), the user service       *)
(* (services/user) and its table in PostgreSQL.                            *)
(*                                                                         *)
(* As in GatewaySession, gRPC repeats an RPC that failed with UNAVAILABLE, *)
(* the attempt given up goes on at the server, and the circuit breaker is  *)
(* its two refusals. Attempt n of request r is <<r, n>>, which also stands *)
(* for the uuid its registration would create. bcrypt is "the stored       *)
(* password, or another one". The checks of lengths are "Bad, or not".     *)
(* When a connection turns out to be broken after a statement was sent,    *)
(* lib/pq reports driver.ErrBadConn and database/sql runs the statement    *)
(* again on another connection, whether PostgreSQL has executed it or not. *)
(***************************************************************************)
EXTENDS Naturals

CONSTANTS
  Request,     \* HTTP requests
  Name,        \* names of a valid length
  Password,    \* passwords of a valid length
  Bad,         \* name and password of which one has a wrong length
  MaxAttempts  \* retry_max_attempts of the gRPC client

ASSUME UsersAssumption ==
  /\ MaxAttempts \in Nat \ {0}
  /\ Bad \notin Name

VARIABLES
  users,       \* rows of the table users
  pc,          \* pc[a]: the statement attempt a is about to run
  reply,       \* reply[r]: the gRPC status that its current attempt came to
  stage,       \* stage[r]: "idle", "calling" or "done"
  route,       \* route[r]: "register" or "login"
  name,        \* name[r], password[r]: what the request carries
  password,
  attempts,    \* attempts[r]: gRPC attempts made
  status,      \* status[r]: the HTTP status
  before,      \* history: before[r], registrations answered 201 before r came
  resent       \* history: attempts whose INSERT was run again after it was executed

inputVars == <<route, name, password, before>>
vars == <<users, pc, reply, inputVars, stage, attempts, status, resent>>

Attempt == Request \X (1..MaxAttempts)
NoStatus == 0

\* The current attempt of r.
Latest(r) == <<r, attempts[r]>>

Init ==
  /\ users = {}
  /\ pc = [a \in Attempt |-> "idle"]
  /\ reply = [r \in Request |-> "none"]
  /\ stage = [r \in Request |-> "idle"]
  /\ route = [r \in Request |-> "none"]
  /\ name = [r \in Request |-> Bad]
  /\ password = [r \in Request |-> Bad]
  /\ attempts = [r \in Request |-> 0]
  /\ status = [r \in Request |-> NoStatus]
  /\ before = [r \in Request |-> {}]
  /\ resent = {}
-----------------------------------------------------------------------------
(* The user service.                                                       *)

\* The attempt ends with status s. Nobody waits for one that was given up.
Reply(a, s) ==
  /\ pc' = [pc EXCEPT ![a] = "done"]
  /\ reply' = IF a = Latest(a[1]) /\ stage[a[1]] = "calling"
                THEN [reply EXCEPT ![a[1]] = s] ELSE reply

\* ValidateName and ValidatePassword, for a registration and for a login.
Arrives(a, k, n) ==
  /\ pc' = [pc EXCEPT ![a] = IF n = Bad THEN "done"
                             ELSE IF k = "register" THEN "insert" ELSE "find"]
  /\ reply' = [reply EXCEPT ![a[1]] = IF n = Bad THEN "InvalidArgument" ELSE "none"]
  /\ UNCHANGED users

\* FindByName.
Rows(n) == {u \in users : u.name = n}

\* The row that attempt a inserts.
Row(a) == [id |-> a, name |-> name[a[1]], password |-> password[a[1]]]

(* The operators named ...Mutant are faulty variants of the definition that *)
(* follows them. No specification uses them: they show which fault each     *)
(* property finds.                                                          *)

\* INSERT ... ON CONFLICT DO NOTHING.
InsertIgnoresConflictMutant(a) ==
  /\ pc[a] = "insert"
  /\ users' = IF Rows(name[a[1]]) = {} THEN users \cup {Row(a)} ELSE users
  /\ Reply(a, "OK") \/ Reply(a, "Internal")
  /\ UNCHANGED <<inputVars, stage, attempts, status, resent>>

\* Every error of the statement is taken for error 23505.
InsertErrorIsConflictMutant(a) ==
  /\ pc[a] = "insert"
  /\ IF Rows(name[a[1]]) = {}
       THEN users' = users \cup {Row(a)} /\ (Reply(a, "OK") \/ Reply(a, "AlreadyExists"))
       ELSE UNCHANGED users /\ Reply(a, "AlreadyExists")
  /\ UNCHANGED <<inputVars, stage, attempts, status, resent>>

\* CreateUser: the INSERT, which the unique index refuses if the name is there.
\* Its result may not come, which is codes.Internal (or InsertAgain).
Insert(a) ==
  /\ pc[a] = "insert"
  /\ IF Rows(name[a[1]]) = {}
       THEN users' = users \cup {Row(a)} /\ (Reply(a, "OK") \/ Reply(a, "Internal"))
       ELSE UNCHANGED users /\ (Reply(a, "AlreadyExists") \/ Reply(a, "Internal"))
  /\ UNCHANGED <<inputVars, stage, attempts, status, resent>>

\* The INSERT is executed and the connection breaks before its result is read:
\* ExecContext runs it again. (Running again what changes nothing, or was not
\* executed, is no step.)
InsertAgain(a) ==
  /\ pc[a] = "insert" /\ Rows(name[a[1]]) = {}
  /\ users' = users \cup {Row(a)}
  /\ resent' = resent \cup {a}
  /\ UNCHANGED <<pc, reply, inputVars, stage, attempts, status>>

\* The password is not compared.
FindOnlyMutant(a) ==
  /\ pc[a] = "find"
  /\ Reply(a, IF Rows(name[a[1]]) = {} THEN "NotFound" ELSE "OK")
  /\ UNCHANGED <<users, inputVars, stage, attempts, status, resent>>

\* LoginUser: the SELECT, then Compare. Rows never change.
Find(a) ==
  /\ pc[a] = "find"
  /\ Reply(a, IF Rows(name[a[1]]) = {} THEN "NotFound"
              ELSE IF \E u \in Rows(name[a[1]]) : u.password = password[a[1]] THEN "OK"
              ELSE "Unauthenticated")
  /\ UNCHANGED <<users, inputVars, stage, attempts, status, resent>>

\* The statement is not executed: no connection, or the context has ended.
StatementFails(a) ==
  /\ pc[a] \in {"insert", "find"}
  /\ Reply(a, "Internal")
  /\ UNCHANGED <<users, inputVars, stage, attempts, status, resent>>

\* The service ends; PostgreSQL keeps what it acknowledged.
Crash ==
  /\ \E a \in Attempt : pc[a] \in {"insert", "find"}
  /\ pc' = [a \in Attempt |-> IF pc[a] \in {"insert", "find"} THEN "done" ELSE pc[a]]
  /\ UNCHANGED <<users, reply, inputVars, stage, attempts, status, resent>>
-----------------------------------------------------------------------------
(* The gateway.                                                            *)

\* grpc_user.go and the handlers. The handler of /login does not know the
\* client's ErrUserInvalidRegisterDetails.
StatusFor(k, s) ==
  CASE s = "OK"                                     -> IF k = "register" THEN 201 ELSE 200
    [] s = "Unavailable"                            -> 503
    [] s = "InvalidArgument" /\ k = "register"      -> 400
    [] s = "AlreadyExists"                          -> 409
    [] s = "NotFound"                               -> 404
    [] s = "Unauthenticated"                        -> 401
    [] OTHER                                        -> 500

\* For /login, 200 stands for "the user service has accepted the user":
\* GatewaySession takes over.
Respond(r, k, s) ==
  /\ stage' = [stage EXCEPT ![r] = "done"]
  /\ status' = [status EXCEPT ![r] = StatusFor(k, s)]
  /\ reply' = [reply EXCEPT ![r] = "none"]

Receives(r, k, n, p) ==
  /\ stage[r] = "idle"
  /\ route' = [route EXCEPT ![r] = k]
  /\ name' = [name EXCEPT ![r] = n]
  /\ password' = [password EXCEPT ![r] = p]
  /\ before' = [before EXCEPT ![r] = {q \in Request : status[q] = 201}]

\* The breaker is open, or half open and busy: what r carries is not looked at.
Refused(r, k) ==
  /\ stage[r] = "idle"
  /\ Respond(r, k, "Unavailable") \/ Respond(r, k, "Other")
  /\ UNCHANGED <<users, pc, inputVars, attempts, resent>>

Begin(r, k, n, p) ==
  /\ Receives(r, k, n, p)
  /\ Arrives(<<r, 1>>, k, n)
  /\ attempts' = [attempts EXCEPT ![r] = 1]
  /\ stage' = [stage EXCEPT ![r] = "calling"]
  /\ UNCHANGED <<status, resent>>

Receive(r) ==
  /\ stage[r] = "calling"
  /\ reply[r] # "none"
  /\ Respond(r, route[r], reply[r])
  /\ UNCHANGED <<users, pc, inputVars, attempts, resent>>

\* The repeats are counted from 0.
RetryOnceMoreMutant(r) ==
  /\ stage[r] = "calling"
  /\ attempts[r] - 1 < MaxAttempts
  /\ Arrives(<<r, attempts[r] + 1>>, route[r], name[r])
  /\ attempts' = [attempts EXCEPT ![r] = @ + 1]
  /\ UNCHANGED <<inputVars, stage, status, resent>>

\* UNAVAILABLE, with attempts left.
Retry(r) ==
  /\ stage[r] = "calling"
  /\ attempts[r] < MaxAttempts
  /\ Arrives(<<r, attempts[r] + 1>>, route[r], name[r])
  /\ attempts' = [attempts EXCEPT ![r] = @ + 1]
  /\ UNCHANGED <<inputVars, stage, status, resent>>

\* UNAVAILABLE for the last time, or the request's 15 seconds are over.
GivenUp(r) ==
  /\ stage[r] = "calling"
  /\ Respond(r, route[r], "Unavailable") \/ Respond(r, route[r], "Other")
  /\ UNCHANGED <<users, pc, inputVars, attempts, resent>>

Next ==
  \/ \E r \in Request :
       \/ Receive(r) \/ Retry(r) \/ GivenUp(r)
       \/ \E k \in {"register", "login"} :
            \/ Refused(r, k) \/ Begin(r, k, Bad, Bad)
            \/ \E n \in Name, p \in Password : Begin(r, k, n, p)
  \/ \E a \in Attempt : Insert(a) \/ InsertAgain(a) \/ Find(a) \/ StatementFails(a)
  \/ Crash

Spec == Init /\ [][Next]_vars
-----------------------------------------------------------------------------
(* Properties.                                                             *)

\* The types of the variables.
TypeOK ==
  /\ users \in SUBSET [id : Attempt, name : Name, password : Password]
  /\ pc \in [Attempt -> {"idle", "insert", "find", "done"}]
  /\ reply \in [Request -> {"none", "OK", "InvalidArgument", "AlreadyExists",
                            "NotFound", "Unauthenticated", "Internal"}]
  /\ stage \in [Request -> {"idle", "calling", "done"}]
  /\ route \in [Request -> {"none", "register", "login"}]
  /\ name \in [Request -> Name \cup {Bad}]
  /\ password \in [Request -> Password \cup {Bad}]
  /\ attempts \in [Request -> 0..MaxAttempts]
  /\ status \in [Request -> {NoStatus, 200, 201, 400, 401, 404, 409, 500, 503}]
  /\ before \in [Request -> SUBSET Request]
  /\ resent \subseteq Attempt

\* Who is told 201 is the user of that name, with the id in the response and
\* the password of the request; of racing and repeated registrations of a name
\* one is told so (RegisterUser, CreateUser).
CreatedIsStored ==
  \A r \in Request :
    status[r] = 201 =>
      Rows(name[r]) = {[id |-> Latest(r), name |-> name[r], password |-> password[r]]}

\* "User already exists" is the truth; and it is said to the user who has just
\* been created only if the row is from an earlier attempt, because gRPC has
\* repeated the registration, or database/sql has run the INSERT of this attempt
\* again after it was executed.
ConflictHasCause ==
  \A r \in Request :
    status[r] = 409 =>
      \E u \in Rows(name[r]) : u.id # Latest(r) \/ u.id \in resent

\* A registration that was answered 201 is seen by every login that comes
\* after: it is not "not found", and exactly the password registered is right.
LoginSeesRegistration ==
  \A q \in Request : \A r \in before[q] :
    status[r] = 201 /\ route[q] = "login" /\ name[q] = name[r] =>
      /\ status[q] # 404
      /\ status[q] = 200 => password[q] = password[r]
      /\ status[q] = 401 => password[q] # password[r]

\* Nobody logs in as a user whose registration did not carry that password,
\* answered or not.
LoginNeedsRegistration ==
  \A q \in Request :
    route[q] = "login" /\ status[q] = 200 =>
      \E r \in Request :
        /\ route[r] = "register" /\ attempts[r] > 0
        /\ name[r] = name[q] /\ password[r] = password[q]
-----------------------------------------------------------------------------
(* The promise it implements.                                              *)

\* What the HTTP status h tells the client; 500 and 503 say nothing.
ToldBy(h) ==
  CASE h = NoStatus     -> "none"
    [] h \in {200, 201} -> "OK"
    [] h = 400          -> "InvalidArgument"
    [] h = 409          -> "AlreadyExists"
    [] h = 404          -> "NotFound"
    [] h = 401          -> "Unauthenticated"
    [] OTHER            -> "Internal"

Accounts == {[owner |-> u.id[1], name |-> u.name, password |-> u.password] : u \in users}

Directory == INSTANCE UserDirectory WITH
  accounts <- Accounts,
  told <- [r \in Request |-> ToldBy(status[r])],
  repeated <- {r \in Request : attempts[r] > 1 \/ \E a \in resent : a[1] = r}

\* For its clients the user service is a directory that answers in one step:
\* 201, 409, 200, 404 and 401 were true at one moment between request and
\* response, whatever statements, repeats and crashes interleave; a request
\* whose client was told something else may have registered its user before or
\* may do so later; and a request meets itself only if gRPC or database/sql has
\* repeated what was executed before.
ImplementsDirectory == Directory!Spec
=============================================================================
