------------------------- MODULE UserServiceProofs -------------------------
(* Theorems about UserService, for every set of requests, names and        *)
(* passwords and every number of gRPC attempts.                            *)
EXTENDS UserService, TLAPS

Codes == {"OK", "InvalidArgument", "AlreadyExists", "NotFound", "Unauthenticated", "Internal"}
Statuses == {NoStatus, 200, 201, 400, 401, 404, 409, 500, 503}

\* The handler's answer is one of the statuses; 201 and 200 say OK, 404 and 401
\* say what they are.
LEMMA StatusForTyped ==
  ASSUME NEW k \in {"register", "login"},
         NEW s \in Codes \cup {"Unavailable", "Other"}
  PROVE  /\ StatusFor(k, s) \in Statuses
         /\ StatusFor(k, s) # NoStatus
         /\ StatusFor(k, s) = 201 => k = "register" /\ s = "OK"
         /\ StatusFor(k, s) = 200 => k = "login" /\ s = "OK"
         /\ StatusFor(k, s) = 404 => s = "NotFound"
         /\ StatusFor(k, s) = 401 => s = "Unauthenticated"
BY DEF StatusFor, Codes, Statuses, NoStatus

\* Ending an attempt is typed, and tells at most its own request.
LEMMA ReplyTyped ==
  ASSUME TypeOK, NEW a \in Attempt, NEW s \in Codes, Reply(a, s)
  PROVE  /\ pc' \in [Attempt -> {"idle", "insert", "find", "done"}]
         /\ reply' \in [Request -> {"none"} \cup Codes]
         /\ pc' = [pc EXCEPT ![a] = "done"]
         /\ \A r \in Request :
              reply'[r] # reply[r] => /\ r = a[1]
                                      /\ a = Latest(r)
                                      /\ stage[r] = "calling"
                                      /\ reply'[r] = s
BY DEF TypeOK, Reply, Attempt, Codes
-----------------------------------------------------------------------------
(* The inductive invariant.                                                *)

\* A request that has come has a route and carries something valid, or Bad; an
\* attempt serves a request that has
\* come, and runs the statement of its route.
Coming ==
  /\ \A r \in Request :
       /\ stage[r] = "idle" => before[r] = {} /\ route[r] = "none" /\ attempts[r] = 0
       /\ stage[r] = "calling" => route[r] # "none" /\ attempts[r] > 0
       /\ stage[r] # "calling" => reply[r] = "none"
       /\ stage[r] # "done" => status[r] = NoStatus
       /\ route[r] = "none" => attempts[r] = 0
       /\ name[r] # Bad => name[r] \in Name /\ password[r] \in Password
  /\ \A a \in Attempt :
       /\ pc[a] # "idle" => stage[a[1]] # "idle" /\ a[2] <= attempts[a[1]]
       /\ pc[a] = "insert" => route[a[1]] = "register"
       /\ pc[a] = "find" => route[a[1]] = "login"
       /\ pc[a] \in {"insert", "find"} =>
            name[a[1]] \in Name /\ password[a[1]] \in Password

\* A row is what the registration that made it carried, and its name's only one.
Table ==
  /\ \A u, v \in users : u.name = v.name => u = v
  /\ \A u \in users :
       /\ pc[u.id] = "done" \/ (pc[u.id] = "insert" /\ u.id \in resent)
       /\ route[u.id[1]] = "register"
       /\ attempts[u.id[1]] > 0
       /\ u.name = name[u.id[1]]
       /\ u.password = password[u.id[1]]

RowOf(r) == [id |-> Latest(r), name |-> name[r], password |-> password[r]]

\* r has been told, or is about to be told, that it is registered.
Registered(r) == route[r] = "register" /\ (reply[r] = "OK" \/ status[r] = 201)

\* Who is told so has its row.
Created ==
  /\ \A r \in Request : Registered(r) => RowOf(r) \in users
  /\ \A r \in Request : status[r] = 201 => route[r] = "register"

\* Who is told that a login is right, or wrong, or of nobody, is told so from
\* the row of the name.
LoggedIn ==
  \A q \in Request :
    /\ (route[q] = "login" /\ reply[q] = "OK") \/ status[q] = 200 =>
         \E u \in Rows(name[q]) : u.password = password[q]
    /\ reply[q] = "Unauthenticated" \/ status[q] = 401 =>
         \E u \in Rows(name[q]) : u.password # password[q]

\* Registrations that were answered before stay answered, and no login that
\* came after is told that there is no such user.
Before ==
  \A q \in Request : \A r \in before[q] :
    /\ status[r] = 201
    /\ (reply[q] = "NotFound" \/ status[q] = 404) => name[q] # name[r]

Inv == TypeOK /\ Coming /\ Table /\ Created /\ LoggedIn /\ Before

\* Attempts are pairs of a request and a number.
LEMMA AttemptParts ==
  /\ \A a \in Attempt : a[1] \in Request /\ a[2] \in 1..MaxAttempts /\ a = <<a[1], a[2]>>
  /\ \A r \in Request, n \in 1..MaxAttempts : <<r, n>> \in Attempt
BY DEF Attempt

\* Initially nobody has come.
LEMMA InvInit == Init => Inv
<1> SUFFICES ASSUME Init PROVE Inv
  OBVIOUS
<1>1. TypeOK
  BY UsersAssumption DEF Init, TypeOK, NoStatus
<1>2. Coming
  BY AttemptParts DEF Init, Coming
<1>3. Table /\ Created /\ LoggedIn /\ Before
  BY DEF Init, Table, Created, LoggedIn, Before, Registered, NoStatus
<1> QED
  BY <1>1, <1>2, <1>3 DEF Inv
-----------------------------------------------------------------------------
(* The user service.                                                       *)

\* The end of an attempt that leaves the table alone, with an answer that the
\* table bears out.
LEMMA EndInv ==
  ASSUME Inv, NEW a \in Attempt, NEW s \in Codes, Reply(a, s),
         pc[a] \in {"insert", "find"},
         UNCHANGED <<users, inputVars, stage, attempts, status, resent>>,
         s = "OK" => /\ pc[a] = "find"
                     /\ \E u \in Rows(name[a[1]]) : u.password = password[a[1]],
         s = "Unauthenticated" => \E u \in Rows(name[a[1]]) : u.password # password[a[1]],
         s = "NotFound" => Rows(name[a[1]]) = {}
  PROVE  Inv'
<1> USE DEF Inv
<1>1. /\ pc' = [pc EXCEPT ![a] = "done"]
      /\ \A r \in Request :
           reply'[r] # reply[r] =>
             r = a[1] /\ a = Latest(r) /\ stage[r] = "calling" /\ reply'[r] = s
  BY ReplyTyped
<1>2. /\ UNCHANGED <<users, route, name, password, before, stage, attempts, status, resent>>
  BY DEF inputVars
<1>3. TypeOK'
  BY <1>2, ReplyTyped DEF TypeOK, Codes
<1>4. Coming'
  BY <1>1, <1>2, AttemptParts DEF Coming, TypeOK
<1>5. Table'
  BY <1>1, <1>2 DEF Table, TypeOK
<1>6. \A r \in Request : Latest(r)' = Latest(r) /\ RowOf(r)' = RowOf(r)
  BY <1>2 DEF Latest, RowOf
<1>7. Created'
  <2>1. ASSUME NEW r \in Request, Registered(r)'
        PROVE  Registered(r)
    <3>1. CASE reply'[r] = reply[r]
      BY <1>2, <2>1, <3>1 DEF Registered
    <3>2. CASE reply'[r] # reply[r]
      BY <1>1, <1>2, <2>1, <3>2 DEF Registered, Coming
    <3> QED
      BY <3>1, <3>2
  <2> QED
    BY <1>2, <1>6, <2>1 DEF Created
<1>8. LoggedIn'
  <2> SUFFICES ASSUME NEW q \in Request
               PROVE
      /\ (route[q] = "login" /\ reply'[q] = "OK") \/ status[q] = 200 =>
           \E u \in Rows(name[q]) : u.password = password[q]
      /\ reply'[q] = "Unauthenticated" \/ status[q] = 401 =>
           \E u \in Rows(name[q]) : u.password # password[q]
    BY <1>2 DEF LoggedIn, Rows
  <2> QED
    BY <1>1 DEF LoggedIn
<1>9. Before'
  <2> SUFFICES ASSUME NEW q \in Request, NEW r \in before[q]
               PROVE  /\ status[r] = 201
                      /\ (reply'[q] = "NotFound" \/ status[q] = 404) => name[q] # name[r]
    BY <1>2 DEF Before
  <2>1. r \in Request /\ status[r] = 201
    BY DEF Before, TypeOK
  <2>2. RowOf(r) \in users /\ RowOf(r).name = name[r]
    BY <2>1 DEF Created, Registered, RowOf
  <2>3. Rows(name[q]) = {} => name[q] # name[r]
    BY <2>2 DEF Rows
  <2> QED
    BY <1>1, <2>1, <2>3 DEF Before
<1> QED
  BY <1>3, <1>4, <1>5, <1>7, <1>8, <1>9

\* An INSERT that finds the name free, and ends the attempt or is run again.
LEMMA InsertInv ==
  ASSUME Inv, NEW a \in Attempt, pc[a] = "insert", NEW s \in {"OK", "Internal"},
         \/ Reply(a, s) /\ resent' = resent
         \/ UNCHANGED <<pc, reply>> /\ resent' = resent \cup {a},
         Rows(name[a[1]]) = {},
         users' = users \cup {Row(a)},
         UNCHANGED <<inputVars, stage, attempts, status>>
  PROVE  Inv'
<1> USE DEF Inv, Row
<1> DEFINE row == [id |-> a, name |-> name[a[1]], password |-> password[a[1]]]
<1>1. /\ \/ pc' = [pc EXCEPT ![a] = "done"] /\ resent' = resent
         \/ pc' = pc /\ resent' = resent \cup {a}
      /\ \A r \in Request :
           reply'[r] # reply[r] =>
             r = a[1] /\ a = Latest(r) /\ stage[r] = "calling" /\ reply'[r] = s
      /\ pc' \in [Attempt -> {"idle", "insert", "find", "done"}]
      /\ reply' \in [Request -> {"none"} \cup Codes]
  BY ReplyTyped DEF Codes, TypeOK
<1>2. /\ UNCHANGED <<route, name, password, before, stage, attempts, status>>
      /\ users' = users \cup {row}
  BY DEF inputVars
<1>3. row \in [id : Attempt, name : Name, password : Password]
  BY DEF Coming
<1>4. TypeOK'
  BY <1>1, <1>2, <1>3 DEF TypeOK, Codes
<1>5. Coming'
  BY <1>1, <1>2, AttemptParts DEF Coming, TypeOK
<1>6. Table'
  <2>1. route[a[1]] = "register" /\ attempts[a[1]] > 0
    BY AttemptParts DEF Coming, TypeOK
  <2>2. \A u \in users : u.name # row.name
    BY DEF Rows
  <2>3. \A u, v \in users' : u.name = v.name => u = v
    BY <1>2, <2>2 DEF Table
  <2>4. ASSUME NEW u \in users'
        PROVE  /\ pc'[u.id] = "done" \/ (pc'[u.id] = "insert" /\ u.id \in resent')
               /\ route[u.id[1]] = "register"
               /\ attempts[u.id[1]] > 0
               /\ u.name = name[u.id[1]]
               /\ u.password = password[u.id[1]]
    <3>1. CASE u \in users
      <4>1. u.id \in Attempt /\ u.id # a
        BY <2>2, <3>1 DEF Table, TypeOK
      <4> QED
        BY <1>1, <3>1, <4>1 DEF Table, TypeOK
    <3>2. CASE u = row
      BY <1>1, <2>1, <3>2 DEF TypeOK
    <3> QED
      BY <1>2, <3>1, <3>2
  <2> QED
    BY <1>2, <2>3, <2>4 DEF Table
<1>7. \A r \in Request : Latest(r)' = Latest(r) /\ RowOf(r)' = RowOf(r)
  BY <1>2 DEF Latest, RowOf
<1>8. Created'
  <2>1. ASSUME NEW r \in Request, Registered(r)'
        PROVE  RowOf(r) \in users'
    <3>1. CASE reply'[r] = reply[r]
      BY <1>2, <2>1, <3>1 DEF Registered, Created
    <3>2. CASE reply'[r] # reply[r]
      BY <1>1, <1>2, <3>2 DEF RowOf
    <3> QED
      BY <3>1, <3>2
  <2> QED
    BY <1>2, <1>7, <2>1 DEF Created
<1>9. LoggedIn'
  <2> SUFFICES ASSUME NEW q \in Request
               PROVE
      /\ (route[q] = "login" /\ reply'[q] = "OK") \/ status[q] = 200 =>
           \E u \in Rows(name[q])' : u.password = password[q]
      /\ reply'[q] = "Unauthenticated" \/ status[q] = 401 =>
           \E u \in Rows(name[q])' : u.password # password[q]
    BY <1>2 DEF LoggedIn
  <2>1. Rows(name[q]) \subseteq Rows(name[q])'
    BY <1>2 DEF Rows
  <2>2. reply'[q] # reply[q] => route[q] = "register" /\ reply'[q] \in {"OK", "Internal"}
    BY <1>1, AttemptParts DEF Coming
  <2> QED
    BY <2>1, <2>2 DEF LoggedIn
<1>10. Before'
  BY <1>1, <1>2 DEF Before
<1> QED
  BY <1>4, <1>5, <1>6, <1>8, <1>9, <1>10

\* The end of the service.
LEMMA CrashInv ==
  ASSUME Inv, Crash
  PROVE  Inv'
<1> USE DEF Inv, Crash, inputVars
<1>1. TypeOK'
  BY DEF TypeOK
<1>2. Coming'
  BY AttemptParts DEF Coming, TypeOK
<1>3. Table'
  BY DEF Table, TypeOK
<1>4. Created' /\ LoggedIn' /\ Before'
  BY DEF Created, LoggedIn, Before, Registered, RowOf, Latest, Rows
<1> QED
  BY <1>1, <1>2, <1>3, <1>4

LEMMA ServerInv ==
  ASSUME Inv, NEW a \in Attempt, Insert(a) \/ InsertAgain(a) \/ Find(a) \/ StatementFails(a)
  PROVE  Inv'
<1>1. CASE Insert(a) /\ Rows(name[a[1]]) = {}
  BY <1>1, InsertInv DEF Insert
<1>2. CASE Insert(a) /\ Rows(name[a[1]]) # {}
  BY <1>2, EndInv DEF Insert, Codes
<1>3. CASE Find(a)
  <2>1. PICK s \in Codes :
          /\ Reply(a, s)
          /\ s = "OK" => \E u \in Rows(name[a[1]]) : u.password = password[a[1]]
          /\ s = "Unauthenticated" => \E u \in Rows(name[a[1]]) : u.password # password[a[1]]
          /\ s = "NotFound" => Rows(name[a[1]]) = {}
    BY <1>3 DEF Find, Codes
  <2> QED
    BY <1>3, <2>1, EndInv DEF Find
<1>4. CASE StatementFails(a)
  BY <1>4, EndInv DEF StatementFails, Codes
<1>5. CASE InsertAgain(a)
  BY <1>5, InsertInv DEF InsertAgain
<1> QED
  BY <1>1, <1>2, <1>3, <1>4, <1>5
-----------------------------------------------------------------------------
(* The gateway.                                                            *)

\* A response says what the RPC of the request came to, or that it did not.
LEMMA RespondInv ==
  ASSUME Inv, NEW r \in Request, NEW k \in {"register", "login"},
         NEW s \in Codes \cup {"Unavailable", "Other"}, Respond(r, k, s),
         stage[r] # "done",
         s \in Codes => stage[r] = "calling" /\ reply[r] = s,
         s \in Codes => k = route[r],
         UNCHANGED <<users, pc, inputVars, attempts, resent>>
  PROVE  Inv'
<1> USE DEF Inv
<1>1. /\ stage' = [stage EXCEPT ![r] = "done"]
      /\ reply' = [reply EXCEPT ![r] = "none"]
      /\ status' = [status EXCEPT ![r] = StatusFor(k, s)]
      /\ UNCHANGED <<users, pc, route, name, password, before, attempts>>
  BY DEF Respond, inputVars
<1>2. /\ StatusFor(k, s) \in Statuses
      /\ StatusFor(k, s) # NoStatus
      /\ StatusFor(k, s) = 201 => k = "register" /\ s = "OK"
      /\ StatusFor(k, s) = 200 => k = "login" /\ s = "OK"
      /\ StatusFor(k, s) = 404 => s = "NotFound"
      /\ StatusFor(k, s) = 401 => s = "Unauthenticated"
  BY StatusForTyped
<1> HIDE DEF StatusFor
<1>3. TypeOK'
  BY <1>1, <1>2 DEF TypeOK, Statuses
<1>4. Coming'
  BY <1>1, AttemptParts DEF Coming, TypeOK
<1>5. Table'
  BY <1>1 DEF Table
<1>6. \A q \in Request : reply'[q] = IF q = r THEN "none" ELSE reply[q]
  BY <1>1 DEF TypeOK
<1>7. \A q \in Request : status'[q] = IF q = r THEN StatusFor(k, s) ELSE status[q]
  BY <1>1 DEF TypeOK
<1>8. Created'
  <2>1. \A q \in Request : RowOf(q)' = RowOf(q)
    BY <1>1 DEF RowOf, Latest
  <2>2. ASSUME NEW q \in Request, status'[q] = 201
        PROVE  Registered(q)
    BY <1>2, <1>7, <2>2 DEF Registered, Codes, Created
  <2>3. ASSUME NEW q \in Request, Registered(q)'
        PROVE  Registered(q)
    BY <1>1, <1>6, <2>2, <2>3 DEF Registered
  <2> QED
    BY <1>1, <2>1, <2>2, <2>3 DEF Created, Registered
<1>9. LoggedIn'
  <2> SUFFICES ASSUME NEW q \in Request
               PROVE
      /\ (route[q] = "login" /\ reply'[q] = "OK") \/ status'[q] = 200 =>
           \E u \in Rows(name[q]) : u.password = password[q]
      /\ reply'[q] = "Unauthenticated" \/ status'[q] = 401 =>
           \E u \in Rows(name[q]) : u.password # password[q]
    BY <1>1 DEF LoggedIn, Rows
  <2>1. (route[q] = "login" /\ reply'[q] = "OK") \/ status'[q] = 200 =>
          (route[q] = "login" /\ reply[q] = "OK") \/ status[q] = 200
    BY <1>2, <1>6, <1>7 DEF Codes
  <2>2. reply'[q] = "Unauthenticated" \/ status'[q] = 401 =>
          reply[q] = "Unauthenticated" \/ status[q] = 401
    BY <1>2, <1>6, <1>7 DEF Codes
  <2> QED
    BY <2>1, <2>2 DEF LoggedIn
<1>10. Before'
  <2> SUFFICES ASSUME NEW q \in Request, NEW p \in before[q]
               PROVE  /\ status'[p] = 201
                      /\ (reply'[q] = "NotFound" \/ status'[q] = 404) => name[q] # name[p]
    BY <1>1 DEF Before
  <2>1. p \in Request /\ status[p] = 201
    BY DEF Before, TypeOK
  <2>2. p # r
    BY <2>1 DEF Coming, NoStatus
  <2>3. (reply'[q] = "NotFound" \/ status'[q] = 404) => (reply[q] = "NotFound" \/ status[q] = 404)
    BY <1>2, <1>6, <1>7 DEF Codes
  <2> QED
    BY <1>7, <2>1, <2>2, <2>3 DEF Before
<1> QED
  BY <1>3, <1>4, <1>5, <1>8, <1>9, <1>10

\* A request comes and makes its first attempt.
LEMMA BeginInv ==
  ASSUME Inv, NEW r \in Request, NEW k \in {"register", "login"},
         NEW n \in Name \cup {Bad}, NEW p \in Password \cup {Bad},
         n # Bad => p \in Password, Begin(r, k, n, p)
  PROVE  Inv'
<1> USE DEF Inv
<1> DEFINE a == <<r, 1>>
<1>1. a \in Attempt
  BY UsersAssumption, AttemptParts
<1>2. /\ stage[r] = "idle"
      /\ route' = [route EXCEPT ![r] = k]
      /\ name' = [name EXCEPT ![r] = n]
      /\ password' = [password EXCEPT ![r] = p]
      /\ before' = [before EXCEPT ![r] = {q \in Request : status[q] = 201}]
      /\ pc' = [pc EXCEPT ![a] = IF n = Bad THEN "done"
                                 ELSE IF k = "register" THEN "insert" ELSE "find"]
      /\ reply' = [reply EXCEPT ![r] = IF n = Bad THEN "InvalidArgument" ELSE "none"]
      /\ attempts' = [attempts EXCEPT ![r] = 1]
      /\ stage' = [stage EXCEPT ![r] = "calling"]
      /\ UNCHANGED <<users, status, resent>>
  BY DEF Begin, Receives, Arrives
<1>3. TypeOK'
  BY <1>1, <1>2, UsersAssumption DEF TypeOK
<1>4. \A b \in Attempt : b[1] = r => pc[b] = "idle"
  BY <1>2 DEF Coming
<1>5. Coming'
  <2>1. ASSUME NEW q \in Request
        PROVE  /\ stage'[q] = "idle" => before'[q] = {} /\ route'[q] = "none" /\ attempts'[q] = 0
               /\ stage'[q] = "calling" => route'[q] # "none" /\ attempts'[q] > 0
               /\ stage'[q] # "calling" => reply'[q] = "none"
               /\ stage'[q] # "done" => status'[q] = NoStatus
               /\ route'[q] = "none" => attempts'[q] = 0
               /\ name'[q] # Bad => name'[q] \in Name /\ password'[q] \in Password
    <3>1. CASE q = r
      BY <1>2, <3>1 DEF Coming, TypeOK
    <3>2. CASE q # r
      BY <1>2, <3>2 DEF Coming, TypeOK
    <3> QED
      BY <3>1, <3>2
  <2>2. ASSUME NEW b \in Attempt
        PROVE  /\ pc'[b] # "idle" => stage'[b[1]] # "idle" /\ b[2] <= attempts'[b[1]]
               /\ pc'[b] = "insert" => route'[b[1]] = "register"
               /\ pc'[b] = "find" => route'[b[1]] = "login"
               /\ pc'[b] \in {"insert", "find"} =>
                    name'[b[1]] \in Name /\ password'[b[1]] \in Password
    <3>1. CASE b = a
      BY <1>2, <3>1 DEF TypeOK
    <3>2. CASE b # a /\ b[1] = r
      BY <1>2, <1>4, <3>2 DEF TypeOK
    <3>3. CASE b[1] # r
      <4>1. b[1] \in Request /\ b # a
        BY <3>3, AttemptParts
      <4> QED
        BY <1>2, <3>3, <4>1 DEF Coming, TypeOK
    <3> QED
      BY <3>1, <3>2, <3>3
  <2> QED
    BY <2>1, <2>2 DEF Coming
<1>6. \A u \in users : u.id[1] # r /\ u.id[1] \in Request /\ u.id \in Attempt
  BY <1>2, AttemptParts DEF Table, Coming, TypeOK
<1>7. Table'
  BY <1>1, <1>2, <1>6 DEF Table, TypeOK
<1>8. \A q \in Request \ {r} :
        RowOf(q)' = RowOf(q) /\ (Registered(q)' <=> Registered(q))
  BY <1>2 DEF RowOf, Latest, Registered, TypeOK
<1>9. ~Registered(r)' /\ status[r] = NoStatus
  BY <1>2 DEF Registered, Coming, NoStatus, TypeOK
<1>10. Created'
  <2>1. ASSUME NEW q \in Request, status[q] = 201
        PROVE  route'[q] = "register"
    BY <1>2, <1>9, <2>1 DEF Created, NoStatus, TypeOK
  <2> QED
    BY <1>2, <1>8, <1>9, <2>1 DEF Created
<1>11. LoggedIn'
  <2> SUFFICES ASSUME NEW q \in Request
               PROVE
      /\ (route'[q] = "login" /\ reply'[q] = "OK") \/ status[q] = 200 =>
           \E u \in Rows(name'[q]) : u.password = password'[q]
      /\ reply'[q] = "Unauthenticated" \/ status[q] = 401 =>
           \E u \in Rows(name'[q]) : u.password # password'[q]
    BY <1>2 DEF LoggedIn, Rows
  <2>1. CASE q = r
    BY <1>2, <1>9, <2>1 DEF NoStatus, TypeOK
  <2>2. CASE q # r
    BY <1>2, <2>2 DEF LoggedIn, TypeOK
  <2> QED
    BY <2>1, <2>2
<1>12. Before'
  <2> SUFFICES ASSUME NEW q \in Request, NEW b \in before'[q]
               PROVE  /\ status[b] = 201
                      /\ (reply'[q] = "NotFound" \/ status[q] = 404) => name'[q] # name'[b]
    BY <1>2 DEF Before
  <2>1. CASE q = r
    BY <1>2, <1>9, <2>1 DEF NoStatus, TypeOK
  <2>2. CASE q # r
    <3>1. b \in before[q] /\ b \in Request /\ status[b] = 201
      BY <1>2, <2>2 DEF Before, TypeOK
    <3>2. b # r
      BY <1>9, <3>1 DEF NoStatus
    <3> QED
      BY <1>2, <2>2, <3>1, <3>2 DEF Before, TypeOK
  <2> QED
    BY <2>1, <2>2
<1> QED
  BY <1>3, <1>5, <1>7, <1>10, <1>11, <1>12

\* gRPC makes another attempt; an answer to the last one is lost.
LEMMA RetryInv ==
  ASSUME Inv, NEW r \in Request, Retry(r)
  PROVE  Inv'
<1> USE DEF Inv
<1> DEFINE a == <<r, attempts[r] + 1>>
<1>1. a \in Attempt
  BY UsersAssumption, AttemptParts DEF Retry, TypeOK
<1>2. /\ stage[r] = "calling"
      /\ pc' = [pc EXCEPT ![a] = IF name[r] = Bad THEN "done"
                                 ELSE IF route[r] = "register" THEN "insert" ELSE "find"]
      /\ reply' = [reply EXCEPT ![r] = IF name[r] = Bad THEN "InvalidArgument" ELSE "none"]
      /\ attempts' = [attempts EXCEPT ![r] = @ + 1]
      /\ UNCHANGED <<users, route, name, password, before, stage, status, resent>>
  BY DEF Retry, Arrives, inputVars
<1>3. TypeOK'
  BY <1>1, <1>2, UsersAssumption DEF TypeOK, Retry
<1>4. pc[a] = "idle"
  BY <1>1, <1>2, UsersAssumption DEF Coming, TypeOK
<1>5. route[r] \in {"register", "login"}
  BY <1>2 DEF Coming, TypeOK
<1>6. name[r] # Bad => name[r] \in Name /\ password[r] \in Password
  BY <1>2 DEF Coming, TypeOK
<1>7. Coming'
  <2>1. ASSUME NEW q \in Request
        PROVE  /\ stage[q] = "idle" => before[q] = {} /\ route[q] = "none" /\ attempts'[q] = 0
               /\ stage[q] = "calling" => route[q] # "none" /\ attempts'[q] > 0
               /\ stage[q] # "calling" => reply'[q] = "none"
               /\ stage[q] # "done" => status[q] = NoStatus
               /\ route[q] = "none" => attempts'[q] = 0
               /\ name[q] # Bad => name[q] \in Name /\ password[q] \in Password
    BY <1>2, <1>5 DEF Coming, TypeOK
  <2>2. ASSUME NEW b \in Attempt
        PROVE  /\ pc'[b] # "idle" => stage[b[1]] # "idle" /\ b[2] <= attempts'[b[1]]
               /\ pc'[b] = "insert" => route[b[1]] = "register"
               /\ pc'[b] = "find" => route[b[1]] = "login"
               /\ pc'[b] \in {"insert", "find"} =>
                    name[b[1]] \in Name /\ password[b[1]] \in Password
    <3>1. CASE b = a
      BY <1>2, <1>5, <1>6, <3>1 DEF TypeOK
    <3>2. CASE b # a
      BY <1>2, <3>2, AttemptParts DEF Coming, TypeOK
    <3> QED
      BY <3>1, <3>2
  <2> QED
    BY <1>2, <2>1, <2>2 DEF Coming
<1>8. Table'
  <2>1. \A u \in users : u.id # a /\ u.id \in Attempt /\ u.id[1] \in Request
    <3>1. \A u \in users : u.id \in Attempt /\ pc[u.id] # "idle"
      BY DEF Table, TypeOK
    <3> QED
      BY <1>4, <3>1, AttemptParts
  <2> QED
    BY <1>2, <2>1 DEF Table, TypeOK
<1>9. Created'
  <2>1. ASSUME NEW q \in Request, Registered(q)'
        PROVE  q # r /\ Registered(q) /\ RowOf(q)' = RowOf(q)
    BY <1>2, <2>1 DEF Registered, RowOf, Latest, Coming, NoStatus, TypeOK
  <2> QED
    BY <1>2, <2>1 DEF Created
<1>10. LoggedIn'
  <2> SUFFICES ASSUME NEW q \in Request
               PROVE
      /\ (route[q] = "login" /\ reply'[q] = "OK") \/ status[q] = 200 =>
           \E u \in Rows(name[q]) : u.password = password[q]
      /\ reply'[q] = "Unauthenticated" \/ status[q] = 401 =>
           \E u \in Rows(name[q]) : u.password # password[q]
    BY <1>2 DEF LoggedIn, Rows
  <2> QED
    BY <1>2 DEF LoggedIn, TypeOK
<1>11. Before'
  BY <1>2 DEF Before, TypeOK
<1> QED
  BY <1>3, <1>7, <1>8, <1>9, <1>10, <1>11
-----------------------------------------------------------------------------
(* The theorems.                                                           *)

LEMMA InvStep == Inv /\ [Next]_vars => Inv'
<1> SUFFICES ASSUME Inv, [Next]_vars PROVE Inv'
  OBVIOUS
<1>1. ASSUME NEW r \in Request, Receive(r)
      PROVE  Inv'
  <2>1. /\ reply[r] \in Codes
        /\ route[r] \in {"register", "login"}
        /\ Respond(r, route[r], reply[r])
        /\ stage[r] = "calling"
        /\ UNCHANGED <<users, pc, inputVars, attempts, resent>>
    BY <1>1 DEF Receive, Inv, TypeOK, Coming, Codes
  <2> QED
    BY <2>1, RespondInv
<1>2. ASSUME NEW r \in Request, GivenUp(r)
      PROVE  Inv'
  <2>1. route[r] \in {"register", "login"}
    BY <1>2 DEF GivenUp, Inv, TypeOK, Coming
  <2>2. PICK s \in {"Unavailable", "Other"} : Respond(r, route[r], s)
    BY <1>2 DEF GivenUp
  <2>3. stage[r] = "calling" /\ UNCHANGED <<users, pc, inputVars, attempts, resent>> /\ s \notin Codes
    BY <1>2 DEF GivenUp, Codes
  <2> QED
    BY <2>1, <2>2, <2>3, RespondInv
<1>3. ASSUME NEW r \in Request, NEW k \in {"register", "login"}, Refused(r, k)
      PROVE  Inv'
  <2>1. PICK s \in {"Unavailable", "Other"} : Respond(r, k, s)
    BY <1>3 DEF Refused
  <2>2. stage[r] = "idle" /\ UNCHANGED <<users, pc, inputVars, attempts, resent>> /\ s \notin Codes
    BY <1>3 DEF Refused, Codes
  <2> QED
    BY <2>1, <2>2, RespondInv
<1>4. ASSUME NEW r \in Request, NEW k \in {"register", "login"}, Begin(r, k, Bad, Bad)
      PROVE  Inv'
  BY <1>4, BeginInv
<1>5. ASSUME NEW r \in Request, NEW k \in {"register", "login"},
             NEW n \in Name, NEW p \in Password, Begin(r, k, n, p)
      PROVE  Inv'
  BY <1>5, BeginInv
<1>6. CASE UNCHANGED vars
  BY <1>6 DEF vars, inputVars, Inv, TypeOK, Coming, Table, Created, LoggedIn, Before,
              Registered, RowOf, Latest, Rows
<1> QED
  BY <1>1, <1>2, <1>3, <1>4, <1>5, <1>6, RetryInv, ServerInv, CrashInv DEF Next

LEMMA InvAlways == Spec => []Inv
  BY InvInit, InvStep, PTL DEF Spec

\* The variables keep their types.
THEOREM TypeCorrect == Spec => []TypeOK
<1>1. Inv => TypeOK
  BY DEF Inv
<1> QED
  BY <1>1, InvAlways, PTL

\* Who is told 201 is the one user of that name, with that id and password.
THEOREM CreatedIsStoredCorrect == Spec => []CreatedIsStored
<1>1. Inv => CreatedIsStored
  <2> SUFFICES ASSUME Inv, NEW r \in Request, status[r] = 201
               PROVE  Rows(name[r]) = {RowOf(r)}
    BY DEF CreatedIsStored, RowOf
  <2>1. RowOf(r) \in users /\ RowOf(r).name = name[r]
    BY DEF Inv, Created, Registered, RowOf
  <2> QED
    BY <2>1 DEF Inv, Table, Rows
<1> QED
  BY <1>1, InvAlways, PTL

\* A registration that was answered 201 is seen by every login that comes after.
THEOREM LoginSeesRegistrationCorrect == Spec => []LoginSeesRegistration
<1>1. Inv => LoginSeesRegistration
  <2> SUFFICES ASSUME Inv, NEW q \in Request, NEW r \in before[q],
                      route[q] = "login", name[q] = name[r]
               PROVE  /\ status[q] # 404
                      /\ status[q] = 200 => password[q] = password[r]
                      /\ status[q] = 401 => password[q] # password[r]
    BY DEF LoginSeesRegistration
  <2>1. r \in Request /\ status[r] = 201
    BY DEF Inv, TypeOK, Before
  <2>2. RowOf(r) \in users /\ RowOf(r).name = name[r] /\ RowOf(r).password = password[r]
    BY <2>1 DEF Inv, Created, Registered, RowOf
  <2>3. \A u \in Rows(name[q]) : u = RowOf(r)
    BY <2>2 DEF Inv, Table, Rows
  <2> QED
    BY <2>2, <2>3 DEF Inv, Before, LoggedIn
<1> QED
  BY <1>1, InvAlways, PTL

\* Nobody logs in as a user whose registration did not carry that password.
THEOREM LoginNeedsRegistrationCorrect == Spec => []LoginNeedsRegistration
<1>1. Inv => LoginNeedsRegistration
  <2> SUFFICES ASSUME Inv, NEW q \in Request, status[q] = 200
               PROVE  \E r \in Request :
                        /\ route[r] = "register" /\ attempts[r] > 0
                        /\ name[r] = name[q] /\ password[r] = password[q]
    BY DEF LoginNeedsRegistration
  <2>1. PICK u \in Rows(name[q]) : u.password = password[q]
    BY DEF Inv, LoggedIn
  <2>2. u \in users /\ u.name = name[q] /\ u.id[1] \in Request
    BY <2>1, AttemptParts DEF Rows, Inv, TypeOK
  <2> QED
    BY <2>1, <2>2 DEF Inv, Table
<1> QED
  BY <1>1, InvAlways, PTL
-----------------------------------------------------------------------------
(* ConflictHasCause.                                                       *)

\* Who is told of a conflict, or is about to be, finds another request's row, or
\* an earlier attempt's of its own, or its own after the INSERT was run again.
Cause(r) == \E u \in Rows(name[r]) : u.id # Latest(r) \/ u.id \in resent

Conflict ==
  \A r \in Request : reply[r] = "AlreadyExists" \/ status[r] = 409 => Cause(r)

\* A request keeps its cause until it makes another attempt.
LEMMA CauseKept ==
  ASSUME Conflict, NEW r \in Request, users \subseteq users', resent \subseteq resent',
         name'[r] = name[r], attempts'[r] = attempts[r],
         reply'[r] = "AlreadyExists" => reply[r] = "AlreadyExists",
         status'[r] = 409 => reply[r] = "AlreadyExists" \/ status[r] = 409,
         reply'[r] = "AlreadyExists" \/ status'[r] = 409
  PROVE  Cause(r)'
<1>1. PICK u \in Rows(name[r]) : u.id # Latest(r) \/ u.id \in resent
  BY DEF Conflict, Cause
<1>2. u \in users' /\ u.name = name'[r] /\ Latest(r)' = Latest(r)
  BY <1>1 DEF Rows, Latest
<1> QED
  BY <1>1, <1>2 DEF Rows, Cause

LEMMA ConflictStep ==
  ASSUME Inv, Conflict, [Next]_vars
  PROVE  Conflict'
<1> SUFFICES ASSUME NEW q \in Request, reply'[q] = "AlreadyExists" \/ status'[q] = 409
             PROVE  Cause(q)'
  BY DEF Conflict
<1>0. TypeOK /\ TypeOK' /\ Coming /\ Table
  BY InvStep DEF Inv
<1> DEFINE Kept ==
      /\ users \subseteq users' /\ resent \subseteq resent'
      /\ name'[q] = name[q] /\ attempts'[q] = attempts[q]
      /\ reply'[q] = "AlreadyExists" => reply[q] = "AlreadyExists"
      /\ status'[q] = 409 => reply[q] = "AlreadyExists" \/ status[q] = 409
<1>1. ASSUME Kept
      PROVE  Cause(q)'
  BY <1>0, <1>1, CauseKept
<1>2. ASSUME NEW r \in Request, NEW k \in {"register", "login"},
             NEW s \in Codes \cup {"Unavailable", "Other"}, Respond(r, k, s),
             s = "AlreadyExists" => reply[r] = "AlreadyExists",
             UNCHANGED <<users, name, attempts, resent>>
      PROVE  Kept
  <2>1. StatusFor(k, s) = 409 => s = "AlreadyExists"
    BY DEF StatusFor
  <2> QED
    BY <1>0, <1>2, <2>1 DEF Respond, TypeOK
<1>3. ASSUME NEW a \in Attempt, Insert(a)
      PROVE  Cause(q)'
  <2>1. CASE /\ Rows(name[a[1]]) # {} /\ Reply(a, "AlreadyExists") /\ UNCHANGED users
             /\ q = a[1] /\ reply'[q] # reply[q]
    <3>1. a = Latest(q) /\ pc[a] = "insert" /\ UNCHANGED <<name, attempts, resent>>
      BY <1>0, <1>3, <2>1, ReplyTyped DEF Insert, Codes, inputVars
    <3>2. PICK u \in Rows(name[q]) : TRUE
      BY <2>1
    <3>3. u \in users /\ (pc[u.id] = "done" \/ u.id \in resent)
      BY <1>0, <3>2 DEF Rows, Table
    <3>4. u.id # Latest(q) \/ u.id \in resent
      BY <3>1, <3>3
    <3> QED
      BY <2>1, <3>1, <3>2, <3>4 DEF Rows, Cause, Latest
  <2>2. CASE ~(/\ Rows(name[a[1]]) # {} /\ Reply(a, "AlreadyExists") /\ UNCHANGED users
               /\ q = a[1] /\ reply'[q] # reply[q])
    <3>1. users \subseteq users' /\ UNCHANGED <<name, attempts, status, resent>>
      BY <1>3 DEF Insert, inputVars
    <3>2. reply'[q] = "AlreadyExists" => reply[q] = "AlreadyExists"
      BY <1>0, <1>3, <2>2, ReplyTyped DEF Insert, Codes
    <3>3. Kept
      BY <1>0, <3>1, <3>2
    <3> QED
      BY <1>1, <3>3
  <2> QED
    BY <2>1, <2>2
<1>12. ASSUME NEW a \in Attempt, InsertAgain(a)
       PROVE  Kept
  BY <1>12 DEF InsertAgain, inputVars
<1>4. ASSUME NEW a \in Attempt, Find(a) \/ StatementFails(a)
      PROVE  Kept
  <2>1. PICK s \in Codes \ {"AlreadyExists"} : Reply(a, s)
    BY <1>4 DEF Find, StatementFails, Codes
  <2>2. UNCHANGED <<users, name, attempts, status, resent>>
    BY <1>4 DEF Find, StatementFails, inputVars
  <2>3. reply'[q] = "AlreadyExists" => reply[q] = "AlreadyExists"
    BY <1>0, <2>1, ReplyTyped
  <2> QED
    BY <1>0, <2>2, <2>3
<1>5. CASE Crash
  BY <1>0, <1>1, <1>5 DEF Crash, inputVars
<1>6. ASSUME NEW r \in Request, Receive(r)
      PROVE  Kept
  <2>1. route[r] \in {"register", "login"} /\ reply[r] \in Codes
    BY <1>0, <1>6 DEF Receive, Coming, TypeOK, Codes
  <2> QED
    BY <1>2, <1>6, <2>1 DEF Receive, inputVars
<1>7. ASSUME NEW r \in Request, Retry(r)
      PROVE  Kept \/ Cause(q)'
  <2>1. CASE q # r
    BY <1>0, <1>7, <2>1 DEF Retry, Arrives, inputVars, TypeOK
  <2>2. CASE q = r
    <3>1. reply'[q] # "AlreadyExists" /\ status'[q] = NoStatus
      BY <1>0, <1>7, <2>2 DEF Retry, Arrives, TypeOK, Coming
    <3> QED
      BY <3>1 DEF NoStatus
  <2> QED
    BY <2>1, <2>2
<1>8. ASSUME NEW r \in Request, GivenUp(r)
      PROVE  Kept
  <2>1. route[r] \in {"register", "login"}
    BY <1>0, <1>8 DEF GivenUp, Coming, TypeOK
  <2> QED
    BY <1>2, <1>8, <2>1 DEF GivenUp, inputVars
<1>9. ASSUME NEW r \in Request, NEW k \in {"register", "login"}, Refused(r, k)
      PROVE  Kept
  BY <1>2, <1>9 DEF Refused, inputVars
<1>10. ASSUME NEW r \in Request, NEW k \in {"register", "login"},
              NEW n \in Name \cup {Bad}, NEW p \in Password \cup {Bad}, Begin(r, k, n, p)
       PROVE  Kept
  <2>1. /\ users' = users /\ status' = status /\ stage[r] = "idle" /\ resent' = resent
        /\ q # r => name'[q] = name[q] /\ attempts'[q] = attempts[q] /\ reply'[q] = reply[q]
        /\ reply'[r] # "AlreadyExists"
    BY <1>0, <1>10 DEF Begin, Receives, Arrives, TypeOK
  <2>2. q # r
    BY <1>0, <2>1 DEF Coming, NoStatus
  <2> QED
    BY <1>0, <2>1, <2>2
<1>11. CASE UNCHANGED vars
  BY <1>0, <1>1, <1>11 DEF vars, inputVars
<1> HIDE DEF Kept
<1> QED
  BY <1>1, <1>3, <1>4, <1>5, <1>6, <1>7, <1>8, <1>9, <1>10, <1>11, <1>12 DEF Next

\* 409 is the truth, for any requests, names, repeats and failures: the name is
\* taken, by another request, by an earlier attempt of the same one, or by the
\* same attempt if its INSERT was executed and then run again.
THEOREM ConflictHasCauseCorrect == Spec => []ConflictHasCause
<1>1. Init => Conflict
  BY DEF Init, Conflict, NoStatus
<1>2. Inv /\ Conflict /\ [Next]_vars => Conflict'
  BY ConflictStep
<1>3. Conflict => ConflictHasCause
  BY DEF Conflict, Cause, ConflictHasCause
<1> QED
  BY InvInit, InvStep, <1>1, <1>2, <1>3, PTL DEF Spec
-----------------------------------------------------------------------------
(* The directory.                                                          *)

\* A request that has not come carries nothing, one that is over was answered,
\* and an attempt that is under way and waited for has not been answered.
Asked ==
  \A r \in Request :
    /\ stage[r] = "idle" => name[r] = Bad /\ password[r] = Bad
    /\ stage[r] = "done" => status[r] # NoStatus
    /\ stage[r] = "calling" /\ pc[Latest(r)] \in {"insert", "find"} => reply[r] = "none"

\* A response leaves its request answered.
LEMMA AskedRespond ==
  ASSUME Inv, Asked, NEW r \in Request, NEW k \in {"register", "login"},
         NEW s \in Codes \cup {"Unavailable", "Other"}, Respond(r, k, s),
         UNCHANGED <<pc, name, password, attempts>>
  PROVE  Asked'
<1>1. StatusFor(k, s) # NoStatus
  BY StatusForTyped
<1>2. /\ stage' = [stage EXCEPT ![r] = "done"]
      /\ status' = [status EXCEPT ![r] = StatusFor(k, s)]
      /\ reply' = [reply EXCEPT ![r] = "none"]
  BY DEF Respond
<1> QED
  BY <1>1, <1>2 DEF Asked, Latest, Inv, TypeOK

\* An attempt that starts is unanswered.
LEMMA AskedArrive ==
  ASSUME Inv, Asked, NEW r \in Request, NEW a \in Attempt, a[1] = r,
         NEW k, NEW n, Arrives(a, k, n),
         stage[r] # "done",
         attempts' = [attempts EXCEPT ![r] = a[2]],
         stage' = [stage EXCEPT ![r] = "calling"],
         \A q \in Request \ {r} : name'[q] = name[q] /\ password'[q] = password[q],
         UNCHANGED status
  PROVE  Asked'
<1>1. a = <<r, a[2]>>
  BY AttemptParts
<1>2. ASSUME NEW q \in Request, q # r
      PROVE  /\ stage'[q] = stage[q] /\ reply'[q] = reply[q]
             /\ Latest(q)' = Latest(q) /\ pc'[Latest(q)] = pc[Latest(q)]
  BY <1>1, <1>2 DEF Arrives, Latest, Inv, TypeOK
<1>3. Latest(r)' = a
  BY <1>1 DEF Latest, Inv, TypeOK
<1>4. stage'[r] = "calling" /\ (pc'[a] \in {"insert", "find"} => reply'[r] = "none")
  BY DEF Arrives, Inv, TypeOK
<1> QED
  BY <1>2, <1>3, <1>4 DEF Asked

LEMMA AskedStep ==
  ASSUME Inv, Asked, [Next]_vars
  PROVE  Asked'
<1>0. TypeOK /\ Coming
  BY DEF Inv
<1>1. ASSUME NEW a \in Attempt, NEW s \in Codes, Reply(a, s),
             UNCHANGED <<stage, name, password, attempts, status>>
      PROVE  Asked'
  <2> SUFFICES ASSUME NEW r \in Request, stage[r] = "calling",
                      pc'[Latest(r)] \in {"insert", "find"}
               PROVE  reply'[r] = "none"
    BY <1>1 DEF Asked, Latest
  <2>1. pc' = [pc EXCEPT ![a] = "done"]
    BY <1>1 DEF Reply
  <2>2. Latest(r) \in Attempt
    BY <1>0, AttemptParts, UsersAssumption DEF Latest, Coming, TypeOK
  <2>3. a # Latest(r) /\ pc[Latest(r)] = pc'[Latest(r)]
    BY <1>0, <2>1, <2>2 DEF TypeOK
  <2>4. reply'[r] = reply[r]
    BY <1>0, <1>1, <2>3, ReplyTyped
  <2> QED
    BY <2>3, <2>4 DEF Asked
<1>10. ASSUME NEW a \in Attempt, InsertAgain(a)
       PROVE  Asked'
  BY <1>10 DEF InsertAgain, Asked, Latest, inputVars
<1>2. ASSUME NEW a \in Attempt, Insert(a) \/ Find(a) \/ StatementFails(a)
      PROVE  Asked'
  <2>1. PICK s \in Codes : Reply(a, s)
    BY <1>2 DEF Insert, Find, StatementFails, Codes
  <2> QED
    BY <1>1, <1>2, <2>1 DEF Insert, Find, StatementFails, inputVars
<1>3. CASE Crash
  <2>1. \A r \in Request : stage[r] = "calling" => Latest(r) \in Attempt
    BY <1>0, AttemptParts, UsersAssumption DEF Latest, Coming, TypeOK
  <2> QED
    BY <1>3, <2>1 DEF Crash, inputVars, Asked, Latest
<1>4. ASSUME NEW r \in Request, Receive(r)
      PROVE  Asked'
  <2>1. route[r] \in {"register", "login"} /\ reply[r] \in Codes
    BY <1>0, <1>4 DEF Receive, Coming, TypeOK, Codes
  <2> QED
    BY <1>4, <2>1, AskedRespond DEF Receive, inputVars
<1>5. ASSUME NEW r \in Request, GivenUp(r)
      PROVE  Asked'
  <2>1. route[r] \in {"register", "login"}
    BY <1>0, <1>5 DEF GivenUp, Coming, TypeOK
  <2> QED
    BY <1>5, <2>1, AskedRespond DEF GivenUp, inputVars
<1>6. ASSUME NEW r \in Request, NEW k \in {"register", "login"}, Refused(r, k)
      PROVE  Asked'
  BY <1>6, AskedRespond DEF Refused, inputVars
<1>7. ASSUME NEW r \in Request, NEW k \in {"register", "login"},
             NEW n, NEW p, Begin(r, k, n, p)
      PROVE  Asked'
  <2>1. <<r, 1>> \in Attempt
    BY AttemptParts, UsersAssumption
  <2>2. stage[r] # "done"
    BY <1>7 DEF Begin, Receives
  <2>3. \A q \in Request \ {r} : name'[q] = name[q] /\ password'[q] = password[q]
    BY <1>0, <1>7 DEF Begin, Receives, TypeOK
  <2> QED
    BY <1>7, <2>1, <2>2, <2>3, AskedArrive DEF Begin
<1>8. ASSUME NEW r \in Request, Retry(r)
      PROVE  Asked'
  <2> DEFINE a == <<r, attempts[r] + 1>>
  <2>1. a \in Attempt /\ a[1] = r /\ a[2] = attempts[r] + 1
    BY <1>0, <1>8, AttemptParts, UsersAssumption DEF Retry, TypeOK
  <2>2. stage' = [stage EXCEPT ![r] = "calling"] /\ stage[r] # "done"
    BY <1>0, <1>8 DEF Retry, TypeOK
  <2>3. /\ Arrives(a, route[r], name[r])
        /\ attempts' = [attempts EXCEPT ![r] = a[2]]
        /\ UNCHANGED <<name, password, status>>
    BY <1>8 DEF Retry, inputVars
  <2> HIDE DEF a
  <2> QED
    BY <2>1, <2>2, <2>3, AskedArrive
<1>9. CASE UNCHANGED vars
  BY <1>9 DEF vars, inputVars, Asked, Latest
<1> QED
  BY <1>2, <1>3, <1>4, <1>5, <1>6, <1>7, <1>8, <1>9, <1>10 DEF Next

DirectoryInv == Inv /\ Asked

LEMMA DirectoryInvAlways == Spec => []DirectoryInv
<1>1. Init => DirectoryInv
  BY InvInit DEF Init, Asked, DirectoryInv, NoStatus
<1>2. DirectoryInv /\ [Next]_vars => DirectoryInv'
  BY InvStep, AskedStep DEF DirectoryInv
<1> QED
  BY <1>1, <1>2, PTL DEF Spec
-----------------------------------------------------------------------------
\* The accounts of a name are its rows.
LEMMA AccountsOf ==
  ASSUME NEW n
  PROVE  /\ Directory!Of(n) = {} <=> Rows(n) = {}
         /\ \A p : (\E x \in Directory!Of(n) : x.password = p) <=>
                   (\E u \in Rows(n) : u.password = p)
<1> DEFINE acc(u) == [owner |-> u.id[1], name |-> u.name, password |-> u.password]
<1>1. \A u : acc(u).name = u.name /\ acc(u).password = u.password
  OBVIOUS
<1>2. Accounts = {acc(u) : u \in users}
  BY DEF Accounts
<1> HIDE DEF acc
<1>3. \A x \in Directory!Of(n) : \E u \in Rows(n) : x = acc(u)
  BY <1>1, <1>2 DEF Directory!Of, Rows
<1>4. \A u \in Rows(n) : acc(u) \in Directory!Of(n)
  BY <1>1, <1>2 DEF Directory!Of, Rows
<1> QED
  BY <1>1, <1>3, <1>4

\* What the client has been told.
Told == [r \in Request |-> ToldBy(status[r])]
Repeated == {r \in Request : attempts[r] > 1 \/ \E a \in resent : a[1] = r}

\* A status tells the decision, or nothing.
LEMMA ToldTyped ==
  ASSUME NEW k \in {"register", "login"},
         NEW s \in Codes \cup {"Unavailable", "Other"}
  PROVE  ToldBy(StatusFor(k, s)) \in ({s} \cap Codes) \cup {"Internal"}
<1>1. /\ ToldBy(200) = "OK" /\ ToldBy(201) = "OK" /\ ToldBy(400) = "InvalidArgument"
      /\ ToldBy(409) = "AlreadyExists" /\ ToldBy(404) = "NotFound"
      /\ ToldBy(401) = "Unauthenticated"
      /\ ToldBy(500) = "Internal" /\ ToldBy(503) = "Internal"
  BY DEF ToldBy, NoStatus
<1>2. /\ StatusFor(k, s) \in {200, 201} => s = "OK"
      /\ StatusFor(k, s) = 400 => s = "InvalidArgument"
      /\ StatusFor(k, s) = 409 => s = "AlreadyExists"
      /\ StatusFor(k, s) = 404 => s = "NotFound"
      /\ StatusFor(k, s) = 401 => s = "Unauthenticated"
      /\ StatusFor(k, s) \in {200, 201, 400, 401, 404, 409, 500, 503}
  BY DEF StatusFor, Codes
<1> DEFINE h == StatusFor(k, s)
<1> HIDE DEF h
<1>3. ToldBy(h) \in {s, "Internal"}
  BY <1>1, <1>2 DEF h
<1>4. ToldBy(h) = s => s \in Codes
  BY <1>1, <1>2 DEF h, Codes
<1> QED
  BY <1>3, <1>4 DEF h

LEMMA ToldNone ==
  ASSUME NEW h \in Statuses
  PROVE  ToldBy(h) = "none" <=> h = NoStatus
BY DEF ToldBy, Statuses, NoStatus

\* Who has not come, or still waits, has been told nothing.
LEMMA ToldWhen ==
  ASSUME DirectoryInv, NEW r \in Request
  PROVE  Told[r] = "none" <=> stage[r] # "done"
<1>1. status[r] \in Statuses /\ stage[r] \in {"idle", "calling", "done"}
  BY DEF DirectoryInv, Inv, TypeOK, Statuses
<1>2. Told[r] = "none" <=> status[r] = NoStatus
  BY <1>1, ToldNone DEF Told
<1> QED
  BY <1>2 DEF DirectoryInv, Inv, Coming, Asked

\* The statements of an attempt are decisions, or nothing the client sees.
LEMMA DecisionMaps ==
  ASSUME DirectoryInv, NEW a \in Attempt, NEW s \in Codes, Reply(a, s),
         pc[a] \in {"insert", "find"},
         UNCHANGED <<inputVars, stage, attempts, status, resent>>
  PROVE  /\ UNCHANGED <<Directory!wishVars, Told, Repeated>>
         /\ (UNCHANGED reply) \/ Directory!Decide(a[1], s)
         /\ \/ a = Latest(a[1]) /\ stage[a[1]] = "calling"
            \/ a[1] \in Repeated
            \/ Told[a[1]] # "none"
<1> DEFINE r == a[1]
<1>0. TypeOK /\ Coming /\ Asked /\ r \in Request /\ name[r] # Bad
  BY AttemptParts, UsersAssumption DEF DirectoryInv, Inv, Coming
<1>1. UNCHANGED <<route, name, password, Told, Repeated>>
  BY DEF inputVars, Told, Repeated
<1>2. CASE a = Latest(r) /\ stage[r] = "calling"
  <2>1. reply[r] = "none" /\ Told[r] = "none"
    BY <1>0, <1>2, ToldWhen DEF Asked
  <2>2. reply' = [reply EXCEPT ![r] = s]
    BY <1>2 DEF Reply
  <2>3. Directory!Decide(r, s)
    BY <1>0, <2>1, <2>2 DEF Directory!Decide, Told
  <2> QED
    BY <1>1, <1>2, <2>3 DEF Directory!wishVars
<1>3. CASE ~(a = Latest(r) /\ stage[r] = "calling")
  <2>1. reply' = reply
    BY <1>3 DEF Reply
  <2>2. r \in Repeated \/ Told[r] # "none"
    <3>1. CASE stage[r] = "calling"
      <4>1. a # <<r, attempts[r]>> /\ a = <<r, a[2]>> /\ a[2] \in 1..MaxAttempts
            /\ a[2] <= attempts[r] /\ attempts[r] \in 0..MaxAttempts
        BY <1>0, <1>3, <3>1, AttemptParts DEF Latest, Coming, TypeOK
      <4>2. attempts[r] > 1
        BY <4>1, UsersAssumption
      <4> QED
        BY <1>0, <4>2 DEF Repeated
    <3>2. CASE stage[r] # "calling"
      <4>1. stage[r] = "done"
        BY <1>0, <3>2 DEF Coming, TypeOK
      <4> QED
        BY <1>0, <4>1, ToldWhen
    <3> QED
      BY <3>1, <3>2
  <2> QED
    BY <1>1, <2>1, <2>2 DEF Directory!wishVars
<1> QED
  BY <1>2, <1>3

\* A new row is a new account.
LEMMA AccountAdded ==
  ASSUME NEW a \in Attempt, users' = users \cup {Row(a)}
  PROVE  Accounts' = Accounts \cup
           {[owner |-> a[1], name |-> name[a[1]], password |-> password[a[1]]]}
<1> DEFINE acc(u) == [owner |-> u.id[1], name |-> u.name, password |-> u.password]
<1>1. acc(Row(a)) = [owner |-> a[1], name |-> name[a[1]], password |-> password[a[1]]]
  BY DEF Row
<1>2. Accounts = {acc(u) : u \in users} /\ Accounts' = {acc(u) : u \in users'}
  BY DEF Accounts
<1> HIDE DEF acc
<1> QED
  BY <1>1, <1>2

\* An INSERT registers, or finds a conflict.
LEMMA InsertMaps ==
  ASSUME DirectoryInv, NEW a \in Attempt, Insert(a)
  PROVE  Directory!Next \/ UNCHANGED Directory!directoryVars
<1> DEFINE r == a[1]
<1>0. r \in Request /\ route[r] = "register" /\ name[r] # Bad
  BY AttemptParts, UsersAssumption DEF DirectoryInv, Inv, Coming, Insert
<1>1. pc[a] \in {"insert", "find"} /\ UNCHANGED <<inputVars, stage, attempts, status, resent>>
  BY DEF Insert
<1>2. CASE Rows(name[r]) = {}
  <2>1. PICK s \in {"OK", "Internal"} : Reply(a, s)
    BY <1>2 DEF Insert
  <2>2. /\ UNCHANGED <<Directory!wishVars, Told, Repeated>>
        /\ (UNCHANGED reply) \/ Directory!Decide(r, s)
        /\ \/ a = Latest(r) /\ stage[r] = "calling"
           \/ r \in Repeated
           \/ Told[r] # "none"
    BY <1>1, <2>1, DecisionMaps DEF Codes
  <2>3. Accounts' = Accounts \cup
          {[owner |-> r, name |-> name[r], password |-> password[r]]}
    BY <1>2, AccountAdded DEF Insert
  <2>4. Directory!Of(name[r]) = {}
    BY <1>2, AccountsOf
  <2>5. \/ \E v \in {"OK", "Internal"} : Directory!Decide(r, v)
        \/ (r \in Repeated \/ Told[r] # "none") /\ (UNCHANGED reply)
    <3>1. CASE Directory!Decide(r, s)
      BY <3>1
    <3>2. CASE UNCHANGED reply /\ ~Directory!Decide(r, s)
      <4>1. ~(a = Latest(r) /\ stage[r] = "calling")
        <5> SUFFICES ASSUME a = Latest(r), stage[r] = "calling" PROVE FALSE
          OBVIOUS
        <5>1. reply' = [reply EXCEPT ![r] = s] /\ reply[r] = "none"
          BY <1>0, <1>1, <2>1 DEF Reply, DirectoryInv, Asked
        <5> QED
          BY <1>0, <3>2, <5>1 DEF DirectoryInv, Inv, TypeOK
      <4> QED
        BY <2>2, <3>2, <4>1
    <3> QED
      BY <2>2, <3>1, <3>2
  <2>6. Directory!Register(r)
    BY <1>0, <2>2, <2>3, <2>4, <2>5 DEF Directory!Register, Told, Repeated
  <2> QED
    BY <1>0, <2>6 DEF Directory!Next
<1>3. CASE Rows(name[r]) # {}
  <2>1. PICK s \in {"AlreadyExists", "Internal"} : Reply(a, s)
    BY <1>3 DEF Insert
  <2>2. /\ UNCHANGED <<Directory!wishVars, Told, Repeated>>
        /\ (UNCHANGED reply) \/ Directory!Decide(r, s)
    BY <1>1, <2>1, DecisionMaps DEF Codes
  <2>3. UNCHANGED Accounts
    BY <1>3 DEF Insert, Accounts
  <2>4. Directory!Of(name[r]) # {}
    BY <1>3, AccountsOf
  <2>5. CASE UNCHANGED reply
    BY <2>2, <2>3, <2>5 DEF Directory!directoryVars, Told, Repeated
  <2>6. CASE Directory!Decide(r, "AlreadyExists")
    <3>1. Directory!Conflict(r)
      BY <1>0, <2>2, <2>3, <2>4, <2>6 DEF Directory!Conflict, Told, Repeated
    <3> QED
      BY <1>0, <3>1 DEF Directory!Next
  <2>7. CASE Directory!Decide(r, "Internal")
    <3>1. Directory!Fail(r)
      BY <2>2, <2>3, <2>7 DEF Directory!Fail, Told, Repeated
    <3> QED
      BY <1>0, <3>1 DEF Directory!Next
  <2> QED
    BY <2>1, <2>2, <2>5, <2>6, <2>7
<1> QED
  BY <1>2, <1>3

\* An INSERT that is run again after it was executed registers.
LEMMA InsertAgainMaps ==
  ASSUME DirectoryInv, NEW a \in Attempt, InsertAgain(a)
  PROVE  Directory!Next
<1> DEFINE r == a[1]
<1>1. r \in Request /\ route[r] = "register" /\ name[r] # Bad
  BY AttemptParts, UsersAssumption DEF DirectoryInv, Inv, Coming, InsertAgain
<1>2. Accounts' = Accounts \cup
        {[owner |-> r, name |-> name[r], password |-> password[r]]}
  BY AccountAdded DEF InsertAgain
<1>3. Directory!Of(name[r]) = {}
  BY AccountsOf DEF InsertAgain
<1>4. Repeated' = Repeated \cup {r}
  BY <1>1 DEF InsertAgain, Repeated
<1>5. UNCHANGED <<Directory!wishVars, Told, reply>>
  BY DEF InsertAgain, inputVars, Directory!wishVars, Told
<1>6. Directory!Register(r)
  BY <1>1, <1>2, <1>3, <1>4, <1>5 DEF Directory!Register, Told, Repeated
<1> QED
  BY <1>1, <1>6 DEF Directory!Next

\* A SELECT decides a login.
LEMMA FindMaps ==
  ASSUME DirectoryInv, NEW a \in Attempt, Find(a)
  PROVE  Directory!Next \/ UNCHANGED Directory!directoryVars
<1> DEFINE r == a[1]
           v == IF Rows(name[r]) = {} THEN "NotFound"
                ELSE IF \E u \in Rows(name[r]) : u.password = password[r] THEN "OK"
                ELSE "Unauthenticated"
<1>0. r \in Request /\ route[r] = "login"
  BY AttemptParts DEF DirectoryInv, Inv, Coming, Find
<1>1. /\ pc[a] \in {"insert", "find"} /\ v \in Codes /\ Reply(a, v)
      /\ UNCHANGED <<inputVars, stage, attempts, status, resent>>
      /\ UNCHANGED Accounts
  BY DEF Find, Accounts, Codes
<1>2. v = IF Directory!Of(name[r]) = {} THEN "NotFound"
          ELSE IF \E x \in Directory!Of(name[r]) : x.password = password[r] THEN "OK"
          ELSE "Unauthenticated"
  BY AccountsOf
<1> HIDE DEF v
<1>3. /\ UNCHANGED <<Directory!wishVars, Told, Repeated>>
      /\ (UNCHANGED reply) \/ Directory!Decide(r, v)
  BY <1>1, DecisionMaps
<1>4. CASE UNCHANGED reply
  BY <1>1, <1>3, <1>4 DEF Directory!directoryVars, Told, Repeated
<1>5. CASE Directory!Decide(r, v)
  <2>1. Directory!Login(r)
    BY <1>0, <1>1, <1>2, <1>3, <1>5 DEF Directory!Login, Told, Repeated
  <2> QED
    BY <1>0, <2>1 DEF Directory!Next
<1> QED
  BY <1>3, <1>4, <1>5

LEMMA StatementFailsMaps ==
  ASSUME DirectoryInv, NEW a \in Attempt, StatementFails(a)
  PROVE  Directory!Next \/ UNCHANGED Directory!directoryVars
<1> DEFINE r == a[1]
<1>0. r \in Request
  BY AttemptParts
<1>1. UNCHANGED Accounts
  BY DEF StatementFails, Accounts
<1>2. /\ UNCHANGED <<Directory!wishVars, Told, Repeated>>
      /\ (UNCHANGED reply) \/ Directory!Decide(r, "Internal")
  BY DecisionMaps DEF StatementFails, Codes
<1>3. CASE UNCHANGED reply
  BY <1>1, <1>2, <1>3 DEF Directory!directoryVars, Told, Repeated
<1>4. CASE Directory!Decide(r, "Internal")
  <2>1. Directory!Fail(r)
    BY <1>1, <1>2, <1>4 DEF Directory!Fail, Told, Repeated
  <2> QED
    BY <1>0, <2>1 DEF Directory!Next
<1> QED
  BY <1>2, <1>3, <1>4

\* A response tells the decision, or an error.
LEMMA RespondMaps ==
  ASSUME DirectoryInv, NEW r \in Request, NEW k \in {"register", "login"},
         NEW s \in Codes \cup {"Unavailable", "Other"}, Respond(r, k, s),
         stage[r] # "done", s \in Codes => s = reply[r],
         UNCHANGED <<users, pc, inputVars, attempts, resent>>
  PROVE  Directory!Next
<1>0. TypeOK /\ Told[r] = "none"
  BY ToldWhen DEF DirectoryInv, Inv
<1>1. /\ reply' = [reply EXCEPT ![r] = "none"]
      /\ status' = [status EXCEPT ![r] = StatusFor(k, s)]
  BY DEF Respond
<1>2. ToldBy(StatusFor(k, s)) \in {reply[r], "Internal"} \ {"none"}
  BY ToldTyped DEF Codes
<1> DEFINE v == ToldBy(StatusFor(k, s))
<1>3. Told' = [Told EXCEPT ![r] = v]
  BY <1>0, <1>1 DEF Told, TypeOK
<1>4. UNCHANGED <<Accounts, Directory!wishVars, Repeated>>
  BY DEF Accounts, Directory!wishVars, Repeated, inputVars
<1> HIDE DEF v
<1>5. Directory!Tell(r)
  BY <1>0, <1>1, <1>2, <1>3, <1>4 DEF Directory!Tell, Told, Repeated, v
<1> QED
  BY <1>5 DEF Directory!Next

LEMMA BeginMaps ==
  ASSUME DirectoryInv, NEW r \in Request, NEW k \in {"register", "login"},
         NEW n, NEW p, (n \in Name /\ p \in Password) \/ (n = Bad /\ p = Bad),
         Begin(r, k, n, p)
  PROVE  Directory!Next
<1>0. TypeOK /\ stage[r] = "idle" /\ Told[r] = "none"
  BY ToldWhen DEF DirectoryInv, Inv, Begin, Receives
<1>1. /\ route[r] = "none" /\ name[r] = Bad /\ password[r] = Bad /\ reply[r] = "none"
      /\ attempts[r] = 0
  BY <1>0 DEF DirectoryInv, Inv, Coming, Asked
<1>2. /\ route' = [route EXCEPT ![r] = k]
      /\ name' = [name EXCEPT ![r] = n]
      /\ password' = [password EXCEPT ![r] = p]
      /\ reply' = [reply EXCEPT ![r] = IF n = Bad THEN "InvalidArgument" ELSE "none"]
  BY DEF Begin, Receives, Arrives
<1>3. UNCHANGED <<Accounts, Told, Repeated>>
  BY <1>0, <1>1 DEF Begin, Arrives, Accounts, Told, Repeated, TypeOK
<1>4. CASE n = Bad /\ p = Bad
  <2>1. UNCHANGED <<name, password>>
    BY <1>0, <1>1, <1>2, <1>4 DEF TypeOK
  <2>2. Directory!Ask(r)
    BY <1>0, <1>1, <1>2, <1>3, <1>4, <2>1 DEF Directory!Ask, Told, Repeated
  <2> QED
    BY <2>2 DEF Directory!Next
<1>5. CASE n \in Name /\ p \in Password
  <2>1. UNCHANGED reply
    BY <1>0, <1>1, <1>2, <1>5, UsersAssumption DEF TypeOK
  <2>2. Directory!Ask(r)
    BY <1>0, <1>1, <1>2, <1>3, <1>5, <2>1 DEF Directory!Ask, Told, Repeated
  <2> QED
    BY <2>2 DEF Directory!Next
<1> QED
  BY <1>4, <1>5

LEMMA RetryMaps ==
  ASSUME DirectoryInv, NEW r \in Request, Retry(r)
  PROVE  Directory!Next
<1>0. /\ TypeOK /\ Told[r] = "none" /\ route[r] # "none" /\ attempts[r] > 0
  BY ToldWhen DEF DirectoryInv, Inv, Coming, Retry
<1>1. reply' = [reply EXCEPT ![r] = IF name[r] = Bad THEN "InvalidArgument" ELSE "none"]
  BY DEF Retry, Arrives
<1>2. UNCHANGED <<Accounts, Directory!wishVars, Told>>
  BY DEF Retry, Arrives, Accounts, Directory!wishVars, Told, inputVars
<1>3. Repeated' = Repeated \cup {r}
  BY <1>0, UsersAssumption DEF Retry, Repeated, TypeOK
<1>4. Directory!Repeat(r)
  BY <1>0, <1>1, <1>2, <1>3 DEF Directory!Repeat, Told, Repeated
<1> QED
  BY <1>4 DEF Directory!Next

LEMMA DirectoryStep ==
  ASSUME DirectoryInv, [Next]_vars
  PROVE  [Directory!Next]_(Directory!directoryVars)
<1>0. TypeOK /\ Coming
  BY DEF DirectoryInv, Inv
<1>1. ASSUME NEW r \in Request, Receive(r)
      PROVE  Directory!Next
  <2>1. route[r] \in {"register", "login"} /\ reply[r] \in Codes /\ stage[r] # "done"
    BY <1>0, <1>1 DEF Receive, Coming, TypeOK, Codes
  <2> QED
    BY <1>1, <2>1, RespondMaps DEF Receive
<1>2. ASSUME NEW r \in Request, GivenUp(r)
      PROVE  Directory!Next
  <2>1. route[r] \in {"register", "login"} /\ stage[r] # "done"
    BY <1>0, <1>2 DEF GivenUp, Coming, TypeOK
  <2> QED
    BY <1>2, <2>1, RespondMaps DEF GivenUp, Codes
<1>3. ASSUME NEW r \in Request, NEW k \in {"register", "login"}, Refused(r, k)
      PROVE  Directory!Next
  BY <1>3, RespondMaps DEF Refused, Codes
<1>4. CASE Crash
  BY <1>4 DEF Crash, Directory!directoryVars, Directory!wishVars, Accounts, inputVars
<1>5. CASE UNCHANGED vars
  BY <1>5 DEF vars, Directory!directoryVars, Directory!wishVars, Accounts, inputVars
<1>6. ASSUME NEW r \in Request, Retry(r)
      PROVE  Directory!Next
  BY <1>6, RetryMaps
<1>7. ASSUME NEW a \in Attempt, Insert(a) \/ InsertAgain(a) \/ Find(a) \/ StatementFails(a)
      PROVE  Directory!Next \/ UNCHANGED Directory!directoryVars
  BY <1>7, InsertMaps, InsertAgainMaps, FindMaps, StatementFailsMaps
<1>8. ASSUME NEW r \in Request, NEW k \in {"register", "login"},
             \/ Begin(r, k, Bad, Bad)
             \/ \E n \in Name, p \in Password : Begin(r, k, n, p)
      PROVE  Directory!Next
  <2>1. CASE Begin(r, k, Bad, Bad)
    BY <2>1, BeginMaps
  <2>2. ASSUME NEW n \in Name, NEW p \in Password, Begin(r, k, n, p)
        PROVE  Directory!Next
    BY <2>2, BeginMaps
  <2> QED
    BY <1>8, <2>1, <2>2
<1>9. CASE Next
  BY <1>1, <1>2, <1>3, <1>4, <1>6, <1>7, <1>8, <1>9 DEF Next
<1> QED
  BY <1>5, <1>9

LEMMA DirectoryStarts == Init => Directory!Init
BY DEF Init, Directory!Init, Accounts, ToldBy, NoStatus

\* The user service is a directory that answers in one step, for any number of
\* requests, repeats and names: an attempt is decided by its statement, which
\* its client is told, or is never told of.
THEOREM DirectoryImplemented == Spec => ImplementsDirectory
BY DirectoryStarts, DirectoryStep, DirectoryInvAlways, PTL
   DEF Spec, ImplementsDirectory, Directory!Spec
=============================================================================
