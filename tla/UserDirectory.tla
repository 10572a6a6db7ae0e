--------------------------- MODULE UserDirectory ---------------------------
(***************************************************************************)
(* What registration and login promise to clients, whatever becomes of     *)
(* their RPCs: a directory that answers every question in one step between *)
(* the request and its response. An account, once there, stays, and its    *)
(* name is taken for ever. A client may be left without an answer; then,   *)
(* and when its question was put or looked at more than once, a            *)
(* registration may take effect without anybody being told.                *)
(***************************************************************************)
CONSTANTS
  Request,     \* requests of clients
  Name,        \* names
  Password,    \* passwords
  Bad          \* a name and password that are not admissible

VARIABLES
  accounts,    \* the accounts, each with the request that created it
  route,       \* route[r]: "none", "register" or "login"
  name,        \* name[r], password[r]: what r asks it for
  password,
  reply,       \* reply[r]: the decision about it, not told yet
  told,        \* told[r]: what its client was told
  repeated     \* requests whose question was put or looked at more than once

wishVars == <<route, name, password>>
directoryVars == <<accounts, wishVars, reply, told, repeated>>

Init ==
  /\ accounts = {}
  /\ route = [r \in Request |-> "none"]
  /\ name = [r \in Request |-> Bad]
  /\ password = [r \in Request |-> Bad]
  /\ reply = [r \in Request |-> "none"]
  /\ told = [r \in Request |-> "none"]
  /\ repeated = {}
-----------------------------------------------------------------------------
Of(n) == {x \in accounts : x.name = n}

\* A wish that is not admissible is refused at once.
Ask(r) ==
  /\ route[r] = "none" /\ told[r] = "none"
  /\ \E k \in {"register", "login"} : route' = [route EXCEPT ![r] = k]
  /\ \/ \E n \in Name, p \in Password :
          /\ name' = [name EXCEPT ![r] = n]
          /\ password' = [password EXCEPT ![r] = p]
          /\ UNCHANGED reply
     \/ /\ reply' = [reply EXCEPT ![r] = "InvalidArgument"]
        /\ UNCHANGED <<name, password>>
  /\ UNCHANGED <<accounts, told, repeated>>

\* The decision, if there was one, is not heard; the question is put again.
Repeat(r) ==
  /\ route[r] # "none" /\ told[r] = "none"
  /\ reply' = [reply EXCEPT ![r] = IF name[r] = Bad THEN "InvalidArgument" ELSE "none"]
  /\ repeated' = repeated \cup {r}
  /\ UNCHANGED <<accounts, wishVars, told>>

\* r waits, and what it asks for is decided now.
Decide(r, v) ==
  /\ reply[r] = "none" /\ told[r] = "none" /\ name[r] # Bad
  /\ reply' = [reply EXCEPT ![r] = v]

\* The account of r is created; its client will be told so, or hears of an
\* error, or of nothing at all, and the question may be looked at again.
Register(r) ==
  /\ route[r] = "register" /\ name[r] # Bad
  /\ Of(name[r]) = {}
  /\ accounts' = accounts \cup
       {[owner |-> r, name |-> name[r], password |-> password[r]]}
  /\ \/ (\E v \in {"OK", "Internal"} : Decide(r, v)) /\ UNCHANGED repeated
     \/ /\ repeated' \in {repeated, repeated \cup {r}}
        /\ r \in repeated' \/ told[r] # "none"
        /\ UNCHANGED reply
  /\ UNCHANGED <<wishVars, told>>

Conflict(r) ==
  /\ route[r] = "register"
  /\ Of(name[r]) # {}
  /\ Decide(r, "AlreadyExists")
  /\ UNCHANGED <<accounts, wishVars, told, repeated>>

Login(r) ==
  /\ route[r] = "login"
  /\ Decide(r, IF Of(name[r]) = {} THEN "NotFound"
               ELSE IF \E x \in Of(name[r]) : x.password = password[r] THEN "OK"
               ELSE "Unauthenticated")
  /\ UNCHANGED <<accounts, wishVars, told, repeated>>

Fail(r) ==
  /\ Decide(r, "Internal")
  /\ UNCHANGED <<accounts, wishVars, told, repeated>>

\* The client is told the decision, or of an error, which says nothing. A
\* request may be turned away before it asks.
Tell(r) ==
  /\ told[r] = "none"
  /\ \E v \in {reply[r], "Internal"} \ {"none"} : told' = [told EXCEPT ![r] = v]
  /\ reply' = [reply EXCEPT ![r] = "none"]
  /\ UNCHANGED <<accounts, wishVars, repeated>>

Next ==
  \E r \in Request :
    Ask(r) \/ Repeat(r) \/ Register(r) \/ Conflict(r) \/ Login(r) \/ Fail(r) \/ Tell(r)

Spec == Init /\ [][Next]_directoryVars
=============================================================================
