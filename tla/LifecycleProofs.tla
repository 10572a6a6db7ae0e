-------------------------- MODULE LifecycleProofs --------------------------
(* Theorems about Lifecycle and RequestPath, for every set of requests and *)
(* every choice of programs: the request path is treated first, then main  *)
(* and its goroutines.                                                     *)
EXTENDS Lifecycle, FiniteSetTheorems, SequenceTheorems, TLAPS

AllServers == {"rest", "metrics", "grpc"}
Codes == {"none", "ok", "failed", "timeout", "internal"}

-----------------------------------------------------------------------------
(* Requests.                                                               *)

PathTyped ==
  /\ on \in [Request -> {"none"} \cup AllServers]
  /\ phase \in [Request -> {"none", "inside", "over", "cut"}]
  /\ late \subseteq Request
  /\ status \in [Request -> Codes]
  /\ wire \in [Request -> Codes]
  /\ counted \in [Request -> Codes]
  /\ panicked \subseteq Request

\* A REST request has one status at the ResponseWriter and on the wire, until
\* it panics; metrics counts it when it returns.
Observed ==
  \A r \in Request :
    /\ phase[r] = "none" =>
         wire[r] = "none" /\ status[r] = "none" /\ counted[r] = "none" /\ r \notin panicked
    /\ on[r] = "rest" /\ phase[r] \in {"inside", "cut"} =>
         status[r] = wire[r] /\ counted[r] = "none" /\ r \notin panicked
    /\ on[r] = "rest" /\ phase[r] = "over" =>
         /\ wire[r] # "none"
         /\ r \notin panicked => counted[r] = wire[r] /\ status[r] = wire[r]
         /\ r \in panicked => counted[r] = "none"

\* The requests that the gauge counts.
Gauged == {r \in Request : on[r] = "rest" /\ phase[r] \in {"inside", "cut"}}

\* Finitely many have come so far.
GaugeOK == IsFiniteSet(Gauged) /\ active = Cardinality(Gauged)

PathInv == PathTyped /\ Observed /\ GaugeOK

\* The end of the process cuts what is inside.
Cut ==
  /\ phase' = [r \in Request |-> IF phase[r] = "inside" THEN "cut" ELSE phase[r]]
  /\ UNCHANGED <<on, late, status, wire, counted, panicked, active>>

LEMMA NoneGauged == \A r \in Request : phase[r] = "none" => r \notin Gauged
BY DEF Gauged

LEMMA PathInvInit ==
  ASSUME PathInit
  PROVE  PathInv
<1>1. Gauged = {}
  BY DEF PathInit, Gauged
<1>2. GaugeOK
  BY <1>1, FS_EmptySet DEF PathInit, GaugeOK
<1>3. PathTyped /\ Observed
  BY DEF PathInit, PathTyped, Observed, Codes
<1> QED
  BY <1>2, <1>3 DEF PathInv

LEMMA PathInvReset ==
  ASSUME PathReset
  PROVE  PathInv'
<1>1. Gauged' = {}
  BY DEF PathReset, Gauged
<1>2. GaugeOK'
  BY <1>1, FS_EmptySet DEF PathReset, GaugeOK
<1>3. PathTyped' /\ Observed'
  BY DEF PathReset, PathTyped, Observed, Codes
<1> QED
  BY <1>2, <1>3 DEF PathInv

\* The gauge goes with the requests inside.
LEMMA GaugeUp ==
  ASSUME GaugeOK, NEW r \in Request, r \notin Gauged, Gauged' = Gauged \cup {r},
         active' = active + 1
  PROVE  GaugeOK'
BY FS_AddElement DEF GaugeOK

LEMMA GaugeDown ==
  ASSUME GaugeOK, NEW r \in Gauged, Gauged' = Gauged \ {r}, active' = active - 1
  PROVE  GaugeOK'
BY FS_RemoveElement DEF GaugeOK

LEMMA GaugeStays ==
  ASSUME GaugeOK, Gauged' = Gauged, active' = active
  PROVE  GaugeOK'
BY DEF GaugeOK

LEMMA EnterKeeps ==
  ASSUME PathInv, NEW r \in Request, NEW s \in AllServers, Enter(r, s)
  PROVE  PathInv'
<1> USE DEF PathInv
<1>1. PathTyped' /\ Observed'
  BY DEF PathTyped, Observed, Enter, AllServers
<1>2. CASE s = "rest"
  <2>1. r \notin Gauged /\ Gauged' = Gauged \cup {r}
    BY <1>2 DEF Gauged, Enter, PathTyped
  <2> QED
    BY <1>1, <1>2, <2>1, GaugeUp DEF Enter
<1>3. CASE s # "rest"
  <2>1. Gauged' = Gauged
    BY <1>3 DEF Gauged, Enter, PathTyped
  <2> QED
    BY <1>1, <1>3, <2>1, GaugeStays DEF Enter
<1> QED
  BY <1>2, <1>3

LEMMA CutKeeps ==
  ASSUME PathInv, Cut
  PROVE  PathInv'
<1> USE DEF PathInv
<1>1. PathTyped' /\ Observed'
  BY DEF PathTyped, Observed, Cut
<1>2. Gauged' = Gauged
  BY DEF Gauged, Cut, PathTyped
<1> QED
  BY <1>1, <1>2, GaugeStays DEF Cut

LEMMA HandleKeeps ==
  ASSUME PathInv, NEW r \in Request, Handle(r)
  PROVE  PathInv'
<1> USE DEF PathInv
<1>1. CASE Write(r)
  <2>1. PathTyped' /\ Observed'
    BY <1>1 DEF PathTyped, Observed, Write, WriteHeader, Inside, Codes
  <2>2. Gauged' = Gauged
    BY <1>1 DEF Gauged, Write
  <2> QED
    BY <1>1, <2>1, <2>2, GaugeStays DEF Write
<1>2. CASE Deadline(r)
  <2>1. PathTyped' /\ Observed'
    BY <1>2 DEF PathTyped, Observed, Deadline
  <2>2. Gauged' = Gauged
    BY <1>2 DEF Gauged, Deadline
  <2> QED
    BY <1>2, <2>1, <2>2, GaugeStays DEF Deadline
<1>3. CASE RestReturns(r)
  <2>1. /\ wire[r] # "none" /\ UNCHANGED <<status, wire, on, late, panicked>>
        /\ phase' = [phase EXCEPT ![r] = "over"]
        /\ counted' = [counted EXCEPT ![r] = status[r]]
        /\ active' = active - 1 /\ Inside(r, "rest")
    BY <1>3 DEF RestReturns, WriteHeader
  <2>2. PathTyped' /\ Observed'
    BY <2>1 DEF PathTyped, Observed, Inside
  <2>3. r \in Gauged /\ Gauged' = Gauged \ {r}
    BY <2>1 DEF Gauged, Inside, PathTyped
  <2> QED
    BY <2>1, <2>2, <2>3, GaugeDown
<1>4. CASE RestPanics(r)
  <2>1. PathTyped'
    BY <1>4 DEF RestPanics, WriteHeader, PathTyped, Codes
  <2>2. Observed'
    BY <1>4 DEF RestPanics, WriteHeader, PathTyped, Observed, Inside, Codes
  <2>3. r \in Gauged /\ Gauged' = Gauged \ {r}
    BY <1>4 DEF Gauged, Inside, PathTyped, RestPanics
  <2> QED
    BY <1>4, <2>1, <2>2, <2>3, GaugeDown DEF RestPanics
<1>5. CASE RpcEnds(r)
  <2>1. PathTyped' /\ Observed'
    BY <1>5 DEF PathTyped, Observed, RpcEnds, Inside, Codes
  <2>2. Gauged' = Gauged
    BY <1>5 DEF Gauged, RpcEnds, Inside, PathTyped
  <2> QED
    BY <1>5, <2>1, <2>2, GaugeStays DEF RpcEnds
<1>6. CASE ScrapeEnds(r)
  <2>1. PathTyped' /\ Observed'
    BY <1>6 DEF PathTyped, Observed, ScrapeEnds, Inside, Codes
  <2>2. Gauged' = Gauged
    BY <1>6 DEF Gauged, ScrapeEnds, Inside, PathTyped
  <2> QED
    BY <1>6, <2>1, <2>2, GaugeStays DEF ScrapeEnds
<1> QED
  BY <1>1, <1>2, <1>3, <1>4, <1>5, <1>6 DEF Handle
-----------------------------------------------------------------------------
(* The stages of the mains.                                                *)

\* What is open before stage n.
OpenedBy(n) ==
  IF program = "gateway"
    THEN IF n <= 3 THEN <<>>
         ELSE IF n <= 6 THEN <<"redis">>
         ELSE IF n <= 7 THEN <<"redis", "authClient">>
         ELSE <<"redis", "authClient", "userClient">>
    ELSE IF n <= (IF program = "auth" THEN 3 ELSE 5) THEN <<>> ELSE <<"storage">>

\* No server is started before this stage is over.
FirstServer == IF program = "gateway" THEN 8 ELSE IF program = "auth" THEN 5 ELSE 7

LEMMA ProgramIs ==
  ASSUME program \in Programs
  PROVE  program \in {"gateway", "auth", "user"}
BY ProgramsAssumption

LEMMA StagesAre ==
  ASSUME program \in Programs
  PROVE  /\ program = "gateway" => Stages = GatewayStages /\ Len(Stages) = 9
         /\ program = "auth" => Stages = AuthStages /\ Len(Stages) = 5
         /\ program = "user" => Stages = UserStages /\ Len(Stages) = 7
<1>1. CASE program = "gateway"
  BY <1>1 DEF Stages, GatewayStages
<1>2. CASE program = "auth"
  BY <1>2 DEF Stages, AuthStages
<1>3. CASE program = "user"
  BY <1>3 DEF Stages, UserStages
<1> QED
  BY <1>1, <1>2, <1>3

\* Where the stages are that open something, touch the schema or start a server.
LEMMA StageIs ==
  ASSUME program \in Programs, NEW n \in 1..Len(Stages)
  PROVE  /\ Stages[n] \in {"config", "ping", "creds"} =>
              OpenedBy(n + 1) = OpenedBy(n) /\ n < FirstServer
         /\ Stages[n] \in {"redis", "storage", "authClient", "userClient"} =>
              OpenedBy(n + 1) = Append(OpenedBy(n), Stages[n]) /\ n < FirstServer
         /\ Stages[n] = "migrate" => program = "user" /\ n = 3 /\ OpenedBy(n + 2) = OpenedBy(n)
         /\ Stages[n] = "apply" => program = "user" /\ n = 4
         /\ Stages[n] \in {"migrate", "apply"} => OpenedBy(n + 1) = OpenedBy(n) /\ n < FirstServer
         /\ program = "user" /\ n = 3 => Stages[n] = "migrate"
         /\ program = "user" /\ n = 4 => Stages[n] = "apply"
         /\ Stages[n] \in {"metrics", "rest", "grpc"} =>
              /\ OpenedBy(n + 1) = OpenedBy(n)
              /\ n >= FirstServer
              /\ Stages[n] \in Servers
              /\ IF Stages[n] = "rest" THEN n = Len(Stages) ELSE n = FirstServer
         /\ n = Len(Stages) /\ "grpc" \in Servers => Stages[n] = "grpc"
         /\ n < FirstServer => Stages[n] \notin {"metrics", "rest", "grpc"}
<1> DEFINE Is(st) == Stages[n] = st
           Keeps == OpenedBy(n + 1) = OpenedBy(n)
           Adds(st) == OpenedBy(n + 1) = Append(OpenedBy(n), st)
<1>1. CASE program = "gateway"
  <2>1. Stages = GatewayStages /\ Len(Stages) = 9 /\ FirstServer = 8 /\ Servers = {"metrics", "rest"}
    BY <1>1, StagesAre DEF FirstServer, Servers
  <2>2. CASE n = 1 \/ n = 2 \/ n = 4 \/ n = 5
    <3>1. Is("config") \/ Is("ping") \/ Is("creds")
      BY <2>1, <2>2 DEF GatewayStages
    <3>2. Keeps
      BY <1>1, <2>2 DEF OpenedBy
    <3> QED
      BY <1>1, <2>1, <2>2, <3>1, <3>2
  <2>3. CASE n = 3
    <3>1. Is("redis") /\ Adds("redis")
      BY <1>1, <2>1, <2>3 DEF GatewayStages, OpenedBy
    <3> QED
      BY <1>1, <2>1, <2>3, <3>1
  <2>4. CASE n = 6
    <3>1. Is("authClient") /\ Adds("authClient")
      BY <1>1, <2>1, <2>4 DEF GatewayStages, OpenedBy
    <3> QED
      BY <1>1, <2>1, <2>4, <3>1
  <2>5. CASE n = 7
    <3>1. Is("userClient") /\ Adds("userClient")
      BY <1>1, <2>1, <2>5 DEF GatewayStages, OpenedBy
    <3> QED
      BY <1>1, <2>1, <2>5, <3>1
  <2>6. CASE n = 8 \/ n = 9
    <3>1. (IF n = 8 THEN Is("metrics") ELSE Is("rest")) /\ Keeps
      BY <1>1, <2>1, <2>6 DEF GatewayStages, OpenedBy
    <3> QED
      BY <1>1, <2>1, <2>6, <3>1
  <2> QED
    BY <2>1, <2>2, <2>3, <2>4, <2>5, <2>6
<1>2. CASE program = "auth"
  <2>1. Stages = AuthStages /\ Len(Stages) = 5 /\ FirstServer = 5 /\ Servers = {"grpc"}
    BY <1>2, StagesAre DEF FirstServer, Servers
  <2>2. CASE n = 1 \/ n = 2 \/ n = 4
    <3>1. (Is("config") \/ Is("ping") \/ Is("creds")) /\ Keeps
      BY <1>2, <2>1, <2>2 DEF AuthStages, OpenedBy
    <3> QED
      BY <1>2, <2>1, <2>2, <3>1
  <2>3. CASE n = 3
    <3>1. Is("storage") /\ Adds("storage")
      BY <1>2, <2>1, <2>3 DEF AuthStages, OpenedBy
    <3> QED
      BY <1>2, <2>1, <2>3, <3>1
  <2>4. CASE n = 5
    <3>1. Is("grpc") /\ Keeps
      BY <1>2, <2>1, <2>4 DEF AuthStages, OpenedBy
    <3> QED
      BY <1>2, <2>1, <2>4, <3>1
  <2> QED
    BY <2>1, <2>2, <2>3, <2>4
<1>3. CASE program = "user"
  <2>1. Stages = UserStages /\ Len(Stages) = 7 /\ FirstServer = 7 /\ Servers = {"grpc"}
    BY <1>3, StagesAre DEF FirstServer, Servers
  <2>2. CASE n = 1 \/ n = 2 \/ n = 6
    <3>1. (Is("config") \/ Is("ping") \/ Is("creds")) /\ Keeps
      BY <1>3, <2>1, <2>2 DEF UserStages, OpenedBy
    <3> QED
      BY <1>3, <2>1, <2>2, <3>1
  <2>3. CASE n = 3 \/ n = 4
    <3>1. (n = 3 => Is("migrate")) /\ (n = 4 => Is("apply")) /\ Keeps
      BY <1>3, <2>1, <2>3 DEF UserStages, OpenedBy
    <3>2. n = 3 => OpenedBy(n + 2) = OpenedBy(n)
      BY <1>3 DEF OpenedBy
    <3> QED
      BY <1>3, <2>1, <2>3, <3>1, <3>2
  <2>4. CASE n = 5
    <3>1. Is("storage") /\ Adds("storage")
      BY <1>3, <2>1, <2>4 DEF UserStages, OpenedBy
    <3> QED
      BY <1>3, <2>1, <2>4, <3>1
  <2>5. CASE n = 7
    <3>1. Is("grpc") /\ Keeps
      BY <1>3, <2>1, <2>5 DEF UserStages, OpenedBy
    <3> QED
      BY <1>3, <2>1, <2>5, <3>1
  <2> QED
    BY <2>1, <2>2, <2>3, <2>4, <2>5
<1> QED
  BY <1>1, <1>2, <1>3, ProgramIs

\* s holds the first of what t holds.
Begins(s, t) ==
  /\ s \in Seq(Clients)
  /\ Len(s) <= Len(t) /\ \A i \in 1..Len(s) : s[i] = t[i]

LEMMA Beginnings ==
  /\ \A t \in Seq(Clients) : Begins(<<>>, t) /\ Begins(t, t)
  /\ \A c, d, e \in Clients :
       Begins(<<c>>, <<c, d, e>>) /\ Begins(<<c, d>>, <<c, d, e>>) /\ <<c, d, e>> \in Seq(Clients)
  /\ \A c \in Clients : <<c>> \in Seq(Clients)
<1>1. \A t \in Seq(Clients) : Begins(<<>>, t) /\ Begins(t, t)
  BY DEF Begins
<1>2. ASSUME NEW c \in Clients, NEW d \in Clients, NEW e \in Clients
      PROVE  Begins(<<c>>, <<c, d, e>>) /\ Begins(<<c, d>>, <<c, d, e>>) /\ <<c, d, e>> \in Seq(Clients)
  <2>1. <<c>> \in Seq(Clients) /\ Len(<<c>>) = 1 /\ <<c>>[1] = c
    OBVIOUS
  <2>2. <<c, d>> \in Seq(Clients) /\ Len(<<c, d>>) = 2 /\ <<c, d>>[1] = c /\ <<c, d>>[2] = d
    OBVIOUS
  <2>3. <<c, d, e>> \in Seq(Clients) /\ Len(<<c, d, e>>) = 3
          /\ <<c, d, e>>[1] = c /\ <<c, d, e>>[2] = d
    OBVIOUS
  <2>4. \A i \in 1..1 : i = 1
    OBVIOUS
  <2>5. \A i \in 1..2 : i = 1 \/ i = 2
    OBVIOUS
  <2>6. Begins(<<c>>, <<c, d, e>>)
    BY <2>1, <2>3, <2>4 DEF Begins
  <2>7. Begins(<<c, d>>, <<c, d, e>>)
    BY <2>2, <2>3, <2>5 DEF Begins
  <2> QED
    BY <2>3, <2>6, <2>7
<1> QED
  BY <1>1, <1>2

\* What is open when servers run is all that main opens.
LEMMA OpenedIs ==
  ASSUME program \in Programs, NEW n \in Nat
  PROVE  /\ n >= FirstServer => OpenedBy(n) = Opened
         /\ Begins(OpenedBy(n), Opened)
         /\ OpenedBy(1) = <<>>
<1>1. n >= FirstServer => OpenedBy(n) = Opened
  BY ProgramIs DEF OpenedBy, Opened, FirstServer
<1>2. OpenedBy(1) = <<>>
  BY DEF OpenedBy
<1>3. {"redis", "storage", "authClient", "userClient"} = Clients
  BY DEF Clients
<1>4. CASE program = "gateway"
  <2>1. /\ Opened = <<"redis", "authClient", "userClient">>
        /\ OpenedBy(n) \in {<<>>, <<"redis">>, <<"redis", "authClient">>, Opened}
    BY <1>4 DEF OpenedBy, Opened
  <2>2. Opened \in Seq(Clients)
    BY <1>3, <2>1, Beginnings
  <2>3. Begins(OpenedBy(n), Opened)
    BY <1>3, <2>1, <2>2, Beginnings
  <2> QED
    BY <1>1, <1>2, <2>3
<1>5. CASE program # "gateway"
  <2>1. OpenedBy(n) \in {<<>>, Opened} /\ Opened = <<"storage">>
    BY <1>5 DEF OpenedBy, Opened
  <2>2. Begins(OpenedBy(n), Opened)
    BY <1>3, <2>1, Beginnings
  <2> QED
    BY <1>1, <1>2, <2>2
<1> QED
  BY <1>4, <1>5

LEMMA ServersAre ==
  ASSUME program \in Programs
  PROVE  /\ program = "gateway" => Servers = {"metrics", "rest"}
         /\ program # "gateway" => Servers = {"grpc"}
         /\ Servers \subseteq AllServers
BY DEF Servers, AllServers

\* Nothing of this changes while the program is the same.
LEMMA SameProgram ==
  ASSUME program' = program
  PROVE  /\ Stages' = Stages /\ Servers' = Servers /\ Opened' = Opened
         /\ FirstServer' = FirstServer
         /\ \A n : OpenedBy(n)' = OpenedBy(n)
BY DEF Stages, Servers, Opened, FirstServer, OpenedBy
-----------------------------------------------------------------------------
(* The inductive invariant of a process.                                   *)

RunAt == {"off", "launched", "made", "serving", "closed", "returned", "failed", "assigned", "over"}
StopAt == {"no", "called", "begun", "drained", "timedOut", "assigned", "using", "over"}

\* The types of the variables but open.
ProcessTyped ==
  /\ program \in Programs
  /\ main \in {"starting", "waiting", "signalled", "stopping", "closing", "unwinding"}
  /\ step \in 1..(Len(Stages) + 1)
  /\ run \in [Servers -> RunAt]
  /\ stop \in [Servers -> StopAt]
  /\ err \in {"nil", "error"}
  /\ ended \in {"no", "returned", "exited", "panicked", "killed"}
  /\ schema \in {"old", "dirty", "new"}
  /\ forced \subseteq Servers
  /\ early \subseteq Servers
  /\ troubles \subseteq {"start", "server", "signal", "kill"}

\* How far main is, from what is open, what runs and what the schema is.
Progress ==
  /\ Begins(open, Opened)
  /\ main \notin {"closing", "unwinding"} => open = OpenedBy(step)
  /\ main # "starting" => step = Len(Stages) + 1
  /\ \A s \in Servers : run[s] # "off" => step > FirstServer
  /\ step > Len(Stages) /\ "grpc" \in Servers => run["grpc"] # "off"
  /\ "rest" \in Servers /\ run["rest"] # "off" => step > Len(Stages)
  /\ program = "user" /\ step = 4 => schema = "dirty"
  /\ program = "user" /\ step > 4 => schema = "new"

\* Requests are on the servers of this process that have served.
OnServers ==
  \A r \in Request :
    phase[r] # "none" =>
      on[r] \in Servers /\ run[on[r]] \notin {"off", "launched", "made"} /\ early = {}

\* A graceful stop that is over has left no request, and main goes on when all
\* are, or panics itself in a service.
Stopping ==
  /\ \A s \in Servers :
       stop[s] \in {"drained", "assigned", "using", "over"} /\ s \notin forced =>
         \A r \in Request : ~Inside(r, s)
  /\ \A s \in Servers : stop[s] = "timedOut" => s \in forced
  /\ main \in {"starting", "waiting", "signalled"} => \A s \in Servers : stop[s] = "no"
  /\ main = "closing" => \A s \in Servers : stop[s] = "over"
  /\ main = "unwinding" =>
       program # "gateway" /\ forced # {} /\ \A s \in Servers : stop[s] = "using"

\* What has gone wrong when something failed.
Excused == troubles # {} \/ early # {} \/ forced # {}

\* Run fails because of an early stop, or for a reason from outside.
Blame ==
  /\ \A s \in Servers : run[s] = "failed" => troubles # {} \/ s \in early
  /\ "grpc" \in Servers /\ run["grpc"] \in {"off", "launched"} => Undisturbed("grpc")
  /\ "grpc" \in Servers /\ run["grpc"] = "made" => (Undisturbed("grpc") <=> early = {})
  /\ early # {} =>
       "grpc" \in Servers /\ run["grpc"] \in {"launched", "made", "failed", "assigned", "over"}
  /\ early # {} /\ ended = "no" => run["grpc"] # "launched"
  /\ err = "error" => Excused
  /\ \A s \in Servers :
       stop[s] = "using" =>
         /\ Excused
         /\ err = "nil" => \A q \in Servers : stop[q] \in {"assigned", "using", "over"}

\* The servers whose stop has set err.
Assigned == {s \in Servers : stop[s] \in {"assigned", "using", "over"}}

\* Which results err can stand for. In the gateway it is an error as long as only
\* stops that took too long have set it. In a service, if the stop did not,
\* it is Run's error, and the last assignment.
Errors ==
  /\ \A s \in Servers : stop[s] \in {"no", "called", "begun", "drained"} => s \notin forced
  /\ program = "gateway" =>
       /\ err = "error" \/ (\E s \in Servers : stop[s] = "using") => forced # {}
       /\ Assigned # {} /\ Assigned \subseteq forced => err = "error"
  /\ program # "gateway" /\ "grpc" \notin forced =>
       /\ err = "error" => run["grpc"] = "assigned"
       /\ stop["grpc"] = "using" => err = "error"

\* The requests that an end cuts.
Ending ==
  /\ ended = "no" => \A r \in Request : phase[r] # "cut"
  /\ DisorderHasCause

LifecycleInv ==
  /\ PathInv
  /\ ProcessTyped
  /\ Progress
  /\ OnServers
  /\ Stopping
  /\ Blame
  /\ Errors
  /\ Ending

LEMMA LifecycleInvInit == LifecycleInit => LifecycleInv
<1> SUFFICES ASSUME LifecycleInit PROVE LifecycleInv
  OBVIOUS
<1>1. PathInv
  BY PathInvInit DEF LifecycleInit
<1>2. program \in Programs /\ \A r \in Request : phase[r] = "none"
  BY DEF LifecycleInit, PathInit
<1>3. Len(Stages) \in {5, 7, 9}
  BY <1>2, StagesAre, ProgramIs
<1>4. ProcessTyped
  BY <1>2, <1>3 DEF LifecycleInit, ProcessTyped, RunAt, StopAt
<1>5. Progress
  <2>1. ~(step > Len(Stages))
    BY <1>3 DEF LifecycleInit
  <2>2. Begins(<<>>, Opened) /\ OpenedBy(1) = <<>>
    BY <1>2, OpenedIs
  <2> QED
    BY <1>2, <2>1, <2>2 DEF LifecycleInit, Progress
<1>6. OnServers /\ Stopping /\ Blame /\ Errors /\ Ending
  BY <1>2, ServersAre DEF LifecycleInit, OnServers, Stopping, Blame, Errors, Assigned, Ending, Undisturbed,
     DisorderHasCause
<1> QED
  BY <1>1, <1>4, <1>5, <1>6 DEF LifecycleInv

\* Whoever starts the program again starts from such a state.
LEMMA RestartKeeps ==
  ASSUME LifecycleInv, Restart
  PROVE  LifecycleInv'
<1>1. PathInv' /\ program \in Programs /\ \A r \in Request : phase'[r] = "none"
  BY PathInvReset DEF Restart, LifecycleInv, ProcessTyped, PathReset
<1>2. UNCHANGED <<Stages, Servers, Opened, FirstServer>> /\ \A n : OpenedBy(n)' = OpenedBy(n)
  BY SameProgram DEF Restart
<1>3. Len(Stages) \in {5, 7, 9}
  BY <1>1, StagesAre, ProgramIs
<1>4. ProcessTyped'
  BY <1>1, <1>2, <1>3 DEF Restart, LifecycleInv, ProcessTyped, RunAt, StopAt
<1>5. Progress'
  <2>1. ~(step' > Len(Stages))
    BY <1>3 DEF Restart
  <2>2. Begins(<<>>, Opened) /\ OpenedBy(1) = <<>>
    BY <1>1, OpenedIs
  <2> QED
    BY <1>1, <1>2, <2>1, <2>2 DEF Restart, Progress, Begins
<1>6. OnServers' /\ Stopping' /\ Blame' /\ Errors' /\ Ending'
  BY <1>1, <1>2, ServersAre DEF Restart, OnServers, Stopping, Blame, Errors, Assigned, Ending, Undisturbed,
     DisorderHasCause
<1> QED
  BY <1>1, <1>4, <1>5, <1>6 DEF LifecycleInv
-----------------------------------------------------------------------------
(* How the process ends.                                                   *)

\* Ending cuts requests, and leaves what excuses it.
LEMMA EndKeeps ==
  ASSUME LifecycleInv, ended = "no", NEW how \in {"returned", "exited", "panicked", "killed"},
         End(how),
         UNCHANGED <<program, main, step, open, run, stop, err, schema, forced>>,
         \/ early' = early
         \/ early' = {"grpc"} /\ program # "gateway" /\ run["grpc"] = "launched",
         troubles \subseteq troubles',
         troubles' \subseteq {"start", "server", "signal", "kill"},
         troubles' = {} =>
           /\ how # "killed"
           /\ how = "exited" => program # "gateway" /\ early' \cup forced # {}
           /\ how = "panicked" =>
                \/ early' # {} /\ run["grpc"] = "launched"
                \/ forced # {} /\ (IF program = "gateway" THEN forced # Servers ELSE open = <<>>)
           /\ how = "returned" => open = <<>>
           /\ \A r \in Request : phase[r] = "inside" => on[r] \in forced
  PROVE  LifecycleInv'
<1>1. Cut
  BY DEF End, Cut
<1>2. PathInv'
  BY <1>1, CutKeeps DEF LifecycleInv
<1>3. UNCHANGED <<Stages, Servers, Opened, FirstServer>> /\ \A n : OpenedBy(n)' = OpenedBy(n)
  BY SameProgram
<1>4. ProcessTyped'
  BY <1>3, ServersAre DEF End, LifecycleInv, ProcessTyped
<1>5. Progress'
  BY <1>3 DEF LifecycleInv, Progress, Begins
<1>6. phase' = [r \in Request |-> IF phase[r] = "inside" THEN "cut" ELSE phase[r]] /\ on' = on
  BY DEF End
<1>7. OnServers'
  BY <1>3, <1>6, ServersAre DEF LifecycleInv, ProcessTyped, OnServers
<1>8. Stopping'
  BY <1>3, <1>6 DEF LifecycleInv, Stopping, Inside
<1>9. Blame'
  <2>1. early \subseteq early' /\ ended' # "no"
    <3>1. early' = {"grpc"} => early \subseteq {"grpc"}
      BY ServersAre DEF LifecycleInv, ProcessTyped, Blame
    <3> QED
      BY <3>1 DEF End
  <2>2. CASE early' = early
    BY <1>3, <2>1, <2>2 DEF LifecycleInv, Blame, Undisturbed, Excused
  <2>3. CASE early' = {"grpc"} /\ program # "gateway" /\ run["grpc"] = "launched"
    <3>1. Servers = {"grpc"}
      BY <2>3, ServersAre DEF LifecycleInv, ProcessTyped
    <3> QED
      BY <1>3, <2>1, <2>3, <3>1 DEF LifecycleInv, Blame, Undisturbed, Excused
  <2> QED
    BY <2>2, <2>3
<1>10. Errors'
  BY <1>3 DEF LifecycleInv, Errors, Assigned
<1>11. Ending'
  <2>1. ended' = how /\ \A r \in Request : phase'[r] = "cut" => phase[r] = "inside"
    BY <1>6 DEF End, LifecycleInv, Ending
  <2>2. DisorderHasCause'
    BY <1>3, <1>6, <2>1 DEF DisorderHasCause
  <2> QED
    BY <2>1, <2>2 DEF Ending
<1> QED
  BY <1>2, <1>4, <1>5, <1>7, <1>8, <1>9, <1>10, <1>11 DEF LifecycleInv

LEMMA EndInKeeps ==
  ASSUME LifecycleInv, ended = "no", NEW how \in {"exited", "panicked", "killed"},
         NEW trouble \in {"start", "server", "signal", "kill"},
         EndIn(how, trouble)
  PROVE  LifecycleInv'
BY EndKeeps DEF EndIn, LifecycleInv, ProcessTyped
-----------------------------------------------------------------------------
(* How it goes on.                                                         *)

LEMMA PathStays ==
  ASSUME PathInv, UNCHANGED path
  PROVE  PathInv'
BY DEF path, PathInv, PathTyped, Observed, GaugeOK, Gauged

\* A stage that succeeds.
LEMMA OnwardKeeps ==
  ASSUME LifecycleInv, ended = "no", main = "starting",
         step' \in {step + 1, step + 2}, step' <= Len(Stages) + 1,
         open' = OpenedBy(step'),
         UNCHANGED <<path, program, main, stop, err, ended, forced, early, troubles>>,
         \/ run' = run
         \/ \E s \in Servers :
              /\ run' = [run EXCEPT ![s] = "launched"] /\ run[s] = "off"
              /\ step >= FirstServer
              /\ s = "rest" => step = Len(Stages),
         step' > Len(Stages) /\ "grpc" \in Servers => run'["grpc"] # "off",
         schema' \in {"old", "dirty", "new"},
         program = "user" /\ step' = 4 => schema' = "dirty",
         program = "user" /\ step' > 4 => schema' = "new"
  PROVE  LifecycleInv'
<1>1. UNCHANGED <<Stages, Servers, Opened, FirstServer>> /\ \A n : OpenedBy(n)' = OpenedBy(n)
  BY SameProgram
<1>2. program \in Programs /\ step \in Nat /\ FirstServer \in Nat /\ Len(Stages) \in {5, 7, 9}
  BY StagesAre, ProgramIs DEF LifecycleInv, ProcessTyped, FirstServer
<1>3. PathInv'
  BY PathStays DEF LifecycleInv
<1>4. ProcessTyped'
  <2>1. run' \in [Servers -> RunAt]
    BY DEF LifecycleInv, ProcessTyped, RunAt
  <2> QED
    BY <1>1, <1>2, <2>1 DEF LifecycleInv, ProcessTyped
<1>5. Progress'
  <2>1. Begins(open', Opened)
    BY <1>2, OpenedIs
  <2>2. \A s \in Servers : run'[s] # "off" => step' > FirstServer
    BY <1>2 DEF LifecycleInv, ProcessTyped, Progress
  <2>3. "rest" \in Servers /\ run'["rest"] # "off" => step' > Len(Stages)
    BY <1>2 DEF LifecycleInv, ProcessTyped, Progress
  <2> QED
    BY <1>1, <2>1, <2>2, <2>3 DEF Progress, Begins
<1>6. Stopping' /\ Ending'
  BY <1>1 DEF LifecycleInv, Stopping, Ending, DisorderHasCause, Inside, path
<1>7. OnServers'
  BY <1>1 DEF LifecycleInv, ProcessTyped, OnServers, path
<1>8. early = {} /\ \A s \in Servers : stop[s] = "no"
  <2>1. \A s \in Servers : stop[s] = "no"
    BY DEF LifecycleInv, Stopping
  <2>2. step <= Len(Stages) /\ (program # "gateway" => FirstServer = Len(Stages))
    BY <1>2, StagesAre, ProgramIs DEF FirstServer
  <2>3. program # "gateway" => run["grpc"] = "off"
    BY <1>2, <2>2, ServersAre DEF LifecycleInv, Progress
  <2>4. early = {}
    BY <1>2, <2>3, ServersAre DEF LifecycleInv, Blame
  <2> QED
    BY <2>1, <2>4
<1>9. Blame'
  BY <1>1, <1>8 DEF LifecycleInv, ProcessTyped, Blame, Undisturbed, Excused
<1>10. Errors'
  BY <1>1, <1>2, <1>8, ServersAre DEF LifecycleInv, ProcessTyped, Errors, Assigned
<1> QED
  BY <1>3, <1>4, <1>5, <1>6, <1>7, <1>9, <1>10 DEF LifecycleInv

\* The goroutine of a server goes on to p.
LEMMA RunKeeps ==
  ASSUME LifecycleInv, ended = "no", NEW s \in Servers, NEW p \in RunAt \ {"off", "launched"},
         run[s] # "off",
         run' = [run EXCEPT ![s] = p],
         troubles' \in {troubles, troubles \cup {"server"}},
         p = "failed" => troubles' # {} \/ s \in early,
         p = "made" => s = "grpc" /\ run[s] = "launched" /\ early = {},
         p \in {"serving", "closed", "returned"} => early = {},
         err' \in {"nil", "error"},
         s # "grpc" => err' = err,
         err' = "error" => troubles' # {} \/ early # {} \/ forced # {},
         Errors',
         UNCHANGED <<path, program, main, step, open, stop, ended, schema, forced, early>>
  PROVE  LifecycleInv'
<1>1. UNCHANGED <<Stages, Servers, Opened, FirstServer>> /\ \A n : OpenedBy(n)' = OpenedBy(n)
  BY SameProgram
<1>2. PathInv'
  BY PathStays DEF LifecycleInv
<1>3. ProcessTyped'
  <2>1. run' \in [Servers -> RunAt]
    BY DEF LifecycleInv, ProcessTyped, RunAt
  <2> QED
    BY <1>1, <2>1 DEF LifecycleInv, ProcessTyped
<1>4. \A q \in Servers : run'[q] = IF q = s THEN p ELSE run[q]
  BY DEF LifecycleInv, ProcessTyped
<1>5. Progress'
  BY <1>1, <1>4 DEF LifecycleInv, Progress, Begins, RunAt
<1>6. Stopping' /\ Ending'
  BY <1>1 DEF LifecycleInv, Stopping, Ending, DisorderHasCause, Inside, path
<1>7. OnServers'
  BY <1>1, <1>4 DEF LifecycleInv, OnServers, path
<1>8. Blame'
  <2>1. s = "grpc" => Servers = {"grpc"}
    BY ServersAre DEF LifecycleInv, ProcessTyped
  <2> QED
    BY <1>1, <1>4, <2>1 DEF LifecycleInv, ProcessTyped, Blame, Undisturbed, Excused, RunAt
<1> QED
  BY <1>2, <1>3, <1>5, <1>6, <1>7, <1>8 DEF LifecycleInv

\* Who stops a server goes on to p.
LEMMA StopKeeps ==
  ASSUME LifecycleInv, ended = "no", main = "stopping",
         NEW s \in Servers, NEW p \in StopAt \ {"no", "called"},
         stop' = [stop EXCEPT ![s] = p],
         troubles' = troubles,
         IF p = "begun" /\ s = "grpc" /\ run[s] = "made" THEN early' = early \cup {s} ELSE early' = early,
         forced' \in {forced, forced \cup {s}},
         p \in {"drained", "assigned", "using", "over"} /\ s \notin forced' =>
           \A r \in Request : ~Inside(r, s),
         p = "timedOut" => s \in forced',
         s = "grpc" => run[s] # "launched" /\ (run[s] = "made" /\ Undisturbed(s) => p = "begun"),
         err' \in {"nil", "error"},
         err' = "error" => troubles' # {} \/ early' # {} \/ forced' # {},
         Errors',
         p = "using" => err' = "error",
         stop[s] \in {"assigned", "using", "over"} => p \in {"using", "over"},
         err' = "nil" /\ err = "error" => p = "assigned",
         UNCHANGED <<path, program, main, step, open, run, ended, schema>>
  PROVE  LifecycleInv'
<1>1. UNCHANGED <<Stages, Servers, Opened, FirstServer>> /\ \A n : OpenedBy(n)' = OpenedBy(n)
  BY SameProgram
<1>2. PathInv'
  BY PathStays DEF LifecycleInv
<1>3. ProcessTyped'
  <2>1. stop' \in [Servers -> StopAt]
    BY DEF LifecycleInv, ProcessTyped, StopAt
  <2> QED
    BY <1>1, <2>1 DEF LifecycleInv, ProcessTyped
<1>4. \A q \in Servers : stop'[q] = IF q = s THEN p ELSE stop[q]
  BY DEF LifecycleInv, ProcessTyped
<1>5. Progress'
  BY <1>1 DEF LifecycleInv, Progress, Begins
<1>6. OnServers' /\ Ending'
  BY <1>1, ServersAre DEF LifecycleInv, ProcessTyped, OnServers, Ending, DisorderHasCause, path
<1>7. Stopping'
  BY <1>1, <1>4 DEF LifecycleInv, Stopping, Inside, path
<1>8. Blame'
  <2>1. \A q \in Servers : run'[q] = "failed" => troubles' # {} \/ q \in early'
    BY DEF LifecycleInv, Blame
  <2>2. "grpc" \in Servers /\ run["grpc"] \in {"off", "launched"} => Undisturbed("grpc")'
    <3>1. step > Len(Stages)
      BY StagesAre, ProgramIs DEF LifecycleInv, ProcessTyped, Progress
    <3> QED
      BY <1>4, <3>1 DEF LifecycleInv, Progress, Blame, Undisturbed
  <2>3. "grpc" \in Servers /\ run["grpc"] = "made" => (Undisturbed("grpc")' <=> early' = {})
    BY <1>4 DEF LifecycleInv, Blame, Undisturbed, StopAt
  <2>4. ASSUME NEW q \in Servers, stop'[q] = "using"
        PROVE  /\ Excused'
               /\ err' = "nil" => \A x \in Servers : stop'[x] \in {"assigned", "using", "over"}
    <3>1. Excused'
      BY <1>4, <2>4 DEF LifecycleInv, Blame, Excused
    <3>2. CASE err' = "nil" /\ err = "nil"
      <4>1. q # s /\ stop[q] = "using"
        BY <1>4, <2>4, <3>2
      <4>2. \A x \in Servers : stop[x] \in {"assigned", "using", "over"}
        BY <3>2, <4>1 DEF LifecycleInv, Blame
      <4> QED
        BY <1>4, <3>1, <4>2
    <3>3. CASE err' = "nil" /\ err # "nil"
      <4>1. p = "assigned" /\ q # s
        BY <1>4, <2>4, <3>3 DEF LifecycleInv, ProcessTyped
      <4>2. \A x \in Servers : x = s \/ x = q
        BY <4>1, ServersAre DEF LifecycleInv, ProcessTyped
      <4>3. stop'[s] = "assigned" /\ stop'[q] = "using"
        BY <1>4, <2>4, <4>1
      <4> QED
        BY <3>1, <4>2, <4>3
    <3> QED
      BY <3>1, <3>2, <3>3
  <2>5. early' # {} =>
          "grpc" \in Servers /\ run["grpc"] \in {"launched", "made", "failed", "assigned", "over"}
    BY DEF LifecycleInv, Blame
  <2>6. early' # {} => run["grpc"] # "launched"
    BY DEF LifecycleInv, Blame
  <2> QED
    BY <1>1, <2>1, <2>2, <2>3, <2>4, <2>5, <2>6 DEF Blame, Excused, Undisturbed
<1> QED
  BY <1>2, <1>3, <1>5, <1>6, <1>7, <1>8 DEF LifecycleInv

\* main goes on to p.
LEMMA MainKeeps ==
  ASSUME LifecycleInv, ended = "no",
         main' \in {"waiting", "signalled", "closing", "unwinding"},
         main = "starting" => step > Len(Stages) /\ main' # "closing" /\ main' # "unwinding",
         main' \in {"waiting", "signalled"} => main \in {"starting", "waiting"},
         main' = "closing" => \A s \in Servers : stop[s] = "over",
         main' = "unwinding" =>
           program # "gateway" /\ forced # {} /\ \A s \in Servers : stop[s] = "using",
         UNCHANGED <<path, program, step, open, run, stop, err, ended, schema, forced, early, troubles>>
  PROVE  LifecycleInv'
<1>1. UNCHANGED <<Stages, Servers, Opened, FirstServer>> /\ \A n : OpenedBy(n)' = OpenedBy(n)
  BY SameProgram
<1>2. PathInv'
  BY PathStays DEF LifecycleInv
<1>3. ProcessTyped'
  BY <1>1 DEF LifecycleInv, ProcessTyped
<1>4. Progress'
  <2>1. step = Len(Stages) + 1
    BY StagesAre, ProgramIs DEF LifecycleInv, ProcessTyped, Progress
  <2> QED
    BY <1>1, <2>1 DEF LifecycleInv, Progress, Begins
<1>5. OnServers' /\ Ending' /\ Stopping'
  BY <1>1 DEF LifecycleInv, OnServers, Ending, DisorderHasCause, Stopping, Inside, path
<1>6. Blame' /\ Errors'
  BY <1>1 DEF LifecycleInv, Blame, Errors, Assigned, Undisturbed, Excused
<1> QED
  BY <1>2, <1>3, <1>4, <1>5, <1>6 DEF LifecycleInv

\* main stops the servers.
LEMMA CallStopKeeps ==
  ASSUME LifecycleInv, ended = "no", CallStop
  PROVE  LifecycleInv'
<1> USE DEF CallStop
<1>1. UNCHANGED <<Stages, Servers, Opened, FirstServer>> /\ \A n : OpenedBy(n)' = OpenedBy(n)
  BY SameProgram
<1>2. PathInv'
  BY PathStays DEF LifecycleInv
<1>3. ProcessTyped'
  BY <1>1 DEF LifecycleInv, ProcessTyped, StopAt
<1>4. Progress'
  BY <1>1 DEF LifecycleInv, Progress, Begins
<1>5. OnServers' /\ Ending' /\ Stopping'
  BY <1>1 DEF LifecycleInv, OnServers, Ending, DisorderHasCause, Stopping, Inside, path
<1>6. Blame' /\ Errors'
  BY <1>1, ServersAre DEF LifecycleInv, ProcessTyped, Blame, Errors, Assigned, Undisturbed, Excused, Stopping
<1> QED
  BY <1>2, <1>3, <1>4, <1>5, <1>6 DEF LifecycleInv

\* A deferred call closes what was opened last.
LEMMA CloseKeeps ==
  ASSUME LifecycleInv, ended = "no", Close
  PROVE  LifecycleInv'
<1>1. /\ main \in {"closing", "unwinding"}
      /\ UNCHANGED <<path, program, main, step, run, stop, err, ended, schema, forced, early, troubles>>
  BY DEF Close
<1>2. UNCHANGED <<Stages, Servers, Opened, FirstServer>> /\ \A n : OpenedBy(n)' = OpenedBy(n)
  BY <1>1, SameProgram
<1>3. PathInv'
  BY <1>1, PathStays DEF LifecycleInv
<1>4. ProcessTyped' /\ OnServers' /\ Ending' /\ Stopping' /\ Blame' /\ Errors'
  BY <1>1, <1>2 DEF LifecycleInv, ProcessTyped, OnServers, Ending, DisorderHasCause, Stopping,
     Blame, Errors, Assigned, Undisturbed, Excused, Inside, path
<1>5. Begins(open', Opened)
  <2> DEFINE n == Len(open) - 1
  <2>1. Begins(open, Opened) /\ open \in Seq(Clients) /\ Len(open) \in Nat /\ Len(Opened) \in Nat
    BY DEF LifecycleInv, Progress, Begins, Opened
  <2>2. open # <<>> /\ open' = SubSeq(open, 1, n)
    BY DEF Close
  <2>3. n \in Nat /\ n <= Len(Opened)
    BY <2>1, <2>2 DEF Begins
  <2>4. \A i \in 1..n : open[i] \in Clients /\ open[i] = Opened[i] /\ 1 + i - 1 = i
    BY <2>1, <2>3 DEF Begins
  <2> HIDE DEF n
  <2>5. /\ open' \in Seq(Clients)
        /\ Len(open') = IF 1 <= n THEN n - 1 + 1 ELSE 0
        /\ \A i \in 1..(n - 1 + 1) : open'[i] = open[1 + i - 1]
    BY <2>2, <2>3, <2>4, SubSeqProperties
  <2>6. Len(open') = n /\ n - 1 + 1 = n
    BY <2>3, <2>5
  <2> QED
    BY <2>3, <2>4, <2>5, <2>6 DEF Begins
<1>6. Progress'
  BY <1>1, <1>2, <1>5 DEF LifecycleInv, Progress, Begins
<1> QED
  BY <1>3, <1>4, <1>6 DEF LifecycleInv

\* Requests come and are handled.
LEMMA RequestKeeps ==
  ASSUME LifecycleInv, ended = "no", UNCHANGED process, NEW r \in Request,
         \/ Handle(r)
         \/ \E s \in Servers :
              Enter(r, s) /\ run[s] \in {"serving", "closed"} /\ (stop[s] \in {"no", "called", "begun"} \/ s \in forced)
  PROVE  LifecycleInv'
<1>1. UNCHANGED <<Stages, Servers, Opened, FirstServer>> /\ \A n : OpenedBy(n)' = OpenedBy(n)
  BY SameProgram DEF process
<1>2. PathInv' /\ phase \in [Request -> {"none", "inside", "over", "cut"}] /\ on \in [Request -> {"none"} \cup AllServers]
  BY HandleKeeps, EnterKeeps, ServersAre DEF LifecycleInv, ProcessTyped, PathInv, PathTyped
<1>3. ProcessTyped' /\ Progress' /\ Blame' /\ Errors'
  BY <1>1 DEF LifecycleInv, ProcessTyped, Progress, Blame, Errors, Assigned, Begins, Undisturbed, Excused, process
<1>4. CASE Handle(r)
  <2>1. on' = on /\ phase[r] = "inside" /\ phase' \in {phase, [phase EXCEPT ![r] = "over"]}
    BY <1>4 DEF Handle, Write, Deadline, RestReturns, RestPanics, RpcEnds, ScrapeEnds, Inside
  <2>2. OnServers' /\ Stopping' /\ Ending'
    BY <1>1, <1>2, <2>1 DEF LifecycleInv, OnServers, Stopping, Ending, DisorderHasCause, Inside, process
  <2> QED
    BY <1>2, <1>3, <2>2 DEF LifecycleInv
<1>5. ASSUME NEW s \in Servers,
             Enter(r, s) /\ run[s] \in {"serving", "closed"} /\ (stop[s] \in {"no", "called", "begun"} \/ s \in forced)
      PROVE  LifecycleInv'
  <2>1. /\ phase[r] = "none" /\ phase' = [phase EXCEPT ![r] = "inside"]
        /\ on' = [on EXCEPT ![r] = s]
    BY <1>5 DEF Enter
  <2>2. early = {}
    BY <1>5, ServersAre DEF LifecycleInv, ProcessTyped, Blame
  <2>5. OnServers'
    BY <1>1, <1>2, <1>5, <2>1, <2>2 DEF LifecycleInv, OnServers, process
  <2>3. Ending'
    BY <1>2, <2>1 DEF LifecycleInv, Ending, DisorderHasCause, process
  <2>4. Stopping'
    BY <1>1, <1>2, <1>5, <2>1 DEF LifecycleInv, Stopping, Inside, process
  <2> QED
    BY <1>2, <1>3, <2>3, <2>4, <2>5 DEF LifecycleInv
<1> QED
  BY <1>4, <1>5
-----------------------------------------------------------------------------
(* The steps.                                                              *)

LEMMA FatalKeeps ==
  ASSUME LifecycleInv, ended = "no", Fatal
  PROVE  LifecycleInv'
BY EndInKeeps DEF Fatal

\* The stages of main.
LEMMA StartUpKeeps ==
  ASSUME LifecycleInv, ended = "no", StartUp, ~Fatal
  PROVE  LifecycleInv'
<1> DEFINE st == Stages[step]
<1>1. main = "starting" /\ step \in 1..Len(Stages) /\ Len(Stages) \in {5, 7, 9}
  BY StagesAre, ProgramIs DEF LifecycleInv, ProcessTyped, StartUp, Stage, LoadConfig, Ping,
     LoadCreds, Migrate, Apply, Keep, Dial, Launch
<1>2. program \in Programs /\ open = OpenedBy(step) /\ schema \in {"old", "dirty", "new"}
  BY <1>1 DEF LifecycleInv, ProcessTyped, Progress
<1>3. program = "user" /\ step = 4 => schema = "dirty"
  BY DEF LifecycleInv, Progress
<1>4. program = "user" /\ step > 4 => schema = "new"
  BY DEF LifecycleInv, Progress
<1>5. program = "user" => Len(Stages) = 7
  BY <1>2, StagesAre
<1>6. /\ st \in {"config", "ping", "creds"} =>
           OpenedBy(step + 1) = OpenedBy(step)
      /\ st \in {"redis", "storage", "authClient", "userClient"} =>
           OpenedBy(step + 1) = Append(OpenedBy(step), st)
      /\ st = "migrate" => program = "user" /\ step = 3 /\ OpenedBy(step + 2) = OpenedBy(step)
      /\ st = "apply" => program = "user" /\ step = 4
      /\ st \in {"migrate", "apply"} => OpenedBy(step + 1) = OpenedBy(step)
      /\ program = "user" /\ step = 3 => st = "migrate"
      /\ program = "user" /\ step = 4 => st = "apply"
      /\ st \in {"metrics", "rest", "grpc"} =>
           /\ OpenedBy(step + 1) = OpenedBy(step) /\ step >= FirstServer /\ st \in Servers
           /\ IF st = "rest" THEN step = Len(Stages) ELSE step = FirstServer
      /\ step = Len(Stages) /\ "grpc" \in Servers => st = "grpc"
  BY <1>1, <1>2, StageIs
<1> HIDE DEF st
<1>7. ASSUME Onward, open' = OpenedBy(step + 1), run' = run, UNCHANGED <<stop, schema>>,
             st \notin {"migrate", "apply", "grpc"}
      PROVE  LifecycleInv'
  <2>1. step' = step + 1 /\ UNCHANGED <<path, program, main, err, ended, forced, early, troubles>>
    BY <1>7 DEF Onward
  <2>2. step' <= Len(Stages) + 1 /\ (step' > Len(Stages) => "grpc" \notin Servers)
    BY <1>1, <1>6, <1>7, <2>1
  <2>3. /\ program = "user" /\ step' = 4 => schema' = "dirty"
        /\ program = "user" /\ step' > 4 => schema' = "new"
    BY <1>1, <1>4, <1>6, <1>7, <2>1
  <2> QED
    BY <1>1, <1>2, <1>7, <2>1, <2>2, <2>3, OnwardKeeps
<1>8. CASE LoadConfig \/ Ping \/ LoadCreds
  <2>1. st \in {"config", "ping", "creds"} /\ Onward /\ UNCHANGED <<open, run, stop, schema>>
    BY <1>8 DEF LoadConfig, Ping, LoadCreds, Stage, st
  <2> QED
    BY <1>2, <1>6, <1>7, <2>1
<1>9. CASE Keep \/ Dial
  <2>1. /\ st \in {"redis", "storage", "authClient", "userClient"} /\ Onward
        /\ open' = Append(open, st) /\ UNCHANGED <<run, stop, schema>>
    BY <1>9 DEF Keep, Dial, Stage, st
  <2> QED
    BY <1>2, <1>6, <1>7, <2>1
<1>10. CASE Migrate
  <2>1. /\ st = "migrate"
        /\ schema' = IF schema = "new" THEN "new" ELSE "dirty"
        /\ step' = step + (IF schema = "new" THEN 2 ELSE 1)
        /\ UNCHANGED <<path, program, main, open, run, stop, err, ended, forced, early, troubles>>
    BY <1>10 DEF Migrate, Stage, st
  <2>2. step = 3 /\ program = "user" /\ Len(Stages) = 7
    BY <1>5, <1>6, <2>1
  <2>3. CASE schema = "new"
    <3>1. step' = step + 2 /\ schema' = "new"
      BY <2>1, <2>3
    <3>2. open' = OpenedBy(step')
      BY <1>2, <1>6, <2>1, <3>1
    <3> QED
      BY <1>1, <2>1, <2>2, <3>1, <3>2, OnwardKeeps
  <2>4. CASE schema # "new"
    <3>1. step' = step + 1 /\ schema' = "dirty"
      BY <2>1, <2>4
    <3>2. open' = OpenedBy(step')
      BY <1>2, <1>6, <2>1, <3>1
    <3> QED
      BY <1>1, <2>1, <2>2, <3>1, <3>2, OnwardKeeps
  <2> QED
    BY <2>3, <2>4
<1>11. CASE Apply
  <2>1. st = "apply" /\ Onward /\ schema' = "new" /\ UNCHANGED <<open, run, stop>>
    BY <1>11 DEF Apply, Stage, st
  <2>2. step = 4 /\ program = "user" /\ Len(Stages) = 7 /\ step' = step + 1
    BY <1>5, <1>6, <2>1 DEF Onward
  <2>3. open' = OpenedBy(step')
    BY <1>2, <1>6, <2>1, <2>2
  <2> QED
    BY <1>1, <2>1, <2>2, <2>3, OnwardKeeps DEF Onward
<1>12. CASE Launch
  <2>1. /\ st \in {"metrics", "rest", "grpc"} /\ Onward
        /\ run' = [run EXCEPT ![st] = "launched"] /\ UNCHANGED <<open, stop, schema>>
    BY <1>12 DEF Launch, Stage, st
  <2>2. /\ step' = step + 1 /\ step' <= Len(Stages) + 1
        /\ UNCHANGED <<path, program, main, err, ended, forced, early, troubles>>
    BY <1>1, <2>1 DEF Onward
  <2>3. open' = OpenedBy(step') /\ st \in Servers /\ step >= FirstServer
    BY <1>2, <1>6, <2>1, <2>2
  <2>4. step' > Len(Stages) /\ "grpc" \in Servers => run'["grpc"] # "off"
    <3>1. step' > Len(Stages) => step = Len(Stages)
      BY <1>1, <2>2
    <3>2. st = "grpc" => run'["grpc"] = "launched"
      BY <2>1, <2>3 DEF LifecycleInv, ProcessTyped
    <3> QED
      BY <1>6, <3>1, <3>2
  <2>5. /\ program = "user" /\ step' = 4 => schema' = "dirty"
        /\ program = "user" /\ step' > 4 => schema' = "new"
    BY <1>1, <1>4, <1>6, <2>1, <2>2
  <2>6. run[st] = "off" /\ (st = "rest" => step = Len(Stages))
    <3>1. FirstServer \in Nat /\ step \in Nat /\ Len(Stages) \in Nat
      BY <1>1 DEF FirstServer
    <3> QED
      BY <1>6, <2>1, <2>3, <3>1 DEF LifecycleInv, Progress
  <2> QED
    BY <1>1, <1>2, <2>1, <2>2, <2>3, <2>4, <2>5, <2>6, OnwardKeeps
<1> QED
  BY <1>8, <1>9, <1>10, <1>11, <1>12 DEF StartUp

\* What err stands for after a step of a server's goroutine.
LEMMA RunErrors ==
  ASSUME LifecycleInv, NEW s \in Servers, RunStep(s) \/ RunFails(s)
  PROVE  Errors'
<1>1. UNCHANGED <<Servers, program, stop, forced>>
  BY SameProgram DEF RunStep, RunFails, MakeServer, Serve, Closes, AssignRun, TestRun, RunTo, Exits
<1>2. run \in [Servers -> RunAt]
  BY DEF LifecycleInv, ProcessTyped
<1>3. program = "gateway" => s # "grpc"
  BY ServersAre DEF LifecycleInv, ProcessTyped
<1>4. CASE AssignRun(s)
  <2>1. program # "gateway" /\ run'["grpc"] = "assigned" /\ run["grpc"] \in {"returned", "failed"}
    BY <1>2, <1>3, <1>4 DEF AssignRun
  <2>2. stop["grpc"] = "using" => "grpc" \in forced
    BY <2>1 DEF LifecycleInv, Errors
  <2> QED
    BY <1>1, <2>1, <2>2 DEF LifecycleInv, Errors, Assigned
<1>5. CASE ~AssignRun(s)
  <2>1. err' = err
    BY <1>5 DEF RunStep, RunFails, MakeServer, Serve, Closes, TestRun, RunTo, Exits
  <2>2. err = "error" /\ s = "grpc" /\ run[s] = "assigned" => run' = run
    BY <1>5 DEF RunStep, RunFails, MakeServer, Serve, Closes, TestRun, RunTo, Exits
  <2>3. program # "gateway" => s = "grpc"
    BY ServersAre DEF LifecycleInv, ProcessTyped
  <2> QED
    BY <1>1, <2>1, <2>2, <2>3 DEF LifecycleInv, Errors, Assigned
<1> QED
  BY <1>4, <1>5

\* What err stands for after a step of who stops a server.
LEMMA StopErrors ==
  ASSUME LifecycleInv, NEW s \in Servers, StopStep(s)
  PROVE  Errors'
<1>1. UNCHANGED <<Servers, program, run>>
  BY SameProgram DEF StopStep, BeginStop, Drained, TimeUp, AssignStop, TestStop, UseErr, StopTo,
     End, MainTo
<1>2. stop \in [Servers -> StopAt] /\ err \in {"nil", "error"} /\ program \in Programs
  BY DEF LifecycleInv, ProcessTyped
<1>3. program # "gateway" => s = "grpc"
  BY <1>2, ServersAre
<1>4. CASE AssignStop(s)
  <2>1. /\ stop' = [stop EXCEPT ![s] = "assigned"] /\ forced' = forced
        /\ stop[s] \in {"drained", "timedOut"}
        /\ err' = IF stop[s] = "timedOut" THEN "error" ELSE "nil"
    BY <1>4 DEF AssignStop
  <2>2. \A q \in Servers : stop'[q] = IF q = s THEN "assigned" ELSE stop[q]
    BY <1>2, <2>1
  <2>3. stop[s] = "drained" => s \notin forced
    BY DEF LifecycleInv, Errors
  <2>4. stop[s] = "timedOut" => s \in forced
    BY DEF LifecycleInv, Stopping
  <2>5. s \in Assigned'
    BY <1>1, <2>2 DEF Assigned
  <2> QED
    BY <1>1, <1>3, <2>1, <2>2, <2>3, <2>4, <2>5 DEF LifecycleInv, Errors
<1>5. CASE TimeUp(s)
  <2>1. /\ stop' = [stop EXCEPT ![s] = "timedOut"] /\ forced' = forced \cup {s} /\ err' = err
        /\ stop[s] = "begun"
    BY <1>5 DEF TimeUp
  <2>2. \A q \in Servers : stop'[q] = IF q = s THEN "timedOut" ELSE stop[q]
    BY <1>2, <2>1
  <2>3. Assigned' = Assigned /\ s \notin Assigned
    BY <1>1, <2>1, <2>2 DEF Assigned
  <2> QED
    BY <1>1, <1>3, <2>1, <2>2, <2>3 DEF LifecycleInv, Errors
<1>6. CASE TestStop(s)
  <2>1. /\ stop' = [stop EXCEPT ![s] = IF err = "nil" THEN "over" ELSE "using"]
        /\ forced' = forced /\ err' = err /\ stop[s] = "assigned"
    BY <1>6 DEF TestStop, StopTo
  <2>2. \A q \in Servers : stop'[q] = IF q = s THEN (IF err = "nil" THEN "over" ELSE "using") ELSE stop[q]
    BY <1>2, <2>1
  <2>3. Assigned' = Assigned
    BY <1>1, <2>1, <2>2 DEF Assigned
  <2> QED
    BY <1>1, <1>2, <1>3, <2>1, <2>2, <2>3 DEF LifecycleInv, Errors
<1>7. CASE BeginStop(s) \/ Drained(s) \/ UseErr(s)
  <2>1. forced' = forced /\ err' = err
    BY <1>7 DEF BeginStop, Drained, UseErr, StopTo, End, MainTo
  <2>2. \/ stop' = stop
        \/ stop[s] \in {"called", "begun"} /\ stop' \in {[stop EXCEPT ![s] = p] : p \in {"begun", "drained"}}
        \/ stop[s] = "using" /\ stop' = [stop EXCEPT ![s] = "over"]
    BY <1>7 DEF BeginStop, Drained, UseErr, StopTo, End, MainTo
  <2>3. Assigned' = Assigned
    BY <1>1, <1>2, <2>2 DEF Assigned
  <2>4. \A q \in Servers :
          /\ stop'[q] = "using" => stop[q] = "using"
          /\ stop'[q] \in {"no", "called", "begun", "drained"} =>
               stop[q] \in {"no", "called", "begun", "drained"}
    BY <1>2, <2>2
  <2> QED
    BY <1>1, <1>3, <2>1, <2>3, <2>4 DEF LifecycleInv, Errors
<1> QED
  BY <1>4, <1>5, <1>6, <1>7 DEF StopStep

\* The goroutine of a server.
LEMMA RunStepKeeps ==
  ASSUME LifecycleInv, ended = "no", NEW s \in Servers, RunStep(s) \/ RunFails(s)
  PROVE  LifecycleInv'
<1> USE DEF RunAt
<1>1. /\ err \in {"nil", "error"} /\ run[s] \in RunAt
      /\ err = "error" => Excused
      /\ run[s] = "failed" => troubles # {} \/ s \in early
      /\ s = "grpc" /\ run[s] = "made" => (Undisturbed(s) <=> early = {})
      /\ early # {} => s = "grpc" /\ run[s] \in {"made", "failed", "assigned", "over"}
      /\ early \subseteq {"grpc"} \/ early = {}
  BY ServersAre DEF LifecycleInv, ProcessTyped, Blame
<1>2. Errors'
  BY RunErrors
<1>3. ASSUME NEW p \in RunAt \ {"off", "launched"}, run[s] # "off", RunTo(s, p),
             p = "failed" => s \in early,
             p = "made" => s = "grpc" /\ run[s] = "launched" /\ early = {},
             p \in {"serving", "closed", "returned"} => early = {}
      PROVE  LifecycleInv'
  BY <1>1, <1>2, <1>3, RunKeeps DEF RunTo, Excused
<1>4. CASE MakeServer(s)
  BY <1>1, <1>3, <1>4 DEF MakeServer
<1>5. CASE Serve(s)
  <2>1. CASE Undisturbed(s)
    BY <1>1, <1>3, <1>5, <2>1 DEF Serve
  <2>2. CASE ~Undisturbed(s)
    BY <1>1, <1>3, <1>5, <2>2 DEF Serve
  <2> QED
    BY <2>1, <2>2
<1>6. CASE Closes(s)
  BY <1>1, <1>3, <1>6 DEF Closes
<1>7. CASE AssignRun(s)
  BY <1>1, <1>2, <1>7, RunKeeps DEF AssignRun
<1>8. CASE TestRun(s)
  <2>1. CASE RunTo(s, "over") /\ run[s] = "assigned"
    BY <1>3, <2>1
  <2>2. CASE Exits /\ s = "grpc" /\ err = "error"
    <3>1. troubles = {} => early \cup forced # {}
      BY <1>1, <2>2 DEF Excused
    <3>2. Servers = {"grpc"} /\ forced \subseteq Servers /\ program # "gateway"
      BY <2>2, ServersAre DEF LifecycleInv, ProcessTyped
    <3>3. troubles = {} => \A r \in Request : phase[r] = "inside" => on[r] \in forced
      BY <3>1, <3>2 DEF LifecycleInv, OnServers
    <3> QED
      BY <2>2, <3>1, <3>2, <3>3, EndKeeps DEF Exits, LifecycleInv, ProcessTyped
  <2>3. CASE Exits /\ s # "grpc" /\ run[s] = "failed"
    BY <1>1, <2>3, EndKeeps DEF Exits, LifecycleInv, ProcessTyped
  <2> QED
    BY <1>1, <1>8, <2>1, <2>2, <2>3 DEF TestRun
<1>9. CASE RunFails(s)
  BY <1>1, <1>2, <1>9, RunKeeps DEF RunFails, Excused
<1> QED
  BY <1>4, <1>5, <1>6, <1>7, <1>8, <1>9 DEF RunStep

\* While a server is being stopped main waits for it.
LEMMA MainIsStopping ==
  ASSUME LifecycleInv, NEW s \in Servers, stop[s] \notin {"no", "using", "over"}
  PROVE  main = "stopping"
BY DEF LifecycleInv, ProcessTyped, Stopping

\* The requests a panic or the end of main may cut are those of servers whose
\* graceful stop took too long.
LEMMA NoneLeft ==
  ASSUME LifecycleInv, \A s \in Servers : stop[s] \in {"assigned", "using", "over"}
  PROVE  \A r \in Request : phase[r] = "inside" => on[r] \in forced
BY DEF LifecycleInv, OnServers, Stopping, Inside

\* Who stops a server.
LEMMA StopStepKeeps ==
  ASSUME LifecycleInv, ended = "no", NEW s \in Servers, StopStep(s)
  PROVE  LifecycleInv'
<1> USE DEF StopAt
<1>1. /\ err \in {"nil", "error"} /\ stop[s] \in StopAt
      /\ err = "error" => Excused
      /\ s = "grpc" /\ run[s] \in {"off", "launched"} => Undisturbed(s)
      /\ stop[s] \in {"drained", "assigned", "using", "over"} /\ s \notin forced =>
           \A r \in Request : ~Inside(r, s)
      /\ stop[s] = "timedOut" => s \in forced
  BY DEF LifecycleInv, ProcessTyped, Blame, Stopping
<1>2. Errors'
  BY StopErrors
<1>3. CASE BeginStop(s)
  <2>1. main = "stopping" /\ stop[s] = "called"
    BY <1>3, MainIsStopping DEF BeginStop
  <2>2. CASE s = "grpc" /\ run[s] = "launched"
    <3>1. /\ Servers = {"grpc"} /\ program # "gateway" /\ early \subseteq {"grpc"}
      BY <2>2, ServersAre DEF LifecycleInv, ProcessTyped
    <3>2. /\ End("panicked") /\ early' = {"grpc"}
          /\ UNCHANGED <<program, main, step, open, run, stop, err, schema, forced, troubles>>
      BY <1>3, <2>2, <3>1 DEF BeginStop
    <3>3. \A r \in Request : phase[r] # "inside"
      BY <2>2, <3>1 DEF LifecycleInv, OnServers
    <3> QED
      BY <2>2, <3>1, <3>2, <3>3, EndKeeps DEF LifecycleInv, ProcessTyped
  <2>3. CASE ~(s = "grpc" /\ run[s] = "launched")
    <3>1. /\ StopTo(s, "begun")
          /\ IF s = "grpc" /\ run[s] = "made" THEN early' = early \cup {s} ELSE early' = early
      BY <1>3, <2>3 DEF BeginStop
    <3> QED
      BY <1>1, <1>2, <2>1, <2>3, <3>1, StopKeeps DEF StopTo, Excused
  <2> QED
    BY <2>2, <2>3
<1>4. CASE Drained(s)
  <2>1. main = "stopping"
    BY <1>4, MainIsStopping DEF Drained
  <2> QED
    BY <1>1, <1>2, <1>4, <2>1, StopKeeps DEF Drained, StopTo, Excused, Undisturbed
<1>5. CASE TimeUp(s)
  <2>1. main = "stopping"
    BY <1>5, MainIsStopping DEF TimeUp
  <2> QED
    BY <1>1, <1>2, <1>5, <2>1, StopKeeps DEF TimeUp, Excused, Undisturbed
<1>6. CASE AssignStop(s)
  <2>1. main = "stopping"
    BY <1>6, MainIsStopping DEF AssignStop
  <2> QED
    BY <1>1, <1>2, <1>6, <2>1, StopKeeps DEF AssignStop, Excused, Undisturbed
<1>7. CASE TestStop(s)
  <2>1. main = "stopping"
    BY <1>7, MainIsStopping DEF TestStop
  <2> QED
    BY <1>1, <1>2, <1>7, <2>1, StopKeeps DEF TestStop, StopTo, Excused, Undisturbed
<1>8. CASE UseErr(s)
  <2>1. main = "stopping" /\ stop[s] = "using"
    BY <1>8 DEF UseErr
  <2>2. CASE err # "nil"
    BY <1>1, <1>2, <1>8, <2>1, <2>2, StopKeeps DEF UseErr, StopTo, Excused, Undisturbed
  <2>3. CASE err = "nil" /\ program = "gateway"
    <3>1. \A q \in Servers : stop[q] \in {"assigned", "using", "over"}
      BY <2>1, <2>3 DEF LifecycleInv, Blame
    <3>2. forced # {} /\ forced # Servers
      BY <2>1, <2>3 DEF LifecycleInv, Errors, Assigned
    <3>3. End("panicked") /\ UNCHANGED <<program, main, step, open, run, stop, err, schema, forced, early, troubles>>
      BY <1>8, <2>3 DEF UseErr
    <3> QED
      BY <2>3, <3>1, <3>2, <3>3, NoneLeft, EndKeeps DEF LifecycleInv, ProcessTyped
  <2>4. CASE err = "nil" /\ program # "gateway"
    <3>1. MainTo("unwinding")
      BY <1>8, <2>4 DEF UseErr
    <3>2. \A q \in Servers : stop[q] = "using"
      BY <2>1, <2>4, ServersAre DEF LifecycleInv, ProcessTyped
    <3>3. forced # {}
      BY <2>1, <2>4, ServersAre DEF LifecycleInv, ProcessTyped, Errors
    <3> QED
      BY <2>1, <2>4, <3>1, <3>2, <3>3, MainKeeps DEF MainTo
  <2> QED
    BY <2>2, <2>3, <2>4
<1> QED
  BY <1>3, <1>4, <1>5, <1>6, <1>7, <1>8 DEF StopStep

LEMMA MainStepKeeps ==
  ASSUME LifecycleInv, ended = "no", MainStep \/ Signal \/ Kill
  PROVE  LifecycleInv'
<1>1. CASE Register
  BY <1>1, MainKeeps DEF Register, MainTo
<1>2. CASE Stopped
  BY <1>2, MainKeeps DEF Stopped, MainTo
<1>3. CASE Return
  <2>1. UNCHANGED <<program, main, step, open, run, stop, err, schema, forced, early, troubles>> /\ open = <<>>
    BY <1>3 DEF Return
  <2>2. CASE main = "closing"
    <3>1. \A s \in Servers : stop[s] = "over"
      BY <2>2 DEF LifecycleInv, Stopping
    <3>2. End("returned")
      BY <1>3, <2>2 DEF Return
    <3> QED
      BY <2>1, <3>1, <3>2, NoneLeft, EndKeeps DEF LifecycleInv, ProcessTyped
  <2>3. CASE main = "unwinding"
    <3>1. (\A s \in Servers : stop[s] = "using") /\ forced # {} /\ program # "gateway"
      BY <2>3 DEF LifecycleInv, Stopping
    <3>2. End("panicked")
      BY <1>3, <2>3 DEF Return
    <3> QED
      BY <2>1, <3>1, <3>2, NoneLeft, EndKeeps DEF LifecycleInv, ProcessTyped
  <2> QED
    BY <1>3, <2>2, <2>3 DEF Return
<1>4. CASE Signal
  <2>1. CASE main = "waiting" /\ MainTo("signalled")
    BY <2>1, MainKeeps DEF MainTo
  <2>2. CASE EndIn("killed", "signal")
    BY <2>2, EndInKeeps
  <2> QED
    BY <1>4, <2>1, <2>2 DEF Signal
<1>5. CASE Kill
  BY <1>5, EndInKeeps DEF Kill
<1> QED
  BY <1>1, <1>2, <1>3, <1>4, <1>5, CallStopKeeps, CloseKeeps DEF MainStep

LEMMA LifecycleInvStep == LifecycleInv /\ [LifecycleNext]_all => LifecycleInv'
<1> SUFFICES ASSUME LifecycleInv, [LifecycleNext]_all PROVE LifecycleInv'
  OBVIOUS
<1>1. CASE Restart
  BY <1>1, RestartKeeps
<1>2. ASSUME ended = "no", NEW s \in Servers, NEW r \in Request, Accept(s, r)
      PROVE  LifecycleInv'
  <2>1. Enter(r, s) /\ UNCHANGED process
    BY <1>2 DEF Accept
  <2>2. run[s] \in {"serving", "closed"} /\ (stop[s] \in {"no", "called", "begun"} \/ s \in forced)
    BY <1>2 DEF Accept
  <2> QED
    BY <1>2, <2>1, <2>2, RequestKeeps
<1>3. ASSUME ended = "no", NEW r \in Request, Handle(r), UNCHANGED process
      PROVE  LifecycleInv'
  BY <1>3, RequestKeeps
<1>4. CASE UNCHANGED all
  <2>1. UNCHANGED path /\ UNCHANGED process
    BY <1>4 DEF all
  <2>2. UNCHANGED <<Stages, Servers, Opened, FirstServer>> /\ \A n : OpenedBy(n)' = OpenedBy(n)
    BY <2>1, SameProgram DEF process
  <2>3. PathInv'
    BY <2>1, PathStays DEF LifecycleInv
  <2> QED
    BY <2>1, <2>2, <2>3 DEF process, path, LifecycleInv, ProcessTyped, Progress, Begins,
       OnServers, Stopping, Blame, Errors, Assigned, Undisturbed, Excused, Ending, DisorderHasCause, Inside
<1>5. ASSUME ended = "no", StartUp
      PROVE  LifecycleInv'
  BY <1>5, StartUpKeeps, FatalKeeps
<1> QED
  BY <1>1, <1>2, <1>3, <1>4, <1>5, MainStepKeeps, RunStepKeeps, StopStepKeeps DEF LifecycleNext

LEMMA LifecycleInvAlways == LifecycleSpec => []LifecycleInv
BY LifecycleInvInit, LifecycleInvStep, PTL DEF LifecycleSpec
-----------------------------------------------------------------------------
(* Theorems.                                                               *)

\* The variables keep their types, and main closes in the reverse order what
\* it has opened.
THEOREM LifecycleTypeCorrect == LifecycleSpec => []LifecycleTypeOK
<1>1. LifecycleInv => LifecycleTypeOK
  <2> SUFFICES ASSUME LifecycleInv PROVE LifecycleTypeOK
    OBVIOUS
  <2>1. PathTypeOK
    BY FS_CardinalityType DEF LifecycleInv, PathInv, PathTyped, GaugeOK, PathTypeOK, Codes, AllServers
  <2> QED
    BY <2>1 DEF LifecycleInv, ProcessTyped, Progress, Begins, RunAt, StopAt, LifecycleTypeOK
<1> QED
  BY <1>1, LifecycleInvAlways, PTL

\* Log, metrics and client see one status of a request that did not panic, and
\* the gauge is the number of requests inside.
THEOREM ObservedIsSentCorrect == LifecycleSpec => []ObservedIsSent
<1>1. LifecycleInv => ObservedIsSent
  BY DEF LifecycleInv, PathInv, Observed, GaugeOK, Gauged, ObservedIsSent
<1> QED
  BY <1>1, LifecycleInvAlways, PTL

\* Handlers have their storage and clients until their server's graceful stop
\* has run out of time.
THEOREM HandlersHaveStorageCorrect == LifecycleSpec => []HandlersHaveStorage
<1>1. LifecycleInv => HandlersHaveStorage
  <2> SUFFICES ASSUME LifecycleInv, NEW r \in Request, phase[r] = "inside", on[r] \notin forced
               PROVE  open = Opened
    BY DEF HandlersHaveStorage
  <2>1. on[r] \in Servers /\ run[on[r]] # "off"
    BY DEF LifecycleInv, OnServers
  <2>2. stop[on[r]] \in {"no", "called", "begun"}
    BY <2>1 DEF LifecycleInv, ProcessTyped, StopAt, Stopping, Inside
  <2>3. open = OpenedBy(step)
    BY <2>1, <2>2 DEF LifecycleInv, Progress, Stopping
  <2>4. step \in Nat /\ FirstServer \in Nat /\ step > FirstServer
    BY <2>1, StagesAre, ProgramIs DEF LifecycleInv, ProcessTyped, Progress, FirstServer
  <2> QED
    BY <2>3, <2>4, OpenedIs DEF LifecycleInv, ProcessTyped
<1> QED
  BY <1>1, LifecycleInvAlways, PTL

\* Without a fault from outside, a process ends otherwise than by returning from
\* main only if a gRPC server's stop came before it served, or a graceful stop
\* took too long (in the gateway: one of the two); and it cuts only the requests
\* of servers whose graceful stop took too long.
THEOREM DisorderHasCauseCorrect == LifecycleSpec => []DisorderHasCause
<1>1. LifecycleInv => DisorderHasCause
  BY DEF LifecycleInv, Ending
<1> QED
  BY <1>1, LifecycleInvAlways, PTL

\* The user service serves on a migrated schema only.
THEOREM ServesMigratedCorrect == LifecycleSpec => []ServesMigrated
<1>1. LifecycleInv => ServesMigrated
  <2> SUFFICES ASSUME LifecycleInv, program = "user", run["grpc"] = "serving"
               PROVE  schema = "new"
    BY DEF ServesMigrated
  <2>1. "grpc" \in Servers /\ FirstServer = 7 /\ step \in Nat
    BY StagesAre, ServersAre DEF LifecycleInv, ProcessTyped, FirstServer
  <2>2. step > 7
    BY <2>1 DEF LifecycleInv, Progress
  <2> QED
    BY <2>1, <2>2 DEF LifecycleInv, Progress
<1> QED
  BY <1>1, LifecycleInvAlways, PTL
=============================================================================
