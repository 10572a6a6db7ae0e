----------------------------- MODULE Lifecycle -----------------------------
(***************************************************************************)
(* One process of the platform from its start to its end: main of the      *)
(* gateway, of the auth service or of the user service, the goroutines     *)
(* that run and stop its servers, and the requests the servers have        *)
(* accepted (RequestPath).                                                 *)
(*                                                                         *)
(* main goes through its stages, starts a goroutine for each server,       *)
(* registers for SIGTERM and SIGINT, waits, stops the servers, and closes  *)
(* by deferred calls what it has opened. os.Exit and a panic of another    *)
(* goroutine end the process without the deferred calls. A process that    *)
(* has ended may be started again; only the schema of the users' database  *)
(* survives it.                                                            *)
(***************************************************************************)
EXTENDS RequestPath, Sequences

CONSTANT Programs   \* the programs to look at: "gateway", "auth", "user"

ASSUME ProgramsAssumption == Programs \subseteq {"gateway", "auth", "user"}

VARIABLES
  program,     \* which main this is
  main,        \* where main is
  step,        \* the stage of main while it is starting
  open,        \* what the deferred calls will close, the last first
  run,         \* run[s]: the goroutine of server s
  stop,        \* stop[s]: who stops server s
  err,         \* the variable err of main: is it nil?
  ended,       \* how the process has ended, or "no"
  schema,      \* golang-migrate's version of the users' database
  forced,      \* history: servers whose graceful stop took too long
  early,       \* history: gRPC servers whose stop came before they served
  troubles     \* history: what went wrong from outside

process == <<program, main, step, open, run, stop, err, ended, schema, forced, early, troubles>>
all == <<path, process>>

\* The stages of the three mains, in their order.
GatewayStages == <<"config", "ping", "redis", "creds", "creds",
                   "authClient", "userClient", "metrics", "rest">>
AuthStages == <<"config", "ping", "storage", "creds", "grpc">>
UserStages == <<"config", "ping", "migrate", "apply", "storage", "creds", "grpc">>

Stages == CASE program = "gateway" -> GatewayStages
            [] program = "auth"    -> AuthStages
            [] OTHER               -> UserStages

Servers == IF program = "gateway" THEN {"metrics", "rest"} ELSE {"grpc"}
Clients == {"redis", "storage", "authClient", "userClient"}

\* What the deferred calls have to close when main waits for the signal.
Opened == IF program = "gateway" THEN <<"redis", "authClient", "userClient">>
                                 ELSE <<"storage">>

LifecycleInit ==
  /\ PathInit
  /\ program \in Programs
  /\ main = "starting"
  /\ step = 1
  /\ open = <<>>
  /\ run = [s \in Servers |-> "off"]
  /\ stop = [s \in Servers |-> "no"]
  /\ err = "nil"
  /\ ended = "no"
  /\ schema = "old"
  /\ forced = {}
  /\ early = {}
  /\ troubles = {}
-----------------------------------------------------------------------------
\* The process ends, and cuts what is running.
End(how) ==
  /\ ended' = how
  /\ phase' = [r \in Request |-> IF phase[r] = "inside" THEN "cut" ELSE phase[r]]
  /\ UNCHANGED <<on, late, status, wire, counted, panicked, active>>

EndIn(how, trouble) ==
  /\ End(how)
  /\ troubles' = troubles \cup {trouble}
  /\ UNCHANGED <<program, main, step, open, run, stop, err, schema, forced, early>>

(* Start-up.                                                               *)

Stage(S) == main = "starting" /\ step <= Len(Stages) /\ Stages[step] \in S

Onward ==
  /\ step' = step + 1
  /\ UNCHANGED <<path, program, main, err, ended, forced, early, troubles>>

\* log.Fatalf, or os.Exit(1) after a log line.
Fatal == EndIn("exited", "start")

\* config.Load: the YAML files, the environment, the validation.
LoadConfig ==
  /\ Stage({"config"})
  /\ \/ Onward /\ UNCHANGED <<open, run, stop, schema>>
     \/ Fatal

\* The database or Redis has to answer.
Ping ==
  /\ Stage({"ping"})
  /\ \/ Onward /\ UNCHANGED <<open, run, stop, schema>>
     \/ Fatal

\* ServerCreds and ClientCreds: the certificate and its key have to be there.
LoadCreds ==
  /\ Stage({"creds"})
  /\ \/ Onward /\ UNCHANGED <<open, run, stop, schema>>
     \/ Fatal

\* A schema that is marked dirty is taken for an old one.
MigrateDirtyMutant ==
  /\ Stage({"migrate"})
  /\ schema' = IF schema = "new" THEN "new" ELSE "dirty"
  /\ step' = step + (IF schema = "old" THEN 1 ELSE 2)
  /\ UNCHANGED <<path, program, main, open, run, stop, err, ended, forced, early, troubles>>

\* migrate.Up marks the version dirty before it runs the migration, and does
\* nothing on a dirty version but fail. ErrNoChange is no error.
Migrate ==
  /\ Stage({"migrate"})
  /\ \/ /\ schema # "dirty"
        /\ schema' = IF schema = "new" THEN "new" ELSE "dirty"
        /\ step' = step + (IF schema = "new" THEN 2 ELSE 1)
        /\ UNCHANGED <<path, program, main, open, run, stop, err, ended, forced, early, troubles>>
     \/ Fatal

\* The migration is applied and the mark removed, or it fails and stays.
Apply ==
  /\ Stage({"apply"})
  /\ \/ /\ Onward
        /\ schema' = "new"
        /\ UNCHANGED <<open, run, stop>>
     \/ Fatal

\* 'defer ... Close()' after a client or the storage was made.
Keep ==
  /\ Stage({"redis", "storage"})
  /\ Onward
  /\ open' = Append(open, Stages[step])
  /\ UNCHANGED <<run, stop, schema>>

\* NewAuthClient and NewUserClient do not connect, but may refuse their options.
Dial ==
  /\ Stage({"authClient", "userClient"})
  /\ \/ /\ Onward
        /\ open' = Append(open, Stages[step])
        /\ UNCHANGED <<run, stop, schema>>
     \/ Fatal

\* 'go func() { ... Run() ... }()'.
Launch ==
  /\ Stage({"metrics", "rest", "grpc"})
  /\ Onward
  /\ run' = [run EXCEPT ![Stages[step]] = "launched"]
  /\ UNCHANGED <<open, stop, schema>>

StartUp == LoadConfig \/ Ping \/ LoadCreds \/ Migrate \/ Apply \/ Keep \/ Dial \/ Launch
-----------------------------------------------------------------------------
(* The goroutine of a server.                                              *)

RunTo(s, p) ==
  /\ run' = [run EXCEPT ![s] = p]
  /\ UNCHANGED <<path, program, main, step, open, stop, err, ended, schema, forced, early, troubles>>

\* Nobody has told s to stop.
Undisturbed(s) == stop[s] \in {"no", "called"}

\* gRPCServer.Run assigns the server after it has its listener.
MakeServer(s) == s = "grpc" /\ run[s] = "launched" /\ RunTo(s, "made")

\* Serve and ListenAndServe. After Shutdown ListenAndServe returns
\* ErrServerClosed, which is no error; after GracefulStop Serve returns
\* ErrServerStopped, which is one.
Serve(s) ==
  \/ s = "grpc" /\ run[s] = "made"
       /\ RunTo(s, IF Undisturbed(s) THEN "serving" ELSE "failed")
  \/ s # "grpc" /\ run[s] = "launched"
       /\ RunTo(s, IF Undisturbed(s) THEN "serving" ELSE "over")

\* ErrServerClosed is not looked for.
ClosesIsErrorMutant(s) ==
  /\ run[s] = "serving"
  /\ \/ s = "grpc" /\ stop[s] \notin {"no", "called", "begun"} /\ RunTo(s, "returned")
     \/ s # "grpc" /\ ~Undisturbed(s) /\ RunTo(s, "failed")

\* A server that is stopped: ListenAndServe returns at once, gRPC's Serve when
\* the stop is over.
Closes(s) ==
  /\ run[s] = "serving"
  /\ \/ s = "grpc" /\ stop[s] \notin {"no", "called", "begun"} /\ RunTo(s, "returned")
     \/ s # "grpc" /\ ~Undisturbed(s) /\ RunTo(s, "closed")

\* The address is in use, or the listener breaks.
RunFails(s) ==
  /\ run[s] \in {"launched", "serving"} /\ Undisturbed(s)
  /\ run' = [run EXCEPT ![s] = "failed"]
  /\ troubles' = troubles \cup {"server"}
  /\ UNCHANGED <<path, program, main, step, open, stop, err, ended, schema, forced, early>>

\* The services assign the result of Run to the err of main; the gateway's
\* goroutines have an err of their own.
AssignRun(s) ==
  /\ s = "grpc" /\ run[s] \in {"returned", "failed"}
  /\ err' = IF run[s] = "failed" THEN "error" ELSE "nil"
  /\ run' = [run EXCEPT ![s] = "assigned"]
  /\ UNCHANGED <<path, program, main, step, open, stop, ended, schema, forced, early, troubles>>

Exits ==
  /\ End("exited")
  /\ UNCHANGED <<program, main, step, open, run, stop, err, schema, forced, early, troubles>>

\* 'err != nil' of whatever err is by then; os.Exit(1) if so.
TestRun(s) ==
  \/ s = "grpc" /\ run[s] = "assigned" /\ (IF err = "nil" THEN RunTo(s, "over") ELSE Exits)
  \/ s # "grpc" /\ run[s] = "failed" /\ Exits

RunStep(s) == MakeServer(s) \/ Serve(s) \/ Closes(s) \/ AssignRun(s) \/ TestRun(s)

\* A server hands on a request: until its stop is over, and on connections that
\* an HTTP server has left open for ever after.
Accept(s, r) ==
  /\ \/ run[s] = "serving" /\ stop[s] \in {"no", "called", "begun"}
     \/ run[s] = "closed" /\ (stop[s] = "begun" \/ s \in forced)
  /\ Enter(r, s)
  /\ UNCHANGED process
-----------------------------------------------------------------------------
(* The signal, and what follows.                                           *)

MainTo(p) ==
  /\ main' = p
  /\ UNCHANGED <<path, program, step, open, run, stop, err, ended, schema, forced, early, troubles>>

\* signal.NotifyContext.
Register == main = "starting" /\ step > Len(Stages) /\ MainTo("waiting")

\* SIGTERM or SIGINT. Without a handler, before main has registered and after
\* the deferred cancel, it ends the process.
Signal ==
  \/ main = "waiting" /\ MainTo("signalled")
  \/ main \in {"starting", "closing", "unwinding"} /\ EndIn("killed", "signal")

\* SIGKILL, or the machine is switched off.
Kill == EndIn("killed", "kill")

\* main calls Stop, or starts a goroutine for each.
CallStop ==
  /\ main = "signalled"
  /\ main' = "stopping"
  /\ stop' = [s \in Servers |-> "called"]
  /\ UNCHANGED <<path, program, step, open, run, err, ended, schema, forced, early, troubles>>

StopTo(s, p) ==
  /\ stop' = [stop EXCEPT ![s] = p]
  /\ UNCHANGED <<path, program, main, step, open, run, err, ended, schema, forced, troubles>>

\* GracefulStop and Shutdown. A gRPC server that is not assigned yet is nil, and
\* the goroutine panics; one that does not serve yet will not.
BeginStop(s) ==
  /\ stop[s] = "called"
  /\ early' = IF s = "grpc" /\ run[s] \in {"launched", "made"} THEN early \cup {s} ELSE early
  /\ IF s = "grpc" /\ run[s] = "launched"
       THEN /\ End("panicked")
            /\ UNCHANGED <<program, main, step, open, run, stop, err, schema, forced, troubles>>
       ELSE StopTo(s, "begun")

\* No request is left: the graceful stop is over.
Drained(s) ==
  /\ stop[s] = "begun" /\ \A r \in Request : ~Inside(r, s)
  /\ StopTo(s, "drained") /\ UNCHANGED early

\* There is no timer.
TimeUpNeverMutant(s) == FALSE

\* The shutdown timeout: Shutdown returns its context's error; Stop of the
\* gRPC server closes the connections and does not wait for the handlers.
TimeUp(s) ==
  /\ stop[s] = "begun"
  /\ stop' = [stop EXCEPT ![s] = "timedOut"]
  /\ forced' = forced \cup {s}
  /\ UNCHANGED <<path, program, main, step, open, run, err, ended, schema, early, troubles>>

\* 'if err = Stop(); err != nil { log(err.Error()) }' on the err of main, which
\* other goroutines assign as well: the assignment, the test, and the use.
AssignStop(s) ==
  /\ stop[s] \in {"drained", "timedOut"}
  /\ err' = IF stop[s] = "timedOut" THEN "error" ELSE "nil"
  /\ stop' = [stop EXCEPT ![s] = "assigned"]
  /\ UNCHANGED <<path, program, main, step, open, run, ended, schema, forced, early, troubles>>

TestStop(s) ==
  /\ stop[s] = "assigned"
  /\ StopTo(s, IF err = "nil" THEN "over" ELSE "using") /\ UNCHANGED early

\* err.Error() of a nil error panics: in the gateway in a goroutine of its own,
\* in a service in main, whose deferred calls are run.
UseErr(s) ==
  /\ stop[s] = "using" /\ main = "stopping"
  /\ IF err # "nil" THEN StopTo(s, "over") /\ UNCHANGED early
     ELSE IF program = "gateway"
       THEN /\ End("panicked")
            /\ UNCHANGED <<program, main, step, open, run, stop, err, schema, forced, early, troubles>>
       ELSE MainTo("unwinding")

StopStep(s) ==
  BeginStop(s) \/ Drained(s) \/ TimeUp(s) \/ AssignStop(s) \/ TestStop(s) \/ UseErr(s)

\* wg.Add(1) where it should be 2.
StoppedFirstMutant == main = "stopping" /\ (\E s \in Servers : stop[s] = "over") /\ MainTo("closing")

\* wg.Wait in the gateway; in a service Stop was called by main itself.
Stopped == main = "stopping" /\ (\A s \in Servers : stop[s] = "over") /\ MainTo("closing")

\* The first opened is closed first.
CloseFirstMutant ==
  /\ main \in {"closing", "unwinding"} /\ open # <<>>
  /\ open' = Tail(open)
  /\ UNCHANGED <<path, program, main, step, run, stop, err, ended, schema, forced, early, troubles>>

\* The deferred calls of main.
Close ==
  /\ main \in {"closing", "unwinding"} /\ open # <<>>
  /\ open' = SubSeq(open, 1, Len(open) - 1)
  /\ UNCHANGED <<path, program, main, step, run, stop, err, ended, schema, forced, early, troubles>>

\* main returns, or its panic is complete.
Return ==
  /\ main \in {"closing", "unwinding"} /\ open = <<>>
  /\ End(IF main = "closing" THEN "returned" ELSE "panicked")
  /\ UNCHANGED <<program, main, step, open, run, stop, err, schema, forced, early, troubles>>

MainStep == Register \/ CallStop \/ Stopped \/ Close \/ Return

\* Somebody starts the program again.
Restart ==
  /\ ended # "no"
  /\ PathReset
  /\ main' = "starting"
  /\ step' = 1
  /\ open' = <<>>
  /\ run' = [s \in Servers |-> "off"]
  /\ stop' = [s \in Servers |-> "no"]
  /\ err' = "nil"
  /\ ended' = "no"
  /\ forced' = {}
  /\ early' = {}
  /\ troubles' = {}
  /\ UNCHANGED <<program, schema>>

LifecycleNext ==
  \/ /\ ended = "no"
     /\ \/ StartUp \/ MainStep \/ Signal \/ Kill
        \/ \E s \in Servers : RunStep(s) \/ StopStep(s) \/ RunFails(s)
        \/ \E s \in Servers, r \in Request : Accept(s, r)
        \/ \E r \in Request : Handle(r) /\ UNCHANGED process
  \/ Restart

LifecycleSpec == LifecycleInit /\ [][LifecycleNext]_all

\* Goroutines are scheduled and timers fire. Handlers may hang.
FairLifecycleSpec ==
  /\ LifecycleSpec
  /\ WF_all(ended = "no" /\ MainStep)
  /\ \A s \in {"metrics", "rest", "grpc"} :
       /\ WF_all(ended = "no" /\ s \in Servers /\ RunStep(s))
       /\ WF_all(ended = "no" /\ s \in Servers /\ StopStep(s))
-----------------------------------------------------------------------------
(* Properties.                                                             *)

\* The types of the variables; what is open was opened in order.
LifecycleTypeOK ==
  /\ PathTypeOK
  /\ program \in Programs
  /\ main \in {"starting", "waiting", "signalled", "stopping", "closing", "unwinding"}
  /\ step \in 1..(Len(Stages) + 1)
  /\ open \in Seq(Clients)
  /\ Len(open) <= Len(Opened) /\ \A i \in 1..Len(open) : open[i] = Opened[i]
  /\ run \in [Servers -> {"off", "launched", "made", "serving", "closed", "returned",
                          "failed", "assigned", "over"}]
  /\ stop \in [Servers -> {"no", "called", "begun", "drained", "timedOut", "assigned",
                           "using", "over"}]
  /\ err \in {"nil", "error"}
  /\ ended \in {"no", "returned", "exited", "panicked", "killed"}
  /\ schema \in {"old", "dirty", "new"}
  /\ forced \subseteq Servers
  /\ early \subseteq Servers
  /\ troubles \subseteq {"start", "server", "signal", "kill"}

\* A handler never works with a storage or client that is closed, whatever the
\* order in which two servers are stopped, unless the graceful stop of its own
\* server took too long.
HandlersHaveStorage ==
  \A r \in Request :
    phase[r] = "inside" /\ on[r] \notin forced => open = Opened

\* How the goroutines that run and stop the servers bring each other down, when
\* nothing fails from outside: what may go wrong is
\*   - in a service, that Stop comes before Run has assigned the server (Stop
\*     panics) or before it serves (Run fails, and the process exits);
\*   - that the err of main is overwritten between its test and its use: in the
\*     gateway if one of the two stops took too long and the other did not, in a
\*     service, by Run, if the stop took too long; there Run's goroutine may also
\*     read the error of Stop, and exit.
\* In every other case the process returns from main with everything closed. And
\* whatever the disorder, it cuts no request but those of a server whose graceful
\* stop took too long.
DisorderHasCause ==
  ended # "no" /\ troubles = {} =>
    /\ ended = "exited" => program # "gateway" /\ early \cup forced # {}
    /\ ended = "panicked" =>
         \/ early # {} /\ run["grpc"] = "launched"
         \/ forced # {} /\ (IF program = "gateway" THEN forced # Servers ELSE open = <<>>)
    /\ ended = "returned" => open = <<>>
    /\ \A r \in Request : phase[r] = "cut" => on[r] \in forced

\* The user service serves on a schema that is complete, whenever earlier runs
\* of it were killed.
ServesMigrated ==
  program = "user" /\ run["grpc"] = "serving" => schema = "new"

\* After a signal that main has received the process ends, although a handler
\* may hang for ever.
SignalEnds == (main = "signalled") ~> (ended # "no")
=============================================================================
