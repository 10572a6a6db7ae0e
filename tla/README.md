# Restaurant platform: verification project

TLA+ models of the platform's protocols: what the auth service promises about
refresh tokens, how it keeps that promise on Redis and on SQLite, what the
gateway and the browser make of it, registration and login of users, the
gateway's rate limiter and circuit breaker, the layers around a handler, and the
life of a process from its start to its end. TLC checks the models on small
instances; TLAPS proves their safety properties for every value of the
constants. Paths below are relative to the repository's root.

## The system

| component | state it keeps | operations | talks to |
|---|---|---|---|
| gateway, REST (`services/gateway/internal/delivery/rest`) | none of its own; the browser's `refresh_token` cookie and the metrics | `/register`, `/login`, `/refresh`, `/logout` | auth and user services over gRPC |
| gateway, gRPC clients (`internal/client`) | one circuit breaker and one connection with a retry policy per service | one method per RPC, error mapping | auth, user |
| gateway, rate limiter (`middleware/ratelimiter.go`) | counters in Redis, one per path and one per path and `RemoteAddr` | `checkLimit`: INCR, EXPIRE, DEL | Redis |
| auth service (`services/auth`) | refresh tokens in Redis (SQLite and a mock implement the same interface) | `GenerateTokens`, `RefreshTokens`, `RevokeRefreshToken`, `ValidateToken` | Redis |
| user service (`services/user`) | a table of users with a unique name | `RegisterUser`, `LoginUser` | PostgreSQL |
| circuit breaker (`pkg/circuitbreaker`) | counts, state and generation inside gobreaker | `Execute` around every RPC of a client | - |
| SQLite and mock storages (`services/auth/internal/storage`) | a table of tokens with a flag `revoked` | `SaveRefreshToken`, `GetRefreshToken`, `RevokeAndSave`, `RevokeRefreshToken` | a SQLite file; a map under a mutex |
| request path (`middleware/`, `metrics/`, `pkg/httputil`, `pkg/interceptors`) | the status a request has got, the counter and the gauge of the metrics | Recoverer, Logger, Timeout, metrics around a handler; the gRPC interceptors | the server below, the handler above |
| Redis client (`pkg/clients/redis.go`) | connection pool | every command, with go-redis' default repeats | Redis |
| life cycle (`cmd/main.go` of three programs, `delivery/grpc/grpc.go`, `rest.go`, `metrics.go`) | servers, the error `err` of `main`, what the deferred calls close | start-up, run, signal, graceful stop against a timer, deferred calls | everything the program has opened |
| plumbing (`pkg/config`, `logger`, `migrator`, `tls`) | configuration, files, log, the schema's version | start-up | - |

### What is hard, and what makes each component correct

* **Refresh tokens.** `RevokeAndSave` is EXISTS, then DEL and SET NX in a plain
  pipeline: three commands that interleave with those of other calls, that
  go-redis runs again on another connection when a reply is lost, while the
  attempt it gave up may still be on its way, and that a crash may cut anywhere.
  Correct means: a token is good for one exchange or one revocation; a token
  that was taken never works again; what a client was given works until
  somebody takes it; "not found" is true; one login never forks into two tokens
  that can both go on; a revocation ends the login. One thing breaks this, a
  first SET NX that is executed after its repeat was answered and the token
  taken (`RevokedIsRefused`); the properties say how far the damage goes.
* **Gateway session.** gRPC repeats RPCs that are not idempotent, the request
  timeout ends the wait but not the RPC's effect, responses reach the browser
  late or never, and several tabs share one cookie. Correct means: one cookie
  buys one exchange; a dead cookie has a reason the user can see; a logout that
  was answered has revoked its token.
* **Rate limiter.** INCR and EXPIRE are separate commands, a repeated INCR
  counts twice, and the compensation runs in the context whose end made it
  necessary. Correct means: never more than the limit in a window; every
  counter expires.
* **User service.** A unique index decides between racing registrations, and
  gRPC repeats a registration that has succeeded, as database/sql repeats an
  INSERT whose connection broke. Correct means: one user per
  name, a client that was told "exists" or "created" was told the truth, and a
  login finds what an answered registration has stored.
* **Circuit breaker.** Late results of an older generation, probes at the limit
  of `maxrequests`, business errors that count as failures. Correct means: a
  service on trial is spared, old results count for nothing, and a service that
  answers is let in again.
* **SQLite storage.** Four methods that look atomic; `RevokeAndSave` is a
  transaction of four statements, each of which may fail or be cut off while
  other connections read, wait for the lock, or write. Correct means: the
  transactions look like single steps, a new token never comes without the end
  of the old one, what a client was told is so and stays so, and no error path
  leaves the database locked.
* **Request path.** A handler's return, its panic and the 15 s deadline come
  together, and four layers want to write or read the status. Correct means:
  log, metrics and client see one status, a panic is answered, the gauge comes
  back.
* **Life cycle.** Two servers stopped by two goroutines, each with a timer, while
  requests run and the server goroutines report through variables that are
  shared; a signal may come at any stage. Correct means: handlers have their
  storage, the goroutines bring each other down in no more than the few ways
  that are known, the process ends, and a start that was cut off in a migration
  does not lead to service on half a schema.

`PROJECT.json` lists every hazard with its line and the properties aimed at it.

## The modules

| module | models | relation |
|---|---|---|
| `RefreshSessions` | the promise: a session has at most one exchangeable token, `Open`, `Rotate`, `Close`; and what is left of it when a session breaks, `Break`, `Stray` | abstract specification |
| `AuthService` | the three state-changing RPCs, Redis command by Redis command | implements `RefreshSessions` (`Promise == INSTANCE ... WITH`) |
| `AuthServiceProofs`, `AuthServicePromise` | safety theorems; the refinement theorem | EXTEND `AuthService` |
| `TokenTable` | a storage that keeps revoked tokens: every method one step | the mock; abstract specification of `SqlTokenStore` |
| `SqlTokenStore` | the same on SQLite, statement by statement | EXTENDS and implements `TokenTable` (`ImplementsTable`) |
| `SqlTokenStoreProofs` | theorems of both; the refinement theorem | EXTENDS `SqlTokenStore` |
| `GatewaySession` | `/login`, `/refresh`, `/logout`, the gRPC attempts and the cookie | EXTENDS `AuthService`: its steps are the service's |
| `GatewaySessionProofs` | theorems of the session; that it uses the service as `AuthService` allows | EXTENDS `GatewaySession`, `AuthServicePromise` |
| `RateLimiter` | `checkLimit` and `Middleware` for one limited path | independent |
| `RateLimiterProofs` | theorems of the limiter | EXTENDS `RateLimiter` |
| `CircuitBreaker` | `Execute` around the RPCs of one client | independent; the other gateway modules take its refusals as possible at any time |
| `CircuitBreakerProofs` | theorems of the breaker | EXTENDS `CircuitBreaker` |
| `UserDirectory` | what registration and login promise: a directory that decides each question in one step, `Register`, `Conflict`, `Login` | abstract specification |
| `UserService` | `/register`, the first half of `/login`, the user service and its table | implements `UserDirectory` (`Directory == INSTANCE ... WITH`); where it answers a login 200, `GatewaySession` takes over |
| `UserServiceProofs` | theorems about users; the refinement theorem | EXTENDS `UserService` |
| `RequestPath` | the layers around REST and gRPC handlers | the requests of `Lifecycle` |
| `Lifecycle` | the three mains, their goroutines, signals, ends and restarts | EXTENDS `RequestPath`: `End` cuts its requests |
| `LifecycleProofs` | theorems of both | EXTENDS `Lifecycle` |
| `MC*` | symmetry sets, and the constraints that stand for them | EXTEND the module they check |

### AuthService

A gRPC call is a member of `Call` that runs once. `pc[c]` is the Redis command
it is about to run: `save` (SaveRefreshToken's SET NX), `get` (GetRefreshToken),
`exists`, `del`, `setnx` (RevokeAndSave), `revoke` (DEL). The Go locals a later
command uses are `arg`, `new` and `deleted`; `store` is the set of keys in
Redis, `expired` the tokens whose `exp` has passed. Minting and the command that
follows it, which touch nothing shared in between, are one step with the
command before it (`StartGenerate`, `Get`).

* `ReplyLost(c)` is every way in which a command's reply does not come. The
  command was executed (it is a disjunct of the command's action) or not
  (`CommandLost`), and go-redis repeats it or the handler returns
  `codes.Internal`. A pipeline is repeated from its DEL, although the first DEL
  may have been executed.
* An attempt that Redis has not seen when go-redis gives it up is lost or goes
  into `late` (`Delayed`): go-redis closes the connection and repeats on another
  one, but bytes that were written may be delivered and executed at any time,
  after the repeat, after the answer, after other calls (`ArrivesLate`). A late
  pipeline is its DEL and then its SET NX. A late GET or EXISTS changes nothing.
  `revived` is history: the tokens that somebody had taken and whose key a late
  SET NX put back. The logins they belong to are `Broken`.
* `Expire` is the JWT's `exp`, `Evict` the Redis TTL, which is computed later and
  therefore ends later. `Crash` ends the process and its calls; Redis stays.
* The history variables `taker` (whose DEL removed the key first) and `session`
  (the login a token descends from) are read by properties only.
* A token does not expire while its call, or an attempt of it, is on its way: TTLs
  are days.

Only one step takes back what was promised: a late SET NX whose call was answered
OK meanwhile, and whose token was taken. `NoResurrection` says that this is the only
one; `RevokedIsRefused` (below) that it happens. Everything else is stated in spite
of it: `SingleUse` and `NotFoundMeansGone` leave out a token in `revived`,
`OneLivePerSession` and `RevokeEndsSession` a login in `Broken`. The refinement
makes the same cut: `RefreshSessions` has a set `broken` of sessions whose head is
not spoken of, `Break` puts a session into it and `Stray` is what an exchange in
such a session may still do, take a token that nobody else will get. All other
sessions keep the whole promise.

Tokens are opaque: what signature, claims and `jti` amount to is that a minted
token is one that no other call minted. Clients send tokens they were given in
an OK response, or `Junk`, a string that does not parse.

### GatewaySession

`Begin`, `Retry`, `Receive`, `Unavailable` and `Timeout` are the life of one RPC
under gRPC's retry policy and the 15 s middleware. `Refused` is the circuit
breaker, whose own state machine is not here: it may refuse at any time, which
is more than it really does. `late` attempts of the service arrive here as well, and the
properties leave out what they have put back or broken. `StatusFor` and `CookieAfter` are the error mapping
of `grpc_auth.go` and of the handlers. Each attempt is a new call of
`AuthService`; an attempt given up goes on at the server. `/login` starts where
the user service has accepted the credentials. A body that is not JSON (400) is
refused before anything modelled here happens and is left out, as it is in
`UserService`.

### RateLimiter

A request counts in `All` and then, if the path has a per-IP limit, in the
counter of its `Addr`. `Addr` is Go's `RemoteAddr`, address and port: the
counter is that of one connection. `Cancel` ends the request's context, after
which go-redis runs nothing: `CommandLost` is then the only step of each
command left, and both the EXPIRE and the DEL that should repair it fail.
An attempt that was given up is executed before the next one or never. This is an
assumption here: go-redis does not promise it, and a command that is executed in a
later window than its own is not modelled (`AuthService` has such commands).
`window`, `unsure` and `undone` are history for the properties.

### CircuitBreaker

`Call`, `Refuse` and `Return` are the two halves of `Execute`: gobreaker decides
under its lock, runs the RPC outside of it, and counts the result under the lock
again. gobreaker is a library and its operators (`Current`, `Success`,
`AfterRpc`, ...) are modelled from its documented behaviour under the settings
of `circuitbreaker.New`. Its generation number is replaced by the set
`breaker.calls` of RPCs admitted in the current period, and its deadlines by
`due`: when one has passed, nothing happens before the next caller looks
(`Current`). `told` is what `grpc_user.go` and `grpc_auth.go` make of the outcome.
The history variables are `stale`, the running RPCs that have seen the state
change, and `everDown`, that some RPC failed for want of an answer.

### UserService

Attempt n of request r is `<<r, n>>`; it also stands for the uuid a registration
would create. `pc[a]` is the statement an attempt is about to run. `Insert` is the
INSERT with the unique index deciding, `StatementFails` one that is not executed,
and an INSERT that is executed may still be answered `codes.Internal` because its
result is lost. `InsertAgain` is the INSERT that is executed and then run again by
the same `ExecContext`: lib/pq turns an EOF or a FATAL that it reads after sending
the statement into `driver.ErrBadConn`, and database/sql takes that for a connection
to be replaced. The second run meets the row of the first one and is answered
`AlreadyExists`; `resent` is the history of it. An INSERT that is executed only
after its attempt was given up with 500 looks to everybody like one whose request
was given up while it ran, which is `GivenUp`.
`Begin`, `Retry`, `Receive` and `GivenUp` are the RPC seen from the
gateway, as in `GatewaySession`; the reply to an attempt that was given up is
discarded while its statement goes on (`Reply`). `StatusFor` composes the mapping
of `grpc_user.go` with that of the handlers. `before[r]`, the registrations
answered before r arrived, is history. bcrypt is the comparison with the
password stored; lengths are valid or not (`Bad`).

`UserDirectory` is the same without RPCs: `accounts` are the rows with the request
each came from, `reply` is a decision not told yet, `told` what the client heard.
A decision falls in one step between the request (`Ask`) and its response (`Tell`);
`Register` is the only action that adds an account, and `Login` answers from the
accounts of that moment. What RPCs leave of this promise is in two actions:
`Tell` may replace a decision by an error that says nothing, and `Register` may act
for a request that was repeated, by gRPC or by database/sql, or already told, with
no decision to tell. So a client that hears 500 or 503 learns nothing, one that
hears anything else hears what was true at one moment of its request, and one whose
question was put and looked at once never conflicts with itself. The refinement mapping (`Accounts`, `ToldBy`) forgets
attempts and statements.

### TokenTable and SqlTokenStore

`TokenTable` is the auth service on any storage that keeps a row for a revoked
token: `pc[c]` is the storage method a call is about to run, and each method is
one step. This is the mock, whose methods hold a mutex throughout. `GiveUp` is an
error of the storage itself, which the mock never returns. `Foreign` is a token
with a good signature that this storage has never seen, as after a change of
storages; it is what makes "not found" possible.

`SqlTokenStore` replaces `RevokeAndSave` by `Update`, `Insert` and `Commit`. `tx` is
the transaction that has the write lock: whose it is, where it stands and the
table as it sees it. BEGIN is deferred, so the lock is taken by the UPDATE, and a
writer that does not get it either waits (its action is not enabled) or fails
(`Fail`). A reader, `Get`, sees committed rows. `Fail` and `SqlCrash` end a
transaction without a trace, by the deferred Rollback and by SQLite's journal.
A COMMIT whose outcome is unknown does not occur: the database is a file of the
same process.

### RequestPath and Lifecycle

`RequestPath` has one record of variables per request: `status` is the
`StatusCode` of the shared `ResponseWriter`, `wire` what the client is sent. They
can differ, since Recoverer writes below that writer. `RestReturns` and
`RestPanics` are what the layers do from the inside out: all of it on a return,
only the deferred part on a panic. A deadline (`Deadline`) marks the request and
stops nobody.

`Lifecycle` is one process at a time. `main` walks through `Stages`, which
differ per program, and each stage is an action that goes on or ends the
process. `run[s]` and `stop[s]` are the goroutine that runs server s and the
code that stops it, which is a goroutine of its own in the gateway and `main`
itself in the services; `open` is the stack of deferred `Close` calls. The
services' server goroutine and their `main` assign the same `err`, and so do the
gateway's two stop goroutines: assignment, test and use are separate steps
(`AssignRun`, `TestRun`, `AssignStop`, `TestStop`, `UseErr`). Reads and writes
of one word are atomic; Go calls such a race undefined, amd64 and arm64 do not
tear an interface's nil test, and what `Error()` would find in a half written
interface is not modelled beyond the panic. `troubles`, `forced` and `early` are history: what went wrong from
outside, which graceful stops ran out of time, and which gRPC server was stopped
before its goroutine had assigned it (GracefulStop on nil panics) or called Serve
(Serve then fails). `troubles` holds nothing that the process does to itself:
`DisorderHasCause` lists how the goroutines can bring each other down, by an early
stop or by the shared `err` after a forced one, with the exact conditions for each
end, and says that there is no other way and that only a forced stop cuts requests.
`Restart` starts the program again with nothing left but `schema`.

## Runs

| run | instance | shows |
|---|---|---|
| `auth_safety` | 3 calls, 3 tokens, 1 repeat, 2 late attempts at a time | the safety properties of `AuthService`; every call is answered; it implements `RefreshSessions` |
| `auth_revoked` (violation) | 3 calls, 1 repeat, 1 late attempt | a token whose revocation was answered OK can be exchanged |
| `auth_refused` (violation) | 3 calls, no repeat | a refused refresh can leave a live key |
| `gw_session` | 3 requests, 3 calls, 2 attempts; 1 late Redis attempt or expiry, 1 lost response | one exchange per cookie, causes of a stale cookie, answered logouts and what they can lose to |
| `gw_logout_race` (violation) | the same, nothing late | after a 200 `/logout` the browser can hold a live token of the same session |
| `rl_safety` | 3 requests of one connection, limits of 2, 1 repeat, symmetry | a window never admits its limit; each request counts once, or at most once per attempt; a counter without expiry needs a fault |
| `rl_expiry` (violation) | 3 requests, 2 connections | one lost reply leaves a counter that never expires |
| `cb_safety` | 4 requests at a time, `maxrequests` 2, `maxfailures` 1 | trials are bounded and never stuck, late results ignored, the breaker closes again |
| `cb_business` (violation) | 3 requests at a time | wrong passwords make the service "unavailable" |
| `users` | 3 requests, 2 attempts, 1 name, 2 passwords, symmetry | 201, 409 and a login's answer agree with the table; `UserService` implements `UserDirectory` |
| `sql_store` | 3 calls, 3 tokens and a foreign one | SQLite's transactions implement single steps; answers are true; the lock is released |
| `lifecycle` | 2 requests, all three programs, unbounded restarts | status, storage, shutdown and schema in every order of goroutines, signals and failures; a signal ends the process |

**Why these bounds are enough.** Every hazard of `AuthService` is between calls
on one token and its successors. A token must first be issued (one call), and two
more race for it or follow one another, an exchange and then a use of what it left.
With one repeat each command is executed twice, the second time before or after
its call is answered: late attempts make every order of the two possible. `MaxLate`
2 lets the attempts of two calls, or both of one, be under way together. Calls and
tokens are interchangeable; since the run has liveness properties, for which
symmetry sets are unsound, the action constraint `InOrder` starts calls and mints
tokens in the order of their numbers instead. It only picks one behaviour of those
that differ by a renaming. What four or more calls and other numbers could add is
left to the theorems, which are for all of them. `GatewaySession` uses
two gRPC attempts, so that a repeat can meet what its first attempt did, one Redis
attempt that arrives late, and no Redis repeats, which `auth_safety` covers; and
few faults at once (`FewFaults`): one token of three expires at most, not while an
attempt is late nor before one is, and one response is lost at most, since no
property relates the expiry of two tokens or the loss of two responses. The run
picks the idle call, the unused token and the next request by CHOOSE: names make no difference, the
overlap of requests does and is complete. In `RateLimiter` a limit of 2 is the
smallest that admits anybody: `remaining == 0` is true for the last request
within it, so that a limit of n admits n-1 (`ratelimiter.go:71`). Three requests
go one past it; connections share nothing but the path's counter, which in a run
with one connection is hit in every order as well.

In `CircuitBreaker` a request may come again for ever; four at a time fill a trial
of two and leave two running from before, and with `maxfailures` 1 one failure is
tolerated and the second opens. Its states are finite without a bound. In
`UserService` three requests are two registrations that race and a login, a
registration and two logins, or three racing registrations, each with a repeat.
They are about one name: requests for different names share no row, and no
statement reads the row of another name. Two passwords tell whose row it is.
Refinement is checked there as an initial condition and a condition on steps, so
that symmetry is sound.

In `SqlTokenStore` three calls are a login and two that race for its token, or
three on a token the table has not seen; a third writer would only wait like the
second. In `Lifecycle` the process has at most two servers, so that two requests
are one on each, or two that overlap on one; its states are finite without a
bound, restarts included.

Deadlock is checked for the breaker and the life cycle. Elsewhere it is not:
every call and request happens once, and the system rests when all are over.

**Fairness.** `AuthService` has `Answered` under `WF_vars(Step(c))` for each
call: Go schedules a handler's goroutine and a Redis command returns or times
out (go-redis has read, write and dial timeouts). Nothing makes a client call, a
token expire or the process crash, and nothing makes replies arrive: that calls
are answered however many replies are lost is what the bound on repeats gives.
`SqlTokenStore` has `LockIsReleased` under `WF_sqlVars(Statement(c) \/ Fail(c))`
for each call: database/sql returns a result, or an error after the busy timeout
or the end of the context. `Lifecycle` has `SignalEnds` under weak fairness of
`main` and of each server's run and stop code, which are scheduled goroutines
and a timer. Handlers get none: they may hang for ever, and it is the timer that
ends the wait. `CircuitBreaker` has `Recovers` under weak fairness of
`TimeoutEnds`, a clock, and of each RPC's return, which `middleware.Timeout`
forces after 15 s. That requests keep coming and that RPCs have stopped failing
are premises in the property and not fairness of the code. The first is itself a
weak fairness condition, since a breaker that repeats the same refusal for ever
changes no variable: "infinitely many refusals" would be false of just the
behaviour the property is there to exclude.

**Mutants.** Every property of a passing run has a definition `...Mutant` beside
the one it mutates: a dropped check, an uncounted repeat, a swapped outcome. With
the mutant in place the property is violated, so it says something about the
code.

## What the violation runs show

* `RevokedIsRefused`: a login's SET NX is slow, go-redis gives it up and repeats it,
  the client gets its token and revokes it, is answered OK, and then the first SET
  NX arrives: NX finds no key and the token is good again for the rest of its TTL.
  The same brings back an exchanged token. It takes a read timeout and a connection
  that still delivers, so it is rare. A client that does not repeat (MaxRetries -1
  in go-redis' options) would exclude it: an attempt given up is then answered
  `codes.Internal`, and its token belongs to nobody. `NoResurrection` says that
  there is no other way back.
* `RefusedStoresNothing`: a refresh and another call pass EXISTS/GET together;
  the other deletes the key; the refresh's pipeline then deletes nothing, stores
  its new token all the same and is answered "not found". The token is known to
  nobody and stays for the refresh TTL. A MULTI would execute both commands too:
  a script, or WATCH, would not.
* `LogoutEndsSession`: a `/refresh` that overtakes a `/logout` leaves the browser
  with a working cookie after both were answered 200. `LogoutLosesToRefreshOnly`, in
  `gw_session`, says that this is all: a logout that the auth service has answered
  loses its session only to a refresh of the same cookie, and was told "not found".
* `EveryCounterExpires`: the reply to the first INCR is lost, its repeat returns
  2, and EXPIRE is sent only for 1.
* `UnavailableMeansDown`: to the breaker "invalid credentials" is a failure like
  "no connection"; one more of them in a row than `maxfailures`, from anybody,
  locks everybody out until the timeout has passed.

`GatewaySession` also states `ForbiddenMeansDead`, that a 403 of `/refresh` says
something of the token. It does not hold (`codes.Internal` is mapped to
`ErrInvalidToken`); no run is spent on it.

Shorter observations made while modelling, without a run: `/logout` answers 200
on every error but "unavailable" (`handler.go:216`), hence the "answered" in
`AnsweredLogoutRevokes`. Two exchanges of one token that race on SQLite can both
succeed, because the UPDATE does not ask for `revoked=0`: that is why its property
is `SequentialUseIsSingle` and not `SingleUse`. A service whose `GracefulStop`
timed out may find `err` set to nil by its server's goroutine and panic on
`err.Error()`, or end by that goroutine's `os.Exit` (`DisorderHasCause`). The limiter's per-IP key is `RemoteAddr` with the port.
`len` counts bytes where the user service's message says characters. `/login` has
no case for `ErrUserInvalidRegisterDetails` and the breaker's `ErrTooManyRequests`
and answers 500. A registration whose INSERT database/sql ran again is answered
409 although nobody repeated anything (`ConflictHasCause`, `resent`). A signal that
comes before a service's goroutine has assigned `s.server` ends it by a nil pointer
panic, in the goroutine that `Stop` starts. `CBUser` is read from the key `auth` (`config.go:91`).

## Proofs

Every safety property and action property of a passing run is proved, as are
the three refinements and that `GatewaySession` uses the auth service as
`AuthService` allows. All theorems are for any sets of calls, tokens, requests,
addresses, names and passwords, any numbers of repeats and any limits, from the
assumptions `ConstantsAssumption`, `MaxAttemptsAssumption`, `LimitsAssumption`,
`BreakerAssumption`, `UsersAssumption`, `TableAssumption`, `NoCallAssumption`
and `ProgramsAssumption` on the constants' types. They inherit the model's
assumptions: Redis keeps what it acknowledged, a token does not expire while the
call that minted it, or an attempt of it, is under way, `jti`s are unique; and in
`RateLimiter` an abandoned attempt is executed before the next or never.

**AuthServiceProofs.** `Typed` is `TypeOK` with `Phases` (which RPC a call serves,
whether it has minted and whether it is answered, from where it is) and is proved
first; `LateOK` says of late attempts that they belong to an RPC that has come as far
as that. `StepFacts` then says once, for all steps, what a step may do to calls
(`Frame`, `Minting`, `Answers`), to Redis (`Keys`, `Deletions`) and to late attempts
(`Lateness`), so that the invariants are proved from these six facts and not action
by action. The
properties are not inductive, since none of them says where a token comes from.
`StepsAreCounted` needs no more than the types: `StepsLeft` counts the commands and
repeats a call can still take, every step of the call lowers it and no step of
anybody else raises it, so that a call ends after at most `4 * MaxRetries + 5` steps
of its own. This is what `Answered` rests on; that a running call always has a next
step, since its reply can at least be lost, and takes it, is the fairness TLC adds.
The invariant `Inv` adds to `Typed`:

* `UniqueMint`: a token is minted by one call;
* `Inputs`: clients present tokens they were given, or junk;
* `Takers`: a taken token had been given to a client, is not in `store` unless it is
  in `revived`, and was taken by a call that presented it and has reached its DEL;
* `Winners`: a call whose DEL found the key, and one that was answered OK, is the
  taker of the token it presented, or that token is in `revived` (`Took`). As a
  token has one taker this gives `SingleUse`;
* `Expiry`: only tokens of calls that have ended, with nothing late, expire;
* `IssuedIsLive` and `NotFoundMeansGone`.

A repeated SET NX is harmless for a reason the invariant makes visible: until its
call is answered, `new[c]` is a token no client knows (`RunningUnissued`), so no
call takes it. A late one is harmless as long as its token is untaken, and a late
pipeline's DEL always is: it takes the key of the token its call presented, or finds
nothing. `NoResurrection` is proved as an action property from `Inv`; the lemma is
`EnteringKeys`, which tells the two ways in which a key enters Redis apart.

`OneLivePerSession` needs the shape of a session's history. `SessionInv` is `Inv`
with `Lineage` (a token descends from a login: its own, or that of the token it
was exchanged for) and `OneOpenEnd` (of the tokens of a session that are in the
chain at most one is untaken, if the session is not `Broken`). `RevokeEndsSession` needs `Ended` on top: the
session of a token that a revocation took has no open end. All of them are about
the chain and not about `store`: a key left behind by a refused refresh is in
`store` but in no chain.

**AuthServicePromise** proves `Spec => Promise!Spec`: the initial states map to
initial states, and each step is `Open`, `Rotate`, `Close`, `Break`, `Stray` or a
stutter under `SessionHead`. The linearisation points are what the proof makes explicit. A
session's head moves when DEL takes it, not when SET NX stores its successor;
a pipeline whose reply is given up after its DEL is a `Close`, once nothing of it is
on its way (`Settled`); and a late DEL of a call that was given up is a `Rotate`, or
a `Stray` if the session has broken, although no client will ever hear of the token.

**GatewaySessionProofs** proves `GatewaySpec => Spec` first: `Begin` and `Retry`
start an idle call on a token that is in `Issued`, the service's own steps are its
own, and everything else leaves `vars` alone. So the service's theorems hold under
the gateway (`SessionsUnderGateway`). `GatewayInv` is the service's `Inv` with what
the gateway knows: `Handled` and `OwnAttempts` (a request's current attempt is its
own call on the cookie it carried), `AllSent` and `Cookies` (every token presented
came from a cookie, every cookie from an OK response), `Undelivered` (no browser
knows a token before its response), `Exchanged` and `Replaced`.
`OneExchangePerCookie` is then `SingleUse` of the two requests' calls. The exemptions
of `revived` and `Broken` are those of the service's properties; only
`StaleCookieHasCause` needs none.
`StaleCookieHasCause` follows from `IssuedIsLive`: a cookie that is not in Redis has
expired or has a taker, which was sent by some request with that cookie, and
`Replaced` excludes the one whose response arrived. `LogoutLosesToRefreshOnly` uses
the shape of the session's history as well: the cookie's token is an open end of
the session, and so would be the logout's token if nobody had taken it (`OneOpenEnd`);
its taker is no revocation, which would have ended the session (`Ended`), hence a
refresh, and `AllSent` names the request it came from. `PromiseUnderGateway` carries
the refinement of `RefreshSessions` over to the gateway.

**RateLimiterProofs.** `NoExpiryNeedsFault` is inductive with `TypeOK`: only an INCR
that returned 1 creates a key without expiry, and its request is then at `expire`
until it sets it or gives up a reply. The other two need `Places` (at which counter
a request stands, and that one that waits for its INCR is not in the window yet
unless a reply was lost) and `Counts` (a window has at most as many requests as its
counter says). `WithinLimit` is proved for the larger set of requests that have
passed a counter and may still be refused by the other one (`PassedBound`): a
request joins it by an INCR that returned less than the limit, and by `Counts` the
set is smaller than that number. The second half of `CountsEachOnce`, the bound that
holds whatever is lost, is not inductive: the counter grows with INCRs whose reply
is lost, not with requests. `CountedRan` bounds it by the set `Ran(k)` of the INCRs
its window's requests have made, all they could have made once a request has gone
on, and a finite set of pairs has at most `MaxRetries + 1` for each request.

**CircuitBreakerProofs.** The invariant `Inv` is `TypeOK` with `Members` (the
calls of the period are running, and none of them is stale) and `Trial` (in a
half-open period successes and running calls together are the requests admitted,
and by `Members` every running RPC that is not stale is one of these calls).
`ProbesBounded` is then the bound on `requests` that `Admits` keeps; and because
`Trial` is an equality, a trial that has admitted all it may and is not decided has
a call running, which is why no trial gets stuck.
`StaleResultsAreIgnored` follows from `Members`: a stale RPC is not among the
calls that `AfterRpc` counts. The calls of a period are finite because they are
added one at a time, so `Request` may be infinite.

**UserServiceProofs.** `Inv` is `TypeOK` with `Coming` (an attempt that has not been
made is idle), `Table` (a row comes from an attempt that has ended, or is about to
run its INSERT again, and carries its request's name and password, and a name has
one row), `Created` (an "OK" or a 201
of a registration is about the row of its current attempt), `LoggedIn` (an "OK" or
a 200 of a login found a row with its password) and `Before` (the registrations
before a request stay answered 201, and a login that came after them cannot come
to "not found"). Rows are never removed, and after `Retry` the reply to an
earlier attempt is not heard, which is why the row in a 201 is the current
attempt's. `ConflictHasCause` is proved from `Inv` and `Conflict`, which says the
same of the reply that is still on its way: a first attempt has inserted no row
before it finds one, so the row it finds is another request's, unless the attempt is
in `resent`.

`DirectoryImplemented` proves `Spec => Directory!Spec`. `DirectoryInv` adds `Asked`: a
request whose current attempt has not run its statement has no decision yet. So
the INSERT and the SELECT of a current attempt are the decisions (`InsertMaps`,
`FindMaps`); those of an attempt given up belong to a request that was repeated or
told (`DecisionMaps`), where an INSERT is a `Register` nobody hears of and anything
else a stutter; an INSERT that will be run again is a `Register` that leaves its
question open and marks the request repeated; and a response is a `Tell`, because the status mapping turns each
decision into itself or into an error (`ToldTyped`). `LoginNeedsRegistration`, that
nobody logs in as a user whose registration did not carry that password, is proved
too; no run checks it, since the directory says as much.

**SqlTokenStoreProofs.** `SqlTypeOK` says what an open transaction sees: the table
with its owner's changes only. That nobody writes while it is open is the lock;
that it is true at COMMIT is what makes the step a `RevokeAndSave` of `TokenTable`,
and gives `TableImplemented`. All other theorems are proved of `TokenTable` from
`TableInv` and carried over: `Shape` (which tokens a call has, from where it is),
`Mints` (a token has one minter and is in the table only by it), `Inputs`, and
`Turns` (a refresh that has found its token live came before any call it followed
had taken it), with `ExchangeIsAtomic` and `AnswerIsTrue`, which are inductive beside
them.

**LifecycleProofs.** `LifecycleInv` is `PathInv` for the requests with seven parts for
the process. `PathInv` has `Observed`, that status and wire agree until a panic, and
`GaugeOK`, that the gauge is the cardinality of a finite set that each step changes
by at most one member. `Progress` ties what is open to the stage `main` has come to,
`OnServers` the requests to servers that were started, `Stopping` what a server's
stop says of its run goroutine and of the requests inside, which gives
`HandlersHaveStorage`. `Blame` and `Errors` are the heart of `DisorderHasCause`.
`Blame` says that without a trouble a server goroutine is at an error only if its stop
was early, that `err` is an error, or about to be used, only if something is excused,
and that `err` turns nil under its user only by another assignment. `Errors` says
whose result `err` can be: in the gateway it is an error as long as only forced stops
have assigned it; in a service whose stop was not forced it is Run's error, and then
nobody assigns it any more. `Ending` is `DisorderHasCause` itself, with no request cut
before the end.

**Model-checked only.** The liveness properties `Answered`, `Recovers`,
`LockIsReleased` and `SignalEnds`: fairness and ENABLED are beyond the prover.

## Not modelled

* `ValidateToken` and access tokens: signature and clock, no state. The gateway's
  auth middleware is constructed and put on no route.
* Trace ids, the logger's format, `TraceClient`, the values in the configuration,
  `/health`: nothing a request's outcome or a process' end depends on. That
  reading, pinging and loading may fail is in `Lifecycle`.
* The user service's SQLite and mock storages and the mock hasher: test doubles
  with one method less of interest than `UserService` has; bcrypt is a comparison.
* Generated protobuf code.
* PostgreSQL, SQLite's file format, gobreaker, go-redis, grpc-go, net/http and
  golang-migrate: modelled where a module says so by what their use here shows,
  and marked external in `PROJECT.json`.
* Loss of acknowledged data by Redis: what it persists is not in this repository.

## How the project grew

1 `RefreshSessions` and `AuthService` with proofs and refinement, 2
`GatewaySession`, 3 `RateLimiter`, 4 `CircuitBreaker`, 5 `UserService`, 6
`TokenTable` and `SqlTokenStore` with their refinement, 7 `RequestPath` and
`Lifecycle`, 8 `WithinLimit` and `CountsEachOnce`, 9 `ConflictHasCause`, 10 the
session's theorems from the service's, 11 `UserDirectory` and its refinement, 12
`LogoutLosesToRefreshOnly`, 13 the bounds of `CountsEachOnce` under faults and of a
trial that cannot get stuck, 14 `StepsAreCounted`, 15 late
attempts in `AuthService` and what they break in `RefreshSessions`, the INSERT that is
run again, and the exact causes of `DisorderHasCause`. To come: late attempts in
`RateLimiter`; the same count for the
transactions of `SqlTokenStore` and for `Lifecycle` after a signal. Worth adding
when the code changes: a storage that survives Redis restarts, the auth
middleware once a route uses it, and fairness between clients of one path, should
the rate limiter come to promise any.
