---------------------------- MODULE AuthService ----------------------------
(***************************************************************************)
(* The auth service on its Redis storage: the gRPC handlers GenerateTokens,*)
(* RefreshTokens and RevokeRefreshToken (delivery/grpc/handlers.go), the   *)
(* JWTService methods they call (service/jwt.go) and the Redis storage     *)
(* (storage/redis/redis.go).                                               *)
(*                                                                         *)
(* A gRPC call is a process of its own that runs once; its Redis commands  *)
(* are separate steps, so the commands of different calls interleave       *)
(* (RevokeAndSave's pipeline is not a MULTI transaction). go-redis repeats *)
(* a command, or a whole pipeline, whose reply did not come, at most       *)
(* MaxRetries times, each time on another connection: an attempt that was  *)
(* given up may have been executed, is lost, or is still on its way and is *)
(* executed later, even after the call has been answered. Redis itself     *)
(* keeps what it acknowledged.                                             *)
(*                                                                         *)
(* A refresh token is an opaque value: its signature, claims and 'jti'     *)
(* uuid are abstracted to "a member of Token that no other call minted".   *)
(***************************************************************************)
EXTENDS Naturals, FiniteSets

CONSTANTS
  Call,        \* gRPC calls
  Token,       \* refresh tokens the service can mint
  Junk,        \* any string that does not parse as a refresh token
  NoCall,      \* "nobody"
  NoToken,     \* "no token"
  MaxRetries,  \* go-redis' Options.MaxRetries
  MaxLate      \* bound: given-up attempts on their way at the same time

ASSUME ConstantsAssumption ==
  /\ MaxRetries \in Nat
  /\ MaxLate \in Nat
  /\ NoCall \notin Call
  /\ NoToken \notin Token
  /\ Junk \notin Token
  /\ Junk # NoToken

VARIABLES
  store,       \* tokens whose key is in Redis
  expired,     \* tokens whose 'exp' claim has passed
  pc,          \* pc[c]: the Redis command call c is about to run
  op,          \* op[c]: which RPC the call is
  arg,         \* arg[c]: the token the client sent
  new,         \* new[c]: the refresh token the call minted
  deleted,     \* deleted[c]: the reply to the DEL of the pipeline
  tries,       \* tries[c]: repeats of the current command so far
  reply,       \* reply[c]: the gRPC status of the answer
  late,        \* given-up attempts to write that are still on their way
  revived,     \* history: taken tokens whose key such an attempt put back
  taker,       \* history: taker[t] is the call whose DEL removed t's key first
  session      \* history: session[t] is the login t descends from

storeVars == <<store, expired, taker>>
inputVars == <<op, arg, new, session>>
lateVars == <<late, revived>>
vars == <<store, expired, pc, op, arg, new, deleted, tries, reply, late, revived, taker, session>>

Running == {"save", "get", "exists", "del", "setnx", "revoke"}

\* The commands that change Redis.
Writes == {"save", "del", "setnx", "revoke"}

Init ==
  /\ store = {}
  /\ expired = {}
  /\ pc = [c \in Call |-> "idle"]
  /\ op = [c \in Call |-> "none"]
  /\ arg = [c \in Call |-> NoToken]
  /\ new = [c \in Call |-> NoToken]
  /\ deleted = [c \in Call |-> FALSE]
  /\ tries = [c \in Call |-> 0]
  /\ reply = [c \in Call |-> "none"]
  /\ late = {}
  /\ revived = {}
  /\ taker = [t \in Token |-> NoCall]
  /\ session = [t \in Token |-> NoCall]
-----------------------------------------------------------------------------
Minted == {t \in Token : \E c \in Call : new[c] = t}

\* Tokens that clients hold: they came back in an OK response.
Issued == {t \in Token : \E c \in Call : new[c] = t /\ reply[c] = "OK"}

\* The call that minted t, if any, has ended and nothing of it is on its way.
Settled(t) ==
  /\ \A c \in Call : new[c] = t => pc[c] = "done"
  /\ \A m \in late : new[m.call] # t

\* c goes on to the Redis command p.
Goto(c, p) ==
  /\ pc' = [pc EXCEPT ![c] = p]
  /\ tries' = [tries EXCEPT ![c] = 0]
  /\ UNCHANGED <<deleted, reply>>

\* The handler of c returns status r; its locals are gone.
Answer(c, r) ==
  /\ pc' = [pc EXCEPT ![c] = "done"]
  /\ reply' = [reply EXCEPT ![c] = r]
  /\ tries' = [tries EXCEPT ![c] = 0]
  /\ deleted' = [deleted EXCEPT ![c] = FALSE]

(* The operators named ...Mutant are faulty variants of the definition that *)
(* follows them. No specification uses them: they show which fault each     *)
(* property finds.                                                          *)

\* The client repeats once too often.
ReplyLostOnceMoreMutant(c) ==
  \/ /\ tries[c] <= MaxRetries
     /\ tries' = [tries EXCEPT ![c] = @ + 1]
     /\ pc' = [pc EXCEPT ![c] = IF @ = "setnx" THEN "del" ELSE @]
     /\ deleted' = [deleted EXCEPT ![c] = FALSE]
     /\ UNCHANGED reply
  \/ Answer(c, "Internal")

\* Repeats are not counted.
ReplyLostUncountedMutant(c) ==
  \/ /\ pc' = [pc EXCEPT ![c] = IF @ = "setnx" THEN "del" ELSE @]
     /\ deleted' = [deleted EXCEPT ![c] = FALSE]
     /\ UNCHANGED <<tries, reply>>
  \/ Answer(c, "Internal")

\* The error of a Redis command is dropped.
ReplyLostIgnoredMutant(c) == Answer(c, "OK")

\* Every error of a Redis command is taken for redis.Nil.
ReplyLostIsNilMutant(c) == Answer(c, "Unauthenticated")

\* The reply to c's command does not come: go-redis runs it again (the two
\* commands of a pipeline together), or the storage returns the error, which
\* the handler turns into codes.Internal.
ReplyLost(c) ==
  \/ /\ tries[c] < MaxRetries
     /\ tries' = [tries EXCEPT ![c] = @ + 1]
     /\ pc' = [pc EXCEPT ![c] = IF @ = "setnx" THEN "del" ELSE @]
     /\ deleted' = [deleted EXCEPT ![c] = FALSE]
     /\ UNCHANGED reply
  \/ Answer(c, "Internal")

\* DEL of c's argument, which is a key of Redis or not.
Del(c) ==
  /\ store' = store \ {arg[c]}
  /\ taker' = IF arg[c] \in store /\ taker[arg[c]] = NoCall
              THEN [taker EXCEPT ![arg[c]] = c] ELSE taker

\* SET NX of the token c minted.
SetNX(c) == store' = store \cup {new[c]}
-----------------------------------------------------------------------------
(* GenerateTokens: generateTokens mints, saveRefreshToken stores.          *)

\* Without the 'jti' uuid two tokens of one second are the same string.
StartGenerateSameTokenMutant(c, t) ==
  /\ pc[c] = "idle"
  /\ op' = [op EXCEPT ![c] = "generate"]
  /\ new' = [new EXCEPT ![c] = t]
  /\ session' = [session EXCEPT ![t] = c]
  /\ Goto(c, "save")
  /\ UNCHANGED <<storeVars, arg, lateVars>>

StartGenerate(c, t) ==
  /\ pc[c] = "idle"
  /\ t \notin Minted
  /\ op' = [op EXCEPT ![c] = "generate"]
  /\ new' = [new EXCEPT ![c] = t]
  /\ session' = [session EXCEPT ![t] = c]
  /\ Goto(c, "save")
  /\ UNCHANGED <<storeVars, arg, lateVars>>

Save(c) ==
  /\ pc[c] = "save"
  /\ SetNX(c)
  /\ \/ Answer(c, IF new[c] \in store THEN "Internal" ELSE "OK")
     \/ ReplyLost(c)
  /\ UNCHANGED <<inputVars, expired, taker, lateVars>>
-----------------------------------------------------------------------------
(* RefreshTokens: ValidateRefreshToken, generateTokens, RevokeAndSave.     *)

\* The JWT is parsed before Redis is asked: a string that is not a refresh
\* token, or an expired one, is an error without a status of its own.
StartRefresh(c, t) ==
  /\ pc[c] = "idle"
  /\ op' = [op EXCEPT ![c] = "refresh"]
  /\ arg' = [arg EXCEPT ![c] = t]
  /\ IF t = Junk \/ t \in expired THEN Answer(c, "Internal") ELSE Goto(c, "get")
  /\ UNCHANGED <<storeVars, new, session, lateVars>>

\* The same for the token of an exchange.
GetSameTokenMutant(c, t) ==
  /\ pc[c] = "get"
  /\ arg[c] \in store
  /\ new' = [new EXCEPT ![c] = t]
  /\ session' = [session EXCEPT ![t] = session[arg[c]]]
  /\ Goto(c, "exists")
  /\ UNCHANGED <<storeVars, op, arg, lateVars>>

\* GetRefreshToken: no key, or the claims are still good and a new token is
\* minted for the same subject.
Get(c, t) ==
  /\ pc[c] = "get"
  /\ arg[c] \in store
  /\ t \notin Minted
  /\ new' = [new EXCEPT ![c] = t]
  /\ session' = [session EXCEPT ![t] = session[arg[c]]]
  /\ Goto(c, "exists")
  /\ UNCHANGED <<storeVars, op, arg, lateVars>>

GetMissing(c) ==
  /\ pc[c] = "get"
  /\ arg[c] \notin store
  /\ Answer(c, "Unauthenticated")
  /\ UNCHANGED <<storeVars, inputVars, lateVars>>

\* RevokeAndSave: EXISTS, the comparison of the keys, then the pipeline.
Exists(c) ==
  /\ pc[c] = "exists"
  /\ IF arg[c] \notin store THEN Answer(c, "Unauthenticated")
     ELSE IF arg[c] = new[c] THEN Answer(c, "Internal")
     ELSE Goto(c, "del")
  /\ UNCHANGED <<storeVars, inputVars, lateVars>>

\* The pipeline has EXISTS where it should have DEL.
PipeDelOnlyLooksMutant(c) ==
  /\ pc[c] = "del"
  /\ deleted' = [deleted EXCEPT ![c] = arg[c] \in store]
  /\ pc' = [pc EXCEPT ![c] = "setnx"]
  /\ UNCHANGED <<inputVars, storeVars, tries, reply, lateVars>>

\* First command of the pipeline. Its reply is read with the pipeline's, so
\* only the position of the next command changes.
PipeDel(c) ==
  /\ pc[c] = "del"
  /\ Del(c)
  /\ deleted' = [deleted EXCEPT ![c] = arg[c] \in store]
  /\ pc' = [pc EXCEPT ![c] = "setnx"]
  /\ UNCHANGED <<inputVars, expired, tries, reply, lateVars>>

\* 'deleted == 0' is not looked at.
PipeSetNXUncheckedMutant(c) ==
  /\ pc[c] = "setnx"
  /\ SetNX(c)
  /\ Answer(c, IF new[c] \in store THEN "Internal" ELSE "OK")
  /\ UNCHANGED <<inputVars, expired, taker, lateVars>>

\* Second command: it is executed whatever the DEL found. The replies are
\* then looked at in the order of the code.
PipeSetNX(c) ==
  /\ pc[c] = "setnx"
  /\ SetNX(c)
  /\ \/ Answer(c, IF ~deleted[c] THEN "Unauthenticated"
                  ELSE IF new[c] \in store THEN "Internal" ELSE "OK")
     \/ ReplyLost(c)
  /\ UNCHANGED <<inputVars, expired, taker, lateVars>>
-----------------------------------------------------------------------------
(* RevokeRefreshToken: the string is not parsed, its key is deleted.       *)

StartRevoke(c, t) ==
  /\ pc[c] = "idle"
  /\ op' = [op EXCEPT ![c] = "revoke"]
  /\ arg' = [arg EXCEPT ![c] = t]
  /\ Goto(c, "revoke")
  /\ UNCHANGED <<storeVars, new, session, lateVars>>

\* A token whose key is not there is taken for revoked.
RevokeIdempotentMutant(c) ==
  /\ pc[c] = "revoke"
  /\ Del(c)
  /\ \/ Answer(c, IF arg[c] \in Token THEN "OK" ELSE "Unauthenticated")
     \/ ReplyLost(c)
  /\ UNCHANGED <<inputVars, expired, lateVars>>

Revoke(c) ==
  /\ pc[c] = "revoke"
  /\ Del(c)
  /\ \/ Answer(c, IF arg[c] \in store THEN "OK" ELSE "Unauthenticated")
     \/ ReplyLost(c)
  /\ UNCHANGED <<inputVars, expired, lateVars>>
-----------------------------------------------------------------------------
(* The environment: the network between the service and Redis, time, and   *)
(* the end of the service process.                                         *)

\* The attempt of c under way.
Sent(c) == [call |-> c, cmd |-> pc[c], try |-> tries[c]]

\* Of the attempts of the calls in C, given up before Redis has seen them, some
\* are lost and some are still on their way. Late reads change nothing.
Delayed(C) ==
  \E D \in SUBSET {Sent(c) : c \in {x \in C : pc[x] \in Writes}} :
    /\ late' = late \cup D
    /\ Cardinality(late') <= MaxLate

\* An attempt that does not reach Redis while go-redis waits for its reply.
CommandLost(c) ==
  /\ pc[c] \in Running
  /\ ReplyLost(c)
  /\ Delayed({c})
  /\ UNCHANGED <<storeVars, inputVars, revived>>

\* It reaches Redis after all: after its repeat, after the answer, after other
\* calls have exchanged or revoked the token. Nobody reads its reply.
ArrivesLate(m) ==
  /\ \/ /\ m.cmd \in {"save", "setnx"}
        /\ SetNX(m.call)
        /\ late' = late \ {m}
        /\ revived' = revived \cup {t \in {new[m.call]} \ store : taker[t] # NoCall}
        /\ UNCHANGED taker
     \/ /\ m.cmd = "del"
        /\ Del(m.call)
        /\ late' = (late \ {m}) \cup {[m EXCEPT !.cmd = "setnx"]}
        /\ UNCHANGED revived
     \/ /\ m.cmd = "revoke"
        /\ Del(m.call)
        /\ late' = late \ {m}
        /\ UNCHANGED revived
  /\ UNCHANGED <<expired, pc, inputVars, deleted, tries, reply>>

\* TTLs are days, calls and late attempts take seconds, so a token does not
\* expire before they are over.
Expire(t) ==
  /\ t \in Minted \ expired
  /\ Settled(t)
  /\ expired' = expired \cup {t}
  /\ UNCHANGED <<store, pc, inputVars, lateVars, deleted, tries, reply, taker>>

\* Redis drops the key: the TTL is computed after 'exp', so not before it.
Evict(t) ==
  /\ t \in store \cap expired
  /\ store' = store \ {t}
  /\ UNCHANGED <<expired, pc, inputVars, lateVars, deleted, tries, reply, taker>>

\* The process ends: its calls end without an answer, what they have written
\* to their connections may still arrive. Redis lives on.
Crash ==
  /\ \E c \in Call : pc[c] \in Running
  /\ pc' = [c \in Call |-> IF pc[c] \in Running THEN "done" ELSE pc[c]]
  /\ reply' = [c \in Call |-> IF pc[c] \in Running THEN "Lost" ELSE reply[c]]
  /\ tries' = [c \in Call |-> 0]
  /\ deleted' = [c \in Call |-> FALSE]
  /\ Delayed(Call)
  /\ UNCHANGED <<storeVars, inputVars, revived>>
-----------------------------------------------------------------------------
Start(c) ==
  \/ \E t \in Token : StartGenerate(c, t)
  \/ \E t \in Issued \cup {Junk} : StartRefresh(c, t) \/ StartRevoke(c, t)

Step(c) ==
  \/ Save(c)
  \/ \E t \in Token : Get(c, t)
  \/ GetMissing(c)
  \/ Exists(c)
  \/ PipeDel(c)
  \/ PipeSetNX(c)
  \/ Revoke(c)
  \/ CommandLost(c)

Next ==
  \/ \E c \in Call : Start(c) \/ Step(c)
  \/ \E m \in late : ArrivesLate(m)
  \/ \E t \in Token : Expire(t) \/ Evict(t)
  \/ Crash

Spec == Init /\ [][Next]_vars

\* Every running handler goroutine and its Redis round trips make progress;
\* nobody has to call, nothing has to expire, arrive late or crash.
FairSpec == Spec /\ \A c \in Call : WF_vars(Step(c))
-----------------------------------------------------------------------------
(* Properties.                                                             *)

\* The types of the variables, in every state a call can reach.
TypeOK ==
  /\ store \in SUBSET Token
  /\ expired \in SUBSET Token
  /\ pc \in [Call -> Running \cup {"idle", "done"}]
  /\ op \in [Call -> {"none", "generate", "refresh", "revoke"}]
  /\ arg \in [Call -> Token \cup {Junk, NoToken}]
  /\ new \in [Call -> Token \cup {NoToken}]
  /\ deleted \in [Call -> BOOLEAN]
  /\ tries \in [Call -> 0..MaxRetries]
  /\ reply \in [Call -> {"none", "OK", "Unauthenticated", "Internal", "Lost"}]
  /\ late \in SUBSET [call : Call, cmd : Writes, try : 0..MaxRetries]
  /\ revived \in SUBSET Token
  /\ taker \in [Token -> Call \cup {NoCall}]
  /\ session \in [Token -> Call \cup {NoCall}]

\* A late SET NX puts back the key of a token that was exchanged or revoked in
\* the meantime (RevokedIsRefused). The properties below say what holds in
\* spite of that: they leave out the token itself, or the login it belongs to.
Broken == {session[t] : t \in revived}

\* A refresh token is good for one exchange or one revocation: of all the
\* calls that present it, concurrent or not, repeated by go-redis or not, at
\* most one is answered OK (RefreshTokens, RevokeAndSave, RevokeRefreshToken).
SingleUse ==
  \A c, d \in Call :
    /\ {op[c], op[d]} \subseteq {"refresh", "revoke"}
    /\ reply[c] = "OK" /\ reply[d] = "OK"
    /\ arg[c] = arg[d] /\ arg[c] \notin revived
    => c = d

\* A key that enters Redis is one no client has ever held, nobody has taken
\* and that has not expired, with one exception: the SET NX of an attempt that
\* was given up, arriving after its call was answered OK and the token taken.
\* A repeat of go-redis alone brings no token back, nor does a crash, an
\* eviction or a late pipeline (SaveRefreshToken, RevokeAndSave).
NoResurrection ==
  [][\A t \in store' \ store :
       /\ t \notin expired
       /\ \/ t \notin Issued /\ taker[t] = NoCall
          \/ \E m \in late \ late' : new[m.call] = t /\ reply[m.call] = "OK"]_vars

\* A token that a client was given works until somebody takes it or it
\* expires: OK is only answered when the key is really there (GenerateTokens,
\* RefreshTokens).
IssuedIsLive ==
  \A t \in Issued : t \in store \/ taker[t] # NoCall \/ t \in expired

\* "token not found" is the truth and stays the truth: the key of the token
\* is not in Redis (handlers.go's codes.Unauthenticated).
NotFoundMeansGone ==
  \A c \in Call :
    reply[c] = "Unauthenticated" /\ arg[c] \notin revived => arg[c] \notin store

\* However refreshes race, fail and are repeated, the tokens that clients hold
\* of one login and can still use are at most one.
OneLivePerSession ==
  \A t, u \in Issued \cap store :
    session[t] = session[u] /\ session[t] \notin Broken => t = u

\* A revocation answered OK is the end of its login: the refreshes that raced
\* with it leave no token that a client holds and can use.
RevokeEndsSession ==
  \A c \in Call :
    op[c] = "revoke" /\ reply[c] = "OK" /\ session[arg[c]] \notin Broken =>
      \A t \in Issued \cap store : session[t] # session[arg[c]]

\* A refresh of a token whose revocation has been answered OK is refused. It
\* need not be: the SET NX of an attempt that was given up arrives after the
\* revocation, and NX does not find the key that the DEL removed.
RevokedIsRefused ==
  \A c, d \in Call :
    [](op[d] = "revoke" /\ reply[d] = "OK" /\ pc[c] = "idle" =>
         [](op[c] = "refresh" /\ arg[c] = arg[d] => reply[c] # "OK"))

\* A refresh that was refused stores nothing. It does: EXISTS and the pipeline
\* are not atomic and the SET NX is executed whatever the DEL found.
RefusedStoresNothing ==
  \A c \in Call :
    op[c] = "refresh" /\ reply[c] = "Unauthenticated" => new[c] \notin store

\* Every call is answered, or ends with the process, however often Redis'
\* replies are lost.
Answered == \A c \in Call : pc[c] \in Running ~> pc[c] = "done"
-----------------------------------------------------------------------------
(* The promise it implements.                                              *)

\* t was minted by a login, or by the exchange that took its predecessor.
InChain(t) ==
  \E c \in Call :
    /\ new[c] = t
    /\ op[c] = "generate" \/ taker[arg[c]] = c

\* t is the token its session can go on with: nobody has taken it and it is
\* in Redis or the call that minted it may still put it there.
IsHead(t) ==
  /\ InChain(t)
  /\ taker[t] = NoCall
  /\ t \in store \/ ~Settled(t)

Heads(s) == {t \in Token : IsHead(t) /\ session[t] = s}

OnlyToken(S) == IF S = {} THEN NoToken ELSE CHOOSE t \in S : TRUE

SessionHead == [s \in Call |-> IF s \in Broken THEN NoToken ELSE OnlyToken(Heads(s))]

Promise ==
  INSTANCE RefreshSessions WITH
    Session <- Call,
    head <- SessionHead,
    broken <- Broken,
    opened <- {c \in Call : op[c] = "generate"},
    used <- {t \in Token : InChain(t)}

\* The service keeps the promise of RefreshSessions: a session never has two
\* exchangeable tokens and a used token never becomes one again, until a late
\* SET NX breaks the session; what happens in a broken session touches no
\* other one.
ImplementsPromise == Promise!Spec
=============================================================================
