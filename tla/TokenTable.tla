----------------------------- MODULE TokenTable -----------------------------
(***************************************************************************)
(* What the auth service asks of a storage that keeps revoked tokens       *)
(* (JWTStorage in services/auth/internal/service/jwt.go): every method is  *)
(* one step. This is the mock (storage/mock/mock.go), whose methods hold a *)
(* mutex from end to end, and what the SQLite storage has to look like.    *)
(*                                                                         *)
(* A gRPC call is a member of Call that runs once; pc[c] is the storage    *)
(* method it is about to run. A token is an opaque value that one call     *)
(* mints (its 'jti' is a uuid); Foreign is a token signed with the same    *)
(* key while the service kept its tokens in another storage.               *)
(***************************************************************************)
CONSTANTS
  Call,        \* gRPC calls
  Token,       \* refresh tokens
  Foreign,     \* a member of Token that this storage has never seen
  NoToken      \* "no token"

ASSUME TableAssumption == Foreign \in Token /\ NoToken \notin Token

VARIABLES
  rows,        \* rows[t]: the token's row, "absent", "live" or "revoked"
  pc,          \* pc[c]: the storage method c is about to run
  arg,         \* arg[c]: the token the client sent
  new,         \* new[c]: the refresh token the call minted
  answer,      \* answer[c]: the gRPC status it has come to
  before       \* history: before[c], the calls answered when c arrived

table == <<rows, pc, arg, new, answer, before>>

Running == {"save", "get", "exchange", "revoke"}

Init ==
  /\ rows = [t \in Token |-> "absent"]
  /\ pc = [c \in Call |-> "idle"]
  /\ arg = [c \in Call |-> NoToken]
  /\ new = [c \in Call |-> NoToken]
  /\ answer = [c \in Call |-> "none"]
  /\ before = [c \in Call |-> {}]
-----------------------------------------------------------------------------
\* A client was given t.
Given(t) == \E c \in Call : pc[c] = "done" /\ answer[c] = "OK" /\ new[c] = t

Unminted(t) == t # Foreign /\ \A c \in Call : new[c] # t

\* A call arrives that will run method m first.
Arrive(c, m) ==
  /\ pc[c] = "idle"
  /\ pc' = [pc EXCEPT ![c] = m]
  /\ before' = [before EXCEPT ![c] = {d \in Call : pc[d] = "done"}]
  /\ UNCHANGED <<rows, answer>>

\* The service comes to status s.
Reply(c, s) ==
  /\ pc' = [pc EXCEPT ![c] = "reply"]
  /\ answer' = [answer EXCEPT ![c] = s]
  /\ UNCHANGED <<arg, new, before>>

StartGenerate(c, t) ==
  /\ Unminted(t)
  /\ Arrive(c, "save")
  /\ new' = [new EXCEPT ![c] = t]
  /\ UNCHANGED arg

StartRefresh(c, t) ==
  /\ t = Foreign \/ Given(t)
  /\ Arrive(c, "get")
  /\ arg' = [arg EXCEPT ![c] = t]
  /\ UNCHANGED new

StartRevoke(c, t) ==
  /\ t = Foreign \/ Given(t)
  /\ Arrive(c, "revoke")
  /\ arg' = [arg EXCEPT ![c] = t]
  /\ UNCHANGED new

\* SaveRefreshToken: a token that is there is ErrTokenAlreadyExists.
Save(c) ==
  /\ pc[c] = "save"
  /\ IF rows[new[c]] = "absent"
       THEN Reply(c, "OK") /\ rows' = [rows EXCEPT ![new[c]] = "live"]
       ELSE Reply(c, "Internal") /\ UNCHANGED rows

(* The operators named ...Mutant are faulty variants of the definition that *)
(* follows them. No specification uses them: they show which fault each     *)
(* property finds.                                                          *)

\* ValidateRefreshToken does not look at Revoked.
GetUncheckedMutant(c, t) ==
  /\ pc[c] = "get" /\ rows[arg[c]] # "absent"
  /\ Unminted(t)
  /\ pc' = [pc EXCEPT ![c] = "exchange"]
  /\ new' = [new EXCEPT ![c] = t]
  /\ UNCHANGED <<rows, arg, answer, before>>

\* GetRefreshToken finds a token that is not revoked; generateTokens mints the
\* next one.
Get(c, t) ==
  /\ pc[c] = "get" /\ rows[arg[c]] = "live"
  /\ Unminted(t)
  /\ pc' = [pc EXCEPT ![c] = "exchange"]
  /\ new' = [new EXCEPT ![c] = t]
  /\ UNCHANGED <<rows, arg, answer, before>>

\* ErrTokenNotFound or ErrTokenRevoked.
GetRefused(c) ==
  /\ pc[c] = "get" /\ rows[arg[c]] # "live"
  /\ Reply(c, IF rows[arg[c]] = "absent" THEN "Unauthenticated" ELSE "PermissionDenied")
  /\ UNCHANGED rows

\* RevokeAndSave looks whether the old token's row is there, not whether it
\* is revoked. It does not undo the revocation when the new one is there too.
RevokeAndSave(c) ==
  LET revoked == [rows EXCEPT ![arg[c]] = "revoked"]
  IN  /\ pc[c] = "exchange"
      /\ IF rows[arg[c]] = "absent"
           THEN Reply(c, "Unauthenticated") /\ UNCHANGED rows
           ELSE IF revoked[new[c]] # "absent"
             THEN Reply(c, "Internal") /\ rows' = revoked
             ELSE Reply(c, "OK") /\ rows' = [revoked EXCEPT ![new[c]] = "live"]

\* RevokeRefreshToken: revoking again is no error.
Revoke(c) ==
  /\ pc[c] = "revoke"
  /\ IF rows[arg[c]] = "absent"
       THEN Reply(c, "Unauthenticated") /\ UNCHANGED rows
       ELSE Reply(c, "OK") /\ rows' = [rows EXCEPT ![arg[c]] = "revoked"]

\* A storage method returns another error, which the mock never does.
GiveUp(c) ==
  /\ pc[c] \in Running
  /\ Reply(c, "Internal")
  /\ UNCHANGED rows

\* The client receives the answer.
Deliver(c) ==
  /\ pc[c] = "reply"
  /\ pc' = [pc EXCEPT ![c] = "done"]
  /\ UNCHANGED <<rows, arg, new, answer, before>>

\* The service's process ends, and its calls with it.
Crash ==
  LET cut == {c \in Call : pc[c] \in Running \cup {"reply"}}
  IN  /\ cut # {}
      /\ pc' = [c \in Call |-> IF c \in cut THEN "dead" ELSE pc[c]]
      /\ UNCHANGED <<rows, arg, new, answer, before>>

Next ==
  \/ \E c \in Call :
       \/ \E t \in Token :
            StartGenerate(c, t) \/ StartRefresh(c, t) \/ StartRevoke(c, t) \/ Get(c, t)
       \/ Save(c) \/ GetRefused(c) \/ RevokeAndSave(c) \/ Revoke(c)
       \/ GiveUp(c) \/ Deliver(c)
  \/ Crash

Spec == Init /\ [][Next]_table
-----------------------------------------------------------------------------
(* Properties.                                                             *)

\* The types of the variables.
TypeOK ==
  /\ rows \in [Token -> {"absent", "live", "revoked"}]
  /\ pc \in [Call -> Running \cup {"idle", "reply", "done", "dead"}]
  /\ arg \in [Call -> Token \cup {NoToken}]
  /\ new \in [Call -> Token \cup {NoToken}]
  /\ answer \in [Call -> {"none", "OK", "Unauthenticated", "PermissionDenied", "Internal"}]
  /\ before \in [Call -> SUBSET Call]

\* Who was told OK, by RefreshTokens or RevokeRefreshToken, of token t.
TookIt(c, t) == pc[c] = "done" /\ answer[c] = "OK" /\ arg[c] = t

\* Used in turn a token is good for one exchange: nobody exchanges a token
\* that somebody was told to have taken before the exchange arrived. (Two that
\* race can both have it: the UPDATE of RevokeAndSave does not ask for
\* revoked=0.)
SequentialUseIsSingle ==
  \A c, d \in Call, t \in Token :
    TookIt(c, t) /\ TookIt(d, t) /\ new[c] # NoToken => d \notin before[c]

\* A new token's row never comes without the revocation of the one it was
\* exchanged for, whatever failed or crashed in RevokeAndSave.
ExchangeIsAtomic ==
  \A c \in Call :
    arg[c] # NoToken /\ new[c] # NoToken /\ rows[new[c]] # "absent" =>
      rows[arg[c]] = "revoked"

\* What a client is told is so and stays so: OK is in the table, a refusal
\* stored nothing, "not found" was never there and "revoked" is revoked
\* (the handlers' mapping of the storage's errors).
AnswerIsTrue ==
  \A c \in Call : pc[c] \in {"reply", "done"} =>
    /\ answer[c] = "OK" =>
         /\ arg[c] # NoToken => rows[arg[c]] = "revoked"
         /\ new[c] # NoToken => rows[new[c]] # "absent"
    /\ answer[c] # "OK" /\ new[c] # NoToken => rows[new[c]] = "absent"
    /\ answer[c] = "Unauthenticated" => rows[arg[c]] = "absent"
    /\ answer[c] = "PermissionDenied" => rows[arg[c]] = "revoked"

\* No row goes back, from revoked to live or from either to absent: no
\* transaction writes over what another call has committed since it began.
RowsOnlyAdvance ==
  [][\A t \in Token :
       /\ rows[t] = "revoked" => rows'[t] = "revoked"
       /\ rows[t] = "live" => rows'[t] # "absent"]_table
=============================================================================
