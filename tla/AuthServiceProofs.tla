------------------------- MODULE AuthServiceProofs -------------------------
(* Theorems about AuthService, for every set of calls and tokens (finite  *)
(* or not) and every number of repeats.                                    *)
EXTENDS AuthService, TLAPS

-----------------------------------------------------------------------------
(* Types.                                                                  *)

Status == {"OK", "Unauthenticated", "Internal", "Lost"}

\* The types of the variables of a call that its own steps write.
LocalsOK ==
  /\ pc \in [Call -> Running \cup {"idle", "done"}]
  /\ deleted \in [Call -> BOOLEAN]
  /\ tries \in [Call -> 0..MaxRetries]
  /\ reply \in [Call -> {"none"} \cup Status]

\* The types of the others.
DataOK ==
  /\ store \in SUBSET Token
  /\ expired \in SUBSET Token
  /\ op \in [Call -> {"none", "generate", "refresh", "revoke"}]
  /\ arg \in [Call -> Token \cup {Junk, NoToken}]
  /\ new \in [Call -> Token \cup {NoToken}]
  /\ late \in SUBSET [call : Call, cmd : Writes, try : 0..MaxRetries]
  /\ revived \in SUBSET Token
  /\ taker \in [Token -> Call \cup {NoCall}]
  /\ session \in [Token -> Call \cup {NoCall}]

LEMMA TypeParts == TypeOK <=> LocalsOK /\ DataOK
BY DEF TypeOK, LocalsOK, DataOK, Status

\* Going on, answering and losing a reply keep them.
LEMMA GotoTyped ==
  ASSUME LocalsOK, NEW c \in Call, NEW p \in Running, Goto(c, p)
  PROVE  LocalsOK'
BY ConstantsAssumption DEF LocalsOK, Goto

LEMMA AnswerTyped ==
  ASSUME LocalsOK, NEW c \in Call, NEW r \in Status, Answer(c, r)
  PROVE  LocalsOK'
BY ConstantsAssumption DEF LocalsOK, Answer

LEMMA ReplyLostTyped ==
  ASSUME LocalsOK, NEW c \in Call, ReplyLost(c)
  PROVE  LocalsOK'
<1>1. CASE Answer(c, "Internal")
  BY <1>1, AnswerTyped DEF Status
<1>2. CASE ~Answer(c, "Internal")
  <2>1. tries[c] + 1 \in 0..MaxRetries
    BY <1>2, ConstantsAssumption DEF ReplyLost, LocalsOK
  <2>2. (IF pc[c] = "setnx" THEN "del" ELSE pc[c]) \in Running \cup {"idle", "done"}
    BY DEF LocalsOK, Running
  <2> QED
    BY <1>2, <2>1, <2>2 DEF ReplyLost, LocalsOK
<1> QED
  BY <1>1, <1>2

\* Where a call is tells which RPC it serves, whether it has minted, and that
\* it is not answered yet.
Phases ==
  \A c \in Call :
    /\ pc[c] = "idle" <=> op[c] = "none"
    /\ pc[c] = "done" <=> reply[c] # "none"
    /\ pc[c] = "save" => op[c] = "generate"
    /\ pc[c] \in {"get", "exists", "del", "setnx"} => op[c] = "refresh"
    /\ pc[c] = "revoke" => op[c] = "revoke"
    /\ pc[c] \in {"exists", "del", "setnx"} => new[c] \in Token
    /\ pc[c] \in {"idle", "get"} => new[c] = NoToken
    /\ op[c] = "generate" => new[c] \in Token
    /\ op[c] = "revoke" => new[c] = NoToken
    /\ op[c] = "refresh" /\ reply[c] = "OK" => new[c] \in Token
    /\ deleted[c] => pc[c] = "setnx"

\* A late attempt is one of an RPC that has come as far as that.
LateOK ==
  \A m \in late :
    /\ m.cmd = "save" => op[m.call] = "generate"
    /\ m.cmd = "revoke" => op[m.call] = "revoke"
    /\ m.cmd \in {"del", "setnx"} =>
         /\ op[m.call] = "refresh"
         /\ new[m.call] \in Token
         /\ pc[m.call] \in {"del", "setnx", "done"}

Typed == LocalsOK /\ DataOK /\ Phases /\ LateOK

\* What of the attempts of C may come later is of their calls.
LEMMA DelayedTyped ==
  ASSUME LocalsOK, DataOK, NEW C \in SUBSET Call, Delayed(C)
  PROVE  /\ late' \in SUBSET [call : Call, cmd : Writes, try : 0..MaxRetries]
         /\ \A m \in late' \ late : m.call \in C /\ pc[m.call] \in Writes /\ m.cmd = pc[m.call]
<1>1. PICK D \in SUBSET {Sent(c) : c \in {x \in C : pc[x] \in Writes}} : late' = late \cup D
  BY DEF Delayed
<1>2. \A m \in D : \E c \in C : pc[c] \in Writes /\ m = [call |-> c, cmd |-> pc[c], try |-> tries[c]]
  BY DEF Sent
<1>3. \A m \in D : /\ m \in [call : Call, cmd : Writes, try : 0..MaxRetries]
                   /\ m.call \in C /\ pc[m.call] \in Writes /\ m.cmd = pc[m.call]
  BY <1>2 DEF LocalsOK
<1> QED
  BY <1>1, <1>3 DEF DataOK

\* No step of a handler, of Redis or of the environment breaks them.
LEMMA TypedStep == Typed /\ [Next]_vars => Typed'
<1> SUFFICES ASSUME LocalsOK, DataOK, Phases, LateOK, [Next]_vars
             PROVE  LocalsOK' /\ DataOK' /\ Phases' /\ LateOK'
  BY DEF Typed
<1> USE DEF storeVars, inputVars, lateVars
<1>1. ASSUME NEW c \in Call, NEW t \in Token, StartGenerate(c, t)
      PROVE  LocalsOK' /\ DataOK' /\ Phases' /\ LateOK'
  <2>1. LocalsOK'
    BY <1>1, GotoTyped DEF StartGenerate, Running, Status
  <2>2. DataOK'
    BY <1>1 DEF DataOK, StartGenerate
  <2>3. Phases'
    BY <1>1, ConstantsAssumption DEF Phases, LocalsOK, DataOK, Running, Status, StartGenerate, Goto
  <2>4. LateOK'
    BY <1>1, ConstantsAssumption DEF LateOK, Phases, DataOK, LocalsOK, Running, Status, StartGenerate, Goto
  <2> QED
    BY <2>1, <2>2, <2>3, <2>4
<1>2. ASSUME NEW c \in Call, NEW t \in Token \cup {Junk}, StartRefresh(c, t)
      PROVE  LocalsOK' /\ DataOK' /\ Phases' /\ LateOK'
  <2>1. LocalsOK'
    BY <1>2, GotoTyped, AnswerTyped DEF StartRefresh, Running, Status
  <2>2. DataOK'
    BY <1>2 DEF DataOK, StartRefresh
  <2>3. Phases'
    BY <1>2, ConstantsAssumption DEF Phases, LocalsOK, DataOK, Running, Status, StartRefresh, Goto, Answer
  <2>4. LateOK'
    BY <1>2, ConstantsAssumption DEF LateOK, Phases, DataOK, LocalsOK, Running, Status, StartRefresh, Goto, Answer
  <2> QED
    BY <2>1, <2>2, <2>3, <2>4
<1>3. ASSUME NEW c \in Call, NEW t \in Token \cup {Junk}, StartRevoke(c, t)
      PROVE  LocalsOK' /\ DataOK' /\ Phases' /\ LateOK'
  <2>1. LocalsOK'
    BY <1>3, GotoTyped DEF StartRevoke, Running, Status
  <2>2. DataOK'
    BY <1>3 DEF DataOK, StartRevoke
  <2>3. Phases'
    BY <1>3, ConstantsAssumption DEF Phases, LocalsOK, DataOK, Running, Status, StartRevoke, Goto
  <2>4. LateOK'
    BY <1>3, ConstantsAssumption DEF LateOK, Phases, DataOK, LocalsOK, Running, Status, StartRevoke, Goto
  <2> QED
    BY <2>1, <2>2, <2>3, <2>4
<1>4. ASSUME NEW c \in Call, Save(c)
      PROVE  LocalsOK' /\ DataOK' /\ Phases' /\ LateOK'
  <2>1. LocalsOK'
    BY <1>4, AnswerTyped, ReplyLostTyped DEF Save, Running, Status
  <2>2. DataOK'
    BY <1>4 DEF DataOK, Save, SetNX, Phases
  <2>3. Phases'
    BY <1>4, ConstantsAssumption DEF Phases, LocalsOK, DataOK, Running, Status, Save, Answer, ReplyLost
  <2>4. LateOK'
    BY <1>4, ConstantsAssumption DEF LateOK, Phases, DataOK, LocalsOK, Running, Status, Save, Answer, ReplyLost
  <2> QED
    BY <2>1, <2>2, <2>3, <2>4
<1>5. ASSUME NEW c \in Call, NEW t \in Token, Get(c, t)
      PROVE  LocalsOK' /\ DataOK' /\ Phases' /\ LateOK'
  <2>1. LocalsOK'
    BY <1>5, GotoTyped DEF Get, Running, Status
  <2>2. DataOK'
    BY <1>5 DEF DataOK, Get
  <2>3. Phases'
    BY <1>5, ConstantsAssumption DEF Phases, LocalsOK, DataOK, Running, Status, Get, Goto
  <2>4. LateOK'
    BY <1>5, ConstantsAssumption DEF LateOK, Phases, DataOK, LocalsOK, Running, Status, Get, Goto
  <2> QED
    BY <2>1, <2>2, <2>3, <2>4
<1>6. ASSUME NEW c \in Call, GetMissing(c)
      PROVE  LocalsOK' /\ DataOK' /\ Phases' /\ LateOK'
  <2>1. LocalsOK'
    BY <1>6, AnswerTyped DEF GetMissing, Running, Status
  <2>2. DataOK'
    BY <1>6 DEF DataOK, GetMissing
  <2>3. Phases'
    BY <1>6, ConstantsAssumption DEF Phases, LocalsOK, DataOK, Running, Status, GetMissing, Answer
  <2>4. LateOK'
    BY <1>6, ConstantsAssumption DEF LateOK, Phases, DataOK, LocalsOK, Running, Status, GetMissing, Answer
  <2> QED
    BY <2>1, <2>2, <2>3, <2>4
<1>7. ASSUME NEW c \in Call, Exists(c)
      PROVE  LocalsOK' /\ DataOK' /\ Phases' /\ LateOK'
  <2>1. LocalsOK'
    BY <1>7, GotoTyped, AnswerTyped DEF Exists, Running, Status
  <2>2. DataOK'
    BY <1>7 DEF DataOK, Exists
  <2>3. Phases'
    BY <1>7, ConstantsAssumption DEF Phases, LocalsOK, DataOK, Running, Status, Exists, Goto, Answer
  <2>4. LateOK'
    BY <1>7, ConstantsAssumption DEF LateOK, Phases, DataOK, LocalsOK, Running, Status, Exists, Goto, Answer
  <2> QED
    BY <2>1, <2>2, <2>3, <2>4
<1>8. ASSUME NEW c \in Call, PipeDel(c)
      PROVE  LocalsOK' /\ DataOK' /\ Phases' /\ LateOK'
  <2>1. LocalsOK'
    BY <1>8 DEF LocalsOK, Running, PipeDel
  <2>2. DataOK'
    BY <1>8 DEF DataOK, PipeDel, Del
  <2>3. Phases'
    BY <1>8, ConstantsAssumption DEF Phases, LocalsOK, DataOK, Running, Status, PipeDel
  <2>4. LateOK'
    BY <1>8, ConstantsAssumption DEF LateOK, Phases, DataOK, LocalsOK, Running, Status, PipeDel
  <2> QED
    BY <2>1, <2>2, <2>3, <2>4
<1>9. ASSUME NEW c \in Call, PipeSetNX(c)
      PROVE  LocalsOK' /\ DataOK' /\ Phases' /\ LateOK'
  <2>1. LocalsOK'
    BY <1>9, AnswerTyped, ReplyLostTyped DEF PipeSetNX, Running, Status
  <2>2. DataOK'
    BY <1>9 DEF DataOK, PipeSetNX, SetNX, Phases
  <2>3. Phases'
    BY <1>9, ConstantsAssumption DEF Phases, LocalsOK, DataOK, Running, Status, PipeSetNX, Answer, ReplyLost
  <2>4. LateOK'
    BY <1>9, ConstantsAssumption DEF LateOK, Phases, DataOK, LocalsOK, Running, Status, PipeSetNX, Answer, ReplyLost
  <2> QED
    BY <2>1, <2>2, <2>3, <2>4
<1>10. ASSUME NEW c \in Call, Revoke(c)
      PROVE  LocalsOK' /\ DataOK' /\ Phases' /\ LateOK'
  <2>1. LocalsOK'
    BY <1>10, AnswerTyped, ReplyLostTyped DEF Revoke, Running, Status
  <2>2. DataOK'
    BY <1>10 DEF DataOK, Revoke, Del
  <2>3. Phases'
    BY <1>10, ConstantsAssumption DEF Phases, LocalsOK, DataOK, Running, Status, Revoke, Answer, ReplyLost
  <2>4. LateOK'
    BY <1>10, ConstantsAssumption DEF LateOK, Phases, DataOK, LocalsOK, Running, Status, Revoke, Answer, ReplyLost
  <2> QED
    BY <2>1, <2>2, <2>3, <2>4
<1>11. ASSUME NEW c \in Call, CommandLost(c)
      PROVE  LocalsOK' /\ DataOK' /\ Phases' /\ LateOK'
  <2>1. LocalsOK'
    BY <1>11, ReplyLostTyped DEF CommandLost, Running, Status
  <2>2. /\ late' \in SUBSET [call : Call, cmd : Writes, try : 0..MaxRetries]
        /\ \A m \in late' \ late : m.call = c /\ pc[c] \in Writes /\ m.cmd = pc[c]
    BY <1>11, DelayedTyped DEF CommandLost
  <2>3. DataOK'
    BY <1>11, <2>2 DEF DataOK, CommandLost
  <2>4. Phases'
    BY <1>11, ConstantsAssumption DEF Phases, LocalsOK, DataOK, Running, Status, CommandLost, ReplyLost, Answer
  <2>5. pc[c] \in {"del", "setnx", "done"} => pc'[c] \in {"del", "setnx", "done"}
    BY <1>11 DEF CommandLost, ReplyLost, Answer, LocalsOK
  <2>6. \A d \in Call \ {c} : pc'[d] = pc[d]
    BY <1>11 DEF CommandLost, ReplyLost, Answer, LocalsOK
  <2>7. UNCHANGED <<op, new>>
    BY <1>11 DEF CommandLost
  <2>8. ASSUME NEW m \in late
        PROVE  pc[m.call] \in {"del", "setnx", "done"} => pc'[m.call] \in {"del", "setnx", "done"}
    BY <2>5, <2>6 DEF DataOK
  <2>9. LateOK'
    BY <2>2, <2>5, <2>7, <2>8 DEF LateOK, Phases, DataOK
  <2> QED
    BY <2>1, <2>3, <2>4, <2>9
<1>12. ASSUME NEW t \in Token, Expire(t)
      PROVE  LocalsOK' /\ DataOK' /\ Phases' /\ LateOK'
  <2>1. LocalsOK'
    BY <1>12 DEF LocalsOK, Running, Expire
  <2>2. DataOK'
    BY <1>12 DEF DataOK, Expire
  <2>3. Phases'
    BY <1>12, ConstantsAssumption DEF Phases, LocalsOK, DataOK, Running, Status, Expire
  <2>4. LateOK'
    BY <1>12, ConstantsAssumption DEF LateOK, Phases, DataOK, LocalsOK, Running, Status, Expire
  <2> QED
    BY <2>1, <2>2, <2>3, <2>4
<1>13. ASSUME NEW t \in Token, Evict(t)
      PROVE  LocalsOK' /\ DataOK' /\ Phases' /\ LateOK'
  <2>1. LocalsOK'
    BY <1>13 DEF LocalsOK, Running, Evict
  <2>2. DataOK'
    BY <1>13 DEF DataOK, Evict
  <2>3. Phases'
    BY <1>13, ConstantsAssumption DEF Phases, LocalsOK, DataOK, Running, Status, Evict
  <2>4. LateOK'
    BY <1>13, ConstantsAssumption DEF LateOK, Phases, DataOK, LocalsOK, Running, Status, Evict
  <2> QED
    BY <2>1, <2>2, <2>3, <2>4
<1>14. CASE Crash
  <2>1. LocalsOK' /\ Phases'
    BY <1>14, ConstantsAssumption DEF Crash, LocalsOK, DataOK, Phases, Running, Status
  <2>2. /\ late' \in SUBSET [call : Call, cmd : Writes, try : 0..MaxRetries]
        /\ \A m \in late' \ late : m.call \in Call /\ pc[m.call] \in Writes /\ m.cmd = pc[m.call]
    BY <1>14, DelayedTyped DEF Crash
  <2>3. DataOK'
    BY <1>14, <2>2 DEF DataOK, Crash
  <2>4. \A d \in Call : pc[d] \in {"del", "setnx", "done"} => pc'[d] = "done"
    BY <1>14 DEF Crash, Running, LocalsOK
  <2>5. UNCHANGED <<op, new>>
    BY <1>14 DEF Crash
  <2>6. LateOK'
    BY <2>2, <2>4, <2>5 DEF LateOK, Phases, DataOK
  <2> QED
    BY <2>1, <2>3, <2>6
<1>15. ASSUME NEW m \in late, ArrivesLate(m)
      PROVE  LocalsOK' /\ DataOK' /\ Phases' /\ LateOK'
  <2>1. UNCHANGED <<expired, pc, op, arg, new, session, deleted, tries, reply>>
    BY <1>15 DEF ArrivesLate
  <2>2. m.call \in Call /\ m.cmd \in Writes /\ m.try \in 0..MaxRetries
    BY DEF DataOK
  <2>3. m.cmd \in {"save", "setnx"} => new[m.call] \in Token
    BY <2>2 DEF LateOK, Phases
  <2>4. late' \subseteq late \cup {[m EXCEPT !.cmd = "setnx"]}
        /\ (late' \subseteq late \/ m.cmd = "del")
    BY <1>15 DEF ArrivesLate
  <2> DEFINE k == [m EXCEPT !.cmd = "setnx"]
  <2>5. /\ k \in [call : Call, cmd : Writes, try : 0..MaxRetries]
        /\ k.call = m.call /\ k.cmd = "setnx"
    BY DEF DataOK, Writes
  <2>6. late' \in SUBSET [call : Call, cmd : Writes, try : 0..MaxRetries]
    BY <2>4, <2>5 DEF DataOK
  <2>7. store' \in SUBSET Token /\ revived' \in SUBSET Token
        /\ taker' \in [Token -> Call \cup {NoCall}]
    BY <1>15, <2>2, <2>3 DEF ArrivesLate, SetNX, Del, DataOK
  <2>8. LateOK'
    BY <2>1, <2>4, <2>5 DEF LateOK
  <2> QED
    BY <2>1, <2>6, <2>7, <2>8 DEF LocalsOK, DataOK, Phases
<1>16. CASE UNCHANGED vars
  BY <1>16 DEF vars, LocalsOK, DataOK, Phases, LateOK
<1>17. Issued \subseteq Token
  BY DEF Issued
<1> QED
  BY <1>1, <1>2, <1>3, <1>4, <1>5, <1>6, <1>7, <1>8, <1>9, <1>10, <1>11,
     <1>12, <1>13, <1>14, <1>15, <1>16, <1>17 DEF Next, Start, Step

LEMMA TypedInit == Init => Typed
BY ConstantsAssumption DEF Init, Typed, LocalsOK, DataOK, Phases, LateOK, Running

\* The variables keep their types: no handler or storage method, fault or
\* crash leaves a call in a state the code does not have.
THEOREM TypeCorrect == Spec => []TypeOK
<1>1. Typed => TypeOK
  BY TypeParts DEF Typed
<1> QED
  BY TypedInit, TypedStep, <1>1, PTL DEF Spec
-----------------------------------------------------------------------------
(* How long a call runs.                                                   *)

\* The steps that c can still take, by the command it is about to run. The
\* pipeline's two commands are repeated together.
StepsLeft(c) ==
  LET again == MaxRetries - tries[c]
  IN  CASE pc[c] = "done" -> 0
        [] pc[c] \in {"save", "revoke"} -> 1 + again
        [] pc[c] = "setnx" -> 1 + 2 * again
        [] pc[c] = "del" -> 2 + 2 * again
        [] pc[c] = "exists" -> 3 + 2 * MaxRetries + again
        [] pc[c] = "get" -> 4 + 3 * MaxRetries + again
        [] OTHER -> 5 + 4 * MaxRetries

LEMMA StepsLeftNat ==
  ASSUME LocalsOK, NEW c \in Call
  PROVE  /\ StepsLeft(c) \in 0..(5 + 4 * MaxRetries)
         /\ StepsLeft(c) = 0 <=> pc[c] = "done"
<1>1. pc[c] \in Running \cup {"idle", "done"} /\ tries[c] \in 0..MaxRetries
  BY DEF LocalsOK
<1> QED
  BY <1>1, ConstantsAssumption DEF StepsLeft, Running

\* An answer ends a call, a lost reply uses up a repeat.
LEMMA LossCounts ==
  ASSUME LocalsOK, NEW c \in Call, pc[c] \in Running, ReplyLost(c)
  PROVE  StepsLeft(c)' < StepsLeft(c)
<1>1. tries[c] \in 0..MaxRetries /\ MaxRetries \in Nat
  BY ConstantsAssumption DEF LocalsOK
<1>2. CASE Answer(c, "Internal")
  BY <1>1, <1>2 DEF Answer, LocalsOK, StepsLeft, Running
<1>3. CASE /\ tries[c] < MaxRetries
           /\ tries'[c] = tries[c] + 1
           /\ pc'[c] = IF pc[c] = "setnx" THEN "del" ELSE pc[c]
  BY <1>1, <1>3 DEF StepsLeft, Running
<1> QED
  BY <1>2, <1>3 DEF ReplyLost, LocalsOK

LEMMA AnswerCounts ==
  ASSUME LocalsOK, NEW c \in Call, pc[c] # "done", NEW r, Answer(c, r)
  PROVE  StepsLeft(c)' < StepsLeft(c)
<1>1. StepsLeft(c)' = 0
  BY DEF Answer, LocalsOK, StepsLeft
<1> QED
  BY <1>1, StepsLeftNat, ConstantsAssumption

\* Every step of a call, its start included, leaves it fewer.
LEMMA OwnStepCounts ==
  ASSUME LocalsOK, NEW c \in Call, Start(c) \/ Step(c)
  PROVE  StepsLeft(c)' < StepsLeft(c)
<1>1. tries[c] \in 0..MaxRetries /\ MaxRetries \in Nat
  BY ConstantsAssumption DEF LocalsOK
<1>2. ASSUME NEW p \in Running, Goto(c, p), <<pc[c], p>> \in
               {<<"idle", "save">>, <<"idle", "get">>, <<"idle", "revoke">>,
                <<"get", "exists">>, <<"exists", "del">>}
      PROVE  StepsLeft(c)' < StepsLeft(c)
  <2>1. pc'[c] = p /\ tries'[c] = 0
    BY <1>2 DEF Goto, LocalsOK
  <2> QED
    BY <1>1, <1>2, <2>1 DEF StepsLeft
<1>3. CASE Start(c)
  BY <1>2, <1>3, AnswerCounts DEF Start, StartGenerate, StartRefresh, StartRevoke, Running
<1>4. CASE Save(c)
  BY <1>4, AnswerCounts, LossCounts DEF Save, Running
<1>5. ASSUME NEW t \in Token, Get(c, t)
      PROVE  StepsLeft(c)' < StepsLeft(c)
  BY <1>2, <1>5 DEF Get, Running
<1>6. CASE GetMissing(c)
  BY <1>6, AnswerCounts DEF GetMissing
<1>7. CASE Exists(c)
  BY <1>2, <1>7, AnswerCounts DEF Exists, Running
<1>8. CASE PipeDel(c)
  <2>1. pc[c] = "del" /\ pc'[c] = "setnx" /\ tries'[c] = tries[c]
    BY <1>8 DEF PipeDel, LocalsOK
  <2> QED
    BY <1>1, <2>1 DEF StepsLeft
<1>9. CASE PipeSetNX(c)
  BY <1>9, AnswerCounts, LossCounts DEF PipeSetNX, Running
<1>10. CASE Revoke(c)
  BY <1>10, AnswerCounts, LossCounts DEF Revoke, Running
<1>11. CASE CommandLost(c)
  BY <1>11, LossCounts DEF CommandLost
<1> QED
  BY <1>3, <1>4, <1>5, <1>6, <1>7, <1>8, <1>9, <1>10, <1>11 DEF Step

\* Nobody else gives a call more to do: all other steps leave it where it is,
\* or end it.
LEMMA OthersCount ==
  ASSUME LocalsOK, NEW c \in Call, [Next]_vars, ~(Start(c) \/ Step(c))
  PROVE  StepsLeft(c)' <= StepsLeft(c)
<1>0. StepsLeft(c) \in Nat /\ MaxRetries \in Nat
  BY StepsLeftNat, ConstantsAssumption
<1>1. ASSUME pc'[c] = pc[c], tries'[c] = tries[c]
      PROVE  StepsLeft(c)' <= StepsLeft(c)
  <2>1. StepsLeft(c)' = StepsLeft(c)
    BY <1>1 DEF StepsLeft
  <2> QED
    BY <1>0, <2>1
<1>2. ASSUME NEW d \in Call, Start(d) \/ Step(d)
      PROVE  pc'[c] = pc[c] /\ tries'[c] = tries[c]
  <2>1. c # d
    BY <1>2
  <2>2. ASSUME NEW p, Goto(d, p)
        PROVE  pc'[c] = pc[c] /\ tries'[c] = tries[c]
    BY <2>1, <2>2 DEF Goto, LocalsOK
  <2>3. ASSUME NEW r, Answer(d, r)
        PROVE  pc'[c] = pc[c] /\ tries'[c] = tries[c]
    BY <2>1, <2>3 DEF Answer, LocalsOK
  <2>4. ASSUME ReplyLost(d)
        PROVE  pc'[c] = pc[c] /\ tries'[c] = tries[c]
    BY <2>1, <2>3, <2>4 DEF ReplyLost, LocalsOK
  <2>5. CASE PipeDel(d)
    BY <2>1, <2>5 DEF PipeDel, LocalsOK
  <2>6. CASE Start(d)
    BY <2>2, <2>3, <2>6 DEF Start, StartGenerate, StartRefresh, StartRevoke
  <2>7. CASE Step(d) /\ ~PipeDel(d)
    BY <2>2, <2>3, <2>4, <2>7
       DEF Step, Save, Get, GetMissing, Exists, PipeSetNX, Revoke, CommandLost
  <2> QED
    BY <1>2, <2>5, <2>6, <2>7
<1>3. ASSUME NEW t \in Token, Expire(t) \/ Evict(t)
      PROVE  pc'[c] = pc[c] /\ tries'[c] = tries[c]
  BY <1>3 DEF Expire, Evict
<1>4. CASE Crash
  <2>1. CASE pc[c] \in Running
    <3>1. StepsLeft(c)' = 0
      BY <1>4, <2>1 DEF Crash, StepsLeft
    <3> QED
      BY <1>0, <3>1
  <2>2. CASE pc[c] \notin Running
    <3>1. pc[c] \in {"idle", "done"} /\ pc'[c] = pc[c]
      BY <1>4, <2>2 DEF Crash, LocalsOK
    <3>2. StepsLeft(c)' = StepsLeft(c)
      BY <3>1 DEF StepsLeft
    <3> QED
      BY <1>0, <3>2
  <2> QED
    BY <2>1, <2>2
<1>5. ASSUME NEW m \in late, ArrivesLate(m)
      PROVE  pc'[c] = pc[c] /\ tries'[c] = tries[c]
  BY <1>5 DEF ArrivesLate
<1>6. CASE UNCHANGED vars
  BY <1>1, <1>6 DEF vars
<1> QED
  BY <1>1, <1>2, <1>3, <1>4, <1>5, <1>6 DEF Next

\* A call ends after at most 4 * MaxRetries + 5 steps of its own, however many
\* replies are lost and whatever other calls, late attempts, Redis or the clock
\* do meanwhile:
\* nothing gives a handler or go-redis an attempt back. With a scheduler that
\* lets it go on, this is Answered.
THEOREM StepsAreCounted ==
  Spec => [][\A c \in Call :
               /\ StepsLeft(c)' <= StepsLeft(c)
               /\ Start(c) \/ Step(c) => StepsLeft(c)' < StepsLeft(c)]_vars
<1>1. Typed /\ [Next]_vars => [\A c \in Call :
               /\ StepsLeft(c)' <= StepsLeft(c)
               /\ Start(c) \/ Step(c) => StepsLeft(c)' < StepsLeft(c)]_vars
  <2> SUFFICES ASSUME LocalsOK, [Next]_vars, Typed, NEW c \in Call
               PROVE  /\ StepsLeft(c)' <= StepsLeft(c)
                      /\ Start(c) \/ Step(c) => StepsLeft(c)' < StepsLeft(c)
    BY DEF Typed
  <2>1. StepsLeft(c) \in Nat /\ StepsLeft(c)' \in Nat
    <3>1. LocalsOK'
      BY TypedStep DEF Typed
    <3>2. pc'[c] \in Running \cup {"idle", "done"} /\ tries'[c] \in 0..MaxRetries
      BY <3>1 DEF LocalsOK
    <3>3. StepsLeft(c)' \in Nat
      BY <3>2, ConstantsAssumption DEF StepsLeft, Running
    <3> QED
      BY <3>3, StepsLeftNat, ConstantsAssumption
  <2> QED
    BY <2>1, OwnStepCounts, OthersCount
<1> QED
  BY <1>1, TypedInit, TypedStep, PTL DEF Spec
-----------------------------------------------------------------------------
(* What a step may do.                                                     *)

\* What a call has minted, was asked and has answered does not change.
Frame ==
  \A c \in Call :
    /\ new[c] \in Token => new'[c] = new[c]
    /\ op[c] # "none" => op'[c] = op[c] /\ arg'[c] = arg[c]
    /\ op[c] = "none" =>
         \/ op'[c] \in {"none", "generate"} /\ arg'[c] = arg[c]
         \/ op'[c] \in {"refresh", "revoke"} /\ arg'[c] \in Issued \cup {Junk}
    /\ pc[c] \in {"del", "setnx", "revoke", "done"} =>
         pc'[c] \in {"del", "setnx", "revoke", "done"}
    /\ pc[c] = "done" => pc'[c] = "done" /\ reply'[c] = reply[c]

\* Only one call mints in a step, a token nobody minted before.
Minting ==
  \A c \in Call :
    new'[c] # new[c] =>
      /\ new'[c] \in Token \ Minted
      /\ pc'[c] # "done"
      /\ \A d \in Call \ {c} : new'[d] = new[d]
      /\ UNCHANGED <<store, taker, expired>>

\* Redis gains the token of a running call or of a late attempt, and loses
\* tokens that expired or that a DEL takes.
Keys ==
  /\ \A t \in store' \ store :
       /\ \/ \E c \in Call : new[c] = t /\ pc[c] \in {"save", "setnx"}
          \/ /\ \E m \in late \ late' : new[m.call] = t /\ m.call \in Call
             /\ taker[t] # NoCall => t \in revived'
       /\ UNCHANGED <<taker, expired>>
  /\ \A t \in store \ store' : t \in expired \/ taker'[t] # NoCall
  /\ \A t \in Token :
       taker'[t] # taker[t] =>
         /\ taker[t] = NoCall
         /\ t \in store
         /\ t \notin store'
         /\ taker'[t] \in Call
         /\ arg[taker'[t]] = t
         /\ op[taker'[t]] \in {"refresh", "revoke"}
         /\ pc[taker'[t]] \in {"del", "setnx", "revoke", "done"}
  /\ expired \subseteq expired'
  /\ \A t \in expired' \ expired : t \in Minted /\ Settled(t) /\ UNCHANGED <<pc, new, late>>

\* Late attempts are of calls that run or have one already. A key that they
\* put back was taken; nothing else happens in that step.
Lateness ==
  /\ \A m \in late' \ late :
       /\ m.call \in Call
       /\ pc[m.call] \in Running \/ \E k \in late : k.call = m.call
       /\ UNCHANGED new
  /\ revived \subseteq revived'
  /\ \A t \in revived' \ revived :
       /\ t \in Token
       /\ taker[t] # NoCall
       /\ revived' = revived \cup {t}
       /\ store' = store \cup {t}
       /\ late' \subseteq late
       /\ \A m \in late \ late' : new[m.call] = t
       /\ UNCHANGED <<expired, pc, inputVars, reply, taker>>

\* What the DEL of a pipeline finds.
Deletions ==
  \A c \in Call :
    /\ deleted'[c] =>
         \/ deleted[c]
         \/ /\ arg'[c] \in Token
            /\ taker'[arg'[c]] = c \/ (arg'[c] \in store /\ taker[arg'[c]] # NoCall)
    /\ pc'[c] = "setnx" => pc[c] = "setnx" \/ arg'[c] \notin store'

\* What an answer goes with.
Answers ==
  \A c \in Call :
    reply'[c] # reply[c] =>
      /\ new'[c] = new[c]
      /\ reply'[c] = "OK" =>
           /\ pc[c] \in {"save", "setnx", "revoke"}
           /\ pc[c] \in {"save", "setnx"} => new[c] \in store'
           /\ pc[c] = "setnx" => deleted[c]
           /\ pc[c] = "revoke" =>
                /\ arg[c] \in Token
                /\ taker'[arg[c]] = c \/ (arg[c] \in store /\ taker[arg[c]] # NoCall)
      /\ reply'[c] = "Unauthenticated" =>
           \/ arg'[c] \notin store'
           \/ /\ pc[c] = "setnx"
              /\ store' = store \cup {new[c]}

LEMMA StepFacts ==
  ASSUME Typed, [Next]_vars
  PROVE  Frame /\ Minting /\ Keys /\ Lateness /\ Deletions /\ Answers
<1> USE DEF Typed, LocalsOK, DataOK, Phases, LateOK, storeVars, inputVars, lateVars, Frame, Minting,
            Keys, Lateness, Deletions, Answers, Running, Status
<1>0. Issued \subseteq Token
  BY DEF Issued
<1>1. ASSUME NEW c \in Call, NEW t \in Token, StartGenerate(c, t)
      PROVE  Frame /\ Minting /\ Keys /\ Lateness /\ Deletions /\ Answers
  BY <1>1, ConstantsAssumption DEF StartGenerate, Goto
<1>2. ASSUME NEW c \in Call, NEW t \in Issued \cup {Junk}, StartRefresh(c, t)
      PROVE  Frame /\ Minting /\ Keys /\ Lateness /\ Deletions /\ Answers
  BY <1>0, <1>2, ConstantsAssumption DEF StartRefresh, Goto, Answer
<1>3. ASSUME NEW c \in Call, NEW t \in Issued \cup {Junk}, StartRevoke(c, t)
      PROVE  Frame /\ Minting /\ Keys /\ Lateness /\ Deletions /\ Answers
  BY <1>0, <1>3, ConstantsAssumption DEF StartRevoke, Goto
<1>4. ASSUME NEW c \in Call, Save(c)
      PROVE  Frame /\ Minting /\ Keys /\ Lateness /\ Deletions /\ Answers
  BY <1>4, ConstantsAssumption DEF Save, Answer, ReplyLost, SetNX
<1>5. ASSUME NEW c \in Call, NEW t \in Token, Get(c, t)
      PROVE  Frame /\ Minting /\ Keys /\ Lateness /\ Deletions /\ Answers
  BY <1>5, ConstantsAssumption DEF Get, Goto
<1>6. ASSUME NEW c \in Call, GetMissing(c)
      PROVE  Frame /\ Minting /\ Keys /\ Lateness /\ Deletions /\ Answers
  BY <1>6, ConstantsAssumption DEF GetMissing, Answer
<1>7. ASSUME NEW c \in Call, Exists(c)
      PROVE  Frame /\ Minting /\ Keys /\ Lateness /\ Deletions /\ Answers
  BY <1>7, ConstantsAssumption DEF Exists, Goto, Answer
<1>8. ASSUME NEW c \in Call, PipeDel(c)
      PROVE  Frame /\ Minting /\ Keys /\ Lateness /\ Deletions /\ Answers
  BY <1>8, ConstantsAssumption DEF PipeDel, Del
<1>9. ASSUME NEW c \in Call, PipeSetNX(c)
      PROVE  Frame /\ Minting /\ Keys /\ Lateness /\ Deletions /\ Answers
  BY <1>9, ConstantsAssumption DEF PipeSetNX, Answer, ReplyLost, SetNX
<1>10. ASSUME NEW c \in Call, Revoke(c)
      PROVE  Frame /\ Minting /\ Keys /\ Lateness /\ Deletions /\ Answers
  BY <1>10, ConstantsAssumption DEF Revoke, Answer, ReplyLost, Del
<1>11. ASSUME NEW c \in Call, CommandLost(c)
      PROVE  Frame /\ Minting /\ Keys /\ Lateness /\ Deletions /\ Answers
  <2>1. \A m \in late' \ late : m.call = c
    BY <1>11, DelayedTyped DEF CommandLost
  <2>2. Lateness
    BY <1>11, <2>1 DEF CommandLost
  <2>3. Frame /\ Minting /\ Keys /\ Deletions /\ Answers
    BY <1>11, ConstantsAssumption DEF CommandLost, ReplyLost, Answer
  <2> QED
    BY <2>2, <2>3
<1>12. ASSUME NEW t \in Token, Expire(t) \/ Evict(t)
      PROVE  Frame /\ Minting /\ Keys /\ Lateness /\ Deletions /\ Answers
  BY <1>12, ConstantsAssumption DEF Expire, Evict
<1>13. CASE Crash
  <2>1. \A m \in late' \ late : m.call \in Call /\ pc[m.call] \in Writes
    BY <1>13, DelayedTyped DEF Crash
  <2>2. Lateness
    BY <1>13, <2>1 DEF Crash, Writes
  <2>3. Frame /\ Minting /\ Keys /\ Deletions /\ Answers
    BY <1>13, ConstantsAssumption DEF Crash
  <2> QED
    BY <2>2, <2>3
<1>14. ASSUME NEW m \in late, ArrivesLate(m)
      PROVE  Frame /\ Minting /\ Keys /\ Lateness /\ Deletions /\ Answers
  <2>1. UNCHANGED <<expired, pc, op, arg, new, session, deleted, tries, reply>>
    BY <1>14 DEF ArrivesLate
  <2>2. m.call \in Call
    OBVIOUS
  <2>3. Frame /\ Minting /\ Deletions /\ Answers
    BY <2>1
  <2>4. CASE m.cmd \in {"save", "setnx"}
    <3>1. /\ store' = store \cup {new[m.call]}
          /\ late' = late \ {m}
          /\ revived' = revived \cup {t \in {new[m.call]} \ store : taker[t] # NoCall}
          /\ UNCHANGED taker
      BY <1>14, <2>4 DEF ArrivesLate, SetNX
    <3>2. new[m.call] \in Token
      BY <2>2, <2>4 DEF LateOK
    <3>3. Keys
      BY <2>1, <2>2, <3>1
    <3>4. Lateness
      BY <2>1, <3>1, <3>2
    <3> QED
      BY <2>3, <3>3, <3>4
  <2>5. CASE m.cmd \in {"del", "revoke"}
    <3>1. Del(m.call) /\ UNCHANGED revived
      BY <1>14, <2>5 DEF ArrivesLate
    <3>2. op[m.call] \in {"refresh", "revoke"} /\ pc[m.call] \in {"del", "setnx", "revoke", "done"}
      BY <2>2, <2>5 DEF LateOK
    <3>3. Keys
      BY <2>1, <2>2, <3>1, <3>2, ConstantsAssumption DEF Del
    <3>4. \A k \in late' : k.call = m.call \/ k \in late
      BY <1>14 DEF ArrivesLate
    <3>5. Lateness
      BY <2>1, <2>2, <3>1, <3>4
    <3> QED
      BY <2>3, <3>3, <3>5
  <2> QED
    BY <2>4, <2>5 DEF Writes
<1>15. CASE UNCHANGED vars
  BY <1>15 DEF vars
<1> QED
  <2> USE DEF Next, Start, Step
  <2> HIDE DEF Typed, LocalsOK, DataOK, Phases, LateOK, storeVars, inputVars, lateVars, Frame, Minting,
            Keys, Lateness, Deletions, Answers, Running, Status
  <2> QED
    BY <1>1, <1>2, <1>3, <1>4, <1>5, <1>6, <1>7, <1>8, <1>9, <1>10, <1>11,
       <1>12, <1>13, <1>14, <1>15
-----------------------------------------------------------------------------
(* The inductive invariant.                                                *)

\* A token is minted by one call.
UniqueMint ==
  \A c, d \in Call : new[c] = new[d] /\ new[c] \in Token => c = d

\* Clients present tokens they were given, or junk.
Inputs ==
  \A c \in Call :
    IF op[c] \in {"refresh", "revoke"} THEN arg[c] \in Issued \cup {Junk}
                                       ELSE arg[c] = NoToken

\* A taken token had been given to a client, is not in Redis unless it has been
\* put back, and was taken by a call that presented it.
Takers ==
  /\ \A t \in Token :
       taker[t] # NoCall =>
         /\ t \in Issued
         /\ t \in store => t \in revived
         /\ arg[taker[t]] = t
         /\ pc[taker[t]] \in {"del", "setnx", "revoke", "done"}
  /\ \A t \in revived : taker[t] # NoCall

\* c has taken the token it presented, or that token had been put back.
Took(c) == arg[c] \in Token /\ (taker[arg[c]] = c \/ arg[c] \in revived)

\* A call whose DEL found the key, and one that was answered OK, has taken the
\* token it presented; past its DEL the key is not there.
Winners ==
  \A c \in Call :
    /\ deleted[c] => Took(c)
    /\ reply[c] = "OK" /\ op[c] # "generate" => Took(c)
    /\ pc[c] = "setnx" => arg[c] \notin store \/ arg[c] \in revived

\* Only tokens of calls that have ended expire.
Expiry == \A t \in expired : t \in Minted /\ Settled(t)

Inv ==
  /\ Typed
  /\ UniqueMint
  /\ Inputs
  /\ Takers
  /\ Winners
  /\ Expiry
  /\ IssuedIsLive
  /\ NotFoundMeansGone

LEMMA InvInit == Init => Inv
<1> SUFFICES ASSUME Init PROVE Inv
  OBVIOUS
<1>1. Typed
  BY TypedInit
<1>2. UniqueMint /\ Inputs /\ Takers /\ Winners
  BY ConstantsAssumption DEF Init, UniqueMint, Inputs, Takers, Winners
<1>3. Expiry /\ IssuedIsLive /\ NotFoundMeansGone
  BY ConstantsAssumption DEF Init, Expiry, IssuedIsLive, NotFoundMeansGone, Issued
<1> QED
  BY <1>1, <1>2, <1>3 DEF Inv

\* A token that a client holds stays one.
LEMMA IssuedGrows ==
  ASSUME Typed, [Next]_vars
  PROVE  Issued \subseteq Issued'
BY StepFacts DEF Issued, Frame, Typed, Phases

\* A token settles when its call has ended and nothing of it is on its way, and
\* never unsettles.
LEMMA Settling ==
  ASSUME Typed, [Next]_vars, NEW t \in Minted, Settled(t)
  PROVE  Settled(t)'
<1>1. Frame /\ Minting /\ Lateness
  BY StepFacts
<1>2. \A c \in Call : new'[c] = t => new[c] = t
  BY <1>1 DEF Minting
<1>3. \A c \in Call : new'[c] = t => pc'[c] = "done"
  BY <1>1, <1>2 DEF Settled, Frame
<1>4. ASSUME NEW m \in late'
      PROVE  new'[m.call] # t
  <2>1. m.call \in Call /\ (m \in late \/ pc[m.call] \in Running \/ \E k \in late : k.call = m.call)
    BY <1>1 DEF Lateness, Typed, DataOK
  <2>2. "done" \notin Running
    BY DEF Running
  <2> QED
    BY <1>2, <2>1, <2>2 DEF Settled
<1> QED
  BY <1>3, <1>4 DEF Settled

\* The key that enters has not expired. It is one that nobody has been given or
\* has taken, unless a late attempt of a call that was answered OK puts back a
\* taken one.
LEMMA EnteringKeys ==
  ASSUME Inv, [Next]_vars, NEW t \in store' \ store
  PROVE  /\ t \in Token \ expired
         /\ \/ t \notin Issued /\ taker[t] = NoCall
            \/ /\ t \in revived' /\ taker[t] # NoCall
               /\ \E m \in late \ late' : new[m.call] = t /\ reply[m.call] = "OK"
<1>1. Keys
  BY StepFacts DEF Inv
<1>2. CASE \E c \in Call : new[c] = t /\ pc[c] \in {"save", "setnx"}
  <2>1. PICK c \in Call : new[c] = t /\ pc[c] \in {"save", "setnx"}
    BY <1>2
  <2>2. t \in Token /\ pc[c] # "done" /\ reply[c] # "OK"
    BY <2>1 DEF Inv, Typed, Phases
  <2>3. t \notin Issued
    BY <2>1, <2>2 DEF Inv, UniqueMint, Issued
  <2> QED
    BY <2>1, <2>2, <2>3 DEF Inv, Takers, Expiry, Settled
<1>3. CASE \E m \in late \ late' : new[m.call] = t /\ m.call \in Call /\ (taker[t] # NoCall => t \in revived')
  <2>1. PICK m \in late \ late' : new[m.call] = t /\ m.call \in Call /\ (taker[t] # NoCall => t \in revived')
    BY <1>3
  <2>2. ~Settled(t)
    BY <2>1 DEF Settled
  <2>3. t \in Token \ expired
    <3>1. store' \subseteq Token
      BY TypedStep DEF Inv, Typed, DataOK
    <3> QED
      BY <2>2, <3>1 DEF Inv, Expiry
  <2>4. CASE taker[t] = NoCall
    BY <2>3, <2>4 DEF Inv, IssuedIsLive
  <2>5. CASE taker[t] # NoCall
    <3>1. PICK c \in Call : new[c] = t /\ reply[c] = "OK"
      BY <2>3, <2>5 DEF Inv, Takers, Issued
    <3>2. c = m.call
      BY <2>1, <2>3, <3>1 DEF Inv, UniqueMint
    <3> QED
      BY <2>1, <2>3, <2>5, <3>1, <3>2
  <2> QED
    BY <2>4, <2>5
<1> QED
  BY <1>1, <1>2, <1>3 DEF Keys

\* A key that a client knows enters only as one that is put back.
LEMMA KnownKeys ==
  ASSUME Inv, [Next]_vars, NEW t \in Issued \cup {Junk, NoToken}
  PROVE  t \in store' => t \in store \/ t \in revived'
<1>1. t \in store' \ store => t \in Token
  BY EnteringKeys
<1> QED
  BY <1>1, EnteringKeys, ConstantsAssumption

\* A running call's token is not one that a client holds.
LEMMA RunningUnissued ==
  ASSUME Inv, NEW c \in Call, pc[c] # "done"
  PROVE  new[c] \notin Issued
BY DEF Inv, UniqueMint, Issued, Typed, Phases

LEMMA InvStep == Inv /\ [Next]_vars => Inv'
<1> SUFFICES ASSUME Inv, [Next]_vars PROVE Inv'
  OBVIOUS
<1>1. Typed /\ Typed'
  BY TypedStep DEF Inv
<1>2. Frame /\ Minting /\ Keys /\ Lateness /\ Deletions /\ Answers
  BY <1>1, StepFacts
<1>3. Issued \subseteq Token /\ Issued \subseteq Issued'
  BY <1>1, IssuedGrows DEF Issued
<1>4. UniqueMint'
  BY <1>1, <1>2 DEF Inv, UniqueMint, Frame, Minting, Minted, Typed, DataOK
<1>5. Inputs'
  BY <1>1, <1>2, <1>3 DEF Inv, Inputs, Frame, Typed, DataOK
<1>6. Takers'
  <2>1. ASSUME NEW t \in Token, taker'[t] # NoCall
        PROVE  /\ t \in Issued'
               /\ t \in store' => t \in revived'
               /\ arg'[taker'[t]] = t
               /\ pc'[taker'[t]] \in {"del", "setnx", "revoke", "done"}
    <3>1. CASE taker'[t] = taker[t]
      <4>1. t \in Issued /\ (t \in store => t \in revived)
        BY <2>1, <3>1 DEF Inv, Takers
      <4>2. t \in Issued' /\ (t \in store' => t \in revived')
        BY <1>2, <1>3, <4>1, KnownKeys DEF Lateness
      <4>3. taker[t] \in Call /\ op[taker[t]] # "none"
        BY <2>1, <3>1 DEF Inv, Takers, Typed, DataOK, Phases
      <4> QED
        BY <1>2, <2>1, <3>1, <4>2, <4>3 DEF Inv, Takers, Frame
    <3>2. CASE taker'[t] # taker[t]
      <4>1. /\ t \notin store'
            /\ taker'[t] \in Call
            /\ arg[taker'[t]] = t
            /\ op[taker'[t]] \in {"refresh", "revoke"}
            /\ pc[taker'[t]] \in {"del", "setnx", "revoke", "done"}
        BY <1>2, <3>2 DEF Keys
      <4>2. t \in Issued
        BY <4>1, ConstantsAssumption DEF Inv, Inputs
      <4> QED
        BY <1>2, <1>3, <4>1, <4>2 DEF Frame
    <3> QED
      BY <3>1, <3>2
  <2>2. ASSUME NEW t \in revived'
        PROVE  taker'[t] # NoCall
    <3>1. t \in Token /\ taker[t] # NoCall
      BY <1>1, <1>2 DEF Inv, Takers, Lateness, Typed, DataOK
    <3> QED
      BY <1>2, <3>1 DEF Keys
  <2> QED
    BY <2>1, <2>2 DEF Takers
<1>7. Winners'
  <2> SUFFICES ASSUME NEW c \in Call
               PROVE  /\ deleted'[c] => Took(c)'
                      /\ reply'[c] = "OK" /\ op'[c] # "generate" => Took(c)'
                      /\ pc'[c] = "setnx" => arg'[c] \notin store' \/ arg'[c] \in revived'
    BY DEF Winners
  <2>1. ASSUME Took(c), op[c] # "none"
        PROVE  Took(c)'
    <3>1. arg'[c] = arg[c] /\ revived \subseteq revived'
      BY <1>2, <2>1 DEF Frame, Lateness
    <3>2. taker[arg[c]] = c => taker'[arg[c]] = c
      BY <1>2, <2>1, ConstantsAssumption DEF Took, Keys
    <3> QED
      BY <2>1, <3>1, <3>2 DEF Took
  <2>2. ASSUME arg'[c] \in Token,
               taker'[arg'[c]] = c \/ (arg'[c] \in store /\ taker[arg'[c]] # NoCall)
        PROVE  Took(c)'
    BY <1>2, <2>2 DEF Took, Inv, Takers, Lateness
  <2>3. deleted'[c] => Took(c)'
    BY <1>2, <2>1, <2>2 DEF Inv, Winners, Deletions, Typed, Phases
  <2>4. ASSUME reply'[c] = "OK", op'[c] # "generate"
        PROVE  Took(c)'
    <3>1. CASE reply[c] = "OK"
      BY <1>2, <2>1, <2>4, <3>1 DEF Inv, Winners, Frame, Typed, Phases
    <3>2. CASE reply[c] # "OK"
      <4>1. /\ pc[c] \in {"save", "setnx", "revoke"}
            /\ pc[c] = "setnx" => deleted[c]
            /\ pc[c] = "revoke" =>
                 /\ arg[c] \in Token
                 /\ taker'[arg[c]] = c \/ (arg[c] \in store /\ taker[arg[c]] # NoCall)
        BY <1>2, <2>4, <3>2 DEF Answers
      <4>2. op[c] # "none" /\ op'[c] = op[c] /\ arg'[c] = arg[c]
        BY <1>2, <4>1 DEF Frame, Inv, Typed, Phases
      <4>3. CASE pc[c] = "setnx"
        BY <2>1, <4>1, <4>2, <4>3 DEF Inv, Winners
      <4>4. CASE pc[c] = "revoke"
        BY <2>2, <4>1, <4>2, <4>4
      <4> QED
        BY <2>4, <4>1, <4>2, <4>3, <4>4 DEF Inv, Typed, Phases
    <3> QED
      BY <3>1, <3>2
  <2>5. pc'[c] = "setnx" => arg'[c] \notin store' \/ arg'[c] \in revived'
    <3> SUFFICES ASSUME pc[c] = "setnx" PROVE arg'[c] \notin store' \/ arg'[c] \in revived'
      BY <1>2 DEF Deletions
    <3>1. /\ arg'[c] = arg[c] /\ arg[c] \in Issued \cup {Junk}
          /\ arg[c] \notin store \/ arg[c] \in revived
      BY <1>2 DEF Inv, Winners, Inputs, Frame, Typed, Phases
    <3> QED
      BY <1>2, <3>1, KnownKeys DEF Lateness
  <2> QED
    BY <2>3, <2>4, <2>5
<1>8. Expiry'
  <2> SUFFICES ASSUME NEW t \in expired' PROVE t \in Minted' /\ Settled(t)'
    BY DEF Expiry
  <2>1. t \in Minted /\ Settled(t)
    BY <1>2 DEF Inv, Expiry, Keys
  <2>2. t \in Minted'
    BY <1>2, <2>1 DEF Minted, Frame
  <2> QED
    BY <1>1, <2>1, <2>2, Settling
<1>9. IssuedIsLive'
  <2> SUFFICES ASSUME NEW t \in Issued'
               PROVE  t \in store' \/ taker'[t] # NoCall \/ t \in expired'
    BY DEF IssuedIsLive
  <2>1. CASE t \in Issued
    BY <1>2, <1>3, <2>1, ConstantsAssumption DEF Inv, IssuedIsLive, Keys
  <2>2. CASE t \notin Issued
    <3>1. PICK c \in Call : t \in Token /\ new'[c] = t /\ reply'[c] = "OK"
      BY DEF Issued
    <3>2. reply'[c] # reply[c]
      BY <1>1, <1>2, <2>2, <3>1 DEF Issued, Frame, Minting, Typed, Phases
    <3> QED
      BY <1>2, <3>1, <3>2, ConstantsAssumption DEF Inv, Answers, Typed, Phases
  <2> QED
    BY <2>1, <2>2
<1>10. NotFoundMeansGone'
  <2> SUFFICES ASSUME NEW c \in Call, reply'[c] = "Unauthenticated", arg'[c] \notin revived'
               PROVE  arg'[c] \notin store'
    BY DEF NotFoundMeansGone
  <2>1. arg[c] \in Issued \cup {Junk, NoToken}
    BY DEF Inv, Inputs
  <2>2. arg[c] \in store' => arg[c] \in store \/ arg[c] \in revived'
    BY <2>1, KnownKeys
  <2>3. CASE reply'[c] = reply[c]
    <3>1. arg'[c] = arg[c] /\ revived \subseteq revived'
      BY <1>2, <2>3 DEF Inv, Frame, Lateness, Typed, Phases
    <3> QED
      BY <2>2, <2>3, <3>1 DEF Inv, NotFoundMeansGone
  <2>4. CASE reply'[c] # reply[c]
    <3>1. arg'[c] \notin store' \/ (pc[c] = "setnx" /\ store' = store \cup {new[c]})
      BY <1>2, <2>4 DEF Answers
    <3>2. pc[c] = "setnx" => arg'[c] = arg[c] /\ (arg[c] \notin store \/ arg[c] \in revived)
      BY <1>2 DEF Inv, Winners, Frame, Typed, Phases
    <3> QED
      BY <1>2, <2>2, <3>1, <3>2 DEF Lateness
  <2> QED
    BY <2>3, <2>4
<1> QED
  BY <1>1, <1>4, <1>5, <1>6, <1>7, <1>8, <1>9, <1>10 DEF Inv

LEMMA InvAlways == Spec => []Inv
BY InvInit, InvStep, PTL DEF Spec

\* One token, one OK: of all refreshes and revocations that present it at most
\* one succeeds, whatever the interleaving of their Redis commands, the lost
\* replies and the repeats.
THEOREM SingleUseCorrect == Spec => []SingleUse
<1>1. Inv => SingleUse
  <2> SUFFICES ASSUME Inv,
                      NEW c \in Call, NEW d \in Call,
                      {op[c], op[d]} \subseteq {"refresh", "revoke"},
                      reply[c] = "OK", reply[d] = "OK",
                      arg[c] = arg[d], arg[c] \notin revived
               PROVE  c = d
    BY DEF SingleUse
  <2>1. op[c] # "generate" /\ op[d] # "generate"
    OBVIOUS
  <2> QED
    BY <2>1 DEF Inv, Winners, Took
<1> QED
  BY <1>1, InvAlways, PTL

\* OK means that the new token works until it is taken or expires.
THEOREM IssuedIsLiveCorrect == Spec => []IssuedIsLive
<1>1. Inv => IssuedIsLive
  BY DEF Inv
<1> QED
  BY <1>1, InvAlways, PTL

\* "token not found" is never said of a token whose key is in Redis, and stays
\* true until a late SET NX puts that key back.
THEOREM NotFoundCorrect == Spec => []NotFoundMeansGone
<1>1. Inv => NotFoundMeansGone
  BY DEF Inv
<1> QED
  BY <1>1, InvAlways, PTL

\* No key of a token that was given out, taken or has expired enters Redis,
\* but by the late SET NX of a call that was answered OK; no repeat, crash or
\* late pipeline brings one back.
THEOREM NoResurrectionCorrect == Spec => NoResurrection
<1>1. Inv /\ [Next]_vars =>
        [\A t \in store' \ store :
           /\ t \notin expired
           /\ \/ t \notin Issued /\ taker[t] = NoCall
              \/ \E m \in late \ late' : new[m.call] = t /\ reply[m.call] = "OK"]_vars
  BY EnteringKeys
<1> QED
  BY <1>1, InvAlways, PTL DEF Spec, NoResurrection
-----------------------------------------------------------------------------
(* Sessions.                                                               *)

\* A DEL of c's argument, in time or late, of a revocation or of a pipeline,
\* whose SET NX is then still to come.
Takes(c) ==
  /\ Del(c)
  /\ op[c] \in {"refresh", "revoke"}
  /\ new[c] \in Token <=> op[c] = "refresh"
  /\ op[c] = "refresh" =>
       /\ pc'[c] = "setnx" \/ \E m \in late' : m.call = c
       /\ \A d \in Call \ {c} : pc'[d] = pc[d]
       /\ \A k \in late' : \E m \in late : m.call = k.call
       /\ \A m \in late : \E k \in late' : k.call = m.call
  /\ UNCHANGED <<op, arg, new, session, revived>>

\* The steps that mint or take are these; every other one leaves lineage
\* alone and starts no login.
LEMMA StepKinds ==
  ASSUME Typed, [Next]_vars
  PROVE  \/ \E c \in Call, t \in Token : StartGenerate(c, t) \/ Get(c, t)
         \/ \E c \in Call : Takes(c)
         \/ /\ UNCHANGED <<new, session, taker>>
            /\ \A c \in Call : op'[c] = "generate" <=> op[c] = "generate"
<1> USE DEF Typed, DataOK, Phases, LateOK, storeVars, inputVars, lateVars
<1>0. Issued \subseteq Token
  BY DEF Issued
<1>1. ASSUME NEW c \in Call, NEW t \in Token \cup {Junk},
             StartRefresh(c, t) \/ StartRevoke(c, t)
      PROVE  /\ UNCHANGED <<new, session, taker>>
             /\ \A d \in Call : op'[d] = "generate" <=> op[d] = "generate"
  BY <1>1 DEF StartRefresh, StartRevoke
<1>2. ASSUME NEW c \in Call,
             Save(c) \/ GetMissing(c) \/ Exists(c) \/ PipeSetNX(c) \/ CommandLost(c)
      PROVE  UNCHANGED <<new, session, taker, op>>
  BY <1>2 DEF Save, GetMissing, Exists, PipeSetNX, CommandLost
<1>3. ASSUME NEW t \in Token, Expire(t) \/ Evict(t)
      PROVE  UNCHANGED <<new, session, taker, op>>
  BY <1>3 DEF Expire, Evict
<1>4. CASE Crash
  BY <1>4 DEF Crash
<1>5. ASSUME NEW c \in Call, PipeDel(c) \/ Revoke(c)
      PROVE  Takes(c)
  BY <1>5, ConstantsAssumption DEF PipeDel, Revoke, Takes, LocalsOK
<1>6. ASSUME NEW m \in late, ArrivesLate(m)
      PROVE  \/ Takes(m.call) /\ m.call \in Call
             \/ UNCHANGED <<new, session, taker, op>>
  <2>1. CASE m.cmd \in {"save", "setnx"}
    BY <1>6, <2>1 DEF ArrivesLate
  <2>2. CASE m.cmd = "revoke"
    BY <1>6, <2>2, ConstantsAssumption DEF ArrivesLate, Takes
  <2>3. CASE m.cmd = "del"
    <3> DEFINE k == [m EXCEPT !.cmd = "setnx"]
    <3>1. k.call = m.call /\ late' = (late \ {m}) \cup {k}
      BY <1>6, <2>3 DEF ArrivesLate
    <3>2. /\ \A x \in late' : \E y \in late : y.call = x.call
          /\ \A y \in late : \E x \in late' : x.call = y.call
      BY <3>1
    <3>3. k \in late'
      BY <3>1
    <3>4. /\ Del(m.call)
          /\ op[m.call] = "refresh" /\ new[m.call] \in Token
          /\ UNCHANGED <<op, arg, new, session, revived, pc>>
      BY <1>6, <2>3 DEF ArrivesLate
    <3>5. \E x \in late' : x.call = m.call
      BY <3>1, <3>3
    <3> HIDE DEF k, Typed, DataOK, Phases, LateOK
    <3>6. m.call \in Call
      BY DEF Typed, DataOK
    <3>7. Takes(m.call)
      BY <3>2, <3>4, <3>5, Zenon DEF Takes
    <3> QED
      BY <3>6, <3>7
  <2> QED
    BY <2>1, <2>2, <2>3 DEF Writes
<1>7. CASE UNCHANGED vars
  BY <1>7 DEF vars
<1> QED
  BY <1>0, <1>1, <1>2, <1>3, <1>4, <1>5, <1>6, <1>7 DEF Next, Start, Step

\* A minted token descends from a login that took place: its own, or that of
\* the token it was exchanged for.
Lineage ==
  /\ \A c \in Call : op[c] = "generate" => session[new[c]] = c
  /\ \A c \in Call :
       op[c] = "refresh" /\ new[c] \in Token =>
         arg[c] \in Token /\ session[new[c]] = session[arg[c]]
  /\ \A t \in Minted : session[t] \in Call /\ op[session[t]] = "generate"

\* t is the end of a chain of exchanges.
OpenEnd(t) == InChain(t) /\ taker[t] = NoCall

\* The chain of a session that is not broken has one open end.
OneOpenEnd ==
  \A t, u \in Token :
    OpenEnd(t) /\ OpenEnd(u) /\ session[t] = session[u] /\ session[t] \notin Broken => t = u

SessionInv == Inv /\ Lineage /\ OneOpenEnd

\* Tokens that clients hold are in the chain of their session, or it is broken.
LEMMA IssuedInChain ==
  ASSUME Inv, Lineage, NEW t \in Issued, session[t] \notin Broken
  PROVE  InChain(t)
<1>1. PICK c \in Call : new[c] = t /\ reply[c] = "OK" /\ t \in Token
  BY DEF Issued
<1>2. op[c] \in {"generate", "refresh"}
  BY <1>1, ConstantsAssumption DEF Inv, Typed, Phases, DataOK
<1>3. CASE op[c] = "generate"
  BY <1>1, <1>3 DEF InChain
<1>4. CASE op[c] = "refresh"
  <2>1. Took(c) /\ session[t] = session[arg[c]]
    BY <1>1, <1>4 DEF Inv, Winners, Lineage
  <2>2. arg[c] \notin revived
    BY <2>1 DEF Broken
  <2> QED
    BY <1>1, <2>1, <2>2 DEF Took, InChain
<1> QED
  BY <1>2, <1>3, <1>4

LEMMA SessionInit == Init => SessionInv
<1> SUFFICES ASSUME Init PROVE SessionInv
  OBVIOUS
<1>1. \A c \in Call : new[c] = NoToken /\ op[c] = "none"
  BY DEF Init
<1>2. Lineage
  BY <1>1, ConstantsAssumption DEF Lineage, Minted
<1>3. OneOpenEnd
  BY <1>1, ConstantsAssumption DEF OneOpenEnd, OpenEnd, InChain
<1> QED
  BY <1>2, <1>3, InvInit DEF SessionInv

\* What clients present has been minted.
LEMMA PresentedIsMinted ==
  ASSUME Inv, NEW c \in Call, arg[c] \in Token
  PROVE  arg[c] \in Minted
BY ConstantsAssumption DEF Inv, Inputs, Issued, Minted

LEMMA LineageStep ==
  ASSUME SessionInv, [Next]_vars
  PROVE  Lineage'
<1>1. Inv /\ Typed /\ Lineage /\ Frame
  BY StepFacts DEF SessionInv, Inv
<1>2. \A d \in Call : new[d] \in Token => new[d] \in Minted /\ op[d] # "none"
  BY <1>1, ConstantsAssumption DEF Minted, Typed, Phases
<1>3. \A d \in Call : arg[d] \in Token => arg[d] \in Minted
  BY <1>1, PresentedIsMinted
<1>4. ASSUME NEW c \in Call, NEW t \in Token, StartGenerate(c, t)
      PROVE  Lineage'
  <2>1. /\ t \notin Minted
        /\ op[c] = "none"
        /\ op' = [op EXCEPT ![c] = "generate"]
        /\ new' = [new EXCEPT ![c] = t]
        /\ session' = [session EXCEPT ![t] = c]
        /\ arg' = arg
    BY <1>1, <1>4 DEF StartGenerate, Typed, Phases
  <2>2. Minted' = Minted \cup {t}
    BY <1>1, <2>1, ConstantsAssumption DEF Minted, Typed, DataOK, Phases
  <2>3. \A u \in Minted : session'[u] = session[u]
    BY <1>1, <2>1 DEF Typed, DataOK, Minted
  <2>4. session'[t] = c /\ op'[c] = "generate" /\ new'[c] = t
    BY <1>1, <2>1 DEF Typed, DataOK
  <2>5. \A d \in Call \ {c} : op'[d] = op[d] /\ new'[d] = new[d]
    BY <1>1, <2>1 DEF Typed, DataOK
  <2>6. \A d \in Call : op'[d] = "generate" => session'[new'[d]] = d
    BY <1>1, <1>2, <2>3, <2>4, <2>5 DEF Lineage, Typed, Phases
  <2>7. \A d \in Call :
          op'[d] = "refresh" /\ new'[d] \in Token =>
            arg'[d] \in Token /\ session'[new'[d]] = session'[arg'[d]]
    BY <1>1, <1>2, <1>3, <2>1, <2>3, <2>4, <2>5 DEF Lineage
  <2>8. \A u \in Minted' : session'[u] \in Call /\ op'[session'[u]] = "generate"
    BY <1>1, <2>1, <2>2, <2>3, <2>4, <2>5 DEF Lineage
  <2> QED
    BY <2>6, <2>7, <2>8 DEF Lineage
<1>5. ASSUME NEW c \in Call, NEW t \in Token, Get(c, t)
      PROVE  Lineage'
  <2>1. /\ t \notin Minted
        /\ op[c] = "refresh"
        /\ arg[c] \in Token
        /\ op' = op
        /\ new' = [new EXCEPT ![c] = t]
        /\ session' = [session EXCEPT ![t] = session[arg[c]]]
        /\ arg' = arg
    BY <1>1, <1>5 DEF Get, Typed, Phases, DataOK
  <2>2. \A u \in Minted : session'[u] = session[u]
    BY <1>1, <2>1 DEF Typed, DataOK, Minted
  <2>3. session'[t] = session[arg[c]] /\ new'[c] = t
    BY <1>1, <2>1 DEF Typed, DataOK
  <2>4. \A d \in Call \ {c} : new'[d] = new[d]
    BY <1>1, <2>1 DEF Typed, DataOK
  <2>5. \A u \in Minted' : u \in Minted \cup {t}
    BY <2>3, <2>4 DEF Minted
  <2>6. \A d \in Call : op'[d] = "generate" => session'[new'[d]] = d
    BY <1>1, <1>2, <2>1, <2>2, <2>4 DEF Lineage, Typed, Phases
  <2>7. \A d \in Call :
          op'[d] = "refresh" /\ new'[d] \in Token =>
            arg'[d] \in Token /\ session'[new'[d]] = session'[arg'[d]]
    BY <1>1, <1>2, <1>3, <2>1, <2>2, <2>3, <2>4 DEF Lineage
  <2>8. \A u \in Minted' : session'[u] \in Call /\ op'[session'[u]] = "generate"
    BY <1>1, <1>3, <2>1, <2>2, <2>3, <2>5 DEF Lineage
  <2> QED
    BY <2>6, <2>7, <2>8 DEF Lineage
<1>6. ASSUME UNCHANGED <<new, session>>,
             \A c \in Call : op'[c] = "generate" <=> op[c] = "generate"
      PROVE  Lineage'
  <2>1. Minted' = Minted
    BY <1>6 DEF Minted
  <2>2. \A d \in Call : new[d] \in Token => op'[d] = op[d] /\ arg'[d] = arg[d]
    BY <1>1, <1>2 DEF Frame
  <2> QED
    BY <1>1, <1>6, <2>1, <2>2 DEF Lineage
<1>7. ASSUME NEW c \in Call, Takes(c)
      PROVE  Lineage'
  <2>1. UNCHANGED <<new, session, op>>
    BY <1>7 DEF Takes
  <2> QED
    BY <1>6, <2>1
<1> QED
  BY <1>1, <1>4, <1>5, <1>6, <1>7, StepKinds

\* How the steps move the open ends: a login adds one, ...
LEMMA OpenEndGenerate ==
  ASSUME Inv, NEW c \in Call, NEW t \in Token, StartGenerate(c, t), NEW x \in Token
  PROVE  /\ InChain(x)' <=> InChain(x) \/ x = t
         /\ OpenEnd(x)' <=> OpenEnd(x) \/ x = t
<1>1. /\ t \notin Minted
      /\ op[c] = "none" /\ new[c] = NoToken
      /\ op' = [op EXCEPT ![c] = "generate"]
      /\ new' = [new EXCEPT ![c] = t]
      /\ UNCHANGED <<arg, taker>>
  BY DEF StartGenerate, Inv, Typed, Phases, storeVars
<1>2. new'[c] = t /\ op'[c] = "generate" /\ taker[t] = NoCall
  BY <1>1 DEF Inv, Typed, DataOK, Takers, Issued, Minted
<1>3. \A d \in Call \ {c} : new'[d] = new[d] /\ op'[d] = op[d]
  BY <1>1 DEF Inv, Typed, DataOK
<1> QED
  BY <1>1, <1>2, <1>3, ConstantsAssumption DEF OpenEnd, InChain, Minted

\* ... minting for a refresh adds none yet, ...
LEMMA OpenEndGet ==
  ASSUME Inv, NEW c \in Call, NEW t \in Token, Get(c, t), NEW x \in Token
  PROVE  /\ InChain(x)' <=> InChain(x)
         /\ OpenEnd(x)' <=> OpenEnd(x)
<1>1. /\ t \notin Minted
      /\ pc[c] = "get" /\ op[c] = "refresh" /\ new[c] = NoToken
      /\ arg[c] \in Token
      /\ new' = [new EXCEPT ![c] = t]
      /\ UNCHANGED <<op, arg, taker>>
  BY DEF Get, Inv, Typed, Phases, DataOK, storeVars
<1>2. new'[c] = t /\ taker[arg[c]] # c
  BY <1>1, ConstantsAssumption DEF Inv, Typed, DataOK, Takers
<1>3. \A d \in Call \ {c} : new'[d] = new[d]
  BY <1>1 DEF Inv, Typed, DataOK
<1> QED
  BY <1>1, <1>2, <1>3, ConstantsAssumption DEF OpenEnd, InChain, Minted

\* (Nobody has been given the token of a call whose DEL is the first to find
\* its key.)
LEMMA TakerUnissued ==
  ASSUME Inv, NEW c \in Call, op[c] \in {"refresh", "revoke"},
         arg[c] \in Token, taker[arg[c]] = NoCall
  PROVE  new[c] \notin Issued
<1> SUFFICES ASSUME new[c] \in Issued PROVE FALSE
  OBVIOUS
<1>1. reply[c] = "OK"
  BY DEF Inv, UniqueMint, Issued
<1>2. Took(c)
  BY <1>1 DEF Inv, Winners
<1> QED
  BY <1>2, ConstantsAssumption DEF Took, Inv, Takers

\* ... a DEL that is the first to find its key closes that end and opens the one of the
\* token its call minted, if it did, ...
LEMMA OpenEndTake ==
  ASSUME Inv, NEW c \in Call, Takes(c), arg[c] \in store, taker[arg[c]] = NoCall,
         NEW x \in Token
  PROVE  /\ InChain(x)' <=> InChain(x) \/ x = new[c]
         /\ OpenEnd(x)' <=> (OpenEnd(x) /\ x # arg[c]) \/ x = new[c]
<1>1. /\ taker' = [taker EXCEPT ![arg[c]] = c]
      /\ UNCHANGED <<op, arg, new>>
  BY DEF Takes, Del
<1>2. arg[c] \in Token /\ taker[arg[c]] = NoCall /\ new[c] \notin Issued
  BY TakerUnissued DEF Takes, Inv, Typed, DataOK
<1>3. arg[c] \in Issued
  BY <1>2, ConstantsAssumption DEF Inv, Inputs
<1>4. /\ taker'[arg[c]] = c
      /\ \A t \in Token \ {arg[c]} : taker'[t] = taker[t]
  BY <1>1, <1>2 DEF Inv, Typed, DataOK
<1>5. x = new[c] => InChain(x)'
  BY <1>1, <1>4 DEF InChain
<1>6. InChain(x) => InChain(x)'
  BY <1>1, <1>2, <1>4, ConstantsAssumption DEF InChain, Inv, Typed, DataOK
<1>7. InChain(x)' /\ x # new[c] => InChain(x)
  <2> SUFFICES ASSUME NEW d \in Call, new[d] = x, x # new[c],
                      op[d] = "generate" \/ taker'[arg[d]] = d
               PROVE  InChain(x)
    BY <1>1 DEF InChain
  <2>1. op[d] # "generate" => taker[arg[d]] = d
    BY <1>1, <1>4 DEF Inv, Typed, DataOK
  <2> QED
    BY <2>1 DEF InChain
<1>8. x = new[c] => taker'[x] = NoCall
  BY <1>2, <1>3, <1>4 DEF Inv, Takers
<1>9. taker'[x] = NoCall <=> taker[x] = NoCall /\ x # arg[c]
  BY <1>2, <1>4, ConstantsAssumption
<1>10. InChain(x)' <=> InChain(x) \/ x = new[c]
  BY <1>5, <1>6, <1>7
<1> QED
  BY <1>8, <1>9, <1>10 DEF OpenEnd

\* ... and nothing else moves them.
LEMMA OpenEndStays ==
  ASSUME Inv, [Next]_vars,
         UNCHANGED <<new, taker>>,
         \A c \in Call : op'[c] = "generate" <=> op[c] = "generate",
         NEW x \in Token
  PROVE  /\ InChain(x)' <=> InChain(x)
         /\ OpenEnd(x)' <=> OpenEnd(x)
<1>1. \A c \in Call : new[c] \in Token => arg'[c] = arg[c]
  BY StepFacts, ConstantsAssumption DEF Frame, Inv, Typed, Phases
<1> QED
  BY <1>1 DEF OpenEnd, InChain

LEMMA OpenEndMissed ==
  ASSUME Inv, NEW c \in Call, Takes(c), ~(arg[c] \in store /\ taker[arg[c]] = NoCall),
         NEW x \in Token
  PROVE  /\ InChain(x)' <=> InChain(x)
         /\ OpenEnd(x)' <=> OpenEnd(x)
<1>1. UNCHANGED <<op, arg, new, taker>>
  BY DEF Takes, Del
<1> QED
  BY <1>1 DEF OpenEnd, InChain

LEMMA TakenIsOpenEnd ==
  ASSUME Inv, Lineage, NEW c \in Call, arg[c] \in store, taker[arg[c]] = NoCall
  PROVE  /\ arg[c] \in Issued
         /\ session[arg[c]] \notin Broken => OpenEnd(arg[c])
<1>1. arg[c] \in Token
  BY DEF Inv, Typed, DataOK
<1>2. arg[c] \in Issued
  BY <1>1, ConstantsAssumption DEF Inv, Inputs
<1> QED
  BY <1>1, <1>2, IssuedInChain DEF OpenEnd

LEMMA MintedSession ==
  ASSUME Inv, [Next]_vars, NEW x \in Minted
  PROVE  session'[x] = session[x]
<1>1. ASSUME NEW c \in Call, NEW t \in Token, StartGenerate(c, t) \/ Get(c, t)
      PROVE  session'[x] = session[x]
  <2>1. x \in Token /\ x # t
    BY <1>1 DEF StartGenerate, Get, Minted
  <2> QED
    BY <1>1, <2>1 DEF StartGenerate, Get, Inv, Typed, DataOK
<1>2. ASSUME NEW c \in Call, Takes(c)
      PROVE  session'[x] = session[x]
  BY <1>2 DEF Takes
<1> QED
  BY <1>1, <1>2, StepKinds DEF Inv

\* A broken session stays broken.
LEMMA BrokenGrows ==
  ASSUME Inv, [Next]_vars
  PROVE  Broken \subseteq Broken'
<1>1. \A t \in revived : t \in Minted
  BY DEF Inv, Takers, Issued, Minted, Typed, DataOK
<1>2. revived \subseteq revived'
  BY StepFacts DEF Inv, Lateness
<1> QED
  BY <1>1, <1>2, MintedSession DEF Broken

LEMMA OneOpenEndStep ==
  ASSUME SessionInv, [Next]_vars
  PROVE  OneOpenEnd'
<1>1. Inv /\ Typed /\ Lineage /\ OneOpenEnd /\ Frame
  BY StepFacts DEF SessionInv, Inv
<1>2. \A x \in Token : OpenEnd(x) => x \in Minted
  BY DEF OpenEnd, InChain, Minted
<1>3. (\A x \in Minted : session'[x] = session[x]) /\ Broken \subseteq Broken'
  BY <1>1, MintedSession, BrokenGrows
<1>4. ASSUME NEW c \in Call, NEW t \in Token, StartGenerate(c, t)
      PROVE  OneOpenEnd'
  <2>1. \A x \in Token : OpenEnd(x)' <=> OpenEnd(x) \/ x = t
    BY <1>1, <1>4, OpenEndGenerate
  <2>2. session'[t] = c /\ op[c] = "none"
    BY <1>1, <1>4 DEF StartGenerate, Typed, DataOK, Phases
  <2>3. \A x \in Token : OpenEnd(x) => session'[x] = session[x] /\ session[x] # c
    BY <1>1, <1>2, <1>3, <2>2 DEF Lineage
  <2> QED
    BY <1>1, <1>3, <2>1, <2>2, <2>3 DEF OneOpenEnd
<1>5. ASSUME \A x \in Token : OpenEnd(x)' <=> OpenEnd(x)
      PROVE  OneOpenEnd'
  BY <1>1, <1>2, <1>3, <1>5 DEF OneOpenEnd
<1>6. ASSUME NEW c \in Call, NEW t \in Token, Get(c, t)
      PROVE  OneOpenEnd'
  BY <1>1, <1>5, <1>6, OpenEndGet
<1>7. ASSUME NEW c \in Call, Takes(c), arg[c] \in store, taker[arg[c]] = NoCall
      PROVE  OneOpenEnd'
  <2>1. \A x \in Token : OpenEnd(x)' <=> (OpenEnd(x) /\ x # arg[c]) \/ x = new[c]
    BY <1>1, <1>7, OpenEndTake
  <2>2. arg[c] \in Token /\ (session[arg[c]] \notin Broken => OpenEnd(arg[c]))
    BY <1>1, <1>7, TakenIsOpenEnd DEF Typed, DataOK
  <2>3. session' = session /\ Broken' = Broken
    BY <1>7 DEF Takes, Broken
  <2>4. new[c] \in Token => session[new[c]] = session[arg[c]]
    BY <1>1, <1>7 DEF Takes, Lineage
  <2> SUFFICES ASSUME NEW x \in Token, NEW y \in Token,
                      OpenEnd(x)', OpenEnd(y)', session[x] = session[y], session[x] \notin Broken
               PROVE  x = y
    BY <2>3 DEF OneOpenEnd
  <2>5. CASE x # new[c] /\ y # new[c]
    BY <1>1, <2>1, <2>5 DEF OneOpenEnd
  <2>6. CASE x = new[c]
    BY <1>1, <2>1, <2>2, <2>4, <2>6 DEF OneOpenEnd
  <2>7. CASE y = new[c]
    BY <1>1, <2>1, <2>2, <2>4, <2>7 DEF OneOpenEnd
  <2> QED
    BY <2>5, <2>6, <2>7
<1>8. ASSUME NEW c \in Call, Takes(c), ~(arg[c] \in store /\ taker[arg[c]] = NoCall)
      PROVE  OneOpenEnd'
  BY <1>1, <1>5, <1>8, OpenEndMissed
<1>9. ASSUME UNCHANGED <<new, taker>>,
             \A c \in Call : op'[c] = "generate" <=> op[c] = "generate"
      PROVE  OneOpenEnd'
  BY <1>1, <1>5, <1>9, OpenEndStays
<1> QED
  BY <1>1, <1>4, <1>6, <1>7, <1>8, <1>9, StepKinds

LEMMA SessionAlways == Spec => []SessionInv
<1>1. SessionInv /\ [Next]_vars => SessionInv'
  BY InvStep, LineageStep, OneOpenEndStep DEF SessionInv
<1> QED
  BY <1>1, SessionInit, PTL DEF Spec

LEMMA LiveIsOpenEnd ==
  ASSUME Inv, Lineage, NEW t \in Issued \cap store, session[t] \notin Broken
  PROVE  OpenEnd(t)
<1>1. InChain(t) /\ t \in Token
  BY IssuedInChain DEF Issued
<1>2. t \notin revived
  BY DEF Broken
<1> QED
  BY <1>1, <1>2 DEF OpenEnd, Inv, Takers

\* Of one login at most one token that clients hold can still be used, so a
\* session does not fork, however its refreshes race and fail; one that a late
\* SET NX has broken is left out.
THEOREM OneLivePerSessionCorrect == Spec => []OneLivePerSession
<1>1. SessionInv => OneLivePerSession
  <2> SUFFICES ASSUME SessionInv,
                      NEW t \in Issued \cap store, NEW u \in Issued \cap store,
                      session[t] = session[u], session[t] \notin Broken
               PROVE  t = u
    BY DEF OneLivePerSession
  <2>1. t \in Token /\ u \in Token
    BY DEF Issued
  <2>2. OpenEnd(t) /\ OpenEnd(u)
    BY LiveIsOpenEnd DEF SessionInv
  <2> QED
    BY <2>1, <2>2 DEF SessionInv, OneOpenEnd
<1> QED
  BY <1>1, SessionAlways, PTL
-----------------------------------------------------------------------------
(* The end of a session.                                                   *)

\* The session of a token that a revocation took has no open end, unless it is
\* broken.
Ended ==
  \A c \in Call, t \in Token :
    /\ op[c] = "revoke" /\ arg[c] \in Token /\ taker[arg[c]] = c
    /\ session[arg[c]] \notin Broken
    /\ OpenEnd(t)
    => session[t] # session[arg[c]]

EndedInv == SessionInv /\ Ended

\* When the open ends stay the same, nothing ends and nothing starts again.
LEMMA EndedStays ==
  ASSUME EndedInv, [Next]_vars, UNCHANGED taker,
         \A x \in Token : OpenEnd(x)' <=> OpenEnd(x)
  PROVE  Ended'
<1>1. Inv /\ Typed /\ Lineage /\ Frame
  BY StepFacts DEF EndedInv, SessionInv, Inv
<1>2. \A x \in Token : OpenEnd(x) => x \in Minted
  BY DEF OpenEnd, InChain, Minted
<1>3. (\A x \in Minted : session'[x] = session[x]) /\ Broken \subseteq Broken'
  BY <1>1, MintedSession, BrokenGrows
<1>4. ASSUME NEW c \in Call, op'[c] = "revoke", arg'[c] \in Token, taker'[arg'[c]] = c
      PROVE  op[c] = "revoke" /\ arg[c] = arg'[c] /\ arg[c] \in Minted
  <2>1. arg'[c] \in Minted /\ arg[c] = arg'[c]
    BY <1>1, <1>4, ConstantsAssumption DEF Inv, Takers, Issued, Minted
  <2>2. op[c] # "none"
    BY <1>4, <2>1, <1>1, ConstantsAssumption DEF Inv, Inputs
  <2> QED
    BY <1>1, <1>4, <2>1, <2>2 DEF Frame
<1> QED
  BY <1>2, <1>3, <1>4 DEF EndedInv, Ended, Minted

LEMMA EndedStep ==
  ASSUME EndedInv, [Next]_vars
  PROVE  Ended'
<1>1. Inv /\ Typed /\ Lineage /\ OneOpenEnd /\ Ended /\ Frame
  BY StepFacts DEF EndedInv, SessionInv, Inv
<1>2. \A x \in Token : OpenEnd(x) => x \in Minted
  BY DEF OpenEnd, InChain, Minted
<1>3. ASSUME NEW c \in Call, NEW t \in Token, StartGenerate(c, t)
      PROVE  Ended'
  <2>1. \A x \in Token : OpenEnd(x)' <=> OpenEnd(x) \/ x = t
    BY <1>1, <1>3, OpenEndGenerate
  <2>2. session'[t] = c /\ op[c] = "none" /\ op' = [op EXCEPT ![c] = "generate"]
        /\ UNCHANGED <<arg, taker>>
    BY <1>1, <1>3 DEF StartGenerate, Typed, DataOK, Phases, storeVars
  <2>3. \A x \in Minted : session'[x] = session[x] /\ session[x] # c
    BY <1>1, <2>2, MintedSession DEF Lineage
  <2>6. Broken \subseteq Broken'
    BY <1>1, BrokenGrows
  <2>4. \A d \in Call : op'[d] = "revoke" => op[d] = "revoke"
    BY <1>1, <2>2 DEF Typed, DataOK
  <2>5. \A d \in Call : arg[d] \in Token => arg[d] \in Minted
    BY <1>1, PresentedIsMinted
  <2> QED
    BY <1>1, <1>2, <2>1, <2>2, <2>3, <2>4, <2>5, <2>6 DEF Ended
<1>4. ASSUME NEW c \in Call, NEW t \in Token, Get(c, t)
      PROVE  Ended'
  BY <1>1, <1>4, OpenEndGet, EndedStays DEF Get, storeVars
<1>5. ASSUME NEW c \in Call, Takes(c), arg[c] \in store, taker[arg[c]] = NoCall
      PROVE  Ended'
  <2>1. \A x \in Token : OpenEnd(x)' <=> (OpenEnd(x) /\ x # arg[c]) \/ x = new[c]
    BY <1>1, <1>5, OpenEndTake
  <2>2. arg[c] \in Token /\ (session[arg[c]] \notin Broken => OpenEnd(arg[c]))
    BY <1>1, <1>5, TakenIsOpenEnd DEF Typed, DataOK
  <2>3. /\ UNCHANGED <<session, op, arg>>
        /\ Broken' = Broken
        /\ taker' = [taker EXCEPT ![arg[c]] = c]
    BY <1>5 DEF Takes, Del, Broken
  <2>4. new[c] \in Token => op[c] # "revoke" /\ session[new[c]] = session[arg[c]]
    BY <1>1, <1>5 DEF Takes, Lineage
  <2> SUFFICES ASSUME NEW d \in Call, NEW x \in Token,
                      op[d] = "revoke", arg[d] \in Token, taker'[arg[d]] = d,
                      session[arg[d]] \notin Broken,
                      OpenEnd(x)'
               PROVE  session[x] # session[arg[d]]
    BY <2>3 DEF Ended
  <2>5. CASE d = c /\ arg[d] = arg[c]
    BY <1>1, <2>1, <2>2, <2>4, <2>5 DEF OneOpenEnd
  <2>6. CASE arg[d] # arg[c]
    <3>1. taker[arg[d]] = d
      BY <1>1, <2>3, <2>6 DEF Typed, DataOK
    <3> QED
      BY <1>1, <2>1, <2>2, <2>4, <3>1 DEF Ended
  <2>7. arg[d] = arg[c] => d = c
    BY <1>1, <2>2, <2>3 DEF Typed, DataOK
  <2> QED
    BY <2>5, <2>6, <2>7
<1>6. ASSUME NEW c \in Call, Takes(c), ~(arg[c] \in store /\ taker[arg[c]] = NoCall)
      PROVE  Ended'
  <2>1. UNCHANGED taker
    BY <1>6 DEF Takes, Del
  <2> QED
    BY <1>1, <1>6, <2>1, OpenEndMissed, EndedStays
<1>7. ASSUME UNCHANGED <<new, taker>>,
             \A c \in Call : op'[c] = "generate" <=> op[c] = "generate"
      PROVE  Ended'
  BY <1>1, <1>7, OpenEndStays, EndedStays
<1> QED
  BY <1>1, <1>3, <1>4, <1>5, <1>6, <1>7, StepKinds

LEMMA EndedAlways == Spec => []EndedInv
<1>1. Init => EndedInv
  BY SessionInit, ConstantsAssumption DEF EndedInv, Ended, Init
<1>2. EndedInv /\ [Next]_vars => EndedInv'
  BY InvStep, LineageStep, OneOpenEndStep, EndedStep DEF EndedInv, SessionInv
<1> QED
  BY <1>1, <1>2, PTL DEF Spec

\* A revocation answered OK leaves no usable token of its login, whatever
\* refreshes ran beside it, unless a late SET NX has broken that login.
THEOREM RevokeEndsSessionCorrect == Spec => []RevokeEndsSession
<1>1. EndedInv => RevokeEndsSession
  <2> SUFFICES ASSUME EndedInv, NEW c \in Call, op[c] = "revoke", reply[c] = "OK",
                      session[arg[c]] \notin Broken,
                      NEW t \in Issued \cap store, session[t] = session[arg[c]]
               PROVE  FALSE
    BY DEF RevokeEndsSession
  <2>1. arg[c] \in Token /\ taker[arg[c]] = c
    BY DEF EndedInv, SessionInv, Inv, Winners, Took, Broken
  <2>2. OpenEnd(t) /\ t \in Token
    BY LiveIsOpenEnd DEF EndedInv, SessionInv, Issued
  <2> QED
    BY <2>1, <2>2 DEF EndedInv, Ended
<1> QED
  BY <1>1, EndedAlways, PTL
=============================================================================
