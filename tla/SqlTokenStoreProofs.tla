------------------------ MODULE SqlTokenStoreProofs ------------------------
(* Theorems about TokenTable and SqlTokenStore, for any calls and tokens.   *)
EXTENDS SqlTokenStore, TLAPS

\* Which tokens a call has, from where it is.
Shape ==
  \A c \in Call :
    /\ pc[c] = "idle" => arg[c] = NoToken /\ new[c] = NoToken
    /\ pc[c] = "save" => arg[c] = NoToken /\ new[c] \in Token
    /\ pc[c] = "get" => arg[c] \in Token /\ new[c] = NoToken
    /\ pc[c] = "exchange" => arg[c] \in Token /\ new[c] \in Token
    /\ pc[c] = "revoke" => arg[c] \in Token /\ new[c] = NoToken
    /\ answer[c] \in {"Unauthenticated", "PermissionDenied"} => arg[c] \in Token

\* A token is minted by one call, and in the table only if its call put it
\* there, which a call does once.
Mints ==
  /\ \A c \in Call : new[c] # Foreign
  /\ \A c, d \in Call : new[c] = new[d] /\ new[c] # NoToken => c = d
  /\ \A t \in Token : rows[t] # "absent" => \E c \in Call : new[c] = t
  /\ \A c \in Call : pc[c] \in {"save", "exchange"} => rows[new[c]] = "absent"

\* Clients present tokens that are in the table, or the foreign one.
Inputs ==
  \A c \in Call :
    /\ arg[c] \in Token => arg[c] = Foreign \/ rows[arg[c]] # "absent"
    /\ pc[c] = "exchange" => rows[arg[c]] # "absent"

\* A refresh that has found its token usable came to it before any call it
\* followed had taken it.
Turns ==
  \A c, d \in Call : d \in before[c] =>
    /\ pc[d] = "done"
    /\ arg[c] # NoToken /\ new[c] # NoToken => ~(answer[d] = "OK" /\ arg[d] = arg[c])

TableInv ==
  TypeOK /\ Shape /\ Mints /\ Inputs /\ Turns /\ ExchangeIsAtomic /\ AnswerIsTrue

\* What a step can do to a row: nothing, revoke it, or add the token that a
\* call answered OK has minted.
Added(c, t) ==
  /\ pc[c] \in {"save", "exchange"} /\ new[c] = t
  /\ pc'[c] = "reply" /\ answer'[c] = "OK" /\ new'[c] = t /\ arg'[c] = arg[c]
  /\ arg[c] # NoToken => rows'[arg[c]] = "revoked"
RowStep(t) ==
  \/ rows'[t] = rows[t]
  \/ rows[t] # "absent" /\ rows'[t] = "revoked"
  \/ rows[t] = "absent" /\ rows'[t] = "live" /\ \E c \in Call : Added(c, t)

\* What a step can do to a call.
Still(c) == arg'[c] = arg[c] /\ new'[c] = new[c] /\ before'[c] = before[c]
Stays(c) == Still(c) /\ pc'[c] = pc[c] /\ answer'[c] = answer[c]
Arrives(c) ==
  /\ pc[c] = "idle" /\ answer'[c] = answer[c]
  /\ before'[c] = {d \in Call : pc[d] = "done"}
  /\ \/ /\ pc'[c] = "save" /\ arg'[c] = NoToken /\ new'[c] \in Token
        /\ rows' = rows /\ Unminted(new'[c])
     \/ /\ pc'[c] \in {"get", "revoke"} /\ arg'[c] \in Token /\ new'[c] = NoToken
        /\ arg'[c] = Foreign \/ Given(arg'[c])
MintsNext(c) ==
  /\ pc[c] = "get" /\ pc'[c] = "exchange" /\ rows[arg[c]] = "live" /\ rows' = rows
  /\ arg'[c] = arg[c] /\ before'[c] = before[c] /\ answer'[c] = answer[c]
  /\ new'[c] \in Token /\ Unminted(new'[c])
Replies(c) ==
  /\ Still(c) /\ pc[c] \in Running /\ pc'[c] = "reply"
  /\ \/ /\ answer'[c] = "OK"
        /\ arg[c] # NoToken => rows'[arg[c]] = "revoked"
        /\ new[c] # NoToken => rows'[new[c]] = "live"
     \/ answer'[c] = "Internal" /\ rows' = rows
     \/ /\ answer'[c] = "Unauthenticated" /\ rows' = rows
        /\ arg[c] \in Token /\ rows[arg[c]] = "absent"
     \/ /\ answer'[c] = "PermissionDenied" /\ rows' = rows
        /\ arg[c] \in Token /\ rows[arg[c]] = "revoked" /\ new[c] = NoToken
Ends(c) ==
  /\ Still(c) /\ rows' = rows /\ answer'[c] = answer[c]
  /\ \/ pc[c] = "reply" /\ pc'[c] = "done"
     \/ pc[c] \in Running \cup {"reply"} /\ pc'[c] = "dead"
CallStep(c) == Stays(c) \/ Arrives(c) \/ MintsNext(c) \/ Replies(c) \/ Ends(c)

\* At most one call mints.
OneMinter ==
  \A c, d \in Call : new'[c] # new[c] /\ new'[d] # new[d] => c = d

Steps ==
  /\ TypeOK'
  /\ \A t \in Token : RowStep(t)
  /\ \A c \in Call : CallStep(c)
  /\ OneMinter

LEMMA StepFacts == TableInv /\ [Next]_table => Steps
<1> SUFFICES ASSUME TypeOK, Shape, Mints, Inputs, [Next]_table PROVE Steps
  BY DEF TableInv
<1> USE TableAssumption
<1>1. ASSUME NEW c \in Call, NEW t \in Token, StartGenerate(c, t) PROVE Steps
  <2>1. TypeOK'
    BY <1>1 DEF StartGenerate, Arrive, TypeOK, Running
  <2>2. \A s \in Token : RowStep(s)
    BY <1>1 DEF StartGenerate, Arrive, RowStep
  <2>3. Arrives(c)
    BY <1>1 DEF StartGenerate, Arrive, Arrives, Unminted, TypeOK, Shape
  <2>4. \A d \in Call \ {c} : Stays(d)
    BY <1>1 DEF StartGenerate, Arrive, Stays, Still, TypeOK
  <2> QED
    BY <2>1, <2>2, <2>3, <2>4 DEF Steps, CallStep, OneMinter, Stays, Still
<1>2. ASSUME NEW c \in Call, NEW t \in Token, StartRefresh(c, t) \/ StartRevoke(c, t)
      PROVE Steps
  <2>1. TypeOK'
    BY <1>2 DEF StartRefresh, StartRevoke, Arrive, TypeOK, Running
  <2>2. \A s \in Token : RowStep(s)
    BY <1>2 DEF StartRefresh, StartRevoke, Arrive, RowStep
  <2>3. Arrives(c)
    BY <1>2 DEF StartRefresh, StartRevoke, Arrive, Arrives, TypeOK, Shape
  <2>4. \A d \in Call \ {c} : Stays(d)
    BY <1>2 DEF StartRefresh, StartRevoke, Arrive, Stays, Still, TypeOK
  <2> QED
    BY <2>1, <2>2, <2>3, <2>4 DEF Steps, CallStep, OneMinter, Stays, Still
<1>3. ASSUME NEW c \in Call, NEW t \in Token, Get(c, t) PROVE Steps
  <2>1. TypeOK'
    BY <1>3 DEF Get, TypeOK, Running
  <2>2. \A s \in Token : RowStep(s)
    BY <1>3 DEF Get, RowStep
  <2>3. MintsNext(c)
    BY <1>3 DEF Get, MintsNext, Unminted, TypeOK
  <2>4. \A d \in Call \ {c} : Stays(d)
    BY <1>3 DEF Get, Stays, Still, TypeOK
  <2> QED
    BY <2>1, <2>2, <2>3, <2>4 DEF Steps, CallStep, OneMinter, Stays, Still
<1>4. ASSUME NEW c \in Call, Save(c) PROVE Steps
  <2>0. rows[new[c]] = "absent" /\ new[c] \in Token /\ arg[c] = NoToken
    BY <1>4 DEF Save, Mints, Shape
  <2>1. TypeOK'
    BY <1>4 DEF Save, Reply, TypeOK, Running
  <2>2. Added(c, new[c])
    BY <1>4, <2>0 DEF Save, Reply, Added, TypeOK
  <2>3. \A s \in Token : RowStep(s)
    BY <1>4, <2>0, <2>2 DEF Save, RowStep, TypeOK
  <2>4. Replies(c)
    BY <1>4, <2>0 DEF Save, Reply, Replies, Still, TypeOK, Running
  <2>5. \A d \in Call \ {c} : Stays(d)
    BY <1>4 DEF Save, Reply, Stays, Still, TypeOK
  <2> QED
    BY <2>1, <2>3, <2>4, <2>5 DEF Steps, CallStep, OneMinter, Stays, Still, Replies
<1>5. ASSUME NEW c \in Call, GetRefused(c) PROVE Steps
  <2>1. TypeOK'
    BY <1>5 DEF GetRefused, Reply, TypeOK, Running
  <2>2. \A s \in Token : RowStep(s)
    BY <1>5 DEF GetRefused, RowStep
  <2>3. Replies(c)
    BY <1>5 DEF GetRefused, Reply, Replies, Still, TypeOK, Shape, Running
  <2>4. \A d \in Call \ {c} : Stays(d)
    BY <1>5 DEF GetRefused, Reply, Stays, Still, TypeOK
  <2> QED
    BY <2>1, <2>2, <2>3, <2>4 DEF Steps, CallStep, OneMinter, Stays, Still, Replies
<1>6. ASSUME NEW c \in Call, RevokeAndSave(c) PROVE Steps
  <2>0. /\ rows[new[c]] = "absent" /\ rows[arg[c]] # "absent"
        /\ new[c] \in Token /\ arg[c] \in Token /\ arg[c] # new[c]
    BY <1>6 DEF RevokeAndSave, Mints, Shape, Inputs
  <2>1. Reply(c, "OK")
    BY <1>6, <2>0 DEF RevokeAndSave, TypeOK
  <2>2. rows' = [[rows EXCEPT ![arg[c]] = "revoked"] EXCEPT ![new[c]] = "live"]
    BY <1>6, <2>0 DEF RevokeAndSave, TypeOK
  <2>3. /\ rows'[arg[c]] = "revoked" /\ rows'[new[c]] = "live"
        /\ \A s \in Token : s # arg[c] /\ s # new[c] => rows'[s] = rows[s]
    BY <2>0, <2>2 DEF TypeOK
  <2>4. TypeOK'
    BY <1>6, <2>1, <2>2 DEF Reply, TypeOK, Running
  <2>5. Added(c, new[c])
    BY <1>6, <2>0, <2>1, <2>3 DEF RevokeAndSave, Reply, Added, TypeOK
  <2>6. \A s \in Token : RowStep(s)
    BY <2>0, <2>3, <2>5 DEF RowStep
  <2>7. Replies(c)
    BY <1>6, <2>1, <2>3 DEF RevokeAndSave, Reply, Replies, Still, TypeOK, Running
  <2>8. \A d \in Call \ {c} : Stays(d)
    BY <2>1 DEF Reply, Stays, Still, TypeOK
  <2> QED
    BY <2>4, <2>6, <2>7, <2>8 DEF Steps, CallStep, OneMinter, Stays, Still, Replies
<1>7. ASSUME NEW c \in Call, Revoke(c) PROVE Steps
  <2>0. arg[c] \in Token /\ new[c] = NoToken
    BY <1>7 DEF Revoke, Shape
  <2>1. TypeOK'
    BY <1>7 DEF Revoke, Reply, TypeOK, Running
  <2>2. \A s \in Token : RowStep(s)
    BY <1>7, <2>0 DEF Revoke, RowStep, TypeOK
  <2>3. Replies(c)
    BY <1>7, <2>0 DEF Revoke, Reply, Replies, Still, TypeOK, Running
  <2>4. \A d \in Call \ {c} : Stays(d)
    BY <1>7 DEF Revoke, Reply, Stays, Still, TypeOK
  <2> QED
    BY <2>1, <2>2, <2>3, <2>4 DEF Steps, CallStep, OneMinter, Stays, Still, Replies
<1>8. ASSUME NEW c \in Call, GiveUp(c) PROVE Steps
  <2>1. TypeOK'
    BY <1>8 DEF GiveUp, Reply, TypeOK, Running
  <2>2. \A s \in Token : RowStep(s)
    BY <1>8 DEF GiveUp, RowStep
  <2>3. Replies(c)
    BY <1>8 DEF GiveUp, Reply, Replies, Still, TypeOK, Running
  <2>4. \A d \in Call \ {c} : Stays(d)
    BY <1>8 DEF GiveUp, Reply, Stays, Still, TypeOK
  <2> QED
    BY <2>1, <2>2, <2>3, <2>4 DEF Steps, CallStep, OneMinter, Stays, Still, Replies
<1>9. ASSUME NEW c \in Call, Deliver(c) PROVE Steps
  <2>1. TypeOK'
    BY <1>9 DEF Deliver, TypeOK
  <2>2. \A s \in Token : RowStep(s)
    BY <1>9 DEF Deliver, RowStep
  <2>3. Ends(c)
    BY <1>9 DEF Deliver, Ends, Still, TypeOK
  <2>4. \A d \in Call \ {c} : Stays(d)
    BY <1>9 DEF Deliver, Stays, Still, TypeOK
  <2> QED
    BY <1>9, <2>1, <2>2, <2>3, <2>4 DEF Steps, CallStep, OneMinter, Deliver
<1>10. CASE Crash
  <2>1. TypeOK'
    BY <1>10 DEF Crash, TypeOK
  <2>2. \A s \in Token : RowStep(s)
    BY <1>10 DEF Crash, RowStep
  <2>3. \A c \in Call : Stays(c) \/ Ends(c)
    BY <1>10 DEF Crash, Ends, Stays, Still, TypeOK
  <2> QED
    BY <1>10, <2>1, <2>2, <2>3 DEF Steps, CallStep, OneMinter, Crash
<1>11. CASE UNCHANGED table
  BY <1>11 DEF table, Steps, TypeOK, RowStep, CallStep, Stays, Still, OneMinter
<1> QED
  BY <1>1, <1>2, <1>3, <1>4, <1>5, <1>6, <1>7, <1>8, <1>9, <1>10, <1>11 DEF Next
-----------------------------------------------------------------------------
LEMMA InitInv == Init => TableInv
BY TableAssumption DEF Init, TableInv, TypeOK, Shape, Mints, Inputs, Turns,
   ExchangeIsAtomic, AnswerIsTrue, Running

LEMMA ShapeStep == ASSUME TableInv, Steps PROVE Shape'
<1> SUFFICES ASSUME NEW c \in Call
             PROVE  /\ pc'[c] = "idle" => arg'[c] = NoToken /\ new'[c] = NoToken
                    /\ pc'[c] = "save" => arg'[c] = NoToken /\ new'[c] \in Token
                    /\ pc'[c] = "get" => arg'[c] \in Token /\ new'[c] = NoToken
                    /\ pc'[c] = "exchange" => arg'[c] \in Token /\ new'[c] \in Token
                    /\ pc'[c] = "revoke" => arg'[c] \in Token /\ new'[c] = NoToken
                    /\ answer'[c] \in {"Unauthenticated", "PermissionDenied"} =>
                         arg'[c] \in Token
  BY DEF Shape
<1>1. CallStep(c) /\ Shape
  BY DEF Steps, TableInv
<1>2. CASE Stays(c)
  BY <1>1, <1>2 DEF Shape, Stays, Still
<1>3. CASE Arrives(c)
  BY <1>1, <1>3 DEF Shape, Arrives
<1>4. CASE MintsNext(c)
  BY <1>1, <1>4 DEF Shape, MintsNext
<1>5. CASE Replies(c)
  BY <1>1, <1>5 DEF Shape, Replies, Still
<1>6. CASE Ends(c)
  BY <1>1, <1>6 DEF Shape, Ends, Still
<1> QED
  BY <1>1, <1>2, <1>3, <1>4, <1>5, <1>6 DEF CallStep

\* A token once minted stays its call's; a new one is nobody's.
LEMMA NewStep ==
  ASSUME TableInv, Steps, NEW c \in Call
  PROVE  \/ new'[c] = new[c]
         \/ /\ new[c] = NoToken /\ new'[c] \in Token /\ new'[c] # Foreign
            /\ \A d \in Call : new[d] # new'[c]
            /\ pc'[c] \in {"save", "exchange"} /\ rows' = rows
<1>1. CallStep(c) /\ Shape
  BY DEF Steps, TableInv
<1> QED
  BY <1>1 DEF CallStep, Stays, Arrives, MintsNext, Replies, Ends, Still, Shape, Unminted

LEMMA MintsStep == ASSUME TableInv, Steps PROVE Mints'
<1> USE TableAssumption
<1>0. Mints /\ TypeOK
  BY DEF TableInv
<1>1. \A c \in Call : new'[c] # Foreign
  BY <1>0, NewStep DEF Mints
<1>2. ASSUME NEW c \in Call, NEW d \in Call, new'[c] = new'[d], new'[c] # NoToken
      PROVE  c = d
  <2>1. CASE new'[c] = new[c] /\ new'[d] = new[d]
    BY <1>0, <1>2, <2>1 DEF Mints
  <2>2. CASE new'[c] # new[c] /\ new'[d] # new[d]
    BY <2>2 DEF Steps, OneMinter
  <2>3. CASE new'[c] # new[c] /\ new'[d] = new[d]
    BY <1>2, <2>3, NewStep
  <2>4. CASE new'[c] = new[c] /\ new'[d] # new[d]
    BY <1>2, <2>4, NewStep
  <2> QED
    BY <2>1, <2>2, <2>3, <2>4
<1>3. ASSUME NEW t \in Token, rows'[t] # "absent"
      PROVE  \E c \in Call : new'[c] = t
  <2>1. CASE rows[t] # "absent"
    <3>1. PICK c \in Call : new[c] = t
      BY <1>0, <2>1 DEF Mints
    <3>2. new'[c] = t
      BY <3>1, NewStep
    <3> QED
      BY <3>2
  <2>2. CASE rows[t] = "absent"
    <3>1. RowStep(t)
      BY DEF Steps
    <3> QED
      BY <1>3, <2>2, <3>1 DEF RowStep, Added
  <2> QED
    BY <2>1, <2>2
<1>4. ASSUME NEW c \in Call, pc'[c] \in {"save", "exchange"}
      PROVE  rows'[new'[c]] = "absent"
  <2>0. new'[c] \in Token
    BY <1>4, ShapeStep DEF Shape
  <2>1. RowStep(new'[c]) /\ CallStep(c)
    BY <2>0 DEF Steps
  <2>2. CASE new'[c] = new[c]
    <3>1. Stays(c)
      BY <1>4, <2>0, <2>1, <2>2 DEF CallStep, Stays, Arrives, MintsNext, Replies, Ends, Unminted
    <3>2. rows[new[c]] = "absent"
      BY <1>0, <1>4, <3>1 DEF Mints, Stays
    <3>3. \A d \in Call : ~Added(d, new[c])
      BY <1>0, <1>4, <2>0, <2>2, <3>1 DEF Added, Stays, Mints
    <3> QED
      BY <2>1, <2>2, <3>2, <3>3 DEF RowStep
  <2>3. CASE new'[c] # new[c]
    BY <1>0, <2>0, <2>3, NewStep DEF Mints, TypeOK
  <2> QED
    BY <2>2, <2>3
<1> QED
  BY <1>1, <1>2, <1>3, <1>4 DEF Mints

\* Rows are not removed, and revoked ones stay revoked.
LEMMA RowsAdvance ==
  ASSUME Steps, NEW t \in Token
  PROVE  /\ rows[t] # "absent" => rows'[t] # "absent"
         /\ rows[t] = "revoked" => rows'[t] = "revoked"
<1>1. RowStep(t)
  BY DEF Steps
<1> QED
  BY <1>1 DEF RowStep

LEMMA InputsStep == ASSUME TableInv, Steps PROVE Inputs'
<1> SUFFICES ASSUME NEW c \in Call
             PROVE  /\ arg'[c] \in Token => arg'[c] = Foreign \/ rows'[arg'[c]] # "absent"
                    /\ pc'[c] = "exchange" => rows'[arg'[c]] # "absent"
  BY DEF Inputs
<1>0. CallStep(c) /\ Inputs /\ Shape /\ AnswerIsTrue /\ TypeOK
  BY DEF Steps, TableInv
<1>1. CASE arg'[c] = arg[c]
  <2>1. arg'[c] \in Token => arg'[c] = Foreign \/ rows'[arg'[c]] # "absent"
    BY <1>0, <1>1, RowsAdvance DEF Inputs
  <2>2. ASSUME pc'[c] = "exchange" PROVE rows[arg[c]] # "absent" /\ arg[c] \in Token
    BY <1>0, <2>2 DEF CallStep, Stays, Still, Arrives, MintsNext, Replies, Ends, Inputs, Shape
  <2> QED
    BY <1>1, <2>1, <2>2, RowsAdvance
<1>2. CASE arg'[c] # arg[c]
  <2>1. Arrives(c) /\ pc'[c] # "exchange"
    BY <1>0, <1>2 DEF CallStep, Stays, Still, Arrives, MintsNext, Replies, Ends
  <2>2. arg'[c] = NoToken \/ arg'[c] = Foreign \/ Given(arg'[c])
    BY <2>1 DEF Arrives
  <2>3. ASSUME arg'[c] \in Token, Given(arg'[c]) PROVE rows[arg'[c]] # "absent"
    BY <1>0, <2>3, TableAssumption DEF Given, AnswerIsTrue
  <2> QED
    BY <2>1, <2>2, <2>3, RowsAdvance, TableAssumption
<1> QED
  BY <1>1, <1>2

LEMMA AtomicStep == ASSUME TableInv, Steps PROVE ExchangeIsAtomic'
<1> SUFFICES ASSUME NEW c \in Call, arg'[c] # NoToken, new'[c] # NoToken,
                    rows'[new'[c]] # "absent"
             PROVE  rows'[arg'[c]] = "revoked"
  BY DEF ExchangeIsAtomic
<1>0. CallStep(c) /\ Shape /\ Mints /\ ExchangeIsAtomic /\ TypeOK
  BY DEF Steps, TableInv
<1>1. new'[c] = new[c] /\ new[c] \in Token
  <2>1. CASE new'[c] # new[c]
    BY <1>0, <2>1, NewStep, MintsStep DEF Mints
  <2> QED
    BY <1>0, <2>1 DEF TypeOK
<1>2. arg'[c] = arg[c] /\ arg[c] \in Token
  BY <1>0, <1>1, TableAssumption
  DEF CallStep, Stays, Still, Arrives, MintsNext, Replies, Ends, Shape, TypeOK
<1>3. CASE rows[new[c]] # "absent"
  BY <1>0, <1>1, <1>2, <1>3, RowsAdvance DEF ExchangeIsAtomic
<1>4. CASE rows[new[c]] = "absent"
  <2>1. PICK d \in Call : Added(d, new[c])
    BY <1>1, <1>4 DEF Steps, RowStep
  <2>2. d = c
    BY <1>0, <1>1, <2>1, TableAssumption DEF Added, Mints
  <2> QED
    BY <1>2, <2>1, <2>2 DEF Added
<1> QED
  BY <1>3, <1>4

LEMMA AnswerStep == ASSUME TableInv, Steps PROVE AnswerIsTrue'
<1> SUFFICES ASSUME NEW c \in Call, pc'[c] \in {"reply", "done"}
             PROVE  /\ answer'[c] = "OK" =>
                         /\ arg'[c] # NoToken => rows'[arg'[c]] = "revoked"
                         /\ new'[c] # NoToken => rows'[new'[c]] # "absent"
                    /\ answer'[c] # "OK" /\ new'[c] # NoToken => rows'[new'[c]] = "absent"
                    /\ answer'[c] = "Unauthenticated" => rows'[arg'[c]] = "absent"
                    /\ answer'[c] = "PermissionDenied" => rows'[arg'[c]] = "revoked"
  BY DEF AnswerIsTrue
<1> USE TableAssumption
<1>0. CallStep(c) /\ Shape /\ Mints /\ Inputs /\ AnswerIsTrue /\ TypeOK
  BY DEF Steps, TableInv
<1>1. arg[c] \in Token \cup {NoToken} /\ new[c] \in Token \cup {NoToken}
  BY <1>0 DEF TypeOK
<1>2. CASE pc[c] \in {"reply", "done"}
  <2>1. Still(c) /\ answer'[c] = answer[c]
    BY <1>0, <1>2 DEF CallStep, Stays, Arrives, MintsNext, Replies, Ends, Running
  <2>2. \A d \in Call, t \in Token : Added(d, t) /\ new[c] = t => FALSE
    BY <1>0, <1>2 DEF Added, Mints
  <2>3. new[c] # NoToken /\ rows[new[c]] = "absent" => rows'[new[c]] = "absent"
    BY <1>1, <2>2 DEF Steps, RowStep
  <2>4. answer[c] = "Unauthenticated" => rows'[arg[c]] = "absent"
    <3>1. SUFFICES ASSUME answer[c] = "Unauthenticated" PROVE rows'[arg[c]] = "absent"
      OBVIOUS
    <3>2. arg[c] \in Token /\ rows[arg[c]] = "absent"
      BY <1>0, <1>2, <3>1 DEF Shape, AnswerIsTrue
    <3>3. arg[c] = Foreign
      BY <1>0, <3>2 DEF Inputs
    <3>4. \A d \in Call : ~Added(d, Foreign)
      BY <1>0 DEF Added, Mints
    <3> QED
      BY <3>2, <3>3, <3>4 DEF Steps, RowStep
  <2>5. answer[c] \in {"Unauthenticated", "PermissionDenied"} => arg[c] \in Token
    BY <1>0 DEF Shape
  <2> QED
    BY <1>0, <1>1, <1>2, <2>1, <2>3, <2>4, <2>5, RowsAdvance DEF AnswerIsTrue, Still
<1>3. CASE pc[c] \notin {"reply", "done"}
  <2>1. Replies(c)
    BY <1>0, <1>3 DEF CallStep, Stays, Arrives, MintsNext, Ends
  <2>2. rows' = rows /\ new[c] # NoToken => rows'[new[c]] = "absent"
    BY <1>0, <2>1 DEF Replies, Mints, Shape, Running
  <2> QED
    BY <2>1, <2>2 DEF Replies, Still
<1> QED
  BY <1>2, <1>3

LEMMA TurnsStep == ASSUME TableInv, Steps PROVE Turns'
<1> SUFFICES ASSUME NEW c \in Call, NEW d \in Call, d \in before'[c]
             PROVE  /\ pc'[d] = "done"
                    /\ arg'[c] # NoToken /\ new'[c] # NoToken =>
                         ~(answer'[d] = "OK" /\ arg'[d] = arg'[c])
  BY DEF Turns
<1>0. /\ CallStep(c) /\ CallStep(d)
      /\ Shape /\ Turns /\ AnswerIsTrue /\ TypeOK
  BY DEF Steps, TableInv
<1>1. pc[d] = "done"
  BY <1>0 DEF CallStep, Stays, Still, Arrives, MintsNext, Replies, Ends, Turns
<1>2. Stays(d)
  BY <1>0, <1>1 DEF CallStep, Arrives, MintsNext, Replies, Ends, Running
<1>3. CASE Stays(c) \/ Replies(c) \/ Ends(c)
  BY <1>0, <1>1, <1>2, <1>3 DEF Stays, Replies, Ends, Still, Turns
<1>4. CASE Arrives(c)
  BY <1>1, <1>2, <1>4 DEF Arrives, Stays
<1>5. CASE MintsNext(c)
  <2>1. arg'[c] = arg[c] /\ rows[arg[c]] = "live" /\ arg[c] \in Token
    BY <1>0, <1>5 DEF MintsNext, Shape
  <2>2. ~(answer[d] = "OK" /\ arg[d] = arg[c])
    BY <1>0, <1>1, <2>1, TableAssumption DEF AnswerIsTrue
  <2> QED
    BY <1>1, <1>2, <2>1, <2>2 DEF Stays, Still
<1> QED
  BY <1>0, <1>3, <1>4, <1>5 DEF CallStep

LEMMA TableStep == TableInv /\ [Next]_table => TableInv'
<1> SUFFICES ASSUME TableInv, Steps PROVE TableInv'
  BY StepFacts
<1> QED
  BY ShapeStep, MintsStep, InputsStep, TurnsStep, AtomicStep, AnswerStep DEF TableInv, Steps

LEMMA TableInvariant == Spec => []TableInv
BY InitInv, TableStep, PTL DEF Spec

LEMMA TurnsMeanSingle == TableInv => SequentialUseIsSingle
BY TableAssumption DEF TableInv, Turns, SequentialUseIsSingle, TookIt, TypeOK
-----------------------------------------------------------------------------
(* SqlTokenStore.                                                          *)

\* A statement that changes the transaction.
LEMMA TxStep ==
  ASSUME TableInv, SqlTypeOK, NEW c \in Call, Update(c) \/ Insert(c) \/ Commit(c)
  PROVE  [Next]_table /\ SqlTypeOK'
<1> USE TableAssumption, NoCallAssumption
<1>0. TypeOK /\ Shape /\ Mints /\ Inputs
  BY DEF TableInv
<1>1. pc[c] = "exchange" /\ arg[c] \in Token /\ new[c] \in Token /\ rows[arg[c]] # "absent"
      /\ rows[new[c]] = "absent"
  BY <1>0 DEF Update, Insert, Commit, Shape, Inputs, Mints
<1>2. CASE Update(c)
  <2>1. /\ tx' = [by |-> c, at |-> "insert", sees |-> [rows EXCEPT ![arg[c]] = "revoked"]]
        /\ UNCHANGED table
    BY <1>1, <1>2 DEF Update
  <2> QED
    BY <1>0, <1>1, <2>1 DEF SqlTypeOK, table, TypeOK
<1> DEFINE revoked == [rows EXCEPT ![arg[c]] = "revoked"]
<1>3. CASE Insert(c)
  <2>1. tx = [by |-> c, at |-> "insert", sees |-> revoked]
    BY <1>3 DEF Insert, SqlTypeOK
  <2>2. tx.sees[new[c]] = "absent"
    BY <1>0, <1>1, <2>1 DEF TypeOK
  <2>3. /\ tx' = [by |-> c, at |-> "commit", sees |-> [revoked EXCEPT ![new[c]] = "live"]]
        /\ UNCHANGED table
    BY <1>3, <2>1, <2>2 DEF Insert, table
  <2> QED
    BY <1>0, <1>1, <2>3 DEF SqlTypeOK, table, TypeOK
<1>4. CASE Commit(c)
  <2>1. tx = [by |-> c, at |-> "commit", sees |-> [revoked EXCEPT ![new[c]] = "live"]]
    BY <1>4 DEF Commit, SqlTypeOK
  <2>2. revoked[new[c]] = "absent"
    BY <1>0, <1>1 DEF TypeOK
  <2>3. RevokeAndSave(c)
    BY <1>1, <1>4, <2>1, <2>2 DEF Commit, RevokeAndSave
  <2>4. [Next]_table
    BY <2>3 DEF Next
  <2>5. TypeOK'
    BY <2>4, StepFacts DEF Steps
  <2> QED
    BY <1>4, <2>4, <2>5 DEF Commit, SqlTypeOK, NoTx
<1> QED
  BY <1>2, <1>3, <1>4

\* Where a statement or a call does not touch the transaction, it stands: rows
\* are written by its owner only, and its call waits for it.
LEMMA TxStands ==
  ASSUME SqlTypeOK, TypeOK', tx' = tx,
         tx = NoTx \/ (rows' = rows /\ pc'[tx.by] = pc[tx.by] /\ arg'[tx.by] = arg[tx.by]
                       /\ new'[tx.by] = new[tx.by])
  PROVE  SqlTypeOK'
BY NoCallAssumption DEF SqlTypeOK, NoTx

LEMMA SqlStep ==
  ASSUME TableInv, SqlTypeOK, [SqlNext]_sqlVars
  PROVE  [Next]_table /\ SqlTypeOK'
<1> USE NoCallAssumption
<1>0. TypeOK /\ Shape
  BY DEF TableInv
<1>a. [Next]_table => TypeOK'
  BY StepFacts DEF Steps
<1>b. tx # NoTx => tx.by \in Call /\ pc[tx.by] = "exchange"
  BY DEF SqlTypeOK
<1>1. ASSUME NEW c \in Call, Unlocked(c) PROVE [Next]_table /\ SqlTypeOK'
  <2>1. [Next]_table
    BY <1>1 DEF Unlocked, Next
  <2>2. rows' = rows /\ pc[c] # "exchange"
    BY <1>1 DEF Unlocked, StartGenerate, StartRefresh, StartRevoke, Arrive, Get, GetRefused, Deliver
  <2>3. \A d \in Call \ {c} : pc'[d] = pc[d] /\ arg'[d] = arg[d] /\ new'[d] = new[d]
    BY <1>0, <1>1 DEF Unlocked, StartGenerate, StartRefresh, StartRevoke, Arrive, Get,
       GetRefused, Reply, Deliver, TypeOK
  <2> QED
    BY <1>1, <1>a, <1>b, <2>1, <2>2, <2>3, TxStands DEF Unlocked
<1>2. ASSUME NEW c \in Call, SqlSave(c) \/ SqlRevoke(c) PROVE [Next]_table /\ SqlTypeOK'
  <2>1. [Next]_table
    BY <1>2 DEF SqlSave, SqlRevoke, Next
  <2> QED
    BY <1>2, <1>a, <2>1, TxStands DEF SqlSave, SqlRevoke
<1>3. ASSUME NEW c \in Call, Update(c) \/ Insert(c) \/ Commit(c)
      PROVE [Next]_table /\ SqlTypeOK'
  BY <1>3, TxStep
<1>4. ASSUME NEW c \in Call, Fail(c) PROVE [Next]_table /\ SqlTypeOK'
  <2>1. [Next]_table
    BY <1>4 DEF Fail, Next
  <2>2. CASE tx.by = c
    BY <1>4, <1>a, <2>1, <2>2 DEF Fail, SqlTypeOK, NoTx
  <2>3. CASE tx.by # c
    <3>1. tx' = tx /\ rows' = rows
      BY <1>4, <2>3 DEF Fail, GiveUp
    <3>2. \A d \in Call \ {c} : pc'[d] = pc[d] /\ arg'[d] = arg[d] /\ new'[d] = new[d]
      BY <1>0, <1>4 DEF Fail, GiveUp, Reply, TypeOK
    <3> QED
      BY <1>a, <1>b, <2>1, <2>3, <3>1, <3>2, TxStands
  <2> QED
    BY <2>2, <2>3
<1>5. CASE SqlCrash
  <2>1. [Next]_table
    BY <1>5 DEF SqlCrash, Next
  <2> QED
    BY <1>5, <1>a, <2>1 DEF SqlCrash, SqlTypeOK, NoTx
<1>6. CASE UNCHANGED sqlVars
  <2>1. UNCHANGED table /\ tx' = tx
    BY <1>6 DEF sqlVars
  <2>2. TypeOK'
    BY <1>a, <2>1
  <2> QED
    BY <2>1, <2>2, TxStands DEF table
<1> QED
  BY <1>1, <1>2, <1>3, <1>4, <1>5, <1>6 DEF SqlNext, Statement

LEMMA SqlInitOK == SqlInit => TableInv /\ SqlTypeOK
BY InitInv, NoCallAssumption DEF SqlInit, SqlTypeOK, NoTx, TableInv

LEMMA SqlInvStep ==
  TableInv /\ SqlTypeOK /\ [SqlNext]_sqlVars => [Next]_table /\ (TableInv /\ SqlTypeOK)'
BY SqlStep, TableStep

LEMMA SqlInvariant == SqlSpec => [](TableInv /\ SqlTypeOK)
BY SqlInitOK, SqlInvStep, PTL DEF SqlSpec

\* The variables keep their types, and a transaction sees the committed rows
\* with its own changes only.
THEOREM SqlTypeCorrect == SqlSpec => []SqlTypeOK
BY SqlInvariant, PTL

\* The SQLite storage, statement by statement, implements the storage whose
\* methods are single steps.
THEOREM TableImplemented == SqlSpec => ImplementsTable
<1>1. SqlInit => Init
  BY DEF SqlInit
<1>2. TableInv /\ SqlTypeOK /\ [SqlNext]_sqlVars => [Next]_table
  BY SqlStep
<1> QED
  BY <1>1, <1>2, SqlInvariant, PTL DEF SqlSpec, ImplementsTable, Spec

\* Whatever storage looks like TokenTable, in turn a token is exchanged once;
\* so it is with SQLite.
THEOREM SequentialUseCorrect == SqlSpec => []SequentialUseIsSingle
BY SqlInvariant, TurnsMeanSingle, PTL

\* The new token is never stored without the revocation of the old one.
THEOREM ExchangeIsAtomicCorrect == SqlSpec => []ExchangeIsAtomic
BY SqlInvariant, PTL DEF TableInv

\* What RefreshTokens, GenerateTokens and RevokeRefreshToken answer is so.
THEOREM AnswerIsTrueCorrect == SqlSpec => []AnswerIsTrue
BY SqlInvariant, PTL DEF TableInv

\* No step takes a row back.
THEOREM RowsOnlyAdvanceCorrect == SqlSpec => RowsOnlyAdvance
<1>1. TableInv /\ [Next]_table =>
        [\A t \in Token :
           /\ rows[t] = "revoked" => rows'[t] = "revoked"
           /\ rows[t] = "live" => rows'[t] # "absent"]_table
  BY StepFacts, RowsAdvance
<1>2. SqlSpec => [][Next]_table /\ []TableInv
  BY SqlInvariant, SqlInvStep, PTL DEF SqlSpec
<1> QED
  BY <1>1, <1>2, PTL DEF RowsOnlyAdvance
=============================================================================
