------------------------- MODULE AuthServicePromise -------------------------
(* AuthService implements RefreshSessions: every step of a handler, of     *)
(* Redis or of the environment opens a session, rotates or closes a head,  *)
(* breaks a session, or is invisible.                                      *)
EXTENDS AuthServiceProofs

LEMMA HeadIsOpenEnd ==
  ASSUME NEW s \in Call
  PROVE  Heads(s) = {t \in Token :
                       /\ OpenEnd(t)
                       /\ t \in store \/ ~Settled(t)
                       /\ session[t] = s}
BY DEF Heads, IsHead, OpenEnd

\* OnlyToken is what its name says.
LEMMA OnlyTokenEmpty == OnlyToken({}) = NoToken
BY DEF OnlyToken

LEMMA OnlyTokenSingle ==
  ASSUME NEW S, NEW t \in S, \A u \in S : u = t
  PROVE  OnlyToken(S) = t
BY DEF OnlyToken

LEMMA OnlyTokenInToken ==
  ASSUME NEW S \in SUBSET Token
  PROVE  OnlyToken(S) = NoToken <=> S = {}
BY ConstantsAssumption DEF OnlyToken

LEMMA HeadsUnique ==
  ASSUME SessionInv, NEW s \in Call \ Broken
  PROVE  \A t, u \in Heads(s) : t = u
BY HeadIsOpenEnd DEF SessionInv, OneOpenEnd

\* When no end opens and no lineage changes, heads only vanish.
LEMMA HeadsVanish ==
  ASSUME SessionInv, [Next]_vars,
         \A x \in Token : OpenEnd(x)' => OpenEnd(x),
         NEW s \in Call
  PROVE  Heads(s)' \subseteq Heads(s)
<1>1. Inv /\ Typed /\ Frame /\ Keys
  BY StepFacts DEF SessionInv, Inv
<1> SUFFICES ASSUME NEW x \in Token, OpenEnd(x)', x \in store' \/ ~Settled(x)', session'[x] = s
             PROVE  OpenEnd(x) /\ (x \in store \/ ~Settled(x)) /\ session[x] = s
  BY DEF Heads, IsHead, OpenEnd
<1>2. OpenEnd(x) /\ x \in Minted
  BY DEF OpenEnd, InChain, Minted
<1>3. session'[x] = session[x]
  BY <1>1, <1>2, MintedSession
<1>4. x \in store' /\ x \notin store => ~Settled(x)
  BY <1>1 DEF Keys, Settled, Typed, Phases
<1>5. Settled(x) => Settled(x)'
  BY <1>1, <1>2, Settling
<1> QED
  BY <1>2, <1>3, <1>4, <1>5

\* The open ends and the lineage are what they were, but for ends that close.
Still ==
  /\ \A x \in Token : InChain(x)' <=> InChain(x)
  /\ \A x \in Token : OpenEnd(x)' => OpenEnd(x)
  /\ \A c \in Call : op'[c] = "generate" <=> op[c] = "generate"

\* The heads that vanish are closed.
LEMMA Closing ==
  ASSUME SessionInv, [Next]_vars, Still, Broken' = Broken
  PROVE  [Promise!Next]_(Promise!vars)
<1>1. \A s \in Call : Heads(s)' \subseteq Heads(s)
  BY HeadsVanish DEF Still
<1>2. \A s \in Call \ Broken : Heads(s)' = Heads(s) \/ Heads(s)' = {}
  BY <1>1, HeadsUnique
<1>3. \A s \in Call :
        /\ SessionHead[s] = IF s \in Broken THEN NoToken ELSE OnlyToken(Heads(s))
        /\ SessionHead'[s] = IF s \in Broken THEN NoToken ELSE OnlyToken(Heads(s)')
  BY DEF SessionHead
<1>4. \A s \in Call : SessionHead'[s] = SessionHead[s] \/ SessionHead'[s] = NoToken
  BY <1>2, <1>3, OnlyTokenEmpty
<1>5. {c \in Call : op[c] = "generate"}' = {c \in Call : op[c] = "generate"}
  BY DEF Still
<1>6. {t \in Token : InChain(t)}' = {t \in Token : InChain(t)}
  BY DEF Still
<1> DEFINE Closed == {s \in Call : SessionHead'[s] # SessionHead[s]}
<1>7. /\ \A s \in Closed : SessionHead[s] # NoToken
      /\ SessionHead' = [s \in Call |-> IF s \in Closed THEN NoToken ELSE SessionHead[s]]
  BY <1>4 DEF SessionHead
<1>8. CASE Closed = {}
  <2>1. SessionHead' = SessionHead
    BY <1>8, <1>7 DEF SessionHead
  <2> QED
    BY <1>5, <1>6, <2>1 DEF Promise!vars
<1>9. CASE Closed # {}
  <2>1. Promise!Close(Closed)
    BY <1>5, <1>6, <1>7, <1>9 DEF Promise!Close
  <2> QED
    BY <2>1 DEF Promise!Next
<1> QED
  BY <1>8, <1>9

\* A late SET NX puts a taken key back: a session breaks, if it has not broken
\* already, and no other one notices.
LEMMA Breaking ==
  ASSUME SessionInv, [Next]_vars, NEW t \in revived' \ revived
  PROVE  [Promise!Next]_(Promise!vars)
<1>1. Inv /\ Typed /\ Lineage /\ Lateness
  BY StepFacts DEF SessionInv, Inv
<1>2. /\ t \in Token /\ taker[t] # NoCall
      /\ revived' = revived \cup {t}
      /\ store' = store \cup {t}
      /\ late' \subseteq late
      /\ \A m \in late \ late' : new[m.call] = t
      /\ UNCHANGED <<pc, op, arg, new, session, taker>>
  BY <1>1 DEF Lateness, inputVars
<1>3. t \in Minted
  BY <1>1, <1>2 DEF Inv, Takers, Issued, Minted
<1>4. PICK s \in Call : session[t] = s /\ op[s] = "generate"
  BY <1>1, <1>3 DEF Lineage
<1>5. Broken' = Broken \cup {s}
  BY <1>2, <1>4 DEF Broken
<1>6. \A x \in Token : (InChain(x)' <=> InChain(x)) /\ (OpenEnd(x)' <=> OpenEnd(x))
  BY <1>2 DEF InChain, OpenEnd
<1>7. Still
  BY <1>2, <1>6 DEF Still
<1>8. CASE s \in Broken
  BY <1>5, <1>7, <1>8, Closing
<1>9. CASE s \notin Broken
  <2>1. \A x \in Token \ {t} : Settled(x)' <=> Settled(x)
    BY <1>2 DEF Settled
  <2>2. \A x \in Token \ {t} : IsHead(x)' <=> IsHead(x)
    BY <1>2, <1>6, <2>1 DEF IsHead, OpenEnd
  <2>3. \A r \in Call \ {s} : Heads(r)' = Heads(r)
    BY <1>2, <1>4, <2>2 DEF Heads
  <2>4. SessionHead' = [SessionHead EXCEPT ![s] = NoToken]
    BY <1>5, <1>9, <2>3 DEF SessionHead
  <2>5. {c \in Call : op[c] = "generate"}' = {c \in Call : op[c] = "generate"}
    BY <1>2
  <2>6. {x \in Token : InChain(x)}' = {x \in Token : InChain(x)}
    BY <1>6
  <2>7. Promise!Break(s)
    BY <1>4, <1>5, <1>9, <2>4, <2>5, <2>6 DEF Promise!Break
  <2> QED
    BY <2>7 DEF Promise!Next
<1> QED
  BY <1>8, <1>9

LEMMA PromiseInit == Init => Promise!Init
<1> SUFFICES ASSUME Init PROVE Promise!Init
  OBVIOUS
<1>1. \A t \in Token : ~InChain(t)
  BY ConstantsAssumption DEF Init, InChain
<1>2. \A s \in Call : Heads(s) = {}
  BY <1>1 DEF Heads, IsHead
<1>3. SessionHead = [s \in Call |-> NoToken] /\ Broken = {}
  BY <1>2, OnlyTokenEmpty DEF SessionHead, Init, Broken
<1> QED
  BY <1>1, <1>3 DEF Init, Promise!Init

\* GenerateTokens mints: a session opens.
LEMMA Opening ==
  ASSUME SessionInv, [Next]_vars, NEW c \in Call, NEW t \in Token, StartGenerate(c, t)
  PROVE  Promise!Open(c, t)
<1>1. Inv /\ Typed /\ Typed' /\ Lineage /\ OneOpenEnd'
  BY TypedStep, OneOpenEndStep DEF SessionInv, Inv
<1>m. \A m \in late : m.call \in Call /\ new[m.call] # t
  BY <1>1 DEF StartGenerate, Minted, Typed, DataOK
<1>2. /\ t \notin Minted
      /\ op[c] = "none"
      /\ op' = [op EXCEPT ![c] = "generate"]
      /\ new' = [new EXCEPT ![c] = t]
      /\ pc' = [pc EXCEPT ![c] = "save"]
      /\ session' = [session EXCEPT ![t] = c]
      /\ UNCHANGED <<store, late, revived>>
      /\ \A m \in late : m.call # c
  BY <1>1 DEF StartGenerate, Goto, storeVars, lateVars, Typed, Phases, LateOK, DataOK, Writes
<1>3. \A x \in Token : InChain(x)' <=> InChain(x) \/ x = t
  BY <1>1, OpenEndGenerate
<1>4. \A x \in Token : OpenEnd(x)' <=> OpenEnd(x) \/ x = t
  BY <1>1, OpenEndGenerate
<1>5. ~InChain(t)
  BY <1>2 DEF InChain, Minted
<1>6. \A x \in Token : OpenEnd(x) => session'[x] = session[x] /\ session[x] # c
  <2> SUFFICES ASSUME NEW x \in Token, OpenEnd(x)
               PROVE  session'[x] = session[x] /\ session[x] # c
    OBVIOUS
  <2>1. x \in Minted
    BY DEF OpenEnd, InChain, Minted
  <2> QED
    BY <1>1, <1>2, <2>1, MintedSession DEF Lineage
<1>7. \A x \in Token \ {t} : Settled(x)' <=> Settled(x)
  <2>1. new[c] = NoToken
    BY <1>1, <1>2 DEF Typed, Phases
  <2>2. \A d \in Call \ {c} : new'[d] = new[d] /\ pc'[d] = pc[d]
    BY <1>1, <1>2 DEF Typed, LocalsOK, DataOK
  <2>3. new'[c] = t
    BY <1>1, <1>2 DEF Typed, DataOK
  <2> QED
    BY <1>2, <1>m, <2>1, <2>2, <2>3, ConstantsAssumption DEF Settled
<1>8. session'[t] = c /\ ~Settled(t)'
  BY <1>1, <1>2 DEF Settled, Typed, LocalsOK, DataOK
<1>9. Heads(c) = {}
  BY <1>6, HeadIsOpenEnd
<1>10. Heads(c)' = {t}
  BY <1>4, <1>5, <1>6, <1>8 DEF Heads, IsHead, OpenEnd
<1>11. \A s \in Call \ {c} : Heads(s)' = Heads(s)
  <2> SUFFICES ASSUME NEW s \in Call \ {c}, NEW x \in Token
               PROVE  IsHead(x)' /\ session'[x] = s <=> IsHead(x) /\ session[x] = s
    BY DEF Heads
  <2>1. IsHead(x) <=> OpenEnd(x) /\ (x \in store \/ ~Settled(x))
    BY DEF IsHead, OpenEnd
  <2>2. IsHead(x)' <=> OpenEnd(x)' /\ (x \in store' \/ ~Settled(x)')
    BY DEF IsHead, OpenEnd
  <2>3. CASE x = t
    BY <1>5, <1>8, <2>1, <2>3 DEF OpenEnd
  <2>4. CASE x # t
    BY <1>2, <1>4, <1>6, <1>7, <2>1, <2>2, <2>4
  <2> QED
    BY <2>3, <2>4
<1>b. c \notin Broken /\ Broken' = Broken
  <2>1. \A x \in revived : x \in Minted
    BY <1>1 DEF Inv, Takers, Issued, Minted, Typed, DataOK
  <2>2. \A x \in revived : session'[x] = session[x] /\ session[x] # c
    BY <1>1, <1>2, <2>1, MintedSession DEF Lineage
  <2> QED
    BY <1>2, <2>2 DEF Broken
<1>12. SessionHead' = [SessionHead EXCEPT ![c] = t]
  BY <1>10, <1>11, <1>b, OnlyTokenSingle DEF SessionHead
<1>13. {d \in Call : op[d] = "generate"}' = {d \in Call : op[d] = "generate"} \cup {c}
  BY <1>1, <1>2 DEF Typed, DataOK
<1>14. {x \in Token : InChain(x)}' = {x \in Token : InChain(x)} \cup {t}
  BY <1>3
<1> QED
  BY <1>2, <1>5, <1>12, <1>13, <1>14, <1>b DEF Promise!Open

\* The DEL of an exchange is the first to find its key: the session goes on
\* with the token that the pipeline may store. In a broken session nobody
\* knows with which.
LEMMA Rotating ==
  ASSUME SessionInv, [Next]_vars,
         NEW c \in Call, Takes(c), op[c] = "refresh", arg[c] \in store, taker[arg[c]] = NoCall,
         ~Settled(new[c])', \A x \in Token \ {new[c]} : Settled(x)' <=> Settled(x)
  PROVE  /\ session[arg[c]] \notin Broken => Promise!Rotate(session[arg[c]], new[c])
         /\ session[arg[c]] \in Broken => Promise!Stray(new[c])
<1>1. Inv /\ Inv' /\ Typed /\ Typed' /\ Lineage /\ OneOpenEnd'
  BY InvStep, TypedStep, OneOpenEndStep DEF SessionInv, Inv
<1>a. PICK a \in Token, n \in Token : a = arg[c] /\ n = new[c]
  BY <1>1 DEF Takes, Typed, DataOK
<1>2. /\ store' = store \ {a}
      /\ taker[a] = NoCall
      /\ UNCHANGED <<op, arg, new, session, revived>>
  BY <1>1, <1>a DEF Takes, Del
<1>3. a \in Minted
  BY <1>1, <1>a, PresentedIsMinted
<1>4. PICK s \in Call : session[a] = s /\ session[n] = s
  BY <1>1, <1>2, <1>3, <1>a DEF Lineage
<1>5. \A x \in Token : /\ InChain(x)' <=> InChain(x) \/ x = n
                       /\ OpenEnd(x)' <=> (OpenEnd(x) /\ x # a) \/ x = n
  BY <1>1, <1>a, OpenEndTake
<1>6. ~InChain(n)
  <2>1. \A d \in Call : new[d] = n => d = c
    BY <1>1, <1>a DEF Inv, UniqueMint
  <2>2. taker[arg[c]] # c
    BY <1>2, <1>a, ConstantsAssumption
  <2> QED
    BY <2>1, <2>2 DEF InChain
<1>7. /\ Broken' = Broken
      /\ {d \in Call : op[d] = "generate"}' = {d \in Call : op[d] = "generate"}
      /\ {x \in Token : InChain(x)}' = {x \in Token : InChain(x)} \cup {n}
  BY <1>2, <1>5, <1>a DEF Broken
<1>8. \A r \in Call \ {s} : Heads(r)' = Heads(r)
  <2> SUFFICES ASSUME NEW r \in Call \ {s}, NEW x \in Token, session[x] = r
               PROVE  IsHead(x)' <=> IsHead(x)
    BY <1>2 DEF Heads
  <2>1. x # a /\ x # n
    BY <1>4
  <2> QED
    BY <1>2, <1>5, <1>a, <2>1 DEF IsHead, OpenEnd
<1>9. \A r \in Call \ {s} : SessionHead'[r] = SessionHead[r]
  BY <1>7, <1>8 DEF SessionHead
<1>10. ASSUME s \notin Broken
       PROVE  Promise!Rotate(s, n)
  <2>1. a \in Heads(s)
    BY <1>1, <1>2, <1>4, <1>10, <1>a, TakenIsOpenEnd, HeadIsOpenEnd
  <2>2. Heads(s)' = {n}
    <3>1. n \in Heads(s)'
      BY <1>2, <1>4, <1>5, <1>a DEF Heads, IsHead, OpenEnd
    <3>2. \A x \in Heads(s)' : x = n
      BY <1>1, <1>2, <1>4, <1>5, <1>7, <1>10 DEF Heads, IsHead, OpenEnd, OneOpenEnd
    <3> QED
      BY <3>1, <3>2
  <2>3. OnlyToken(Heads(s)') = n
    BY <2>2, OnlyTokenSingle
  <2>4. SessionHead'[s] = n
    BY <1>4, <1>7, <1>10, <2>3 DEF SessionHead
  <2>5. SessionHead' = [SessionHead EXCEPT ![s] = n]
    BY <1>4, <1>9, <2>4 DEF SessionHead
  <2>6. SessionHead[s] # NoToken
    BY <1>4, <1>10, <2>1, OnlyTokenInToken DEF SessionHead, Heads
  <2> QED
    BY <1>6, <1>7, <2>5, <2>6 DEF Promise!Rotate
<1>11. ASSUME s \in Broken
       PROVE  Promise!Stray(n)
  <2>1. SessionHead'[s] = SessionHead[s]
    BY <1>7, <1>11 DEF SessionHead
  <2>2. SessionHead' = SessionHead
    BY <1>9, <2>1 DEF SessionHead
  <2> QED
    BY <1>6, <1>7, <1>11, <2>2 DEF Promise!Stray
<1> QED
  BY <1>4, <1>10, <1>11, <1>a

LEMMA TakeSettles ==
  ASSUME Typed, NEW c \in Call, Takes(c), op[c] = "refresh"
  PROVE  /\ ~Settled(new[c])'
         /\ \A x \in Token \ {new[c]} : Settled(x)' <=> Settled(x)
<1>1. /\ new' = new
      /\ pc'[c] = "setnx" \/ \E m \in late' : m.call = c
      /\ \A d \in Call \ {c} : pc'[d] = pc[d]
      /\ \A k \in late' : \E m \in late : m.call = k.call
      /\ \A m \in late : \E k \in late' : k.call = m.call
  BY DEF Takes
<1>2. ~Settled(new[c])'
  BY <1>1 DEF Settled
<1>3. ASSUME NEW x \in Token \ {new[c]}
      PROVE  Settled(x)' <=> Settled(x)
  <2>1. (\A m \in late' : new[m.call] # x) <=> (\A m \in late : new[m.call] # x)
    BY <1>1
  <2>2. (\A d \in Call : new[d] = x => pc'[d] = "done") <=> (\A d \in Call : new[d] = x => pc[d] = "done")
    BY <1>1, <1>3
  <2> QED
    BY <1>1, <2>1, <2>2 DEF Settled
<1> QED
  BY <1>2, <1>3

LEMMA BrokenStays ==
  ASSUME Inv, [Next]_vars, revived' = revived
  PROVE  Broken' = Broken
<1>1. \A t \in revived : t \in Minted
  BY DEF Inv, Takers, Issued, Minted, Typed, DataOK
<1> QED
  BY <1>1, MintedSession DEF Broken

LEMMA PromiseStep ==
  ASSUME SessionInv, [Next]_vars
  PROVE  [Promise!Next]_(Promise!vars)
<1>1. Inv /\ Typed /\ Lineage /\ Lateness
  BY StepFacts DEF SessionInv, Inv
<1>2. CASE revived' # revived
  <2>1. PICK t \in revived' \ revived : TRUE
    BY <1>1, <1>2 DEF Lateness
  <2> QED
    BY Breaking
<1>3. CASE revived' = revived
  <2>1. Broken' = Broken
    BY <1>1, <1>3, BrokenStays
  <2>2. ASSUME NEW c \in Call, NEW t \in Token, StartGenerate(c, t)
        PROVE  [Promise!Next]_(Promise!vars)
    BY <2>2, Opening DEF Promise!Next
  <2>3. ASSUME NEW c \in Call, NEW t \in Token, Get(c, t)
        PROVE  [Promise!Next]_(Promise!vars)
    <3>1. \A x \in Token : (InChain(x)' <=> InChain(x)) /\ (OpenEnd(x)' <=> OpenEnd(x))
      BY <1>1, <2>3, OpenEndGet
    <3>2. Still
      BY <2>3, <3>1 DEF Get, Still
    <3> QED
      BY <2>1, <3>2, Closing
  <2>4. ASSUME NEW c \in Call, Takes(c), arg[c] \in store, taker[arg[c]] = NoCall
        PROVE  [Promise!Next]_(Promise!vars)
    <3>1. CASE op[c] = "refresh"
      <4>1. session[arg[c]] \in Call /\ new[c] \in Token
        BY <1>1, <2>4, <3>1, PresentedIsMinted DEF Takes, Typed, DataOK, Lineage
      <4>2. \/ Promise!Rotate(session[arg[c]], new[c])
            \/ Promise!Stray(new[c])
        BY <1>1, <2>4, <3>1, TakeSettles, Rotating
      <4> QED
        BY <4>1, <4>2 DEF Promise!Next
    <3>2. CASE op[c] = "revoke"
      <4>1. new[c] \notin Token /\ op' = op
        BY <2>4, <3>2 DEF Takes
      <4>2. \A x \in Token : (InChain(x)' <=> InChain(x)) /\ (OpenEnd(x)' => OpenEnd(x))
        BY <1>1, <2>4, <4>1, OpenEndTake
      <4>3. Still
        BY <4>1, <4>2 DEF Still
      <4> QED
        BY <2>1, <4>3, Closing
    <3> QED
      BY <2>4, <3>1, <3>2 DEF Takes
  <2>5. ASSUME NEW c \in Call, Takes(c), ~(arg[c] \in store /\ taker[arg[c]] = NoCall)
        PROVE  [Promise!Next]_(Promise!vars)
    <3>1. op' = op
      BY <2>5 DEF Takes
    <3>2. \A x \in Token : (InChain(x)' <=> InChain(x)) /\ (OpenEnd(x)' <=> OpenEnd(x))
      BY <1>1, <2>5, OpenEndMissed
    <3>3. Still
      BY <3>1, <3>2 DEF Still
    <3> QED
      BY <2>1, <3>3, Closing
  <2>6. ASSUME UNCHANGED <<new, session, taker>>,
               \A c \in Call : op'[c] = "generate" <=> op[c] = "generate"
        PROVE  [Promise!Next]_(Promise!vars)
    <3>1. \A x \in Token : (InChain(x)' <=> InChain(x)) /\ (OpenEnd(x)' <=> OpenEnd(x))
      BY <1>1, <2>6, OpenEndStays
    <3>2. Still
      BY <2>6, <3>1 DEF Still
    <3> QED
      BY <2>1, <3>2, Closing
  <2> QED
    BY <1>1, <2>2, <2>3, <2>4, <2>5, <2>6, StepKinds
<1> QED
  BY <1>2, <1>3

\* Whatever interleaves, fails, is repeated or comes late between the service
\* and Redis, the service is a RefreshSessions.
THEOREM PromiseKept == Spec => ImplementsPromise
BY PromiseInit, PromiseStep, SessionAlways, PTL DEF Spec, ImplementsPromise, Promise!Spec
=============================================================================
