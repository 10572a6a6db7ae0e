------------------------- MODULE RateLimiterProofs -------------------------
(* Theorems about RateLimiter, for any requests, addresses and limits.     *)
EXTENDS RateLimiter, FiniteSetTheorems, TLAPS

\* The variables of the middleware, and those of Redis with the history.
LocalsOK ==
  /\ pc \in [Request -> Running \cup {"idle", "done"}]
  /\ from \in [Request -> Counter]
  /\ at \in [Request -> Counter]
  /\ exceeded \in [Request -> BOOLEAN]
  /\ tries \in [Request -> 0..MaxRetries]
  /\ gone \subseteq {r \in Request : pc[r] \in Running}
  /\ outcome \in [Request -> {"none", "admitted", "limited", "error"}]

CountersOK ==
  /\ count \in [Counter -> Nat]
  /\ ttl \subseteq {k \in Counter : count[k] > 0}
  /\ window \in [Counter -> SUBSET Request]
  /\ unsure \subseteq Counter
  /\ undone \subseteq Counter

LEMMA GotoTyped ==
  ASSUME LocalsOK, NEW r \in Request, NEW p \in Running, NEW k \in Counter,
         NEW e \in BOOLEAN, Goto(r, p, k, e)
  PROVE  LocalsOK'
BY LimitsAssumption DEF LocalsOK, Goto, Running

LEMMA FinishTyped ==
  ASSUME LocalsOK, NEW r \in Request, NEW o \in {"admitted", "limited", "error"},
         Finish(r, o)
  PROVE  LocalsOK'
BY LimitsAssumption DEF LocalsOK, Finish, Running, Counter

LEMMA CheckedTyped ==
  ASSUME LocalsOK, NEW r \in Request, NEW n \in Nat, Checked(r, n)
  PROVE  LocalsOK'
<1>1. (exceeded[r] \/ n >= Limit(at[r])) \in BOOLEAN
  BY DEF LocalsOK
<1> QED
  BY <1>1, GotoTyped, FinishTyped DEF Checked, LocalsOK, Running

LEMMA NoReplyTyped ==
  ASSUME LocalsOK, CountersOK, NEW r \in Request, pc[r] \in Running, NoReply(r)
  PROVE  LocalsOK' /\ unsure' \subseteq Counter
<1>1. unsure' \subseteq Counter
  BY DEF NoReply, LocalsOK, CountersOK
<1>2. CASE /\ r \notin gone /\ tries[r] < MaxRetries
           /\ tries' = [tries EXCEPT ![r] = @ + 1]
           /\ UNCHANGED <<pc, from, at, exceeded, gone, outcome>>
  BY <1>1, <1>2, LimitsAssumption DEF LocalsOK
<1>3. CASE Goto(r, "del", at[r], exceeded[r])
  BY <1>1, <1>3, GotoTyped DEF LocalsOK, Running
<1>4. CASE Finish(r, "error")
  BY <1>1, <1>4, FinishTyped
<1> QED
  BY <1>1, <1>2, <1>3, <1>4 DEF NoReply
-----------------------------------------------------------------------------
LEMMA TypeStep == TypeOK /\ [Next]_vars => TypeOK'
<1> SUFFICES ASSUME LocalsOK, CountersOK, [Next]_vars
             PROVE  LocalsOK' /\ CountersOK'
  BY DEF TypeOK, LocalsOK, CountersOK
<1>0. ASSUME NEW r \in Request
      PROVE  at[r] \in Counter /\ exceeded[r] \in BOOLEAN
  BY <1>0 DEF LocalsOK
<1>1. ASSUME NEW r \in Request, NEW a \in Addr, Arrive(r, a)
      PROVE  LocalsOK' /\ CountersOK'
  <2>1. CountersOK'
    BY <1>1 DEF Arrive, CountersOK, history
  <2>2. LocalsOK'
    <3>1. CASE Finish(r, "admitted")
      BY <3>1, FinishTyped
    <3>2. CASE ~Finish(r, "admitted")
      BY <1>1, <3>2 DEF Arrive, LocalsOK, Running, Counter
    <3> QED
      BY <3>1, <3>2
  <2> QED
    BY <2>1, <2>2
<1>2. ASSUME NEW r \in Request, Incr(r)
      PROVE  LocalsOK' /\ CountersOK'
  <2>1. /\ count' \in [Counter -> Nat]
        /\ ttl' \subseteq {k \in Counter : count'[k] > 0}
        /\ window' \in [Counter -> SUBSET Request]
        /\ undone' \subseteq Counter
    BY <1>0, <1>2 DEF Incr, CountersOK
  <2>2. LocalsOK' /\ unsure' \subseteq Counter
    <3>1. CASE NoReply(r)
      BY <1>2, <3>1, NoReplyTyped DEF Incr, Running
    <3>2. CASE Goto(r, "expire", at[r], exceeded[r]) /\ UNCHANGED unsure
      BY <1>0, <3>2, GotoTyped DEF Running, CountersOK
    <3>3. CASE Checked(r, count[at[r]] + 1) /\ UNCHANGED unsure
      BY <1>0, <3>3, CheckedTyped DEF CountersOK
    <3> QED
      BY <1>2, <3>1, <3>2, <3>3 DEF Incr
  <2> QED
    BY <2>1, <2>2 DEF CountersOK
<1>3. ASSUME NEW r \in Request, Expire(r)
      PROVE  LocalsOK' /\ CountersOK'
  <2>1. /\ ttl' \subseteq {k \in Counter : count'[k] > 0}
        /\ UNCHANGED <<count, window, undone>>
    BY <1>0, <1>3 DEF Expire, CountersOK
  <2>2. LocalsOK' /\ unsure' \subseteq Counter
    <3>1. CASE NoReply(r)
      BY <1>3, <3>1, NoReplyTyped DEF Expire, Running
    <3>2. CASE Checked(r, 1) /\ UNCHANGED unsure
      BY <3>2, CheckedTyped DEF CountersOK
    <3> QED
      BY <1>3, <3>1, <3>2 DEF Expire
  <2> QED
    BY <2>1, <2>2 DEF CountersOK
<1>4. ASSUME NEW r \in Request, Del(r)
      PROVE  LocalsOK' /\ CountersOK'
  <2>1. /\ count' \in [Counter -> Nat]
        /\ ttl' \subseteq {k \in Counter : count'[k] > 0}
        /\ UNCHANGED window
        /\ undone' \subseteq Counter
    BY <1>0, <1>4 DEF Del, CountersOK
  <2>2. LocalsOK' /\ unsure' \subseteq Counter
    <3>1. CASE NoReply(r)
      BY <1>4, <3>1, NoReplyTyped DEF Del, Running
    <3>2. CASE Finish(r, "error") /\ UNCHANGED unsure
      BY <3>2, FinishTyped DEF CountersOK
    <3> QED
      BY <1>4, <3>1, <3>2 DEF Del
  <2> QED
    BY <2>1, <2>2 DEF CountersOK
<1>5. ASSUME NEW r \in Request, CommandLost(r)
      PROVE  LocalsOK' /\ CountersOK'
  BY <1>5, NoReplyTyped DEF CommandLost, CountersOK
<1>6. ASSUME NEW r \in Request, Cancel(r)
      PROVE  LocalsOK' /\ CountersOK'
  BY <1>6 DEF Cancel, LocalsOK, CountersOK, history
<1>7. ASSUME NEW k \in Counter, Elapse(k)
      PROVE  LocalsOK' /\ CountersOK'
  BY <1>7 DEF Elapse, LocalsOK, CountersOK, locals
<1>8. CASE Crash
  BY <1>8, LimitsAssumption DEF Crash, LocalsOK, CountersOK, Counter, Running
<1>9. CASE UNCHANGED vars
  BY <1>9 DEF vars, locals, history, LocalsOK, CountersOK
<1> QED
  BY <1>1, <1>2, <1>3, <1>4, <1>5, <1>6, <1>7, <1>8, <1>9 DEF Next, Step

LEMMA TypeInit == Init => TypeOK
BY LimitsAssumption DEF Init, TypeOK, Counter, Running

\* The variables keep their types, for any limits and number of repeats.
THEOREM TypeCorrect == Spec => []TypeOK
BY TypeInit, TypeStep, PTL DEF Spec
-----------------------------------------------------------------------------
(* NoExpiryNeedsFault is inductive once the types are known. What a step   *)
(* does to the requests that are about to set an expiry:                   *)

\* A request stops being about to set the expiry of k by setting it, or with
\* k in unsure.
Setting(r, k) == pc[r] = "expire" /\ at[r] = k

LEMMA SettingEnds ==
  ASSUME TypeOK, NEW r \in Request, pc[r] \in Running, NoReply(r)
  PROVE  /\ at[r] \in unsure'
         /\ \A q \in Request \ {r}, k \in Counter : Setting(q, k)' <=> Setting(q, k)
BY DEF NoReply, Goto, Finish, Setting, TypeOK

LEMMA SettingOthers ==
  ASSUME TypeOK, NEW r \in Request, NEW n \in Nat, Checked(r, n)
  PROVE  \A q \in Request \ {r}, k \in Counter : Setting(q, k)' <=> Setting(q, k)
BY DEF Checked, Goto, Finish, Setting, TypeOK

LEMMA NoExpiryStep ==
  ASSUME TypeOK, NoExpiryNeedsFault, [Next]_vars
  PROVE  NoExpiryNeedsFault'
<1> SUFFICES ASSUME NEW k \in Counter, count'[k] > 0, k \notin ttl', k \notin unsure'
             PROVE  \E r \in Request : Setting(r, k)'
  BY DEF NoExpiryNeedsFault, Setting
<1>0. count[k] > 0 /\ k \notin ttl /\ k \notin unsure =>
        \E r \in Request : Setting(r, k)
  BY DEF NoExpiryNeedsFault, Setting
<1>1. ASSUME NEW r \in Request, NEW a \in Addr, Arrive(r, a)
      PROVE  \E q \in Request : Setting(q, k)'
  <2>1. count[k] > 0 /\ k \notin ttl /\ k \notin unsure /\ pc[r] = "idle"
    BY <1>1 DEF Arrive, history
  <2>2. PICK q \in Request : Setting(q, k)
    BY <1>0, <2>1
  <2>3. Setting(q, k)'
    BY <1>1, <2>1, <2>2 DEF Arrive, Finish, Setting, TypeOK
  <2> QED
    BY <2>3
<1>2. ASSUME NEW r \in Request, Incr(r)
      PROVE  \E q \in Request : Setting(q, k)'
  <2>1. CASE at[r] = k /\ count[k] = 0
    <3>1. Goto(r, "expire", at[r], exceeded[r])
      BY <1>2, <2>1, SettingEnds DEF Incr, Running
    <3>2. Setting(r, k)'
      BY <2>1, <3>1 DEF Goto, Setting, TypeOK
    <3> QED
      BY <3>2
  <2>2. CASE ~(at[r] = k /\ count[k] = 0)
    <3>1. count[k] > 0 /\ k \notin ttl /\ k \notin unsure
      BY <1>2, <2>2 DEF Incr, NoReply, TypeOK
    <3>2. PICK q \in Request : Setting(q, k)
      BY <1>0, <3>1
    <3>3. q # r
      BY <1>2, <3>2 DEF Incr, Setting
    <3>4. Setting(q, k)'
      <4>1. CASE NoReply(r)
        BY <1>2, <3>2, <3>3, <4>1, SettingEnds DEF Incr, Running
      <4>2. CASE Goto(r, "expire", at[r], exceeded[r])
        BY <3>2, <3>3, <4>2 DEF Goto, Setting, TypeOK
      <4>3. CASE Checked(r, count[at[r]] + 1)
        BY <3>2, <3>3, <4>3, SettingOthers DEF TypeOK
      <4> QED
        BY <1>2, <4>1, <4>2, <4>3 DEF Incr
    <3> QED
      BY <3>4
  <2> QED
    BY <2>1, <2>2
<1>3. ASSUME NEW r \in Request, Expire(r)
      PROVE  \E q \in Request : Setting(q, k)'
  <2>1. count[k] > 0 /\ k \notin ttl /\ k \notin unsure /\ at[r] # k
    BY <1>3 DEF Expire, NoReply, TypeOK
  <2>2. PICK q \in Request : Setting(q, k)
    BY <1>0, <2>1
  <2>3. q # r
    BY <2>1, <2>2 DEF Setting
  <2>4. Setting(q, k)'
    BY <1>3, <2>2, <2>3, SettingEnds, SettingOthers DEF Expire, Running
  <2> QED
    BY <2>4
<1>4. ASSUME NEW r \in Request, Del(r)
      PROVE  \E q \in Request : Setting(q, k)'
  <2>1. count[k] > 0 /\ k \notin ttl /\ k \notin unsure
    BY <1>4 DEF Del, NoReply, TypeOK
  <2>2. PICK q \in Request : Setting(q, k)
    BY <1>0, <2>1
  <2>3. q # r
    BY <1>4, <2>2 DEF Del, Setting
  <2>4. Setting(q, k)'
    BY <1>4, <2>2, <2>3, SettingEnds DEF Del, Finish, Running, Setting, TypeOK
  <2> QED
    BY <2>4
<1>5. ASSUME NEW r \in Request, CommandLost(r)
      PROVE  \E q \in Request : Setting(q, k)'
  <2>1. count[k] > 0 /\ k \notin ttl /\ k \notin unsure /\ at[r] # k
    BY <1>5, SettingEnds DEF CommandLost, NoReply
  <2>2. PICK q \in Request : Setting(q, k)
    BY <1>0, <2>1
  <2>3. Setting(q, k)'
    BY <1>5, <2>1, <2>2, SettingEnds DEF CommandLost, Setting
  <2> QED
    BY <2>3
<1>6. ASSUME NEW r \in Request, Cancel(r)
      PROVE  \E q \in Request : Setting(q, k)'
  BY <1>0, <1>6 DEF Cancel, history, Setting
<1>7. ASSUME NEW j \in Counter, Elapse(j)
      PROVE  \E q \in Request : Setting(q, k)'
  BY <1>0, <1>7 DEF Elapse, locals, Setting, TypeOK
<1>8. CASE Crash
  <2>1. count[k] > 0 /\ k \notin ttl /\ k \notin unsure
    BY <1>8 DEF Crash
  <2>2. PICK q \in Request : Setting(q, k)
    BY <1>0, <2>1
  <2>3. k \in unsure'
    BY <1>8, <2>2 DEF Crash, Setting, Running
  <2> QED
    BY <2>3
<1>9. CASE UNCHANGED vars
  BY <1>0, <1>9 DEF vars, locals, history, Setting
<1> QED
  BY <1>1, <1>2, <1>3, <1>4, <1>5, <1>6, <1>7, <1>8, <1>9 DEF Next, Step

\* No interleaving of the requests' INCR, EXPIRE and DEL, and no expiry in
\* between, leaves a counter without an expiry: it takes a reply given up.
THEOREM NoExpiryCorrect == Spec => []NoExpiryNeedsFault
<1>1. Init => NoExpiryNeedsFault
  BY DEF Init, NoExpiryNeedsFault
<1>2. TypeOK /\ NoExpiryNeedsFault /\ [Next]_vars => NoExpiryNeedsFault'
  BY NoExpiryStep
<1> QED
  BY <1>1, <1>2, TypeCorrect, PTL DEF Spec
-----------------------------------------------------------------------------
(* WithinLimit and CountsEachOnce. They rest on where a request stands:    *)
(* which windows it can be in, and whether its outcome is decided.         *)

Undecided ==
  \A r \in Request : pc[r] \in Running \cup {"idle"} => outcome[r] = "none"

FromAddr == \A r \in Request : pc[r] \in Running => from[r] \in Addr

\* A request that is being checked is counted by the path's counter and by the
\* one it is at, if at all.
Own ==
  \A r \in Request, k \in Counter :
    r \in window[k] => /\ pc[r] # "idle"
                       /\ pc[r] \in Running => k = All \/ k = at[r]

\* INCR is not run a second time without a reply that was given up.
Fresh ==
  \A r \in Request : pc[r] = "incr" /\ at[r] \notin unsure => r \notin window[at[r]]

Places == TypeOK /\ Undecided /\ FromAddr /\ Own /\ Fresh

\* What a step leaves of a request.
Same(r) ==
  /\ pc'[r] = pc[r] /\ at'[r] = at[r] /\ from'[r] = from[r]
  /\ exceeded'[r] = exceeded[r] /\ outcome'[r] = outcome[r]

LEMMA CheckedLocals ==
  ASSUME TypeOK, NEW r \in Request, NEW n \in Nat, Checked(r, n)
  PROVE  /\ \A q \in Request \ {r} : Same(q)
         /\ \/ /\ at[r] = All /\ pc'[r] = "incr" /\ at'[r] = from[r]
               /\ from'[r] = from[r] /\ outcome'[r] = outcome[r]
               /\ ~exceeded'[r] => ~exceeded[r] /\ ~(n >= Limit(at[r]))
            \/ /\ pc'[r] = "done"
               /\ outcome'[r] = "admitted" => ~exceeded[r] /\ ~(n >= Limit(at[r]))
<1>1. CASE at[r] = All /\ IPLimit > 0
  BY <1>1 DEF Checked, Goto, Same, TypeOK
<1>2. CASE ~(at[r] = All /\ IPLimit > 0)
  BY <1>2 DEF Checked, Finish, Same, TypeOK
<1> QED
  BY <1>1, <1>2

LEMMA NoReplyLocals ==
  ASSUME TypeOK, NEW r \in Request, NoReply(r)
  PROVE  /\ \A q \in Request \ {r} : Same(q)
         /\ unsure' = unsure \cup {at[r]}
         /\ \/ Same(r)
            \/ /\ pc'[r] = "del" /\ at'[r] = at[r] /\ from'[r] = from[r]
               /\ outcome'[r] = outcome[r]
            \/ pc'[r] = "done" /\ outcome'[r] = "error"
<1>1. CASE /\ r \notin gone /\ tries[r] < MaxRetries
           /\ tries' = [tries EXCEPT ![r] = @ + 1]
           /\ UNCHANGED <<pc, from, at, exceeded, gone, outcome>>
  BY <1>1 DEF NoReply, Same
<1>2. CASE Goto(r, "del", at[r], exceeded[r])
  BY <1>2 DEF NoReply, Goto, Same, TypeOK
<1>3. CASE Finish(r, "error")
  BY <1>3 DEF NoReply, Finish, Same, TypeOK
<1> QED
  BY <1>1, <1>2, <1>3 DEF NoReply

\* A command of r moves r, and nobody else.
LEMMA StepLocals ==
  ASSUME TypeOK, NEW r \in Request, Step(r)
  PROVE  /\ pc[r] \in Running
         /\ \A q \in Request \ {r} : Same(q)
         /\ \/ Same(r) /\ at[r] \in unsure'
            \/ /\ pc'[r] \in {"expire", "del"} /\ at'[r] = at[r]
               /\ from'[r] = from[r] /\ outcome'[r] = outcome[r]
            \/ /\ at[r] = All /\ pc'[r] = "incr" /\ at'[r] = from[r]
               /\ from'[r] = from[r] /\ outcome'[r] = outcome[r]
            \/ pc'[r] = "done"
<1>0. at[r] \in Counter /\ count[at[r]] + 1 \in Nat /\ 1 \in Nat
  BY DEF TypeOK
<1>1. pc[r] \in Running
  BY DEF Step, Incr, Expire, Del, CommandLost, Running
<1>2. CASE NoReply(r)
  BY <1>1, <1>2, NoReplyLocals
<1>3. CASE Goto(r, "expire", at[r], exceeded[r])
  BY <1>1, <1>3 DEF Goto, Same, TypeOK
<1>4. ASSUME NEW n \in Nat, Checked(r, n)
      PROVE  /\ \A q \in Request \ {r} : Same(q)
             /\ \/ /\ at[r] = All /\ pc'[r] = "incr" /\ at'[r] = from[r]
                   /\ from'[r] = from[r] /\ outcome'[r] = outcome[r]
                \/ pc'[r] = "done"
  BY <1>4, CheckedLocals
<1>5. CASE Finish(r, "error")
  BY <1>1, <1>5 DEF Finish, Same, TypeOK
<1> QED
  BY <1>0, <1>1, <1>2, <1>3, <1>4, <1>5 DEF Step, Incr, Expire, Del, CommandLost

\* What a command of r does to the windows.
LEMMA StepWindows ==
  ASSUME TypeOK, NEW r \in Request, Step(r)
  PROVE  /\ \A k \in Counter : window'[k] \ {r} = window[k] \ {r}
         /\ \A k \in Counter \ {at[r]} : window'[k] = window[k]
         /\ window[at[r]] \subseteq window'[at[r]]
         /\ ~Incr(r) => window' = window
         /\ unsure \subseteq unsure'
         /\ undone \subseteq undone'
<1>1. unsure \subseteq unsure' /\ undone \subseteq undone'
  BY NoReplyLocals DEF Step, Incr, Expire, Del, CommandLost
<1>2. CASE Incr(r)
  <2>1. window' = [window EXCEPT ![at[r]] = window[at[r]] \cup {r}]
    BY <1>2 DEF Incr
  <2> QED
    BY <1>1, <1>2, <2>1 DEF TypeOK
<1>3. CASE ~Incr(r)
  BY <1>1, <1>3 DEF Step, Expire, Del, CommandLost
<1> QED
  BY <1>2, <1>3

LEMMA PlacesStep == Places /\ [Next]_vars => Places'
<1> SUFFICES ASSUME Places, [Next]_vars
             PROVE  Places'
  OBVIOUS
<1>0. TypeOK /\ TypeOK'
  BY TypeStep DEF Places
<1>1. ASSUME NEW r \in Request, Step(r)
      PROVE  Undecided' /\ FromAddr' /\ Own' /\ Fresh'
  <2>1. Undecided'
    BY <1>0, <1>1, StepLocals DEF Places, Undecided, Same, Running
  <2>2. FromAddr'
    BY <1>0, <1>1, StepLocals DEF Places, FromAddr, Same, Running
  <2>3. Own'
    <3> SUFFICES ASSUME NEW q \in Request, NEW k \in Counter, q \in window'[k]
                 PROVE  pc'[q] # "idle" /\ (pc'[q] \in Running => k = All \/ k = at'[q])
      BY DEF Own
    <3>1. CASE q # r
      <4>1. q \in window[k] /\ Same(q)
        BY <1>0, <1>1, <3>1, StepLocals, StepWindows
      <4> QED
        BY <4>1 DEF Places, Own, Same
    <3>2. CASE q = r
      <4>1. k = All \/ k = at[r]
        BY <1>0, <1>1, <3>2, StepLocals, StepWindows DEF Places, Own
      <4> QED
        BY <1>0, <1>1, <3>2, <4>1, StepLocals DEF Same, Running
    <3> QED
      BY <3>1, <3>2
  <2>4. Fresh'
    <3> SUFFICES ASSUME NEW q \in Request, pc'[q] = "incr", at'[q] \notin unsure'
                 PROVE  q \notin window'[at'[q]]
      BY DEF Fresh
    <3>0. at'[q] \in Counter
      BY <1>0 DEF TypeOK
    <3>1. CASE q # r
      BY <1>0, <1>1, <3>0, <3>1, StepLocals, StepWindows DEF Places, Fresh, Same
    <3>2. CASE q = r
      <4>1. pc[r] \in Running /\ at[r] = All /\ at'[r] = from[r] /\ from[r] \in Addr
        BY <1>0, <1>1, <3>2, StepLocals DEF Same, Places, FromAddr
      <4>2. at'[r] # at[r] /\ at'[r] # All
        BY <4>1, LimitsAssumption
      <4>3. r \notin window[at'[r]]
        BY <3>0, <3>2, <4>1, <4>2 DEF Places, Own
      <4> QED
        BY <1>0, <1>1, <3>0, <3>2, <4>2, <4>3, StepWindows
    <3> QED
      BY <3>1, <3>2
  <2> QED
    BY <2>1, <2>2, <2>3, <2>4
<1>2. ASSUME NEW r \in Request, NEW a \in Addr, Arrive(r, a)
      PROVE  Undecided' /\ FromAddr' /\ Own' /\ Fresh'
  <2>1. /\ pc[r] = "idle" /\ window' = window /\ unsure' = unsure
        /\ \A q \in Request \ {r} : Same(q)
        /\ \/ pc'[r] = "done"
           \/ pc'[r] = "incr" /\ from'[r] = a /\ outcome'[r] = outcome[r]
    BY <1>0, <1>2 DEF Arrive, Finish, Same, TypeOK, history
  <2>2. \A k \in Counter : r \notin window[k]
    BY <2>1 DEF Places, Own
  <2>3. Undecided' /\ FromAddr'
    BY <2>1 DEF Places, Undecided, FromAddr, Same, Running
  <2>4. Own'
    BY <2>1, <2>2 DEF Places, Own, Same
  <2>5. Fresh'
    BY <1>0, <2>1, <2>2 DEF Places, Fresh, Same, TypeOK
  <2> QED
    BY <2>3, <2>4, <2>5
<1>3. ASSUME NEW r \in Request, Cancel(r)
      PROVE  Undecided' /\ FromAddr' /\ Own' /\ Fresh'
  BY <1>3 DEF Cancel, history, Places, Undecided, FromAddr, Own, Fresh
<1>4. ASSUME NEW k \in Counter, Elapse(k)
      PROVE  Undecided' /\ FromAddr' /\ Own' /\ Fresh'
  <2>1. UNCHANGED <<pc, from, at, outcome>>
    BY <1>4 DEF Elapse, locals
  <2>2. \A j \in Counter : window'[j] \subseteq window[j]
    BY <1>0, <1>4 DEF Elapse, TypeOK
  <2>3. window'[k] = {} /\ unsure' = unsure \ {k}
    BY <1>0, <1>4 DEF Elapse, TypeOK
  <2> QED
    BY <1>0, <2>1, <2>2, <2>3 DEF Places, Undecided, FromAddr, Own, Fresh, TypeOK
<1>5. CASE Crash
  <2>1. \A r \in Request :
          /\ pc'[r] \notin Running
          /\ pc'[r] = "idle" => pc[r] = "idle" /\ outcome'[r] = outcome[r]
    BY <1>0, <1>5 DEF Crash, Running, TypeOK
  <2>2. window' = window
    BY <1>5 DEF Crash
  <2> QED
    BY <1>0, <2>1, <2>2 DEF Places, Undecided, FromAddr, Own, Fresh, Running
<1>6. CASE UNCHANGED vars
  BY <1>0, <1>6 DEF vars, locals, history, Places, Undecided, FromAddr, Own, Fresh
<1> QED
  BY <1>0, <1>1, <1>2, <1>3, <1>4, <1>5, <1>6 DEF Next, Places

LEMMA PlacesInit == Init => Places
BY TypeInit, LimitsAssumption
   DEF Init, Places, Undecided, FromAddr, Own, Fresh, Running, Counter
-----------------------------------------------------------------------------
\* A window has as many requests as its counter has counted, or fewer, when a
\* request was counted twice.
Counts ==
  \A k \in Counter :
    /\ IsFiniteSet(window[k])
    /\ k \notin undone => Cardinality(window[k]) <= count[k]

EachOnce ==
  \A k \in Counter : k \notin unsure \cup undone => count[k] = Cardinality(window[k])

LEMMA CountsStep ==
  ASSUME Places, Counts, EachOnce, [Next]_vars
  PROVE  Counts' /\ EachOnce'
<1> SUFFICES ASSUME NEW k \in Counter
             PROVE  /\ IsFiniteSet(window'[k])
                    /\ k \notin undone' => Cardinality(window'[k]) <= count'[k]
                    /\ k \notin unsure' \cup undone' => count'[k] = Cardinality(window'[k])
  BY DEF Counts, EachOnce
<1> DEFINE Kept == /\ window'[k] = window[k] /\ count'[k] = count[k]
                   /\ k \in undone => k \in undone'
                   /\ k \in unsure => k \in unsure'
           Empty == window'[k] = {} /\ count'[k] = 0
<1>0. TypeOK /\ IsFiniteSet(window[k]) /\ Cardinality(window[k]) \in Nat /\ count[k] \in Nat
  BY FS_CardinalityType DEF Places, TypeOK, Counts
<1>1. ASSUME Kept
      PROVE  /\ IsFiniteSet(window'[k])
             /\ k \notin undone' => Cardinality(window'[k]) <= count'[k]
             /\ k \notin unsure' \cup undone' => count'[k] = Cardinality(window'[k])
  BY <1>1 DEF Counts, EachOnce
<1>2. ASSUME Empty
      PROVE  /\ IsFiniteSet(window'[k])
             /\ k \notin undone' => Cardinality(window'[k]) <= count'[k]
             /\ k \notin unsure' \cup undone' => count'[k] = Cardinality(window'[k])
  BY <1>2, FS_EmptySet
<1>3. ASSUME NEW r \in Request, Incr(r), at[r] = k
      PROVE  /\ IsFiniteSet(window'[k])
             /\ k \notin undone' => Cardinality(window'[k]) <= count'[k]
             /\ k \notin unsure' \cup undone' => count'[k] = Cardinality(window'[k])
  <2>1. window'[k] = window[k] \cup {r} /\ count'[k] = count[k] + 1 /\ undone' = undone
    BY <1>0, <1>3 DEF Incr, TypeOK
  <2>2. /\ IsFiniteSet(window'[k])
        /\ r \in window[k] => Cardinality(window'[k]) = Cardinality(window[k])
        /\ r \notin window[k] => Cardinality(window'[k]) = Cardinality(window[k]) + 1
    <3> DEFINE S == window[k]
    <3>1. IsFiniteSet(S) /\ window'[k] = S \cup {r}
      BY <1>0, <2>1
    <3> HIDE DEF S
    <3>2. /\ IsFiniteSet(S \cup {r})
          /\ r \in S => Cardinality(S \cup {r}) = Cardinality(S)
          /\ r \notin S => Cardinality(S \cup {r}) = Cardinality(S) + 1
      BY <3>1, FS_AddElement
    <3> QED
      BY <3>1, <3>2 DEF S
  <2>3. k \notin unsure' => k \notin unsure /\ r \notin window[k]
    BY <1>0, <1>3, StepWindows DEF Step, Incr, Places, Fresh
  <2> QED
    BY <1>0, <2>1, <2>2, <2>3 DEF Counts, EachOnce
<1>4. ASSUME NEW r \in Request, Step(r), ~(Incr(r) /\ at[r] = k), ~Del(r)
      PROVE  Kept
  <2>1. window'[k] = window[k] /\ unsure \subseteq unsure' /\ undone \subseteq undone'
    BY <1>0, <1>4, StepWindows
  <2>2. count'[k] = count[k]
    BY <1>0, <1>4 DEF Step, Incr, Expire, CommandLost, TypeOK
  <2> QED
    BY <2>1, <2>2
<1>5. ASSUME NEW r \in Request, Del(r)
      PROVE  Kept \/ (k \in undone' /\ window' = window)
  <2>1. window' = window /\ unsure \subseteq unsure' /\ undone' = undone \cup {at[r]}
    BY <1>0, <1>5, StepWindows DEF Step, Del
  <2>2. k # at[r] => count'[k] = count[k]
    BY <1>0, <1>5 DEF Del, TypeOK
  <2> QED
    BY <2>1, <2>2
<1>6. ASSUME NEW r \in Request, NEW a \in Addr, Arrive(r, a)
      PROVE  Kept
  BY <1>6 DEF Arrive, history
<1>7. ASSUME NEW r \in Request, Cancel(r)
      PROVE  Kept
  BY <1>7 DEF Cancel, history
<1>8. ASSUME NEW j \in Counter, Elapse(j)
      PROVE  Kept \/ Empty
  BY <1>0, <1>8 DEF Elapse, TypeOK
<1>9. CASE Crash
  BY <1>1, <1>9 DEF Crash
<1>10. CASE UNCHANGED vars
  BY <1>1, <1>10 DEF vars, history
<1>11. k \in undone' /\ window' = window =>
             /\ IsFiniteSet(window'[k])
             /\ k \notin undone' => Cardinality(window'[k]) <= count'[k]
             /\ k \notin unsure' \cup undone' => count'[k] = Cardinality(window'[k])
  BY <1>0
<1> HIDE DEF Kept, Empty
<1> QED
  BY <1>1, <1>2, <1>3, <1>4, <1>5, <1>6, <1>7, <1>8, <1>9, <1>10, <1>11 DEF Next

LEMMA CountsInit == Init => Counts /\ EachOnce
BY FS_EmptySet DEF Init, Counts, EachOnce

\* The INCRs that can have counted in the window of k: as many of each of its
\* requests as it has made, or all it could have made when it has gone on.
Ran(k) ==
  {x \in window[k] \X (0..MaxRetries) :
     pc[x[1]] = "incr" /\ at[x[1]] = k => x[2] < tries[x[1]]}

CountedRan ==
  \A k \in Counter : IsFiniteSet(Ran(k)) /\ count[k] <= Cardinality(Ran(k))

LEMMA RanFinite ==
  ASSUME NEW W, IsFiniteSet(W), NEW R \in SUBSET (W \X (0..MaxRetries))
  PROVE  /\ IsFiniteSet(R)
         /\ Cardinality(R) <= (MaxRetries + 1) * Cardinality(W)
<1> DEFINE I == 0..MaxRetries
<1>1. MaxRetries \in Nat
  BY LimitsAssumption
<1>2. IsFiniteSet(I) /\ Cardinality(I) = MaxRetries + 1
  BY <1>1, FS_Interval
<1>3. R \subseteq W \X I
  OBVIOUS
<1> HIDE DEF I
<1>4. IsFiniteSet(W \X I) /\ Cardinality(W \X I) = Cardinality(W) * Cardinality(I)
  BY <1>2, FS_Product
<1>5. IsFiniteSet(R) /\ Cardinality(R) <= Cardinality(W \X I)
  BY <1>3, <1>4, FS_Subset
<1>6. Cardinality(W) \in Nat
  BY FS_CardinalityType
<1>7. Cardinality(W) * (MaxRetries + 1) = (MaxRetries + 1) * Cardinality(W)
  BY <1>1, <1>6
<1> QED
  BY <1>2, <1>4, <1>5, <1>7

\* An INCR adds itself to those that ran; nothing else takes one away, until
\* the counter expires.
LEMMA RanIncr ==
  ASSUME Places, NEW r \in Request, NEW k \in Counter, Incr(r), at[r] = k
  PROVE  Ran(k) \cup {<<r, tries[r]>>} \subseteq Ran(k)' /\ <<r, tries[r]>> \notin Ran(k)
<1>0. TypeOK /\ tries[r] \in 0..MaxRetries /\ pc[r] = "incr" /\ Step(r)
  BY DEF Places, TypeOK, Incr, Step
<1>1. window'[k] = window[k] \cup {r}
  BY <1>0 DEF Incr, TypeOK
<1>2. \A q \in Request \ {r} : pc'[q] = pc[q] /\ at'[q] = at[q] /\ tries'[q] = tries[q]
  BY <1>0 DEF Incr, TypeOK, NoReply, Checked, Goto, Finish
<1>3. pc'[r] = "incr" /\ at'[r] = k => tries'[r] = tries[r] + 1
  <2>1. ASSUME NEW n \in Nat, Checked(r, n), pc'[r] = "incr"
        PROVE  at'[r] # k
    <3>1. at[r] = All /\ at'[r] = from[r]
      BY <1>0, <2>1, CheckedLocals
    <3> QED
      BY <1>0, <3>1, LimitsAssumption DEF Places, FromAddr, Running
  <2>2. CASE Goto(r, "expire", at[r], exceeded[r])
    BY <1>0, <2>2 DEF Goto, TypeOK
  <2>3. CASE NoReply(r)
    BY <1>0, <2>3 DEF NoReply, Goto, Finish, TypeOK
  <2> QED
    BY <1>0, <2>1, <2>2, <2>3 DEF Incr, TypeOK
<1>4. \A q \in window[k] : q \in Request /\ tries[q] \in Nat
  BY <1>0 DEF TypeOK
<1>5. ASSUME NEW q \in window[k], NEW i \in 0..MaxRetries,
             pc[q] = "incr" /\ at[q] = k => i < tries[q],
             pc'[q] = "incr", at'[q] = k
      PROVE  i < tries'[q]
  <2>1. CASE q = r
    BY <1>0, <1>3, <1>5, <2>1
  <2>2. CASE q # r
    BY <1>2, <1>4, <1>5, <2>2
  <2> QED
    BY <2>1, <2>2
<1>6. Ran(k) \subseteq Ran(k)'
  BY <1>1, <1>5 DEF Ran
<1>7. <<r, tries[r]>> \in Ran(k)'
  BY <1>0, <1>1, <1>3 DEF Ran
<1>8. <<r, tries[r]>> \notin Ran(k)
  BY <1>0 DEF Ran
<1> QED
  BY <1>6, <1>7, <1>8

LEMMA RanKept ==
  ASSUME Places, Places', NEW k \in Counter, [Next]_vars, window'[k] = window[k],
         \A r \in Request : Incr(r) => at[r] # k
  PROVE  Ran(k) \subseteq Ran(k)'
<1>0. TypeOK /\ TypeOK' /\ \A q \in window[k] : q \in Request
  BY DEF Places, TypeOK
<1>a. ASSUME \A q \in window[k] : pc'[q] = "incr" /\ at'[q] = k =>
                pc[q] = "incr" /\ at[q] = k /\ tries[q] <= tries'[q]
      PROVE  Ran(k) \subseteq Ran(k)'
  <2>1. \A q \in window[k] : tries[q] \in Nat /\ tries'[q] \in Nat
    BY <1>0 DEF TypeOK
  <2>2. \A q \in window[k], i \in 0..MaxRetries :
           (pc[q] = "incr" /\ at[q] = k => i < tries[q]) =>
           (pc'[q] = "incr" /\ at'[q] = k => i < tries'[q])
    BY <1>a, <2>1
  <2> QED
    BY <2>2 DEF Ran
<1> SUFFICES ASSUME NEW q \in window[k], pc'[q] = "incr", at'[q] = k
             PROVE  pc[q] = "incr" /\ at[q] = k /\ tries[q] <= tries'[q]
  BY <1>a
<1>1. ASSUME NEW r \in Request, Step(r)
      PROVE  pc[q] = "incr" /\ at[q] = k /\ tries[q] <= tries'[q]
  <2>1. CASE q # r
    BY <1>0, <1>1, <2>1 DEF Step, Incr, Expire, Del, CommandLost, NoReply, Checked, Goto,
       Finish, TypeOK
  <2>2. CASE q = r
    <3>1. Same(r) \/ (at[r] = All /\ at'[r] = from[r] /\ pc[r] \in Running)
      BY <1>0, <1>1, <2>2, StepLocals
    <3>2. CASE ~Same(r)
      BY <1>0, <2>2, <3>1, <3>2, LimitsAssumption DEF Places, FromAddr, Own
    <3>3. CASE Same(r)
      <4>1. pc[r] = "incr" /\ at[r] = k
        BY <2>2, <3>3 DEF Same
      <4>2. NoReply(r)
        BY <1>1, <2>2, <4>1 DEF Step, Incr, Expire, Del, CommandLost
      <4> QED
        BY <1>0, <2>2, <4>1, <4>2 DEF NoReply, Goto, Finish, TypeOK
    <3> QED
      BY <3>2, <3>3
  <2> QED
    BY <2>1, <2>2
<1>2. ASSUME NEW r \in Request, NEW a \in Addr, Arrive(r, a)
      PROVE  pc[q] = "incr" /\ at[q] = k /\ tries[q] <= tries'[q]
  <2>1. q # r
    BY <1>2 DEF Arrive, Places, Own
  <2> QED
    BY <1>0, <1>2, <2>1 DEF Arrive, Finish, TypeOK
<1>3. ASSUME NEW r \in Request, Cancel(r)
      PROVE  pc[q] = "incr" /\ at[q] = k /\ tries[q] <= tries'[q]
  BY <1>0, <1>3 DEF Cancel, TypeOK
<1>4. ASSUME NEW j \in Counter, Elapse(j)
      PROVE  pc[q] = "incr" /\ at[q] = k /\ tries[q] <= tries'[q]
  BY <1>0, <1>4 DEF Elapse, locals, TypeOK
<1>5. ~Crash
  BY <1>0 DEF Crash, Running
<1>6. CASE UNCHANGED vars
  BY <1>0, <1>6 DEF vars, locals, TypeOK
<1> QED
  BY <1>1, <1>2, <1>3, <1>4, <1>5, <1>6 DEF Next

LEMMA CountedRanStep ==
  ASSUME Places, Counts, CountedRan, [Next]_vars, Places', Counts'
  PROVE  CountedRan'
<1> SUFFICES ASSUME NEW k \in Counter
             PROVE  IsFiniteSet(Ran(k)') /\ count'[k] <= Cardinality(Ran(k)')
  BY DEF CountedRan
<1>0. /\ TypeOK /\ TypeOK' /\ count[k] \in Nat
      /\ IsFiniteSet(Ran(k)) /\ count[k] <= Cardinality(Ran(k)) /\ Cardinality(Ran(k)) \in Nat
  BY FS_CardinalityType DEF Places, TypeOK, CountedRan
<1>1. IsFiniteSet(Ran(k)') /\ Cardinality(Ran(k)') \in Nat
  <2>1. IsFiniteSet(window'[k]) /\ Ran(k)' \in SUBSET (window'[k] \X (0..MaxRetries))
    BY DEF Counts, Ran
  <2>2. IsFiniteSet(Ran(k)')
    BY <2>1, RanFinite
  <2> QED
    BY <2>2, FS_CardinalityType
<1>2. ASSUME NEW r \in Request, Incr(r), at[r] = k
      PROVE  count'[k] <= Cardinality(Ran(k)')
  <2> DEFINE S == Ran(k)
             x == <<r, tries[r]>>
             T == Ran(k)'
  <2>1. S \cup {x} \subseteq T /\ x \notin S /\ IsFiniteSet(S) /\ IsFiniteSet(T)
    BY <1>0, <1>1, <1>2, RanIncr
  <2>2. count'[k] = count[k] + 1
    BY <1>0, <1>2 DEF Incr, TypeOK
  <2> HIDE DEF S, x, T
  <2>3. IsFiniteSet(S \cup {x}) /\ Cardinality(S \cup {x}) = Cardinality(S) + 1
    BY <2>1, FS_AddElement
  <2>4. Cardinality(S \cup {x}) <= Cardinality(T)
    BY <2>1, FS_Subset
  <2>5. count[k] <= Cardinality(S) /\ Cardinality(S) \in Nat /\ Cardinality(T) \in Nat
    BY <1>0, <1>1 DEF S, T
  <2> QED
    BY <1>0, <2>2, <2>3, <2>4, <2>5 DEF T
<1>3. CASE count'[k] = 0
  BY <1>1, <1>3
<1>4. CASE /\ \A r \in Request : Incr(r) => at[r] # k
           /\ count'[k] # 0
  <2>1. window'[k] = window[k] /\ count'[k] = count[k]
    <3>1. ASSUME NEW r \in Request, Step(r)
          PROVE  window'[k] = window[k] /\ count'[k] = count[k]
      <4>1. window'[k] = window[k]
        BY <1>0, <1>4, <3>1, StepWindows
      <4>2. count'[k] = count[k]
        BY <1>0, <1>4, <3>1 DEF Step, Incr, Expire, Del, CommandLost, TypeOK
      <4> QED
        BY <4>1, <4>2
    <3>2. ASSUME NEW j \in Counter, Elapse(j)
          PROVE  window'[k] = window[k] /\ count'[k] = count[k]
      BY <1>0, <1>4, <3>2 DEF Elapse, TypeOK
    <3> QED
      BY <3>1, <3>2 DEF Next, Arrive, Cancel, Crash, vars, history
  <2>2. Ran(k) \subseteq Ran(k)'
    BY <1>4, <2>1, RanKept
  <2>3. Cardinality(Ran(k)) <= Cardinality(Ran(k)')
    BY <1>1, <2>2, FS_Subset
  <2> QED
    BY <1>0, <1>1, <2>1, <2>3
<1> QED
  BY <1>1, <1>2, <1>3, <1>4

LEMMA CountedRanInit == Init => CountedRan
<1> SUFFICES ASSUME Init, NEW k \in Counter
             PROVE  IsFiniteSet(Ran(k)) /\ count[k] <= Cardinality(Ran(k))
  BY DEF CountedRan
<1>1. Ran(k) = {} /\ count[k] = 0
  BY DEF Init, Ran
<1> QED
  BY <1>1, FS_EmptySet

LEMMA CountsAlways == Spec => [](Places /\ Counts /\ EachOnce /\ CountedRan)
<1>1. Init => Places /\ Counts /\ EachOnce /\ CountedRan
  BY PlacesInit, CountsInit, CountedRanInit
<1>2. Places /\ Counts /\ EachOnce /\ CountedRan /\ [Next]_vars
        => (Places /\ Counts /\ EachOnce /\ CountedRan)'
  BY PlacesStep, CountsStep, CountedRanStep
<1> QED
  BY <1>1, <1>2, PTL DEF Spec

\* A counter without a fault counts every request of its window once, and one
\* with lost replies at most MaxRetries + 1 times.
THEOREM CountsEachOnceCorrect == Spec => []CountsEachOnce
<1>1. Places /\ Counts /\ EachOnce /\ CountedRan => CountsEachOnce
  <2> SUFFICES ASSUME Places, Counts, EachOnce, CountedRan, NEW k \in Counter
               PROVE  /\ k \notin unsure \cup undone => count[k] = Cardinality(window[k])
                      /\ count[k] <= (MaxRetries + 1) * Cardinality(window[k])
    BY DEF CountsEachOnce
  <2>1. TypeOK /\ IsFiniteSet(window[k]) /\ count[k] <= Cardinality(Ran(k)) /\ count[k] \in Nat
    BY DEF Places, TypeOK, Counts, CountedRan
  <2>2. IsFiniteSet(Ran(k)) /\ Cardinality(Ran(k)) <= (MaxRetries + 1) * Cardinality(window[k])
    <3>1. Ran(k) \in SUBSET (window[k] \X (0..MaxRetries))
      BY DEF Ran
    <3> QED
      BY <2>1, <3>1, RanFinite
  <2>3. Cardinality(Ran(k)) \in Nat /\ Cardinality(window[k]) \in Nat
    BY <2>1, <2>2, FS_CardinalityType
  <2>4. (MaxRetries + 1) * Cardinality(window[k]) \in Nat
    BY <2>3, LimitsAssumption
  <2> QED
    BY <2>1, <2>2, <2>3, <2>4 DEF EachOnce
<1> QED
  BY <1>1, CountsAlways, PTL
-----------------------------------------------------------------------------
(* WithinLimit. A request that will be admitted, or was, has passed every  *)
(* check it has behind it; fewer requests than the limit pass a counter.   *)

\* r is in the window of k and was told that k's limit is not reached, or is
\* about to be told so once the expiry is set.
Passed(r, k) ==
  /\ r \in window[k]
  /\ \/ outcome[r] = "admitted"
     \/ pc[r] \in Running /\ ~exceeded[r] /\ k = All /\ at[r] # All
     \/ pc[r] = "expire" /\ at[r] = k /\ ~exceeded[r] /\ Limit(k) > 1

Passing(k) == {r \in Request : Passed(r, k)}

PassedBound ==
  \A k \in Counter :
    Limit(k) > 0 /\ k \notin undone => Cardinality(Passing(k)) < Limit(k)

LEMMA SamePassed ==
  ASSUME TypeOK, NEW q \in Request, NEW k \in Counter, Same(q),
         q \in window'[k] => q \in window[k], Passed(q, k)'
  PROVE  Passed(q, k)
BY DEF Same, Passed, Limit

\* A request joins those that have passed k by its INCR of k, which has not
\* counted up to the limit.
LEMMA JoinByIncr ==
  ASSUME Places, NEW r \in Request, Step(r), NEW k \in Counter,
         Passed(r, k)', ~Passed(r, k), Limit(k) \in Nat
  PROVE  Incr(r) /\ at[r] = k /\ count'[k] < Limit(k)
<1>0. /\ TypeOK /\ TypeOK' /\ pc[r] \in Running /\ outcome[r] = "none"
      /\ at[r] \in Counter /\ count[at[r]] \in Nat /\ at'[r] \in Counter
  BY TypeStep, StepLocals DEF Places, Undecided, TypeOK, Next
<1>1. r \in window[k] => k = All \/ k = at[r]
  BY <1>0 DEF Places, Own
<1>2. ~NoReply(r)
  <2> SUFFICES ASSUME NoReply(r) PROVE FALSE
    OBVIOUS
  <2>1. CASE Same(r)
    <3>1. at[r] \in unsure' /\ ~(r \in window[k])
      BY <1>0, <2>1, NoReplyLocals, SamePassed
    <3>2. k = at[r] /\ Incr(r)
      BY <1>0, <3>1, StepWindows DEF Passed
    <3> QED
      BY <1>0, <2>1, <3>2 DEF Passed, Same, Incr
  <2>2. CASE /\ pc'[r] = "del" /\ at'[r] = at[r] /\ from'[r] = from[r]
             /\ outcome'[r] = outcome[r] /\ ~Same(r)
    <3>1. Goto(r, "del", at[r], exceeded[r]) /\ pc[r] = "expire"
      BY <1>0, <2>2 DEF NoReply, Finish, Same, TypeOK, Running
    <3>2. ~Incr(r) /\ exceeded'[r] = exceeded[r]
      BY <1>0, <3>1 DEF Goto, TypeOK, Incr
    <3>3. window' = window
      BY <1>0, <3>2, StepWindows
    <3> QED
      BY <1>0, <2>2, <3>2, <3>3 DEF Passed, Running
  <2>3. CASE pc'[r] = "done" /\ outcome'[r] = "error"
    BY <2>3 DEF Passed, Running
  <2> QED
    BY <1>0, <2>1, <2>2, <2>3, NoReplyLocals
<1>3. ASSUME NEW n \in Nat, Checked(r, n)
      PROVE  ~exceeded[r] /\ ~(n >= Limit(at[r])) /\ (at[r] # All \/ k = All)
  <2>1. CASE pc'[r] = "done"
    <3>1. outcome'[r] = "admitted"
      BY <2>1 DEF Passed, Running
    <3>2. ~exceeded[r] /\ ~(n >= Limit(at[r]))
      BY <1>0, <1>3, <2>1, <3>1, CheckedLocals
    <3>3. at[r] # All \/ k = All
      BY <1>0, <1>1, StepWindows DEF Passed
    <3> QED
      BY <3>2, <3>3
  <2>2. CASE pc'[r] # "done"
    <3>1. /\ at[r] = All /\ pc'[r] = "incr" /\ outcome'[r] = "none"
          /\ ~exceeded'[r] => ~exceeded[r] /\ ~(n >= Limit(at[r]))
      BY <1>0, <1>3, <2>2, CheckedLocals
    <3> QED
      BY <3>1 DEF Passed, Running
  <2> QED
    BY <2>1, <2>2
<1>4. CASE Expire(r)
  <2>1. Checked(r, 1) /\ pc[r] = "expire" /\ window' = window
    BY <1>2, <1>4 DEF Expire
  <2>2. ~exceeded[r] /\ ~(1 >= Limit(at[r])) /\ (at[r] # All \/ k = All)
    BY <1>3, <2>1
  <2>3. r \in window[k]
    BY <2>1 DEF Passed
  <2>4. Limit(at[r]) > 1
    BY <2>2, LimitsAssumption DEF Limit
  <2> QED
    BY <1>0, <1>1, <2>1, <2>2, <2>3, <2>4 DEF Passed, Running
<1>5. CASE Incr(r)
  <2>1. pc[r] = "incr" /\ count'[at[r]] = count[at[r]] + 1
    BY <1>0, <1>5 DEF Incr, TypeOK
  <2>2. CASE Goto(r, "expire", at[r], exceeded[r]) /\ count[at[r]] = 0
    <3>1. /\ pc'[r] = "expire" /\ at'[r] = at[r] /\ exceeded'[r] = exceeded[r]
          /\ outcome'[r] = "none"
      BY <1>0, <2>2 DEF Goto, TypeOK
    <3>2. CASE at[r] = k
      <4>1. Limit(k) > 1
        BY <3>1, <3>2 DEF Passed, Limit
      <4> QED
        BY <1>5, <2>1, <2>2, <3>2, <4>1
    <3>3. CASE at[r] # k
      <4>1. r \in window[k]
        BY <1>0, <3>3, StepWindows DEF Passed
      <4> QED
        BY <1>0, <3>1, <3>3, <4>1 DEF Passed, Running
    <3> QED
      BY <3>2, <3>3
  <2>3. CASE Checked(r, count[at[r]] + 1)
    <3>1. ~exceeded[r] /\ ~(count[at[r]] + 1 >= Limit(at[r])) /\ (at[r] # All \/ k = All)
      BY <1>0, <1>3, <2>3
    <3>2. CASE at[r] = k
      BY <1>0, <1>5, <2>1, <3>1, <3>2
    <3>3. CASE at[r] # k
      <4>1. r \in window[k]
        BY <1>0, <3>3, StepWindows DEF Passed
      <4> QED
        BY <1>0, <1>1, <3>1, <3>3, <4>1 DEF Passed
    <3> QED
      BY <3>2, <3>3
  <2> QED
    BY <1>2, <1>5, <2>2, <2>3 DEF Incr
<1>6. CASE Del(r)
  BY <1>0, <1>2, <1>6 DEF Del, Finish, Passed, Running, TypeOK
<1>7. CASE CommandLost(r)
  BY <1>2, <1>7 DEF CommandLost
<1> QED
  BY <1>4, <1>5, <1>6, <1>7 DEF Step

LEMMA PassedStep ==
  ASSUME Places, Counts, Counts', PassedBound, [Next]_vars
  PROVE  PassedBound'
<1> SUFFICES ASSUME NEW k \in Counter, Limit(k) > 0, k \notin undone'
             PROVE  Cardinality(Passing(k)') < Limit(k)
  BY DEF PassedBound, Limit
<1>0. /\ TypeOK /\ TypeOK' /\ Limit(k) \in Nat
      /\ IsFiniteSet(window[k]) /\ IsFiniteSet(window'[k])
  BY TypeStep, LimitsAssumption DEF Places, Counts, Limit
<1>1. /\ Passing(k) \subseteq window[k] /\ IsFiniteSet(Passing(k))
      /\ Passing(k)' \subseteq window'[k] /\ IsFiniteSet(Passing(k)')
      /\ Cardinality(Passing(k)) \in Nat /\ Cardinality(Passing(k)') \in Nat
      /\ Cardinality(Passing(k)') <= Cardinality(window'[k])
      /\ Cardinality(window'[k]) \in Nat
  <2>1. Passing(k) \subseteq window[k] /\ Passing(k)' \subseteq window'[k]
    BY DEF Passing, Passed
  <2> QED
    BY <1>0, <2>1, FS_Subset, FS_CardinalityType
<1>2. ASSUME Passing(k)' \subseteq Passing(k), k \notin undone
      PROVE  Cardinality(Passing(k)') < Limit(k)
  <2>1. Cardinality(Passing(k)') <= Cardinality(Passing(k))
    BY <1>1, <1>2, FS_Subset
  <2>2. Cardinality(Passing(k)) < Limit(k)
    BY <1>2 DEF PassedBound
  <2> QED
    BY <1>0, <1>1, <2>1, <2>2
<1>3. ASSUME count'[k] < Limit(k)
      PROVE  Cardinality(Passing(k)') < Limit(k)
  <2>1. Cardinality(window'[k]) <= count'[k] /\ count'[k] \in Nat
    BY <1>0 DEF Counts, TypeOK
  <2> QED
    BY <1>0, <1>1, <1>3, <2>1
<1>4. ASSUME NEW r \in Request, Step(r)
      PROVE  Cardinality(Passing(k)') < Limit(k)
  <2>1. k \notin undone
    BY <1>0, <1>4, StepWindows
  <2>2. CASE Passed(r, k)' /\ ~Passed(r, k)
    BY <1>0, <1>3, <1>4, <2>2, JoinByIncr
  <2>3. CASE ~(Passed(r, k)' /\ ~Passed(r, k))
    <3>1. ASSUME NEW q \in Request, q # r, Passed(q, k)'
          PROVE  Passed(q, k)
      <4>1. Same(q) /\ (q \in window'[k] => q \in window[k])
        BY <1>0, <1>4, <3>1, StepLocals, StepWindows
      <4> QED
        BY <1>0, <3>1, <4>1, SamePassed
    <3>2. Passing(k)' \subseteq Passing(k)
      BY <2>3, <3>1 DEF Passing
    <3> QED
      BY <1>2, <2>1, <3>2
  <2> QED
    BY <2>2, <2>3
<1>5. ASSUME NEW r \in Request, NEW a \in Addr, Arrive(r, a)
      PROVE  Cardinality(Passing(k)') < Limit(k)
  <2>1. /\ pc[r] = "idle" /\ window' = window /\ undone' = undone
        /\ \A q \in Request \ {r} : Same(q)
    BY <1>0, <1>5 DEF Arrive, Finish, Same, TypeOK, history
  <2>2. r \notin window[k]
    BY <2>1 DEF Places, Own
  <2>3. ASSUME NEW q \in Request, Passed(q, k)'
        PROVE  Passed(q, k)
    <3>1. q # r
      BY <2>1, <2>2, <2>3 DEF Passed
    <3> QED
      BY <1>0, <2>1, <2>3, <3>1, SamePassed
  <2> QED
    BY <1>2, <2>1, <2>3 DEF Passing
<1>6. ASSUME NEW r \in Request, Cancel(r)
      PROVE  Cardinality(Passing(k)') < Limit(k)
  <2>1. window' = window /\ undone' = undone /\ \A q \in Request : Same(q)
    BY <1>6 DEF Cancel, history, Same
  <2>2. Passing(k)' \subseteq Passing(k)
    BY <1>0, <2>1, SamePassed DEF Passing
  <2> QED
    BY <1>2, <2>1, <2>2
<1>7. ASSUME NEW j \in Counter, Elapse(j)
      PROVE  Cardinality(Passing(k)') < Limit(k)
  <2>1. \A q \in Request : Same(q)
    BY <1>7 DEF Elapse, locals, Same
  <2>2. CASE j = k
    <3>1. count'[k] = 0
      BY <1>0, <1>7, <2>2 DEF Elapse, TypeOK
    <3> QED
      BY <1>0, <1>3, <3>1
  <2>3. CASE j # k
    <3>1. window'[k] = window[k] /\ k \notin undone
      BY <1>0, <1>7, <2>3 DEF Elapse, TypeOK
    <3>2. Passing(k)' \subseteq Passing(k)
      BY <1>0, <2>1, <3>1, SamePassed DEF Passing
    <3> QED
      BY <1>2, <3>1, <3>2
  <2> QED
    BY <2>2, <2>3
<1>8. CASE Crash
  <2>1. window' = window /\ undone' = undone
    BY <1>8 DEF Crash
  <2>2. ASSUME NEW q \in Request, Passed(q, k)'
        PROVE  Passed(q, k)
    <3>1. pc'[q] \notin Running /\ (outcome'[q] = "admitted" => outcome[q] = "admitted")
      BY <1>0, <1>8 DEF Crash, Running, TypeOK
    <3> QED
      BY <2>1, <2>2, <3>1 DEF Passed, Running
  <2> QED
    BY <1>2, <2>1, <2>2 DEF Passing
<1>9. CASE UNCHANGED vars
  <2>1. window' = window /\ undone' = undone /\ \A q \in Request : Same(q)
    BY <1>9 DEF vars, locals, history, Same
  <2>2. Passing(k)' \subseteq Passing(k)
    BY <1>0, <2>1, SamePassed DEF Passing
  <2> QED
    BY <1>2, <2>1, <2>2
<1> QED
  BY <1>4, <1>5, <1>6, <1>7, <1>8, <1>9 DEF Next

LEMMA PassedInit == Init => PassedBound
<1> SUFFICES ASSUME Init, NEW k \in Counter, Limit(k) > 0
             PROVE  Cardinality(Passing(k)) < Limit(k)
  BY DEF PassedBound
<1>1. Passing(k) = {}
  BY DEF Init, Passing, Passed
<1> QED
  BY <1>1, FS_EmptySet

LEMMA PassedWithinLimit ==
  ASSUME Places, Counts, PassedBound
  PROVE  WithinLimit
<1> SUFFICES ASSUME NEW k \in Counter, Limit(k) > 0, k \notin undone
             PROVE  Cardinality(Admitted(k)) < Limit(k)
  BY DEF WithinLimit
<1>0. Limit(k) \in Nat /\ window[k] \subseteq Request /\ IsFiniteSet(window[k])
  BY LimitsAssumption DEF Limit, Counts, Places, TypeOK
<1>1. Passing(k) \subseteq window[k] /\ Admitted(k) \subseteq Passing(k)
  BY <1>0 DEF Passing, Passed, Admitted
<1>2. IsFiniteSet(Passing(k))
  BY <1>0, <1>1, FS_Subset
<1>3. /\ Cardinality(Admitted(k)) <= Cardinality(Passing(k))
      /\ Cardinality(Admitted(k)) \in Nat /\ Cardinality(Passing(k)) \in Nat
  BY <1>1, <1>2, FS_Subset, FS_CardinalityType
<1>4. Cardinality(Passing(k)) < Limit(k)
  BY DEF PassedBound
<1> QED
  BY <1>0, <1>3, <1>4

\* Fewer requests than a counter's limit are admitted in one window, however
\* their commands interleave, are repeated or fail, unless the counter was
\* removed by checkLimit's DEL.
THEOREM WithinLimitCorrect == Spec => []WithinLimit
<1>1. Init => Places /\ Counts /\ EachOnce /\ PassedBound
  BY PlacesInit, CountsInit, PassedInit
<1>2. Places /\ Counts /\ EachOnce /\ PassedBound /\ [Next]_vars
        => Places' /\ Counts' /\ EachOnce' /\ PassedBound'
  BY PlacesStep, CountsStep, PassedStep
<1>3. Places /\ Counts /\ PassedBound => WithinLimit
  BY PassedWithinLimit
<1> QED
  BY <1>1, <1>2, <1>3, PTL DEF Spec
=============================================================================
