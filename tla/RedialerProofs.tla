--------------------------- MODULE RedialerProofs ---------------------------
(***************************************************************************)
(* Proofs about Redialer, for any number of calls, attempts and            *)
(* connections: its types, that a call is executed once at most, and that  *)
(* Redialer.Call keeps what RemoteCall promises.                           *)
(***************************************************************************)
EXTENDS Redialer, TLAPS

Inv == TypeOK /\ SentOnce

LEMMA DialTypes ==
  ASSUME TypeOK, Dial
  PROVE  /\ conns' \in Seq({"open", "shutdown"}) /\ Len(conns') = Len(conns) + 1
         /\ ends' \in Seq({"queued", "served", "gone"}) /\ Len(ends') = Len(ends) + 1
         /\ Len(conns') <= MaxConns
         /\ DOMAIN conns \subseteq DOMAIN conns'
         /\ Dialed \in DOMAIN conns'
  BY RedialerAssumption DEF TypeOK, Dial, Dialed

LEMMA InitInv == Init => Inv
  BY RedialerAssumption DEF Init, Inv, TypeOK, SentOnce, Request, Returned

LEMMA TypeDialFirst == TypeOK /\ DialFirst => TypeOK'
  <1> SUFFICES ASSUME TypeOK, DialFirst PROVE TypeOK'
    OBVIOUS
  <1>1. CASE Dial /\ cl' = Dialed /\ new' = "ready"
    BY <1>1, DialTypes DEF TypeOK, DialFirst
  <1>2. CASE DialFails /\ cl' = cl /\ new' = "failed"
    BY <1>2 DEF TypeOK, DialFirst, DialFails
  <1> QED BY <1>1, <1>2 DEF DialFirst

LEMMA TypeRedial ==
  ASSUME TypeOK, NEW c \in Calls, Redial(c) PROVE TypeOK'
  <1>1. CASE Dial /\ Goto(c, "assign") /\ on' = [on EXCEPT ![c] = Dialed]
    BY <1>1, DialTypes DEF TypeOK, Redial, Goto, Returned
  <1>2. CASE DialFails /\ Goto(c, "assign") /\ on' = [on EXCEPT ![c] = 0]
    BY <1>2 DEF TypeOK, Redial, DialFails, Goto, Returned
  <1> QED BY <1>1, <1>2 DEF Redial

LEMMA TypeBegin == ASSUME TypeOK, NEW c \in Calls, Begin(c) PROVE TypeOK'
  BY DEF TypeOK, Begin, Goto, Returned

LEMMA TypeSelect == ASSUME TypeOK, NEW c \in Calls, Select(c) PROVE TypeOK'
  <1>1. attempts' \in [Calls -> 0..Repeats]
    BY RedialerAssumption DEF TypeOK, Select
  <1>2. pc' \in [Calls -> {"idle", "select", "call", "pending", "redial", "assign", "panic"} \cup Returned]
    BY DEF TypeOK, Select, Goto, Returned
  <1> QED BY <1>1, <1>2 DEF TypeOK, Select

LEMMA TypeCall == ASSUME TypeOK, SentOnce, NEW c \in Calls, Call(c) PROVE TypeOK'
  <1>1. CASE cl = 0
    BY <1>1 DEF TypeOK, Call, Goto, Returned
  <1>2. CASE cl # 0 /\ conns[cl] = "shutdown"
    BY <1>2 DEF TypeOK, Call, Goto, Returned
  <1>3. CASE cl # 0 /\ conns[cl] # "shutdown"
    <2>1. pc[c] = "call" /\ Goto(c, "pending") /\ on' = [on EXCEPT ![c] = cl]
          /\ sent' = sent \cup {<<c, attempts[c]>>}
          /\ UNCHANGED <<plugin, new, cl, conns, ends, attempts, expired, executed>>
      BY <1>3 DEF Call
    <2>2. <<c, attempts[c]>> \in Request
      BY <2>1, RedialerAssumption DEF TypeOK, SentOnce, Request
    <2> QED BY <2>1, <2>2 DEF TypeOK, Goto, Returned
  <1> QED BY <1>1, <1>2, <1>3

LEMMA TypeAssign == ASSUME TypeOK, NEW c \in Calls, Assign(c) PROVE TypeOK'
  BY DEF TypeOK, Assign, Goto, Returned

LEMMA TypeExecute == ASSUME TypeOK, NEW r \in sent, Execute(r) PROVE TypeOK'
  BY DEF TypeOK, Execute, Request

LEMMA TypeAnswer == ASSUME TypeOK, NEW c \in Calls, Answer(c) PROVE TypeOK'
  BY DEF TypeOK, Answer, Goto, Returned, AfterError

LEMMA TypeExpire == ASSUME TypeOK, NEW c \in Calls, Expire(c) PROVE TypeOK'
  BY DEF TypeOK, Expire

LEMMA TypeBreak == ASSUME TypeOK, NEW k \in 1..MaxConns, Break(k) PROVE TypeOK'
  BY DEF TypeOK, Break, Returned, AfterError

LEMMA TypeAccept == ASSUME TypeOK, NEW k \in 1..MaxConns, Accept(k) PROVE TypeOK'
  BY DEF TypeOK, Accept, pluginOnly

LEMMA LoseTypes ==
  ASSUME TypeOK, NEW S, Lose(S)
  PROVE  ends' \in Seq({"queued", "served", "gone"}) /\ Len(ends') = Len(ends)
  <1>1. PICK n \in Nat : DOMAIN ends = 1..n /\ Len(ends) = n
    BY DEF TypeOK
  <1>2. ends' = [k \in 1..n |-> IF ends[k] \in S THEN "gone" ELSE ends[k]]
    BY <1>1 DEF Lose
  <1>3. \A k \in 1..n : (IF ends[k] \in S THEN "gone" ELSE ends[k]) \in {"queued", "served", "gone"}
    BY <1>1 DEF TypeOK
  <1> QED BY <1>1, <1>2, <1>3

LEMMA TypePlugin ==
  TypeOK /\ (PluginListens \/ PluginStops \/ PluginEnds) => TypeOK'
  <1> SUFFICES ASSUME TypeOK, PluginListens \/ PluginStops \/ PluginEnds PROVE TypeOK'
    OBVIOUS
  <1>1. CASE PluginListens
    BY <1>1 DEF TypeOK, PluginListens, pluginOnly
  <1>2. CASE PluginStops
    BY <1>2, LoseTypes DEF TypeOK, PluginStops, pluginOnly
  <1>3. CASE PluginEnds
    BY <1>3, LoseTypes DEF TypeOK, PluginEnds, pluginOnly
  <1> QED BY <1>1, <1>2, <1>3

(***************************************************************************)
(* A request is sent once, and what is executed stays so.                  *)
(***************************************************************************)
LEMMA OnceSelect ==
  ASSUME TypeOK, SentOnce, NEW c \in Calls, Select(c) PROVE SentOnce'
  <1>1. \A r \in sent \cup executed : r[1] # c
    BY DEF SentOnce, Select
  <1>2. \A d \in Calls : d # c => pc'[d] = pc[d] /\ attempts'[d] = attempts[d]
    BY DEF TypeOK, Select, Goto
  <1>3. \A r \in sent \cup executed : r[1] \in Calls
    BY DEF TypeOK, Request
  <1>4. pc'[c] # "answered" /\ (pc'[c] = "call" => attempts'[c] # 0)
    BY RedialerAssumption DEF TypeOK, Select, Goto
  <1> QED BY <1>1, <1>2, <1>3, <1>4 DEF SentOnce, Select

(* Another step of a call that neither waits nor has returned.             *)
LEMMA OnceMove ==
  ASSUME TypeOK, SentOnce, NEW c \in Calls, NEW to,
         pc[c] \notin {"pending", "answered", "error"}, to \notin {"answered", "call"},
         Goto(c, to), UNCHANGED <<attempts, sent, executed>>
  PROVE  SentOnce'
  <1>1. \A r \in sent \cup executed : r[1] # c /\ r[1] \in Calls
    BY DEF SentOnce, TypeOK, Request
  <1>2. pc'[c] = to /\ \A d \in Calls : d # c => pc'[d] = pc[d]
    BY DEF TypeOK, Goto
  <1> QED BY <1>1, <1>2 DEF SentOnce

LEMMA OnceCall ==
  ASSUME TypeOK, SentOnce, NEW c \in Calls, Call(c) PROVE SentOnce'
  <1>1. CASE Goto(c, "panic") /\ UNCHANGED <<on, sent>>
    BY <1>1, OnceMove DEF Call
  <1>2. CASE Goto(c, "redial") /\ UNCHANGED <<on, sent>>
    BY <1>2, OnceMove DEF Call
  <1>3. CASE Goto(c, "pending") /\ sent' = sent \cup {<<c, attempts[c]>>}
    <2>1. \A r \in sent \cup executed : r[1] # c /\ r[1] \in Calls
      BY DEF SentOnce, Call, TypeOK, Request
    <2>2. pc'[c] = "pending" /\ \A d \in Calls : d # c => pc'[d] = pc[d]
      BY <1>3 DEF TypeOK, Goto
    <2>3. UNCHANGED <<attempts, executed>>
      BY DEF Call
    <2>4. sent' \cap executed' = {}
      BY <1>3, <2>1, <2>3 DEF SentOnce
    <2>5. ASSUME NEW r \in sent' \cup executed'
          PROVE  r[2] = attempts'[r[1]] /\ pc'[r[1]] \in {"pending", "answered", "error"}
      <3>1. CASE r = <<c, attempts[c]>>
        BY <3>1, <2>2, <2>3
      <3>2. CASE r \in sent \cup executed
        BY <3>2, <2>1, <2>2, <2>3 DEF SentOnce
      <3> QED BY <1>3, <2>3, <2>5, <3>1, <3>2
    <2>6. \A d \in Calls : pc'[d] = "answered" => <<d, attempts'[d]>> \in executed'
      BY <2>2, <2>3 DEF SentOnce
    <2>7. \A d \in Calls : pc'[d] = "call" => attempts'[d] # 0
      BY <2>2, <2>3 DEF SentOnce
    <2>8. \A r \in sent' \cup executed' :
            r[2] = attempts'[r[1]] /\ pc'[r[1]] \in {"pending", "answered", "error"}
      BY <2>5
    <2> QED BY ONLY <2>4, <2>6, <2>7, <2>8 DEF SentOnce
  <1> QED BY <1>1, <1>2, <1>3 DEF Call

LEMMA OnceExecute ==
  ASSUME TypeOK, SentOnce, NEW r \in sent, Execute(r) PROVE SentOnce'
  BY DEF SentOnce, Execute

LEMMA OnceAnswer ==
  ASSUME TypeOK, SentOnce, NEW c \in Calls, Answer(c) PROVE SentOnce'
  <1>1. pc'[c] \in {"answered", "error"} /\ \A d \in Calls : d # c => pc'[d] = pc[d]
    BY DEF TypeOK, Answer, Goto, AfterError
  <1>2. <<c, attempts[c]>> \in executed /\ UNCHANGED <<attempts, sent, executed>>
    BY DEF Answer
  <1>3. \A q \in sent \cup executed : q[1] \in Calls
    BY DEF TypeOK, Request
  <1> QED BY <1>1, <1>2, <1>3 DEF SentOnce

LEMMA OnceBreak ==
  ASSUME TypeOK, SentOnce, NEW k \in 1..MaxConns, Break(k) PROVE SentOnce'
  <1>1. pc' = [d \in Calls |-> IF pc[d] = "pending" /\ on[d] = k THEN "error" ELSE pc[d]]
    BY DEF Break, AfterError
  <1>2. UNCHANGED <<attempts, sent, executed>>
    BY DEF Break
  <1>3. \A d \in Calls : pc'[d] = pc[d] \/ (pc[d] = "pending" /\ pc'[d] = "error")
    BY <1>1
  <1>4. ASSUME NEW q \in sent' \cup executed'
        PROVE  q[2] = attempts'[q[1]] /\ pc'[q[1]] \in {"pending", "answered", "error"}
    <2>1. q[1] \in Calls /\ q[2] = attempts[q[1]] /\ pc[q[1]] \in {"pending", "answered", "error"}
      BY <1>2, <1>4 DEF TypeOK, Request, SentOnce
    <2> QED BY <1>2, <1>3, <2>1
  <1>5. ASSUME NEW d \in Calls
        PROVE  /\ pc'[d] = "answered" => <<d, attempts'[d]>> \in executed'
               /\ pc'[d] = "call" => attempts'[d] # 0
    BY <1>2, <1>3 DEF SentOnce
  <1> QED BY <1>2, <1>4, <1>5 DEF SentOnce

(* What leaves the calls and their requests alone.                         *)
LEMMA OnceStays ==
  ASSUME SentOnce, UNCHANGED <<pc, attempts, sent, executed>> PROVE SentOnce'
  BY DEF SentOnce

LEMMA NextInv == Inv /\ [Next]_vars => Inv'
  <1> SUFFICES ASSUME TypeOK, SentOnce, [Next]_vars PROVE TypeOK' /\ SentOnce'
    BY DEF Inv
  <1>1. CASE DialFirst
    BY <1>1, TypeDialFirst, OnceStays DEF DialFirst
  <1>2. CASE PluginListens \/ PluginStops \/ PluginEnds
    BY <1>2, TypePlugin, OnceStays DEF PluginListens, PluginStops, PluginEnds, pluginOnly
  <1>3. ASSUME NEW c \in Calls, Begin(c) PROVE TypeOK' /\ SentOnce'
    BY <1>3, TypeBegin, OnceMove DEF Begin
  <1>4. ASSUME NEW c \in Calls, Select(c) PROVE TypeOK' /\ SentOnce'
    BY <1>4, TypeSelect, OnceSelect
  <1>5. ASSUME NEW c \in Calls, Call(c) PROVE TypeOK' /\ SentOnce'
    BY <1>5, TypeCall, OnceCall
  <1>6. ASSUME NEW c \in Calls, Redial(c) PROVE TypeOK' /\ SentOnce'
    BY <1>6, TypeRedial, OnceMove DEF Redial
  <1>7. ASSUME NEW c \in Calls, Assign(c) PROVE TypeOK' /\ SentOnce'
    BY <1>7, TypeAssign, OnceMove DEF Assign
  <1>8. ASSUME NEW c \in Calls, Answer(c) PROVE TypeOK' /\ SentOnce'
    BY <1>8, TypeAnswer, OnceAnswer
  <1>9. ASSUME NEW c \in Calls, Expire(c) PROVE TypeOK' /\ SentOnce'
    BY <1>9, TypeExpire, OnceStays DEF Expire
  <1>10. ASSUME NEW r \in sent, Execute(r) PROVE TypeOK' /\ SentOnce'
    BY <1>10, TypeExecute, OnceExecute
  <1>11. ASSUME NEW k \in 1..MaxConns, Break(k) PROVE TypeOK' /\ SentOnce'
    BY <1>11, TypeBreak, OnceBreak
  <1>12. ASSUME NEW k \in 1..MaxConns, Accept(k) PROVE TypeOK' /\ SentOnce'
    BY <1>12, TypeAccept, OnceStays DEF Accept, pluginOnly
  <1>13. CASE UNCHANGED vars
    BY <1>13, OnceStays DEF vars, TypeOK
  <1> QED
    BY <1>1, <1>2, <1>3, <1>4, <1>5, <1>6, <1>7, <1>8, <1>9, <1>10, <1>11, <1>12, <1>13
       DEF Next, Proceed

LEMMA Invariance == Spec => []Inv
  BY InitInv, NextInv, PTL DEF Spec

(* The state of the redialer, of its calls and of both ends of its         *)
(* connections keeps its types.                                            *)
THEOREM Typing == Spec => []TypeOK
  BY Invariance, PTL DEF Inv

(* No call is executed twice, whatever becomes of its connection and       *)
(* whoever replaces it (redial.go:51-62).                                  *)
THEOREM AtMostOnceHolds == Spec => []AtMostOnce
  <1>1. Inv => AtMostOnce
    <2> SUFFICES ASSUME TypeOK, SentOnce,
                        NEW r \in executed \cup sent, NEW s \in executed \cup sent,
                        r[1] = s[1]
                 PROVE  r = s
      BY DEF Inv, AtMostOnce
    <2>1. r \in Request /\ s \in Request /\ r[2] = attempts[r[1]] /\ s[2] = attempts[s[1]]
      BY DEF TypeOK, SentOnce
    <2> QED BY <2>1 DEF Request
  <1> QED BY <1>1, Invariance, PTL

(***************************************************************************)
(* The refinement: most steps of a call are hidden from its caller.        *)
(***************************************************************************)
LEMMA Phases ==
  /\ PhaseOf("idle") = "idle" /\ PhaseOf("answered") = "answered"
  /\ PhaseOf("skipped") = "skipped" /\ PhaseOf("shutdown") = "refused"
  /\ PhaseOf("canceled") = "refused" /\ PhaseOf("error") = "failed"
  /\ \A at \in {"select", "call", "pending", "redial", "assign", "panic"} :
       PhaseOf(at) = "pending"
  BY DEF PhaseOf

LEMMA PhaseMoves ==
  ASSUME TypeOK, NEW c \in Calls, NEW to, Goto(c, to)
  PROVE  Phase' = [Phase EXCEPT ![c] = PhaseOf(to)]
  BY DEF TypeOK, Goto, Phase

LEMMA Hidden ==
  ASSUME TypeOK, NEW c \in Calls, NEW to, Goto(c, to),
         PhaseOf(to) = PhaseOf(pc[c]), UNCHANGED executed
  PROVE  UNCHANGED <<Phase, executed>>
  BY PhaseMoves DEF Phase

LEMMA NotSent ==
  ASSUME TypeOK, SentOnce, NEW c \in Calls, pc[c] \notin {"pending", "answered", "error"}
  PROVE  ~Abstract!Was(c)
  <1> SUFFICES ASSUME NEW r \in executed, r[1] = c PROVE FALSE
    BY DEF Abstract!Was
  <1> QED BY DEF SentOnce

(* A call that returns without having been sent.                           *)
LEMMA Declined ==
  ASSUME TypeOK, SentOnce, NEW c \in Calls, pc[c] \in {"select", "assign"},
         NEW to \in {"canceled", "shutdown", "skipped"}, Goto(c, to), UNCHANGED executed
  PROVE  Abstract!Decline(c)
  <1>1. Phase[c] = "pending" /\ ~Abstract!Was(c)
    BY Phases, NotSent DEF Phase
  <1>2. PhaseOf(to) \in {"refused", "skipped"}
    BY Phases
  <1> QED BY <1>1, <1>2, PhaseMoves DEF Abstract!Decline

LEMMA AbstractSelect ==
  ASSUME TypeOK, SentOnce, NEW c \in Calls, Select(c)
  PROVE  Abstract!Decline(c) \/ UNCHANGED <<Phase, executed>>
  <1>1. CASE Goto(c, "call")
    BY <1>1, Phases, Hidden DEF Select
  <1>2. CASE \E to \in {"canceled", "shutdown", "skipped"} : Goto(c, to)
    BY <1>2, Declined DEF Select
  <1> QED BY <1>1, <1>2 DEF Select

LEMMA AbstractExecute ==
  ASSUME TypeOK, SentOnce, NEW r \in sent, Execute(r)
  PROVE  r[1] \in Calls /\ Abstract!Execute(r[1])
  <1>1. r[1] \in Calls /\ r[2] \in 1..Repeats /\ r = <<r[1], r[2]>>
    BY DEF TypeOK, Request
  <1>2. r \notin executed /\ r[2] = attempts[r[1]]
    BY DEF SentOnce
  <1>3. pc[r[1]] \in {"pending", "error"}
    BY <1>1, <1>2 DEF SentOnce
  <1>4. ~Abstract!Was(r[1])
    <2> SUFFICES ASSUME NEW q \in executed, q[1] = r[1] PROVE FALSE
      BY DEF Abstract!Was
    <2>1. q \in Request /\ q[2] = r[2]
      BY <1>2 DEF TypeOK, SentOnce
    <2> QED BY <1>1, <1>2, <2>1 DEF Request
  <1>5. executed' = executed \cup {<<r[1], r[2]>>} /\ UNCHANGED pc
    BY <1>1 DEF Execute
  <1> QED BY <1>1, <1>3, <1>4, <1>5, Phases DEF Phase, Abstract!Execute

LEMMA AbstractAnswer ==
  ASSUME TypeOK, SentOnce, NEW c \in Calls, Answer(c)
  PROVE  Abstract!Answer(c) \/ Abstract!Fail({c})
  <1>1. pc[c] = "pending" /\ Phase[c] = "pending" /\ UNCHANGED executed
    BY Phases DEF Answer, Phase
  <1>2. CASE Goto(c, "answered")
    <2>1. Abstract!Was(c)
      <3>1. <<c, attempts[c]>> \in executed /\ attempts[c] \in 1..Repeats
        BY DEF Answer, TypeOK, Request
      <3> QED BY <3>1 DEF Abstract!Was
    <2> QED BY <1>1, <1>2, <2>1, Phases, PhaseMoves DEF Abstract!Answer
  <1>3. CASE Goto(c, "error")
    <2>1. Phase' = [Phase EXCEPT ![c] = "failed"]
      BY <1>3, Phases, PhaseMoves
    <2>2. Phase' = [d \in Calls |-> IF d \in {c} THEN "failed" ELSE Phase[d]]
      BY <2>1 DEF Phase
    <2> QED BY <1>1, <2>2 DEF Abstract!Fail
  <1> QED BY <1>2, <1>3 DEF Answer, AfterError

LEMMA AbstractBreak ==
  ASSUME TypeOK, NEW k \in 1..MaxConns, Break(k)
  PROVE  \E S \in SUBSET Calls : Abstract!Fail(S)
  <1> DEFINE S == {c \in Calls : pc[c] = "pending" /\ on[c] = k}
  <1>1. \A c \in S : Phase[c] = "pending"
    BY Phases DEF Phase
  <1>2. Phase' = [c \in Calls |-> IF c \in S THEN "failed" ELSE Phase[c]]
    <2>1. pc' = [c \in Calls |-> IF c \in S THEN "error" ELSE pc[c]]
      BY DEF Break, AfterError
    <2> QED BY <2>1, Phases DEF Phase
  <1>3. UNCHANGED executed
    BY DEF Break
  <1> QED BY <1>1, <1>2, <1>3 DEF Abstract!Fail

LEMMA AbstractStep == Inv /\ [Next]_vars => [Abstract!Next]_<<Phase, executed>>
  <1> SUFFICES ASSUME TypeOK, SentOnce, [Next]_vars
               PROVE  Abstract!Next \/ UNCHANGED <<Phase, executed>>
    BY DEF Inv
  <1>1. ASSUME UNCHANGED <<pc, executed>> PROVE UNCHANGED <<Phase, executed>>
    BY <1>1 DEF Phase
  <1>2. CASE DialFirst \/ PluginListens \/ PluginStops \/ PluginEnds
    BY <1>1, <1>2 DEF DialFirst, PluginListens, PluginStops, PluginEnds, pluginOnly
  <1>3. ASSUME NEW c \in Calls, Begin(c) PROVE Abstract!Begin(c)
    BY <1>3, Phases, PhaseMoves DEF Begin, Phase, Abstract!Begin
  <1>4. ASSUME NEW c \in Calls, Call(c) PROVE UNCHANGED <<Phase, executed>>
    BY <1>4, Phases, Hidden DEF Call
  <1>5. ASSUME NEW c \in Calls, Redial(c) PROVE UNCHANGED <<Phase, executed>>
    BY <1>5, Phases, Hidden DEF Redial
  <1>6. ASSUME NEW c \in Calls, Assign(c)
        PROVE  Abstract!Decline(c) \/ UNCHANGED <<Phase, executed>>
    <2>1. CASE Goto(c, "panic")
      BY <1>6, <2>1, Phases, Hidden DEF Assign
    <2>2. CASE Goto(c, "skipped")
      BY <1>6, <2>2, Declined DEF Assign
    <2> QED BY <1>6, <2>1, <2>2 DEF Assign
  <1>7. ASSUME NEW c \in Calls, Expire(c) PROVE UNCHANGED <<Phase, executed>>
    BY <1>1, <1>7 DEF Expire
  <1>8. ASSUME NEW k \in 1..MaxConns, Accept(k) PROVE UNCHANGED <<Phase, executed>>
    BY <1>1, <1>8 DEF Accept, pluginOnly
  <1>9. CASE UNCHANGED vars
    BY <1>1, <1>9 DEF vars
  <1> QED
    BY <1>2, <1>3, <1>4, <1>5, <1>6, <1>7, <1>8, <1>9,
       AbstractSelect, AbstractExecute, AbstractAnswer, AbstractBreak
       DEF Next, Proceed, Abstract!Next

(* Redialer.Call keeps its promises to the tracker that uses it: what is   *)
(* refused or skipped is never executed, what is answered was, once        *)
(* (redial.go:50-64).                                                      *)
THEOREM Implements == Spec => ImplementsRemoteCall
  <1>1. Init => Abstract!Init
    BY Phases DEF Init, Phase, Abstract!Init
  <1> QED
    BY <1>1, AbstractStep, Invariance, PTL DEF Spec, ImplementsRemoteCall, Abstract!Spec
=============================================================================
