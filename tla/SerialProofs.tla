---------------------------- MODULE SerialProofs ----------------------------
(***************************************************************************)
(* Theorems about SerialUpdates: one ticket per task, no link lost, what a *)
(* job that has succeeded leaves, and, until something fails, no task made *)
(* twice.  They rest on the invariant of UpdatesProofs.                    *)
(***************************************************************************)
EXTENDS SerialUpdates, UpdatesProofs

(* The tasks variations name, and the one named in a tracker.              *)
LinksOf(v) == {l \in Locators(v) : ~Empty(l)}

(* The references lead to the tickets that hold the tasks, and back.       *)
RefsExact ==
  \A l \in Locator : ~Empty(l) =>
    \A i \in DOMAIN tickets :
      l \in LinksOf(tickets[i].Variations) <=>
        TaskRef(l) \in DOMAIN refs /\ refs[TaskRef(l)] = i

(* A tracker that answers with empty tasks never has any.                  *)
SilentEmpty == \A l \in DOMAIN tasks : l.Tracker \notin Silent

(* What a job holds in memory, no other job running: all links of the      *)
(* stored ticket, none of another, the updated task, and a task in every   *)
(* tracker it has called.                                                  *)
Current(u, j, f) ==
  LET v == f.ticket.Variations own == From[u] IN
  /\ f.ticket.ID # NoID =>
       /\ f.ticket.ID \in DOMAIN tickets
       /\ LinksOf(tickets[f.ticket.ID].Variations) \subseteq LinksOf(v)
  /\ \A l \in LinksOf(v) : TaskRef(l) \in DOMAIN refs => refs[TaskRef(l)] = f.ticket.ID
  /\ ~Empty(own) \/ ~f.modifies => Get(v, own.Tracker) = own.ID
  /\ \A k \in DOMAIN Body[j] :
       \/ \E n \in DOMAIN f.todo : f.todo[n] = Body[j][k]
       \/ Body[j][k].tracker \in Silent
       \/ Get(v, Body[j][k].tracker) # NoID

Plain(f) == \A n \in DOMAIN f.todo : f.todo[n].do = "action"

FramesCurrent ==
  \A u \in Updates, j \in Jobs :
    /\ pc[<<u, j>>] = "get" => stack[<<u, j>>] = <<NewFrame(j)>>
    /\ pc[<<u, j>>] = "step" =>
         \E f \in Frame : stack[<<u, j>>] = <<f>> /\ Plain(f) /\ Current(u, j, f)

(* Until something fails: tasks of one issue are linked with each other, or *)
(* are all known to the job that is making them.                           *)
Making(issue) == \E u \in Updates, j \in Jobs : pc[<<u, j>>] = "step" /\ Subject(u) = issue

Together(l, m) ==
  /\ TaskRef(l) \in DOMAIN refs /\ TaskRef(m) \in DOMAIN refs
  /\ refs[TaskRef(l)] = refs[TaskRef(m)]

TasksLinked ==
  Untroubled =>
    /\ \A l, m \in DOMAIN tasks : tasks[l] = tasks[m] =>
         l = m \/ Together(l, m) \/ Making(tasks[l])
    /\ \A l \in DOMAIN tasks : tasks[l] \in Updates =>
         \E j \in Jobs : pc[<<tasks[l], j>>] \in {"step", "ok"}
    /\ \A u \in Updates, j \in Jobs : pc[<<u, j>>] = "step" =>
         \A l \in DOMAIN tasks : tasks[l] = Subject(u) =>
           l \in LinksOf(Last(stack[<<u, j>>]).ticket.Variations)

SerialInv ==
  Inv /\ Serial /\ RefsExact /\ SilentEmpty /\ FramesCurrent /\ TasksLinked
-----------------------------------------------------------------------------
(* Operators on variations, by what Get returns.                           *)
LEMMA SetGet ==
  ASSUME NEW v \in Variations, NEW trk \in Trackers, NEW id, NEW x
  PROVE  Get(Set(v, trk, id), x) = IF x = trk THEN id ELSE Get(v, x)
BY DEF Get, Has, Set

LEMMA InLinks ==
  ASSUME NEW v \in Variations
  PROVE  /\ LinksOf(v) \subseteq Locator
         /\ \A l \in Locator : l \in LinksOf(v) <=> l.ID # NoID /\ Get(v, l.Tracker) = l.ID
         /\ \A x \in Trackers :
              Get(v, x) # NoID => [Tracker |-> x, ID |-> Get(v, x)] \in LinksOf(v)
<1>1. LinksOf(v) \subseteq Locator  BY LocatorsType DEF LinksOf
<1>2. PICK D \in SUBSET Trackers : v \in [D -> TaskIDs]  BY DEF Variations
<1>3. ASSUME NEW l \in Locator
      PROVE  l \in LinksOf(v) <=> l.ID # NoID /\ Get(v, l.Tracker) = l.ID
  <2>1. l.Tracker \in Trackers /\ l = [Tracker |-> l.Tracker, ID |-> l.ID]  BY DEF Locator
  <2>2. l \in Locators(v) <=> Has(v, l.Tracker) /\ v[l.Tracker] = l.ID
    BY <1>2, <2>1 DEF Locators, Has
  <2> QED  BY <2>1, <2>2, NamesAssumption DEF LinksOf, Empty, Get
<1>4. ASSUME NEW x \in Trackers, Get(v, x) # NoID
      PROVE  [Tracker |-> x, ID |-> Get(v, x)] \in LinksOf(v)
  <2>1. Get(v, x) \in TaskIDs  BY GetType
  <2> QED  BY <1>3, <1>4, <2>1 DEF Locator
<1> QED  BY <1>1, <1>3, <1>4

(* A stack of one activation.                                              *)
LEMMA OneActivation ==
  ASSUME NEW f
  PROVE  /\ Last(<<f>>) = f /\ Len(<<f>>) = 1 /\ Front(<<f>>) = <<>>
         /\ \A x : ReplaceTop(<<f>>, x) = <<x>>
<1>1. Last(<<f>>) = f /\ Len(<<f>>) = 1  BY DEF Last
<1>2. Front(<<f>>) = <<>>  BY DEF Front
<1>3. ASSUME NEW x PROVE ReplaceTop(<<f>>, x) = <<x>>  BY DEF ReplaceTop
<1> QED  BY <1>1, <1>2, <1>3
-----------------------------------------------------------------------------
(* One goroutine runs at a time: updates do not overlap, and an update has *)
(* one job.                                                                *)
LEMMA Alone ==
  ASSUME Inv, Serial, NEW g \in Goroutines, NEW h \in Goroutines,
         pc[g] \in Active, pc[h] \in Active
  PROVE  g = h
<1>1. \A x \in Goroutines : x[1] \in Updates /\ x[2] \in Jobs /\ x = <<x[1], x[2]>>
  BY DEF Goroutines
<1>2. ASSUME NEW x \in Goroutines, pc[x] \in Active
      PROVE  handler[x[1]] = "running" /\ x[2] \in Subscribed(x[1])
  BY <1>1, <1>2 DEF Inv, Dispatched, Active
<1>3. g[1] = h[1]  BY <1>1, <1>2 DEF Serial
<1>4. g[2] = h[2]  BY <1>1, <1>2, <1>3, SerialAssumption
<1> QED  BY <1>1, <1>3, <1>4

(* What is in memory stays current while the storage stays.                *)
LEMMA CurrentStays ==
  ASSUME NEW u \in Updates, NEW j \in Jobs, NEW f, Current(u, j, f),
         tickets' = tickets, refs' = refs
  PROVE  Current(u, j, f)'
BY DEF Current

(* A step of the one goroutine that runs keeps the others out of the way.  *)
LEMMA FramesStep ==
  ASSUME SerialInv, NEW u \in Updates, NEW j \in Jobs, pc[<<u, j>>] \in Active,
         NEW p, NEW s,
         pc' = [pc EXCEPT ![<<u, j>>] = p], stack' = [stack EXCEPT ![<<u, j>>] = s],
         p # "get",
         p = "step" => \E f \in Frame : s = <<f>> /\ Plain(f) /\ Current(u, j, f)'
  PROVE  FramesCurrent'
<1>1. \A v \in Updates, k \in Jobs : <<v, k>> \in Goroutines  BY DEF Goroutines
<1>2. pc \in [Goroutines -> States] /\ stack \in [Goroutines -> Seq(Frame)]
  BY DEF SerialInv, Inv, TypeOK, States
<1>3. ASSUME NEW v \in Updates, NEW k \in Jobs, <<v, k>> # <<u, j>>
      PROVE  pc'[<<v, k>>] \notin {"get", "step"}
  <2>1. pc'[<<v, k>>] = pc[<<v, k>>]  BY <1>1, <1>2, <1>3
  <2> QED  BY <1>1, <1>3, <2>1, Alone DEF SerialInv, Active
<1>4. pc'[<<u, j>>] = p /\ stack'[<<u, j>>] = s  BY <1>1, <1>2
<1> SUFFICES ASSUME NEW v \in Updates, NEW k \in Jobs
             PROVE  /\ pc'[<<v, k>>] = "get" => stack'[<<v, k>>] = <<NewFrame(k)>>
                    /\ pc'[<<v, k>>] = "step" =>
                         \E f \in Frame : stack'[<<v, k>>] = <<f>> /\ Plain(f) /\ Current(v, k, f)'
  BY DEF FramesCurrent
<1>5. CASE <<v, k>> = <<u, j>>
  <2>1. v = u /\ k = j  BY <1>5
  <2> QED  BY <1>4, <2>1
<1>6. CASE <<v, k>> # <<u, j>>  BY <1>3, <1>6
<1> QED  BY <1>5, <1>6

(* A step that stores nothing and adds no task, and begins no sequence but *)
(* an empty one.                                                           *)
LEMMA QuietSerial ==
  ASSUME SerialInv, UNCHANGED <<storeVars, tasks>>,
         \A u \in Updates, j \in Jobs :
           /\ pc'[<<u, j>>] = "get" => stack'[<<u, j>>] = <<NewFrame(j)>>
           /\ pc'[<<u, j>>] = "step" =>
                pc[<<u, j>>] = "step" /\ stack'[<<u, j>>] = stack[<<u, j>>]
           /\ Untroubled' /\ pc[<<u, j>>] \in {"step", "ok"} => pc'[<<u, j>>] = pc[<<u, j>>],
         Untroubled' => Untroubled
  PROVE  RefsExact' /\ SilentEmpty' /\ FramesCurrent' /\ TasksLinked'
<1>1. tickets' = tickets /\ refs' = refs /\ tasks' = tasks  BY DEF storeVars
<1>2. RefsExact' /\ SilentEmpty'  BY <1>1 DEF SerialInv, RefsExact, SilentEmpty
<1>3. FramesCurrent'
  <2> SUFFICES ASSUME NEW u \in Updates, NEW j \in Jobs
               PROVE  /\ pc'[<<u, j>>] = "get" => stack'[<<u, j>>] = <<NewFrame(j)>>
                      /\ pc'[<<u, j>>] = "step" =>
                           \E f \in Frame : stack'[<<u, j>>] = <<f>> /\ Plain(f) /\ Current(u, j, f)'
    BY DEF FramesCurrent
  <2>1. ASSUME pc'[<<u, j>>] = "step"
        PROVE  \E f \in Frame : stack'[<<u, j>>] = <<f>> /\ Plain(f) /\ Current(u, j, f)'
    <3>1. PICK f \in Frame : stack[<<u, j>>] = <<f>> /\ Plain(f) /\ Current(u, j, f)
      BY <2>1 DEF SerialInv, FramesCurrent
    <3>2. Current(u, j, f)'  BY <1>1, <3>1, CurrentStays
    <3> QED  BY <2>1, <3>1, <3>2
  <2> QED  BY <2>1
<1>4. TasksLinked'
  <2> SUFFICES ASSUME Untroubled' PROVE TasksLinked'  BY DEF TasksLinked
  <2>1. Untroubled /\ TasksLinked  BY DEF SerialInv
  <2>2. \A u \in Updates : Subject(u)' = Subject(u)  BY <1>1 DEF Subject
  <2>3. \A issue : Making(issue) => Making(issue)'  BY <2>2 DEF Making
  <2>4. \A l, m : Together(l, m)' = Together(l, m)  BY <1>1 DEF Together
  <2>5. \A l, m \in DOMAIN tasks' : tasks'[l] = tasks'[m] =>
          l = m \/ Together(l, m)' \/ Making(tasks[l])'
    BY <1>1, <2>1, <2>3, <2>4 DEF TasksLinked
  <2>6. \A l \in DOMAIN tasks' : tasks'[l] \in Updates =>
          \E j \in Jobs : pc'[<<tasks'[l], j>>] \in {"step", "ok"}
    BY <1>1, <2>1 DEF TasksLinked
  <2>7. ASSUME NEW u \in Updates, NEW j \in Jobs, pc'[<<u, j>>] = "step",
               NEW l \in DOMAIN tasks', tasks'[l] = Subject(u)'
        PROVE  l \in LinksOf(Last(stack'[<<u, j>>]).ticket.Variations)
    BY <1>1, <2>1, <2>2, <2>7 DEF TasksLinked
  <2> QED  BY <2>5, <2>6, <2>7 DEF TasksLinked
<1> QED  BY <1>2, <1>3, <1>4
-----------------------------------------------------------------------------
(* What a job reads is current: the ticket of the updated task, or none,   *)
(* with the task in it.                                                    *)
LEMMA GetCurrent ==
  ASSUME SerialInv, NEW u \in Updates, NEW j \in Jobs, NEW t,
         t = IF Found(From[u]) THEN TicketOf(From[u]) ELSE NewTicket
  PROVE  LET f == [NewFrame(j) EXCEPT !.ticket = WithOwn(t, From[u])] IN
         /\ f \in Frame /\ Plain(f) /\ Current(u, j, f)
         /\ Found(From[u]) => f.ticket = t
<1> DEFINE own == From[u]
           f == [NewFrame(j) EXCEPT !.ticket = WithOwn(t, own)]
<1>1. own \in Locator /\ own.Tracker \in Trackers /\ own.ID \in TaskIDs
  BY UpdatesAssumption DEF Locator
<1>2. NewFrame(j) \in Frame /\ NewFrame(j).todo = Body[j] /\ ~NewFrame(j).modifies
  BY UpdatesAssumption, NewFrameType DEF NewFrame
<1>3. t \in Ticket /\ (Found(own) => t.ID = refs[TaskRef(own)])
  BY NewTicketType DEF Found, TicketOf, SerialInv, Inv, TypeOK, StoreTypeOK
<1>4. f \in Frame /\ f.todo = Body[j] /\ ~f.modifies /\ f.ticket = WithOwn(t, own)
  BY <1>1, <1>2, <1>3, WithOwnType DEF Frame
<1>5. Plain(f)  BY <1>4, SerialAssumption, UpdatesAssumption DEF Plain
<1>6. CASE Found(own)
  <2> DEFINE i == refs[TaskRef(own)]
  <2>1. i \in DOMAIN tickets /\ t = tickets[i] /\ t.ID = i /\ ~Empty(own)
    BY <1>3, <1>6 DEF Found, TicketOf
  <2>2. own \in LinksOf(t.Variations)
    BY <1>1, <1>6, <2>1 DEF SerialInv, RefsExact, Found
  <2>3. own.ID # NoID /\ Get(t.Variations, own.Tracker) = own.ID
    BY <1>1, <1>3, <2>2, InLinks DEF Ticket
  <2>4. f.ticket = t  BY <1>4, <2>3 DEF WithOwn, Get
  <2>5. \A l \in LinksOf(t.Variations) : TaskRef(l) \in DOMAIN refs => refs[TaskRef(l)] = i
    <3>1. LinksOf(t.Variations) \subseteq Locator  BY <1>3, InLinks DEF Ticket
    <3>2. \A l \in LinksOf(t.Variations) : ~Empty(l)  BY DEF LinksOf
    <3> QED  BY <2>1, <3>1, <3>2 DEF SerialInv, RefsExact
  <2>6. Current(u, j, f)  BY <1>4, <2>1, <2>3, <2>4, <2>5 DEF Current
  <2> QED  BY <1>4, <1>5, <2>4, <2>6
<1>7. CASE ~Found(own)
  <2>1. t = NewTicket  BY <1>7
  <2>2. f.ticket.ID = NoID /\ f.ticket.Variations = Set(NewTicket.Variations, own.Tracker, own.ID)
    BY <1>4, <2>1 DEF NewTicket, WithOwn, Has
  <2>3. \A x \in Trackers :
          Get(f.ticket.Variations, x) = IF x = own.Tracker THEN own.ID ELSE NoID
    <3>1. NewTicket.Variations \in Variations  BY NewTicketType DEF Ticket
    <3>2. \A x : Get(NewTicket.Variations, x) = NoID  BY DEF NewTicket, Get, Has
    <3> QED  BY <1>1, <2>2, <3>1, <3>2, SetGet
  <2>4. f.ticket.Variations \in Variations  BY <1>4 DEF Frame, Ticket
  <2>5. ASSUME NEW l \in LinksOf(f.ticket.Variations)
        PROVE  TaskRef(l) \notin DOMAIN refs
    <3>1. l \in Locator /\ l.ID # NoID /\ Get(f.ticket.Variations, l.Tracker) = l.ID /\ ~Empty(l)
      BY <2>4, InLinks DEF LinksOf
    <3>2. l.Tracker = own.Tracker /\ l.ID = own.ID  BY <2>3, <3>1 DEF Locator
    <3>3. l = own  BY <1>1, <3>1, <3>2 DEF Locator
    <3> QED  BY <1>7, <3>1, <3>3 DEF Found, SerialInv, Inv, RefsSound
  <2>6. Current(u, j, f)  BY <1>1, <1>4, <2>2, <2>3, <2>5 DEF Current
  <2> QED  BY <1>4, <1>5, <1>7, <2>6
<1> QED  BY <1>6, <1>7

(* The ticket a job reads holds every task of the issue, until something   *)
(* fails.                                                                  *)
LEMMA GetSerial ==
  ASSUME SerialInv, NEW u \in Updates, NEW j \in Jobs, GetTicket(u, j)
  PROVE  RefsExact' /\ SilentEmpty' /\ FramesCurrent' /\ TasksLinked'
<1> DEFINE g == <<u, j>>
           own == From[u]
<1>1. PICK t : t = IF Found(own) THEN TicketOf(own) ELSE NewTicket  OBVIOUS
<1> DEFINE f == [NewFrame(j) EXCEPT !.ticket = WithOwn(t, own)]
<1>2. g \in Goroutines /\ pc[g] = "get" /\ pc[g] \in Active
  BY DEF GetTicket, Goroutines, Active
<1>3. /\ tickets' = tickets /\ refs' = refs /\ tasks' = tasks
      /\ pc' = [pc EXCEPT ![g] = "step"] /\ crashes' = crashes
  BY DEF GetTicket, storeVars
<1>4. stack' = [stack EXCEPT ![g] = <<f>>]
  <2>1. stack[g] = <<NewFrame(j)>>  BY <1>2 DEF SerialInv, FramesCurrent
  <2>2. g \in DOMAIN stack  BY <1>2 DEF SerialInv, Inv, TypeOK
  <2>3. Last(stack[g]) = NewFrame(j) /\ ReplaceTop(stack[g], f) = <<f>>
    BY <2>1, OneActivation
  <2> QED  BY <1>1, <2>2, <2>3 DEF GetTicket
<1>5. f \in Frame /\ Plain(f) /\ Current(u, j, f) /\ (Found(own) => f.ticket = t)
  BY <1>1, GetCurrent
<1>6. RefsExact' /\ SilentEmpty'  BY <1>3 DEF SerialInv, RefsExact, SilentEmpty
<1>7. FramesCurrent'
  <2>1. PICK h : h = f  OBVIOUS
  <2>2. h \in Frame /\ Plain(h) /\ Current(u, j, h) /\ stack' = [stack EXCEPT ![g] = <<h>>]
    BY <1>4, <1>5, <2>1
  <2>3. Current(u, j, h)'  BY <1>3, <2>2, CurrentStays
  <2> QED  BY <1>2, <1>3, <2>2, <2>3, FramesStep
<1>8. ASSUME Untroubled',
             NEW l \in DOMAIN tasks, tasks[l] = Subject(u)
      PROVE  l \in LinksOf(f.ticket.Variations)
  <2>1. Untroubled
    BY <1>2, <1>3, <1>8 DEF Untroubled, SerialInv, Inv, TypeOK, Active
  <2>2. CASE Empty(own)
    <3>1. Subject(u) = u  BY <2>2 DEF Subject
    <3>2. PICK k \in Jobs : pc[<<u, k>>] \in {"step", "ok"}
      BY <1>8, <2>1, <3>1 DEF SerialInv, TasksLinked
    <3>3. k \in Subscribed(u) /\ j \in Subscribed(u)
      BY <1>2, <3>2 DEF SerialInv, Inv, Dispatched
    <3>4. k = j  BY <3>3, SerialAssumption
    <3> QED  BY <1>2, <3>2, <3>4
  <2>3. CASE ~Empty(own)
    <3>1. own \in DOMAIN tasks /\ tasks[own] = Subject(u)
      BY <1>2, <2>3, OwnLocator DEF SerialInv, Inv
    <3>2. own \in Locator /\ l \in Locator /\ ~Empty(l)
      BY UpdatesAssumption DEF SerialInv, Inv, TypeOK
    <3>3. own = l \/ Together(own, l) \/ Making(tasks[own])
      BY <1>8, <2>1, <3>1 DEF SerialInv, TasksLinked
    <3>4. CASE own = l
      <4>1. Get(f.ticket.Variations, own.Tracker) = own.ID /\ own.ID # NoID
        BY <1>5, <2>3, <3>2, NamesAssumption DEF Current, Empty
      <4>2. f.ticket.Variations \in Variations  BY <1>5 DEF Frame, Ticket
      <4> QED  BY <3>2, <3>4, <4>1, <4>2, InLinks
    <3>5. CASE Together(own, l)
      <4>1. Found(own)  BY <2>3, <3>5 DEF Together, Found, SerialInv, Inv, RefsSound
      <4>2. refs[TaskRef(own)] \in DOMAIN tickets /\ f.ticket = tickets[refs[TaskRef(own)]]
        BY <1>1, <1>5, <4>1 DEF Found, TicketOf
      <4>3. TaskRef(l) \in DOMAIN refs /\ refs[TaskRef(l)] = refs[TaskRef(own)]
        BY <3>5 DEF Together
      <4> QED  BY <3>2, <4>2, <4>3 DEF SerialInv, RefsExact
    <3>6. ASSUME Making(tasks[own]) PROVE FALSE
      <4>1. PICK v \in Updates, k \in Jobs : pc[<<v, k>>] = "step"  BY <3>6 DEF Making
      <4>2. <<v, k>> \in Goroutines /\ pc[<<v, k>>] \in Active  BY <4>1 DEF Goroutines, Active
      <4>3. <<v, k>> = g  BY <1>2, <4>2, Alone DEF SerialInv
      <4> QED  BY <1>2, <4>1, <4>3
    <3> QED  BY <3>3, <3>4, <3>5, <3>6
  <2> QED  BY <2>2, <2>3
<1>9. TasksLinked'
  <2> SUFFICES ASSUME Untroubled' PROVE TasksLinked'  BY DEF TasksLinked
  <2>1. Untroubled /\ TasksLinked
    BY <1>2, <1>3 DEF Untroubled, SerialInv, Inv, TypeOK, Active
  <2>2. \A v \in Updates : Subject(v)' = Subject(v)  BY <1>3 DEF Subject
  <2>3. pc \in [Goroutines -> States] /\ stack \in [Goroutines -> Seq(Frame)]
    BY DEF SerialInv, Inv, TypeOK, States
  <2>4. \A h \in Goroutines : pc'[h] = IF h = g THEN "step" ELSE pc[h]
    BY <1>2, <1>3, <2>3
  <2>5. \A v \in Updates, k \in Jobs : <<v, k>> \in Goroutines  BY DEF Goroutines
  <2>6. \A issue : Making(issue) => Making(issue)'
    BY <2>2, <2>4, <2>5 DEF Making
  <2>7. \A l, m : Together(l, m)' = Together(l, m)  BY <1>3 DEF Together
  <2>8. \A l, m \in DOMAIN tasks' : tasks'[l] = tasks'[m] =>
          l = m \/ Together(l, m)' \/ Making(tasks[l])'
    BY <1>3, <2>1, <2>6, <2>7 DEF TasksLinked
  <2>9. \A l \in DOMAIN tasks' : tasks'[l] \in Updates =>
          \E k \in Jobs : pc'[<<tasks'[l], k>>] \in {"step", "ok"}
    <3> SUFFICES ASSUME NEW l \in DOMAIN tasks, tasks[l] \in Updates
                 PROVE  \E k \in Jobs : pc'[<<tasks[l], k>>] \in {"step", "ok"}
      BY <1>3
    <3>1. PICK k \in Jobs : pc[<<tasks[l], k>>] \in {"step", "ok"}
      BY <2>1 DEF TasksLinked
    <3> QED  BY <2>4, <2>5, <3>1
  <2>10. ASSUME NEW v \in Updates, NEW k \in Jobs, pc'[<<v, k>>] = "step",
                NEW l \in DOMAIN tasks', tasks'[l] = Subject(v)'
         PROVE  l \in LinksOf(Last(stack'[<<v, k>>]).ticket.Variations)
    <3>1. <<v, k>> = g
      <4> SUFFICES ASSUME <<v, k>> # g PROVE FALSE  OBVIOUS
      <4>1. pc[<<v, k>>] \in Active  BY <2>4, <2>5, <2>10 DEF Active
      <4> QED  BY <1>2, <2>5, <4>1, Alone DEF SerialInv
    <3>2. v = u  BY <3>1
    <3>3. stack'[g] = <<f>>  BY <1>2, <1>4, <2>3
    <3>4. Last(stack'[<<v, k>>]) = f  BY <3>1, <3>3, OneActivation
    <3> QED  BY <1>3, <1>8, <2>2, <2>10, <3>2, <3>4
  <2> QED  BY <2>8, <2>9, <2>10 DEF TasksLinked
<1> QED  BY <1>6, <1>7, <1>9
-----------------------------------------------------------------------------
(* What a call does to the tasks and to the ticket in memory: nothing, or  *)
(* it adds one task to both.                                               *)
LEMMA CallCases ==
  ASSUME SerialInv, NEW u \in Updates, NEW v \in Variations, NEW trk \in Trackers,
         NEW id \in TaskIDs, Owned(v, Subject(u)),
         Execute(u, [Tracker |-> trk, ID |-> Get(v, trk)], id)
  PROVE  LET m == [Tracker |-> trk, ID |-> id] IN
         \/ /\ tasks' = tasks /\ (\A x \in Trackers : Get(Set(v, trk, id), x) = Get(v, x))
            /\ trk \in Silent \/ Get(v, trk) # NoID
         \/ /\ trk \notin Silent /\ Get(v, trk) = NoID /\ ~Empty(m) /\ m \notin DOMAIN tasks
            /\ tasks' = [x \in DOMAIN tasks \cup {m} |->
                           IF x = m THEN Subject(u) ELSE tasks[x]]
<1> DEFINE l == [Tracker |-> trk, ID |-> Get(v, trk)]
           m == [Tracker |-> trk, ID |-> id]
<1>1. \A x \in Trackers : Get(Set(v, trk, id), x) = IF x = trk THEN id ELSE Get(v, x)
  BY SetGet
<1>2. l.Tracker = trk /\ l.ID = Get(v, trk) /\ [l EXCEPT !.ID = id] = m  OBVIOUS
<1>3. CASE trk \in Silent
  <2>1. id = NoID /\ tasks' = tasks  BY <1>2, <1>3 DEF Execute
  <2>2. Get(v, trk) = NoID
    <3> SUFFICES ASSUME Get(v, trk) # NoID PROVE FALSE  OBVIOUS
    <3>1. l \in Locators(v)  BY GetType
    <3>2. ~Empty(l)  BY NamesAssumption DEF Empty
    <3>3. l \in DOMAIN tasks  BY <3>1, <3>2 DEF Owned
    <3> QED  BY <1>2, <1>3, <3>3 DEF SerialInv, SilentEmpty
  <2> QED  BY <1>1, <1>3, <2>1, <2>2
<1>4. CASE trk \notin Silent /\ Get(v, trk) = NoID
  <2>1. /\ id # NoID /\ m \notin DOMAIN tasks
        /\ tasks' = [x \in DOMAIN tasks \cup {m} |->
                       IF x = m THEN Subject(u) ELSE tasks[x]]
    BY <1>2, <1>4 DEF Execute
  <2>2. ~Empty(m)  BY <2>1, NamesAssumption DEF Empty
  <2> QED  BY <1>4, <2>1, <2>2
<1>5. CASE trk \notin Silent /\ Get(v, trk) # NoID
  <2>1. id = Get(v, trk) /\ tasks' = tasks  BY <1>2, <1>5 DEF Execute
  <2> QED  BY <1>1, <1>5, <2>1
<1> QED  BY <1>3, <1>4, <1>5

(* The links a call leaves: those there were, and perhaps a new task that  *)
(* no stored ticket holds.                                                 *)
LEMMA CallLinks ==
  ASSUME SerialInv, NEW u \in Updates, NEW v \in Variations, NEW trk \in Trackers,
         NEW id \in TaskIDs, Owned(v, Subject(u)),
         Execute(u, [Tracker |-> trk, ID |-> Get(v, trk)], id)
  PROVE  LET w == Set(v, trk, id) IN
         /\ w \in Variations
         /\ \A x \in Trackers : Get(v, x) # NoID => Get(w, x) = Get(v, x)
         /\ \A x \in Trackers : x # trk => Get(w, x) = Get(v, x)
         /\ LinksOf(v) \subseteq LinksOf(w)
         /\ trk \in Silent \/ Get(w, trk) # NoID
         /\ \A l \in LinksOf(w) \ LinksOf(v) : TaskRef(l) \notin DOMAIN refs
         /\ \A l \in DOMAIN tasks' \ DOMAIN tasks : l \in LinksOf(w) /\ tasks'[l] = Subject(u)
         /\ DOMAIN tasks \subseteq DOMAIN tasks'
         /\ \A l \in DOMAIN tasks : tasks'[l] = tasks[l]
         /\ \A l \in DOMAIN tasks' : l.Tracker \notin Silent
<1> DEFINE w == Set(v, trk, id)
           m == [Tracker |-> trk, ID |-> id]
<1>1. w \in Variations  BY SetType
<1>2. \A x \in Trackers : Get(w, x) = IF x = trk THEN id ELSE Get(v, x)  BY SetGet
<1>3. /\ LinksOf(v) \subseteq Locator /\ LinksOf(w) \subseteq Locator
      /\ \A l \in Locator : l \in LinksOf(v) <=> l.ID # NoID /\ Get(v, l.Tracker) = l.ID
      /\ \A l \in Locator : l \in LinksOf(w) <=> l.ID # NoID /\ Get(w, l.Tracker) = l.ID
  BY <1>1, InLinks
<1>4. \A l \in Locator : l.Tracker \in Trackers  BY DEF Locator
<1>5. \A l \in DOMAIN tasks : l.Tracker \notin Silent  BY DEF SerialInv, SilentEmpty
<1>6. CASE /\ tasks' = tasks /\ \A x \in Trackers : Get(w, x) = Get(v, x)
           /\ trk \in Silent \/ Get(v, trk) # NoID
  <2>1. LinksOf(w) = LinksOf(v)  BY <1>3, <1>4, <1>6
  <2> QED  BY <1>1, <1>5, <1>6, <2>1
<1>7. CASE /\ trk \notin Silent /\ Get(v, trk) = NoID /\ ~Empty(m) /\ m \notin DOMAIN tasks
           /\ tasks' = [x \in DOMAIN tasks \cup {m} |->
                          IF x = m THEN Subject(u) ELSE tasks[x]]
  <2>1. m \in Locator /\ m.Tracker = trk /\ m.ID = id /\ id # NoID
    BY <1>7 DEF Locator, Empty
  <2>2. \A x \in Trackers : Get(v, x) # NoID => Get(w, x) = Get(v, x)
    BY <1>2, <1>7
  <2>3. LinksOf(v) \subseteq LinksOf(w)
    <3> SUFFICES ASSUME NEW l \in LinksOf(v) PROVE l \in LinksOf(w)  OBVIOUS
    <3>1. l \in Locator /\ l.ID # NoID /\ Get(v, l.Tracker) = l.ID  BY <1>3
    <3> QED  BY <1>3, <1>4, <2>2, <3>1
  <2>4. m \in LinksOf(w)  BY <1>2, <1>3, <2>1
  <2>5. ASSUME NEW l \in LinksOf(w) \ LinksOf(v) PROVE TaskRef(l) \notin DOMAIN refs
    <3>1. l \in Locator /\ l.Tracker \in Trackers /\ l.ID # NoID /\ Get(w, l.Tracker) = l.ID
      BY <1>3, <1>4
    <3>2. l.Tracker = trk  BY <1>2, <1>3, <3>1
    <3>3. l.ID = id  BY <1>2, <3>1, <3>2
    <3>4. l = m  BY <2>1, <3>1, <3>2, <3>3 DEF Locator
    <3> QED  BY <1>7, <2>1, <3>4 DEF SerialInv, Inv, Ownership, OwnedRefs
  <2>6. /\ DOMAIN tasks' = DOMAIN tasks \cup {m} /\ tasks'[m] = Subject(u)
        /\ \A l \in DOMAIN tasks : tasks'[l] = tasks[l]
    BY <1>7
  <2>7. \A l \in DOMAIN tasks' : l.Tracker \notin Silent  BY <1>5, <1>7, <2>1, <2>6
  <2>8. Get(w, trk) # NoID  BY <1>2, <2>1
  <2>9. \A l \in DOMAIN tasks' \ DOMAIN tasks : l \in LinksOf(w) /\ tasks'[l] = Subject(u)
    BY <2>4, <2>6
  <2>10. \A x \in Trackers : x # trk => Get(w, x) = Get(v, x)  BY <1>2
  <2> QED  BY <1>1, <2>2, <2>3, <2>5, <2>6, <2>7, <2>8, <2>9, <2>10
<1> QED  BY <1>6, <1>7, CallCases

(* The activation of a job that makes a call.                              *)
LEMMA StepFrame ==
  ASSUME SerialInv, NEW u \in Updates, NEW j \in Jobs, pc[<<u, j>>] = "step"
  PROVE  /\ <<u, j>> \in Goroutines /\ pc[<<u, j>>] \in Active
         /\ \E f \in Frame :
              /\ stack[<<u, j>>] = <<f>> /\ Last(stack[<<u, j>>]) = f
              /\ Plain(f) /\ Current(u, j, f) /\ OwnedFrame(<<u, j>>, f.ticket)
<1>1. <<u, j>> \in Goroutines /\ pc[<<u, j>>] \in Active  BY DEF Goroutines, Active
<1>2. PICK f \in Frame : stack[<<u, j>>] = <<f>> /\ Plain(f) /\ Current(u, j, f)
  BY DEF SerialInv, FramesCurrent
<1>3. Last(stack[<<u, j>>]) = f  BY <1>2, OneActivation
<1>4. 1 \in DOMAIN stack[<<u, j>>] /\ stack[<<u, j>>][1] = f  BY <1>2
<1>5. OwnedFrame(<<u, j>>, f.ticket)
  BY <1>1, <1>4 DEF SerialInv, Inv, Ownership, OwnedFrames
<1> QED  BY <1>1, <1>2, <1>3, <1>5

LEMMA TailElements ==
  ASSUME NEW S, NEW s \in Seq(S), s # <<>>
  PROVE  /\ Len(s) \in Nat \ {0} /\ Len(Tail(s)) = Len(s) - 1
         /\ \A n \in DOMAIN Tail(s) : n + 1 \in DOMAIN s /\ Tail(s)[n] = s[n + 1]
         /\ \A n \in DOMAIN s : n # 1 => n - 1 \in DOMAIN Tail(s) /\ Tail(s)[n - 1] = s[n]
         /\ s[1] = Head(s)
OBVIOUS

(* An answer leaves what the job holds current.                            *)
LEMMA AnswerCurrent ==
  ASSUME SerialInv, NEW u \in Updates, NEW j \in Jobs, NEW f \in Frame,
         Plain(f), Current(u, j, f), f.todo # <<>>, Owned(f.ticket.Variations, Subject(u)),
         NEW trk \in Trackers, trk = Head(f.todo).tracker, NEW id \in TaskIDs,
         Execute(u, [Tracker |-> trk, ID |-> Get(f.ticket.Variations, trk)], id)
  PROVE  LET h == AfterAction(f, From[u], trk, id) IN
         /\ h \in Frame /\ Plain(h) /\ Current(u, j, h)
         /\ h.ticket.Variations = Set(f.ticket.Variations, trk, id)
<1> DEFINE own == From[u]
           h == AfterAction(f, own, trk, id)
           v == f.ticket.Variations
           w == Set(v, trk, id)
<1>1. own \in Locator /\ own.Tracker \in Trackers /\ own.ID \in TaskIDs
  BY UpdatesAssumption DEF Locator
<1>2. f.todo \in Seq(Step) /\ f.ticket \in Ticket /\ v \in Variations  BY DEF Frame, Ticket
<1>3. h \in Frame  BY <1>1, AfterActionType
<1>4. /\ h.todo = Tail(f.todo) /\ h.modifies = (f.modifies \/ own.Tracker = trk)
      /\ h.ticket = [f.ticket EXCEPT !.Variations = Set(@, trk, id)]
  BY DEF AfterAction
<1>5. h.ticket.ID = f.ticket.ID /\ h.ticket.Variations = w
  <2>1. /\ [f.ticket EXCEPT !.Variations = Set(@, trk, id)].ID = f.ticket.ID
        /\ [f.ticket EXCEPT !.Variations = Set(@, trk, id)].Variations = w
    BY <1>2, SetTicketType
  <2> HIDE DEF h, w
  <2> QED  BY <1>4, <2>1
<1>6. /\ \A x \in Trackers : Get(v, x) # NoID => Get(w, x) = Get(v, x)
      /\ \A x \in Trackers : x # trk => Get(w, x) = Get(v, x)
      /\ LinksOf(v) \subseteq LinksOf(w)
      /\ trk \in Silent \/ Get(w, trk) # NoID
      /\ \A m \in LinksOf(w) \ LinksOf(v) : TaskRef(m) \notin DOMAIN refs
  BY <1>2, CallLinks
<1>7. /\ Len(f.todo) \in Nat \ {0} /\ Len(h.todo) = Len(f.todo) - 1
      /\ \A n \in DOMAIN h.todo : n + 1 \in DOMAIN f.todo /\ h.todo[n] = f.todo[n + 1]
      /\ \A n \in DOMAIN f.todo : n # 1 => n - 1 \in DOMAIN h.todo /\ h.todo[n - 1] = f.todo[n]
      /\ f.todo[1] = Head(f.todo)
  <2>1. PICK s : s = f.todo  OBVIOUS
  <2> HIDE DEF h
  <2> QED  BY <1>2, <1>4, <2>1, TailElements
<1>8. Plain(h)  BY <1>7 DEF Plain
<1>9. ~Empty(own) \/ ~h.modifies => Get(w, own.Tracker) = own.ID
  <2>1. CASE ~Empty(own)  BY <1>1, <1>6, <2>1 DEF Current, Empty
  <2>2. CASE ~h.modifies
    <3>1. ~f.modifies /\ own.Tracker # trk  BY <1>4, <2>2
    <3> QED  BY <1>1, <1>6, <3>1 DEF Current
  <2> QED  BY <2>1, <2>2
<1>10. ASSUME NEW k \in DOMAIN Body[j]
       PROVE  \/ \E n \in DOMAIN h.todo : h.todo[n] = Body[j][k]
              \/ Body[j][k].tracker \in Silent
              \/ Get(w, Body[j][k].tracker) # NoID
  <2>1. Body[j][k].tracker \in Trackers
    <3>1. Body[j] \in Seq(Step) /\ Body[j][k].do = "action"
      BY UpdatesAssumption, SerialAssumption
    <3>2. Body[j][k] \in Step  BY <3>1
    <3> QED  BY <3>1, <3>2 DEF Step
  <2>2. CASE \E n \in DOMAIN f.todo : f.todo[n] = Body[j][k]
    <3>1. PICK n \in DOMAIN f.todo : f.todo[n] = Body[j][k]  BY <2>2
    <3>2. CASE n = 1  BY <1>6, <1>7, <3>1, <3>2
    <3>3. CASE n # 1  BY <1>7, <3>1, <3>3
    <3> QED  BY <3>2, <3>3
  <2>3. CASE Body[j][k].tracker \in Silent  BY <2>3
  <2>4. CASE Get(v, Body[j][k].tracker) # NoID  BY <1>6, <2>1, <2>4
  <2> QED  BY <2>2, <2>3, <2>4 DEF Current
<1>11. h.ticket.ID # NoID =>
         /\ h.ticket.ID \in DOMAIN tickets
         /\ LinksOf(tickets[h.ticket.ID].Variations) \subseteq LinksOf(w)
  BY <1>5, <1>6 DEF Current
<1>12. \A m \in LinksOf(w) : TaskRef(m) \in DOMAIN refs => refs[TaskRef(m)] = h.ticket.ID
  BY <1>5, <1>6 DEF Current
<1>13. Current(u, j, h)
  <2> HIDE DEF h, w
  <2> QED  BY <1>5, <1>9, <1>10, <1>11, <1>12 DEF Current
<1> QED  BY <1>3, <1>5, <1>8, <1>13

(* Until something fails, a job knows of every task it has had made, and   *)
(* no other job makes one.                                                 *)
LEMMA AnsweredSerial ==
  ASSUME SerialInv, NEW u \in Updates, NEW j \in Jobs, CallAnswered(u, j)
  PROVE  RefsExact' /\ SilentEmpty' /\ FramesCurrent' /\ TasksLinked'
<1> DEFINE g == <<u, j>>
           own == From[u]
<1>1. AtStep(g, "action") /\ pc[g] = "step" /\ UNCHANGED <<storeVars, owner, handler, expired, crashes>>
  BY DEF CallAnswered, AtStep
<1>2. PICK f \in Frame :
        /\ stack[g] = <<f>> /\ Last(stack[g]) = f
        /\ Plain(f) /\ Current(u, j, f) /\ OwnedFrame(g, f.ticket)
  BY <1>1, StepFrame
<1>3. g \in Goroutines /\ pc[g] \in Active  BY <1>1, StepFrame
<1>4. PICK trk : trk = Head(f.todo).tracker  OBVIOUS
<1>5. /\ f.todo # <<>> /\ trk \in Trackers
      /\ Target(g) = [Tracker |-> trk, ID |-> Get(f.ticket.Variations, trk)]
  BY <1>1, <1>2, <1>4, StepTarget DEF SerialInv, Inv
<1>6. PICK id \in TaskIDs : Execute(u, Target(g), id) /\ Answered(g, id)
  BY DEF CallAnswered
<1>7. Owned(f.ticket.Variations, Subject(u))  BY <1>2 DEF OwnedFrame
<1>8. f.ticket.Variations \in Variations  BY DEF Frame, Ticket
<1>9. PICK h : h = AfterAction(f, own, trk, id)  OBVIOUS
<1>10. /\ h \in Frame /\ Plain(h) /\ Current(u, j, h)
       /\ h.ticket.Variations = Set(f.ticket.Variations, trk, id)
  BY <1>2, <1>4, <1>5, <1>6, <1>7, <1>9, AnswerCurrent
<1>11. pc' = pc /\ stack' = [stack EXCEPT ![g] = <<h>>]
  <2>1. Target(g).Tracker = trk  BY <1>5
  <2>2. g[1] = u  OBVIOUS
  <2>3. g \in DOMAIN stack  BY <1>3 DEF SerialInv, Inv, TypeOK
  <2>4. ReplaceTop(stack[g], h) = <<h>>  BY <1>2, OneActivation
  <2> QED  BY <1>2, <1>6, <1>9, <2>1, <2>2, <2>3, <2>4 DEF Answered
<1>12. tickets' = tickets /\ refs' = refs /\ crashes' = crashes  BY <1>1 DEF storeVars
<1>13. /\ LinksOf(f.ticket.Variations) \subseteq LinksOf(h.ticket.Variations)
       /\ \A l \in DOMAIN tasks' \ DOMAIN tasks :
            l \in LinksOf(h.ticket.Variations) /\ tasks'[l] = Subject(u)
       /\ DOMAIN tasks \subseteq DOMAIN tasks'
       /\ \A l \in DOMAIN tasks : tasks'[l] = tasks[l]
       /\ \A l \in DOMAIN tasks' : l.Tracker \notin Silent
  BY <1>5, <1>6, <1>7, <1>8, <1>10, CallLinks
<1>14. RefsExact' /\ SilentEmpty'
  BY <1>12, <1>13 DEF SerialInv, RefsExact, SilentEmpty
<1>15. FramesCurrent'
  <2>1. Current(u, j, h)'  BY <1>10, <1>12, CurrentStays
  <2>2. pc' = [pc EXCEPT ![g] = "step"]
    BY <1>1, <1>3, <1>11 DEF SerialInv, Inv, TypeOK
  <2> QED  BY <1>3, <1>10, <1>11, <2>1, <2>2, FramesStep
<1>16. TasksLinked'
  <2> SUFFICES ASSUME Untroubled' PROVE TasksLinked'  BY DEF TasksLinked
  <2>1. Untroubled /\ TasksLinked  BY <1>11, <1>12 DEF Untroubled, SerialInv
  <2>2. Grows  BY <1>1, <1>12, <1>13 DEF Grows
  <2>3. \A v \in Updates, k \in Jobs : pc[<<v, k>>] # "idle" => Subject(v)' = Subject(v)
    <3> SUFFICES ASSUME NEW v \in Updates, NEW k \in Jobs, pc[<<v, k>>] # "idle"
                 PROVE  Subject(v)' = Subject(v)
      OBVIOUS
    <3>1. <<v, k>> \in Goroutines /\ <<v, k>>[1] = v  BY DEF Goroutines
    <3>2. ~Empty(From[v]) => From[v] \in DOMAIN tasks /\ From[v] \in DOMAIN tasks'
      BY <1>13 DEF SerialInv, Inv, Dispatched
    <3> QED  BY <1>13, <3>2 DEF Subject
  <2>4. \A issue : Making(issue) => Making(issue)'
    <3> SUFFICES ASSUME NEW issue, NEW v \in Updates, NEW k \in Jobs,
                        pc[<<v, k>>] = "step", Subject(v) = issue
                 PROVE  Making(issue)'
      BY DEF Making
    <3>1. pc'[<<v, k>>] = "step" /\ Subject(v)' = issue  BY <1>11, <2>3
    <3> QED  BY <3>1 DEF Making
  <2>5. Making(Subject(u))'  BY <1>1, <1>11 DEF Making
  <2>6. \A l, m : Together(l, m)' = Together(l, m)  BY <1>12 DEF Together
  <2>7. ASSUME NEW l \in DOMAIN tasks', NEW m \in DOMAIN tasks', tasks'[l] = tasks'[m]
        PROVE  l = m \/ Together(l, m)' \/ Making(tasks[l])'
    <3>1. CASE l \in DOMAIN tasks /\ m \in DOMAIN tasks
      <4>1. tasks[l] = tasks[m] /\ tasks'[l] = tasks[l]  BY <1>13, <2>7, <3>1
      <4>2. l = m \/ Together(l, m) \/ Making(tasks[l])
        BY <2>1, <3>1, <4>1 DEF TasksLinked
      <4>3. PICK issue : issue = tasks[l]  OBVIOUS
      <4>4. Making(issue) => Making(issue)'  BY <2>4
      <4> QED  BY <2>6, <4>1, <4>2, <4>3, <4>4 DEF Making
    <3>2. CASE l \notin DOMAIN tasks \/ m \notin DOMAIN tasks
      <4>1. tasks'[l] = Subject(u)  BY <1>13, <2>7, <3>2
      <4> QED  BY <2>3, <2>5, <1>1, <4>1 DEF Making
    <3> QED  BY <3>1, <3>2
  <2>8. ASSUME NEW l \in DOMAIN tasks', tasks'[l] \in Updates
        PROVE  \E k \in Jobs : pc'[<<tasks'[l], k>>] \in {"step", "ok"}
    <3>1. CASE l \in DOMAIN tasks
      BY <1>11, <1>13, <2>1, <2>8, <3>1 DEF TasksLinked
    <3>2. CASE l \notin DOMAIN tasks
      <4>1. tasks'[l] = Subject(u)  BY <1>13, <3>2
      <4>2. CASE Empty(own)
        <5>1. tasks'[l] = u  BY <4>1, <4>2 DEF Subject
        <5> QED  BY <1>1, <1>11, <5>1
      <4>3. CASE ~Empty(own)
        <5>1. own \in DOMAIN tasks /\ tasks[own] = Subject(u)
          BY <1>1, <4>3, OwnLocator DEF SerialInv, Inv
        <5> QED  BY <1>11, <2>1, <2>8, <4>1, <5>1 DEF TasksLinked
      <4> QED  BY <4>2, <4>3
    <3> QED  BY <3>1, <3>2
  <2>9. ASSUME NEW v \in Updates, NEW k \in Jobs, pc'[<<v, k>>] = "step",
               NEW l \in DOMAIN tasks', tasks'[l] = Subject(v)'
        PROVE  l \in LinksOf(Last(stack'[<<v, k>>]).ticket.Variations)
    <3>1. <<v, k>> = g
      <4>1. <<v, k>> \in Goroutines /\ pc[<<v, k>>] \in Active
        BY <1>11, <2>9 DEF Goroutines, Active
      <4> QED  BY <1>3, <4>1, Alone DEF SerialInv
    <3>2. v = u /\ k = j  BY <3>1
    <3>3. Last(stack'[g]) = h
      <4>1. stack'[g] = <<h>>  BY <1>3, <1>11 DEF SerialInv, Inv, TypeOK
      <4> QED  BY <4>1, OneActivation
    <3>4. tasks'[l] = Subject(u)  BY <1>1, <2>3, <2>9, <3>2
    <3>5. CASE l \in DOMAIN tasks
      <4>1. l \in LinksOf(Last(stack[g]).ticket.Variations)
        BY <1>1, <1>13, <2>1, <3>4, <3>5 DEF TasksLinked
      <4> QED  BY <1>2, <1>13, <3>1, <3>3, <4>1
    <3>6. CASE l \notin DOMAIN tasks  BY <1>13, <3>1, <3>3, <3>6
    <3> QED  BY <3>5, <3>6
  <2> QED  BY <2>7, <2>8, <2>9 DEF TasksLinked
<1> QED  BY <1>14, <1>15, <1>16

(* A job that fails forgets what it held; from then on nothing is said of  *)
(* the tasks it has had made.                                              *)
LEMMA EndSerial ==
  ASSUME SerialInv, NEW u \in Updates, NEW j \in Jobs, pc[<<u, j>>] \in {"get", "step"},
         EndFailed(<<u, j>>), UNCHANGED storeVars,
         \A l \in DOMAIN tasks' : l.Tracker \notin Silent
  PROVE  RefsExact' /\ SilentEmpty' /\ FramesCurrent' /\ TasksLinked'
<1>1. <<u, j>> \in Goroutines /\ pc[<<u, j>>] \in Active  BY DEF Goroutines, Active
<1>2. RefsExact' /\ SilentEmpty'
  BY DEF SerialInv, RefsExact, SilentEmpty, storeVars
<1>3. FramesCurrent'
  <2>1. PICK p, s : p = "failed" /\ s = <<>>  OBVIOUS
  <2>2. pc' = [pc EXCEPT ![<<u, j>>] = p] /\ stack' = [stack EXCEPT ![<<u, j>>] = s]
    BY <2>1 DEF EndFailed
  <2>3. p # "get" /\ p # "step"  BY <2>1
  <2> QED  BY <1>1, <2>2, <2>3, FramesStep
<1>4. pc'[<<u, j>>] = "failed"  BY <1>1 DEF EndFailed, SerialInv, Inv, TypeOK
<1>5. TasksLinked'  BY <1>1, <1>4 DEF TasksLinked, Untroubled
<1> QED  BY <1>2, <1>3, <1>5

(* An answer that is lost leaves at most a task nobody has a link to.      *)
LEMMA LostSerial ==
  ASSUME SerialInv, NEW u \in Updates, NEW j \in Jobs, CallLost(u, j)
  PROVE  RefsExact' /\ SilentEmpty' /\ FramesCurrent' /\ TasksLinked'
<1> DEFINE g == <<u, j>>
<1>1. AtStep(g, "action") /\ pc[g] = "step" /\ EndFailed(g) /\ UNCHANGED storeVars
  BY DEF CallLost, AtStep
<1>2. PICK f \in Frame :
        /\ stack[g] = <<f>> /\ Last(stack[g]) = f /\ OwnedFrame(g, f.ticket)
  BY <1>1, StepFrame
<1>3. PICK trk : trk = Head(f.todo).tracker  OBVIOUS
<1>4. /\ trk \in Trackers
      /\ Target(g) = [Tracker |-> trk, ID |-> Get(f.ticket.Variations, trk)]
  BY <1>1, <1>2, <1>3, StepTarget DEF SerialInv, Inv
<1>5. PICK id \in TaskIDs : Execute(u, Target(g), id)  BY DEF CallLost
<1>6. Owned(f.ticket.Variations, Subject(u))  BY <1>2 DEF OwnedFrame
<1>7. f.ticket.Variations \in Variations  BY DEF Frame, Ticket
<1>8. \A l \in DOMAIN tasks' : l.Tracker \notin Silent
  BY <1>4, <1>5, <1>6, <1>7, CallLinks
<1> QED  BY <1>1, <1>8, EndSerial
-----------------------------------------------------------------------------
(* What is saved: the tasks the job holds, under the ticket they came from.*)
LEMMA SavedLinks ==
  ASSUME SerialInv, NEW u \in Updates, NEW j \in Jobs, Save(u, j)
  PROVE  LET t == Saved(<<u, j>>) f == Last(stack[<<u, j>>]) IN
         /\ t \in Ticket /\ t.ID = f.ticket.ID
         /\ \A x \in Trackers : Get(t.Variations, x) = Get(f.ticket.Variations, x)
         /\ LinksOf(t.Variations) = LinksOf(f.ticket.Variations)
         /\ stack[<<u, j>>] = <<f>> /\ Current(u, j, f) /\ f \in Frame /\ f.todo = <<>>
<1> DEFINE g == <<u, j>>
           own == From[u]
           t == Saved(g)
<1>1. pc[g] = "step" /\ Last(stack[g]).todo = <<>>  BY DEF Save
<1>2. PICK f \in Frame :
        /\ stack[g] = <<f>> /\ Last(stack[g]) = f /\ Current(u, j, f)
  BY <1>1, StepFrame
<1>3. own \in Locator /\ own.Tracker \in Trackers /\ own.ID \in TaskIDs
  BY UpdatesAssumption DEF Locator
<1>4. f.ticket \in Ticket /\ f.ticket.Variations \in Variations /\ f.modifies \in BOOLEAN
  BY DEF Frame, Ticket
<1>5. t = IF f.modifies THEN f.ticket ELSE Patch(f.ticket, own)
  BY <1>2 DEF Saved
<1>6. t \in Ticket /\ t.ID = f.ticket.ID  BY <1>3, <1>4, <1>5, PatchType
<1>7. \A x \in Trackers : Get(t.Variations, x) = Get(f.ticket.Variations, x)
  <2>1. CASE f.modifies  BY <1>5, <2>1
  <2>2. CASE ~f.modifies
    <3>1. Get(f.ticket.Variations, own.Tracker) = own.ID  BY <1>2, <2>2 DEF Current
    <3>2. t.Variations = Set(f.ticket.Variations, own.Tracker, own.ID)
      <4>1. PICK p, trk, id : p = f.ticket /\ trk = own.Tracker /\ id = own.ID  OBVIOUS
      <4>2. p \in Ticket /\ trk \in Trackers /\ id \in TaskIDs  BY <1>3, <1>4, <4>1
      <4>3. t = [p EXCEPT !.Variations = Set(@, trk, id)]
        BY <1>5, <2>2, <4>1 DEF Patch
      <4>4. [p EXCEPT !.Variations = Set(@, trk, id)].Variations = Set(p.Variations, trk, id)
        BY <4>2, SetTicketType
      <4> HIDE DEF t
      <4> QED  BY <4>1, <4>3, <4>4
    <3> QED  BY <1>3, <1>4, <3>1, <3>2, SetGet
  <2> QED  BY <2>1, <2>2
<1>8. LinksOf(t.Variations) = LinksOf(f.ticket.Variations)
  <2>1. t.Variations \in Variations  BY <1>6 DEF Ticket
  <2>2. \A l \in Locator : l.Tracker \in Trackers  BY DEF Locator
  <2>3. \A l \in Locator : l \in LinksOf(t.Variations) <=> l \in LinksOf(f.ticket.Variations)
    BY <1>4, <1>7, <2>1, <2>2, InLinks
  <2>4. LinksOf(t.Variations) \subseteq Locator /\ LinksOf(f.ticket.Variations) \subseteq Locator
    BY <1>4, <2>1, InLinks
  <2> QED  BY <2>3, <2>4
<1> QED  BY <1>1, <1>2, <1>6, <1>7, <1>8

(* The stored tickets and references after it.                             *)
StoredAs(f, v, id) ==
  /\ f.ticket.ID # NoID => id = f.ticket.ID
  /\ f.ticket.ID = NoID => id \notin DOMAIN tickets
  /\ DOMAIN tickets' = DOMAIN tickets \cup {id}
  /\ tickets'[id].Variations = v
  /\ \A i \in DOMAIN tickets : i # id => tickets'[i] = tickets[i]
  /\ \A l \in Locator : ~Empty(l) =>
       IF l \in LinksOf(f.ticket.Variations)
       THEN TaskRef(l) \in DOMAIN refs' /\ refs'[TaskRef(l)] = id
       ELSE /\ TaskRef(l) \in DOMAIN refs' <=> TaskRef(l) \in DOMAIN refs
            /\ TaskRef(l) \in DOMAIN refs => refs'[TaskRef(l)] = refs[TaskRef(l)]

LEMMA SavedStore ==
  ASSUME SerialInv, NEW u \in Updates, NEW j \in Jobs, Save(u, j),
         NEW f, f = Last(stack[<<u, j>>])
  PROVE  \E id \in TicketIDs : StoredAs(f, Saved(<<u, j>>).Variations, id)
<1> DEFINE g == <<u, j>>
<1>1. PICK t : t = Saved(g)  OBVIOUS
<1>2. t \in Ticket /\ t.ID = f.ticket.ID /\ LinksOf(t.Variations) = LinksOf(f.ticket.Variations)
  BY <1>1, SavedLinks
<1>3. PICK id \in TicketIDs :
        /\ PutTicket([t EXCEPT !.ID = id])
        /\ IF t.ID = NoID THEN id \notin DOMAIN tickets ELSE id = t.ID
  BY <1>1, SavePuts DEF SerialInv, Inv
<1>4. PICK s : s = [t EXCEPT !.ID = id]  OBVIOUS
<1>5. s \in Ticket /\ s.ID = id /\ s.Variations = t.Variations  BY <1>2, <1>4 DEF Ticket
<1>6. /\ DOMAIN tickets' = DOMAIN tickets \cup {id}
      /\ \A i \in DOMAIN tickets' : tickets'[i] = IF i = id THEN s ELSE tickets[i]
      /\ DOMAIN refs' = DOMAIN refs \cup {TaskRef(l) : l \in Locators(t.Variations)}
      /\ \A r \in DOMAIN refs' :
           refs'[r] = IF r \in {TaskRef(l) : l \in Locators(t.Variations)} THEN id ELSE refs[r]
  <2>1. PutTicket(s) /\ s.ID \in TicketIDs /\ StoreTypeOK
    BY <1>3, <1>4, <1>5 DEF SerialInv, Inv, TypeOK
  <2>2. /\ DOMAIN tickets' = DOMAIN tickets \cup {s.ID}
        /\ \A i \in DOMAIN tickets' : tickets'[i] = IF i = s.ID THEN s ELSE tickets[i]
        /\ DOMAIN refs' = DOMAIN refs \cup {TaskRef(l) : l \in Locators(s.Variations)}
        /\ \A r \in DOMAIN refs' :
             refs'[r] = IF r \in {TaskRef(l) : l \in Locators(s.Variations)}
                        THEN s.ID ELSE refs[r]
    BY <1>5, <2>1, PutTicketType
  <2> QED  BY <1>5, <2>2
<1>7. ASSUME NEW l \in Locator, ~Empty(l)
      PROVE  TaskRef(l) \in {TaskRef(m) : m \in Locators(t.Variations)}
               <=> l \in LinksOf(f.ticket.Variations)
  <2>1. Locators(t.Variations) \subseteq Locator  BY <1>2, LocatorsType DEF Ticket
  <2>2. l \in Locators(t.Variations) <=> l \in LinksOf(t.Variations)  BY <1>7 DEF LinksOf
  <2>3. \A m \in Locators(t.Variations) : TaskRef(m) = TaskRef(l) => m = l
    BY <2>1, RefsAssumption
  <2> QED  BY <1>2, <2>2, <2>3
<1>8. ASSUME NEW l \in Locator, ~Empty(l)
      PROVE  IF l \in LinksOf(f.ticket.Variations)
             THEN TaskRef(l) \in DOMAIN refs' /\ refs'[TaskRef(l)] = id
             ELSE /\ TaskRef(l) \in DOMAIN refs' <=> TaskRef(l) \in DOMAIN refs
                  /\ TaskRef(l) \in DOMAIN refs => refs'[TaskRef(l)] = refs[TaskRef(l)]
  BY <1>6, <1>7, <1>8
<1>9. tickets'[id].Variations = t.Variations /\ \A i \in DOMAIN tickets : i # id => tickets'[i] = tickets[i]
  BY <1>5, <1>6
<1> QED  BY <1>1, <1>2, <1>3, <1>6, <1>8, <1>9 DEF StoredAs

(* Saving leaves the references exact: nothing was stored between the      *)
(* reading of the ticket and its saving.                                   *)
LEMMA SaveSerial ==
  ASSUME SerialInv, NEW u \in Updates, NEW j \in Jobs, Save(u, j)
  PROVE  RefsExact' /\ SilentEmpty' /\ FramesCurrent' /\ TasksLinked'
<1> DEFINE g == <<u, j>>
<1>1. PICK f : f = Last(stack[g])  OBVIOUS
<1>2. /\ stack[g] = <<f>> /\ Current(u, j, f) /\ f \in Frame
      /\ LinksOf(Saved(g).Variations) = LinksOf(f.ticket.Variations)
  BY <1>1, SavedLinks
<1>3. pc[g] = "step" /\ g \in Goroutines /\ pc[g] \in Active
  BY DEF Save, Goroutines, Active
<1>4. PICK L : L = LinksOf(f.ticket.Variations)  OBVIOUS
<1>5. PICK id \in TicketIDs :
        /\ f.ticket.ID # NoID => id = f.ticket.ID
        /\ f.ticket.ID = NoID => id \notin DOMAIN tickets
        /\ DOMAIN tickets' = DOMAIN tickets \cup {id}
        /\ LinksOf(tickets'[id].Variations) = L
        /\ \A i \in DOMAIN tickets : i # id => tickets'[i] = tickets[i]
        /\ \A l \in Locator : ~Empty(l) =>
             IF l \in L
             THEN TaskRef(l) \in DOMAIN refs' /\ refs'[TaskRef(l)] = id
             ELSE /\ TaskRef(l) \in DOMAIN refs' <=> TaskRef(l) \in DOMAIN refs
                  /\ TaskRef(l) \in DOMAIN refs => refs'[TaskRef(l)] = refs[TaskRef(l)]
  <2>1. PICK id \in TicketIDs : StoredAs(f, Saved(g).Variations, id)  BY <1>1, SavedStore
  <2>2. PICK v : v = Saved(g).Variations  OBVIOUS
  <2>3. StoredAs(f, v, id) /\ LinksOf(v) = L  BY <1>2, <1>4, <2>1, <2>2
  <2> QED  BY <1>4, <2>3 DEF StoredAs
<1>6. /\ f.ticket.ID # NoID => LinksOf(tickets[id].Variations) \subseteq L /\ id \in DOMAIN tickets
      /\ \A l \in L : TaskRef(l) \in DOMAIN refs => refs[TaskRef(l)] = f.ticket.ID
  BY <1>2, <1>4, <1>5 DEF Current
<1>7. /\ \A r \in DOMAIN refs : refs[r] \in DOMAIN tickets
      /\ DOMAIN tickets \subseteq TicketIDs
  BY DEF SerialInv, Inv, RefsSound, TypeOK, StoreTypeOK
<1>8. ASSUME NEW l \in Locator, ~Empty(l), NEW i \in DOMAIN tickets
      PROVE  l \in LinksOf(tickets[i].Variations) <=>
               TaskRef(l) \in DOMAIN refs /\ refs[TaskRef(l)] = i
  BY <1>8 DEF SerialInv, RefsExact
<1>9. RefsExact'
  <2> SUFFICES ASSUME NEW l \in Locator, ~Empty(l), NEW i \in DOMAIN tickets'
               PROVE  l \in LinksOf(tickets'[i].Variations) <=>
                        TaskRef(l) \in DOMAIN refs' /\ refs'[TaskRef(l)] = i
    BY DEF RefsExact
  <2>1. CASE i = id
    <3>1. CASE l \in L  BY <1>5, <2>1, <3>1
    <3>2. CASE l \notin L
      <4> SUFFICES ASSUME TaskRef(l) \in DOMAIN refs, refs[TaskRef(l)] = id PROVE FALSE
        BY <1>5, <2>1, <3>2
      <4>1. id \in DOMAIN tickets /\ f.ticket.ID # NoID  BY <1>5, <1>7
      <4> QED  BY <1>6, <1>8, <3>2, <4>1
    <3> QED  BY <3>1, <3>2
  <2>2. CASE i # id
    <3>1. i \in DOMAIN tickets /\ tickets'[i] = tickets[i]  BY <1>5, <2>2
    <3>2. l \in L => ~(TaskRef(l) \in DOMAIN refs /\ refs[TaskRef(l)] = i)
      BY <1>5, <1>6, <1>7, <2>2, <3>1, NamesAssumption
    <3> QED  BY <1>5, <1>8, <2>2, <3>1, <3>2
  <2> QED  BY <2>1, <2>2
<1>10. tasks' = tasks /\ crashes' = crashes  BY DEF Save
<1>11. SilentEmpty'  BY <1>10 DEF SerialInv, SilentEmpty
<1>12. pc' = [pc EXCEPT ![g] = "ok"] /\ stack' = [stack EXCEPT ![g] = <<>>]
  <2>1. Len(stack[g]) = 1 /\ Front(stack[g]) = <<>>  BY <1>2, OneActivation
  <2> QED  BY <1>3, <2>1 DEF Save, SerialInv, Inv, TypeOK
<1>13. FramesCurrent'
  <2>1. PICK p, s : p = "ok" /\ s = <<>>  OBVIOUS
  <2>2. p # "get" /\ p # "step"  BY <2>1
  <2> QED  BY <1>3, <1>12, <2>1, <2>2, FramesStep
<1>14. TasksLinked'
  <2> SUFFICES ASSUME Untroubled' PROVE TasksLinked'  BY DEF TasksLinked
  <2>1. \A h \in Goroutines : pc'[h] = IF h = g THEN "ok" ELSE pc[h]
    BY <1>3, <1>12 DEF SerialInv, Inv, TypeOK
  <2>2. Untroubled /\ TasksLinked  BY <1>3, <1>10, <2>1 DEF Untroubled, SerialInv
  <2>3. \A v \in Updates, k \in Jobs : <<v, k>> \in Goroutines  BY DEF Goroutines
  <2>4. \A v \in Updates, k \in Jobs : pc[<<v, k>>] = "step" => <<v, k>> = g
    BY <1>3, <2>3, Alone DEF SerialInv, Active
  <2>5. \A l \in DOMAIN tasks : l \in Locator /\ ~Empty(l)  BY DEF SerialInv, Inv, TypeOK
  <2>6. ASSUME NEW l \in DOMAIN tasks, NEW m \in DOMAIN tasks, tasks[l] = tasks[m], l # m
        PROVE  Together(l, m)'
    <3>1. CASE Together(l, m)
      <4>1. PICK i : i = refs[TaskRef(l)]  OBVIOUS
      <4>2. /\ TaskRef(l) \in DOMAIN refs /\ TaskRef(m) \in DOMAIN refs
            /\ refs[TaskRef(l)] = i /\ refs[TaskRef(m)] = i /\ i \in DOMAIN tickets
        BY <1>7, <3>1, <4>1 DEF Together
      <4>3. l \in L <=> m \in L
        <5>1. l \in L \/ m \in L => i = f.ticket.ID  BY <1>6, <4>2
        <5>2. i = f.ticket.ID => i = id /\ LinksOf(tickets[i].Variations) \subseteq L
          BY <1>5, <1>6, <1>7, <4>2, NamesAssumption
        <5>3. l \in LinksOf(tickets[i].Variations) /\ m \in LinksOf(tickets[i].Variations)
          BY <1>8, <2>5, <4>2
        <5> QED  BY <5>1, <5>2, <5>3
      <4> QED  BY <1>5, <2>5, <4>2, <4>3 DEF Together
    <3>2. CASE Making(tasks[l])
      <4>1. Subject(u) = tasks[l]
        <5>1. PICK v \in Updates, k \in Jobs : pc[<<v, k>>] = "step" /\ Subject(v) = tasks[l]
          BY <3>2 DEF Making
        <5>2. <<v, k>> = g  BY <2>4, <5>1
        <5>3. v = u  BY <5>2
        <5> QED  BY <5>1, <5>3
      <4>2. l \in L /\ m \in L
        BY <1>1, <1>3, <1>4, <2>2, <2>6, <4>1 DEF TasksLinked
      <4> QED  BY <1>5, <2>5, <4>2 DEF Together
    <3> QED  BY <2>2, <2>6, <3>1, <3>2 DEF TasksLinked
  <2>7. \A l \in DOMAIN tasks' : tasks'[l] \in Updates =>
          \E k \in Jobs : pc'[<<tasks'[l], k>>] \in {"step", "ok"}
    <3> SUFFICES ASSUME NEW l \in DOMAIN tasks, tasks[l] \in Updates
                 PROVE  \E k \in Jobs : pc'[<<tasks[l], k>>] \in {"step", "ok"}
      BY <1>10
    <3>1. PICK k \in Jobs : pc[<<tasks[l], k>>] \in {"step", "ok"}
      BY <2>2 DEF TasksLinked
    <3> QED  BY <2>1, <2>3, <3>1
  <2>8. \A v \in Updates, k \in Jobs : pc'[<<v, k>>] # "step"
    BY <2>1, <2>3, <2>4
  <2>9. \A l, m \in DOMAIN tasks' : tasks'[l] = tasks'[m] =>
          l = m \/ Together(l, m)' \/ Making(tasks[l])'
    BY <1>10, <2>6
  <2> QED  BY <2>7, <2>8, <2>9 DEF TasksLinked
<1> QED  BY <1>9, <1>11, <1>13, <1>14
-----------------------------------------------------------------------------
(* Every step keeps the invariant; that of UpdatesProofs is known before   *)
(* and after.                                                              *)
LEMMA SerialInductive ==
  ASSUME SerialInv, [Next /\ Serial']_vars
  PROVE  RefsExact' /\ SilentEmpty' /\ FramesCurrent' /\ TasksLinked'
<1> USE DEF SerialInv, Inv
<1> DEFINE Goal == RefsExact' /\ SilentEmpty' /\ FramesCurrent' /\ TasksLinked'
<1>1. \A u \in Updates, j \in Jobs : <<u, j>> \in Goroutines  BY DEF Goroutines
<1>2. pc \in [Goroutines -> States] /\ stack \in [Goroutines -> Seq(Frame)]
  BY DEF TypeOK, States
<1>3. ASSUME UNCHANGED vars PROVE Goal
  <2>1. UNCHANGED <<storeVars, tasks, pc, stack, crashes>>  BY <1>3 DEF vars, storeVars
  <2>2. Untroubled' => Untroubled  BY <2>1 DEF Untroubled
  <2>3. \A u \in Updates, j \in Jobs :
          pc[<<u, j>>] = "get" => stack[<<u, j>>] = <<NewFrame(j)>>
    BY DEF FramesCurrent
  <2> QED  BY <2>1, <2>2, <2>3, QuietSerial
<1>4. ASSUME NEW u \in Updates, HandleUpdate(u) PROVE Goal
  <2>1. UNCHANGED <<storeVars, tasks, stack, crashes>>  BY <1>4 DEF HandleUpdate
  <2>2. \A v \in Updates, j \in Jobs :
          /\ pc'[<<v, j>>] \in {pc[<<v, j>>], "spawned"}
          /\ pc[<<v, j>>] # "idle" => pc'[<<v, j>>] = pc[<<v, j>>]
    BY <1>1, <1>4 DEF HandleUpdate, Dispatched
  <2>3. Untroubled' => Untroubled
    BY <2>1, <1>4 DEF Untroubled, HandleUpdate, Dispatched, Goroutines
  <2>4. \A v \in Updates, j \in Jobs :
          pc'[<<v, j>>] = "get" => stack'[<<v, j>>] = <<NewFrame(j)>>
    BY <2>1, <2>2 DEF FramesCurrent
  <2> QED  BY <2>1, <2>2, <2>3, <2>4, QuietSerial
<1>5. ASSUME NEW u \in Updates, Expire(u) \/ Return(u) PROVE Goal
  <2>1. UNCHANGED <<storeVars, tasks, pc, stack, crashes>>  BY <1>5 DEF Expire, Return
  <2>2. Untroubled' => Untroubled  BY <2>1 DEF Untroubled
  <2>3. \A v \in Updates, j \in Jobs :
          pc[<<v, j>>] = "get" => stack[<<v, j>>] = <<NewFrame(j)>>
    BY DEF FramesCurrent
  <2> QED  BY <2>1, <2>2, <2>3, QuietSerial
<1>6. ASSUME NEW u \in Updates, NEW j \in Jobs, Spawn(u, j) \/ Acquire(u, j) PROVE Goal
  <2>1. UNCHANGED <<storeVars, tasks, crashes>> /\ pc[<<u, j>>] \in {"spawned", "waiting"}
    BY <1>6 DEF Spawn, Acquire
  <2>2. \A h \in Goroutines : h # <<u, j>> => pc'[h] = pc[h] /\ stack'[h] = stack[h]
    BY <1>2, <1>6 DEF Spawn, Acquire
  <2>3. /\ pc'[<<u, j>>] # "step"
        /\ pc'[<<u, j>>] = "get" => stack'[<<u, j>>] = <<NewFrame(j)>>
    BY <1>1, <1>2, <1>6 DEF Spawn, Acquire
  <2>4. Untroubled' => Untroubled  BY <2>1, <2>2 DEF Untroubled
  <2>5. ASSUME NEW v \in Updates, NEW k \in Jobs
        PROVE  /\ pc'[<<v, k>>] = "get" => stack'[<<v, k>>] = <<NewFrame(k)>>
               /\ pc'[<<v, k>>] = "step" =>
                    pc[<<v, k>>] = "step" /\ stack'[<<v, k>>] = stack[<<v, k>>]
               /\ pc[<<v, k>>] \in {"step", "ok"} => pc'[<<v, k>>] = pc[<<v, k>>]
    <3>1. CASE <<v, k>> = <<u, j>>
      <4>1. v = u /\ k = j  BY <3>1
      <4> QED  BY <2>1, <2>3, <4>1
    <3>2. CASE <<v, k>> # <<u, j>>  BY <1>1, <2>2, <3>2 DEF FramesCurrent
    <3> QED  BY <3>1, <3>2
  <2> QED  BY <2>1, <2>4, <2>5, QuietSerial
<1>7. ASSUME NEW u \in Updates, NEW j \in Jobs, EvalIf(u, j) \/ CallSkipped(u, j) PROVE FALSE
  <2>1. EvalIf(u, j)  BY <1>7, SerialAssumption DEF CallSkipped
  <2>2. pc[<<u, j>>] = "step"  BY <2>1 DEF EvalIf, AtStep
  <2>3. PICK f \in Frame : Last(stack[<<u, j>>]) = f /\ Plain(f)  BY <2>2, StepFrame
  <2>4. f.todo \in Seq(Step) /\ f.todo # <<>> /\ Head(f.todo).do = "if"
    BY <2>1, <2>3 DEF EvalIf, AtStep, Frame
  <2>5. 1 \in DOMAIN f.todo /\ f.todo[1] = Head(f.todo)  BY <2>4
  <2> QED  BY <2>3, <2>4, <2>5 DEF Plain
<1>8. ASSUME NEW u \in Updates, NEW j \in Jobs, Local(u, j) PROVE Goal
  BY <1>6, <1>7, <1>8, GetSerial, SaveSerial DEF Local
<1>9. ASSUME NEW u \in Updates, NEW j \in Jobs, Fail(u, j) \/ CallRefused(u, j) PROVE Goal
  <2>1. /\ pc[<<u, j>>] \in {"get", "step"} /\ EndFailed(<<u, j>>)
        /\ UNCHANGED <<storeVars, tasks>>
    BY <1>9 DEF Fail, CallRefused, AtStep
  <2>2. \A l \in DOMAIN tasks' : l.Tracker \notin Silent  BY <2>1 DEF SilentEmpty
  <2> QED  BY <2>1, <2>2, EndSerial
<1>10. ASSUME NEW u \in Updates, NEW j \in Jobs, Call(u, j) PROVE Goal
  BY <1>7, <1>9, <1>10, AnsweredSerial, LostSerial DEF Call
<1>11. ASSUME Crash PROVE Goal
  <2>1. UNCHANGED <<storeVars, tasks>> /\ crashes' = crashes + 1  BY <1>11 DEF Crash
  <2>2. ~Untroubled'  BY <2>1, UpdatesAssumption DEF Untroubled, TypeOK
  <2>3. \A u \in Updates, j \in Jobs : pc'[<<u, j>>] \notin {"get", "step"}
    BY <1>1, <1>11 DEF Crash, Dispatched, Active
  <2> QED  BY <2>1, <2>2, <2>3, QuietSerial
<1> HIDE DEF Goal
<1>12. ASSUME Next PROVE Goal
  <2>1. CASE \E u \in Updates : HandleUpdate(u) \/ Expire(u) \/ Return(u)
    BY <1>4, <1>5, <2>1
  <2>2. CASE \E u \in Updates, j \in Jobs : Local(u, j) \/ Fail(u, j) \/ Call(u, j)
    BY <1>8, <1>9, <1>10, <2>2
  <2> QED  BY <1>11, <1>12, <2>1, <2>2 DEF Next
<1>13. Goal  BY <1>3, <1>12
<1> QED  BY <1>13 DEF Goal

LEMMA SerialInit ==
  ASSUME Init PROVE Serial /\ RefsExact /\ SilentEmpty /\ FramesCurrent /\ TasksLinked
<1>1. Serial  BY DEF Init, Serial
<1>2. RefsExact  BY DEF Init, StoreInit, RefsExact
<1>3. DOMAIN tasks = InitialTasks /\ \A l \in InitialTasks : tasks[l] = l  BY DEF Init
<1>4. SilentEmpty  BY <1>3, SerialAssumption DEF SilentEmpty
<1>5. \A u \in Updates, j \in Jobs : pc[<<u, j>>] = "idle"  BY DEF Init, Goroutines
<1>6. FramesCurrent  BY <1>5 DEF FramesCurrent
<1>7. InitialTasks \subseteq Locator  BY UpdatesAssumption
<1>8. TasksLinked  BY <1>3, <1>5, <1>7, UpdatesAssumption DEF TasksLinked
<1> QED  BY <1>1, <1>2, <1>4, <1>6, <1>8

(* The inductive invariant of updates that do not overlap: the references  *)
(* lead exactly to the tickets that hold the tasks, and what the one job   *)
(* that runs holds in memory is up to date.                                *)
THEOREM SerialUpToDate == SerialSpec => []SerialInv
<1>1. [Next /\ Serial']_vars => [Next]_vars  OBVIOUS
<1>2. SerialSpec => []Inv  BY <1>1, IssuesOwned, PTL DEF SerialSpec, Spec, Inv
<1>3. Inv /\ Init => SerialInv  BY SerialInit DEF SerialInv
<1>4. SerialInv /\ Inv' /\ [Next /\ Serial']_vars => SerialInv'
  <2> SUFFICES ASSUME SerialInv, Inv', [Next /\ Serial']_vars PROVE SerialInv'  OBVIOUS
  <2>1. Serial'  BY DEF SerialInv, Serial, vars
  <2> QED  BY <2>1, SerialInductive DEF SerialInv
<1> QED  BY <1>2, <1>3, <1>4, PTL DEF SerialSpec
-----------------------------------------------------------------------------
(* Two tasks of one tracker in one ticket are one.                         *)
LEMMA OneLinkPerTracker ==
  ASSUME NEW v \in Variations, NEW l \in LinksOf(v), NEW m \in LinksOf(v),
         l.Tracker = m.Tracker
  PROVE  l = m
<1>1. l \in Locator /\ m \in Locator  BY InLinks
<1>2. l.ID = Get(v, l.Tracker) /\ m.ID = Get(v, m.Tracker)  BY <1>1, InLinks
<1> QED  BY <1>1, <1>2 DEF Locator

(* The program never holds two records of one issue (actor.go:200-254).    *)
THEOREM OneRecordPerTask == SerialSpec => []OneTicketPerTask
<1>1. SerialInv => OneTicketPerTask
  <2> SUFFICES ASSUME SerialInv, NEW i \in DOMAIN tickets, NEW k \in DOMAIN tickets, i # k,
                      NEW l \in Locators(tickets[i].Variations)
                               \cap Locators(tickets[k].Variations), ~Empty(l)
               PROVE  FALSE
    BY DEF OneTicketPerTask
  <2>1. tickets[i].Variations \in Variations
    BY DEF SerialInv, Inv, TypeOK, StoreTypeOK, Ticket
  <2>2. l \in Locator  BY <2>1, LocatorsType
  <2>3. l \in LinksOf(tickets[i].Variations) /\ l \in LinksOf(tickets[k].Variations)
    BY DEF LinksOf
  <2>4. refs[TaskRef(l)] = i /\ refs[TaskRef(l)] = k
    BY <2>2, <2>3 DEF SerialInv, RefsExact
  <2> QED  BY <2>4
<1> QED  BY <1>1, SerialUpToDate, PTL

(* Until something fails an issue has one task in every tracker: a job     *)
(* finds the mirror an earlier one has made (actor.go:200-250).            *)
THEOREM NoTaskMadeTwice == SerialSpec => []NoDuplicateTasks
<1>1. SerialInv => NoDuplicateTasks
  <2> SUFFICES ASSUME SerialInv, Untroubled, NEW l \in DOMAIN tasks, NEW m \in DOMAIN tasks,
                      l.Tracker = m.Tracker, tasks[l] = tasks[m]
               PROVE  l = m
    BY DEF NoDuplicateTasks
  <2>1. /\ l \in Locator /\ m \in Locator /\ ~Empty(l) /\ ~Empty(m)
    BY DEF SerialInv, Inv, TypeOK
  <2>2. CASE Together(l, m)
    <3>1. PICK i : i = refs[TaskRef(l)]  OBVIOUS
    <3>2. /\ i \in DOMAIN tickets
          /\ TaskRef(l) \in DOMAIN refs /\ refs[TaskRef(l)] = i
          /\ TaskRef(m) \in DOMAIN refs /\ refs[TaskRef(m)] = i
      BY <2>2, <3>1 DEF Together, SerialInv, Inv, RefsSound
    <3>3. l \in LinksOf(tickets[i].Variations) /\ m \in LinksOf(tickets[i].Variations)
      BY <2>1, <3>2 DEF SerialInv, RefsExact
    <3>4. tickets[i].Variations \in Variations
      BY <3>2 DEF SerialInv, Inv, TypeOK, StoreTypeOK, Ticket
    <3> QED  BY <3>3, <3>4, OneLinkPerTracker
  <2>3. CASE Making(tasks[l])
    <3>1. PICK u \in Updates, j \in Jobs : pc[<<u, j>>] = "step" /\ Subject(u) = tasks[l]
      BY <2>3 DEF Making
    <3>2. PICK f \in Frame : Last(stack[<<u, j>>]) = f  BY <3>1, StepFrame
    <3>3. l \in LinksOf(f.ticket.Variations) /\ m \in LinksOf(f.ticket.Variations)
      BY <3>1, <3>2 DEF SerialInv, TasksLinked
    <3>4. f.ticket.Variations \in Variations  BY DEF Frame, Ticket
    <3> QED  BY <3>3, <3>4, OneLinkPerTracker
  <2> QED  BY <2>2, <2>3 DEF SerialInv, TasksLinked
<1> QED  BY <1>1, SerialUpToDate, PTL

(* Only saving a ticket changes the storage, and it is what a job ends with*)
LEMMA StoreStays ==
  ASSUME [Next]_vars, \A u \in Updates, j \in Jobs : ~Save(u, j)
  PROVE  UNCHANGED storeVars
<1>1. CASE UNCHANGED vars  BY <1>1 DEF vars, storeVars
<1>2. ASSUME NEW u \in Updates, HandleUpdate(u) \/ Expire(u) \/ Return(u)
      PROVE  UNCHANGED storeVars
  BY <1>2 DEF HandleUpdate, Expire, Return
<1>3. ASSUME NEW u \in Updates, NEW j \in Jobs, Local(u, j) \/ Fail(u, j) \/ Call(u, j)
      PROVE  UNCHANGED storeVars
  BY <1>3 DEF Local, Spawn, Acquire, GetTicket, EvalIf, Fail, Call, CallAnswered,
     CallLost, CallSkipped, CallRefused
<1>4. CASE Crash  BY <1>4 DEF Crash
<1> QED  BY <1>1, <1>2, <1>3, <1>4 DEF Next

(* What is stored of a ticket only grows: the ticket a job saves holds all *)
(* the links of the stored one.                                            *)
LEMMA LinksGrow ==
  ASSUME SerialInv, [Next /\ Serial']_vars
  PROVE  \A i \in DOMAIN tickets :
           /\ i \in DOMAIN tickets'
           /\ LinksOf(tickets[i].Variations) \subseteq LinksOf(tickets'[i].Variations)
<1> SUFFICES ASSUME NEW u \in Updates, NEW j \in Jobs, Save(u, j)
             PROVE  \A i \in DOMAIN tickets :
                      /\ i \in DOMAIN tickets'
                      /\ LinksOf(tickets[i].Variations) \subseteq LinksOf(tickets'[i].Variations)
  <2>1. CASE \E u \in Updates, j \in Jobs : Save(u, j)  BY <2>1
  <2>2. CASE ~\E u \in Updates, j \in Jobs : Save(u, j)
    BY <2>2, StoreStays DEF storeVars
  <2> QED  BY <2>1, <2>2
<1>1. PICK f : f = Last(stack[<<u, j>>])  OBVIOUS
<1>2. PICK v : v = Saved(<<u, j>>).Variations  OBVIOUS
<1>3. Current(u, j, f) /\ LinksOf(v) = LinksOf(f.ticket.Variations)
  BY <1>1, <1>2, SavedLinks
<1>4. PICK id \in TicketIDs : StoredAs(f, v, id)  BY <1>1, <1>2, SavedStore
<1> SUFFICES ASSUME NEW i \in DOMAIN tickets
             PROVE  /\ i \in DOMAIN tickets'
                    /\ LinksOf(tickets[i].Variations) \subseteq LinksOf(tickets'[i].Variations)
  OBVIOUS
<1>5. i \in DOMAIN tickets' /\ tickets'[id].Variations = v /\ (i # id => tickets'[i] = tickets[i])
  BY <1>4 DEF StoredAs
<1>6. CASE i = id
  <2>1. f.ticket.ID = i  BY <1>4, <1>6 DEF StoredAs
  <2>2. i # NoID  BY <1>6, NamesAssumption
  <2>3. LinksOf(tickets[i].Variations) \subseteq LinksOf(f.ticket.Variations)
    BY <1>3, <2>1, <2>2 DEF Current
  <2> QED  BY <1>3, <1>5, <1>6, <2>3
<1> QED  BY <1>5, <1>6

(* No stored link is dropped or replaced (actor.go:200, 242, 250).         *)
THEOREM NoLinkLost == SerialSpec => LinksKept
<1> DEFINE Keep == \A i \in DOMAIN tickets : \A l \in Locators(tickets[i].Variations) :
                     ~Empty(l) => l \in Locators(tickets'[i].Variations)
<1>1. SerialInv /\ [Next /\ Serial']_vars => [Keep]_vars
  <2> SUFFICES ASSUME SerialInv, [Next /\ Serial']_vars, NEW i \in DOMAIN tickets,
                      NEW l \in Locators(tickets[i].Variations), ~Empty(l)
               PROVE  l \in Locators(tickets'[i].Variations)
    OBVIOUS
  <2>1. l \in LinksOf(tickets[i].Variations)  BY DEF LinksOf
  <2>2. l \in LinksOf(tickets'[i].Variations)  BY <2>1, LinksGrow
  <2> QED  BY <2>2 DEF LinksOf
<1> QED  BY <1>1, SerialUpToDate, PTL DEF SerialSpec, LinksKept
-----------------------------------------------------------------------------
(* What the storage says of a job that has succeeded.                      *)
Linked(u, j) ==
  \E i \in DOMAIN tickets :
    /\ From[u] \in LinksOf(tickets[i].Variations)
    /\ \A k \in DOMAIN Body[j] :
         Body[j][k].tracker \notin Silent => Get(tickets[i].Variations, Body[j][k].tracker) # NoID

OkLinked ==
  \A u \in Updates, j \in Jobs : pc[<<u, j>>] = "ok" /\ ~Empty(From[u]) => Linked(u, j)

LEMMA BodyTrackers ==
  \A j \in Jobs : \A k \in DOMAIN Body[j] :
    Body[j][k].do = "action" /\ Body[j][k].tracker \in Trackers
<1> SUFFICES ASSUME NEW j \in Jobs, NEW k \in DOMAIN Body[j]
             PROVE  Body[j][k].do = "action" /\ Body[j][k].tracker \in Trackers
  OBVIOUS
<1>1. Body[j] \in Seq(Step) /\ Body[j][k].do = "action"
  BY UpdatesAssumption, SerialAssumption
<1>2. Body[j][k] \in Step  BY <1>1
<1> QED  BY <1>1, <1>2 DEF Step

(* A job succeeds by saving.                                               *)
LEMMA OkBySaving ==
  ASSUME SerialInv, [Next]_vars, NEW u \in Updates, NEW j \in Jobs,
         pc'[<<u, j>>] = "ok", pc[<<u, j>>] # "ok"
  PROVE  Save(u, j)
<1>1. pc \in [Goroutines -> States] /\ <<u, j>> \in Goroutines
  BY DEF SerialInv, Inv, TypeOK, States, Goroutines
<1>2. CASE UNCHANGED vars  BY <1>2 DEF vars
<1>3. ASSUME NEW v \in Updates, HandleUpdate(v) \/ Expire(v) \/ Return(v)
      PROVE  FALSE
  BY <1>1, <1>3 DEF HandleUpdate, Expire, Return
<1>4. ASSUME NEW v \in Updates, NEW k \in Jobs,
             Spawn(v, k) \/ Acquire(v, k) \/ GetTicket(v, k) \/ EvalIf(v, k)
      PROVE  FALSE
  BY <1>1, <1>4 DEF Spawn, Acquire, GetTicket, EvalIf
<1>5. ASSUME NEW v \in Updates, NEW k \in Jobs, Fail(v, k) \/ Call(v, k)
      PROVE  FALSE
  BY <1>1, <1>5 DEF Fail, Call, CallAnswered, CallLost, CallSkipped, CallRefused,
     Answered, EndFailed
<1>6. ASSUME NEW v \in Updates, NEW k \in Jobs, Save(v, k) PROVE Save(u, j)
  <2>1. CASE <<v, k>> = <<u, j>>
    <3>1. v = u /\ k = j  BY <2>1
    <3> QED  BY <1>6, <3>1
  <2>2. CASE <<v, k>> # <<u, j>>  BY <1>1, <1>6, <2>2 DEF Save
  <2> QED  BY <2>1, <2>2
<1>7. CASE Crash  BY <1>1, <1>7 DEF Crash
<1> QED  BY <1>2, <1>3, <1>4, <1>5, <1>6, <1>7 DEF Next, Local

(* What the last step of a job leaves in the storage.                      *)
LEMMA SaveLinked ==
  ASSUME SerialInv, NEW u \in Updates, NEW j \in Jobs, Save(u, j), ~Empty(From[u])
  PROVE  Linked(u, j)'
<1> DEFINE own == From[u]
<1>1. PICK f : f = Last(stack[<<u, j>>])  OBVIOUS
<1>2. PICK v : v = Saved(<<u, j>>).Variations  OBVIOUS
<1>3. /\ Current(u, j, f) /\ f \in Frame /\ f.todo = <<>>
      /\ LinksOf(v) = LinksOf(f.ticket.Variations)
      /\ \A x \in Trackers : Get(v, x) = Get(f.ticket.Variations, x)
  BY <1>1, <1>2, SavedLinks
<1>4. PICK id \in TicketIDs : StoredAs(f, v, id)  BY <1>1, <1>2, SavedStore
<1>5. id \in DOMAIN tickets' /\ tickets'[id].Variations = v  BY <1>4 DEF StoredAs
<1>6. own \in LinksOf(v)
  <2>1. own \in Locator /\ own.ID # NoID
    BY UpdatesAssumption, NamesAssumption DEF Locator, Empty
  <2>2. Get(f.ticket.Variations, own.Tracker) = own.ID  BY <1>3 DEF Current
  <2>3. f.ticket.Variations \in Variations  BY <1>3 DEF Frame, Ticket
  <2> QED  BY <1>3, <2>1, <2>2, <2>3, InLinks
<1>7. ASSUME NEW k \in DOMAIN Body[j], Body[j][k].tracker \notin Silent
      PROVE  Get(v, Body[j][k].tracker) # NoID
  <2>1. DOMAIN f.todo = {}  BY <1>3
  <2>2. Get(f.ticket.Variations, Body[j][k].tracker) # NoID
    BY <1>3, <1>7, <2>1 DEF Current
  <2> QED  BY <1>3, <2>2, BodyTrackers
<1> QED  BY <1>5, <1>6, <1>7 DEF Linked

(* A job that has succeeded leaves the task of its update in the storage,  *)
(* with one in every tracker it has called (actor.go:240-254), whatever    *)
(* happens later.                                                          *)
THEOREM SuccessLeavesLinks == SerialSpec => []DoneLinks
<1>1. Init => OkLinked  BY DEF Init, OkLinked, Goroutines
<1>2. SerialInv /\ SerialInv' /\ OkLinked /\ [Next /\ Serial']_vars => OkLinked'
  <2> SUFFICES ASSUME SerialInv, SerialInv', OkLinked, [Next /\ Serial']_vars,
                      NEW u \in Updates, NEW j \in Jobs,
                      pc'[<<u, j>>] = "ok", ~Empty(From[u])
               PROVE  Linked(u, j)'
    BY DEF OkLinked
  <2>1. CASE pc[<<u, j>>] = "ok"
    <3>1. PICK i \in DOMAIN tickets :
            /\ From[u] \in LinksOf(tickets[i].Variations)
            /\ \A k \in DOMAIN Body[j] :
                 Body[j][k].tracker \notin Silent =>
                   Get(tickets[i].Variations, Body[j][k].tracker) # NoID
      BY <2>1 DEF OkLinked, Linked
    <3>2. PICK v, w : v = tickets[i].Variations /\ w = tickets'[i].Variations  OBVIOUS
    <3>3. i \in DOMAIN tickets' /\ LinksOf(v) \subseteq LinksOf(w)  BY <3>2, LinksGrow
    <3>4. v \in Variations /\ w \in Variations
      BY <3>2, <3>3 DEF SerialInv, Inv, TypeOK, StoreTypeOK, Ticket
    <3>5. ASSUME NEW x \in Trackers, Get(v, x) # NoID PROVE Get(w, x) # NoID
      <4>1. PICK l : l = [Tracker |-> x, ID |-> Get(v, x)]  OBVIOUS
      <4>2. l \in LinksOf(w) /\ l.Tracker = x /\ l.ID # NoID
        BY <3>3, <3>4, <3>5, <4>1, InLinks
      <4> QED  BY <3>4, <4>2, InLinks
    <3>6. \A k \in DOMAIN Body[j] :
            Body[j][k].tracker \notin Silent => Get(w, Body[j][k].tracker) # NoID
      BY <3>1, <3>2, <3>5, BodyTrackers
    <3> QED  BY <3>1, <3>2, <3>3, <3>6 DEF Linked
  <2>2. CASE pc[<<u, j>>] # "ok"
    <3>1. Save(u, j)  BY <2>2, OkBySaving
    <3> QED  BY <3>1, SaveLinked
  <2> QED  BY <2>1, <2>2
<1>3. SerialInv /\ OkLinked => DoneLinks
  <2> SUFFICES ASSUME SerialInv, OkLinked, NEW u \in Updates, NEW j \in Jobs,
                      pc[<<u, j>>] = "ok", ~Empty(From[u])
               PROVE  /\ Found(From[u])
                      /\ \A k \in DOMAIN Body[j] :
                           Body[j][k].do = "action" /\ Body[j][k].tracker \notin Silent =>
                             Get(TicketOf(From[u]).Variations, Body[j][k].tracker) # NoID
    BY DEF DoneLinks
  <2>1. PICK i \in DOMAIN tickets :
          /\ From[u] \in LinksOf(tickets[i].Variations)
          /\ \A k \in DOMAIN Body[j] :
               Body[j][k].tracker \notin Silent =>
                 Get(tickets[i].Variations, Body[j][k].tracker) # NoID
    BY DEF OkLinked, Linked
  <2>2. TaskRef(From[u]) \in DOMAIN refs /\ refs[TaskRef(From[u])] = i
    BY <2>1, UpdatesAssumption DEF SerialInv, RefsExact
  <2> QED  BY <2>1, <2>2 DEF Found, TicketOf
<1> QED  BY <1>1, <1>2, <1>3, SerialUpToDate, PTL DEF SerialSpec
=============================================================================
