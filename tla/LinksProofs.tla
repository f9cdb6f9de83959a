---------------------------- MODULE LinksProofs ----------------------------
(***************************************************************************)
(* The processing of updates implements the separation of issues, by the   *)
(* inductive invariant of UpdatesProofs before and after every step.       *)
(***************************************************************************)
EXTENDS UpdatesProofs

(* A lookup leads to tasks of the same issue.                              *)
OwnView ==
  \A l \in DOMAIN tasks : \A m \in View[l] : m \in DOMAIN tasks /\ tasks[m] = tasks[l]

LEMMA ViewIsOwn == Inv => OwnView
<1> SUFFICES ASSUME Inv, NEW l \in DOMAIN tasks, NEW m \in View[l]
             PROVE  m \in DOMAIN tasks /\ tasks[m] = tasks[l]
  BY DEF OwnView
<1>1. Found(l) /\ m \in Locators(TicketOf(l).Variations) /\ ~Empty(m)  BY DEF View
<1>2. l \in Locator /\ ~Empty(l)  BY DEF Inv, TypeOK
<1>3. TaskRef(l) \in DOMAIN refs /\ refs[TaskRef(l)] \in DOMAIN tickets
  BY <1>1 DEF Found
<1>4. owner[refs[TaskRef(l)]] = tasks[l]
  BY <1>2, <1>3 DEF Inv, Ownership, OwnedRefs
<1>5. Owned(TicketOf(l).Variations, owner[refs[TaskRef(l)]])
  BY <1>3 DEF Inv, Ownership, OwnedTickets, TicketOf
<1> QED  BY <1>1, <1>4, <1>5 DEF Owned

(* A lookup depends on nothing but the storage.                            *)
LEMMA ViewStays ==
  ASSUME UNCHANGED storeVars, NEW l, l \in DOMAIN tasks, l \in DOMAIN tasks'
  PROVE  View'[l] = View[l]
BY DEF View, Found, TicketOf, storeVars

(* A step that touches neither the storage nor the trackers.               *)
LEMMA QuietView ==
  ASSUME UNCHANGED <<storeVars, tasks>>
  PROVE  UNCHANGED <<tasks, View>>
BY DEF View, Found, TicketOf, storeVars

(* A saved ticket relinks the tasks of the issue the update is about.      *)
LEMMA SaveRelinks ==
  ASSUME Inv, OwnView', NEW u \in Updates, NEW j \in Jobs, Save(u, j)
  PROVE  \E issue \in InitialTasks \cup Updates : Links!Relink(issue)
<1> DEFINE g == <<u, j>>
<1>1. /\ tasks' = tasks /\ pc[g] # "idle" /\ pc[g] = "step" /\ g[1] = u
      /\ g \in Goroutines
  BY DEF Save, Goroutines
<1>2. Subject(u) \in InitialTasks \cup Updates  BY <1>1, SubjectType DEF Inv
<1>3. PICK id \in TicketIDs :
        /\ PutTicket([Saved(g) EXCEPT !.ID = id])
        /\ IF Saved(g).ID = NoID THEN id \notin DOMAIN tickets ELSE id = Saved(g).ID
  BY SavePuts DEF Inv
<1> DEFINE t == [Saved(g) EXCEPT !.ID = id]
           own == {TaskRef(l) : l \in Locators(t.Variations)}
<1>4. t \in Ticket /\ t.ID = id /\ t.Variations = Saved(g).Variations
      /\ Saved(g).ID = Last(stack[g]).ticket.ID
      /\ Owned(t.Variations, Subject(u))
      /\ (Saved(g).ID # NoID => owner[Saved(g).ID] = Subject(u))
  <2>1. ~Empty(From[u]) => From[u] \in DOMAIN tasks /\ tasks[From[u]] = Subject(u)
    BY <1>1, OwnLocator DEF Inv
  <2>2. /\ stack[g] \in Seq(Frame) /\ stack[g] # <<>>
        /\ Last(stack[g]).ticket \in Ticket
        /\ Last(stack[g]) = stack[g][Len(stack[g])]
        /\ Len(stack[g]) \in DOMAIN stack[g]
    BY <1>1, TopOfStack, TopType DEF Inv
  <2>3. OwnedFrame(g, Last(stack[g]).ticket)
    BY <1>1, <2>2 DEF Inv, Ownership, OwnedFrames
  <2>4. /\ Saved(g).ID = Last(stack[g]).ticket.ID
        /\ Locators(Saved(g).Variations)
             \subseteq Locators(Last(stack[g]).ticket.Variations) \cup {From[u]}
    BY <1>1, <2>2, PatchType, UpdatesAssumption DEF Saved
  <2>5. Owned(Saved(g).Variations, Subject(u))
    BY <1>1, <2>1, <2>3, <2>4 DEF OwnedFrame, Owned
  <2>6. Saved(g) \in Ticket  BY SavePuts DEF Inv
  <2>7. Saved(g).ID # NoID => owner[Saved(g).ID] = Subject(u)
    BY <1>1, <2>3, <2>4 DEF OwnedFrame
  <2> QED  BY <2>4, <2>5, <2>6, <2>7 DEF Ticket
<1>5. Locators(t.Variations) \subseteq Locator  BY <1>4, LocatorsType DEF Ticket
<1>6. /\ DOMAIN tickets' = DOMAIN tickets \cup {id}
      /\ \A i \in DOMAIN tickets' : tickets'[i] = IF i = id THEN t ELSE tickets[i]
      /\ DOMAIN refs' = DOMAIN refs \cup own
      /\ \A r \in DOMAIN refs' : refs'[r] = IF r \in own THEN id ELSE refs[r]
  <2>1. StoreTypeOK /\ PutTicket(t) /\ t.ID \in TicketIDs
    BY <1>3, <1>4 DEF Inv, TypeOK
  <2>2. t \in Ticket /\ t.ID = id  BY <1>4
  <2> HIDE DEF t
  <2> QED  BY <2>1, <2>2, PutTicketType DEF own
<1> HIDE DEF t, own
<1>7. ASSUME NEW l \in DOMAIN tasks, tasks[l] # Subject(u)
      PROVE  View'[l] = View[l]
  <2>1. l \in Locator /\ ~Empty(l)  BY DEF Inv, TypeOK
  <2>2. TaskRef(l) \notin own
    <3>1. SUFFICES ASSUME TaskRef(l) \in own PROVE FALSE  OBVIOUS
    <3>2. PICK x \in Locators(t.Variations) : TaskRef(l) = TaskRef(x)
      BY <3>1 DEF own
    <3>3. l = x  BY <1>5, <2>1, <3>2, RefsAssumption
    <3> QED  BY <1>4, <1>7, <2>1, <3>2, <3>3 DEF Owned
  <2>3. TaskRef(l) \in DOMAIN refs' <=> TaskRef(l) \in DOMAIN refs
    BY <1>6, <2>2
  <2>4. CASE TaskRef(l) \notin DOMAIN refs
    <3>1. ~Found(l) /\ ~Found(l)'  BY <2>3, <2>4 DEF Found
    <3> QED  BY <1>1, <3>1 DEF View
  <2>5. CASE TaskRef(l) \in DOMAIN refs
    <3>1. refs'[TaskRef(l)] = refs[TaskRef(l)]  BY <1>6, <2>2, <2>3, <2>5
    <3>2. /\ refs[TaskRef(l)] \in DOMAIN tickets
          /\ owner[refs[TaskRef(l)]] = tasks[l]
      BY <2>1, <2>5 DEF Inv, RefsSound, Ownership, OwnedRefs
    <3>3. refs[TaskRef(l)] # id
      BY <1>3, <1>4, <1>7, <3>2
    <3>4. TicketOf(l)' = TicketOf(l)
      BY <1>6, <3>1, <3>2, <3>3 DEF TicketOf
    <3>5. Found(l) /\ Found(l)'
      BY <1>6, <2>1, <2>3, <2>5, <3>1, <3>2 DEF Found
    <3> QED  BY <1>1, <3>4, <3>5 DEF View
  <2> QED  BY <2>4, <2>5
<1>8. ASSUME NEW l \in DOMAIN tasks
      PROVE  View'[l] \subseteq {m \in DOMAIN tasks : tasks[m] = tasks[l]}
  BY <1>1 DEF OwnView
<1>9. View' \in [DOMAIN tasks -> SUBSET DOMAIN tasks]
  <2>1. View' = [l \in DOMAIN tasks |-> View'[l]]  BY <1>1 DEF View
  <2> QED  BY <1>8, <2>1
<1>10. Links!Relink(Subject(u))
  BY <1>1, <1>7, <1>8, <1>9 DEF Links!Relink, Links!Of
<1> QED  BY <1>2, <1>10

(* A task a tracker makes is new, and no reference leads from it.          *)
LEMMA CallAppears ==
  ASSUME Inv, NEW u \in Updates, NEW j \in Jobs, AtStep(<<u, j>>, "action"),
         NEW id \in TaskIDs, Execute(u, Target(<<u, j>>), id), UNCHANGED storeVars
  PROVE  \/ UNCHANGED <<tasks, View>>
         \/ \E issue \in InitialTasks \cup Updates : Links!Appear(issue)
<1> DEFINE l == Target(<<u, j>>)
<1>1. l \in Locator /\ <<u, j>> \in Goroutines /\ pc[<<u, j>>] # "idle"
  BY StepTarget DEF Inv
<1>2. Subject(u) \in InitialTasks \cup Updates  BY <1>1, SubjectType DEF Inv
<1>3. PICK m \in Locator : m = [l EXCEPT !.ID = id]  BY <1>1 DEF Locator
<1>4. CASE tasks' = tasks  BY <1>4, QuietView
<1>5. CASE tasks' # tasks
  <2>1. /\ id # NoID /\ m \notin DOMAIN tasks
        /\ tasks' = [x \in DOMAIN tasks \cup {m} |->
                       IF x = m THEN Subject(u) ELSE tasks[x]]
    BY <1>3, <1>5 DEF Execute
  <2>2. ~Empty(m)  BY <1>1, <1>3, <2>1, NamesAssumption DEF Empty, Locator
  <2>3. TaskRef(m) \notin DOMAIN refs
    BY <1>3, <2>1, <2>2 DEF Inv, Ownership, OwnedRefs
  <2>4. ~Found(m)'  BY <2>3 DEF Found, storeVars
  <2>5. View'[m] = {}  BY <2>1, <2>4 DEF View
  <2>6. \A x \in DOMAIN tasks : View'[x] = View[x]
    BY <2>1, ViewStays
  <2>7. DOMAIN View' = DOMAIN tasks \cup {m}
        /\ View' = [x \in DOMAIN tasks \cup {m} |-> View'[x]]
    BY <2>1 DEF View
  <2>8. View' = [x \in DOMAIN tasks \cup {m} |-> IF x = m THEN {} ELSE View[x]]
    BY <2>1, <2>5, <2>6, <2>7
  <2>9. Links!Appear(Subject(u))
    BY <1>3, <2>1, <2>2, <2>8 DEF Links!Appear
  <2> QED  BY <1>2, <2>9
<1> QED  BY <1>4, <1>5

LEMMA LinksStep == Inv /\ OwnView' /\ [Next]_vars => [Links!Next]_<<tasks, View>>
<1> SUFFICES ASSUME Inv, OwnView', [Next]_vars
             PROVE  Links!Next \/ UNCHANGED <<tasks, View>>
  OBVIOUS
<1>1. CASE UNCHANGED <<storeVars, tasks>>  BY <1>1, QuietView
<1>2. ASSUME NEW u \in Updates, NEW j \in Jobs, Save(u, j)
      PROVE  Links!Next
  BY <1>2, SaveRelinks DEF Links!Next
<1>3. ASSUME NEW u \in Updates, NEW j \in Jobs, CallAnswered(u, j) \/ CallLost(u, j)
      PROVE  Links!Next \/ UNCHANGED <<tasks, View>>
  BY <1>3, CallAppears DEF CallAnswered, CallLost, Links!Next
<1>4. CASE UNCHANGED vars  BY <1>1, <1>4 DEF vars, storeVars
<1>5. CASE Crash  BY <1>1, <1>5 DEF Crash
<1>6. ASSUME NEW u \in Updates, HandleUpdate(u) \/ Expire(u) \/ Return(u)
      PROVE  UNCHANGED <<storeVars, tasks>>
  BY <1>6 DEF HandleUpdate, Expire, Return
<1>7. ASSUME NEW u \in Updates, NEW j \in Jobs, Local(u, j)
      PROVE  UNCHANGED <<storeVars, tasks>> \/ Save(u, j)
  BY <1>7 DEF Local, Spawn, Acquire, GetTicket, EvalIf
<1>8. ASSUME NEW u \in Updates, NEW j \in Jobs, Fail(u, j) \/ Call(u, j)
      PROVE  \/ UNCHANGED <<storeVars, tasks>>
             \/ CallAnswered(u, j) \/ CallLost(u, j)
  BY <1>8 DEF Fail, Call, CallSkipped, CallRefused
<1> QED  BY <1>1, <1>2, <1>3, <1>4, <1>5, <1>6, <1>7, <1>8 DEF Next

(* Whatever the configuration, the interleaving, the faults and the        *)
(* crashes, a step of the program changes what is known of one issue       *)
(* (actor.go:200-254).                                                     *)
THEOREM SeparatesIssues == Spec => ImplementsIssueLinks
<1>1. Init => Links!Init
  <2> SUFFICES ASSUME Init PROVE Links!Init  OBVIOUS
  <2>1. /\ DOMAIN tasks \subseteq {l \in Locator : ~Empty(l)}
        /\ tasks \in [DOMAIN tasks -> InitialTasks \cup Updates]
    BY UpdatesAssumption DEF Init
  <2>2. \A l : ~Found(l)  BY DEF Init, StoreInit, Found
  <2>3. View = [l \in DOMAIN tasks |-> {}]  BY <2>2 DEF View
  <2> QED  BY <2>1, <2>3 DEF Links!Init
<1>2. Spec => []Inv
  <2>1. TypeOK /\ Dispatched /\ RefsSound /\ Ownership => Inv  BY DEF Inv
  <2> QED  BY <2>1, IssuesOwned, PTL
<1>3. Inv /\ Inv' /\ [Next]_vars => [Links!Next]_<<tasks, View>>
  <2>1. Inv' => OwnView'  BY ViewIsOwn, PTL
  <2> QED  BY <2>1, LinksStep
<1> QED  BY <1>1, <1>2, <1>3, PTL DEF Spec, ImplementsIssueLinks, Links!Spec
=============================================================================
