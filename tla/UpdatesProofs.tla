--------------------------- MODULE UpdatesProofs ---------------------------
(***************************************************************************)
(* Theorems about Updates, for any configuration, any number of updates    *)
(* and any interleaving: type correctness, the agreement of the two        *)
(* buckets of the storage, and the separation of the issues.               *)
(***************************************************************************)
EXTENDS Updates, SequenceTheorems, TLAPS

(* Operators on variations and tickets.                                    *)
LEMMA SetType ==
  ASSUME NEW v \in Variations, NEW trk \in Trackers, NEW id \in TaskIDs
  PROVE  /\ Set(v, trk, id) \in Variations
         /\ Locators(Set(v, trk, id)) \subseteq
              Locators(v) \cup {[Tracker |-> trk, ID |-> id]}
<1>1. PICK D \in SUBSET Trackers : v \in [D -> TaskIDs]  BY DEF Variations
<1>2. Set(v, trk, id) \in [D \cup {trk} -> TaskIDs]  BY <1>1 DEF Set
<1>3. Set(v, trk, id) \in Variations  BY <1>2 DEF Variations
<1>4. ASSUME NEW l \in Locators(Set(v, trk, id))
      PROVE  l \in Locators(v) \cup {[Tracker |-> trk, ID |-> id]}
  BY <1>1, <1>4 DEF Set, Locators
<1> QED  BY <1>3, <1>4

(* Variations.Get: what it returns is one of the ticket's tasks, or empty. *)
LEMMA GetType ==
  ASSUME NEW v \in Variations, NEW trk \in Trackers
  PROVE  /\ Get(v, trk) \in TaskIDs
         /\ Get(v, trk) # NoID =>
              [Tracker |-> trk, ID |-> Get(v, trk)] \in Locators(v)
BY NamesAssumption DEF Variations, Get, Has, Locators

(* The tasks of a ticket are locators.                                     *)
LEMMA LocatorsType ==
  ASSUME NEW v \in Variations
  PROVE  Locators(v) \subseteq Locator
BY DEF Variations, Locators, Locator

(* A new ticket has no tasks.                                              *)
LEMMA NewTicketType == NewTicket \in Ticket /\ Locators(NewTicket.Variations) = {}
<1>1. NewTicket.Variations \in [{} -> TaskIDs]  BY DEF NewTicket
<1>2. NewTicket.Variations \in Variations  BY <1>1 DEF Variations
<1> QED  BY <1>1, <1>2 DEF NewTicket, Ticket, Locators

(* Setting a task changes nothing else of a ticket.                        *)
LEMMA SetTicketType ==
  ASSUME NEW t \in Ticket, NEW trk \in Trackers, NEW id \in TaskIDs
  PROVE  /\ [t EXCEPT !.Variations = Set(@, trk, id)] \in Ticket
         /\ [t EXCEPT !.Variations = Set(@, trk, id)].ID = t.ID
         /\ [t EXCEPT !.Variations = Set(@, trk, id)].Variations
              = Set(t.Variations, trk, id)
<1>1. t.Variations \in Variations  BY DEF Ticket
<1>2. Set(t.Variations, trk, id) \in Variations  BY <1>1, SetType
<1> QED  BY <1>2 DEF Ticket

(* A ticket gets at most the task of the update.                           *)
LEMMA WithOwnType ==
  ASSUME NEW t \in Ticket, NEW l \in Locator
  PROVE  /\ WithOwn(t, l) \in Ticket
         /\ WithOwn(t, l).ID = t.ID
         /\ Locators(WithOwn(t, l).Variations) \subseteq Locators(t.Variations) \cup {l}
<1>1. t.Variations \in Variations /\ l.Tracker \in Trackers /\ l.ID \in TaskIDs
  BY DEF Ticket, Locator
<1>2. l = [Tracker |-> l.Tracker, ID |-> l.ID]  BY DEF Locator
<1>3. Locators(Set(t.Variations, l.Tracker, l.ID)) \subseteq Locators(t.Variations) \cup {l}
  BY <1>1, <1>2, SetType
<1> QED  BY <1>1, <1>3, SetTicketType DEF WithOwn

(* Ticket.Patch adds at most the task of the update.                       *)
LEMMA PatchType ==
  ASSUME NEW t \in Ticket, NEW l \in Locator
  PROVE  /\ Patch(t, l) \in Ticket
         /\ Patch(t, l).ID = t.ID
         /\ Locators(Patch(t, l).Variations) \subseteq Locators(t.Variations) \cup {l}
<1>1. t.Variations \in Variations /\ l.Tracker \in Trackers /\ l.ID \in TaskIDs
  BY DEF Ticket, Locator
<1>2. l = [Tracker |-> l.Tracker, ID |-> l.ID]  BY DEF Locator
<1>3. Locators(Set(t.Variations, l.Tracker, l.ID)) \subseteq Locators(t.Variations) \cup {l}
  BY <1>1, <1>2, SetType
<1> QED  BY <1>1, <1>3, SetTicketType DEF Patch
-----------------------------------------------------------------------------
(* The stack of activations.                                               *)
LEMMA TopType ==
  ASSUME NEW S, NEW s \in Seq(S), s # <<>>
  PROVE  /\ Len(s) \in Nat \ {0}
         /\ Last(s) \in S
         /\ Last(s) = s[Len(s)]
         /\ Front(s) \in Seq(S)
         /\ Len(Front(s)) = Len(s) - 1
         /\ \A k \in 1..Len(s) - 1 : Front(s)[k] = s[k]
<1>1. Len(s) \in Nat \ {0}  OBVIOUS
<1>2. Last(s) \in S  BY <1>1 DEF Last
<1>3. PICK n \in Nat : Len(s) = n + 1  BY <1>1
<1>4. Front(s) = SubSeq(s, 1, n)  BY <1>3 DEF Front
<1>5. \A k \in 1..n : s[k] \in S  BY <1>1, <1>3
<1>6. SubSeq(s, 1, n) \in Seq(S)  BY <1>5, SubSeqProperties
<1>7. Len(SubSeq(s, 1, n)) = n
  <2>1. Len(SubSeq(s, 1, n)) = IF 1 <= n THEN n - 1 + 1 ELSE 0
    BY <1>5, SubSeqProperties
  <2> QED  BY <2>1
<1>8. \A k \in 1..n : SubSeq(s, 1, n)[k] = s[k]
  <2>1. \A k \in 1..n - 1 + 1 : SubSeq(s, 1, n)[k] = s[1 + k - 1]
    BY <1>5, SubSeqProperties
  <2>2. \A k \in 1..n : k \in 1..n - 1 + 1 /\ 1 + k - 1 = k  OBVIOUS
  <2> QED  BY <2>1, <2>2
<1>9. n = Len(s) - 1  BY <1>3
<1> QED  BY <1>1, <1>2, <1>4, <1>6, <1>7, <1>8, <1>9 DEF Last

(* Replacing the top of a stack leaves the rest.                           *)
LEMMA ReplaceTopType ==
  ASSUME NEW S, NEW s \in Seq(S), s # <<>>, NEW x \in S
  PROVE  /\ ReplaceTop(s, x) \in Seq(S)
         /\ ReplaceTop(s, x) # <<>>
         /\ Len(ReplaceTop(s, x)) = Len(s)
         /\ \A k \in 1..Len(s) : ReplaceTop(s, x)[k] \in {x, s[k]}
<1>1. Len(s) \in Nat \ {0}  OBVIOUS
<1>2. ReplaceTop(s, x) \in Seq(S) /\ Len(ReplaceTop(s, x)) = Len(s)
  BY <1>1 DEF ReplaceTop
<1>3. ReplaceTop(s, x) # <<>>  BY <1>1, <1>2
<1>4. \A k \in 1..Len(s) : ReplaceTop(s, x)[k] \in {x, s[k]}
  BY <1>1 DEF ReplaceTop
<1> QED  BY <1>2, <1>3, <1>4

(* A sequence starts with an activation of its own.                        *)
LEMMA NewFrameType == \A b \in Blocks : NewFrame(b) \in Frame
BY UpdatesAssumption, NewTicketType DEF NewFrame, Frame
-----------------------------------------------------------------------------
(* Type correctness and the dispatching of the jobs.                       *)
States == {"idle"} \cup Active \cup Finished

(* A job that runs has an activation, and its parts have their types.      *)
LEMMA TopOfStack ==
  ASSUME TypeOK, NEW g \in Goroutines, pc[g] \in {"get", "step"}
  PROVE  /\ stack[g] \in Seq(Frame)
         /\ stack[g] # <<>>
         /\ Last(stack[g]) \in Frame
         /\ Last(stack[g]).todo \in Seq(Step)
         /\ Last(stack[g]).ticket \in Ticket
<1>1. stack[g] \in Seq(Frame) /\ stack[g] # <<>>  BY DEF TypeOK
<1>2. Last(stack[g]) \in Frame  BY <1>1, TopType
<1> QED  BY <1>1, <1>2 DEF Frame

(* A step of one goroutine, seen from its pc and its stack.                *)
LEMMA GoroutineType ==
  ASSUME TypeOK, NEW g \in Goroutines, NEW p \in States, NEW s \in Seq(Frame),
         (s # <<>>) <=> p \in {"get", "step"},
         pc' = [pc EXCEPT ![g] = p], stack' = [stack EXCEPT ![g] = s]
  PROVE  /\ pc' \in [Goroutines -> States]
         /\ stack' \in [Goroutines -> Seq(Frame)]
         /\ \A h \in Goroutines : (stack'[h] # <<>>) <=> pc'[h] \in {"get", "step"}
<1>1. pc \in [Goroutines -> States] /\ stack \in [Goroutines -> Seq(Frame)]
  BY DEF TypeOK, States
<1>2. \A h \in Goroutines : (stack[h] # <<>>) <=> pc[h] \in {"get", "step"}
  BY DEF TypeOK
<1> QED  BY <1>1, <1>2

(* A step of one job leaves it dispatched, and the others alone.           *)
LEMMA GoroutineDispatched ==
  ASSUME TypeOK, Dispatched, NEW g \in Goroutines, NEW p \in States \ {"idle"},
         pc[g] \in Active, pc' = [pc EXCEPT ![g] = p],
         handler' = handler, DOMAIN tasks \subseteq DOMAIN tasks'
  PROVE  Dispatched'
<1> SUFFICES ASSUME NEW u \in Updates, NEW j \in Jobs
             PROVE  /\ handler'[u] = "new" => pc'[<<u, j>>] = "idle"
                    /\ pc'[<<u, j>>] \in Active => handler'[u] = "running"
                    /\ pc'[<<u, j>>] # "idle" =>
                         /\ j \in Subscribed(u)
                         /\ Empty(From[u]) \/ From[u] \in DOMAIN tasks'
  BY DEF Dispatched, Subscribed
<1>1. <<u, j>> \in Goroutines  BY DEF Goroutines
<1>2. pc'[<<u, j>>] = IF <<u, j>> = g THEN p ELSE pc[<<u, j>>]
  BY <1>1 DEF TypeOK
<1>3. /\ handler[u] = "new" => pc[<<u, j>>] = "idle"
      /\ pc[<<u, j>>] \in Active => handler[u] = "running"
      /\ pc[<<u, j>>] # "idle" =>
           j \in Subscribed(u) /\ (Empty(From[u]) \/ From[u] \in DOMAIN tasks)
  BY DEF Dispatched
<1>4. CASE <<u, j>> = g
  BY <1>2, <1>3, <1>4 DEF Active
<1>5. CASE <<u, j>> # g
  BY <1>2, <1>3, <1>5
<1> QED  BY <1>4, <1>5

(* Tickets.Update: what becomes of the two buckets.                        *)
LEMMA PutTicketType ==
  ASSUME StoreTypeOK, NEW t \in Ticket, t.ID \in TicketIDs, PutTicket(t)
  PROVE  /\ StoreTypeOK'
         /\ DOMAIN tickets' = DOMAIN tickets \cup {t.ID}
         /\ \A i \in DOMAIN tickets' :
              tickets'[i] = IF i = t.ID THEN t ELSE tickets[i]
         /\ DOMAIN refs' = DOMAIN refs \cup {TaskRef(l) : l \in Locators(t.Variations)}
         /\ \A r \in DOMAIN refs' :
              refs'[r] = IF r \in {TaskRef(l) : l \in Locators(t.Variations)}
                         THEN t.ID ELSE refs[r]
<1>1. t.Variations \in Variations  BY DEF Ticket
<1>2. Locators(t.Variations) \subseteq Locator  BY <1>1, LocatorsType
<1>3. tickets' = [i \in DOMAIN tickets \cup {t.ID} |-> IF i = t.ID THEN t ELSE tickets[i]]
  BY DEF PutTicket
<1>4. DEFINE own == {TaskRef(l) : l \in Locators(t.Variations)}
<1>5. refs' = [r \in DOMAIN refs \cup own |-> IF r \in own THEN t.ID ELSE refs[r]]
  BY DEF PutTicket
<1>6. own \subseteq {TaskRef(l) : l \in Locator}  BY <1>2
<1> HIDE DEF own
<1>7. /\ DOMAIN tickets' \subseteq TicketIDs
      /\ tickets' \in [DOMAIN tickets' -> Ticket]
      /\ \A i \in DOMAIN tickets' : tickets'[i].ID = i
  BY <1>3 DEF StoreTypeOK
<1>8. /\ DOMAIN refs' \subseteq {TaskRef(l) : l \in Locator}
      /\ refs' \in [DOMAIN refs' -> TicketIDs]
  BY <1>5, <1>6 DEF StoreTypeOK
<1>9. StoreTypeOK'  BY <1>7, <1>8 DEF StoreTypeOK
<1> QED  BY <1>3, <1>5, <1>9 DEF own

(* Save puts one ticket, under its own ID or under a fresh one.            *)
LEMMA SavePuts ==
  ASSUME TypeOK, NEW u \in Updates, NEW j \in Jobs, Save(u, j)
  PROVE  /\ Saved(<<u, j>>) \in Ticket
         /\ \E id \in TicketIDs :
              /\ PutTicket([Saved(<<u, j>>) EXCEPT !.ID = id])
              /\ IF Saved(<<u, j>>).ID = NoID THEN id \notin DOMAIN tickets
                                             ELSE id = Saved(<<u, j>>).ID
<1> DEFINE g == <<u, j>>
           t == Saved(<<u, j>>)
<1>1. g \in Goroutines /\ pc[g] = "step"  BY DEF Goroutines, Save
<1>2. Last(stack[g]).ticket \in Ticket  BY <1>1, TopOfStack
<1>3. From[g[1]] \in Locator  BY UpdatesAssumption
<1>4. t \in Ticket  BY <1>2, <1>3, PatchType DEF Saved
<1>5. IF t.ID = NoID THEN CreateTicket(t) ELSE PutTicket(t)  BY DEF Save
<1> HIDE DEF t
<1>6. CASE t.ID = NoID
  <2>1. \E id \in TicketIDs \ DOMAIN tickets : PutTicket([t EXCEPT !.ID = id])
    BY <1>5, <1>6, Zenon DEF CreateTicket
  <2> QED  BY <1>4, <1>6, <2>1, Zenon DEF t
<1>7. CASE t.ID # NoID
  <2>1. t.ID \in TicketIDs  BY <1>4, <1>7 DEF Ticket
  <2>2. [t EXCEPT !.ID = t.ID] = t  BY <1>4 DEF Ticket
  <2>3. PutTicket([t EXCEPT !.ID = t.ID])  BY <1>5, <1>7, <2>2
  <2> QED  BY <1>4, <1>7, <2>1, <2>3, Zenon DEF t
<1> QED  BY <1>6, <1>7

(* What a goroutine's step leaves to show when it only moves the goroutine. *)
LEMMA LocalType ==
  ASSUME TypeOK, Dispatched, NEW g \in Goroutines, pc[g] \in Active,
         NEW p \in States \ {"idle"}, NEW s \in Seq(Frame),
         (s # <<>>) <=> p \in {"get", "step"},
         pc' = [pc EXCEPT ![g] = p], stack' = [stack EXCEPT ![g] = s],
         UNCHANGED <<storeVars, tasks, owner, handler, expired, crashes>>
  PROVE  TypeOK' /\ Dispatched'
<1>1. /\ pc' \in [Goroutines -> States]
      /\ stack' \in [Goroutines -> Seq(Frame)]
      /\ \A h \in Goroutines : (stack'[h] # <<>>) <=> pc'[h] \in {"get", "step"}
  BY GoroutineType
<1>2. Dispatched'  BY GoroutineDispatched
<1>3. TypeOK'
  BY <1>1, Zenon DEF TypeOK, States, storeVars, StoreTypeOK
<1> QED  BY <1>2, <1>3

(* A job is started, or its update has timed out.                          *)
LEMMA SpawnType ==
  ASSUME TypeOK, Dispatched, NEW u \in Updates, NEW j \in Jobs, Spawn(u, j)
  PROVE  TypeOK' /\ Dispatched'
<1> DEFINE g == <<u, j>>
           p == IF u \in expired THEN "canceled" ELSE "waiting"
<1>1. g \in Goroutines /\ pc[g] \in Active /\ p \in States \ {"idle"}
  BY DEF Spawn, Goroutines, Active, States, Finished
<1>2. stack[g] = <<>> /\ stack[g] \in Seq(Frame)  BY <1>1 DEF TypeOK, Spawn
<1>3. stack' = [stack EXCEPT ![g] = stack[g]]  BY <1>1 DEF Spawn, TypeOK
<1> QED  BY <1>1, <1>2, <1>3, LocalType DEF Spawn

(* A job gets its place in the semaphore.                                  *)
LEMMA AcquireType ==
  ASSUME TypeOK, Dispatched, NEW u \in Updates, NEW j \in Jobs, Acquire(u, j)
  PROVE  TypeOK' /\ Dispatched'
<1> DEFINE g == <<u, j>>
<1>1. g \in Goroutines /\ pc[g] \in Active /\ "get" \in States \ {"idle"}
  BY DEF Acquire, Goroutines, Active, States
<1>2. NewFrame(j) \in Frame  BY NewFrameType, UpdatesAssumption
<1>3. <<NewFrame(j)>> \in Seq(Frame) /\ <<NewFrame(j)>> # <<>>  BY <1>2
<1> QED  BY <1>1, <1>3, LocalType DEF Acquire

(* A sequence starts from the stored ticket, or a new one.                 *)
LEMMA GetTicketType ==
  ASSUME TypeOK, Dispatched, NEW u \in Updates, NEW j \in Jobs, GetTicket(u, j)
  PROVE  TypeOK' /\ Dispatched'
<1> DEFINE g == <<u, j>>
           t == IF Found(From[u]) THEN TicketOf(From[u]) ELSE NewTicket
           f == [Last(stack[g]) EXCEPT !.ticket = WithOwn(t, From[u])]
<1>1. g \in Goroutines /\ pc[g] = "get" /\ "step" \in States \ {"idle"}
  BY DEF GetTicket, Goroutines, Active, States
<1>2. t \in Ticket
  BY NewTicketType DEF Found, TicketOf, TypeOK, StoreTypeOK
<1>3. WithOwn(t, From[u]) \in Ticket  BY <1>2, WithOwnType, UpdatesAssumption
<1>4. f \in Frame  BY <1>1, <1>3, TopOfStack DEF Frame
<1>5. stack[g] \in Seq(Frame) /\ stack[g] # <<>>  BY <1>1, TopOfStack
<1>6. ReplaceTop(stack[g], f) \in Seq(Frame) /\ ReplaceTop(stack[g], f) # <<>>
  BY <1>4, <1>5, ReplaceTopType
<1>7. stack' = [stack EXCEPT ![g] = ReplaceTop(stack[g], f)]  BY DEF GetTicket
<1> QED  BY <1>1, <1>6, <1>7, LocalType DEF GetTicket, Active

(* A condition holds, and the nested sequence starts, or it does not.      *)
LEMMA EvalIfType ==
  ASSUME TypeOK, Dispatched, NEW u \in Updates, NEW j \in Jobs, EvalIf(u, j)
  PROVE  TypeOK' /\ Dispatched'
<1> DEFINE g == <<u, j>>
           f == Next1(Last(stack[g]))
           after == ReplaceTop(stack[g], f)
           b == Head(Last(stack[g]).todo).then
<1>1. g \in Goroutines /\ pc[g] = "step"  BY DEF EvalIf, AtStep, Goroutines
<1>2. /\ stack[g] \in Seq(Frame) /\ stack[g] # <<>>
      /\ Last(stack[g]) \in Frame
      /\ Last(stack[g]).todo \in Seq(Step) /\ Last(stack[g]).todo # <<>>
      /\ Head(Last(stack[g]).todo).do = "if"
  BY <1>1, TopOfStack DEF EvalIf, AtStep
<1>3. Tail(Last(stack[g]).todo) \in Seq(Step) /\ Head(Last(stack[g]).todo) \in Step
  BY <1>2
<1>4. b \in Blocks  BY <1>2, <1>3 DEF Step
<1>5. f \in Frame  BY <1>2, <1>3 DEF Frame, Next1
<1>6. after \in Seq(Frame) /\ after # <<>>  BY <1>2, <1>5, ReplaceTopType
<1>7. Append(after, NewFrame(b)) \in Seq(Frame) /\ Append(after, NewFrame(b)) # <<>>
  BY <1>4, <1>6, NewFrameType
<1>8. /\ "step" \in Active /\ "step" \in States \ {"idle"}
      /\ "get" \in States \ {"idle"}
  BY DEF Active, States
<1>9. CASE stack' = [stack EXCEPT ![g] = after] /\ pc' = pc
  <2>1. pc' = [pc EXCEPT ![g] = "step"]  BY <1>1, <1>9 DEF TypeOK
  <2> QED  BY <1>1, <1>6, <1>8, <1>9, <2>1, LocalType DEF EvalIf
<1>10. CASE /\ stack' = [stack EXCEPT ![g] = Append(after, NewFrame(b))]
            /\ pc' = [pc EXCEPT ![g] = "get"]
  BY <1>1, <1>7, <1>8, <1>10, LocalType DEF EvalIf
<1> QED  BY <1>9, <1>10 DEF EvalIf

(* A job that fails has no activations left.                               *)
LEMMA FailType ==
  ASSUME TypeOK, Dispatched, NEW u \in Updates, NEW j \in Jobs,
         Fail(u, j) \/ CallRefused(u, j)
  PROVE  TypeOK' /\ Dispatched'
<1> DEFINE g == <<u, j>>
<1>1. g \in Goroutines /\ pc[g] \in Active /\ "failed" \in States \ {"idle"}
  BY DEF Fail, CallRefused, AtStep, Goroutines, Active, States, Finished
<1>2. EndFailed(g) /\ UNCHANGED <<storeVars, tasks, owner, handler, expired, crashes>>
  BY DEF Fail, CallRefused
<1>3. <<>> \in Seq(Frame)  OBVIOUS
<1> QED  BY <1>1, <1>2, <1>3, LocalType DEF EndFailed

(* The task a call is about is that of the ticket in memory.               *)
LEMMA StepTarget ==
  ASSUME TypeOK, NEW u \in Updates, NEW j \in Jobs, AtStep(<<u, j>>, "action")
  PROVE  LET g == <<u, j>> trk == Head(Last(stack[g]).todo).tracker IN
         /\ g \in Goroutines /\ pc[g] = "step"
         /\ Last(stack[g]).todo # <<>>
         /\ trk \in Trackers
         /\ Target(g) = [Tracker |-> trk, ID |-> Get(Last(stack[g]).ticket.Variations, trk)]
         /\ Target(g) \in Locator
<1> DEFINE g == <<u, j>>
           trk == Head(Last(stack[g]).todo).tracker
<1>1. g \in Goroutines /\ pc[g] = "step"  BY DEF AtStep, Goroutines
<1>2. /\ Last(stack[g]).todo \in Seq(Step) /\ Last(stack[g]).todo # <<>>
      /\ Head(Last(stack[g]).todo).do = "action"
  BY <1>1, TopOfStack DEF AtStep
<1>3. Head(Last(stack[g]).todo) \in Step  BY <1>2
<1>4. trk \in Trackers  BY <1>2, <1>3 DEF Step
<1>5. Last(stack[g]).ticket.Variations \in Variations  BY <1>1, TopOfStack DEF Ticket
<1>6. Get(Last(stack[g]).ticket.Variations, trk) \in TaskIDs  BY <1>4, <1>5, GetType
<1> QED  BY <1>1, <1>2, <1>4, <1>6 DEF Target, Locator

(* The issue of an update is known while a job of it runs.                 *)
LEMMA SubjectType ==
  ASSUME TypeOK, Dispatched, NEW u \in Updates, NEW j \in Jobs, pc[<<u, j>>] # "idle"
  PROVE  /\ Subject(u) \in InitialTasks \cup Updates
         /\ ~Empty(From[u]) => From[u] \in DOMAIN tasks
BY DEF Subject, Dispatched, TypeOK

(* A tracker only adds tasks, of the issue the update is about.            *)
LEMMA ExecuteType ==
  ASSUME TypeOK, NEW u \in Updates, NEW l \in Locator, NEW id \in TaskIDs,
         Subject(u) \in InitialTasks \cup Updates,
         Execute(u, l, id)
  PROVE  /\ tasks' \in [DOMAIN tasks' -> InitialTasks \cup Updates]
         /\ DOMAIN tasks \subseteq DOMAIN tasks'
         /\ DOMAIN tasks' \subseteq {m \in Locator : ~Empty(m)}
         /\ \A m \in DOMAIN tasks : tasks'[m] = tasks[m]
         /\ \A m \in DOMAIN tasks' \ DOMAIN tasks :
              m = [l EXCEPT !.ID = id] /\ tasks'[m] = Subject(u)
         /\ ~Empty([l EXCEPT !.ID = id]) =>
              \/ [l EXCEPT !.ID = id] \in DOMAIN tasks' \ DOMAIN tasks
              \/ [l EXCEPT !.ID = id] = l
<1> DEFINE m == [l EXCEPT !.ID = id]
<1>1. m \in Locator /\ m.ID = id /\ m.Tracker # NoID /\ (id = l.ID => m = l)
  BY NamesAssumption DEF Locator
<1>2. /\ tasks \in [DOMAIN tasks -> InitialTasks \cup Updates]
      /\ DOMAIN tasks \subseteq {x \in Locator : ~Empty(x)}
  BY DEF TypeOK
<1>3. CASE l.Tracker \in Silent
  <2>1. id = NoID /\ tasks' = tasks  BY <1>3 DEF Execute
  <2> QED  BY <1>1, <1>2, <2>1 DEF Empty
<1>4. CASE l.Tracker \notin Silent /\ l.ID = NoID
  <2>1. /\ id # NoID /\ m \notin DOMAIN tasks
        /\ tasks' = [x \in DOMAIN tasks \cup {m} |->
                       IF x = m THEN Subject(u) ELSE tasks[x]]
    BY <1>4 DEF Execute
  <2>2. ~Empty(m)  BY <1>1, <2>1 DEF Empty
  <2> HIDE DEF m
  <2> QED  BY <1>1, <1>2, <2>1, <2>2 DEF m
<1>5. CASE l.Tracker \notin Silent /\ l.ID # NoID
  <2>1. id = l.ID /\ tasks' = tasks  BY <1>5 DEF Execute
  <2> QED  BY <1>1, <1>2, <2>1
<1> QED  BY <1>3, <1>4, <1>5

(* The answer of a call adds at most one task to the ticket in memory.     *)
LEMMA AfterActionType ==
  ASSUME NEW f \in Frame, NEW l \in Locator, NEW trk \in Trackers, NEW id \in TaskIDs,
         f.todo # <<>>
  PROVE  /\ AfterAction(f, l, trk, id) \in Frame
         /\ AfterAction(f, l, trk, id).ticket.ID = f.ticket.ID
         /\ Locators(AfterAction(f, l, trk, id).ticket.Variations) \subseteq
              Locators(f.ticket.Variations) \cup {[Tracker |-> trk, ID |-> id]}
<1>1. /\ f.todo \in Seq(Step) /\ f.ticket \in Ticket /\ f.modifies \in BOOLEAN
      /\ f.ticket.Variations \in Variations
  BY DEF Frame, Ticket
<1>2. Tail(f.todo) \in Seq(Step)  BY <1>1
<1>3. (f.modifies \/ l.Tracker = trk) \in BOOLEAN  OBVIOUS
<1>4. /\ [f.ticket EXCEPT !.Variations = Set(@, trk, id)] \in Ticket
      /\ [f.ticket EXCEPT !.Variations = Set(@, trk, id)].ID = f.ticket.ID
      /\ Locators([f.ticket EXCEPT !.Variations = Set(@, trk, id)].Variations) \subseteq
           Locators(f.ticket.Variations) \cup {[Tracker |-> trk, ID |-> id]}
  BY <1>1, SetType, SetTicketType
<1> QED  BY <1>2, <1>3, <1>4 DEF AfterAction, Frame

(* A call, whatever comes of it.                                           *)
LEMMA CallType ==
  ASSUME TypeOK, Dispatched, NEW u \in Updates, NEW j \in Jobs,
         AtStep(<<u, j>>, "action"), NEW id \in TaskIDs,
         UNCHANGED <<storeVars, owner, handler, expired, crashes>>,
         Execute(u, Target(<<u, j>>), id) \/ tasks' = tasks,
         Answered(<<u, j>>, id) \/ EndFailed(<<u, j>>)
  PROVE  TypeOK' /\ Dispatched'
<1> DEFINE g == <<u, j>>
           trk == Target(g).Tracker
           f == AfterAction(Last(stack[g]), From[u], trk, id)
<1>1. /\ g \in Goroutines /\ pc[g] = "step" /\ Last(stack[g]).todo # <<>>
      /\ trk \in Trackers /\ Target(g) \in Locator
  BY StepTarget DEF Locator
<1>2. /\ tasks' \in [DOMAIN tasks' -> InitialTasks \cup Updates]
      /\ DOMAIN tasks \subseteq DOMAIN tasks'
      /\ DOMAIN tasks' \subseteq {m \in Locator : ~Empty(m)}
  <2>1. CASE tasks' = tasks  BY <2>1 DEF TypeOK
  <2>2. CASE Execute(u, Target(g), id)
    <3>1. Subject(u) \in InitialTasks \cup Updates  BY <1>1, SubjectType
    <3> QED  BY <1>1, <2>2, <3>1, ExecuteType
  <2> QED  BY <2>1, <2>2
<1>3. /\ stack[g] \in Seq(Frame) /\ stack[g] # <<>> /\ Last(stack[g]) \in Frame
  BY <1>1, TopOfStack
<1>4. f \in Frame  BY <1>1, <1>3, AfterActionType, UpdatesAssumption
<1>5. ReplaceTop(stack[g], f) \in Seq(Frame) /\ ReplaceTop(stack[g], f) # <<>>
  BY <1>3, <1>4, ReplaceTopType
<1>6. \E p \in States \ {"idle"}, s \in Seq(Frame) :
        /\ (s # <<>>) <=> p \in {"get", "step"}
        /\ pc' = [pc EXCEPT ![g] = p] /\ stack' = [stack EXCEPT ![g] = s]
  <2>1. CASE Answered(g, id)
    <3>1. pc' = [pc EXCEPT ![g] = "step"]  BY <1>1, <2>1 DEF TypeOK, Answered
    <3>2. stack' = [stack EXCEPT ![g] = ReplaceTop(stack[g], f)]
      BY <2>1 DEF Answered
    <3>3. "step" \in States \ {"idle"}  BY DEF States, Active
    <3> HIDE DEF f
    <3> QED  BY <1>5, <3>1, <3>2, <3>3
  <2>2. CASE EndFailed(g)
    <3>1. "failed" \in States \ {"idle"} /\ <<>> \in Seq(Frame)
      BY DEF States, Finished
    <3> QED  BY <2>2, <3>1 DEF EndFailed
  <2> QED  BY <2>1, <2>2
<1>7. pc[g] \in Active  BY <1>1 DEF Active
<1>8. PICK p \in States \ {"idle"}, s \in Seq(Frame) :
        /\ (s # <<>>) <=> p \in {"get", "step"}
        /\ pc' = [pc EXCEPT ![g] = p] /\ stack' = [stack EXCEPT ![g] = s]
  BY <1>6
<1>9. /\ pc' \in [Goroutines -> States]
      /\ stack' \in [Goroutines -> Seq(Frame)]
      /\ \A h \in Goroutines : (stack'[h] # <<>>) <=> pc'[h] \in {"get", "step"}
  BY <1>1, <1>8, GoroutineType
<1>10. Dispatched'  BY <1>1, <1>2, <1>7, <1>8, GoroutineDispatched
<1>11. /\ StoreTypeOK' /\ owner' \in [DOMAIN tickets' -> InitialTasks \cup Updates]
       /\ handler' \in [Updates -> {"new", "running", "returned", "lost"}]
       /\ expired' \subseteq Updates /\ crashes' \in 0..MaxCrashes
  BY DEF TypeOK, StoreTypeOK, storeVars
<1>12. InitialTasks \subseteq DOMAIN tasks'  BY <1>2 DEF TypeOK
<1> QED  BY <1>2, <1>9, <1>10, <1>11, <1>12 DEF TypeOK, States

(* A sequence ends: its ticket is stored and the enclosing one goes on.    *)
LEMMA SaveType ==
  ASSUME TypeOK, Dispatched, NEW u \in Updates, NEW j \in Jobs, Save(u, j)
  PROVE  TypeOK' /\ Dispatched'
<1> DEFINE g == <<u, j>>
           p == IF Len(stack[g]) = 1 THEN "ok" ELSE "step"
<1>1. g \in Goroutines /\ pc[g] = "step" /\ pc[g] \in Active
  BY DEF Save, Goroutines, Active
<1>2. stack[g] \in Seq(Frame) /\ stack[g] # <<>>  BY <1>1, TopOfStack
<1>3. /\ Front(stack[g]) \in Seq(Frame) /\ Len(stack[g]) \in Nat \ {0}
      /\ Len(Front(stack[g])) = Len(stack[g]) - 1
  BY <1>2, TopType
<1>4. Front(stack[g]) # <<>> <=> p \in {"get", "step"}
  <2>1. \A s \in Seq(Frame) : s = <<>> <=> Len(s) = 0  OBVIOUS
  <2>2. CASE Len(stack[g]) = 1  BY <1>3, <2>1, <2>2
  <2>3. CASE Len(stack[g]) # 1
    <3>1. Len(Front(stack[g])) # 0  BY <1>3, <2>3
    <3>2. Front(stack[g]) # <<>>  BY <1>3, <2>1, <3>1
    <3> QED  BY <2>3, <3>2
  <2> QED  BY <2>2, <2>3
<1>5. p \in States \ {"idle"}  BY DEF States, Active, Finished
<1>6. pc' = [pc EXCEPT ![g] = p] /\ stack' = [stack EXCEPT ![g] = Front(stack[g])]
  BY DEF Save
<1>7. /\ pc' \in [Goroutines -> States]
      /\ stack' \in [Goroutines -> Seq(Frame)]
      /\ \A h \in Goroutines : (stack'[h] # <<>>) <=> pc'[h] \in {"get", "step"}
  BY <1>1, <1>3, <1>4, <1>5, <1>6, GoroutineType
<1>8. handler' = handler /\ DOMAIN tasks \subseteq DOMAIN tasks'  BY DEF Save
<1>9. Dispatched'  BY <1>1, <1>5, <1>6, <1>8, GoroutineDispatched
<1>10. PICK id \in TicketIDs : PutTicket([Saved(g) EXCEPT !.ID = id])
  BY SavePuts
<1>11. /\ [Saved(g) EXCEPT !.ID = id] \in Ticket
       /\ [Saved(g) EXCEPT !.ID = id].ID = id
  BY SavePuts DEF Ticket
<1>12. StoreTypeOK'  BY <1>10, <1>11, PutTicketType DEF TypeOK
<1>13. Subject(u) \in InitialTasks \cup Updates  BY <1>1, SubjectType
<1>14. owner' \in [DOMAIN tickets' -> InitialTasks \cup Updates]
  BY <1>13 DEF Save, TypeOK
<1> QED  BY <1>7, <1>9, <1>12, <1>14 DEF TypeOK, States, Save

(* An update of a task that exists arrives.                                *)
LEMMA HandleUpdateType ==
  ASSUME TypeOK, Dispatched, NEW u \in Updates, HandleUpdate(u)
  PROVE  TypeOK' /\ Dispatched'
<1>1. \A g \in Goroutines : g[1] \in Updates /\ g[2] \in Jobs /\ g = <<g[1], g[2]>>
  BY DEF Goroutines
<1>2. \A g \in Goroutines : g[1] = u => pc[g] = "idle"
  BY <1>1 DEF Dispatched, HandleUpdate
<1>3. \A g \in Goroutines :
        pc'[g] = IF g[1] = u /\ g[2] \in Subscribed(u) THEN "spawned" ELSE pc[g]
  BY DEF HandleUpdate
<1>4. \A v \in Updates : handler'[v] = IF v = u THEN "running" ELSE handler[v]
  BY DEF HandleUpdate, TypeOK
<1>5. TypeOK'
  <2>1. /\ pc' \in [Goroutines -> {"idle"} \cup Active \cup Finished]
        /\ \A g \in Goroutines : (stack'[g] # <<>>) <=> pc'[g] \in {"get", "step"}
        /\ stack' \in [Goroutines -> Seq(Frame)]
    BY <1>2, <1>3 DEF HandleUpdate, TypeOK, Active
  <2>2. handler' \in [Updates -> {"new", "running", "returned", "lost"}]
    BY DEF HandleUpdate, TypeOK
  <2> QED  BY <2>1, <2>2, Zenon DEF HandleUpdate, TypeOK, storeVars, StoreTypeOK
<1>6. Dispatched'
  <2> SUFFICES ASSUME NEW v \in Updates, NEW j \in Jobs
               PROVE  /\ handler'[v] = "new" => pc'[<<v, j>>] = "idle"
                      /\ pc'[<<v, j>>] \in Active => handler'[v] = "running"
                      /\ pc'[<<v, j>>] # "idle" =>
                           /\ j \in Subscribed(v)
                           /\ Empty(From[v]) \/ From[v] \in DOMAIN tasks'
    BY DEF Dispatched, Subscribed
  <2>0. tasks' = tasks  BY DEF HandleUpdate
  <2>1. <<v, j>> \in Goroutines  BY DEF Goroutines
  <2>2. /\ handler[v] = "new" => pc[<<v, j>>] = "idle"
        /\ pc[<<v, j>>] \in Active => handler[v] = "running"
        /\ pc[<<v, j>>] # "idle" =>
             j \in Subscribed(v) /\ (Empty(From[v]) \/ From[v] \in DOMAIN tasks)
    BY DEF Dispatched
  <2>3. pc'[<<v, j>>] = IF v = u /\ j \in Subscribed(u) THEN "spawned" ELSE pc[<<v, j>>]
    BY <1>3, <2>1
  <2>4. Empty(From[u]) \/ From[u] \in DOMAIN tasks  BY DEF HandleUpdate, Empty
  <2>5. CASE v = u
    <3>1. pc[<<v, j>>] = "idle" /\ handler'[v] = "running"
      BY <1>2, <1>4, <2>1, <2>5
    <3> QED  BY <2>0, <2>3, <2>4, <2>5, <3>1
  <2>6. CASE v # u  BY <1>4, <2>0, <2>2, <2>3, <2>6
  <2> QED  BY <2>5, <2>6
<1> QED  BY <1>5, <1>6

(* handleUpdate returns after its jobs, or its context expires.            *)
LEMMA ReturnType ==
  ASSUME TypeOK, Dispatched, NEW u \in Updates, Return(u) \/ Expire(u)
  PROVE  TypeOK' /\ Dispatched'
<1>1. /\ handler' \in [Updates -> {"new", "running", "returned", "lost"}]
      /\ expired' \subseteq Updates
  BY DEF TypeOK, Return, Expire
<1>2. UNCHANGED <<storeVars, tasks, owner, pc, stack, crashes>>
  BY DEF Return, Expire
<1>3. TypeOK'  BY <1>1, <1>2, Zenon DEF TypeOK, storeVars, StoreTypeOK
<1>4. Dispatched'
  <2> SUFFICES ASSUME NEW v \in Updates, NEW j \in Jobs
               PROVE  /\ handler'[v] = "new" => pc[<<v, j>>] = "idle"
                      /\ pc[<<v, j>>] \in Active => handler'[v] = "running"
    BY <1>2 DEF Dispatched, Subscribed
  <2>1. /\ handler[v] = "new" => pc[<<v, j>>] = "idle"
        /\ pc[<<v, j>>] \in Active => handler[v] = "running"
        /\ pc[<<v, j>>] # "idle" => j \in Subscribed(v)
    BY DEF Dispatched
  <2>2. CASE Return(u) /\ v = u
    <3>1. handler'[v] = "returned"  BY <2>2 DEF Return, TypeOK
    <3>2. j \in Subscribed(v) => pc[<<v, j>>] \in Finished  BY <2>2 DEF Return
    <3> QED  BY <2>1, <3>1, <3>2 DEF Active, Finished
  <2>3. CASE ~(Return(u) /\ v = u)
    <3>1. handler'[v] = handler[v]  BY <2>3 DEF Return, Expire, TypeOK
    <3> QED  BY <2>1, <3>1
  <2> QED  BY <2>2, <2>3
<1> QED  BY <1>3, <1>4

(* A crash ends all jobs.                                                  *)
LEMMA CrashType ==
  ASSUME TypeOK, Dispatched, Crash
  PROVE  TypeOK' /\ Dispatched'
<1>1. \A g \in Goroutines : g[1] \in Updates /\ g[2] \in Jobs /\ g = <<g[1], g[2]>>
  BY DEF Goroutines
<1>2. \A g \in Goroutines : pc'[g] = IF handler[g[1]] = "running" THEN "idle" ELSE pc[g]
  BY DEF Crash
<1>3. \A g \in Goroutines : pc'[g] \notin Active
  BY <1>1, <1>2 DEF Dispatched, Active
<1>4. TypeOK'
  <2>1. /\ pc' \in [Goroutines -> {"idle"} \cup Active \cup Finished]
        /\ stack' \in [Goroutines -> Seq(Frame)]
        /\ \A g \in Goroutines : (stack'[g] # <<>>) <=> pc'[g] \in {"get", "step"}
    BY <1>3 DEF Crash, TypeOK, Active
  <2>2. /\ handler' \in [Updates -> {"new", "running", "returned", "lost"}]
        /\ expired' \subseteq Updates
        /\ crashes' \in 0..MaxCrashes
    BY UpdatesAssumption DEF Crash, TypeOK
  <2> QED  BY <2>1, <2>2, Zenon DEF Crash, TypeOK, storeVars, StoreTypeOK
<1>5. Dispatched'
  <2> SUFFICES ASSUME NEW v \in Updates, NEW j \in Jobs
               PROVE  /\ handler'[v] = "new" => pc'[<<v, j>>] = "idle"
                      /\ pc'[<<v, j>>] \notin Active
                      /\ pc'[<<v, j>>] # "idle" =>
                           /\ j \in Subscribed(v)
                           /\ Empty(From[v]) \/ From[v] \in DOMAIN tasks
    BY DEF Dispatched, Subscribed, Crash
  <2>1. <<v, j>> \in Goroutines  BY DEF Goroutines
  <2>2. pc'[<<v, j>>] = IF handler[v] = "running" THEN "idle" ELSE pc[<<v, j>>]
    BY <1>2, <2>1
  <2>3. handler'[v] = IF handler[v] = "running" THEN "lost" ELSE handler[v]
    BY DEF Crash
  <2> QED  BY <1>3, <2>1, <2>2, <2>3 DEF Dispatched
<1> QED  BY <1>4, <1>5

(* The state of the program is always of its type, and jobs run only while *)
(* their update is handled and of a task that exists (actor.go:67-101).    *)
THEOREM TypeCorrect == Spec => [](TypeOK /\ Dispatched)
<1>1. Init => TypeOK /\ Dispatched
  <2> SUFFICES ASSUME Init PROVE TypeOK /\ Dispatched  OBVIOUS
  <2>1. StoreTypeOK  BY DEF Init, StoreInit, StoreTypeOK
  <2>2. /\ tasks \in [DOMAIN tasks -> InitialTasks \cup Updates]
        /\ InitialTasks \subseteq DOMAIN tasks
        /\ DOMAIN tasks \subseteq {l \in Locator : ~Empty(l)}
        /\ owner \in [DOMAIN tickets -> InitialTasks \cup Updates]
    BY UpdatesAssumption DEF Init, StoreInit
  <2>3. /\ handler \in [Updates -> {"new", "running", "returned", "lost"}]
        /\ expired \subseteq Updates
        /\ pc \in [Goroutines -> {"idle"} \cup Active \cup Finished]
        /\ stack \in [Goroutines -> Seq(Frame)]
        /\ \A g \in Goroutines : (stack[g] # <<>>) <=> pc[g] \in {"get", "step"}
        /\ crashes \in 0..MaxCrashes
    BY UpdatesAssumption DEF Init
  <2>4. Dispatched
    <3>1. \A u \in Updates, j \in Jobs : <<u, j>> \in Goroutines  BY DEF Goroutines
    <3> QED  BY <3>1 DEF Init, Dispatched, Active
  <2> QED  BY <2>1, <2>2, <2>3, <2>4 DEF TypeOK
<1>2. TypeOK /\ Dispatched /\ [Next]_vars => TypeOK' /\ Dispatched'
  <2> SUFFICES ASSUME TypeOK, Dispatched, [Next]_vars PROVE TypeOK' /\ Dispatched'
    OBVIOUS
  <2>1. CASE UNCHANGED vars
    BY <2>1, Zenon DEF vars, storeVars, TypeOK, StoreTypeOK, Dispatched, Subscribed
  <2>2. ASSUME NEW u \in Updates, HandleUpdate(u) \/ Expire(u) \/ Return(u)
        PROVE  TypeOK' /\ Dispatched'
    BY <2>2, HandleUpdateType, ReturnType
  <2>3. ASSUME NEW u \in Updates, NEW j \in Jobs, Local(u, j)
        PROVE  TypeOK' /\ Dispatched'
    BY <2>3, SpawnType, AcquireType, GetTicketType, EvalIfType, SaveType DEF Local
  <2>4. ASSUME NEW u \in Updates, NEW j \in Jobs, Fail(u, j) \/ Call(u, j)
        PROVE  TypeOK' /\ Dispatched'
    <3>1. CASE Fail(u, j) \/ CallRefused(u, j)  BY <3>1, FailType
    <3>2. CASE CallAnswered(u, j)  BY <3>2, CallType DEF CallAnswered
    <3>3. CASE CallLost(u, j)  BY <3>3, CallType DEF CallLost
    <3>4. CASE CallSkipped(u, j)
      BY <3>4, CallType, NamesAssumption DEF CallSkipped
    <3> QED  BY <2>4, <3>1, <3>2, <3>3, <3>4 DEF Call
  <2>5. CASE Crash  BY <2>5, CrashType
  <2> QED  BY <2>1, <2>2, <2>3, <2>4, <2>5 DEF Next
<1> QED  BY <1>1, <1>2, PTL DEF Spec
-----------------------------------------------------------------------------
(* The separation of issues.  Tasks and tickets only ever get more, and    *)
(* what is known of the old ones stays.                                    *)
Grows ==
  /\ DOMAIN tasks \subseteq DOMAIN tasks'
  /\ \A l \in DOMAIN tasks : tasks'[l] = tasks[l]
  /\ DOMAIN tickets \subseteq DOMAIN tickets'
  /\ \A i \in DOMAIN tickets : owner'[i] = owner[i]

(* The issue of an update does not change while tasks only appear.         *)
LEMMA SubjectStays ==
  ASSUME Dispatched, Grows, NEW g \in Goroutines, pc[g] # "idle"
  PROVE  Subject(g[1])' = Subject(g[1])
<1>1. g[1] \in Updates /\ g[2] \in Jobs /\ g = <<g[1], g[2]>>  BY DEF Goroutines
<1>2. Empty(From[g[1]]) \/ From[g[1]] \in DOMAIN tasks  BY <1>1 DEF Dispatched
<1> QED  BY <1>2 DEF Subject, Grows

(* A copy in memory stays its issue's while tasks only appear.             *)
LEMMA OwnedFrameStays ==
  ASSUME Dispatched, Grows, NEW g \in Goroutines, pc[g] # "idle",
         NEW t, OwnedFrame(g, t)
  PROVE  OwnedFrame(g, t)'
<1>1. Subject(g[1])' = Subject(g[1])  BY SubjectStays
<1>2. Owned(t.Variations, Subject(g[1]))'
  BY <1>1 DEF OwnedFrame, Owned, Grows
<1>3. (t.ID # NoID => t.ID \in DOMAIN tickets /\ owner[t.ID] = Subject(g[1]))'
  BY <1>1 DEF OwnedFrame, Grows
<1> QED  BY <1>2, <1>3 DEF OwnedFrame

(* A step of goroutine g keeps the frames of all others.                   *)
LEMMA OwnedFramesStep ==
  ASSUME TypeOK, Dispatched, OwnedFrames, Grows, NEW g \in Goroutines,
         NEW s \in Seq(Frame), stack' = [stack EXCEPT ![g] = s],
         \A k \in DOMAIN s : OwnedFrame(g, s[k].ticket)'
  PROVE  OwnedFrames'
<1> SUFFICES ASSUME NEW h \in Goroutines, NEW k \in DOMAIN stack'[h]
             PROVE  OwnedFrame(h, stack[h][k].ticket)'
  BY DEF OwnedFrames
<1>1. CASE h = g
  <2>1. stack'[h] = s  BY <1>1 DEF TypeOK
  <2> QED  BY <1>1, <2>1
<1>2. CASE h # g
  <2>1. stack'[h] = stack[h]  BY <1>2 DEF TypeOK
  <2>2. PICK t : t = stack[h][k].ticket  OBVIOUS
  <2>3. OwnedFrame(h, t)  BY <2>1, <2>2 DEF OwnedFrames
  <2>4. stack[h] # <<>>  BY <2>1
  <2>5. pc[h] # "idle"  BY <2>4 DEF TypeOK
  <2>6. OwnedFrame(h, t)'  BY <2>3, <2>5, OwnedFrameStays
  <2> QED  BY <2>1, <2>2, <2>6
<1> QED  BY <1>1, <1>2

(* A goroutine that rewrites its innermost frame, or adds or drops one.    *)
LEMMA OwnedTopStep ==
  ASSUME TypeOK, Dispatched, OwnedFrames, Grows, NEW g \in Goroutines,
         pc[g] \in {"get", "step"}, NEW f \in Frame, OwnedFrame(g, f.ticket)',
         stack' = [stack EXCEPT ![g] = ReplaceTop(@, f)]
  PROVE  OwnedFrames'
<1>1. stack[g] \in Seq(Frame) /\ stack[g] # <<>>  BY TopOfStack
<1> DEFINE r == ReplaceTop(stack[g], f)
<1>2. /\ r \in Seq(Frame)
      /\ Len(r) = Len(stack[g])
      /\ \A k \in 1..Len(stack[g]) : r[k] \in {f, stack[g][k]}
  <2>1. r \in Seq(Frame) /\ Len(r) = Len(stack[g])  BY <1>1, ReplaceTopType
  <2>2. \A k \in 1..Len(stack[g]) : r[k] \in {f, stack[g][k]}
    BY <1>1, ReplaceTopType
  <2> QED  BY <2>1, <2>2
<1> HIDE DEF r
<1>3. PICK s \in Seq(Frame) :
        /\ s = r
        /\ Len(s) = Len(stack[g])
        /\ \A k \in 1..Len(stack[g]) : s[k] \in {f, stack[g][k]}
  BY <1>2
<1>4. stack' = [stack EXCEPT ![g] = s]  BY <1>3 DEF r
<1>5. ASSUME NEW k \in DOMAIN s PROVE OwnedFrame(g, s[k].ticket)'
  <2>1. k \in 1..Len(stack[g]) /\ k \in DOMAIN stack[g]  BY <1>1, <1>3
  <2>2. CASE s[k] = f  BY <2>2
  <2>3. CASE s[k] = stack[g][k]
    <3>1. OwnedFrame(g, s[k].ticket)  BY <2>1, <2>3 DEF OwnedFrames
    <3> QED  BY <3>1, OwnedFrameStays
  <2> QED  BY <1>3, <2>1, <2>2, <2>3
<1> QED  BY <1>3, <1>4, <1>5, OwnedFramesStep

(* A step that touches neither storage nor trackers adds no task.          *)
LEMMA QuietGrows ==
  ASSUME UNCHANGED <<storeVars, tasks, owner>>
  PROVE  Grows
BY DEF Grows, storeVars

(* Such a step is right if the copies in memory are.                       *)
LEMMA QuietOwnership ==
  ASSUME RefsSound, Ownership, UNCHANGED <<storeVars, tasks, owner>>, OwnedFrames'
  PROVE  RefsSound' /\ Ownership'
BY DEF RefsSound, Ownership, OwnedTickets, OwnedRefs, Owned, storeVars

(* What an update is about is known while a job of it runs.                *)
LEMMA OwnLocator ==
  ASSUME Dispatched, NEW u \in Updates, NEW j \in Jobs, pc[<<u, j>>] # "idle",
         ~Empty(From[u])
  PROVE  From[u] \in DOMAIN tasks /\ tasks[From[u]] = Subject(u)
BY DEF Dispatched, Subject

(* The ticket found for a task is its issue's: no job starts from a ticket *)
(* of another one (actor.go:200-208).                                      *)
LEMMA GetTicketOwned ==
  ASSUME TypeOK, Dispatched, RefsSound, Ownership,
         NEW u \in Updates, NEW j \in Jobs, GetTicket(u, j)
  PROVE  RefsSound' /\ Ownership'
<1> DEFINE g == <<u, j>>
           l == From[u]
           t == IF Found(l) THEN TicketOf(l) ELSE NewTicket
           top == [Last(stack[g]) EXCEPT !.ticket = WithOwn(t, l)]
<1>1. g \in Goroutines /\ pc[g] \in {"get", "step"} /\ pc[g] # "idle" /\ g[1] = u
  BY DEF GetTicket, Goroutines
<1>2. l \in Locator  BY UpdatesAssumption
<1>3. t \in Ticket /\ OwnedFrame(g, t)
  <2>1. CASE Found(l)
    <3>1. /\ ~Empty(l) /\ TaskRef(l) \in DOMAIN refs
          /\ refs[TaskRef(l)] \in DOMAIN tickets
          /\ t = tickets[refs[TaskRef(l)]]
      BY <2>1 DEF Found, TicketOf
    <3>2. owner[refs[TaskRef(l)]] = Subject(u)
      BY <1>1, <1>2, <3>1, OwnLocator DEF Ownership, OwnedRefs
    <3>3. t \in Ticket /\ t.ID = refs[TaskRef(l)]
      BY <3>1 DEF TypeOK, StoreTypeOK
    <3>4. Owned(t.Variations, Subject(u))
      BY <3>1, <3>2 DEF Ownership, OwnedTickets
    <3> QED  BY <1>1, <3>1, <3>2, <3>3, <3>4 DEF OwnedFrame
  <2>2. CASE ~Found(l)
    <3>1. t = NewTicket  BY <2>2
    <3> QED  BY <3>1, NewTicketType DEF OwnedFrame, Owned, NewTicket
  <2> QED  BY <2>1, <2>2
<1> HIDE DEF t
<1>4. WithOwn(t, l) \in Ticket /\ OwnedFrame(g, WithOwn(t, l))
  <2>1. /\ WithOwn(t, l) \in Ticket /\ WithOwn(t, l).ID = t.ID
        /\ Locators(WithOwn(t, l).Variations) \subseteq Locators(t.Variations) \cup {l}
    BY <1>2, <1>3, WithOwnType
  <2>2. ~Empty(l) => l \in DOMAIN tasks /\ tasks[l] = Subject(u)
    BY <1>1, OwnLocator
  <2> QED  BY <1>1, <1>3, <2>1, <2>2 DEF OwnedFrame, Owned
<1>5. top \in Frame /\ top.ticket = WithOwn(t, l)
  BY <1>1, <1>4, TopOfStack DEF Frame
<1>6. stack' = [stack EXCEPT ![g] = ReplaceTop(@, top)]  BY DEF GetTicket, t
<1>7. Grows /\ UNCHANGED <<storeVars, tasks, owner>>  BY QuietGrows DEF GetTicket
<1>8. PICK f \in Frame : f = top  BY <1>5
<1>9. OwnedFrame(g, f.ticket)  BY <1>4, <1>5, <1>8
<1>10. OwnedFrame(g, f.ticket)'  BY <1>1, <1>7, <1>9, OwnedFrameStays
<1> HIDE DEF top
<1>11. OwnedFrames'
  BY <1>1, <1>6, <1>7, <1>8, <1>10, OwnedTopStep DEF Ownership
<1> QED  BY <1>7, <1>11, QuietOwnership

(* A new activation starts with an empty ticket.                           *)
LEMMA NewFrameOwned ==
  \A b \in Blocks, g \in Goroutines : OwnedFrame(g, NewFrame(b).ticket)
BY NewTicketType DEF NewFrame, OwnedFrame, Owned, NewTicket

(* A job starts without a ticket.                                          *)
LEMMA AcquireOwned ==
  ASSUME TypeOK, Dispatched, RefsSound, Ownership,
         NEW u \in Updates, NEW j \in Jobs, Acquire(u, j)
  PROVE  RefsSound' /\ Ownership'
<1> DEFINE g == <<u, j>>
<1>1. g \in Goroutines /\ pc[g] # "idle" /\ j \in Blocks
  BY UpdatesAssumption DEF Acquire, Goroutines
<1>2. Grows /\ UNCHANGED <<storeVars, tasks, owner>>  BY QuietGrows DEF Acquire
<1>3. PICK f \in Frame : f = NewFrame(j)  BY <1>1, NewFrameType
<1>4. OwnedFrame(g, f.ticket)'  BY <1>1, <1>2, <1>3, NewFrameOwned, OwnedFrameStays
<1>5. <<f>> \in Seq(Frame) /\ stack' = [stack EXCEPT ![g] = <<f>>]
  BY <1>3 DEF Acquire
<1>6. \A k \in DOMAIN <<f>> : <<f>>[k] = f  OBVIOUS
<1>7. \A k \in DOMAIN <<f>> : OwnedFrame(g, <<f>>[k].ticket)'  BY <1>4, <1>6
<1>8. OwnedFrames'  BY <1>1, <1>2, <1>5, <1>7, OwnedFramesStep DEF Ownership
<1> QED  BY <1>2, <1>8, QuietOwnership

(* A nested sequence starts without a ticket.                              *)
LEMMA EvalIfOwned ==
  ASSUME TypeOK, Dispatched, RefsSound, Ownership,
         NEW u \in Updates, NEW j \in Jobs, EvalIf(u, j)
  PROVE  RefsSound' /\ Ownership'
<1> DEFINE g == <<u, j>>
           f == Next1(Last(stack[g]))
           after == ReplaceTop(stack[g], f)
           b == Head(Last(stack[g]).todo).then
<1>1. g \in Goroutines /\ pc[g] = "step" /\ pc[g] # "idle"
  BY DEF EvalIf, AtStep, Goroutines
<1>2. /\ stack[g] \in Seq(Frame) /\ stack[g] # <<>>
      /\ Last(stack[g]) \in Frame
      /\ Last(stack[g]).todo \in Seq(Step) /\ Last(stack[g]).todo # <<>>
      /\ Head(Last(stack[g]).todo).do = "if"
  BY <1>1, TopOfStack DEF EvalIf, AtStep
<1>3. Tail(Last(stack[g]).todo) \in Seq(Step) /\ Head(Last(stack[g]).todo) \in Step
  BY <1>2
<1>4. b \in Blocks  BY <1>2, <1>3 DEF Step
<1>5. f \in Frame /\ f.ticket = Last(stack[g]).ticket
  BY <1>2, <1>3 DEF Frame, Next1
<1>6. /\ after \in Seq(Frame) /\ Len(after) = Len(stack[g])
      /\ \A k \in 1..Len(stack[g]) : after[k] \in {f, stack[g][k]}
  BY <1>2, <1>5, ReplaceTopType
<1>7. \A k \in DOMAIN after : OwnedFrame(g, after[k].ticket)
  <2>1. /\ Len(stack[g]) \in DOMAIN stack[g]
        /\ Last(stack[g]) = stack[g][Len(stack[g])]
    BY <1>2, TopType
  <2>2. OwnedFrame(g, f.ticket)
    BY <1>1, <1>5, <2>1 DEF Ownership, OwnedFrames
  <2>3. DOMAIN after = 1..Len(stack[g]) /\ DOMAIN stack[g] = 1..Len(stack[g])
    BY <1>2, <1>6
  <2>4. \A k \in 1..Len(stack[g]) : OwnedFrame(g, stack[g][k].ticket)
    BY <1>1, <2>3 DEF Ownership, OwnedFrames
  <2> HIDE DEF f, after
  <2> QED  BY <1>6, <2>2, <2>3, <2>4
<1>8. Grows /\ UNCHANGED <<storeVars, tasks, owner>>  BY QuietGrows DEF EvalIf
<1>9. \/ stack' = [stack EXCEPT ![g] = after]
      \/ stack' = [stack EXCEPT ![g] = Append(after, NewFrame(b))]
  BY DEF EvalIf
<1> HIDE DEF after, f, b
<1>10. PICK a \in Seq(Frame), n \in Frame : a = after /\ n = NewFrame(b)
  BY <1>4, <1>6, NewFrameType
<1>11. \A k \in DOMAIN a : OwnedFrame(g, a[k].ticket)'
  BY <1>1, <1>7, <1>8, <1>10, OwnedFrameStays
<1>12. OwnedFrame(g, n.ticket)'
  BY <1>1, <1>4, <1>8, <1>10, NewFrameOwned, OwnedFrameStays
<1>13. \A k \in DOMAIN Append(a, n) : OwnedFrame(g, Append(a, n)[k].ticket)'
  <2> SUFFICES ASSUME NEW k \in DOMAIN Append(a, n)
               PROVE  OwnedFrame(g, Append(a, n)[k].ticket)'
    OBVIOUS
  <2>1. k \in DOMAIN a \/ Append(a, n)[k] = n  OBVIOUS
  <2>2. k \in DOMAIN a => Append(a, n)[k] = a[k]  OBVIOUS
  <2> QED  BY <1>11, <1>12, <2>1, <2>2
<1>14. Append(a, n) \in Seq(Frame)  OBVIOUS
<1>15. OwnedFrames'
  BY <1>1, <1>8, <1>9, <1>10, <1>11, <1>13, <1>14, OwnedFramesStep DEF Ownership
<1> QED  BY <1>8, <1>15, QuietOwnership

(* A job that fails drops its copies.                                      *)
LEMMA EndFailedOwned ==
  ASSUME TypeOK, Dispatched, OwnedFrames, Grows, NEW g \in Goroutines, EndFailed(g)
  PROVE  OwnedFrames'
<1>1. <<>> \in Seq(Frame) /\ stack' = [stack EXCEPT ![g] = <<>>]  BY DEF EndFailed
<1>2. \A k \in DOMAIN <<>> : OwnedFrame(g, <<>>[k].ticket)'  OBVIOUS
<1> QED  BY <1>1, <1>2, OwnedFramesStep

(* What a call leaves known of the answer put into the ticket: it is empty *)
(* or a task of the issue the update is about.                             *)
LEMMA CallOwned ==
  ASSUME TypeOK, Dispatched, RefsSound, Ownership, NEW u \in Updates, NEW j \in Jobs,
         AtStep(<<u, j>>, "action"), NEW id \in TaskIDs,
         UNCHANGED <<storeVars, owner, handler, expired, crashes>>,
         Execute(u, Target(<<u, j>>), id) \/ (tasks' = tasks /\ id = NoID),
         Answered(<<u, j>>, id) \/ EndFailed(<<u, j>>)
  PROVE  RefsSound' /\ Ownership'
<1> DEFINE g == <<u, j>>
           l == Target(g)
           trk == l.Tracker
           m == [l EXCEPT !.ID = id]
           old == Last(stack[g])
           top == AfterAction(old, From[u], trk, id)
<1>1. /\ g \in Goroutines /\ pc[g] = "step" /\ pc[g] # "idle" /\ g[1] = u
      /\ old.todo # <<>> /\ trk \in Trackers /\ l \in Locator
      /\ l = [Tracker |-> trk, ID |-> Get(old.ticket.Variations, trk)]
  <2>1. /\ g \in Goroutines /\ pc[g] = "step" /\ old.todo # <<>> /\ l \in Locator
        /\ l = [Tracker |-> Head(old.todo).tracker,
                ID |-> Get(old.ticket.Variations, Head(old.todo).tracker)]
    BY StepTarget
  <2>2. trk = Head(old.todo).tracker  BY <2>1
  <2>3. trk \in Trackers  BY <2>1 DEF Locator
  <2> QED  BY <2>1, <2>2, <2>3
<1>2. /\ stack[g] \in Seq(Frame) /\ stack[g] # <<>>
      /\ old \in Frame /\ old.ticket \in Ticket /\ old = stack[g][Len(stack[g])]
      /\ Len(stack[g]) \in DOMAIN stack[g]
  BY <1>1, TopOfStack, TopType
<1>3. OwnedFrame(g, old.ticket)  BY <1>1, <1>2 DEF Ownership, OwnedFrames
<1>4. m \in Locator /\ m = [Tracker |-> trk, ID |-> id]
  BY <1>1 DEF Locator
<1>5. /\ DOMAIN tasks \subseteq DOMAIN tasks'
      /\ \A x \in DOMAIN tasks : tasks'[x] = tasks[x]
      /\ \A x \in DOMAIN tasks' \ DOMAIN tasks : tasks'[x] = Subject(u) /\ x = m
      /\ ~Empty(m) => m \in DOMAIN tasks' /\ tasks'[m] = Subject(u)
  <2>1. CASE tasks' = tasks /\ id = NoID
    BY <1>4, <2>1 DEF Empty
  <2>2. CASE Execute(u, l, id)
    <3>1. Subject(u) \in InitialTasks \cup Updates  BY <1>1, SubjectType
    <3>2. /\ DOMAIN tasks \subseteq DOMAIN tasks'
          /\ \A x \in DOMAIN tasks : tasks'[x] = tasks[x]
          /\ \A x \in DOMAIN tasks' \ DOMAIN tasks : x = m /\ tasks'[x] = Subject(u)
          /\ ~Empty(m) => m \in DOMAIN tasks' \ DOMAIN tasks \/ m = l
      BY <1>1, <2>2, <3>1, ExecuteType
    <3>3. ~Empty(m) /\ m = l => l \in DOMAIN tasks /\ tasks[l] = Subject(u)
      <4>1. old.ticket.Variations \in Variations  BY <1>2 DEF Ticket
      <4>2. l.ID # NoID => l \in Locators(old.ticket.Variations)
        BY <1>1, <4>1, GetType
      <4> QED  BY <1>1, <1>3, <4>2 DEF OwnedFrame, Owned, Empty
    <3> HIDE DEF m, l
    <3> QED  BY <3>2, <3>3
  <2> QED  BY <2>1, <2>2
<1>6. Grows  BY <1>5 DEF Grows, storeVars
<1>7. /\ top \in Frame /\ top.ticket.ID = old.ticket.ID
      /\ Locators(top.ticket.Variations) \subseteq Locators(old.ticket.Variations) \cup {m}
  <2>1. From[u] \in Locator  BY UpdatesAssumption
  <2>2. old \in Frame /\ old.todo # <<>> /\ trk \in Trackers  BY <1>1, <1>2
  <2> HIDE DEF old, trk, l
  <2>3. /\ top \in Frame /\ top.ticket.ID = old.ticket.ID
        /\ Locators(top.ticket.Variations) \subseteq
             Locators(old.ticket.Variations) \cup {[Tracker |-> trk, ID |-> id]}
    BY <2>1, <2>2, AfterActionType
  <2> QED  BY <1>4, <2>3
<1>8. Subject(u)' = Subject(u)  BY <1>1, <1>6, SubjectStays
<1>9. Answered(g, id) => stack' = [stack EXCEPT ![g] = ReplaceTop(@, top)]
  BY <1>1 DEF Answered
<1> HIDE DEF top
<1>10. PICK f \in Frame : f = top  BY <1>7
<1>11. PICK t : t = old.ticket  OBVIOUS
<1>12. PICK n : n = m  OBVIOUS
<1>13. OwnedFrame(g, f.ticket)'
  <2>1. OwnedFrame(g, t)'  BY <1>1, <1>3, <1>6, <1>11, OwnedFrameStays
  <2>2. Owned(t.Variations, Subject(u))'  BY <1>1, <2>1 DEF OwnedFrame
  <2>3. (t.ID # NoID => t.ID \in DOMAIN tickets /\ owner[t.ID] = Subject(u))'
    BY <1>1, <2>1 DEF OwnedFrame
  <2>4. f.ticket.ID = t.ID /\ Locators(f.ticket.Variations) \subseteq Locators(t.Variations) \cup {n}
    BY <1>7, <1>10, <1>11, <1>12
  <2>5. ~Empty(n) => n \in DOMAIN tasks' /\ tasks'[n] = Subject(u)'
    BY <1>5, <1>8, <1>12
  <2>6. Owned(f.ticket.Variations, Subject(u))'  BY <2>2, <2>4, <2>5 DEF Owned
  <2> QED  BY <1>1, <2>3, <2>4, <2>6 DEF OwnedFrame
<1>14. OwnedFrames'
  <2>1. CASE Answered(g, id)
    BY <1>1, <1>6, <1>9, <1>10, <1>13, <2>1, OwnedTopStep DEF Ownership
  <2>2. CASE EndFailed(g)
    BY <1>1, <1>6, <2>2, EndFailedOwned DEF Ownership
  <2> QED  BY <2>1, <2>2
<1>15. OwnedTickets'
  BY <1>5 DEF Ownership, OwnedTickets, Owned, storeVars
<1>16. OwnedRefs'
  BY <1>5 DEF Ownership, OwnedRefs, storeVars
<1>17. RefsSound'  BY DEF RefsSound, storeVars
<1> QED  BY <1>14, <1>15, <1>16, <1>17 DEF Ownership

(* However old the copy, saving it brings in nothing of another issue      *)
(* (actor.go:242-250).                                                     *)
LEMMA SaveOwned ==
  ASSUME TypeOK, Dispatched, RefsSound, Ownership,
         NEW u \in Updates, NEW j \in Jobs, Save(u, j)
  PROVE  RefsSound' /\ Ownership'
<1> DEFINE g == <<u, j>>
           old == Last(stack[g])
<1>1. /\ g \in Goroutines /\ pc[g] = "step" /\ pc[g] # "idle" /\ g[1] = u
      /\ tasks' = tasks
  BY DEF Save, Goroutines
<1>2. /\ stack[g] \in Seq(Frame) /\ stack[g] # <<>>
      /\ old.ticket \in Ticket /\ old = stack[g][Len(stack[g])]
      /\ Len(stack[g]) \in DOMAIN stack[g]
  BY <1>1, TopOfStack, TopType
<1>3. OwnedFrame(g, old.ticket)  BY <1>1, <1>2 DEF Ownership, OwnedFrames
<1>4. /\ Saved(g) \in Ticket /\ Saved(g).ID = old.ticket.ID
      /\ Owned(Saved(g).Variations, Subject(u))
  <2>1. ~Empty(From[u]) => From[u] \in DOMAIN tasks /\ tasks[From[u]] = Subject(u)
    BY <1>1, OwnLocator
  <2>2. /\ Saved(g).ID = old.ticket.ID
        /\ Locators(Saved(g).Variations) \subseteq Locators(old.ticket.Variations) \cup {From[u]}
    BY <1>1, <1>2, PatchType, UpdatesAssumption DEF Saved
  <2>3. Owned(old.ticket.Variations, Subject(u))  BY <1>1, <1>3 DEF OwnedFrame
  <2> QED  BY <2>1, <2>2, <2>3, SavePuts DEF Owned
<1>5. PICK id \in TicketIDs :
        /\ PutTicket([Saved(g) EXCEPT !.ID = id])
        /\ IF Saved(g).ID = NoID THEN id \notin DOMAIN tickets ELSE id = Saved(g).ID
  BY SavePuts
<1> DEFINE t == [Saved(g) EXCEPT !.ID = id]
           own == {TaskRef(l) : l \in Locators(t.Variations)}
<1>6. t \in Ticket /\ t.ID = id /\ Owned(t.Variations, Subject(u))
  BY <1>4 DEF Ticket
<1>7. Locators(t.Variations) \subseteq Locator  BY <1>6, LocatorsType DEF Ticket
<1>8. /\ DOMAIN tickets' = DOMAIN tickets \cup {id}
      /\ \A i \in DOMAIN tickets' : tickets'[i] = IF i = id THEN t ELSE tickets[i]
      /\ DOMAIN refs' = DOMAIN refs \cup own
      /\ \A r \in DOMAIN refs' : refs'[r] = IF r \in own THEN id ELSE refs[r]
  <2>1. StoreTypeOK /\ PutTicket(t) /\ t.ID \in TicketIDs  BY <1>5, <1>6 DEF TypeOK
  <2> QED  BY <1>6, <2>1, PutTicketType
<1>9. \A i \in DOMAIN tickets' :
        owner'[i] = IF i \in DOMAIN tickets THEN owner[i] ELSE Subject(u)
  BY DEF Save
<1>10. owner'[id] = Subject(u)
  <2>1. CASE Saved(g).ID = NoID  BY <1>5, <1>8, <1>9, <2>1
  <2>2. CASE Saved(g).ID # NoID
    <3>1. id \in DOMAIN tickets /\ owner[id] = Subject(u)
      BY <1>1, <1>3, <1>4, <1>5, <2>2 DEF OwnedFrame
    <3> QED  BY <1>8, <1>9, <3>1
  <2> QED  BY <2>1, <2>2
<1>11. \A i \in DOMAIN tickets : owner'[i] = owner[i]  BY <1>8, <1>9
<1>12. Grows  BY <1>1, <1>8, <1>11 DEF Grows
<1>13. Subject(u)' = Subject(u)  BY <1>1 DEF Subject
<1>14. \A r \in DOMAIN refs : refs[r] \in DOMAIN tickets  BY DEF RefsSound
<1> HIDE DEF t, own
<1>15. RefsSound'
  <2>1. \A r \in DOMAIN refs' : refs'[r] \in DOMAIN tickets'  BY <1>8, <1>14
  <2>2. \A i \in DOMAIN tickets' : \A l \in Locators(tickets'[i].Variations) :
          TaskRef(l) \in DOMAIN refs'
    BY <1>8 DEF RefsSound, own
  <2> QED  BY <2>1, <2>2 DEF RefsSound
<1>16. OwnedTickets'
  BY <1>1, <1>6, <1>8, <1>10, <1>11 DEF Ownership, OwnedTickets, Owned
<1>17. OwnedRefs'
  <2> SUFFICES ASSUME NEW l \in Locator, ~Empty(l), TaskRef(l) \in DOMAIN refs'
               PROVE  l \in DOMAIN tasks /\ owner'[refs'[TaskRef(l)]] = tasks[l]
    BY <1>1 DEF OwnedRefs
  <2>1. CASE TaskRef(l) \in own
    <3>1. PICK x \in Locators(t.Variations) : TaskRef(l) = TaskRef(x)  BY <2>1 DEF own
    <3>2. l = x  BY <1>7, <3>1, RefsAssumption
    <3>3. l \in DOMAIN tasks /\ tasks[l] = Subject(u)  BY <1>6, <3>2 DEF Owned
    <3> QED  BY <1>8, <1>10, <2>1, <3>3
  <2>2. CASE TaskRef(l) \notin own
    <3>1. TaskRef(l) \in DOMAIN refs /\ refs'[TaskRef(l)] = refs[TaskRef(l)]
      BY <1>8, <2>2
    <3> QED  BY <1>11, <1>14, <3>1 DEF Ownership, OwnedRefs
  <2> QED  BY <2>1, <2>2
<1>18. OwnedFrames'
  <2>1. PICK s \in Seq(Frame) :
          s = Front(stack[g]) /\ \A k \in DOMAIN s : k \in DOMAIN stack[g] /\ s[k] = stack[g][k]
    <3>1. /\ Front(stack[g]) \in Seq(Frame) /\ Len(stack[g]) \in Nat \ {0}
          /\ Len(Front(stack[g])) = Len(stack[g]) - 1
          /\ \A k \in 1..Len(stack[g]) - 1 : Front(stack[g])[k] = stack[g][k]
      BY <1>2, TopType
    <3>2. DOMAIN Front(stack[g]) = 1..Len(stack[g]) - 1  BY <3>1
    <3>3. \A k \in DOMAIN Front(stack[g]) : k \in DOMAIN stack[g]  BY <1>2, <3>1, <3>2
    <3> QED  BY <3>1, <3>2, <3>3
  <2>2. stack' = [stack EXCEPT ![g] = s]  BY <2>1 DEF Save
  <2>3. \A k \in DOMAIN s : OwnedFrame(g, s[k].ticket)
    BY <1>1, <2>1 DEF Ownership, OwnedFrames
  <2>4. \A k \in DOMAIN s : OwnedFrame(g, s[k].ticket)'
    BY <1>1, <1>12, <2>3, OwnedFrameStays
  <2> QED  BY <1>1, <1>12, <2>2, <2>4, OwnedFramesStep DEF Ownership
<1> QED  BY <1>15, <1>16, <1>17, <1>18 DEF Ownership

(* Steps that touch neither the storage, nor the trackers, nor a frame.    *)
LEMMA QuietOwned ==
  ASSUME TypeOK, Dispatched, RefsSound, Ownership,
         UNCHANGED <<storeVars, tasks, owner>>,
         stack' = stack \/ stack' = [g \in Goroutines |-> <<>>]
  PROVE  RefsSound' /\ Ownership'
<1>1. OwnedFrames'
  <2>1. CASE stack' = stack
    BY <2>1 DEF Ownership, OwnedFrames, OwnedFrame, Owned, Subject, storeVars
  <2>2. CASE stack' = [g \in Goroutines |-> <<>>]
    <3>1. \A g \in Goroutines : stack'[g] = <<>>  BY <2>2
    <3>2. \A g \in Goroutines : DOMAIN stack'[g] = {}  BY <3>1
    <3> QED  BY <3>2 DEF OwnedFrames
  <2> QED  BY <2>1, <2>2
<1> QED  BY <1>1, QuietOwnership

Inv == TypeOK /\ Dispatched /\ RefsSound /\ Ownership

(* Every step keeps references sound and links with their issue.           *)
LEMMA InvInductive == Inv /\ [Next]_vars => RefsSound' /\ Ownership'
<1> SUFFICES ASSUME Inv, [Next]_vars PROVE RefsSound' /\ Ownership'  OBVIOUS
<1> USE DEF Inv
<1>1. CASE UNCHANGED vars  BY <1>1, QuietOwned DEF vars, storeVars
<1>2. ASSUME NEW u \in Updates, HandleUpdate(u) \/ Expire(u) \/ Return(u)
      PROVE  RefsSound' /\ Ownership'
  BY <1>2, QuietOwned DEF HandleUpdate, Expire, Return
<1>3. ASSUME NEW u \in Updates, NEW j \in Jobs, Spawn(u, j)
      PROVE  RefsSound' /\ Ownership'
  BY <1>3, QuietOwned DEF Spawn
<1>4. ASSUME NEW u \in Updates, NEW j \in Jobs, Local(u, j)
      PROVE  RefsSound' /\ Ownership'
  BY <1>3, <1>4, AcquireOwned, GetTicketOwned, EvalIfOwned, SaveOwned DEF Local
<1>5. ASSUME NEW u \in Updates, NEW j \in Jobs, Fail(u, j) \/ CallRefused(u, j)
      PROVE  RefsSound' /\ Ownership'
  <2>1. <<u, j>> \in Goroutines  BY DEF Goroutines
  <2>2. EndFailed(<<u, j>>) /\ UNCHANGED <<storeVars, tasks, owner>>
    BY <1>5 DEF Fail, CallRefused
  <2>3. OwnedFrames'  BY <2>1, <2>2, EndFailedOwned, QuietGrows DEF Ownership
  <2> QED  BY <2>2, <2>3, QuietOwnership
<1>6. ASSUME NEW u \in Updates, NEW j \in Jobs, Call(u, j)
      PROVE  RefsSound' /\ Ownership'
  <2>1. CASE CallAnswered(u, j)  BY <2>1, CallOwned DEF CallAnswered
  <2>2. CASE CallLost(u, j)  BY <2>2, CallOwned DEF CallLost
  <2>3. CASE CallSkipped(u, j)  BY <2>3, CallOwned, NamesAssumption DEF CallSkipped
  <2> QED  BY <1>5, <1>6, <2>1, <2>2, <2>3 DEF Call
<1>7. CASE Crash  BY <1>7, QuietOwned DEF Crash
<1> QED  BY <1>1, <1>2, <1>4, <1>5, <1>6, <1>7 DEF Next

(* The inductive invariant: every ticket, every reference and every copy a *)
(* running job holds belongs to the one issue it was made for.             *)
THEOREM IssuesOwned == Spec => [](TypeOK /\ Dispatched /\ RefsSound /\ Ownership)
<1>1. Init => RefsSound /\ Ownership
  <2> SUFFICES ASSUME Init PROVE RefsSound /\ Ownership  OBVIOUS
  <2>1. DOMAIN tickets = {} /\ DOMAIN refs = {}  BY DEF Init, StoreInit
  <2>2. \A g \in Goroutines : DOMAIN stack[g] = {}
    <3>1. \A g \in Goroutines : stack[g] = <<>>  BY DEF Init
    <3> QED  BY <3>1
  <2> QED
    BY <2>1, <2>2 DEF RefsSound, Ownership, OwnedTickets, OwnedRefs, OwnedFrames
<1>2. TypeOK /\ Dispatched /\ RefsSound /\ Ownership /\ [Next]_vars
        => RefsSound' /\ Ownership'
  BY InvInductive DEF Inv
<1> QED  BY <1>1, <1>2, TypeCorrect, PTL DEF Spec

(* The two buckets of the storage agree in every state (ticket.go:71-81).  *)
THEOREM RefsAlwaysSound == Spec => []RefsSound
BY IssuesOwned, PTL DEF Inv

(* Issues are never mixed up: whatever the configuration, the number of    *)
(* overlapping updates, the faults and the crashes, the ticket found for a *)
(* task holds tasks of the same issue only.                                *)
THEOREM IssuesIsolated == Spec => []Isolation
<1>1. Inv => Isolation
  <2> SUFFICES ASSUME Inv, NEW l \in DOMAIN tasks, Found(l),
                      NEW m \in Locators(TicketOf(l).Variations), ~Empty(m)
               PROVE  m \in DOMAIN tasks /\ tasks[m] = tasks[l]
    BY DEF Isolation
  <2>1. l \in Locator /\ ~Empty(l)  BY DEF Inv, TypeOK
  <2>2. TaskRef(l) \in DOMAIN refs /\ refs[TaskRef(l)] \in DOMAIN tickets
    BY DEF Found
  <2>3. owner[refs[TaskRef(l)]] = tasks[l]
    BY <2>1, <2>2 DEF Inv, Ownership, OwnedRefs
  <2>4. Owned(TicketOf(l).Variations, owner[refs[TaskRef(l)]])
    BY <2>2 DEF Inv, Ownership, OwnedTickets, TicketOf
  <2> QED  BY <2>3, <2>4 DEF Owned
<1>2. TypeOK /\ Dispatched /\ RefsSound /\ Ownership => Inv  BY DEF Inv
<1> QED  BY <1>1, <1>2, IssuesOwned, PTL

(* A call made for an update never names a task of another issue: the      *)
(* TaskID comes from a ticket that may be stale, but is of that issue      *)
(* (actor.go:268-272).                                                     *)
THEOREM CallsStayInIssue == Spec => []CallsOwnIssue
<1>1. Inv => CallsOwnIssue
  <2> SUFFICES ASSUME Inv, NEW u \in Updates, NEW j \in Jobs,
                      AtStep(<<u, j>>, "action"), ~Empty(Target(<<u, j>>))
               PROVE  /\ Target(<<u, j>>) \in DOMAIN tasks
                      /\ tasks[Target(<<u, j>>)] = Subject(u)
    BY DEF CallsOwnIssue
  <2> DEFINE g == <<u, j>>
             old == Last(stack[g])
  <2>1. /\ g \in Goroutines /\ pc[g] = "step" /\ g[1] = u
        /\ Head(old.todo).tracker \in Trackers
        /\ Target(g) = [Tracker |-> Head(old.todo).tracker,
                        ID |-> Get(old.ticket.Variations, Head(old.todo).tracker)]
    BY StepTarget DEF Inv
  <2>2. /\ stack[g] \in Seq(Frame) /\ stack[g] # <<>> /\ old.ticket \in Ticket
        /\ old = stack[g][Len(stack[g])] /\ Len(stack[g]) \in DOMAIN stack[g]
    BY <2>1, TopOfStack, TopType DEF Inv
  <2>3. Owned(old.ticket.Variations, Subject(u))
    BY <2>1, <2>2 DEF Inv, Ownership, OwnedFrames, OwnedFrame
  <2>4. Target(g) \in Locators(old.ticket.Variations)
    BY <2>1, <2>2, GetType DEF Ticket, Empty
  <2> QED  BY <2>3, <2>4 DEF Owned
<1>2. TypeOK /\ Dispatched /\ RefsSound /\ Ownership => Inv  BY DEF Inv
<1> QED  BY <1>1, <1>2, IssuesOwned, PTL
=============================================================================
