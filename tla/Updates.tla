------------------------------ MODULE Updates ------------------------------
(***************************************************************************)
(* The processing of updates, app/store/service/actor.go: a webhook hands  *)
(* an update to Actor.handleUpdate, which runs every job subscribed to the *)
(* trigger in a goroutine of its own; a job reads the ticket of the        *)
(* updated task, calls the trackers its steps name, and saves the ticket.  *)
(*                                                                         *)
(* A goroutine is a pair of an update and a job.  It may be preempted      *)
(* between any two of its calls to the storage and to the trackers, and    *)
(* nothing locks the ticket between its reading and its saving.  An If     *)
(* step runs its sequence in a nested activation with a ticket of its own, *)
(* hence the stack of frames.                                              *)
(*                                                                         *)
(* The trackers are external: they are the set of the tasks that exist.    *)
(***************************************************************************)
EXTENDS BoltTickets, SequencesExt

CONSTANTS
  Updates,               \* webhooks that may arrive, one delivery each
  From,                  \* update -> the locator it is received from
  Trigger,               \* update -> trigger of its subscription
  Jobs,                  \* names of the configured jobs
  On,                    \* job -> the trigger it is subscribed to
  Blocks,                \* sequences of the configuration: jobs and the bodies of ifs
  Body,                  \* block -> its steps
  Rpc,                   \* trackers driven through rpcx.Redialer
  Silent,                \* trackers that answer a call with an empty task
  InitialTasks,          \* tasks that exist before the program runs
  MaxConcurrentUpdates,  \* maxConcurrentUpdates
  Faults,                \* what may go wrong: any of "expire", "fail", "lost", "skip"
  MaxCrashes             \* bound on the crashes of the process

Step == [do : {"action"}, tracker : Trackers] \cup [do : {"if"}, then : Blocks]

ASSUME UpdatesAssumption ==
  /\ From \in [Updates -> Locator]
  /\ Jobs \subseteq Blocks
  /\ Body \in [Blocks -> Seq(Step)]
  /\ InitialTasks \subseteq {l \in Locator : ~Empty(l)}
  /\ Updates \cap Locator = {}
  /\ MaxCrashes \in Nat

(* No name holds the separator: two tasks never share a reference.         *)
ASSUME RefsAssumption ==
  \A l, m \in Locator : TaskRef(l) = TaskRef(m) => l = m

VARIABLES
  tasks,    \* task that exists in a tracker -> the issue it stands for
  owner,    \* ticket ID -> the issue it was created for (history)
  handler,  \* update -> state of its handleUpdate
  expired,  \* updates whose context is done while they are handled
  pc,       \* goroutine -> what it does next
  stack,    \* goroutine -> activations of runSequence, the innermost last
  crashes   \* number of crashes of the process

vars == <<tickets, refs, tasks, owner, handler, expired, pc, stack, crashes>>

Goroutines == Updates \X Jobs
Active == {"spawned", "waiting", "get", "step"}
Finished == {"ok", "failed", "canceled"}
Frame == [todo : Seq(Step), ticket : Ticket, modifies : BOOLEAN]

(* The issue an update is about.  An update that names no task is about    *)
(* nothing but itself.                                                     *)
Subject(u) == IF Empty(From[u]) THEN u ELSE tasks[From[u]]

Init ==
  /\ StoreInit
  /\ tasks = [l \in InitialTasks |-> l]
  /\ owner = [i \in {} |-> i]
  /\ handler = [u \in Updates |-> "new"]
  /\ expired = {}
  /\ pc = [g \in Goroutines |-> "idle"]
  /\ stack = [g \in Goroutines |-> <<>>]
  /\ crashes = 0
-----------------------------------------------------------------------------
(* handleUpdate: Flow.ListSubscribedJobs, and a goroutine per job.         *)
Subscribed(u) == {j \in Jobs : On[j] = Trigger[u]}

HandleUpdate(u) ==
  /\ handler[u] = "new"
  /\ From[u] \in DOMAIN tasks \/ From[u].ID = NoID
  /\ handler' = [handler EXCEPT ![u] = "running"]
  /\ pc' = [g \in Goroutines |->
              IF g[1] = u /\ g[2] \in Subscribed(u) THEN "spawned" ELSE pc[g]]
  /\ UNCHANGED <<storeVars, tasks, owner, expired, stack, crashes>>

(* UpdateTimeout passes, or the sender of the webhook hangs up.            *)
Expire(u) ==
  /\ "expire" \in Faults
  /\ handler[u] = "running"
  /\ expired' = expired \cup {u}
  /\ UNCHANGED <<storeVars, tasks, owner, handler, pc, stack, crashes>>

(* SizedGroup.Go: the context is looked at once, before the semaphore.     *)
Spawn(u, j) ==
  /\ pc[<<u, j>>] = "spawned"
  /\ pc' = [pc EXCEPT ![<<u, j>>] =
              IF u \in expired THEN "canceled" ELSE "waiting"]
  /\ UNCHANGED <<storeVars, tasks, owner, handler, expired, stack, crashes>>

(* Jobs of an update that hold its semaphore (mutant: a job that fails     *)
(* never unlocks it).                                                      *)
RunningLeaky(u) == {j \in Jobs : pc[<<u, j>>] \in {"get", "step", "failed"}}
Running(u) == {j \in Jobs : pc[<<u, j>>] \in {"get", "step"}}

NewFrame(b) == [todo |-> Body[b], ticket |-> NewTicket, modifies |-> FALSE]

Acquire(u, j) ==
  /\ pc[<<u, j>>] = "waiting"
  /\ Cardinality(Running(u)) < MaxConcurrentUpdates
  /\ pc' = [pc EXCEPT ![<<u, j>>] = "get"]
  /\ stack' = [stack EXCEPT ![<<u, j>>] = <<NewFrame(j)>>]
  /\ UNCHANGED <<storeVars, tasks, owner, handler, expired, crashes>>

(* swg.Wait returns.                                                       *)
Return(u) ==
  /\ handler[u] = "running"
  /\ \A j \in Subscribed(u) : pc[<<u, j>>] \in Finished
  /\ handler' = [handler EXCEPT ![u] = "returned"]
  /\ expired' = expired \ {u}
  /\ UNCHANGED <<storeVars, tasks, owner, pc, stack, crashes>>
-----------------------------------------------------------------------------
(* runSequence.                                                            *)
ReplaceTop(s, frame) == [s EXCEPT ![Len(s)] = frame]
Next1(frame) == [frame EXCEPT !.todo = Tail(@)]

(* The ticket of the updated task, or an empty one, with the task in it.   *)
WithOwn(t, l) ==
  IF Has(t.Variations, l.Tracker) THEN t
  ELSE [t EXCEPT !.Variations = Set(@, l.Tracker, l.ID)]

GetTicket(u, j) ==
  LET g == <<u, j>>
      l == From[u]
      t == IF Found(l) THEN TicketOf(l) ELSE NewTicket
  IN /\ pc[g] = "get"
     /\ pc' = [pc EXCEPT ![g] = "step"]
     /\ stack' = [stack EXCEPT ![g] =
                    ReplaceTop(@, [Last(@) EXCEPT !.ticket = WithOwn(t, l)])]
     /\ UNCHANGED <<storeVars, tasks, owner, handler, expired, crashes>>

AtStep(g, kind) ==
  /\ pc[g] = "step"
  /\ Last(stack[g]).todo # <<>>
  /\ Head(Last(stack[g]).todo).do = kind

(* If.Eval, and runSequence on the steps of the if when it holds.          *)
EvalIf(u, j) ==
  LET g == <<u, j>>
      after == ReplaceTop(stack[g], Next1(Last(stack[g])))
  IN /\ AtStep(g, "if")
     /\ \/ /\ stack' = [stack EXCEPT ![g] = after]
           /\ pc' = pc
        \/ /\ stack' = [stack EXCEPT ![g] =
                 Append(after, NewFrame(Head(Last(stack[g]).todo).then))]
           /\ pc' = [pc EXCEPT ![g] = "get"]
     /\ UNCHANGED <<storeVars, tasks, owner, handler, expired, crashes>>

(* Ticket.Patch (mutant: the other variations are thrown away).            *)
PatchOver(t, l) == [t EXCEPT !.Variations = [x \in {l.Tracker} |-> l.ID]]
Patch(t, l) == [t EXCEPT !.Variations = Set(@, l.Tracker, l.ID)]

(* The end of the sequence: the ticket is saved and the activation ends    *)
(* (mutant: the ticket is created anew each time).                         *)
Saved(g) ==
  LET frame == Last(stack[g]) IN
  IF frame.modifies THEN frame.ticket ELSE Patch(frame.ticket, From[g[1]])

SaveAsNew(u, j) ==
  LET g == <<u, j>> t == Saved(g) IN
  /\ pc[g] = "step"
  /\ Last(stack[g]).todo = <<>>
  /\ CreateTicket(t)
  /\ owner' = [i \in DOMAIN tickets' |->
                 IF i \in DOMAIN tickets THEN owner[i] ELSE Subject(u)]
  /\ stack' = [stack EXCEPT ![g] = Front(@)]
  /\ pc' = [pc EXCEPT ![g] = IF Len(stack[g]) = 1 THEN "ok" ELSE "step"]
  /\ UNCHANGED <<tasks, handler, expired, crashes>>

Save(u, j) ==
  LET g == <<u, j>> t == Saved(g) IN
  /\ pc[g] = "step"
  /\ Last(stack[g]).todo = <<>>
  /\ IF t.ID = NoID THEN CreateTicket(t) ELSE PutTicket(t)
  /\ owner' = [i \in DOMAIN tickets' |->
                 IF i \in DOMAIN tickets THEN owner[i] ELSE Subject(u)]
  /\ stack' = [stack EXCEPT ![g] = Front(@)]
  /\ pc' = [pc EXCEPT ![g] = IF Len(stack[g]) = 1 THEN "ok" ELSE "step"]
  /\ UNCHANGED <<tasks, handler, expired, crashes>>

(* The job returns an error: of the storage, of a template or a condition, *)
(* or of a tracker that did nothing.  What it has not saved is gone.       *)
EndFailed(g) ==
  /\ pc' = [pc EXCEPT ![g] = "failed"]
  /\ stack' = [stack EXCEPT ![g] = <<>>]

Fail(u, j) ==
  /\ "fail" \in Faults
  /\ pc[<<u, j>>] \in {"get", "step"}
  /\ EndFailed(<<u, j>>)
  /\ UNCHANGED <<storeVars, tasks, owner, handler, expired, crashes>>
-----------------------------------------------------------------------------
(* act: tracker.Interface.Call with the task the ticket holds.             *)
Target(g) ==
  LET frame == Last(stack[g]) trk == Head(frame.todo).tracker IN
  [Tracker |-> trk, ID |-> Get(frame.ticket.Variations, trk)]

(* What a tracker does when it executes a call, answering with the task    *)
(* id: an empty TaskID asks for a new task.  A request over HTTP is not    *)
(* sent once the context is done; a plugin is called all the same.         *)
Execute(u, l, id) ==
  /\ l.Tracker \in Rpc \/ u \notin expired
  /\ IF l.Tracker \in Silent
     THEN id = NoID /\ tasks' = tasks
     ELSE IF l.ID = NoID
     THEN LET m == [l EXCEPT !.ID = id] IN
          /\ id # NoID /\ m \notin DOMAIN tasks
          /\ tasks' = [x \in DOMAIN tasks \cup {m} |->
                         IF x = m THEN Subject(u) ELSE tasks[x]]
     ELSE l \in DOMAIN tasks /\ id = l.ID /\ tasks' = tasks

(* The answer is put into the ticket and the job goes on (mutants: the     *)
(* answer is dropped; it is filed under the tracker of the update).        *)
AfterActionSwap(frame, l, trk, id) ==
  [todo     |-> Tail(frame.todo),
   ticket   |-> [frame.ticket EXCEPT !.Variations = Set(@, l.Tracker, id)],
   modifies |-> frame.modifies \/ l.Tracker = trk]
AfterActionForget(frame, l, trk, id) ==
  [todo     |-> Tail(frame.todo),
   ticket   |-> frame.ticket,
   modifies |-> frame.modifies \/ l.Tracker = trk]
AfterAction(frame, l, trk, id) ==
  [todo     |-> Tail(frame.todo),
   ticket   |-> [frame.ticket EXCEPT !.Variations = Set(@, trk, id)],
   modifies |-> frame.modifies \/ l.Tracker = trk]

Answered(g, id) ==
  /\ stack' = [stack EXCEPT ![g] =
       ReplaceTop(@, AfterAction(Last(@), From[g[1]], Target(g).Tracker, id))]
  /\ pc' = pc

CallAnswered(u, j) ==
  /\ AtStep(<<u, j>>, "action")
  /\ \E id \in TaskIDs :
       /\ Execute(u, Target(<<u, j>>), id)
       /\ Answered(<<u, j>>, id)
  /\ UNCHANGED <<storeVars, owner, handler, expired, crashes>>

(* The call is executed, its answer never comes or cannot be read.         *)
CallLost(u, j) ==
  /\ "lost" \in Faults
  /\ AtStep(<<u, j>>, "action")
  /\ \E id \in TaskIDs : Execute(u, Target(<<u, j>>), id)
  /\ EndFailed(<<u, j>>)
  /\ UNCHANGED <<storeVars, owner, handler, expired, crashes>>

(* Redialer.Call answers nil without a call: it has redialed a connection  *)
(* that was shut down, or the context was done before the first attempt.   *)
CallSkipped(u, j) ==
  /\ "skip" \in Faults
  /\ AtStep(<<u, j>>, "action")
  /\ Target(<<u, j>>).Tracker \in Rpc
  /\ Answered(<<u, j>>, NoID)
  /\ UNCHANGED <<storeVars, tasks, owner, handler, expired, crashes>>

(* The context is done, or the tracker does not know the task.             *)
CallRefused(u, j) ==
  /\ AtStep(<<u, j>>, "action")
  /\ LET l == Target(<<u, j>>) IN
     \/ u \in expired
     \/ l.ID # NoID /\ l.Tracker \notin Silent /\ l \notin DOMAIN tasks
  /\ EndFailed(<<u, j>>)
  /\ UNCHANGED <<storeVars, tasks, owner, handler, expired, crashes>>
-----------------------------------------------------------------------------
(* The process dies and is started again: the storage and the trackers     *)
(* keep what they have, the updates in flight are not delivered again.     *)
Crash ==
  /\ crashes < MaxCrashes
  /\ crashes' = crashes + 1
  /\ handler' = [u \in Updates |->
                   IF handler[u] = "running" THEN "lost" ELSE handler[u]]
  /\ expired' = {}
  /\ pc' = [g \in Goroutines |->
              IF handler[g[1]] = "running" THEN "idle" ELSE pc[g]]
  /\ stack' = [g \in Goroutines |-> <<>>]
  /\ UNCHANGED <<storeVars, tasks, owner>>

Local(u, j) ==
  Spawn(u, j) \/ Acquire(u, j) \/ GetTicket(u, j) \/ EvalIf(u, j) \/ Save(u, j)

Call(u, j) ==
  CallAnswered(u, j) \/ CallLost(u, j) \/ CallSkipped(u, j) \/ CallRefused(u, j)

Next ==
  \/ \E u \in Updates : HandleUpdate(u) \/ Expire(u) \/ Return(u)
  \/ \E u \in Updates, j \in Jobs : Local(u, j) \/ Fail(u, j) \/ Call(u, j)
  \/ Crash

Spec == Init /\ [][Next]_vars

(* Updates arrive one after the other.                                     *)
Serial ==
  \A u, v \in Updates : handler[u] = "running" /\ handler[v] = "running" => u = v

(* The scheduler runs every goroutine, and the HTTP client of a github     *)
(* tracker gives up after a while (run.go:130-134).  Nothing bounds a call *)
(* to a plugin: net/rpc waits for as long as the connection stays open.    *)
Fairness ==
  /\ \A u \in Updates : WF_vars(Return(u))
  /\ \A u \in Updates, j \in Jobs :
       /\ WF_vars(Local(u, j))
       /\ WF_vars(Call(u, j) /\ Target(<<u, j>>).Tracker \notin Rpc)

FairSpec == Spec /\ Fairness
-----------------------------------------------------------------------------
TypeOK ==
  /\ StoreTypeOK
  /\ tasks \in [DOMAIN tasks -> InitialTasks \cup Updates]
  /\ InitialTasks \subseteq DOMAIN tasks
  /\ DOMAIN tasks \subseteq {l \in Locator : ~Empty(l)}
  /\ owner \in [DOMAIN tickets -> InitialTasks \cup Updates]
  /\ handler \in [Updates -> {"new", "running", "returned", "lost"}]
  /\ expired \subseteq Updates
  /\ pc \in [Goroutines -> {"idle"} \cup Active \cup Finished]
  /\ stack \in [Goroutines -> Seq(Frame)]
  /\ \A g \in Goroutines : (stack[g] # <<>>) <=> pc[g] \in {"get", "step"}
  /\ crashes \in 0..MaxCrashes

(* An issue has at most one task in every tracker: a job that finds the    *)
(* issue already mirrored updates the mirror and never makes a second one, *)
(* whichever of the two sides the update comes from (actor.go:200-250).    *)
(* It takes two updates to break: one whose link is lost, and a later one. *)
(* Holds until something fails for updates that arrive one after the       *)
(* other, of jobs without ifs; see SerialUpdates.                          *)
Untroubled ==
  crashes = 0 /\ \A g \in Goroutines : pc[g] \notin {"failed", "canceled"}

NoDuplicateTasks ==
  Untroubled =>
    \A l, m \in DOMAIN tasks :
      l.Tracker = m.Tracker /\ tasks[l] = tasks[m] => l = m

(* A job that has returned without an error leaves the updated task in the *)
(* storage together with its counterpart in every tracker it has called    *)
(* (actor.go:240-254).  Holds in spite of failures and crashes of other    *)
(* updates, as long as updates do not overlap; see SerialUpdates.          *)
DoneLinks ==
  \A u \in Updates, j \in Jobs :
    pc[<<u, j>>] = "ok" /\ ~Empty(From[u]) =>
      /\ Found(From[u])
      /\ \A k \in DOMAIN Body[j] :
           Body[j][k].do = "action" /\ Body[j][k].tracker \notin Silent =>
             Get(TicketOf(From[u]).Variations, Body[j][k].tracker) # NoID

(* A task belongs to one ticket: the program never holds two records of    *)
(* the same issue, of which each would get a part of the later updates.    *)
(* Holds when DoneLinks does.                                              *)
OneTicketPerTask ==
  \A i, k \in DOMAIN tickets : i # k =>
    \A l \in Locators(tickets[i].Variations) \cap Locators(tickets[k].Variations) :
      Empty(l)

(* A stored link to a task is never dropped and never replaced: the ticket *)
(* a job saves was read before its calls and may be older than the stored  *)
(* one (actor.go:200, 242, 250).  Holds when DoneLinks does.               *)
LinksKept ==
  [][\A i \in DOMAIN tickets : \A l \in Locators(tickets[i].Variations) :
       ~Empty(l) => l \in Locators(tickets'[i].Variations)]_vars

(* Issues are never mixed up: the ticket found for a task holds only tasks *)
(* of the same issue, so an update of one issue is never carried over to   *)
(* another, with overlapping updates, lost answers and crashes.  The empty *)
(* IDs some trackers answer with all share the reference "tracker!!"; that *)
(* no lookup uses it (ticket.go:96) is what keeps the property.            *)
Isolation ==
  \A l \in DOMAIN tasks : Found(l) =>
    \A m \in Locators(TicketOf(l).Variations) :
      ~Empty(m) => m \in DOMAIN tasks /\ tasks[m] = tasks[l]

(* Why: every ticket is made for one issue, its owner, and the tasks in it *)
(* and the references to it are of that issue; so are the tickets that the *)
(* jobs hold in memory, however old their copies are.                      *)
Owned(v, issue) ==
  \A l \in Locators(v) : ~Empty(l) => l \in DOMAIN tasks /\ tasks[l] = issue

OwnedFrame(g, t) ==
  /\ Owned(t.Variations, Subject(g[1]))
  /\ t.ID # NoID => t.ID \in DOMAIN tickets /\ owner[t.ID] = Subject(g[1])

OwnedTickets == \A i \in DOMAIN tickets : Owned(tickets[i].Variations, owner[i])

OwnedRefs ==
  \A l \in Locator : ~Empty(l) /\ TaskRef(l) \in DOMAIN refs =>
    l \in DOMAIN tasks /\ owner[refs[TaskRef(l)]] = tasks[l]

OwnedFrames ==
  \A g \in Goroutines : \A k \in DOMAIN stack[g] : OwnedFrame(g, stack[g][k].ticket)

Ownership == OwnedTickets /\ OwnedRefs /\ OwnedFrames

(* What a lookup of a task leads to, and the abstract specification that   *)
(* knows of nothing else.                                                  *)
View ==
  [l \in DOMAIN tasks |->
     IF Found(l) THEN {m \in Locators(TicketOf(l).Variations) : ~Empty(m)} ELSE {}]

Links == INSTANCE IssueLinks WITH
  Tasks <- {l \in Locator : ~Empty(l)}, Issues <- InitialTasks \cup Updates,
  exists <- tasks, view <- View

(* The program implements the separation of issues: a step, of whichever   *)
(* job and however old the ticket it saves, changes what is known of one   *)
(* issue, and the task a tracker has just made is not taken for a linked   *)
(* one before its ticket is saved (actor.go:200-254).                      *)
ImplementsIssueLinks == Links!Spec

(* Jobs run only for an update that is being handled, of a task that       *)
(* exists; handleUpdate does not return before them (actor.go:100).        *)
Dispatched ==
  \A u \in Updates, j \in Jobs :
    /\ handler[u] = "new" => pc[<<u, j>>] = "idle"
    /\ pc[<<u, j>>] \in Active => handler[u] = "running"
    /\ pc[<<u, j>>] # "idle" =>
         j \in Subscribed(u) /\ (Empty(From[u]) \/ From[u] \in DOMAIN tasks)

(* A call names a task of the issue the update is about, or none.          *)
CallsOwnIssue ==
  \A u \in Updates, j \in Jobs :
    AtStep(<<u, j>>, "action") /\ ~Empty(Target(<<u, j>>)) =>
      /\ Target(<<u, j>>) \in DOMAIN tasks
      /\ tasks[Target(<<u, j>>)] = Subject(u)

(* Every webhook is answered: handleUpdate waits for its jobs, and they    *)
(* pass the semaphore one after another (actor.go:89-100).  Needs trackers *)
(* that answer, which the HTTP client's timeout gives for github.          *)
HandlerReturns ==
  \A u \in Updates : handler[u] = "running" ~> handler[u] # "running"
=============================================================================
