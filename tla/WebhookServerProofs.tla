------------------------ MODULE WebhookServerProofs ------------------------
(***************************************************************************)
(* Theorems about WebhookServer: the tracker and the process an update is  *)
(* handled in.  They rest on the invariant of LifecycleProofs, which the   *)
(* steps of requests keep as well.                                         *)
(***************************************************************************)
EXTENDS WebhookServer, LifecycleProofs

(* A webhook leads to an entry of its own tracker, or to none.             *)
Named(h) == h.sub \in DOMAIN subs => subs[h.sub].TrackerName = h.tracker

HooksNamed == \A h \in hooks : Named(h)

(* A handler is set when all triggers are registered, and until the end.   *)
HandlersSet ==
  handlers # {} =>
    actor \notin {"off", "registering"} /\ \A t \in Triggers : reg[t].pc = "ok"

(* No request is older than the process; the webhook of one that has not   *)
(* been looked up is removed by unregisterTriggers only.                   *)
RequestNamed(r) ==
  /\ r.pc \in InFlight => actor # "off"
  /\ r.pc = "accepted" =>
       Named(r.hook) /\ (r.hook \in hooks \/ actor \in {"unregistering", "returned"})
  /\ r.pc \in {"loaded", "updating"} => r.sub.TrackerName = r.hook.tracker
  /\ r.pc = "updating" => handlers # {}

RequestsNamed ==
  /\ server = "serving" => actor # "off"
  /\ \A d \in Deliveries : RequestNamed(requests[d])

ServerInv == ServerTypeOK /\ HooksNamed /\ HandlersSet /\ RequestsNamed
-----------------------------------------------------------------------------
(* What the requests have to know of a step of the process.                *)
Flow(a, b) ==
  \/ a = b \/ b = "off"
  \/ a = "off" /\ b = "registering"
  \/ a = "registering" /\ b \in {"listening", "listing"}
  \/ a = "listening" /\ b = "listing"
  \/ a = "listing" /\ b = "unregistering"
  \/ a = "unregistering" /\ b = "returned"

Calm ==
  /\ Flow(actor, actor')
  /\ config' = config \/ actor = "off"
  /\ reg' = reg \/ actor \in {"off", "registering"} \/ actor' = "off"
  /\ server' = server \/ server' # "serving" \/ actor' = "registering"
  /\ actor' = "off" /\ actor # "off" => server' # "serving"
  /\ hooks \subseteq hooks' \/ actor = "unregistering"
  /\ \A h \in hooks' \ hooks :
       subs' = subs /\ h.sub \in DOMAIN subs /\ subs[h.sub].TrackerName = h.tracker
  /\ \A i \in DOMAIN subs' :
       \/ i \in DOMAIN subs /\ subs'[i].TrackerName = subs[i].TrackerName
       \/ actor = "registering" /\ i \notin UsedIDs

(* Steps that leave storage and trackers alone.                            *)
LEMMA QuietCalm ==
  ASSUME UNCHANGED <<subsVars, hooks>>,
         Flow(actor, actor'), config' = config \/ actor = "off",
         reg' = reg \/ actor \in {"off", "registering"} \/ actor' = "off",
         server' = server \/ server' # "serving" \/ actor' = "registering",
         actor' = "off" /\ actor # "off" => server' # "serving"
  PROVE  Calm
BY DEF Calm, subsVars

(* A webhook is made for the entry of its trigger.                         *)
LEMMA MakeHookCalm ==
  ASSUME Inv, NEW t \in Triggers, actor = "registering", reg[t].pc = "call",
         hooks' = hooks \/ \E ref \in HookRefs \ UsedRefs : MakeHook(t, ref),
         UNCHANGED <<subsVars, regOnly>>
  PROVE  Calm
<1>1. Stored(t)  BY DEF Inv, Registering
<1>2. \A h \in hooks' \ hooks : h.sub \in DOMAIN subs /\ subs[h.sub].TrackerName = h.tracker
  BY <1>1 DEF Stored, MakeHook
<1>3. hooks \subseteq hooks'  BY DEF MakeHook
<1> QED  BY <1>2, <1>3 DEF Calm, Flow, regOnly, subsVars

(* Steps of registerTriggers.                                              *)
LEMMA RegisterCalm ==
  ASSUME Inv, NEW t \in Places, Register(t) \/ RegFails(t)
  PROVE  Calm
<1>1. t \in Triggers /\ actor = "registering" /\ UNCHANGED regOnly
  BY DEF Register, RegFails, RegCreate, RegSubscribe, RegAnswered, RegCanceled, RegGet,
     RegUpdate, At
<1>2. CASE RegCreate(t)
  <2>1. hooks' = hooks  BY <1>2 DEF RegCreate
  <2>2. CASE UNCHANGED subsVars  BY <1>1, <2>1, <2>2, QuietCalm DEF Flow, regOnly
  <2>3. CASE \E id \in SubIDs \ UsedIDs :
               PutSub(NewSub(id, config.triggers[t].in, config.triggers[t].name))
    <3>1. PICK id \in SubIDs \ UsedIDs :
            PutSub(NewSub(id, config.triggers[t].in, config.triggers[t].name))
      BY <2>3
    <3>2. id \notin DOMAIN subs  BY DEF UsedIDs
    <3>3. NewSub(id, config.triggers[t].in, config.triggers[t].name).ID = id  BY DEF NewSub
    <3>4. /\ DOMAIN subs' = DOMAIN subs \cup {id}
          /\ \A i \in DOMAIN subs : subs'[i] = subs[i]
      BY <3>1, <3>2, <3>3 DEF PutSub
    <3>5. \A i \in DOMAIN subs' :
            \/ i \in DOMAIN subs /\ subs'[i].TrackerName = subs[i].TrackerName
            \/ i \notin UsedIDs
      BY <3>4
    <3> QED  BY <1>1, <2>1, <3>5 DEF Calm, Flow, regOnly
  <2> QED  BY <1>2, <2>2, <2>3 DEF RegCreate
<1>3. CASE RegSubscribe(t) \/ RegGet(t)
  BY <1>1, <1>3, QuietCalm DEF RegSubscribe, RegGet, Flow, regOnly
<1>4. CASE RegAnswered(t) \/ RegCanceled(t)
  BY <1>1, <1>4, MakeHookCalm DEF RegAnswered, RegCanceled, At
<1>5. CASE RegUpdate(t)
  <2> DEFINE sub == [EntryOf(t) EXCEPT !.TrackerRef = reg[t].ref]
  <2>1. /\ PutSub(sub) /\ hooks' = hooks /\ reg[t].pc = "update"
        /\ sub.ID = reg[t].id /\ sub.TrackerName = config.triggers[t].in
    BY <1>5 DEF RegUpdate, EntryOf, NewSub, At
  <2>2. Stored(t)  BY <1>1, <2>1 DEF Inv, Registering
  <2> HIDE DEF sub
  <2>3. \A i \in DOMAIN subs' :
          i \in DOMAIN subs /\ subs'[i].TrackerName = subs[i].TrackerName
    BY <2>1, <2>2 DEF PutSub, Stored
  <2> QED  BY <1>1, <2>1, <2>3 DEF Calm, Flow, regOnly
<1>6. CASE RegFails(t)
  <2>1. CASE UNCHANGED hooks
    BY <1>1, <1>6, <2>1, QuietCalm DEF RegFails, Flow, regOnly
  <2>2. CASE \E ref \in HookRefs \ UsedRefs : At(t, "call") /\ MakeHook(t, ref)
    BY <1>1, <1>6, <2>2, MakeHookCalm DEF RegFails, At
  <2> QED  BY <1>6, <2>1, <2>2 DEF RegFails
<1> QED  BY <1>2, <1>3, <1>4, <1>5, <1>6 DEF Register

(* Steps of unregisterTriggers.                                            *)
LEMMA UnregisterCalm ==
  ASSUME Inv, NEW x \in unreg, Unregister(x) \/ UnsubscribeFails(x)
  PROVE  Calm
<1>1. actor = "unregistering"  BY DEF Inv, Cleaning
<1>2. CASE Unsubscribe(x) \/ UnsubscribeFails(x)
  <2>1. UNCHANGED <<subsVars, unregOnly>> /\ hooks' \subseteq hooks
    BY <1>2 DEF Unsubscribe, UnsubscribeFails
  <2> QED  BY <1>1, <2>1 DEF Calm, Flow, unregOnly, subsVars
<1>3. CASE UnsubscribePanics(x)
  BY <1>3, QuietCalm DEF UnsubscribePanics, Off, Flow
<1>4. CASE DeleteEntry(x)
  <2>1. /\ hooks' = hooks /\ UNCHANGED unregOnly
        /\ UNCHANGED subsVars \/ DeleteSub(x.sub.ID)
    BY <1>4 DEF DeleteEntry
  <2>2. \A i \in DOMAIN subs' : i \in DOMAIN subs /\ subs'[i] = subs[i]
    BY <2>1 DEF DeleteSub, subsVars
  <2> QED  BY <1>1, <2>1, <2>2 DEF Calm, Flow, unregOnly
<1> QED  BY <1>2, <1>3, <1>4 DEF Unregister

LEMMA NextCalm == Inv /\ [Next]_vars => Calm
<1> SUFFICES ASSUME Inv, [Next]_vars PROVE Calm  OBVIOUS
<1>1. CASE UNCHANGED vars
  BY <1>1, QuietCalm DEF vars, procVars, subsVars, Flow
<1>2. CASE \E c \in Configs : Start(c)
  BY <1>2, QuietCalm DEF Start, Flow
<1>3. CASE Crash \/ Exit
  BY <1>3, QuietCalm DEF Crash, Exit, Off, Flow
<1>4. CASE CatchSignal \/ SignalReturns \/ ServerReturns
  BY <1>4, QuietCalm DEF CatchSignal, SignalReturns, ServerReturns, Flow
<1>5. CASE Registered \/ ListenersReturn \/ ListAll \/ ActorReturns
  BY <1>5, QuietCalm DEF Registered, ListenersReturn, ListAll, ActorReturns, actorOnly,
     subsVars, Flow
<1>6. ASSUME NEW t \in Places, Register(t) \/ RegFails(t) PROVE Calm
  BY <1>6, RegisterCalm
<1>7. ASSUME NEW x \in unreg, Unregister(x) \/ UnsubscribeFails(x) PROVE Calm
  BY <1>7, UnregisterCalm
<1> QED  BY <1>1, <1>2, <1>3, <1>4, <1>5, <1>6, <1>7 DEF Next, Main
-----------------------------------------------------------------------------
(* Requests when the process takes a step.                                 *)
LEMMA ProcessKeeps ==
  ASSUME Inv, ServerInv, Process
  PROVE  ServerInv'
<1>1. Calm /\ Next  BY NextCalm DEF Process
<1>2. ServerTypeOK'
  <2>1. handlers' \subseteq config'.trackers
    <3>1. CASE config' = config  BY <3>1 DEF Process, ServerInv, ServerTypeOK
    <3>2. CASE actor = "off"
      <4>1. handlers = {}  BY <3>2 DEF ServerInv, HandlersSet
      <4> QED  BY <4>1 DEF Process
    <3> QED  BY <1>1, <3>1, <3>2 DEF Calm
  <2>2. requests' \in [Deliveries -> {NoRequest} \cup Requests]
    <3>1. ASSUME NEW d \in Deliveries, requests[d].pc \in InFlight
          PROVE  [requests[d] EXCEPT !.pc = "cut"] \in Requests
      <4>1. requests[d] \in Requests
        BY <3>1 DEF ServerInv, ServerTypeOK, NoRequest, InFlight
      <4> QED  BY <4>1 DEF Requests, InFlight, Ended, Dropped
    <3>2. \A d \in Deliveries : requests[d] \in {NoRequest} \cup Requests
      BY DEF ServerInv, ServerTypeOK
    <3> HIDE DEF ServerInv
    <3> QED  BY <3>1, <3>2 DEF Process
  <2> QED  BY <2>1, <2>2 DEF ServerTypeOK
<1>3. ASSUME NEW h, Named(h),
             h \in hooks \/ actor \in {"unregistering", "returned"}
      PROVE  Named(h)'
  <2> SUFFICES ASSUME h.sub \in DOMAIN subs' PROVE subs'[h.sub].TrackerName = h.tracker
    BY DEF Named
  <2>1. CASE h.sub \in DOMAIN subs /\ subs'[h.sub].TrackerName = subs[h.sub].TrackerName
    BY <1>3, <2>1 DEF Named
  <2>2. CASE actor = "registering" /\ h.sub \notin UsedIDs
    BY <1>3, <2>2 DEF UsedIDs
  <2> QED  BY <1>1, <2>1, <2>2 DEF Calm
<1>4. HooksNamed'
  <2> SUFFICES ASSUME NEW h \in hooks' PROVE Named(h)'  BY DEF HooksNamed
  <2>1. CASE h \in hooks  BY <1>3, <2>1 DEF ServerInv, HooksNamed
  <2>2. CASE h \notin hooks  BY <1>1, <2>2 DEF Calm, Named
  <2> QED  BY <2>1, <2>2
<1>5. HandlersSet'
  <2> SUFFICES ASSUME handlers' # {}
               PROVE  /\ actor' \notin {"off", "registering"}
                      /\ \A t \in Triggers' : reg'[t].pc = "ok"
    BY DEF HandlersSet
  <2>1. actor' # "off" /\ handlers = handlers' /\ handlers # {}  BY DEF Process
  <2>2. actor \notin {"off", "registering"} /\ \A t \in Triggers : reg[t].pc = "ok"
    BY <2>1 DEF ServerInv, HandlersSet
  <2>3. config' = config /\ reg' = reg /\ actor' # "registering"
    BY <1>1, <2>1, <2>2 DEF Calm, Flow
  <2> QED  BY <2>1, <2>2, <2>3 DEF Triggers
<1>6. RequestsNamed'
  <2>1. server' = "serving" => actor' # "off"
    BY <1>1 DEF Calm, Flow, ServerInv, RequestsNamed
  <2>2. ASSUME NEW d \in Deliveries
        PROVE  RequestNamed(requests[d])'
    <3> PICK r : r = requests[d]  OBVIOUS
    <3> PICK s : s = requests'[d]  OBVIOUS
    <3>1. r \in {NoRequest} \cup Requests  BY DEF ServerInv, ServerTypeOK
    <3>2. s = IF actor' = "off" /\ r.pc \in InFlight THEN [r EXCEPT !.pc = "cut"] ELSE r
      BY DEF Process
    <3>0. SUFFICES RequestNamed(s)'  BY DEF RequestNamed, Named
    <3> USE DEF RequestNamed
    <3>3. CASE r.pc \notin InFlight
      BY <3>2, <3>3 DEF InFlight
    <3>4. CASE r.pc \in InFlight /\ actor' = "off"
      <4>1. r \in Requests  BY <3>1, <3>4 DEF NoRequest, InFlight
      <4>2. s.pc = "cut"  BY <3>2, <3>4, <4>1 DEF Requests
      <4> QED  BY <4>2 DEF InFlight
    <3>5. CASE r.pc \in InFlight /\ actor' # "off"
      <4>1. s = r /\ handlers' = handlers  BY <3>2, <3>5 DEF Process
      <4>2. actor # "off"  BY <3>5 DEF ServerInv, RequestsNamed
      <4>3. r.pc = "accepted" =>
              Named(r.hook) /\ (r.hook \in hooks \/ actor \in {"unregistering", "returned"})
        BY DEF ServerInv, RequestsNamed
      <4>4. PICK h : h = r.hook  OBVIOUS
      <4>5. r.pc = "accepted" => Named(h)'  BY <1>3, <4>3, <4>4
      <4>6. r.pc = "accepted" => h \in hooks' \/ actor' \in {"unregistering", "returned"}
        BY <1>1, <3>5, <4>2, <4>3, <4>4 DEF Calm, Flow
      <4>7. /\ r.pc \in {"loaded", "updating"} => r.sub.TrackerName = r.hook.tracker
            /\ r.pc = "updating" => handlers # {}
        BY DEF ServerInv, RequestsNamed
      <4> QED  BY <3>5, <4>1, <4>4, <4>5, <4>6, <4>7
    <3> QED  BY <3>3, <3>4, <3>5
  <2> QED  BY <2>1, <2>2 DEF RequestsNamed
<1> QED  BY <1>2, <1>4, <1>5, <1>6 DEF ServerInv

(* A request takes a step of its own.                                      *)
LEMMA RequestKeeps ==
  ASSUME ServerInv, NEW d \in Deliveries, NEW r \in Requests,
         requests' = [requests EXCEPT ![d] = r],
         UNCHANGED <<subs, hooks, config, procVars, handlers>>, RequestNamed(r)
  PROVE  ServerInv'
<1>1. requests' \in [Deliveries -> {NoRequest} \cup Requests]
  BY DEF ServerInv, ServerTypeOK
<1>2. ServerTypeOK'  BY <1>1 DEF ServerInv, ServerTypeOK
<1>3. HooksNamed' /\ HandlersSet'
  BY DEF ServerInv, HooksNamed, Named, HandlersSet, Triggers, procVars
<1>4. RequestsNamed'
  <2>1. server' = server /\ actor' = actor  BY DEF procVars
  <2>2. ASSUME NEW e \in Deliveries PROVE RequestNamed(requests[e])'
    <3>1. CASE e = d
      <4>1. requests'[e] = r  BY <3>1 DEF ServerInv, ServerTypeOK
      <4> QED  BY <2>1, <4>1 DEF RequestNamed, Named
    <3>2. CASE e # d
      <4>1. requests'[e] = requests[e]  BY <3>2 DEF ServerInv, ServerTypeOK
      <4>2. RequestNamed(requests[e])  BY DEF ServerInv, RequestsNamed
      <4> QED  BY <2>1, <4>1, <4>2 DEF RequestNamed, Named
    <3> QED  BY <3>1, <3>2
  <2> QED  BY <2>1, <2>2 DEF ServerInv, RequestsNamed
<1> QED  BY <1>2, <1>3, <1>4 DEF ServerInv

(* A webhook of a tracker comes in.                                        *)
LEMMA AcceptKeeps ==
  ASSUME Inv, ServerInv, NEW d \in Deliveries, NEW h \in hooks, Accept(d, h)
  PROVE  ServerInv'
<1>1. PICK update \in BOOLEAN :
        requests' = [requests EXCEPT ![d] =
          [pc |-> "accepted", hook |-> h, update |-> update, ready |-> Ready(h) /\ update]]
  BY DEF Accept
<1>2. (Ready(h) /\ update) \in BOOLEAN  OBVIOUS
<1>3. PICK ready \in BOOLEAN : ready = (Ready(h) /\ update)  BY <1>2
<1>4. h \in Hook  BY DEF Inv, TypeOK
<1> DEFINE r == [pc |-> "accepted", hook |-> h, update |-> update, ready |-> ready]
<1>5. r \in Requests  BY <1>4 DEF Requests
<1>6. actor # "off" /\ Named(h)
  BY DEF Accept, ServerInv, RequestsNamed, HooksNamed
<1>7. RequestNamed(r)  BY <1>6 DEF RequestNamed, InFlight
<1>8. requests' = [requests EXCEPT ![d] = r]  BY <1>1, <1>3
<1>9. UNCHANGED <<subs, hooks, config, procVars, handlers>>
  BY DEF Accept, vars, subsVars
<1> QED  BY <1>5, <1>7, <1>8, <1>9, RequestKeeps

(* A request that goes on keeps all but its place.                         *)
Goes(d, pc) ==
  \/ RequestAt(d, "accepted") /\ pc = "no entry"
  \/ RequestAt(d, "loaded") /\ pc \in Ended \ {"no entry"}
  \/ RequestAt(d, "loaded") /\ pc = "updating" /\ handlers # {}
  \/ RequestAt(d, "updating") /\ pc = "done"

LEMMA AnswerKeeps ==
  ASSUME ServerInv, NEW d \in Deliveries, NEW pc,
         Goes(d, pc),
         Answer(d, pc), UNCHANGED <<subs, hooks, config, procVars, handlers>>
  PROVE  ServerInv'
<1> PICK q : q = requests[d]  OBVIOUS
<1>0. q.pc \in {"accepted", "loaded", "updating"}  BY DEF Goes, RequestAt
<1>1. q \in Requests /\ RequestNamed(q)
  <2>1. q \in {NoRequest} \cup Requests /\ RequestNamed(q)
    BY DEF ServerInv, ServerTypeOK, RequestsNamed
  <2> QED  BY <1>0, <2>1 DEF NoRequest
<1>2. PICK r : r = [q EXCEPT !.pc = pc]  OBVIOUS
<1>3. q.pc \in {"accepted", "loaded", "updating"} /\ actor # "off"  BY DEF Goes, RequestAt
<1>4. /\ r \in Requests /\ r.pc = pc
      /\ q.pc # "accepted" => r.sub = q.sub /\ r.hook = q.hook
  <2>1. CASE q.pc = "accepted"
    BY <1>1, <1>2, <2>1 DEF Requests, Goes, RequestAt, InFlight, Ended
  <2>2. CASE q.pc # "accepted"
    BY <1>1, <1>2, <1>3, <2>2 DEF Requests, Goes, RequestAt, InFlight, Ended, Dropped
  <2> QED  BY <2>1, <2>2
<1>5. RequestNamed(r)
  BY <1>1, <1>3, <1>4 DEF RequestNamed, Goes, RequestAt, InFlight, Ended, Dropped
<1>6. requests' = [requests EXCEPT ![d] = r]  BY <1>2 DEF Answer
<1> QED  BY <1>4, <1>5, <1>6, RequestKeeps

(* The entry that is found is one of the tracker that has called.          *)
LEMMA LoadEntryKeeps ==
  ASSUME Inv, ServerInv, NEW d \in Deliveries, LoadEntry(d)
  PROVE  ServerInv'
<1>1. UNCHANGED <<subs, hooks, config, procVars, handlers>>
  BY DEF LoadEntry, subsVars
<1>2. RequestAt(d, "accepted")  BY DEF LoadEntry
<1>3. CASE Answer(d, "no entry")
  <2>1. Goes(d, "no entry")  BY <1>2 DEF Goes
  <2> QED  BY <1>1, <1>3, <2>1, AnswerKeeps
<1>4. CASE ~Answer(d, "no entry")
  <2> PICK q : q = requests[d]  OBVIOUS
  <2>1. q \in Requests /\ RequestNamed(q) /\ q.pc = "accepted" /\ actor # "off"
    BY <1>2 DEF ServerInv, ServerTypeOK, RequestsNamed, NoRequest, RequestAt
  <2>2. q.hook.sub \in DOMAIN subs
    BY <1>4 DEF LoadEntry
  <2> DEFINE r == [pc |-> "loaded", hook |-> q.hook, update |-> q.update,
                   ready |-> q.ready, sub |-> subs[q.hook.sub]]
  <2>3. requests' = [requests EXCEPT ![d] = r]  BY <1>4 DEF LoadEntry
  <2>4. subs[q.hook.sub] \in Subscription  BY <2>2 DEF Inv, TypeOK, SubsTypeOK
  <2>5. q.hook \in Hook /\ q.update \in BOOLEAN /\ q.ready \in BOOLEAN
    BY <2>1 DEF Requests
  <2>6. r \in Requests  BY <2>4, <2>5 DEF Requests, InFlight
  <2>7. RequestNamed(r)  BY <2>1, <2>2 DEF RequestNamed, Named, InFlight
  <2> QED  BY <1>1, <2>3, <2>6, <2>7, RequestKeeps
<1> QED  BY <1>3, <1>4

(* Only a tracker whose handler is set passes the update on.               *)
LEMMA HandleKeeps ==
  ASSUME Inv, ServerInv, NEW d \in Deliveries, Handle(d)
  PROVE  ServerInv'
<1>1. UNCHANGED <<subs, hooks, config, procVars, handlers>>
  BY DEF Handle, vars, subsVars
<1>2. RequestAt(d, "loaded")  BY DEF Handle
<1>3. PICK pc \in Outcomes(requests[d]) : Answer(d, pc)  BY DEF Handle
<1>4. \/ pc \in {"no tracker", "not decoded", "no handler", "panic", "no jobs"}
      \/ pc = "updating" /\ handlers # {}
  <2> PICK r : r = requests[d]  OBVIOUS
  <2>1. pc \in Outcomes(r)  BY <1>3
  <2>2. CASE pc = "no tracker"  BY <2>2
  <2>3. CASE pc \in ByPlugin(r)  BY <2>3 DEF ByPlugin, Updated
  <2>4. CASE pc \in ByGithub(r)  BY <2>4 DEF ByGithub, Updated
  <2> QED  BY <2>1, <2>2, <2>3, <2>4 DEF Outcomes
<1>5. Goes(d, pc)  BY <1>2, <1>4 DEF Goes, Ended, Dropped
<1> QED  BY <1>1, <1>3, <1>5, AnswerKeeps

LEMMA FinishKeeps ==
  ASSUME ServerInv, NEW d \in Deliveries, Finish(d)
  PROVE  ServerInv'
<1>1. Goes(d, "done")  BY DEF Finish, Goes
<1> QED  BY <1>1, AnswerKeeps DEF Finish, vars, subsVars

(* A tracker listens in a process that has registered all its triggers.    *)
LEMMA SetHandlerKeeps ==
  ASSUME Inv, ServerInv, NEW trk \in SubTrackers, SetHandler(trk)
  PROVE  ServerInv'
<1>1. actor = "listening" /\ \A t \in Triggers : reg[t].pc = "ok"
  BY DEF SetHandler, Inv, Registering
<1>2. /\ handlers' = handlers \cup {trk} /\ trk \in config.trackers
      /\ requests' = requests
      /\ UNCHANGED <<subs, hooks, config, signal, actor, server, reg>>
  BY DEF SetHandler, vars, subsVars, procVars
<1>3. ServerTypeOK'  BY <1>2 DEF ServerInv, ServerTypeOK
<1>4. HooksNamed'  BY <1>2 DEF ServerInv, HooksNamed, Named
<1>5. HandlersSet'  BY <1>1, <1>2 DEF HandlersSet, Triggers
<1>6. RequestsNamed'
  <2>1. ASSUME NEW d \in Deliveries PROVE RequestNamed(requests[d])'
    BY <1>2 DEF ServerInv, RequestsNamed, RequestNamed, Named
  <2> QED  BY <1>2, <2>1 DEF ServerInv, RequestsNamed
<1> QED  BY <1>3, <1>4, <1>5, <1>6 DEF ServerInv
-----------------------------------------------------------------------------
(* Requests leave the process as it is; the storage may fail them.         *)
LEMMA RequestQuiet ==
  ASSUME Inv,
         UNCHANGED vars \/ \E d \in Deliveries : LoadEntry(d)
  PROVE  Inv'
<1>1. CASE UNCHANGED vars  BY <1>1, NextKeeps
<1>2. ASSUME NEW d \in Deliveries, LoadEntry(d) PROVE Inv'
  <2>1. /\ UNCHANGED <<subsVars, hooks, config, reg, unreg, starts, actor, signal, server>>
        /\ UNCHANGED <<done, err, listen>>
        /\ Fine \/ \E kind \in Trouble : Trouble1(kind)
    BY <1>2 DEF LoadEntry, procVars, Trouble1
  <2>2. /\ done' \in BOOLEAN /\ err' \in {"", "interrupted", "canceled", "server", "actor"}
        /\ listen' \in {"", "error", "nil", "panic"}
    BY <2>1, Zenon DEF Inv, TypeOK
  <2> QED  BY <2>1, <2>2, QuietStep
<1> QED  BY <1>1, <1>2

LEMMA ServerKeeps ==
  Inv /\ ServerInv /\ [ServerNext]_serverVars => Inv' /\ ServerInv'
<1> SUFFICES ASSUME Inv, ServerInv, [ServerNext]_serverVars PROVE Inv' /\ ServerInv'
  OBVIOUS
<1>1. CASE Process  BY <1>1, NextKeeps, ProcessKeeps DEF Process
<1>2. ASSUME NEW trk \in SubTrackers, SetHandler(trk) PROVE Inv' /\ ServerInv'
  BY <1>2, SetHandlerKeeps, RequestQuiet DEF SetHandler
<1>3. ASSUME NEW d \in Deliveries, LoadEntry(d) PROVE Inv' /\ ServerInv'
  BY <1>3, LoadEntryKeeps, RequestQuiet
<1>4. ASSUME NEW d \in Deliveries, Handle(d) PROVE Inv' /\ ServerInv'
  <2>1. UNCHANGED vars  BY <1>4 DEF Handle
  <2> QED  BY <1>4, <2>1, HandleKeeps, RequestQuiet
<1>5. ASSUME NEW d \in Deliveries, Finish(d) PROVE Inv' /\ ServerInv'
  <2>1. UNCHANGED vars  BY <1>5 DEF Finish
  <2> QED  BY <1>5, <2>1, FinishKeeps, RequestQuiet
<1>6. ASSUME NEW d \in Deliveries, NEW h \in hooks, Accept(d, h)
      PROVE  Inv' /\ ServerInv'
  <2>1. UNCHANGED vars  BY <1>6 DEF Accept
  <2> QED  BY <1>6, <2>1, AcceptKeeps, RequestQuiet
<1>7. CASE UNCHANGED serverVars
  <2>1. /\ UNCHANGED vars /\ handlers' = handlers /\ requests' = requests
        /\ UNCHANGED <<subs, hooks, config, signal, actor, server, reg>>
    BY <1>7 DEF serverVars, vars, subsVars, procVars
  <2>2. Inv'  BY <2>1, RequestQuiet
  <2>3. ServerTypeOK' /\ HooksNamed' /\ HandlersSet'
    BY <2>1 DEF ServerInv, ServerTypeOK, HooksNamed, Named, HandlersSet, Triggers
  <2>4. RequestsNamed'
    <3>1. ASSUME NEW d \in Deliveries PROVE RequestNamed(requests[d])'
      BY <2>1 DEF ServerInv, RequestsNamed, RequestNamed, Named
    <3> QED  BY <2>1, <3>1 DEF ServerInv, RequestsNamed
  <2> QED  BY <2>2, <2>3, <2>4 DEF ServerInv
<1> QED  BY <1>1, <1>2, <1>3, <1>4, <1>5, <1>6, <1>7 DEF ServerNext, Request

(* In every life of the process the handlers are set after the triggers    *)
(* are registered, and requests keep the entry of the tracker that called. *)
THEOREM ServerAlwaysInv == ServerSpec => [](Inv /\ ServerInv)
<1>1. ServerInit => Inv /\ ServerInv
  <2> SUFFICES ASSUME ServerInit PROVE Inv /\ ServerInv  OBVIOUS
  <2>1. Inv  BY InitInv DEF ServerInit
  <2>2. ServerTypeOK  BY DEF ServerInit, ServerTypeOK
  <2>3. \A d \in Deliveries : requests[d].pc = "none"  BY DEF ServerInit, NoRequest
  <2>4. RequestsNamed
    <3>1. server = "off"  BY DEF ServerInit, Init, Idle
    <3> QED  BY <2>3, <3>1 DEF RequestsNamed, RequestNamed, InFlight
  <2>5. HooksNamed /\ HandlersSet  BY DEF ServerInit, Init, HooksNamed, HandlersSet
  <2> QED  BY <2>1, <2>2, <2>4, <2>5 DEF ServerInv
<1> QED  BY <1>1, ServerKeeps, PTL DEF ServerSpec

(* Handlers belong to configured trackers and requests keep their type.    *)
THEOREM ServerTypesKept == ServerSpec => []ServerTypeOK
<1>1. Inv /\ ServerInv => ServerTypeOK  BY DEF ServerInv
<1> QED  BY <1>1, ServerAlwaysInv, PTL

(* Every update is handled under an entry of the tracker that has sent it, *)
(* in any number of lives and under any configurations                     *)
(* (subscription.go:79-99, actor.go:103-116).                              *)
THEOREM AlwaysAttributed == ServerSpec => []Attributed
<1>1. Inv /\ ServerInv => Attributed
  BY DEF ServerInv, RequestsNamed, RequestNamed, Attributed, Updating
<1> QED  BY <1>1, ServerAlwaysInv, PTL

(* No job runs before all triggers are registered (actor.go:38-50).        *)
THEOREM JobsAfterRegistration == ServerSpec => []RunsRegistered
<1>1. Inv /\ ServerInv => RunsRegistered
  BY DEF ServerInv, RequestsNamed, RequestNamed, HandlersSet, RunsRegistered, Updating
<1> QED  BY <1>1, ServerAlwaysInv, PTL
-----------------------------------------------------------------------------
(* While nothing has failed and no tracker is strict about references, the *)
(* process finds no entries and leaves none, and those it has are its own. *)
Names(c, sub) ==
  [name |-> sub.TriggerName, in |-> sub.TrackerName]
    \in {c.triggers[t] : t \in DOMAIN c.triggers}

EntriesConfigured ==
  /\ trouble = 0 => ~troubled
  /\ trouble = 0 /\ Strict = {} =>
       /\ actor = "off" => DOMAIN subs = {}
       /\ \A i \in DOMAIN subs : Names(config, subs[i])
       /\ \A x \in unreg : Names(config, x.sub)

RequestsConfigured ==
  trouble = 0 /\ Strict = {} =>
    \A d \in Deliveries :
      requests[d].pc \in {"loaded", "updating"} => Names(config, requests[d].sub)

(* Failures are never forgotten.                                           *)
LEMMA TroubleStays ==
  ASSUME Inv, [Next]_vars
  PROVE  \/ trouble' = trouble /\ (troubled' => troubled)
         \/ trouble' > 0
<1>1. ASSUME NEW kind, Trouble1(kind) PROVE trouble' > 0
  <2>1. trouble \in 0..MaxTrouble  BY DEF Inv, TypeOK
  <2> QED  BY <1>1, <2>1 DEF Trouble1
<1>2. CASE \E c \in Configs : Start(c)  BY <1>2 DEF Start
<1>3. CASE CatchSignal \/ Crash \/ Main
  BY <1>1, <1>3 DEF CatchSignal, Crash, Main, SignalReturns, ServerReturns, Exit, Registered,
     ListenersReturn, ListAll, ActorReturns, Fine
<1>4. ASSUME NEW t \in Places, Register(t) \/ RegFails(t)
      PROVE  Fine \/ trouble' > 0
  BY <1>1, <1>4 DEF Register, RegFails, RegCreate, RegSubscribe, RegAnswered, RegCanceled,
     RegGet, RegUpdate
<1>5. ASSUME NEW x \in unreg, Unregister(x) \/ UnsubscribeFails(x)
      PROVE  Fine \/ trouble' > 0
  BY <1>1, <1>5 DEF Unregister, UnsubscribeFails, Unsubscribe, UnsubscribePanics, DeleteEntry
<1>6. CASE UNCHANGED vars  BY <1>6 DEF vars
<1> QED  BY <1>2, <1>3, <1>4, <1>5, <1>6 DEF Next, Fine

(* The tracker of a configured trigger is configured (config.validate).    *)
LEMMA OfTracker ==
  ASSUME Inv, NEW sub, Names(config, sub)
  PROVE  sub.TrackerName \in config.trackers
<1>1. config \in Configs \cup {NoConfig}  BY DEF Inv, TypeOK
<1> QED  BY <1>1, ConfigTypes DEF Names

LEMMA EntriesNext ==
  Inv /\ Cleanup /\ EntriesConfigured /\ [Next]_vars => EntriesConfigured'
<1> SUFFICES ASSUME Inv, Cleanup, EntriesConfigured, [Next]_vars, trouble' = 0
             PROVE  /\ ~troubled'
                    /\ Strict = {} =>
                         /\ actor' = "off" => DOMAIN subs' = {}
                         /\ \A i \in DOMAIN subs' : Names(config', subs'[i])
                         /\ \A x \in unreg' : Names(config', x.sub)
  BY DEF EntriesConfigured
<1>1. trouble = 0 /\ ~troubled /\ ~troubled'
  <2>1. trouble' = trouble /\ (troubled' => troubled)  BY TroubleStays
  <2> QED  BY <2>1 DEF EntriesConfigured
<1> SUFFICES ASSUME Strict = {}
             PROVE  /\ actor' = "off" => DOMAIN subs' = {}
                    /\ \A i \in DOMAIN subs' : Names(config', subs'[i])
                    /\ \A x \in unreg' : Names(config', x.sub)
  BY <1>1
<1>2. /\ actor = "off" => DOMAIN subs = {}
      /\ \A i \in DOMAIN subs : Names(config, subs[i])
      /\ \A x \in unreg : Names(config, x.sub)
  BY <1>1 DEF EntriesConfigured
<1>3. \A kind : ~Trouble1(kind)  BY <1>1 DEF Trouble1
<1>5. CASE \E c \in Configs : Start(c)
  BY <1>2, <1>5 DEF Start, subsVars
<1>6. CASE Crash  BY <1>3, <1>6 DEF Crash
<1>7. CASE Exit
  <2>1. subs' = subs /\ unreg' = {} /\ actor = "returned"
    BY <1>7 DEF Exit, Off, Stopped, subsVars
  <2>2. unreg = {}  BY <2>1 DEF Inv, Cleaning
  <2>3. DOMAIN subs = {}  BY <1>1, <2>1, <2>2 DEF Cleanup
  <2> QED  BY <2>1, <2>3
<1>8. CASE \/ CatchSignal \/ SignalReturns \/ ServerReturns
           \/ Registered \/ ListenersReturn \/ ActorReturns \/ UNCHANGED vars
  <2>1. /\ subs' = subs /\ unreg' = unreg /\ config' = config
        /\ actor' = "off" => actor = "off"
    BY <1>8 DEF CatchSignal, SignalReturns, ServerReturns, Registered, ListenersReturn,
       ActorReturns, actorOnly, subsVars, vars, procVars
  <2> QED  BY <1>2, <2>1
<1>9. CASE ListAll
  <2>1. /\ subs' = subs /\ config' = config /\ actor' # "off"
        /\ \A x \in unreg' : \E i \in DOMAIN subs : x.sub = subs[i]
    BY <1>9 DEF ListAll, actorOnly, subsVars
  <2> QED  BY <1>2, <2>1
<1>10. ASSUME NEW t \in Places, Register(t) \/ RegFails(t)
       PROVE  /\ actor' # "off" /\ config' = config /\ unreg' = unreg
              /\ \A i \in DOMAIN subs' :
                   \/ i \in DOMAIN subs /\ subs'[i] = subs[i]
                   \/ Names(config, subs'[i])
  <2>1. /\ actor = "registering" /\ t \in Triggers
        /\ config' = config /\ actor' = actor /\ unreg' = unreg
    BY <1>10 DEF Register, RegFails, RegCreate, RegSubscribe, RegAnswered, RegCanceled, RegGet,
       RegUpdate, At, regOnly
  <2>2. CASE UNCHANGED subsVars  BY <2>1, <2>2 DEF subsVars
  <2>3. ASSUME NEW sub, PutSub(sub), Names(config, sub)
        PROVE  \A i \in DOMAIN subs' :
                 (i \in DOMAIN subs /\ subs'[i] = subs[i]) \/ Names(config, subs'[i])
    BY <2>3 DEF PutSub
  <2>4. ASSUME NEW sub, sub.TrackerName = config.triggers[t].in,
               sub.TriggerName = config.triggers[t].name
        PROVE  Names(config, sub)
    <3>1. config \in Configs \cup {NoConfig}  BY DEF Inv, TypeOK
    <3>2. config.triggers[t] = [name |-> sub.TriggerName, in |-> sub.TrackerName]
      BY <2>1, <2>4, <3>1, ConfigTypes DEF Triggers
    <3> QED  BY <2>1, <3>2 DEF Names, Triggers
  <2>5. \/ UNCHANGED subsVars
        \/ \E sub : /\ PutSub(sub) /\ sub.TrackerName = config.triggers[t].in
                    /\ sub.TriggerName = config.triggers[t].name
    <3>1. CASE RegUpdate(t)
      <4> DEFINE sub == [EntryOf(t) EXCEPT !.TrackerRef = reg[t].ref]
      <4>1. PutSub(sub) /\ sub.TrackerName = config.triggers[t].in
            /\ sub.TriggerName = config.triggers[t].name
        BY <3>1 DEF RegUpdate, EntryOf, NewSub
      <4> QED  BY <4>1
    <3>2. CASE RegCreate(t)
      <4>1. \A id : LET sub == NewSub(id, config.triggers[t].in, config.triggers[t].name)
                    IN  /\ sub.TrackerName = config.triggers[t].in
                        /\ sub.TriggerName = config.triggers[t].name
        BY DEF NewSub
      <4> QED  BY <3>2, <4>1 DEF RegCreate
    <3> QED
      BY <1>10, <3>1, <3>2 DEF Register, RegFails, RegSubscribe, RegAnswered, RegCanceled, RegGet
  <2> QED  BY <2>1, <2>2, <2>3, <2>4, <2>5
<1>11. ASSUME NEW x \in unreg, Unregister(x) \/ UnsubscribeFails(x)
       PROVE  /\ actor' # "off" /\ config' = config
              /\ \A i \in DOMAIN subs' : i \in DOMAIN subs /\ subs'[i] = subs[i]
              /\ \A y \in unreg' : \E z \in unreg : y.sub = z.sub
  <2>1. actor = "unregistering"  BY DEF Inv, Cleaning
  <2>2. ~UnsubscribePanics(x) /\ ~UnsubscribeFails(x)
    BY <1>2, <1>3, OfTracker DEF UnsubscribePanics, UnsubscribeFails
  <2>3. actor' = actor /\ config' = config
    BY <1>11, <2>2 DEF Unregister, Unsubscribe, DeleteEntry, unregOnly
  <2>4. \A i \in DOMAIN subs' : i \in DOMAIN subs /\ subs'[i] = subs[i]
    BY <1>11, <2>2 DEF Unregister, Unsubscribe, DeleteEntry, DeleteSub, subsVars
  <2>5. [x EXCEPT !.pc = "delete"].sub = x.sub
    <3>1. x \in [sub : Subscription, pc : {"unsubscribe", "delete"}]  BY DEF Inv, TypeOK
    <3> QED  BY <3>1
  <2>6. \A y \in unreg' : \E z \in unreg : y.sub = z.sub
    BY <1>11, <2>2, <2>5 DEF Unregister, Unsubscribe, DeleteEntry, Drop, Advance
  <2> QED  BY <2>1, <2>3, <2>4, <2>6
<1>12. CASE \E t \in Places : Register(t) \/ RegFails(t)
  BY <1>2, <1>10, <1>12
<1>13. CASE \E x \in unreg : Unregister(x) \/ UnsubscribeFails(x)
  BY <1>2, <1>11, <1>13
<1> QED  BY <1>5, <1>6, <1>7, <1>8, <1>9, <1>12, <1>13 DEF Next, Main

(* Requests hold entries that were stored under the same configuration.    *)
LEMMA RequestsNext ==
  ASSUME Inv, ServerInv, EntriesConfigured, RequestsConfigured, [ServerNext]_serverVars
  PROVE  RequestsConfigured'
<1> SUFFICES ASSUME trouble' = 0, Strict = {}, NEW d \in Deliveries,
                    requests'[d].pc \in {"loaded", "updating"}
             PROVE  Names(config', requests'[d].sub)
  BY DEF RequestsConfigured
<1> PICK r : r = requests[d]  OBVIOUS
<1>1. r \in {NoRequest} \cup Requests /\ RequestNamed(r)
  BY DEF ServerInv, ServerTypeOK, RequestsNamed
<1>2. ASSUME trouble = 0
      PROVE  /\ \A i \in DOMAIN subs : Names(config, subs[i])
             /\ r.pc \in {"loaded", "updating"} => Names(config, r.sub)
  BY <1>2 DEF EntriesConfigured, RequestsConfigured
<1>3. CASE Process
  <2>1. requests'[d] = r /\ r.pc \in InFlight
    <3>1. requests'[d] = IF actor' = "off" /\ r.pc \in InFlight
                         THEN [r EXCEPT !.pc = "cut"] ELSE r
      BY <1>3 DEF Process
    <3>2. r.pc \in InFlight => [r EXCEPT !.pc = "cut"].pc = "cut"
      BY <1>1 DEF Requests, NoRequest, InFlight
    <3> QED  BY <3>1, <3>2 DEF InFlight
  <2>2. actor # "off"  BY <1>1, <2>1 DEF RequestNamed
  <2>3. config' = config  BY <1>3, <2>2, NextCalm DEF Process, Calm
  <2>4. trouble' = trouble  BY <1>3, TroubleStays DEF Process
  <2> QED  BY <1>2, <2>1, <2>3, <2>4
<1>4. ASSUME NEW trk \in SubTrackers, SetHandler(trk) PROVE Names(config', requests'[d].sub)
  BY <1>2, <1>4 DEF SetHandler, vars
<1>5. ASSUME NEW e \in Deliveries, Request(e) \/ \E h \in hooks : Accept(e, h)
      PROVE  Names(config', requests'[d].sub)
  <2>1. config' = config  BY <1>5 DEF Request, LoadEntry, Handle, Finish, Accept, vars
  <2>2. trouble = 0
    <3>1. \A kind : ~Trouble1(kind)
      <4>1. trouble \in 0..MaxTrouble  BY DEF Inv, TypeOK
      <4> QED  BY <4>1 DEF Trouble1
    <3> QED  BY <1>5, <3>1 DEF Request, LoadEntry, Handle, Finish, Accept, vars, Fine
  <2>3. CASE e # d
    <3>1. requests'[d] = r
      BY <1>5, <2>3 DEF Request, LoadEntry, Handle, Finish, Accept, Answer, ServerInv,
         ServerTypeOK
    <3> QED  BY <1>2, <2>1, <2>2, <3>1
  <2>4. CASE e = d
    <3>1. requests \in [Deliveries -> {NoRequest} \cup Requests]
      BY DEF ServerInv, ServerTypeOK
    <3>2. ~\E h \in hooks : Accept(d, h)  BY <3>1 DEF Accept
    <3>3. CASE LoadEntry(d)
      <4>1. ~Answer(d, "no entry")
        <5>0. RequestAt(d, "accepted")  BY <3>3 DEF LoadEntry
        <5>1. r \in Requests  BY <1>1, <5>0 DEF RequestAt, NoRequest
        <5>2. [r EXCEPT !.pc = "no entry"].pc = "no entry"  BY <5>1 DEF Requests
        <5> QED  BY <3>1, <5>2 DEF Answer
      <4>2. /\ r.hook.sub \in DOMAIN subs
            /\ requests'[d].sub = subs[r.hook.sub]
        <5>1. /\ r.hook.sub \in DOMAIN subs
              /\ requests' = [requests EXCEPT ![d] =
                   [pc |-> "loaded", hook |-> r.hook, update |-> r.update, ready |-> r.ready,
                    sub |-> subs[r.hook.sub]]]
          BY <3>3, <4>1 DEF LoadEntry
        <5> QED  BY <3>1, <5>1
      <4> QED  BY <1>2, <2>1, <2>2, <4>2
    <3>4. CASE Handle(d) \/ Finish(d)
      <4>1. r.pc \in {"loaded", "updating"}
        BY <3>4 DEF Handle, Finish, RequestAt
      <4>2. \E pc : requests'[d] = [r EXCEPT !.pc = pc]
        BY <3>1, <3>4 DEF Handle, Finish, Answer
      <4>3. requests'[d].sub = r.sub
        <5>1. r \in Requests /\ r.pc # "accepted" /\ r.pc # "no entry"
          <6>1. r # NoRequest  BY <4>1 DEF NoRequest
          <6> QED  BY <1>1, <4>1, <6>1
        <5>2. PICK pc : requests'[d] = [r EXCEPT !.pc = pc]  BY <4>2
        <5>3. [r EXCEPT !.pc = pc].sub = r.sub  BY <4>1, <5>1 DEF Requests
        <5> QED  BY <5>2, <5>3
      <4> QED  BY <1>2, <2>1, <2>2, <4>1, <4>3
    <3> QED  BY <1>5, <2>4, <3>2, <3>3, <3>4 DEF Request
  <2> QED  BY <2>3, <2>4
<1>6. CASE UNCHANGED serverVars
  BY <1>2, <1>6 DEF serverVars, vars
<1> QED  BY <1>3, <1>4, <1>5, <1>6 DEF ServerNext

LEMMA ConfiguredNext ==
  /\ Inv /\ ServerInv /\ Cleanup /\ EntriesConfigured /\ RequestsConfigured
  /\ [ServerNext]_serverVars
  => Cleanup' /\ EntriesConfigured' /\ RequestsConfigured'
<1> SUFFICES ASSUME Inv, ServerInv, Cleanup, EntriesConfigured, RequestsConfigured,
                    [ServerNext]_serverVars
             PROVE  Cleanup' /\ EntriesConfigured'
  BY RequestsNext
<1>1. CASE [Next]_vars  BY <1>1, CleanupStep, EntriesNext
<1>2. ASSUME NEW d \in Deliveries, LoadEntry(d) PROVE Cleanup' /\ EntriesConfigured'
  <2>1. /\ subs' = subs /\ config' = config /\ actor' = actor /\ unreg' = unreg
        /\ \/ Fine
           \/ Trouble1("fail")
    BY <1>2 DEF LoadEntry, subsVars, procVars
  <2>2. trouble \in 0..MaxTrouble  BY DEF Inv, TypeOK
  <2>3. CASE Fine
    BY <2>1, <2>3 DEF Fine, Cleanup, EntriesConfigured
  <2>4. CASE Trouble1("fail")
    BY <2>2, <2>4 DEF Trouble1, Cleanup, EntriesConfigured
  <2> QED  BY <2>1, <2>3, <2>4
<1> QED
  BY <1>1, <1>2 DEF ServerNext, Request, Process, SetHandler, Handle, Finish, Accept, serverVars

(* While nothing has failed, an update runs the jobs of a trigger that is  *)
(* configured for its tracker: no entry of another configuration is left   *)
(* by the time the next process starts (actor.go:76-79, 165-191).          *)
THEOREM JobsOfConfiguration == ServerSpec => []RunsConfigured
<1>1. ServerInit => Cleanup /\ EntriesConfigured /\ RequestsConfigured
  <2> SUFFICES ASSUME ServerInit
               PROVE  Cleanup /\ EntriesConfigured /\ RequestsConfigured
    OBVIOUS
  <2>1. /\ actor = "off" /\ DOMAIN subs = {} /\ unreg = {} /\ ~troubled
        /\ \A d \in Deliveries : requests[d].pc = "none"
    BY DEF ServerInit, Init, SubsInit, Idle, NoRequest
  <2> QED  BY <2>1 DEF Cleanup, EntriesConfigured, RequestsConfigured
<1>2. RequestsConfigured => RunsConfigured
  BY DEF RequestsConfigured, RunsConfigured, Updating, InConfig, Names, Triggers
<1> QED  BY <1>1, <1>2, ConfiguredNext, ServerAlwaysInv, PTL DEF ServerSpec
-----------------------------------------------------------------------------
(* What a ready request finds until the context is done or something       *)
(* fails: all handlers set, and its entry where its webhook says.          *)
Kept(r) ==
  r.pc \in InFlight /\ r.ready /\ ~done /\ ~troubled =>
    /\ actor = "listening" /\ handlers = config.trackers /\ handlers # {}
    /\ r.update
    /\ r.pc = "accepted" =>
         \E t \in Triggers :
           reg[t].id = r.hook.sub /\ config.triggers[t].name \in config.jobs
    /\ r.pc = "loaded" =>
         r.sub.TrackerName \in handlers /\ r.sub.TriggerName \in config.jobs

RequestsKept == \A d \in Deliveries : Kept(requests[d])

(* A process that listens goes on to, with what it has registered.         *)
LEMMA ListeningStays ==
  ASSUME Inv, [Next]_vars, actor # "off", actor' # "off", ~done', ~troubled'
  PROVE  /\ ~done /\ ~troubled
         /\ actor = "listening" /\ config.trackers # {} => UNCHANGED <<actor, config, reg>>
<1>1. CASE \E c \in Configs : Start(c)  BY <1>1 DEF Start
<1>2. CASE Crash \/ Exit  BY <1>2 DEF Crash, Exit, Off
<1>3. CASE CatchSignal \/ SignalReturns \/ ServerReturns
  BY <1>3 DEF CatchSignal, SignalReturns, ServerReturns, GroupError
<1>4. CASE Registered \/ ListenersReturn \/ ListAll \/ ActorReturns
  <2>1. done' = done \/ done'
    BY <1>4 DEF Registered, ListenersReturn, ListAll, ActorReturns, GroupError
  <2>2. ~troubled  BY <1>4 DEF Registered, ListenersReturn, ListAll, ActorReturns, Fine, Trouble1
  <2>3. actor = "listening" => done \/ config.trackers = {}
    BY <1>4 DEF Registered, ListenersReturn, ListAll, ActorReturns
  <2> QED  BY <2>1, <2>2, <2>3
<1>5. ASSUME NEW t \in Places, Register(t) \/ RegFails(t)
      PROVE  actor = "registering" /\ ~done /\ ~troubled
  BY <1>5 DEF Register, RegFails, RegCreate, RegSubscribe, RegAnswered, RegCanceled, RegGet,
     RegUpdate, At, regOnly, Fine, Trouble1
<1>6. ASSUME NEW x \in unreg, Unregister(x) \/ UnsubscribeFails(x)
      PROVE  actor = "unregistering" /\ ~done /\ ~troubled
  <2>1. actor = "unregistering"  BY DEF Inv, Cleaning
  <2>2. ~UnsubscribePanics(x)  BY DEF UnsubscribePanics, Off
  <2> QED
    BY <1>6, <2>1, <2>2 DEF Unregister, UnsubscribeFails, Unsubscribe, DeleteEntry, unregOnly,
       Fine, Trouble1
<1>7. CASE UNCHANGED vars  BY <1>7 DEF vars, procVars
<1> QED  BY <1>1, <1>2, <1>3, <1>4, <1>5, <1>6, <1>7 DEF Next, Main

(* A webhook a tracker sends to a program that is ready has its entry.     *)
LEMMA ReadyEntry ==
  ASSUME Inv, actor = "listening", NEW t \in Triggers
  PROVE  /\ reg[t].id \in DOMAIN subs
         /\ subs[reg[t].id].TrackerName \in config.trackers
         /\ subs[reg[t].id].TriggerName = config.triggers[t].name
<1>1. Stored(t)  BY DEF Inv, Registering
<1>2. config.triggers[t].in \in config.trackers
  <2>1. config \in Configs \cup {NoConfig}  BY DEF Inv, TypeOK
  <2> QED  BY <2>1, ConfigTypes DEF Triggers
<1> QED  BY <1>1, <1>2 DEF Stored

(* What a request may come to, and that it is kept.                        *)
Keeps ==
  \A d \in Deliveries :
    /\ Kept(requests[d])'
    /\ /\ requests[d].pc \in InFlight /\ requests[d].ready
       /\ requests'[d].pc \in Dropped
       => done \/ troubled'

LEMMA ProcessKept ==
  ASSUME Inv, ServerInv, RequestsKept, Process
  PROVE  Keeps
<1> SUFFICES ASSUME NEW d \in Deliveries
             PROVE  /\ Kept(requests[d])'
                    /\ requests[d].pc \in InFlight => requests'[d].pc \notin Dropped
  BY DEF Keeps
<1> PICK r : r = requests[d]  OBVIOUS
<1>1. r \in {NoRequest} \cup Requests /\ RequestNamed(r) /\ Kept(r)
  BY DEF ServerInv, ServerTypeOK, RequestsNamed, RequestsKept
<1>2. requests'[d] = IF actor' = "off" /\ r.pc \in InFlight
                     THEN [r EXCEPT !.pc = "cut"] ELSE r
  BY DEF Process
<1>3. CASE r.pc \in InFlight /\ actor' = "off"
  <2>1. [r EXCEPT !.pc = "cut"].pc = "cut"
    BY <1>1, <1>3 DEF Requests, NoRequest, InFlight
  <2> QED  BY <1>2, <1>3, <2>1 DEF Kept, InFlight, Dropped
<1>4. CASE r.pc \in InFlight /\ actor' # "off"
  <2>1. requests'[d] = r /\ handlers' = handlers  BY <1>2, <1>4 DEF Process
  <2>2. actor # "off"  BY <1>1, <1>4 DEF RequestNamed
  <2>3. ASSUME r.ready, ~done', ~troubled'
        PROVE  /\ Kept(r) /\ ~done /\ ~troubled
               /\ UNCHANGED <<actor, config, reg, handlers>>
    <3>1. ~done /\ ~troubled
      BY <1>4, <2>2, <2>3, ListeningStays DEF Process
    <3>2. actor = "listening" /\ config.trackers # {}
      BY <1>1, <1>4, <2>3, <3>1 DEF Kept
    <3> QED  BY <1>1, <1>4, <2>1, <2>2, <2>3, <3>1, <3>2, ListeningStays DEF Process
  <2>4. Kept(requests[d])'  BY <2>1, <2>3 DEF Kept, Triggers
  <2> QED  BY <1>4, <2>1, <2>4 DEF InFlight, Dropped
<1>5. CASE r.pc \notin InFlight
  BY <1>2, <1>5 DEF Kept
<1> QED  BY <1>3, <1>4, <1>5

(* A step of one request, the others staying as they are.                  *)
LEMMA RequestKept ==
  ASSUME ServerInv, RequestsKept, NEW d \in Deliveries, NEW q,
         requests' = [requests EXCEPT ![d] = q],
         UNCHANGED <<config, actor, done, reg, handlers>>, troubled' \/ troubled' = troubled,
         Kept(q)' ,
         /\ requests[d].pc \in InFlight /\ requests[d].ready
         /\ q.pc \in Dropped
         => done \/ troubled'
  PROVE  Keeps
<1>1. \A e \in Deliveries : requests'[e] = IF e = d THEN q ELSE requests[e]
  BY DEF ServerInv, ServerTypeOK
<1>2. \A e \in Deliveries \ {d} : Kept(requests[e])'
  BY <1>1 DEF RequestsKept, Kept, Triggers
<1>3. Kept(requests[d])'  BY <1>1 DEF Kept
<1>4. \A e \in Deliveries \ {d} :
        requests[e].pc \in InFlight => requests'[e].pc \notin Dropped
  BY <1>1 DEF InFlight, Dropped
<1> QED  BY <1>1, <1>2, <1>3, <1>4 DEF Keeps

LEMMA AcceptKept ==
  ASSUME Inv, ServerInv, RequestsKept, NEW d \in Deliveries, NEW h \in hooks, Accept(d, h)
  PROVE  Keeps
<1>1. PICK update \in BOOLEAN :
        requests' = [requests EXCEPT ![d] =
          [pc |-> "accepted", hook |-> h, update |-> update, ready |-> Ready(h) /\ update]]
  BY DEF Accept
<1> PICK ready : ready = (Ready(h) /\ update)  OBVIOUS
<1> DEFINE q == [pc |-> "accepted", hook |-> h, update |-> update, ready |-> ready]
<1>2. UNCHANGED <<config, actor, done, reg, handlers, troubled>>  BY DEF Accept, vars, procVars
<1>3. ASSUME Ready(h)
      PROVE  /\ actor = "listening" /\ handlers = config.trackers /\ handlers # {}
             /\ \E t \in Triggers :
                  reg[t].id = h.sub /\ config.triggers[t].name \in config.jobs
  BY <1>3, ReadyEntry DEF Ready
<1>4. Kept(q)'
  <2>1. q.ready => Ready(h) /\ update  OBVIOUS
  <2> QED  BY <1>2, <1>3, <2>1 DEF Kept, Triggers
<1>5. q.pc \notin Dropped  BY DEF Dropped
<1>6. requests' = [requests EXCEPT ![d] = q]  BY <1>1
<1> HIDE DEF q
<1> QED  BY <1>2, <1>4, <1>5, <1>6, RequestKept

(* The entry of a ready request is there, unless the storage fails.        *)
LEMMA LoadKept ==
  ASSUME Inv, ServerInv, RequestsKept, NEW d \in Deliveries, LoadEntry(d)
  PROVE  Keeps
<1> PICK r : r = requests[d]  OBVIOUS
<1>0. RequestAt(d, "accepted")  BY DEF LoadEntry
<1>1. r \in Requests /\ r.pc = "accepted" /\ Kept(r)
  BY <1>0 DEF ServerInv, ServerTypeOK, RequestsKept, RequestAt, NoRequest
<1>2. /\ UNCHANGED <<config, actor, done, reg, handlers>>
      /\ troubled' \/ troubled' = troubled
  BY DEF LoadEntry, procVars, Fine, Trouble1
<1>3. ASSUME r.ready, ~done, ~troubled
      PROVE  /\ r.hook.sub \in DOMAIN subs
             /\ subs[r.hook.sub].TrackerName \in handlers
             /\ subs[r.hook.sub].TriggerName \in config.jobs
             /\ actor = "listening" /\ handlers = config.trackers /\ r.update
  BY <1>1, <1>3, ReadyEntry DEF Kept, InFlight
<1>4. CASE Answer(d, "no entry")
  <2> DEFINE q == [r EXCEPT !.pc = "no entry"]
  <2>1. q.pc = "no entry"  BY <1>1 DEF Requests
  <2>2. r.ready => done \/ troubled'
    <3>1. ASSUME Fine, r.hook.sub \in DOMAIN subs PROVE FALSE
      <4>1. requests'[d].pc = "no entry"
        BY <1>4, <2>1 DEF Answer, ServerInv, ServerTypeOK
      <4>2. CASE requests' = [requests EXCEPT ![d] =
                   [pc |-> "loaded", hook |-> r.hook, update |-> r.update, ready |-> r.ready,
                    sub |-> subs[r.hook.sub]]]
        <5>1. requests'[d].pc = "loaded"  BY <4>2 DEF ServerInv, ServerTypeOK
        <5> QED  BY <4>1, <5>1
      <4>3. CASE \E kind : Trouble1(kind)
        BY <3>1, <4>3 DEF Fine, Trouble1
      <4> QED  BY <3>1, <4>2, <4>3 DEF LoadEntry
    <3>2. CASE Trouble1("fail")  BY <3>2 DEF Trouble1
    <3>3. CASE Fine  BY <1>3, <3>1, <3>3 DEF Fine
    <3> QED  BY <3>2, <3>3 DEF LoadEntry
  <2>3. Kept(q)'  BY <2>1 DEF Kept, InFlight
  <2>4. requests' = [requests EXCEPT ![d] = q]  BY <1>4 DEF Answer
  <2> HIDE DEF q
  <2> QED  BY <1>2, <2>2, <2>3, <2>4, RequestKept
<1>5. CASE ~Answer(d, "no entry")
  <2> PICK sub : sub = subs[r.hook.sub]  OBVIOUS
  <2> DEFINE q == [pc |-> "loaded", hook |-> r.hook, update |-> r.update, ready |-> r.ready,
                   sub |-> sub]
  <2>1. requests' = [requests EXCEPT ![d] = q]  BY <1>5 DEF LoadEntry
  <2>2. q.pc = "loaded" /\ q.ready = r.ready /\ q.update = r.update
        /\ q.sub = subs[r.hook.sub]
    OBVIOUS
  <2> HIDE DEF q
  <2>3. Fine  BY <1>5 DEF LoadEntry
  <2>4. Kept(q)'
    <3>1. ASSUME q.ready, ~done', ~troubled'
          PROVE  /\ handlers' # {} /\ q.sub.TrackerName \in handlers'
                 /\ q.sub.TriggerName \in config'.jobs
                 /\ actor' = "listening" /\ handlers' = config'.trackers /\ q.update
      BY <1>2, <1>3, <2>2, <2>3, <3>1 DEF Fine
    <3> QED  BY <2>2, <3>1 DEF Kept
  <2>5. q.pc \notin Dropped  BY <2>2 DEF Dropped
  <2> QED  BY <1>2, <2>1, <2>4, <2>5, RequestKept
<1> QED  BY <1>4, <1>5

(* Its tracker has its handler.                                            *)
LEMMA HandleKept ==
  ASSUME Inv, ServerInv, RequestsKept, NEW d \in Deliveries, Handle(d) \/ Finish(d)
  PROVE  Keeps
<1> PICK r : r = requests[d]  OBVIOUS
<1>0. r.pc \in {"loaded", "updating"}  BY DEF Handle, Finish, RequestAt
<1>1. r \in Requests /\ Kept(r)
  <2>1. r # NoRequest  BY <1>0 DEF NoRequest
  <2> QED  BY <2>1 DEF ServerInv, ServerTypeOK, RequestsKept
<1>2. UNCHANGED <<config, actor, done, reg, handlers, troubled>>
  BY DEF Handle, Finish, vars, procVars
<1>3. PICK pc : /\ Answer(d, pc)
                /\ \/ Handle(d) /\ pc \in Outcomes(r) /\ r.pc = "loaded"
                   \/ Finish(d) /\ pc = "done"
  BY DEF Handle, Finish, RequestAt
<1> DEFINE q == [r EXCEPT !.pc = pc]
<1>4. q.pc = pc /\ q.ready = r.ready /\ q.update = r.update
  BY <1>0, <1>1 DEF Requests
<1>5. requests' = [requests EXCEPT ![d] = q]  BY <1>3 DEF Answer
<1> HIDE DEF q
<1>6. ASSUME r.ready, ~done, ~troubled
      PROVE  /\ actor = "listening" /\ handlers = config.trackers /\ handlers # {} /\ r.update
             /\ r.pc = "loaded" =>
                  r.sub.TrackerName \in handlers /\ r.sub.TriggerName \in config.jobs
  BY <1>0, <1>1, <1>6 DEF Kept, InFlight
<1>7. pc \notin {"accepted", "loaded"}
  BY <1>3 DEF Outcomes, ByPlugin, ByGithub, Updated
<1>8. ASSUME r.ready, ~done, ~troubled PROVE pc \notin Dropped
  <2>1. CASE pc = "done"  BY <2>1 DEF Dropped
  <2>2. CASE pc \in Outcomes(r) /\ r.pc = "loaded"
    <3>1. pc \in Updated(r)
      BY <1>6, <1>8, <2>2 DEF Outcomes, ByPlugin, ByGithub
    <3> QED  BY <1>6, <1>8, <2>2, <3>1 DEF Updated, Dropped
  <2> QED  BY <1>3, <2>1, <2>2
<1>9. Kept(q)'
  BY <1>2, <1>4, <1>6, <1>7 DEF Kept
<1> QED  BY <1>2, <1>4, <1>5, <1>8, <1>9, RequestKept

LEMMA KeptNext == Inv /\ ServerInv /\ RequestsKept /\ [ServerNext]_serverVars => Keeps
<1> SUFFICES ASSUME Inv, ServerInv, RequestsKept, [ServerNext]_serverVars PROVE Keeps
  OBVIOUS
<1>1. CASE Process  BY <1>1, ProcessKept
<1>2. ASSUME NEW d \in Deliveries, Request(d) PROVE Keeps
  BY <1>2, LoadKept, HandleKept DEF Request
<1>3. ASSUME NEW d \in Deliveries, NEW h \in hooks, Accept(d, h) PROVE Keeps
  BY <1>3, AcceptKept
<1>4. CASE \/ UNCHANGED serverVars
           \/ \E trk \in SubTrackers : SetHandler(trk)
  <2>1. /\ UNCHANGED <<config, actor, done, reg, troubled, requests>>
        /\ handlers' = handlers \/ handlers # config.trackers
    BY <1>4 DEF SetHandler, serverVars, vars, procVars
  <2>2. \A d \in Deliveries : Kept(requests[d])'
    BY <2>1 DEF RequestsKept, Kept, Triggers
  <2>3. \A d \in Deliveries :
          requests[d].pc \in InFlight => requests'[d].pc \notin Dropped
    BY <2>1 DEF InFlight, Dropped
  <2> QED  BY <2>2, <2>3 DEF Keeps
<1> QED  BY <1>1, <1>2, <1>3, <1>4 DEF ServerNext

(* An update that reaches a program that listens is handled, unless the    *)
(* program stops or something fails (subscription.go:87-95, jsonrpc.go:93, *)
(* github.go:253).                                                         *)
THEOREM ReadyRequestsKept == ServerSpec => KeptWhenReady
<1> DEFINE Step == \A d \in Deliveries :
                     /\ requests[d].pc \in InFlight /\ requests[d].ready
                     /\ requests'[d].pc \in Dropped
                     => done \/ troubled'
<1>1. ServerInit => RequestsKept
  BY DEF ServerInit, NoRequest, RequestsKept, Kept, InFlight
<1>2. Inv /\ ServerInv /\ RequestsKept /\ [ServerNext]_serverVars => RequestsKept' /\ Step
  BY KeptNext DEF Keeps, RequestsKept
<1>3. Inv /\ ServerInv /\ RequestsKept /\ [ServerNext]_serverVars
        => RequestsKept' /\ [Step]_serverVars
  BY <1>2
<1> QED  BY <1>1, <1>3, ServerAlwaysInv, PTL DEF ServerSpec, KeptWhenReady
=============================================================================
