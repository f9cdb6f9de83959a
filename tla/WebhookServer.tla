--------------------------- MODULE WebhookServer ---------------------------
(***************************************************************************)
(* The webhooks of a running program: SubscriptionsManager.Listen and its  *)
(* middleware (app/store/service/subscription.go), Actor.HandleWebhook and *)
(* the head of handleUpdate (app/store/service/actor.go), HandleWebhook    *)
(* and Listen of the trackers (app/tracker), over the life of the process. *)
(*                                                                         *)
(* The server answers before the triggers are registered, and requests run *)
(* beside all that Lifecycle does: the entry a request was let in with may *)
(* be deleted, the listeners end, and the process does not wait for it.    *)
(* What the jobs of an update do is the matter of Updates.                 *)
(***************************************************************************)
EXTENDS Lifecycle

CONSTANT Deliveries  \* webhooks that may be delivered

VARIABLES
  handlers,  \* trackers whose Listen has set the handler
  requests   \* delivery -> its request

serverVars == <<vars, handlers, requests>>

(* Requests that were let go without an update, and all that have ended.   *)
Dropped == {"no entry", "no tracker", "not decoded", "no handler", "panic", "no jobs"}
Ended == Dropped \cup {"done", "cut"}
InFlight == {"accepted", "loaded", "updating"}

(* A request: the webhook it comes from, whether its body is an update and *)
(* the program was ready for it, and the subscription in its context.      *)
NoRequest == [pc |-> "none"]
Requests ==
  [pc : {"accepted", "no entry", "cut"}, hook : Hook, update : BOOLEAN, ready : BOOLEAN]
    \cup [pc : (InFlight \cup Ended) \ {"accepted", "no entry"}, hook : Hook,
          update : BOOLEAN, ready : BOOLEAN, sub : Subscription]

ServerInit ==
  /\ Init
  /\ handlers = {}
  /\ requests = [d \in Deliveries |-> NoRequest]

(* The tracker listens, and the webhook was made by this process for a     *)
(* trigger that has jobs.                                                  *)
Ready(h) ==
  /\ actor = "listening" /\ ~done
  /\ handlers = config.trackers
  /\ \E t \in Triggers : reg[t].id = h.sub /\ config.triggers[t].name \in config.jobs

(* A webhook is called, and the server takes the request.                  *)
Accept(d, h) ==
  /\ server = "serving"
  /\ requests[d].pc = "none"
  /\ \E update \in BOOLEAN :
       requests' = [requests EXCEPT ![d] =
         [pc |-> "accepted", hook |-> h, update |-> update, ready |-> Ready(h) /\ update]]
  /\ UNCHANGED <<vars, handlers>>

RequestAt(d, pc) == actor # "off" /\ requests[d].pc = pc
Answer(d, pc) == requests' = [requests EXCEPT ![d].pc = pc]

(* whLoaderMiddleware: the entry is loaded and kept in the context         *)
(* (mutant: the error of Get is not looked at).                            *)
LoadEntryAnyway(d) ==
  LET r == requests[d] id == r.hook.sub IN
  /\ RequestAt(d, "accepted")
  /\ requests' = [requests EXCEPT ![d] =
       [pc |-> "loaded", hook |-> r.hook, update |-> r.update, ready |-> r.ready,
        sub |-> IF id \in DOMAIN subs THEN subs[id] ELSE NewSub(NoRef, NoRef, NoRef)]]
  /\ Fine
  /\ UNCHANGED <<subsVars, hooks, config, procVars, starts, handlers>>
LoadEntry(d) ==
  LET r == requests[d] id == r.hook.sub IN
  /\ RequestAt(d, "accepted")
  /\ \/ /\ id \in DOMAIN subs
        /\ requests' = [requests EXCEPT ![d] =
             [pc |-> "loaded", hook |-> r.hook, update |-> r.update, ready |-> r.ready,
              sub |-> subs[id]]]
        /\ Fine
     \/ id \notin DOMAIN subs /\ Answer(d, "no entry") /\ Fine
     \/ Trouble1("fail") /\ Answer(d, "no entry")
  /\ UNCHANGED <<subsVars, hooks, config, procVars, starts, handlers>>

(* The head of handleUpdate: the jobs that are attached to the trigger, by *)
(* its name.                                                               *)
Updated(r) == {IF r.sub.TriggerName \in config.jobs THEN "updating" ELSE "no jobs"}

(* A plugin's tracker calls its handler at once; net/http recovers the     *)
(* panic.  A github tracker looks whether it is set; nothing orders the    *)
(* write of its two words in Listen with their reading here, so that the   *)
(* first may be seen without the second, which is a panic too.             *)
ByPlugin(r) ==
  IF ~r.update THEN {"not decoded"}
  ELSE IF r.sub.TrackerName \in handlers THEN Updated(r) ELSE {"panic"}
ByGithub(r) ==
  IF ~r.update THEN {"not decoded"}
  ELSE IF r.sub.TrackerName \in handlers THEN Updated(r)
  ELSE {"no handler"} \cup {pc \in {"panic"} : actor = "listening"}

(* Actor.HandleWebhook: the tracker of the entry in the context.           *)
Outcomes(r) ==
  IF r.sub.TrackerName \notin config.trackers THEN {"no tracker"}
  ELSE IF r.sub.TrackerName \in RpcHooks THEN ByPlugin(r) ELSE ByGithub(r)

Handle(d) ==
  /\ RequestAt(d, "loaded")
  /\ \E pc \in Outcomes(requests[d]) : Answer(d, pc)
  /\ UNCHANGED <<vars, handlers>>

(* handleUpdate returns.                                                   *)
Finish(d) ==
  /\ RequestAt(d, "updating")
  /\ Answer(d, "done")
  /\ UNCHANGED <<vars, handlers>>

(* tracker.Interface.Listen: the handler is set, then the context awaited. *)
SetHandler(trk) ==
  /\ actor = "listening"
  /\ trk \in config.trackers \ handlers
  /\ handlers' = handlers \cup {trk}
  /\ UNCHANGED <<vars, requests>>

(* The rest of the process.  The listeners do not return before they have  *)
(* set their handlers; when the process ends, it ends in the middle of the *)
(* requests, since ListenAndServe returns as soon as Shutdown is called.   *)
Process ==
  /\ Next
  /\ actor = "listening" /\ actor' = "listing" => handlers = config.trackers
  /\ handlers' = IF actor' = "off" THEN {} ELSE handlers
  /\ requests' = [d \in Deliveries |->
                    IF actor' = "off" /\ requests[d].pc \in InFlight
                    THEN [requests[d] EXCEPT !.pc = "cut"] ELSE requests[d]]

Request(d) == LoadEntry(d) \/ Handle(d) \/ Finish(d)

ServerNext ==
  \/ Process
  \/ \E trk \in SubTrackers : SetHandler(trk)
  \/ \E d \in Deliveries : Request(d) \/ \E h \in hooks : Accept(d, h)

ServerSpec == ServerInit /\ [][ServerNext]_serverVars

ServerFairness ==
  Fairness /\ \A trk \in SubTrackers : WF_serverVars(SetHandler(trk))
-----------------------------------------------------------------------------
ServerTypeOK ==
  /\ handlers \subseteq config.trackers
  /\ requests \in [Deliveries -> {NoRequest} \cup Requests]

Updating(d) == requests[d].pc = "updating"

(* A webhook is handled by the tracker that has sent it, which alone knows *)
(* how to read it, whatever was deleted, left behind and made anew between *)
(* the calls of the tracker and the lookups of the program                 *)
(* (subscription.go:79-99, actor.go:103-116).                              *)
Attributed ==
  \A d \in Deliveries :
    Updating(d) => requests[d].sub.TrackerName = requests[d].hook.tracker

(* No job runs in a process that has not registered all its triggers: a    *)
(* job of the first trigger would make tasks whose changes nobody reports  *)
(* yet, although webhooks arrive from the moment Subscribe is called       *)
(* (actor.go:38-50, 139-155).                                              *)
RunsRegistered ==
  \A d \in Deliveries : Updating(d) => \A t \in Triggers : reg[t].pc = "ok"

(* An update runs the jobs of a trigger that is configured for the tracker *)
(* it comes from: entries of an earlier configuration are gone, unless     *)
(* something has failed (actor.go:76-79, 165-191).  A tracker that is      *)
(* strict about unknown references may keep an entry, which makes a later  *)
(* Listen panic, and then those of the others stay as well.                *)
InConfig(sub) ==
  [name |-> sub.TriggerName, in |-> sub.TrackerName]
    \in {config.triggers[t] : t \in Triggers}

RunsConfigured ==
  trouble = 0 /\ Strict = {} =>
    \A d \in Deliveries : Updating(d) => InConfig(requests[d].sub)

(* An update that is sent while the program listens, to a trigger with     *)
(* jobs, runs them, unless the program stops or the storage fails: its     *)
(* entry stays, names the trigger the webhook was made for, and the        *)
(* handler of its tracker is set (subscription.go:87-95, jsonrpc.go:93,    *)
(* github.go:253, actor.go:82-87).                                         *)
KeptWhenReady ==
  [][\A d \in Deliveries :
       /\ requests[d].pc \in InFlight /\ requests[d].ready
       /\ requests'[d].pc \in Dropped
       => done \/ troubled']_serverVars
=============================================================================
