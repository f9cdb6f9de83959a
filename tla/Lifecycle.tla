----------------------------- MODULE Lifecycle -----------------------------
(***************************************************************************)
(* The life of the process and of its webhooks: Run.Execute                *)
(* (app/cmd/run.go), Actor.Listen with registerTriggers and                *)
(* unregisterTriggers (app/store/service/actor.go), over the subscriptions *)
(* storage that outlives the process.                                      *)
(*                                                                         *)
(* Execute runs three goroutines under one context: the one that waits for *)
(* a signal, the actor and the webhook server.  The actor subscribes every *)
(* configured trigger in a goroutine of its own, listens until the context *)
(* is done and, whatever happened, unsubscribes every stored subscription. *)
(* The next start finds the entries that were left, under a configuration  *)
(* that may have changed.                                                  *)
(*                                                                         *)
(* The trackers are external: they are the set of their webhooks.          *)
(***************************************************************************)
EXTENDS BoltSubscriptions, FiniteSets, Naturals

CONSTANTS
  Places,     \* places in the list of triggers of a configuration
  Configs,    \* configurations: [trackers, list of triggers, triggers of jobs]
  RpcHooks,   \* trackers driven through rpcx.Redialer
  Strict,     \* trackers that answer an unknown reference with an error
  Trouble,    \* any of "signal", "crash", "fail", "refuse", "lost", "skip"
  MaxStarts,  \* bound on the starts of the process
  MaxTrouble  \* bound on the failures and crashes

TriggerLists ==
  UNION {[G -> [name : SubTriggers, in : SubTrackers]] : G \in SUBSET Places}
NamesOf(triggers) == {triggers[t].name : t \in DOMAIN triggers}

(* config.validate refuses a trigger of a tracker that is not configured,  *)
(* and a job of a trigger that is not.  Triggers may share a name.         *)
Valid(c) ==
  /\ \A t \in DOMAIN c.triggers : c.triggers[t].in \in c.trackers
  /\ c.jobs \subseteq NamesOf(c.triggers)

Config ==
  {c \in [trackers : SUBSET SubTrackers, triggers : TriggerLists, jobs : SUBSET SubTriggers] :
     Valid(c)}

ASSUME LifecycleAssumption ==
  /\ Configs \subseteq Config
  /\ MaxStarts \in Nat /\ MaxTrouble \in Nat

VARIABLES
  hooks,    \* webhooks the trackers have: tracker, its reference, subscription
  config,   \* configuration the process was started with
  signal,   \* the goroutine that waits for a signal
  actor,    \* Actor.Listen
  server,   \* SubscriptionsManager.Listen
  done,     \* the context of Execute is done
  err,      \* the first error the errgroup of Execute was given
  listen,   \* what Actor.Listen has come to: "", "error", "nil" or "panic"
  reg,      \* trigger -> its goroutine in registerTriggers
  unreg,    \* goroutines of unregisterTriggers
  starts,   \* number of starts
  trouble,  \* number of failures and crashes
  troubled  \* something failed since the last start (history)

procVars == <<signal, actor, server, done, err, listen, reg, unreg>>
vars == <<subsVars, hooks, config, procVars, starts, trouble, troubled>>

RegPcs == {"create", "subscribe", "call", "get", "update", "ok", "failed"}
Reg == [pc : RegPcs, id : SubIDs \cup {NoRef}, ref : HookRefs \cup {NoRef}]
Hook == [tracker : SubTrackers, ref : HookRefs, sub : SubIDs]

NoConfig == [trackers |-> {}, triggers |-> <<>>, jobs |-> {}]
Triggers == DOMAIN config.triggers

Idle ==
  /\ signal = "off" /\ actor = "off" /\ server = "off"
  /\ done = FALSE /\ err = "" /\ reg = [t \in {} |-> NoRef] /\ unreg = {}

Init ==
  /\ SubsInit /\ Idle
  /\ hooks = {} /\ config = NoConfig /\ listen = ""
  /\ starts = 0 /\ trouble = 0 /\ troubled = FALSE

(* Something goes wrong.                                                   *)
Trouble1(kind) ==
  /\ kind \in Trouble
  /\ trouble < MaxTrouble
  /\ trouble' = trouble + 1
  /\ troubled' = TRUE
Fine == UNCHANGED <<trouble, troubled>>
-----------------------------------------------------------------------------
(* The process starts with a configuration.                                *)
Start(c) ==
  /\ actor = "off" /\ starts < MaxStarts
  /\ starts' = starts + 1
  /\ config' = c
  /\ signal' = "waiting" /\ actor' = "registering" /\ server' = "serving"
  /\ done' = FALSE /\ err' = "" /\ listen' = ""
  /\ reg' = [t \in DOMAIN c.triggers |-> [pc |-> "create", id |-> NoRef, ref |-> NoRef]]
  /\ unreg' = {}
  /\ troubled' = FALSE
  /\ UNCHANGED <<subsVars, hooks, trouble>>

(* A goroutine of Execute returns an error to its errgroup.                *)
GroupError(e) ==
  /\ err' = IF err = "" THEN e ELSE err
  /\ done' = TRUE

(* A signal is caught and the context stopped, the error returned later.   *)
CatchSignal ==
  /\ "signal" \in Trouble
  /\ signal = "waiting"
  /\ signal' = "caught" /\ done' = TRUE
  /\ UNCHANGED <<subsVars, hooks, config, actor, server, err, listen, reg, unreg, starts>>
  /\ Fine

SignalReturns ==
  /\ \/ signal = "caught" /\ signal' = "interrupted" /\ GroupError("interrupted")
     \/ signal = "waiting" /\ done /\ signal' = "returned" /\ GroupError("canceled")
  /\ UNCHANGED <<subsVars, hooks, config, actor, server, listen, reg, unreg, starts>>
  /\ Fine

(* The webhook server is shut down, or cannot listen (mutant: nothing      *)
(* shuts it down).                                                         *)
ServerReturnsOnError ==
  /\ server = "serving"
  /\ Trouble1("fail")
  /\ server' = "returned"
  /\ GroupError("server")
  /\ UNCHANGED <<subsVars, hooks, config, signal, actor, listen, reg, unreg, starts>>
ServerReturns ==
  /\ server = "serving"
  /\ (done /\ Fine) \/ Trouble1("fail")
  /\ server' = "returned"
  /\ GroupError("server")
  /\ UNCHANGED <<subsVars, hooks, config, signal, actor, listen, reg, unreg, starts>>

(* Everything in memory is gone.                                           *)
Off ==
  /\ signal' = "off" /\ actor' = "off" /\ server' = "off"
  /\ done' = FALSE /\ err' = "" /\ reg' = [t \in {} |-> NoRef] /\ unreg' = {}

Stopped ==
  /\ actor = "returned" /\ server = "returned"
  /\ signal \in {"interrupted", "returned"}

Exit ==
  /\ Stopped /\ Off
  /\ UNCHANGED <<subsVars, hooks, config, listen, starts>>
  /\ Fine

Crash ==
  /\ actor # "off"
  /\ Trouble1("crash") /\ Off
  /\ UNCHANGED <<subsVars, hooks, config, listen, starts>>
-----------------------------------------------------------------------------
(* registerTriggers: one goroutine per trigger, under a context that the   *)
(* first failure of any of them cancels.                                   *)
Canceled == done \/ \E t \in Triggers : reg[t].pc = "failed"

UsedIDs ==
  DOMAIN subs \cup {h.sub : h \in hooks} \cup {reg[t].id : t \in Triggers}
UsedRefs ==
  {h.ref : h \in hooks} \cup {subs[i].TrackerRef : i \in DOMAIN subs}
    \cup {reg[t].ref : t \in Triggers}

regOnly == <<config, signal, actor, server, done, err, listen, unreg, starts>>

At(t, pc) == actor = "registering" /\ t \in Triggers /\ reg[t].pc = pc
Goto(t, pc) == reg' = [reg EXCEPT ![t].pc = pc]

(* SubscriptionsManager.Create.                                            *)
RegCreate(t) ==
  LET trk == config.triggers[t].in trg == config.triggers[t].name IN
  /\ At(t, "create")
  /\ IF PairTaken(trk, trg)
     THEN Goto(t, "failed") /\ UNCHANGED subsVars
     ELSE \E id \in SubIDs \ UsedIDs :
            /\ PutSub(NewSub(id, trk, trg))
            /\ reg' = [reg EXCEPT ![t].pc = "subscribe", ![t].id = id]
  /\ UNCHANGED <<hooks, regOnly>>
  /\ Fine

(* tracker.Interface.Subscribe is called.  Once the context is done an     *)
(* HTTP request is not sent, while Redialer.Call takes any of three ways:  *)
(* the error of the context, nil without a call, or the call.              *)
RegSubscribe(t) ==
  LET rpc == config.triggers[t].in \in RpcHooks IN
  /\ At(t, "subscribe")
  /\ \/ (~Canceled \/ rpc) /\ Goto(t, "call")
     \/ Canceled /\ Goto(t, "failed")
     \/ Canceled /\ rpc /\ Goto(t, "get")
  /\ UNCHANGED <<subsVars, hooks, regOnly>>
  /\ Fine

(* (mutant: the webhook is given the address of another trigger)           *)
MakeHookShared(t, ref) ==
  \E x \in Triggers : reg[x].id # NoRef /\
    hooks' = hooks \cup
      {[tracker |-> config.triggers[t].in, ref |-> ref, sub |-> reg[x].id]}
MakeHook(t, ref) ==
  hooks' = hooks \cup {[tracker |-> config.triggers[t].in, ref |-> ref, sub |-> reg[t].id]}

RegAnswered(t) ==
  /\ At(t, "call")
  /\ \E ref \in HookRefs \ UsedRefs :
       /\ MakeHook(t, ref)
       /\ reg' = [reg EXCEPT ![t].pc = "get", ![t].ref = ref]
  /\ UNCHANGED <<subsVars, regOnly>>
  /\ Fine

(* The context is done while an HTTP request is in flight; the webhook may *)
(* or may not have been made.                                              *)
RegCanceled(t) ==
  /\ At(t, "call")
  /\ Canceled /\ config.triggers[t].in \notin RpcHooks
  /\ hooks' = hooks \/ \E ref \in HookRefs \ UsedRefs : MakeHook(t, ref)
  /\ Goto(t, "failed")
  /\ UNCHANGED <<subsVars, regOnly>>
  /\ Fine

(* SetTrackerRef: the entry is read and rewritten, in two transactions.    *)
RegGet(t) ==
  /\ At(t, "get")
  /\ Goto(t, IF reg[t].id \in DOMAIN subs THEN "update" ELSE "failed")
  /\ UNCHANGED <<subsVars, hooks, regOnly>>
  /\ Fine

EntryOf(t) == NewSub(reg[t].id, config.triggers[t].in, config.triggers[t].name)

(* (mutant: the goroutines share the variable of the loop)                 *)
RegUpdateShared(t) ==
  /\ At(t, "update")
  /\ \E x \in Triggers : reg[x].id # NoRef /\
       PutSub([EntryOf(x) EXCEPT !.TrackerRef = reg[t].ref])
  /\ Goto(t, "ok")
  /\ UNCHANGED <<hooks, regOnly>>
  /\ Fine
RegUpdate(t) ==
  /\ At(t, "update")
  /\ PutSub([EntryOf(t) EXCEPT !.TrackerRef = reg[t].ref])
  /\ Goto(t, "ok")
  /\ UNCHANGED <<hooks, regOnly>>
  /\ Fine

(* A template, the storage or the tracker fails; the answer of the tracker *)
(* is lost; Redialer.Call answers nil without a call.                      *)
RegFails(t) ==
  /\ \/ /\ Trouble1("fail")
        /\ \E pc \in {"create", "get", "update"} : At(t, pc)
        /\ Goto(t, "failed") /\ UNCHANGED hooks
     \/ /\ Trouble1("refuse") /\ At(t, "call")
        /\ Goto(t, "failed") /\ UNCHANGED hooks
     \/ /\ Trouble1("lost") /\ At(t, "call")
        /\ Goto(t, "failed")
        /\ \E ref \in HookRefs \ UsedRefs : MakeHook(t, ref)
     \/ /\ Trouble1("skip") /\ At(t, "call") /\ config.triggers[t].in \in RpcHooks
        /\ Goto(t, "get") /\ UNCHANGED hooks
  /\ UNCHANGED <<subsVars, regOnly>>

actorOnly == <<subsVars, hooks, config, signal, server, reg, starts>>

(* ewg.Wait of registerTriggers: the trackers' listeners are run when      *)
(* every trigger is registered (mutant: the errors are not looked at).     *)
RegisteredAnyway ==
  /\ actor = "registering"
  /\ \A t \in Triggers : reg[t].pc \in {"ok", "failed"}
  /\ actor' = "listening" /\ listen' = listen
  /\ UNCHANGED <<actorOnly, done, err, unreg>>
  /\ Fine
Registered ==
  /\ actor = "registering"
  /\ \A t \in Triggers : reg[t].pc \in {"ok", "failed"}
  /\ IF \A t \in Triggers : reg[t].pc = "ok"
     THEN actor' = "listening" /\ listen' = listen
     ELSE actor' = "listing" /\ listen' = "error"
  /\ UNCHANGED <<actorOnly, done, err, unreg>>
  /\ Fine
-----------------------------------------------------------------------------
(* The listeners return when the context is done, or there is none         *)
(* (mutant: they do not wait for the context).                             *)
ListenersReturnEarly ==
  /\ actor = "listening"
  /\ actor' = "listing"
  /\ listen' = IF config.trackers = {} THEN "nil" ELSE "error"
  /\ UNCHANGED <<actorOnly, done, err, unreg>>
  /\ Fine
ListenersReturn ==
  /\ actor = "listening"
  /\ done \/ config.trackers = {}
  /\ actor' = "listing"
  /\ listen' = IF config.trackers = {} THEN "nil" ELSE "error"
  /\ UNCHANGED <<actorOnly, done, err, unreg>>
  /\ Fine

(* unregisterTriggers: the entries are listed, and each is unsubscribed    *)
(* and deleted in a goroutine of its own.                                  *)
ListAll ==
  /\ actor = "listing"
  /\ actor' = "unregistering"
  /\ \/ unreg' = {[sub |-> subs[i], pc |-> "unsubscribe"] : i \in DOMAIN subs} /\ Fine
     \/ Trouble1("fail") /\ unreg' = {}
  /\ UNCHANGED <<actorOnly, done, err, listen>>

unregOnly == <<config, signal, actor, server, done, err, reg, starts>>

Drop(x) == unreg' = unreg \ {x}
Advance(x) == unreg' = (unreg \ {x}) \cup {[x EXCEPT !.pc = "delete"]}

Refers(h, sub) == h.tracker = sub.TrackerName /\ h.ref = sub.TrackerRef

(* Unsubscribe: an unknown reference is an error that github's client maps *)
(* to ErrNotFound, with which the entry is deleted all the same.           *)
Unsubscribe(x) ==
  /\ x \in unreg /\ x.pc = "unsubscribe"
  /\ x.sub.TrackerName \in config.trackers
  /\ hooks' = {h \in hooks : ~Refers(h, x.sub)}
  /\ IF x.sub.TrackerName \in Strict /\ ~\E h \in hooks : Refers(h, x.sub)
     THEN Drop(x) ELSE Advance(x)
  /\ UNCHANGED <<subsVars, unregOnly, listen>>
  /\ Fine

(* The tracker refuses, its answer is lost, or Redialer.Call answers nil   *)
(* without a call (mutant: the entry is deleted after an error as well).   *)
UnsubscribeFailsAnyway(x) ==
  /\ x \in unreg /\ x.pc = "unsubscribe"
  /\ x.sub.TrackerName \in config.trackers
  /\ \/ Trouble1("refuse") /\ Advance(x) /\ UNCHANGED hooks
     \/ Trouble1("lost") /\ Advance(x) /\ hooks' = {h \in hooks : ~Refers(h, x.sub)}
     \/ /\ Trouble1("skip") /\ x.sub.TrackerName \in RpcHooks
        /\ Advance(x) /\ UNCHANGED hooks
  /\ UNCHANGED <<subsVars, unregOnly, listen>>
UnsubscribeFails(x) ==
  /\ x \in unreg /\ x.pc = "unsubscribe"
  /\ x.sub.TrackerName \in config.trackers
  /\ \/ Trouble1("refuse") /\ Drop(x) /\ UNCHANGED hooks
     \/ Trouble1("lost") /\ Drop(x) /\ hooks' = {h \in hooks : ~Refers(h, x.sub)}
     \/ /\ Trouble1("skip") /\ x.sub.TrackerName \in RpcHooks
        /\ Advance(x) /\ UNCHANGED hooks
  /\ UNCHANGED <<subsVars, unregOnly, listen>>

(* The tracker of the entry is not configured any more: a method of a nil  *)
(* interface is called in a goroutine nobody recovers.                     *)
UnsubscribePanics(x) ==
  /\ x \in unreg /\ x.pc = "unsubscribe"
  /\ x.sub.TrackerName \notin config.trackers
  /\ Off /\ listen' = "panic"
  /\ UNCHANGED <<subsVars, hooks, config, starts>>
  /\ Fine

(* SubscriptionsManager.Delete, whose error is only logged.                *)
DeleteEntry(x) ==
  /\ x \in unreg /\ x.pc = "delete"
  /\ \/ /\ Fine
        /\ IF x.sub.ID \in DOMAIN subs THEN DeleteSub(x.sub.ID) ELSE UNCHANGED subsVars
     \/ Trouble1("fail") /\ UNCHANGED subsVars
  /\ Drop(x)
  /\ UNCHANGED <<hooks, unregOnly, listen>>

(* wg.Wait of unregisterTriggers, and the return of Listen (mutant: the    *)
(* goroutines are not waited for).                                         *)
ActorReturnsEarly ==
  /\ actor = "unregistering"
  /\ actor' = "returned"
  /\ IF listen = "error" THEN GroupError("actor") ELSE UNCHANGED <<err, done>>
  /\ UNCHANGED <<actorOnly, listen, unreg>>
  /\ Fine
ActorReturns ==
  /\ actor = "unregistering" /\ unreg = {}
  /\ actor' = "returned"
  /\ IF listen = "error" THEN GroupError("actor") ELSE UNCHANGED <<err, done>>
  /\ UNCHANGED <<actorOnly, listen, unreg>>
  /\ Fine
-----------------------------------------------------------------------------
Register(t) ==
  \/ RegCreate(t) \/ RegSubscribe(t) \/ RegAnswered(t) \/ RegCanceled(t)
  \/ RegGet(t) \/ RegUpdate(t)

Unregister(x) == Unsubscribe(x) \/ UnsubscribePanics(x) \/ DeleteEntry(x)

Main ==
  \/ SignalReturns \/ ServerReturns \/ Exit
  \/ Registered \/ ListenersReturn \/ ListAll \/ ActorReturns

Next ==
  \/ \E c \in Configs : Start(c)
  \/ CatchSignal \/ Crash \/ Main
  \/ \E t \in Places : Register(t) \/ RegFails(t)
  \/ \E x \in unreg : Unregister(x) \/ UnsubscribeFails(x)

Spec == Init /\ [][Next]_vars

(* The scheduler runs every goroutine; the HTTP client of a github tracker *)
(* gives up after a while (run.go:130-134), a call of a plugin need not    *)
(* return.                                                                 *)
Fairness ==
  /\ WF_vars(SignalReturns) /\ WF_vars(ServerReturns) /\ WF_vars(Exit)
  /\ WF_vars(Registered \/ ListenersReturn \/ ListAll \/ ActorReturns)
  /\ \A t \in Places :
       WF_vars(Register(t) /\ (reg[t].pc = "call" => config.triggers[t].in \notin RpcHooks))
  /\ WF_vars(\E x \in unreg :
               Unregister(x) /\ (x.pc = "delete" \/ x.sub.TrackerName \notin RpcHooks))

FairSpec == Spec /\ Fairness
-----------------------------------------------------------------------------
TypeOK ==
  /\ SubsTypeOK
  /\ hooks \subseteq Hook
  /\ config \in Configs \cup {NoConfig}
  /\ signal \in {"off", "waiting", "caught", "interrupted", "returned"}
  /\ actor \in {"off", "registering", "listening", "listing", "unregistering", "returned"}
  /\ server \in {"off", "serving", "returned"}
  /\ done \in BOOLEAN
  /\ err \in {"", "interrupted", "canceled", "server", "actor"}
  /\ listen \in {"", "error", "nil", "panic"}
  /\ DOMAIN reg \subseteq Places
  /\ reg \in [DOMAIN reg -> Reg]
  /\ actor # "off" => DOMAIN reg = Triggers
  /\ unreg \subseteq [sub : Subscription, pc : {"unsubscribe", "delete"}]
  /\ starts \in 0..MaxStarts
  /\ trouble \in 0..MaxTrouble
  /\ troubled \in BOOLEAN

(* While the program listens, every configured trigger has an entry of its *)
(* own, which no other trigger has replaced, and the tracker has the       *)
(* webhook the entry refers to: no update is missed, whatever earlier      *)
(* lives of the process have left behind (actor.go:118-163).  The call of  *)
(* a plugin may have been skipped; then the entry has no reference.        *)
PairFor(t) == PairRef(config.triggers[t].in, config.triggers[t].name)

ListeningComplete ==
  actor = "listening" /\ ~done =>
    \A t \in Triggers :
      /\ PairFor(t) \in DOMAIN byPair
      /\ \A u \in Triggers \ {t} : PairFor(u) # PairFor(t)
      /\ LET sub == subs[byPair[PairFor(t)]] IN
         IF sub.TrackerRef = NoRef THEN config.triggers[t].in \in RpcHooks
         ELSE \E h \in hooks : Refers(h, sub) /\ h.sub = sub.ID

(* An entry that has its reference is deleted only when the tracker does   *)
(* not have the webhook any more: the reference is all the program knows   *)
(* of it (actor.go:179-190).  For a plugin, whose call may be skipped, it  *)
(* does not hold.                                                          *)
EntryOutlivesHook ==
  [][\A i \in DOMAIN subs \ DOMAIN subs' :
       subs[i].TrackerName \notin RpcHooks => ~\E h \in hooks' : Refers(h, subs[i])]_vars

(* A reference that is recorded leads to the webhook made for that entry,  *)
(* so that the removal of one trigger never takes away another's.          *)
RefsOwnHook ==
  \A i \in DOMAIN subs : \A h \in hooks : Refers(h, subs[i]) => h.sub = i

(* A life of the process without failures, however it ends, leaves no      *)
(* entry, of its own or of those it has found: an entry that is left makes *)
(* the next start fail with ErrExists.  Trackers that do not put up with   *)
(* unknown references, as github does, may keep theirs.                    *)
NextStartFree ==
  Stopped /\ ~troubled => \A i \in DOMAIN subs : subs[i].TrackerName \in Strict

(* Once the context is done the process ends, if the trackers answer.      *)
Terminates == done ~> actor = "off"

(* As the comment of Interface.Listen has it (tracker.go:36-38), trackers  *)
(* have no webhooks when the program has shut down.                        *)
HooksUnset == Stopped /\ ~troubled => hooks = {}

(* As the comment of Actor.Listen has it (actor.go:35), it always returns  *)
(* a non-nil error.                                                        *)
ListenReturnsError == listen \in {"", "error"}
=============================================================================
