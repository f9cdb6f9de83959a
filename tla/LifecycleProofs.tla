-------------------------- MODULE LifecycleProofs --------------------------
(***************************************************************************)
(* Theorems about Lifecycle: what the storage of subscriptions and the     *)
(* trackers' webhooks have to do with each other through any number of     *)
(* starts, failures and crashes, under any configurations.                 *)
(***************************************************************************)
EXTENDS Lifecycle, TLAPS

(* What the goroutine of a trigger has done by its place: its entry is     *)
(* stored under its ID, and names the webhook the tracker has made for it. *)
Answered(t) ==
  IF reg[t].ref = NoRef THEN config.triggers[t].in \in RpcHooks
  ELSE \E h \in hooks : h.tracker = config.triggers[t].in /\ h.ref = reg[t].ref /\ h.sub = reg[t].id

Stored(t) ==
  /\ reg[t].id \in DOMAIN subs
  /\ subs[reg[t].id].TrackerName = config.triggers[t].in
  /\ subs[reg[t].id].TriggerName = config.triggers[t].name

(* No two triggers work on one entry, whatever their names.                *)
IDsApart == \A t, u \in DOMAIN reg : reg[t].id = reg[u].id /\ reg[t].id # NoRef => t = u

Registering ==
  /\ actor \in {"registering", "listening"} =>
       \A t \in Triggers :
         /\ reg[t].pc = "create" => reg[t].id = NoRef
         /\ reg[t].pc \in {"create", "subscribe", "call"} => reg[t].ref = NoRef
         /\ reg[t].pc \in {"subscribe", "call", "get", "update", "ok"} => Stored(t)
         /\ reg[t].pc \in {"get", "update", "ok"} => Answered(t)
         /\ reg[t].pc = "ok" => subs[reg[t].id].TrackerRef = reg[t].ref
  /\ actor = "listening" => \A t \in Triggers : reg[t].pc = "ok"
  /\ IDsApart

(* The entry a goroutine of unregisterTriggers works on is the stored one, *)
(* and is deleted after its webhook.                                       *)
Cleaning ==
  /\ unreg # {} => actor = "unregistering"
  /\ \A x \in unreg :
       /\ x.sub.ID \in DOMAIN subs => subs[x.sub.ID] = x.sub
       /\ x.pc = "delete" /\ x.sub.TrackerName \notin RpcHooks =>
            \A h \in hooks : ~Refers(h, x.sub)

(* No two entries, stored or on their way to the storage, share a webhook. *)
HooksOwned ==
  /\ RefsOwnHook
  /\ \A t \in DOMAIN reg : \A h \in hooks : h.ref = reg[t].ref => h.sub = reg[t].id

Inv == TypeOK /\ IndexConsistent /\ Registering /\ Cleaning /\ HooksOwned
-----------------------------------------------------------------------------
(* A configured trigger belongs to a tracker (config.validate).            *)
LEMMA ConfigTypes ==
  ASSUME NEW c \in Configs \cup {NoConfig}
  PROVE  /\ DOMAIN c.triggers \subseteq Places
         /\ \A t \in DOMAIN c.triggers :
              /\ c.triggers[t].name \in SubTriggers
              /\ c.triggers[t].in \in SubTrackers /\ c.triggers[t].in \in c.trackers
         /\ \A t \in DOMAIN c.triggers :
              c.triggers[t] = [name |-> c.triggers[t].name, in |-> c.triggers[t].in]
         /\ c = NoConfig => DOMAIN c.triggers = {}
<1>1. CASE c \in Configs
  <2>1. c.triggers \in TriggerLists /\ Valid(c)
    BY <1>1, LifecycleAssumption DEF Config
  <2>2. PICK G \in SUBSET Places : c.triggers \in [G -> [name : SubTriggers, in : SubTrackers]]
    BY <2>1 DEF TriggerLists
  <2>3. c = NoConfig => DOMAIN c.triggers = {}
    BY DEF NoConfig
  <2> QED
    BY <2>1, <2>2, <2>3 DEF Valid
<1>2. CASE c = NoConfig
  BY <1>2 DEF NoConfig
<1> QED
  BY <1>1, <1>2

(* What Create and SetTrackerRef do to the storage: an entry is stored     *)
(* under a free pair, or under its own.                                    *)
LEMMA PutKeeps ==
  ASSUME SubsTypeOK, IndexConsistent, NEW sub \in Subscription, PutSub(sub),
         sub.ID \in DOMAIN subs =>
           /\ subs[sub.ID].TrackerName = sub.TrackerName
           /\ PairOf(subs[sub.ID]) = PairOf(sub),
         sub.ID \notin DOMAIN subs => PairOf(sub) \notin DOMAIN byPair
  PROVE  /\ SubsTypeOK' /\ IndexConsistent'
         /\ DOMAIN subs' = DOMAIN subs \cup {sub.ID} /\ subs'[sub.ID] = sub
         /\ \A i \in DOMAIN subs \ {sub.ID} : subs'[i] = subs[i]
<1>1. /\ sub.ID \in SubIDs /\ sub.TrackerName \in SubTrackers /\ sub.TriggerName \in SubTriggers
  BY DEF Subscription
<1>2. /\ DOMAIN subs' = DOMAIN subs \cup {sub.ID} /\ subs'[sub.ID] = sub
      /\ \A i \in DOMAIN subs \ {sub.ID} : subs'[i] = subs[i]
  BY DEF PutSub
<1>3. /\ DOMAIN byTracker' = DOMAIN byTracker \cup {sub.TrackerName}
      /\ byTracker'[sub.TrackerName]
           = (IF sub.TrackerName \in DOMAIN byTracker THEN byTracker[sub.TrackerName] ELSE {})
               \cup {sub.ID}
      /\ \A t \in DOMAIN byTracker \ {sub.TrackerName} : byTracker'[t] = byTracker[t]
  BY DEF PutSub
<1>4. /\ DOMAIN byPair' = DOMAIN byPair \cup {PairOf(sub)} /\ byPair'[PairOf(sub)] = sub.ID
      /\ \A p \in DOMAIN byPair \ {PairOf(sub)} : byPair'[p] = byPair[p]
  BY DEF PutSub
<1>5. SubsTypeOK'
  <2>1. subs' \in [DOMAIN subs' -> Subscription] /\ DOMAIN subs' \subseteq SubIDs
    BY <1>1, <1>2 DEF SubsTypeOK, PutSub
  <2>2. (\A i \in DOMAIN subs : subs[i].ID = i)'
    BY <1>2 DEF SubsTypeOK
  <2>3. DOMAIN byTracker' \subseteq SubTrackers
    BY <1>1, <1>3 DEF SubsTypeOK
  <2>4. byTracker' \in [DOMAIN byTracker' -> SUBSET SubIDs]
    BY <1>1, <1>3 DEF SubsTypeOK, PutSub
  <2>5. byPair' \in [DOMAIN byPair' -> SubIDs]
    BY <1>1, <1>4 DEF SubsTypeOK, PutSub
  <2> QED
    BY <2>1, <2>2, <2>3, <2>4, <2>5 DEF SubsTypeOK
<1>6. IndexConsistent'
  <2>1. ASSUME NEW i \in DOMAIN subs'
        PROVE  /\ subs'[i].TrackerName \in DOMAIN byTracker'
               /\ i \in byTracker'[subs'[i].TrackerName]
               /\ PairOf(subs'[i]) \in DOMAIN byPair'
               /\ byPair'[PairOf(subs'[i])] = i
    <3>1. CASE i = sub.ID
      BY <3>1, <1>2, <1>3, <1>4
    <3>2. CASE i # sub.ID
      <4>1. i \in DOMAIN subs /\ subs'[i] = subs[i]
        BY <3>2, <1>2
      <4>2. /\ subs[i].TrackerName \in DOMAIN byTracker
            /\ i \in byTracker[subs[i].TrackerName]
            /\ PairOf(subs[i]) \in DOMAIN byPair
            /\ byPair[PairOf(subs[i])] = i
        BY <4>1 DEF IndexConsistent
      <4>3. PairOf(subs[i]) # PairOf(sub)
        BY <4>1, <4>2, <3>2 DEF IndexConsistent
      <4> QED
        BY <4>1, <4>2, <4>3, <1>3, <1>4
    <3> QED
      BY <3>1, <3>2
  <2>2. ASSUME NEW t \in DOMAIN byTracker', NEW i \in byTracker'[t]
        PROVE  i \in DOMAIN subs' /\ subs'[i].TrackerName = t
    <3>1. CASE i = sub.ID
      <4>1. CASE t = sub.TrackerName
        BY <3>1, <4>1, <1>2
      <4>2. CASE t # sub.TrackerName
        <5>1. t \in DOMAIN byTracker /\ i \in byTracker[t]
          BY <4>2, <1>3
        <5> QED
          BY <5>1, <3>1, <4>2 DEF IndexConsistent
      <4> QED
        BY <4>1, <4>2
    <3>2. CASE i # sub.ID
      <4>1. t \in DOMAIN byTracker /\ i \in byTracker[t]
        BY <3>2, <1>3
      <4> QED
        BY <4>1, <3>2, <1>2 DEF IndexConsistent
    <3> QED
      BY <3>1, <3>2
  <2>3. ASSUME NEW p \in DOMAIN byPair'
        PROVE  byPair'[p] \in DOMAIN subs' /\ PairOf(subs'[byPair'[p]]) = p
    <3>1. CASE p = PairOf(sub)
      BY <3>1, <1>2, <1>4
    <3>2. CASE p # PairOf(sub)
      <4>1. p \in DOMAIN byPair /\ byPair'[p] = byPair[p]
        BY <3>2, <1>4
      <4>2. byPair[p] \in DOMAIN subs /\ PairOf(subs[byPair[p]]) = p
        BY <4>1 DEF IndexConsistent
      <4>3. byPair[p] # sub.ID
        BY <4>2, <3>2
      <4> QED
        BY <4>1, <4>2, <4>3, <1>2
    <3> QED
      BY <3>1, <3>2
  <2>4. (\A i \in DOMAIN subs :
           /\ subs[i].TrackerName \in DOMAIN byTracker
           /\ i \in byTracker[subs[i].TrackerName]
           /\ PairOf(subs[i]) \in DOMAIN byPair
           /\ byPair[PairOf(subs[i])] = i)'
    BY <2>1 DEF PairOf
  <2>5. (\A t \in DOMAIN byTracker : \A i \in byTracker[t] :
           i \in DOMAIN subs /\ subs[i].TrackerName = t)'
    BY <2>2
  <2>6. (\A p \in DOMAIN byPair :
           byPair[p] \in DOMAIN subs /\ PairOf(subs[byPair[p]]) = p)'
    BY <2>3 DEF PairOf
  <2> QED
    BY <2>4, <2>5, <2>6 DEF IndexConsistent
<1> QED
  BY <1>2, <1>5, <1>6

(* What Delete does to the storage.                                        *)
LEMMA DeleteKeeps ==
  ASSUME SubsTypeOK, IndexConsistent, NEW id \in DOMAIN subs, DeleteSub(id)
  PROVE  /\ SubsTypeOK' /\ IndexConsistent'
         /\ DOMAIN subs' = DOMAIN subs \ {id}
         /\ \A i \in DOMAIN subs' : subs'[i] = subs[i]
<1>1. /\ DOMAIN subs' = DOMAIN subs \ {id}
      /\ \A i \in DOMAIN subs' : subs'[i] = subs[i]
  BY DEF DeleteSub
<1>2. /\ DOMAIN byTracker' = DOMAIN byTracker
      /\ \A t \in DOMAIN byTracker :
           byTracker'[t] = IF t = subs[id].TrackerName THEN byTracker[t] \ {id} ELSE byTracker[t]
  BY DEF DeleteSub
<1>3. /\ DOMAIN byPair' = DOMAIN byPair \ {PairOf(subs[id])}
      /\ \A p \in DOMAIN byPair' : byPair'[p] = byPair[p]
  BY DEF DeleteSub
<1>4. SubsTypeOK'
  <2>1. DOMAIN subs' \subseteq SubIDs /\ subs' \in [DOMAIN subs' -> Subscription]
    BY <1>1 DEF SubsTypeOK, DeleteSub
  <2>2. (\A i \in DOMAIN subs : subs[i].ID = i)'
    BY <1>1 DEF SubsTypeOK
  <2>3. byTracker' \in [DOMAIN byTracker' -> SUBSET SubIDs]
    BY <1>2 DEF SubsTypeOK, DeleteSub
  <2>4. byPair' \in [DOMAIN byPair' -> SubIDs]
    BY <1>3 DEF SubsTypeOK, DeleteSub
  <2> QED
    BY <1>2, <1>3, <2>1, <2>2, <2>3, <2>4 DEF SubsTypeOK
<1>5. (\A i \in DOMAIN subs :
         /\ subs[i].TrackerName \in DOMAIN byTracker
         /\ i \in byTracker[subs[i].TrackerName]
         /\ PairOf(subs[i]) \in DOMAIN byPair
         /\ byPair[PairOf(subs[i])] = i)'
  <2> SUFFICES ASSUME NEW i \in DOMAIN subs'
               PROVE  /\ subs'[i].TrackerName \in DOMAIN byTracker'
                      /\ i \in byTracker'[subs'[i].TrackerName]
                      /\ PairOf(subs'[i]) \in DOMAIN byPair'
                      /\ byPair'[PairOf(subs'[i])] = i
    BY DEF PairOf
  <2>1. i \in DOMAIN subs /\ i # id /\ subs'[i] = subs[i]
    BY <1>1
  <2>2. /\ subs[i].TrackerName \in DOMAIN byTracker
        /\ i \in byTracker[subs[i].TrackerName]
        /\ PairOf(subs[i]) \in DOMAIN byPair
        /\ byPair[PairOf(subs[i])] = i
    BY <2>1 DEF IndexConsistent
  <2>3. byPair[PairOf(subs[id])] = id
    BY DEF IndexConsistent
  <2> QED
    BY <2>1, <2>2, <2>3, <1>2, <1>3
<1>6. (\A t \in DOMAIN byTracker : \A i \in byTracker[t] :
         i \in DOMAIN subs /\ subs[i].TrackerName = t)'
  <2> SUFFICES ASSUME NEW t \in DOMAIN byTracker', NEW i \in byTracker'[t]
               PROVE  i \in DOMAIN subs' /\ subs'[i].TrackerName = t
    OBVIOUS
  <2>1. t \in DOMAIN byTracker /\ i \in byTracker[t]
    BY <1>2
  <2>2. i \in DOMAIN subs /\ subs[i].TrackerName = t
    BY <2>1 DEF IndexConsistent
  <2>3. i # id
    BY <1>2, <2>1, <2>2
  <2> QED
    BY <2>2, <2>3, <1>1
<1>7. (\A p \in DOMAIN byPair :
         byPair[p] \in DOMAIN subs /\ PairOf(subs[byPair[p]]) = p)'
  <2> SUFFICES ASSUME NEW p \in DOMAIN byPair'
               PROVE  byPair'[p] \in DOMAIN subs' /\ PairOf(subs'[byPair'[p]]) = p
    BY DEF PairOf
  <2>1. p \in DOMAIN byPair /\ p # PairOf(subs[id]) /\ byPair'[p] = byPair[p]
    BY <1>3
  <2>2. byPair[p] \in DOMAIN subs /\ PairOf(subs[byPair[p]]) = p
    BY <2>1 DEF IndexConsistent
  <2> QED
    BY <2>1, <2>2, <1>1
<1> QED
  BY <1>1, <1>4, <1>5, <1>6, <1>7 DEF IndexConsistent
-----------------------------------------------------------------------------
(* A first start finds an empty storage and no webhooks.                   *)
LEMMA InitInv == Init => Inv
<1> SUFFICES ASSUME Init PROVE Inv
  OBVIOUS
<1>1. TypeOK
  <2>1. SubsTypeOK
    BY DEF Init, SubsInit, SubsTypeOK
  <2>2. DOMAIN reg = {} /\ reg \in [DOMAIN reg -> Reg]
    BY DEF Init, Idle
  <2>3. starts \in 0..MaxStarts /\ trouble \in 0..MaxTrouble
    <3>1. starts = 0 /\ trouble = 0
      BY DEF Init
    <3> QED
      BY <3>1, LifecycleAssumption
  <2> QED
    BY <2>1, <2>2, <2>3 DEF Init, Idle, TypeOK
<1>2. IndexConsistent
  BY DEF Init, SubsInit, IndexConsistent
<1>3. Registering /\ Cleaning /\ HooksOwned
  BY DEF Init, Idle, SubsInit, Registering, Cleaning, HooksOwned, RefsOwnHook, IDsApart
<1> QED
  BY <1>1, <1>2, <1>3 DEF Inv

(* A storage nobody writes to keeps its type.                              *)
LEMMA StorageStays ==
  ASSUME SubsTypeOK, UNCHANGED subsVars
  PROVE  SubsTypeOK'
BY DEF SubsTypeOK, subsVars

(* Failures are counted within their bound.                                *)
LEMMA TroubleTypes ==
  ASSUME TypeOK, Fine \/ \E kind \in Trouble : Trouble1(kind)
  PROVE  trouble' \in 0..MaxTrouble /\ troubled' \in BOOLEAN
<1>1. CASE Fine
  BY <1>1 DEF Fine, TypeOK
<1>2. CASE \E kind \in Trouble : Trouble1(kind)
  <2>1. trouble \in 0..MaxTrouble
    BY DEF TypeOK
  <2>2. trouble < MaxTrouble /\ trouble' = trouble + 1 /\ troubled' = TRUE
    BY <1>2 DEF Trouble1
  <2> QED
    BY <2>1, <2>2, LifecycleAssumption
<1> QED
  BY <1>1, <1>2

(* A step of Execute or of Listen that concerns neither the storage nor    *)
(* the trackers.                                                           *)
LEMMA QuietStep ==
  ASSUME Inv, UNCHANGED <<subsVars, hooks, config, reg, unreg, starts>>,
         Fine \/ \E kind \in Trouble : Trouble1(kind),
         signal' \in {"waiting", "caught", "interrupted", "returned"} \/ signal' = signal,
         server' \in {"serving", "returned"} \/ server' = server,
         done' \in BOOLEAN, err' \in {"", "interrupted", "canceled", "server", "actor"},
         listen' \in {"", "error", "nil", "panic"},
         \/ actor' = actor
         \/ actor # "off" /\ unreg = {} /\ actor' \in {"listing", "returned"}
         \/ /\ actor = "registering" /\ actor' = "listening"
            /\ \A t \in Triggers : reg[t].pc = "ok"
  PROVE  Inv'
<1>1. TypeOK'
  <2>1. trouble' \in 0..MaxTrouble /\ troubled' \in BOOLEAN
    BY TroubleTypes DEF Inv
  <2>2. SubsTypeOK'
    <3>1. SubsTypeOK
      BY DEF Inv, TypeOK
    <3> QED
      BY <3>1 DEF SubsTypeOK, subsVars
  <2>3. actor' # "off" => DOMAIN reg' = Triggers'
    BY DEF Inv, TypeOK, Triggers
  <2> QED
    BY <2>1, <2>2, <2>3 DEF Inv, TypeOK
<1>2. IndexConsistent'
  BY DEF Inv, IndexConsistent, PairOf, subsVars
<1>3. Registering'
  BY DEF Inv, Registering, Stored, Answered, Triggers, subsVars, IDsApart
<1>4. Cleaning'
  BY DEF Inv, Cleaning, Refers, subsVars
<1>5. HooksOwned'
  BY DEF Inv, HooksOwned, RefsOwnHook, Refers, subsVars
<1> QED
  BY <1>1, <1>2, <1>3, <1>4, <1>5 DEF Inv

(* The process is gone; the storage and the trackers stay.                 *)
LEMMA OffStep ==
  ASSUME Inv, Off, UNCHANGED <<subsVars, hooks, config, starts>>,
         Fine \/ \E kind \in Trouble : Trouble1(kind),
         listen' \in {"", "error", "nil", "panic"}
  PROVE  Inv'
<1>1. TypeOK'
  <2>1. trouble' \in 0..MaxTrouble /\ troubled' \in BOOLEAN
    BY TroubleTypes DEF Inv
  <2>2. SubsTypeOK'
    <3>1. SubsTypeOK
      BY DEF Inv, TypeOK
    <3> QED
      BY <3>1 DEF SubsTypeOK, subsVars
  <2>3. DOMAIN reg' = {} /\ reg' \in [DOMAIN reg' -> Reg] /\ unreg' = {} /\ actor' = "off"
    BY DEF Off
  <2> QED
    BY <2>1, <2>2, <2>3 DEF Inv, TypeOK, Off
<1>2. IndexConsistent'
  BY DEF Inv, IndexConsistent, PairOf, subsVars
<1>3. Registering' /\ Cleaning'
  BY DEF Off, Registering, Cleaning, IDsApart
<1>4. HooksOwned'
  BY DEF Inv, HooksOwned, RefsOwnHook, Refers, subsVars, Off
<1> QED
  BY <1>1, <1>2, <1>3, <1>4 DEF Inv

(* A start finds the entries and webhooks of earlier lives and no goroutine*)
(* has made any of its own yet (run.go:59-107).                            *)
LEMMA StartStep ==
  ASSUME Inv, NEW c \in Configs, Start(c)
  PROVE  Inv'
<1>1. /\ DOMAIN reg' = DOMAIN c.triggers /\ Triggers' = DOMAIN c.triggers
      /\ \A t \in DOMAIN reg' : reg'[t] = [pc |-> "create", id |-> NoRef, ref |-> NoRef]
      /\ actor' = "registering" /\ unreg' = {}
  BY DEF Start, Triggers
<1>2. TypeOK'
  <2>1. DOMAIN reg' \subseteq Places
    BY <1>1, ConfigTypes
  <2>2. reg' \in [DOMAIN reg' -> Reg]
    BY <1>1 DEF Start, Reg, RegPcs
  <2>3. SubsTypeOK'
    <3>1. SubsTypeOK /\ UNCHANGED subsVars
      BY DEF Inv, TypeOK, Start
    <3> QED
      BY <3>1 DEF SubsTypeOK, subsVars
  <2>4. starts' \in 0..MaxStarts
    <3>1. starts \in 0..MaxStarts /\ starts < MaxStarts /\ starts' = starts + 1
      BY DEF Inv, TypeOK, Start
    <3> QED
      BY <3>1, LifecycleAssumption
  <2>5. hooks' \subseteq Hook /\ config' \in Configs /\ trouble' \in 0..MaxTrouble
    BY DEF Start, Inv, TypeOK
  <2> QED
    BY <1>1, <2>1, <2>2, <2>3, <2>4, <2>5 DEF Start, TypeOK
<1>3. IndexConsistent'
  BY DEF Start, Inv, IndexConsistent, PairOf, subsVars
<1>4. Registering' /\ Cleaning'
  BY <1>1 DEF Registering, Cleaning, IDsApart
<1>5. HooksOwned'
  <2>1. RefsOwnHook'
    BY DEF Start, Inv, HooksOwned, RefsOwnHook, Refers, subsVars
  <2>2. \A h \in hooks' : h.ref # NoRef
    BY SubNamesAssumption DEF Start, Inv, TypeOK, Hook
  <2> QED
    BY <1>1, <2>1, <2>2 DEF HooksOwned
<1> QED
  BY <1>2, <1>3, <1>4, <1>5 DEF Inv
-----------------------------------------------------------------------------
(* What a step of the goroutine of a trigger t has to see to.              *)
LEMMA TriggerStep ==
  ASSUME Inv, actor = "registering", NEW t \in Triggers, NEW r \in Reg,
         reg' = [reg EXCEPT ![t] = r], UNCHANGED regOnly,
         Fine \/ \E kind \in Trouble : Trouble1(kind),
         SubsTypeOK', IndexConsistent', hooks \subseteq hooks', hooks' \subseteq Hook,
         \A i \in DOMAIN subs :
           i \in DOMAIN subs' /\ (i # reg[t].id => subs'[i] = subs[i]),
         r.pc # "create", r.pc \in {"subscribe", "call"} => r.ref = NoRef,
         r.pc \in {"subscribe", "call", "get", "update", "ok"} => Stored(t)',
         r.pc \in {"get", "update", "ok"} => Answered(t)',
         r.pc = "ok" => subs'[r.id].TrackerRef = r.ref,
         Stored(t) \/ reg[t].id = NoRef, HooksOwned',
         r.id = reg[t].id \/ \A u \in Triggers : reg[u].id # r.id
  PROVE  Inv'
<1>1. /\ t \in DOMAIN reg /\ DOMAIN reg = Triggers /\ Triggers' = Triggers
      /\ actor' = "registering" /\ config' = config /\ unreg' = {} /\ unreg = {}
  BY DEF Inv, TypeOK, regOnly, Triggers, Cleaning
<1>2. DOMAIN reg' = DOMAIN reg /\ reg'[t] = r /\ \A u \in DOMAIN reg \ {t} : reg'[u] = reg[u]
  BY <1>1
<1>3. TypeOK'
  <2>1. trouble' \in 0..MaxTrouble /\ troubled' \in BOOLEAN
    BY TroubleTypes DEF Inv
  <2>2. reg' \in [DOMAIN reg' -> Reg] /\ DOMAIN reg' \subseteq Places
    BY <1>1, <1>2 DEF Inv, TypeOK
  <2>3. /\ config' \in Configs \cup {NoConfig} /\ starts' \in 0..MaxStarts
        /\ signal' \in {"off", "waiting", "caught", "interrupted", "returned"}
        /\ server' \in {"off", "serving", "returned"}
        /\ done' \in BOOLEAN /\ err' \in {"", "interrupted", "canceled", "server", "actor"}
        /\ listen' \in {"", "error", "nil", "panic"}
    BY DEF Inv, TypeOK, regOnly
  <2> QED
    BY <1>1, <1>2, <2>1, <2>2, <2>3 DEF TypeOK
<1>4. Registering'
  <2> SUFFICES ASSUME NEW u \in Triggers
               PROVE  /\ reg'[u].pc = "create" => reg'[u].id = NoRef
                      /\ reg'[u].pc \in {"create", "subscribe", "call"} => reg'[u].ref = NoRef
                      /\ reg'[u].pc \in {"subscribe", "call", "get", "update", "ok"} => Stored(u)'
                      /\ reg'[u].pc \in {"get", "update", "ok"} => Answered(u)'
                      /\ reg'[u].pc = "ok" => subs'[reg'[u].id].TrackerRef = reg'[u].ref
    <3>1. IDsApart'
      BY <1>1, <1>2 DEF Inv, Registering, IDsApart
    <3> QED
      BY <1>1, <3>1, Zenon DEF Registering
  <2>1. CASE u = t
    BY <2>1, <1>2
  <2>2. CASE u # t
    <3>1. reg'[u] = reg[u]
      BY <2>2, <1>1, <1>2
    <3>2. Stored(u) => Stored(u)' /\ subs'[reg[u].id] = subs[reg[u].id]
      <4> SUFFICES ASSUME Stored(u)
                   PROVE  Stored(u)' /\ subs'[reg[u].id] = subs[reg[u].id]
        OBVIOUS
      <4>1. reg[u].id \in DOMAIN subs
        BY DEF Stored
      <4>2. reg[u].id # reg[t].id
        <5>1. reg[u].id # NoRef
          <6>1. DOMAIN subs \subseteq SubIDs
            BY DEF Inv, TypeOK, SubsTypeOK
          <6> QED
            BY <6>1, <4>1, SubNamesAssumption
        <5> QED
          BY <1>1, <2>2, <5>1 DEF Inv, Registering, IDsApart
      <4>3. subs'[reg[u].id] = subs[reg[u].id] /\ reg[u].id \in DOMAIN subs'
        BY <4>1, <4>2
      <4> QED
        BY <4>3, <3>1, <1>1 DEF Stored
    <3>3. Answered(u) => Answered(u)'
      BY <3>1, <1>1 DEF Answered
    <3>4. /\ reg[u].pc = "create" => reg[u].id = NoRef
          /\ reg[u].pc \in {"create", "subscribe", "call"} => reg[u].ref = NoRef
          /\ reg[u].pc \in {"subscribe", "call", "get", "update", "ok"} => Stored(u)
          /\ reg[u].pc \in {"get", "update", "ok"} => Answered(u)
          /\ reg[u].pc = "ok" => subs[reg[u].id].TrackerRef = reg[u].ref
      BY DEF Inv, Registering
    <3> QED
      BY <3>1, <3>2, <3>3, <3>4
  <2> QED
    BY <2>1, <2>2
<1>5. Cleaning'
  BY <1>1 DEF Cleaning
<1> QED
  BY <1>3, <1>4, <1>5 DEF Inv

(* Webhooks stay apart while none is made.                                 *)
LEMMA OwnedStays ==
  ASSUME Inv, hooks' = hooks,
         \A i \in DOMAIN subs' :
           \/ i \in DOMAIN subs /\ subs'[i] = subs[i]
           \/ subs'[i].TrackerRef = NoRef
           \/ \E t \in DOMAIN reg : reg[t].id = i /\ subs'[i].TrackerRef = reg[t].ref,
         DOMAIN reg' = DOMAIN reg,
         \A t \in DOMAIN reg :
           reg'[t].ref = NoRef \/ (reg'[t].ref = reg[t].ref /\ reg'[t].id = reg[t].id)
  PROVE  HooksOwned'
<1>1. \A h \in hooks : h.ref # NoRef
  BY SubNamesAssumption DEF Inv, TypeOK, Hook
<1>2. RefsOwnHook'
  <2> SUFFICES ASSUME NEW i \in DOMAIN subs', NEW h \in hooks, h.ref = subs'[i].TrackerRef,
                      h.tracker = subs'[i].TrackerName
               PROVE  h.sub = i
    BY DEF RefsOwnHook, Refers
  <2>1. CASE i \in DOMAIN subs /\ subs'[i] = subs[i]
    BY <2>1 DEF Inv, HooksOwned, RefsOwnHook, Refers
  <2>2. CASE subs'[i].TrackerRef = NoRef
    BY <2>2, <1>1
  <2>3. CASE \E t \in DOMAIN reg : reg[t].id = i /\ subs'[i].TrackerRef = reg[t].ref
    BY <2>3 DEF Inv, HooksOwned
  <2> QED
    BY <2>1, <2>2, <2>3
<1>3. (\A t \in DOMAIN reg : \A h \in hooks : h.ref = reg[t].ref => h.sub = reg[t].id)'
  BY <1>1 DEF Inv, HooksOwned
<1> QED
  BY <1>2, <1>3 DEF HooksOwned

(* A new webhook has a reference of its own.                               *)
LEMMA MakeHookKeeps ==
  ASSUME Inv, NEW t \in Triggers, actor = "registering", Stored(t), subs' = subs,
         NEW ref \in HookRefs \ UsedRefs, MakeHook(t, ref), DOMAIN reg' = DOMAIN reg,
         \A u \in DOMAIN reg :
           reg'[u].id = reg[u].id /\ (reg'[u].ref \in {reg[u].ref, ref} /\ (u # t => reg'[u].ref = reg[u].ref))
  PROVE  hooks \subseteq hooks' /\ hooks' \subseteq Hook /\ HooksOwned'
<1> DEFINE new == [tracker |-> config.triggers[t].in, ref |-> ref, sub |-> reg[t].id]
<1>1. hooks' = hooks \cup {new} /\ DOMAIN reg = Triggers
  BY DEF MakeHook, Inv, TypeOK
<1>2. new \in Hook
  <2>1. reg[t].id \in SubIDs
    <3>1. DOMAIN subs \subseteq SubIDs
      BY DEF Inv, TypeOK, SubsTypeOK
    <3> QED
      BY <3>1 DEF Stored
  <2>2. config.triggers[t].in \in SubTrackers
    BY ConfigTypes DEF Inv, TypeOK, Triggers
  <2> QED
    BY <2>1, <2>2 DEF Hook
<1>3. /\ \A h \in hooks : h.ref # ref
      /\ \A i \in DOMAIN subs : subs[i].TrackerRef # ref
      /\ \A u \in Triggers : reg[u].ref # ref
  BY DEF UsedRefs
<1>4. RefsOwnHook'
  <2> SUFFICES ASSUME NEW i \in DOMAIN subs, NEW h \in hooks', h.ref = subs[i].TrackerRef,
                      h.tracker = subs[i].TrackerName
               PROVE  h.sub = i
    BY DEF RefsOwnHook, Refers
  <2>1. h \in hooks
    BY <1>1, <1>3
  <2> QED
    BY <2>1 DEF Inv, HooksOwned, RefsOwnHook, Refers
<1>5. (\A u \in DOMAIN reg : \A h \in hooks : h.ref = reg[u].ref => h.sub = reg[u].id)'
  <2> SUFFICES ASSUME NEW u \in DOMAIN reg, NEW h \in hooks', h.ref = reg'[u].ref
               PROVE  h.sub = reg[u].id
    OBVIOUS
  <2>1. CASE h \in hooks
    BY <2>1, <1>3 DEF Inv, HooksOwned
  <2>2. CASE h = new
    <3>1. u = t
      BY <2>2, <1>1, <1>3
    <3> QED
      BY <3>1, <2>2
  <2> QED
    BY <2>1, <2>2, <1>1
<1> QED
  BY <1>1, <1>2, <1>4, <1>5 DEF HooksOwned, Inv, TypeOK
-----------------------------------------------------------------------------
(* Steps of the goroutine of a trigger that leave the storage and the      *)
(* trackers alone.                                                         *)
LEMMA GotoStep ==
  ASSUME Inv, NEW t \in Triggers, actor = "registering", NEW pc \in RegPcs, Goto(t, pc),
         UNCHANGED <<subsVars, hooks, regOnly>>,
         Fine \/ \E kind \in Trouble : Trouble1(kind),
         \/ pc = "failed" /\ reg[t].pc # "failed"
         \/ reg[t].pc = "subscribe" /\ pc = "call"
         \/ reg[t].pc = "get" /\ pc = "update"
         \/ /\ reg[t].pc \in {"subscribe", "call"} /\ pc = "get"
            /\ config.triggers[t].in \in RpcHooks
  PROVE  Inv'
<1> DEFINE r == [reg[t] EXCEPT !.pc = pc]
<1>1. /\ reg[t] \in Reg /\ DOMAIN reg = Triggers /\ reg' = [reg EXCEPT ![t] = r]
      /\ subs' = subs /\ hooks' = hooks /\ hooks \subseteq Hook /\ config' = config
  BY DEF Inv, TypeOK, Goto, subsVars, regOnly
<1>2. /\ r \in Reg /\ r.pc = pc /\ r.id = reg[t].id /\ r.ref = reg[t].ref
      /\ DOMAIN reg' = DOMAIN reg /\ reg'[t] = r
      /\ \A u \in DOMAIN reg : reg'[u].id = reg[u].id /\ reg'[u].ref = reg[u].ref
  BY <1>1 DEF Reg
<1> HIDE DEF r
<1>3. SubsTypeOK'
  <2>1. SubsTypeOK
    BY DEF Inv, TypeOK
  <2> QED
    BY <2>1 DEF SubsTypeOK, subsVars
<1>4. IndexConsistent'
  BY DEF Inv, IndexConsistent, PairOf, subsVars
<1>5. HooksOwned'
  BY <1>1, <1>2, OwnedStays
<1>6. /\ reg[t].pc = "create" => reg[t].id = NoRef
      /\ reg[t].pc \in {"create", "subscribe", "call"} => reg[t].ref = NoRef
      /\ reg[t].pc \in {"subscribe", "call", "get", "update", "ok"} => Stored(t)
      /\ reg[t].pc \in {"get", "update", "ok"} => Answered(t)
  BY DEF Inv, Registering
<1>7. r.pc \in {"subscribe", "call"} => r.ref = NoRef
  BY <1>2, <1>6
<1>8. r.pc \in {"subscribe", "call", "get", "update", "ok"} => Stored(t)'
  BY <1>1, <1>2, <1>6 DEF Stored
<1>9. r.pc \in {"get", "update", "ok"} => Answered(t)'
  BY <1>1, <1>2, <1>6 DEF Answered
<1>10. r.pc # "ok" /\ r.pc # "create"
  BY <1>2
<1>11. Stored(t) \/ reg[t].id = NoRef
  BY <1>1, <1>6 DEF Reg, RegPcs
<1> QED
  BY <1>1, <1>2, <1>3, <1>4, <1>5, <1>7, <1>8, <1>9, <1>10, <1>11, TriggerStep

(* An entry is stored under a new ID and a free pair.                      *)
LEMMA RegCreateStep ==
  ASSUME Inv, NEW t \in Triggers, RegCreate(t)
  PROVE  Inv'
<1>1. /\ actor = "registering" /\ reg[t].pc = "create" /\ reg[t] \in Reg
      /\ DOMAIN reg = Triggers /\ hooks' = hooks /\ config' = config
      /\ UNCHANGED regOnly /\ Fine
  BY DEF RegCreate, At, Inv, TypeOK, regOnly
<1>2. CASE PairTaken(config.triggers[t].in, config.triggers[t].name)
  <2>1. Goto(t, "failed") /\ UNCHANGED subsVars
    BY <1>2 DEF RegCreate
  <2>2. "failed" \in RegPcs
    BY DEF RegPcs
  <2> QED
    BY <1>1, <2>1, <2>2, GotoStep
<1>3. CASE ~PairTaken(config.triggers[t].in, config.triggers[t].name)
  <2>1. PICK id \in SubIDs \ UsedIDs :
          /\ PutSub(NewSub(id, config.triggers[t].in, config.triggers[t].name))
          /\ reg' = [reg EXCEPT ![t].pc = "subscribe", ![t].id = id]
    BY <1>3 DEF RegCreate
  <2> DEFINE sub == NewSub(id, config.triggers[t].in, config.triggers[t].name)
             r == [reg[t] EXCEPT !.pc = "subscribe", !.id = id]
  <2>2. /\ id \notin DOMAIN subs /\ \A u \in Triggers : reg[u].id # id
        /\ reg[t].id = NoRef /\ reg[t].ref = NoRef
    BY <1>1 DEF UsedIDs, Inv, Registering
  <2>3. /\ r \in Reg /\ r.pc = "subscribe" /\ r.id = id /\ r.ref = NoRef
        /\ reg' = [reg EXCEPT ![t] = r]
    BY <1>1, <2>1, <2>2 DEF Reg, RegPcs
  <2>4. /\ sub \in Subscription /\ sub.ID = id /\ sub.TrackerRef = NoRef
        /\ sub.TrackerName = config.triggers[t].in
        /\ sub.TriggerName = config.triggers[t].name
    <3>1. config.triggers[t].in \in SubTrackers /\ config.triggers[t].name \in SubTriggers
      BY ConfigTypes DEF Inv, TypeOK, Triggers
    <3> QED
      BY <3>1 DEF NewSub, Subscription
  <2>5. PairOf(sub) \notin DOMAIN byPair
    BY <1>3, <2>4 DEF PairOf, PairTaken
  <2> HIDE DEF sub, r
  <2>6. PutSub(sub)
    BY <2>1 DEF sub
  <2>7. /\ SubsTypeOK' /\ IndexConsistent'
        /\ DOMAIN subs' = DOMAIN subs \cup {id} /\ subs'[id] = sub
        /\ \A i \in DOMAIN subs \ {id} : subs'[i] = subs[i]
    <3>1. SubsTypeOK /\ IndexConsistent
      BY DEF Inv, TypeOK
    <3> QED
      BY <3>1, <2>2, <2>4, <2>5, <2>6, PutKeeps
  <2>8. reg'[t] = r /\ DOMAIN reg' = DOMAIN reg /\ \A u \in Triggers \ {t} : reg'[u] = reg[u]
    BY <1>1, <2>3
  <2>9. HooksOwned'
    <3>1. ASSUME NEW u \in DOMAIN reg
          PROVE  reg'[u].ref = NoRef \/ (reg'[u].ref = reg[u].ref /\ reg'[u].id = reg[u].id)
      <4>1. u # t => reg'[u] = reg[u]
        BY <1>1, <2>8
      <4> QED
        BY <4>1, <2>3, <2>8
    <3>2. \A i \in DOMAIN subs' :
            (i \in DOMAIN subs /\ subs'[i] = subs[i]) \/ subs'[i].TrackerRef = NoRef
      BY <2>4, <2>7
    <3> QED
      BY <1>1, <2>8, <3>1, <3>2, OwnedStays
  <2>10. Stored(t)'
    BY <1>1, <2>3, <2>4, <2>7, <2>8 DEF Stored
  <2>11. hooks \subseteq hooks' /\ hooks' \subseteq Hook
    BY <1>1 DEF Inv, TypeOK
  <2> QED
    BY <1>1, <2>2, <2>3, <2>7, <2>9, <2>10, <2>11, TriggerStep
<1> QED
  BY <1>2, <1>3

(* The webhook is made; the goroutine hears of it, or does not.            *)
LEMMA HookStep ==
  ASSUME Inv, NEW t \in Triggers, actor = "registering", reg[t].pc = "call",
         NEW ref \in HookRefs \ UsedRefs, MakeHook(t, ref),
         UNCHANGED <<subsVars, regOnly>>,
         Fine \/ \E kind \in Trouble : Trouble1(kind),
         \/ Goto(t, "failed")
         \/ reg' = [reg EXCEPT ![t].pc = "get", ![t].ref = ref]
  PROVE  Inv'
<1>1. /\ reg[t] \in Reg /\ DOMAIN reg = Triggers /\ subs' = subs /\ config' = config
      /\ Stored(t) /\ reg[t].ref = NoRef
  BY DEF Inv, TypeOK, Registering, subsVars, regOnly
<1>2. PICK r \in Reg :
        /\ reg' = [reg EXCEPT ![t] = r] /\ r.id = reg[t].id
        /\ \/ r.pc = "failed" /\ r.ref = reg[t].ref
           \/ r.pc = "get" /\ r.ref = ref
  <2>1. CASE Goto(t, "failed")
    <3> DEFINE r == [reg[t] EXCEPT !.pc = "failed"]
    <3>1. /\ r \in Reg /\ reg' = [reg EXCEPT ![t] = r]
          /\ r.id = reg[t].id /\ r.pc = "failed" /\ r.ref = reg[t].ref
      BY <1>1, <2>1 DEF Goto, Reg, RegPcs
    <3> QED
      BY <3>1
  <2>2. CASE reg' = [reg EXCEPT ![t].pc = "get", ![t].ref = ref]
    <3> DEFINE r == [reg[t] EXCEPT !.pc = "get", !.ref = ref]
    <3>1. /\ r \in Reg /\ reg' = [reg EXCEPT ![t] = r]
          /\ r.id = reg[t].id /\ r.pc = "get" /\ r.ref = ref
      BY <1>1, <2>2 DEF Reg, RegPcs
    <3> QED
      BY <3>1
  <2> QED
    BY <2>1, <2>2
<1>3. reg'[t] = r /\ DOMAIN reg' = DOMAIN reg /\ \A u \in Triggers \ {t} : reg'[u] = reg[u]
  BY <1>1, <1>2
<1>4. hooks \subseteq hooks' /\ hooks' \subseteq Hook /\ HooksOwned'
  <2>1. ASSUME NEW u \in DOMAIN reg
        PROVE  reg'[u].id = reg[u].id /\ (reg'[u].ref \in {reg[u].ref, ref} /\ (u # t => reg'[u].ref = reg[u].ref))
    <3>1. CASE u = t
      BY <3>1, <1>2, <1>3
    <3>2. CASE u # t
      <4>1. reg'[u] = reg[u]
        BY <3>2, <1>1, <1>3
      <4> QED
        BY <4>1
    <3> QED
      BY <3>1, <3>2
  <2> QED
    BY <1>1, <1>3, <2>1, MakeHookKeeps
<1>5. SubsTypeOK'
  <2>1. SubsTypeOK
    BY DEF Inv, TypeOK
  <2> QED
    BY <2>1 DEF SubsTypeOK, subsVars
<1>6. IndexConsistent'
  BY DEF Inv, IndexConsistent, PairOf, subsVars
<1>7. Stored(t)'
  BY <1>1, <1>2, <1>3 DEF Stored
<1>8. r.pc = "get" => Answered(t)'
  <2>1. [tracker |-> config.triggers[t].in, ref |-> ref, sub |-> reg[t].id] \in hooks'
    BY DEF MakeHook
  <2> QED
    BY <1>1, <1>2, <1>3, <2>1, SubNamesAssumption DEF Answered
<1> QED
  BY <1>1, <1>2, <1>4, <1>5, <1>6, <1>7, <1>8, TriggerStep

(* SetTrackerRef rewrites the entry that Create has stored, although it has*)
(* read it in another transaction (subscription.go:35-49).                 *)
LEMMA RegUpdateStep ==
  ASSUME Inv, NEW t \in Triggers, RegUpdate(t)
  PROVE  Inv'
<1> DEFINE sub == [EntryOf(t) EXCEPT !.TrackerRef = reg[t].ref]
           r == [reg[t] EXCEPT !.pc = "ok"]
<1>1. /\ actor = "registering" /\ reg[t].pc = "update" /\ reg[t] \in Reg
      /\ DOMAIN reg = Triggers /\ hooks' = hooks /\ config' = config
      /\ UNCHANGED regOnly /\ Fine /\ PutSub(sub) /\ reg' = [reg EXCEPT ![t] = r]
  BY DEF RegUpdate, At, Goto, Inv, TypeOK, regOnly
<1>2. Stored(t) /\ Answered(t)
  BY <1>1 DEF Inv, Registering
<1>3. /\ r \in Reg /\ r.pc = "ok" /\ r.id = reg[t].id /\ r.ref = reg[t].ref
  BY <1>1 DEF Reg, RegPcs
<1>4. reg[t].id \in SubIDs
  <2>1. DOMAIN subs \subseteq SubIDs
    BY DEF Inv, TypeOK, SubsTypeOK
  <2> QED
    BY <2>1, <1>2 DEF Stored
<1>5. /\ sub \in Subscription /\ sub.ID = reg[t].id /\ sub.TrackerRef = reg[t].ref
      /\ sub.TrackerName = config.triggers[t].in
        /\ sub.TriggerName = config.triggers[t].name
  <2>1. config.triggers[t].in \in SubTrackers /\ config.triggers[t].name \in SubTriggers
    BY ConfigTypes DEF Inv, TypeOK, Triggers
  <2> QED
    BY <2>1, <1>1, <1>4 DEF EntryOf, NewSub, Subscription, Reg
<1> HIDE DEF sub, r
<1>6. /\ SubsTypeOK' /\ IndexConsistent'
      /\ DOMAIN subs' = DOMAIN subs \cup {sub.ID} /\ subs'[sub.ID] = sub
      /\ \A i \in DOMAIN subs \ {sub.ID} : subs'[i] = subs[i]
  <2>1. SubsTypeOK /\ IndexConsistent
    BY DEF Inv, TypeOK
  <2>2. /\ sub.ID \in DOMAIN subs /\ subs[sub.ID].TrackerName = sub.TrackerName
        /\ PairOf(subs[sub.ID]) = PairOf(sub)
    BY <1>2, <1>5 DEF Stored, PairOf
  <2> QED
    BY <1>1, <1>5, <2>1, <2>2, PutKeeps
<1>7. reg'[t] = r /\ DOMAIN reg' = DOMAIN reg /\ \A u \in Triggers \ {t} : reg'[u] = reg[u]
  BY <1>1
<1>8. HooksOwned'
  <2>1. \A u \in DOMAIN reg : reg'[u].ref = reg[u].ref /\ reg'[u].id = reg[u].id
    BY <1>1, <1>3, <1>7
  <2>2. ASSUME NEW i \in DOMAIN subs'
        PROVE  \/ i \in DOMAIN subs /\ subs'[i] = subs[i]
               \/ \E u \in DOMAIN reg : reg[u].id = i /\ subs'[i].TrackerRef = reg[u].ref
    BY <1>1, <1>5, <1>6
  <2> QED
    BY <1>1, <1>7, <2>1, <2>2, OwnedStays
<1>9. Stored(t)' /\ Answered(t)'
  BY <1>1, <1>2, <1>3, <1>5, <1>6, <1>7 DEF Stored, Answered
<1>10. hooks \subseteq hooks' /\ hooks' \subseteq Hook
  BY <1>1 DEF Inv, TypeOK
<1>11. \A i \in DOMAIN subs :
         i \in DOMAIN subs' /\ (i # reg[t].id => subs'[i] = subs[i])
  BY <1>5, <1>6
<1>12. subs'[r.id].TrackerRef = r.ref
  BY <1>3, <1>5, <1>6
<1> QED
  BY <1>1, <1>2, <1>3, <1>6, <1>8, <1>9, <1>10, <1>11, <1>12, TriggerStep

(* A registration that fails leaves its entry, and maybe a webhook nobody  *)
(* knows.                                                                  *)
LEMMA RegFailsStep ==
  ASSUME Inv, NEW t \in Places, RegFails(t)
  PROVE  Inv'
<1>1. /\ t \in Triggers /\ actor = "registering" /\ UNCHANGED <<subsVars, regOnly>>
      /\ \E kind \in Trouble : Trouble1(kind)
  BY DEF RegFails, At, Trouble1
<1>2. {"failed", "get"} \subseteq RegPcs
  BY DEF RegPcs
<1>3. CASE reg[t].pc \in {"create", "get", "update", "call"} /\ Goto(t, "failed") /\ UNCHANGED hooks
  BY <1>1, <1>2, <1>3, GotoStep
<1>4. CASE At(t, "call") /\ Goto(t, "failed") /\ \E ref \in HookRefs \ UsedRefs : MakeHook(t, ref)
  BY <1>1, <1>4, HookStep DEF At
<1>5. CASE At(t, "call") /\ config.triggers[t].in \in RpcHooks /\ Goto(t, "get") /\ UNCHANGED hooks
  BY <1>1, <1>2, <1>5, GotoStep DEF At
<1> QED
  BY <1>3, <1>4, <1>5 DEF RegFails, At

(* Every step of registerTriggers.                                         *)
LEMMA RegisterStep ==
  ASSUME Inv, NEW t \in Places, Register(t)
  PROVE  Inv'
<1> USE DEF At
<1>1. {"failed", "call", "get", "update"} \subseteq RegPcs
  BY DEF RegPcs
<1>2. CASE RegCreate(t)
  <2>1. t \in Triggers
    BY <1>2 DEF RegCreate
  <2> QED
    BY <1>2, <2>1, RegCreateStep
<1>3. CASE RegSubscribe(t)
  <2>1. /\ t \in Triggers /\ actor = "registering" /\ reg[t].pc = "subscribe"
        /\ UNCHANGED <<subsVars, hooks, regOnly>> /\ Fine
    BY <1>3 DEF RegSubscribe
  <2>2. \/ Goto(t, "call") \/ Goto(t, "failed")
        \/ Goto(t, "get") /\ config.triggers[t].in \in RpcHooks
    BY <1>3 DEF RegSubscribe
  <2> QED
    BY <1>1, <2>1, <2>2, GotoStep
<1>4. CASE RegAnswered(t)
  <2>1. /\ t \in Triggers /\ actor = "registering" /\ reg[t].pc = "call"
        /\ UNCHANGED <<subsVars, regOnly>> /\ Fine
    BY <1>4 DEF RegAnswered
  <2>2. PICK ref \in HookRefs \ UsedRefs :
          MakeHook(t, ref) /\ reg' = [reg EXCEPT ![t].pc = "get", ![t].ref = ref]
    BY <1>4 DEF RegAnswered
  <2> QED
    BY <2>1, <2>2, HookStep
<1>5. CASE RegCanceled(t)
  <2>1. /\ t \in Triggers /\ actor = "registering" /\ reg[t].pc = "call"
        /\ UNCHANGED <<subsVars, regOnly>> /\ Fine /\ Goto(t, "failed")
    BY <1>5 DEF RegCanceled
  <2>2. CASE hooks' = hooks
    BY <1>1, <2>1, <2>2, GotoStep
  <2>3. CASE \E ref \in HookRefs \ UsedRefs : MakeHook(t, ref)
    BY <2>1, <2>3, HookStep
  <2> QED
    BY <1>5, <2>2, <2>3 DEF RegCanceled
<1>6. CASE RegGet(t)
  <2>1. /\ t \in Triggers /\ actor = "registering" /\ reg[t].pc = "get"
        /\ UNCHANGED <<subsVars, hooks, regOnly>> /\ Fine
        /\ Goto(t, "update") \/ Goto(t, "failed")
    BY <1>6 DEF RegGet
  <2> QED
    BY <1>1, <2>1, GotoStep
<1>7. CASE RegUpdate(t)
  <2>1. t \in Triggers
    BY <1>7 DEF RegUpdate
  <2> QED
    BY <1>7, <2>1, RegUpdateStep
<1> QED
  BY <1>2, <1>3, <1>4, <1>5, <1>6, <1>7 DEF Register
-----------------------------------------------------------------------------
(* What a step of unregisterTriggers has to see to: entries and webhooks   *)
(* only go.                                                                *)
LEMMA CleaningStep ==
  ASSUME Inv, actor' = "unregistering", actor # "off",
         UNCHANGED <<config, signal, server, done, err, reg, starts>>,
         listen' \in {"", "error", "nil", "panic"},
         Fine \/ \E kind \in Trouble : Trouble1(kind),
         SubsTypeOK', IndexConsistent', hooks' \subseteq hooks,
         \A i \in DOMAIN subs' : i \in DOMAIN subs /\ subs'[i] = subs[i],
         unreg' \subseteq [sub : Subscription, pc : {"unsubscribe", "delete"}],
         \A x \in unreg' :
           /\ x.sub.ID \in DOMAIN subs' => subs'[x.sub.ID] = x.sub
           /\ x.pc = "delete" /\ x.sub.TrackerName \notin RpcHooks =>
                \A h \in hooks' : ~Refers(h, x.sub)
  PROVE  Inv'
<1>1. TypeOK'
  <2>1. trouble' \in 0..MaxTrouble /\ troubled' \in BOOLEAN
    BY TroubleTypes DEF Inv
  <2>2. DOMAIN reg' = Triggers'
    BY DEF Inv, TypeOK, Triggers
  <2> QED
    BY <2>1, <2>2 DEF Inv, TypeOK
<1>2. Registering'
  BY DEF Inv, Registering, IDsApart
<1>3. Cleaning'
  BY DEF Cleaning, Refers
<1>4. HooksOwned'
  BY DEF Inv, HooksOwned, RefsOwnHook, Refers
<1> QED
  BY <1>1, <1>2, <1>3, <1>4 DEF Inv

(* unregisterTriggers works on the entries that are stored when it starts. *)
LEMMA ListAllStep ==
  ASSUME Inv, ListAll
  PROVE  Inv'
<1>1. /\ actor = "listing" /\ actor' = "unregistering" /\ subs' = subs /\ hooks' = hooks
      /\ UNCHANGED <<actorOnly, done, err, listen>>
      /\ Fine \/ \E kind \in Trouble : Trouble1(kind)
      /\ unreg' \subseteq {[sub |-> subs[i], pc |-> "unsubscribe"] : i \in DOMAIN subs}
  BY DEF ListAll, actorOnly, subsVars, Trouble1
<1>2. SubsTypeOK
  BY DEF Inv, TypeOK
<1>3. SubsTypeOK' /\ IndexConsistent'
  BY <1>1, <1>2 DEF Inv, SubsTypeOK, IndexConsistent, PairOf, actorOnly, subsVars
<1>4. ASSUME NEW x \in unreg'
      PROVE  /\ x \in [sub : Subscription, pc : {"unsubscribe", "delete"}]
             /\ x.sub.ID \in DOMAIN subs' => subs'[x.sub.ID] = x.sub
             /\ x.pc # "delete"
  <2>1. PICK i \in DOMAIN subs : x = [sub |-> subs[i], pc |-> "unsubscribe"]
    BY <1>1
  <2>2. subs[i] \in Subscription /\ subs[i].ID = i
    BY <1>2 DEF SubsTypeOK
  <2> QED
    BY <1>1, <2>1, <2>2
<1>5. listen' \in {"", "error", "nil", "panic"}
  BY <1>1 DEF Inv, TypeOK
<1> QED
  BY <1>1, <1>3, <1>4, <1>5, CleaningStep DEF actorOnly

(* An entry goes on to be deleted only without its webhook, or when a      *)
(* plugin's call may have been skipped.                                    *)
LEMMA UnsubscribeStep ==
  ASSUME Inv, NEW x \in unreg, Unsubscribe(x) \/ UnsubscribeFails(x)
  PROVE  Inv'
<1>1. /\ UNCHANGED <<subsVars, unregOnly, listen>> /\ actor = "unregistering"
      /\ Fine \/ \E kind \in Trouble : Trouble1(kind)
  BY DEF Unsubscribe, UnsubscribeFails, Trouble1, Inv, Cleaning
<1>2. SubsTypeOK' /\ IndexConsistent'
  <2>1. SubsTypeOK
    BY DEF Inv, TypeOK
  <2> QED
    BY <1>1, <2>1 DEF Inv, SubsTypeOK, IndexConsistent, PairOf, subsVars
<1>3. hooks' \subseteq hooks
  BY DEF Unsubscribe, UnsubscribeFails
<1> DEFINE y == [x EXCEPT !.pc = "delete"]
<1>4. /\ x \in [sub : Subscription, pc : {"unsubscribe", "delete"}]
      /\ y \in [sub : Subscription, pc : {"unsubscribe", "delete"}] /\ y.sub = x.sub
  BY DEF Inv, TypeOK
<1>5. \/ unreg' = unreg \ {x}
      \/ /\ unreg' = (unreg \ {x}) \cup {y}
         /\ x.sub.TrackerName \in RpcHooks \/ \A h \in hooks' : ~Refers(h, x.sub)
  BY DEF Unsubscribe, UnsubscribeFails, Drop, Advance
<1> HIDE DEF y
<1>6. ASSUME NEW z \in unreg'
      PROVE  /\ z \in [sub : Subscription, pc : {"unsubscribe", "delete"}]
             /\ z.sub.ID \in DOMAIN subs' => subs'[z.sub.ID] = z.sub
             /\ z.pc = "delete" /\ z.sub.TrackerName \notin RpcHooks =>
                  \A h \in hooks' : ~Refers(h, z.sub)
  <2>1. subs' = subs
    BY <1>1 DEF subsVars
  <2>2. CASE z \in unreg
    BY <2>1, <2>2, <1>3 DEF Inv, TypeOK, Cleaning
  <2>3. CASE z \notin unreg
    <3>1. z = y /\ (x.sub.TrackerName \in RpcHooks \/ \A h \in hooks' : ~Refers(h, x.sub))
      BY <2>3, <1>5
    <3>2. x.sub.ID \in DOMAIN subs => subs[x.sub.ID] = x.sub
      BY DEF Inv, Cleaning
    <3> QED
      BY <2>1, <3>1, <3>2, <1>4
  <2> QED
    BY <2>2, <2>3
<1>7. listen' \in {"", "error", "nil", "panic"}
  BY <1>1 DEF Inv, TypeOK
<1> QED
  BY <1>1, <1>2, <1>3, <1>6, <1>7, CleaningStep DEF unregOnly, subsVars

(* An entry is deleted when its webhook has gone, if it is github's.       *)
LEMMA DeleteEntryStep ==
  ASSUME Inv, NEW x \in unreg, DeleteEntry(x)
  PROVE  /\ Inv'
         /\ \A i \in DOMAIN subs \ DOMAIN subs' :
              subs[i].TrackerName \notin RpcHooks => ~\E h \in hooks' : Refers(h, subs[i])
<1>1. /\ UNCHANGED <<hooks, unregOnly, listen>> /\ actor = "unregistering"
      /\ Fine \/ \E kind \in Trouble : Trouble1(kind)
      /\ x.pc = "delete" /\ unreg' = unreg \ {x}
  BY DEF DeleteEntry, Drop, Trouble1, Inv, Cleaning
<1>2. SubsTypeOK /\ IndexConsistent
  BY DEF Inv, TypeOK
<1>3. /\ SubsTypeOK' /\ IndexConsistent'
      /\ \A i \in DOMAIN subs' : i \in DOMAIN subs /\ subs'[i] = subs[i]
      /\ \A i \in DOMAIN subs \ DOMAIN subs' : i = x.sub.ID
  <2>1. CASE x.sub.ID \in DOMAIN subs /\ DeleteSub(x.sub.ID)
    BY <1>2, <2>1, DeleteKeeps
  <2>2. CASE UNCHANGED subsVars
    BY <1>2, <2>2 DEF SubsTypeOK, IndexConsistent, PairOf, subsVars
  <2> QED
    BY <2>1, <2>2 DEF DeleteEntry
<1>4. \A z \in unreg :
        /\ z.sub.ID \in DOMAIN subs => subs[z.sub.ID] = z.sub
        /\ z.pc = "delete" /\ z.sub.TrackerName \notin RpcHooks =>
             \A h \in hooks : ~Refers(h, z.sub)
  BY DEF Inv, Cleaning
<1>5. Inv'
  <2>1. ASSUME NEW z \in unreg'
        PROVE  /\ z \in [sub : Subscription, pc : {"unsubscribe", "delete"}]
               /\ z.sub.ID \in DOMAIN subs' => subs'[z.sub.ID] = z.sub
               /\ z.pc = "delete" /\ z.sub.TrackerName \notin RpcHooks =>
                    \A h \in hooks' : ~Refers(h, z.sub)
    BY <1>1, <1>3, <1>4 DEF Inv, TypeOK
  <2>2. listen' \in {"", "error", "nil", "panic"}
    BY <1>1 DEF Inv, TypeOK
  <2> QED
    BY <1>1, <1>3, <2>1, <2>2, CleaningStep DEF unregOnly
<1>6. ASSUME NEW i \in DOMAIN subs \ DOMAIN subs', subs[i].TrackerName \notin RpcHooks
      PROVE  ~\E h \in hooks' : Refers(h, subs[i])
  BY <1>1, <1>3, <1>4, <1>6
<1> QED
  BY <1>5, <1>6

(* Every step of unregisterTriggers.                                       *)
LEMMA UnregisterStep ==
  ASSUME Inv, NEW x \in unreg, Unregister(x) \/ UnsubscribeFails(x)
  PROVE  Inv'
<1>1. CASE Unsubscribe(x) \/ UnsubscribeFails(x)
  BY <1>1, UnsubscribeStep
<1>2. CASE UnsubscribePanics(x)
  BY <1>2, OffStep DEF UnsubscribePanics
<1>3. CASE DeleteEntry(x)
  BY <1>3, DeleteEntryStep
<1> QED
  BY <1>1, <1>2, <1>3 DEF Unregister

(* Steps of Execute and of Listen themselves.                              *)
LEMMA MainStep ==
  ASSUME Inv, CatchSignal \/ Crash \/ Main
  PROVE  Inv'
<1> USE DEF GroupError
<1>1. /\ err \in {"", "interrupted", "canceled", "server", "actor"} /\ done \in BOOLEAN
      /\ listen \in {"", "error", "nil", "panic"} /\ (unreg # {} => actor = "unregistering")
  BY DEF Inv, TypeOK, Cleaning
<1>2. CASE CatchSignal
  BY <1>1, <1>2, QuietStep DEF CatchSignal
<1>3. CASE Crash
  BY <1>1, <1>3, OffStep DEF Crash, Trouble1
<1>4. CASE SignalReturns
  BY <1>1, <1>4, QuietStep DEF SignalReturns
<1>5. CASE ServerReturns
  <2>1. Fine \/ \E kind \in Trouble : Trouble1(kind)
    BY <1>5 DEF ServerReturns, Trouble1
  <2> QED
    BY <1>1, <1>5, <2>1, QuietStep DEF ServerReturns
<1>6. CASE Exit
  BY <1>1, <1>6, OffStep DEF Exit
<1>7. CASE Registered
  <2>1. \/ actor' = "listing"
        \/ actor' = "listening" /\ \A t \in Triggers : reg[t].pc = "ok"
    BY <1>7 DEF Registered
  <2>2. listen' \in {"", "error", "nil", "panic"}
    BY <1>1, <1>7 DEF Registered
  <2> QED
    BY <1>1, <1>7, <2>1, <2>2, QuietStep DEF Registered, actorOnly
<1>8. CASE ListenersReturn
  <2>1. listen' \in {"", "error", "nil", "panic"}
    BY <1>8 DEF ListenersReturn
  <2> QED
    BY <1>1, <1>8, <2>1, QuietStep DEF ListenersReturn, actorOnly
<1>9. CASE ListAll
  BY <1>9, ListAllStep
<1>10. CASE ActorReturns
  <2>1. err' \in {"", "interrupted", "canceled", "server", "actor"} /\ done' \in BOOLEAN
    BY <1>1, <1>10 DEF ActorReturns
  <2> QED
    BY <1>1, <1>10, <2>1, QuietStep DEF ActorReturns, actorOnly
<1> QED
  BY <1>2, <1>3, <1>4, <1>5, <1>6, <1>7, <1>8, <1>9, <1>10 DEF Main

(* Every step keeps the invariant.                                         *)
LEMMA NextKeeps == Inv /\ [Next]_vars => Inv'
<1> SUFFICES ASSUME Inv, [Next]_vars PROVE Inv'
  OBVIOUS
<1>1. CASE \E c \in Configs : Start(c)
  BY <1>1, StartStep
<1>2. CASE CatchSignal \/ Crash \/ Main
  BY <1>2, MainStep
<1>3. CASE \E t \in Places : Register(t) \/ RegFails(t)
  BY <1>3, RegisterStep, RegFailsStep
<1>4. CASE \E x \in unreg : Unregister(x) \/ UnsubscribeFails(x)
  BY <1>4, UnregisterStep
<1>5. CASE UNCHANGED vars
  <2>1. /\ UNCHANGED subsVars /\ subs' = subs /\ byTracker' = byTracker /\ byPair' = byPair
        /\ hooks' = hooks /\ config' = config /\ signal' = signal /\ actor' = actor
        /\ server' = server /\ done' = done /\ err' = err /\ listen' = listen
        /\ reg' = reg /\ unreg' = unreg /\ starts' = starts
        /\ trouble' = trouble /\ troubled' = troubled
    BY <1>5 DEF vars, subsVars, procVars
  <2>2. TypeOK'
    <3>1. TypeOK
      BY DEF Inv
    <3>2. SubsTypeOK'
      BY <2>1, <3>1, StorageStays DEF TypeOK
    <3>3. (actor # "off" => DOMAIN reg = Triggers)'
      BY <2>1, <3>1 DEF TypeOK, Triggers
    <3>4. reg' \in [DOMAIN reg' -> Reg] /\ DOMAIN reg' \subseteq Places
      BY <2>1, <3>1 DEF TypeOK
    <3>5. done' \in BOOLEAN /\ troubled' \in BOOLEAN
      BY <2>1, <3>1, Zenon DEF TypeOK
    <3>6. starts' \in 0..MaxStarts /\ trouble' \in 0..MaxTrouble
      BY <2>1, <3>1 DEF TypeOK
    <3> QED
      BY <2>1, <3>1, <3>2, <3>3, <3>4, <3>5, <3>6 DEF TypeOK
  <2>3. IndexConsistent' /\ HooksOwned'
    BY <2>1 DEF Inv, IndexConsistent, PairOf, HooksOwned, RefsOwnHook, Refers
  <2>4. Registering' /\ Cleaning'
    BY <2>1 DEF Inv, Registering, Stored, Answered, Cleaning, Refers, Triggers, IDsApart
  <2> QED
    BY <2>2, <2>3, <2>4 DEF Inv
<1> QED
  BY <1>1, <1>2, <1>3, <1>4, <1>5 DEF Next
-----------------------------------------------------------------------------
(* Through any lives of the process the storage, its indexes, the          *)
(* goroutines and the trackers' webhooks fit each other.                   *)
THEOREM AlwaysInv == Spec => []Inv
<1> QED
  BY InitInv, NextKeeps, PTL DEF Spec

(* The state keeps its type; in particular entries, goroutines and webhooks*)
(* only have names, IDs and references that exist.                         *)
THEOREM TypesKept == Spec => []TypeOK
<1>1. Inv => TypeOK
  BY DEF Inv
<1> QED
  BY <1>1, AlwaysInv, PTL

(* The three buckets of the storage tell the same: put and Delete keep them*)
(* so through every interleaving of goroutines, crash and restart          *)
(* (subscription.go:56-133, 192-219).                                      *)
THEOREM IndexesAgree == Spec => []IndexConsistent
<1>1. Inv => IndexConsistent
  BY DEF Inv
<1> QED
  BY <1>1, AlwaysInv, PTL

(* A recorded reference leads to the webhook made for its entry, so that no*)
(* Unsubscribe takes away another trigger's webhook (actor.go:139-155,     *)
(* 179).                                                                   *)
THEOREM HooksApart == Spec => []RefsOwnHook
<1>1. Inv => RefsOwnHook
  BY DEF Inv, HooksOwned
<1> QED
  BY <1>1, AlwaysInv, PTL

(* A program that listens has an entry for every configured trigger, which *)
(* it shares with no other, and the tracker has the webhook the entry      *)
(* refers to (actor.go:118-163).                                           *)
THEOREM ListeningHasHooks == Spec => []ListeningComplete
<1>1. Inv => ListeningComplete
  <2> SUFFICES ASSUME Inv, actor = "listening", NEW t \in Triggers
               PROVE  /\ PairFor(t) \in DOMAIN byPair
                      /\ \A u \in Triggers \ {t} : PairFor(u) # PairFor(t)
                      /\ LET sub == subs[byPair[PairFor(t)]] IN
                         IF sub.TrackerRef = NoRef THEN config.triggers[t].in \in RpcHooks
                         ELSE \E h \in hooks : Refers(h, sub) /\ h.sub = sub.ID
    BY DEF ListeningComplete
  <2>1. /\ Stored(t) /\ Answered(t) /\ subs[reg[t].id].TrackerRef = reg[t].ref
    BY DEF Inv, Registering
  <2>2. ASSUME NEW u \in Triggers
        PROVE  PairFor(u) \in DOMAIN byPair /\ byPair[PairFor(u)] = reg[u].id
    <3>1. Stored(u)
      BY DEF Inv, Registering
    <3>2. PairFor(u) = PairOf(subs[reg[u].id])
      BY <3>1 DEF Stored, PairOf, PairFor
    <3> QED
      BY <3>1, <3>2 DEF Inv, IndexConsistent, Stored
  <2>3. ASSUME NEW u \in Triggers \ {t}, PairFor(u) = PairFor(t) PROVE FALSE
    <3>1. reg[u].id = reg[t].id
      BY <2>2, <2>3
    <3>2. reg[t].id # NoRef
      <4>1. DOMAIN subs \subseteq SubIDs
        BY DEF Inv, TypeOK, SubsTypeOK
      <4> QED
        BY <2>1, <4>1, SubNamesAssumption DEF Stored
    <3> QED
      BY <3>1, <3>2 DEF Inv, TypeOK, Registering, IDsApart
  <2>4. subs[reg[t].id].ID = reg[t].id
    BY <2>1 DEF Inv, TypeOK, SubsTypeOK, Stored
  <2> QED
    BY <2>1, <2>2, <2>3, <2>4 DEF Stored, Answered, Refers
<1> QED
  BY <1>1, AlwaysInv, PTL

(* No step deletes an entry with its reference while github still has the  *)
(* webhook (actor.go:179-190).                                             *)
THEOREM NoHookForgotten == Spec => EntryOutlivesHook
<1> DEFINE Step == \A i \in DOMAIN subs \ DOMAIN subs' :
                     subs[i].TrackerName \notin RpcHooks =>
                       ~\E h \in hooks' : Refers(h, subs[i])
<1>1. Inv /\ [Next]_vars => [Step]_vars
  <2> SUFFICES ASSUME Inv, Next PROVE Step
    OBVIOUS
  <2>1. CASE \E c \in Configs : Start(c)
    BY <2>1 DEF Start, subsVars
  <2>2. CASE CatchSignal \/ Crash \/ Main
    BY <2>2 DEF CatchSignal, Crash, Main, SignalReturns, ServerReturns, Exit, Registered,
       ListenersReturn, ListAll, ActorReturns, actorOnly, subsVars
  <2>3. CASE \E t \in Places : Register(t) \/ RegFails(t)
    <3>1. CASE UNCHANGED subsVars
      BY <3>1 DEF subsVars
    <3>2. CASE \E sub : PutSub(sub)
      BY <3>2 DEF PutSub
    <3> QED
      BY <2>3, <3>1, <3>2 DEF Register, RegFails, RegCreate, RegSubscribe, RegAnswered,
         RegCanceled, RegGet, RegUpdate
  <2>4. CASE \E x \in unreg : Unsubscribe(x) \/ UnsubscribeFails(x) \/ UnsubscribePanics(x)
    BY <2>4 DEF Unsubscribe, UnsubscribeFails, UnsubscribePanics, subsVars
  <2>5. CASE \E x \in unreg : DeleteEntry(x)
    BY <2>5, DeleteEntryStep
  <2> QED
    BY <2>1, <2>2, <2>3, <2>4, <2>5 DEF Next, Unregister
<1> QED
  BY <1>1, AlwaysInv, PTL DEF Spec, EntryOutlivesHook
-----------------------------------------------------------------------------
(* Once the entries are listed, and nothing has failed, every entry that   *)
(* is left has a goroutine that is to delete it.                           *)
Cleanup ==
  ~troubled /\ actor \in {"unregistering", "returned"} =>
    \A i \in DOMAIN subs :
      subs[i].TrackerName \in Strict \/ \E x \in unreg : x.sub = subs[i]

LEMMA CleanupIdle ==
  ASSUME Cleanup, ~troubled' => ~troubled, subs' = subs, unreg' = unreg,
         actor' = actor \/ actor' \notin {"unregistering", "returned"}
           \/ actor = "unregistering"
  PROVE  Cleanup'
BY DEF Cleanup

(* A goroutine deletes its entry or goes on to, unless the tracker is      *)
(* strict about unknown references.                                        *)
LEMMA CleanupUnregister ==
  ASSUME Inv, Cleanup, NEW x \in unreg, Unregister(x) \/ UnsubscribeFails(x)
  PROVE  Cleanup'
<1> SUFFICES ASSUME ~troubled', actor' \in {"unregistering", "returned"},
                    NEW i \in DOMAIN subs', subs'[i].TrackerName \notin Strict
             PROVE  \E y \in unreg' : y.sub = subs'[i]
  BY DEF Cleanup
<1>1. actor = "unregistering"  BY DEF Inv, Cleaning
<1>2. \A k \in DOMAIN subs : subs[k].ID = k  BY DEF Inv, TypeOK, SubsTypeOK
<1>3. x \in [sub : Subscription, pc : {"unsubscribe", "delete"}]  BY DEF Inv, TypeOK
<1>4. ASSUME ~troubled, i \in DOMAIN subs, subs'[i] = subs[i]
      PROVE  \E y \in unreg : y.sub = subs'[i]
  BY <1>1, <1>4 DEF Cleanup
<1>5. CASE Unsubscribe(x)
  <2>1. subs' = subs /\ ~troubled  BY <1>5 DEF Unsubscribe, Fine, subsVars
  <2>2. PICK y \in unreg : y.sub = subs'[i]  BY <1>4, <2>1
  <2>3. CASE y # x
    BY <1>5, <2>2, <2>3 DEF Unsubscribe, Drop, Advance
  <2>4. CASE y = x
    <3>1. x.sub.TrackerName \notin Strict  BY <2>2, <2>4
    <3>2. Advance(x)  BY <1>5, <3>1 DEF Unsubscribe
    <3>3. [x EXCEPT !.pc = "delete"].sub = x.sub  BY <1>3
    <3> QED  BY <2>2, <2>4, <3>2, <3>3 DEF Advance
  <2> QED  BY <2>3, <2>4
<1>6. CASE UnsubscribeFails(x)
  BY <1>6 DEF UnsubscribeFails, Trouble1
<1>7. CASE UnsubscribePanics(x)
  BY <1>7 DEF UnsubscribePanics, Off
<1>8. CASE DeleteEntry(x)
  <2>1. /\ ~troubled /\ unreg' = unreg \ {x}
        /\ IF x.sub.ID \in DOMAIN subs THEN DeleteSub(x.sub.ID) ELSE subs' = subs
    BY <1>8 DEF DeleteEntry, Drop, Trouble1, Fine, subsVars
  <2>2. i \in DOMAIN subs /\ subs'[i] = subs[i] /\ i # x.sub.ID
    BY <2>1 DEF DeleteSub
  <2>3. PICK y \in unreg : y.sub = subs'[i]  BY <1>4, <2>1, <2>2
  <2>4. y # x  BY <1>2, <2>2, <2>3
  <2> QED  BY <2>1, <2>3, <2>4
<1> QED  BY <1>5, <1>6, <1>7, <1>8 DEF Unregister

LEMMA CleanupStep == Inv /\ Cleanup /\ [Next]_vars => Cleanup'
<1> SUFFICES ASSUME Inv, Cleanup, [Next]_vars PROVE Cleanup'  OBVIOUS
<1>1. CASE \E c \in Configs : Start(c)
  BY <1>1 DEF Start, Cleanup
<1>2. CASE Crash \/ Exit
  BY <1>2 DEF Crash, Exit, Off, Cleanup
<1>3. CASE CatchSignal \/ SignalReturns \/ ServerReturns
  BY <1>3, CleanupIdle DEF CatchSignal, SignalReturns, ServerReturns, Fine, Trouble1, subsVars
<1>4. CASE Registered \/ ListenersReturn
  BY <1>4 DEF Registered, ListenersReturn, Cleanup
<1>5. CASE ListAll
  <2> SUFFICES ASSUME ~troubled', NEW i \in DOMAIN subs
               PROVE  \E x \in unreg' : x.sub = subs[i]
    BY <1>5 DEF ListAll, actorOnly, subsVars, Cleanup
  <2>1. unreg' = {[sub |-> subs[k], pc |-> "unsubscribe"] : k \in DOMAIN subs}
    BY <1>5 DEF ListAll, Trouble1
  <2>2. subs' = subs /\ i \in DOMAIN subs
    BY <1>5 DEF ListAll, actorOnly, subsVars
  <2>3. [sub |-> subs[i], pc |-> "unsubscribe"] \in unreg'
    BY <2>1, <2>2
  <2>4. [sub |-> subs[i], pc |-> "unsubscribe"].sub = subs[i]
    OBVIOUS
  <2> QED  BY <2>2, <2>3, <2>4
<1>6. CASE ActorReturns
  BY <1>6, CleanupIdle DEF ActorReturns, actorOnly, Fine, subsVars
<1>7. ASSUME NEW t \in Places, Register(t) \/ RegFails(t) PROVE Cleanup'
  <2>1. actor' = "registering"
    BY <1>7 DEF Register, RegFails, RegCreate, RegSubscribe, RegAnswered, RegCanceled,
       RegGet, RegUpdate, At, regOnly
  <2> QED  BY <2>1 DEF Cleanup
<1>8. ASSUME NEW x \in unreg, Unregister(x) \/ UnsubscribeFails(x) PROVE Cleanup'
  BY <1>8, CleanupUnregister
<1>9. CASE UNCHANGED vars
  BY <1>9, CleanupIdle DEF vars, procVars, subsVars
<1> QED  BY <1>1, <1>2, <1>3, <1>4, <1>5, <1>6, <1>7, <1>8, <1>9 DEF Next, Main

(* A life without failures leaves no entry behind that would keep the next *)
(* one from starting, whatever lives and configurations came before it     *)
(* (actor.go:38, 165-191).                                                 *)
THEOREM NothingLeft == Spec => []NextStartFree
<1>1. Init => Cleanup  BY DEF Init, Idle, Cleanup
<1>2. Inv /\ Cleanup => NextStartFree
  BY DEF Inv, Cleaning, Cleanup, NextStartFree, Stopped
<1> QED  BY <1>1, <1>2, CleanupStep, AlwaysInv, PTL DEF Spec
=============================================================================
