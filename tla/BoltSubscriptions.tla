------------------------- MODULE BoltSubscriptions -------------------------
(***************************************************************************)
(* The subscriptions storage, app/store/engine/bolt/subscription.go, with  *)
(* the record it stores, app/store/subscription.go.                        *)
(*                                                                         *)
(* A subscription is the program's own record of one webhook of a tracker. *)
(* Three buckets are kept: the subscriptions by their ID, the IDs by the   *)
(* name of the tracker, and the ID by the pair of tracker and trigger; the *)
(* last one refuses a second subscription for the pair.  Every operation   *)
(* is one bolt transaction, hence one step of its caller.  The base URL of *)
(* the webhooks and the time of registration are left out.                 *)
(***************************************************************************)
EXTENDS Sequences

CONSTANTS SubTrackers,  \* names a tracker may have in a configuration
          SubTriggers,  \* names a trigger may have in a configuration
          SubIDs,       \* IDs uuid.NewString may return
          HookRefs,     \* references trackers give to their webhooks
          PairSep       \* the separator ":" of a reference to a pair

NoRef == ""

ASSUME SubNamesAssumption == NoRef \notin SubIDs /\ NoRef \notin HookRefs

VARIABLES subs,       \* bucket "subscriptions": ID -> subscription
          byTracker,  \* bucket "tracker_refs_to_subs": tracker -> IDs
          byPair      \* bucket "tracker_trigger_to_subs": pair -> ID

subsVars == <<subs, byTracker, byPair>>

-----------------------------------------------------------------------------
Subscription ==
  [ID : SubIDs, TrackerRef : HookRefs \cup {NoRef},
   TrackerName : SubTrackers, TriggerName : SubTriggers]

(* Pairs whose names hold the separator may share a reference.            *)
PairRef(trk, trg) == trk \o PairSep \o trg
PairOf(sub) == PairRef(sub.TrackerName, sub.TriggerName)

(* Subscriptions.put.                                                      *)
PutSub(sub) ==
  LET trk == sub.TrackerName IN
  /\ subs' = [i \in DOMAIN subs \cup {sub.ID} |-> IF i = sub.ID THEN sub ELSE subs[i]]
  /\ byTracker' = [t \in DOMAIN byTracker \cup {trk} |->
                     (IF t \in DOMAIN byTracker THEN byTracker[t] ELSE {})
                       \cup (IF t = trk THEN {sub.ID} ELSE {})]
  /\ byPair' = [p \in DOMAIN byPair \cup {PairOf(sub)} |->
                  IF p = PairOf(sub) THEN sub.ID ELSE byPair[p]]

(* Subscriptions.Create refuses a pair that has a subscription.            *)
PairTaken(trk, trg) == PairRef(trk, trg) \in DOMAIN byPair

(* (mutant: the ID is generated after the entry is stored)                 *)
NewSubNoID(id, trk, trg) ==
  [ID |-> NoRef, TrackerRef |-> NoRef, TrackerName |-> trk, TriggerName |-> trg]
NewSub(id, trk, trg) ==
  [ID |-> id, TrackerRef |-> NoRef, TrackerName |-> trk, TriggerName |-> trg]

(* Subscriptions.Delete of a stored subscription (mutant: the pair stays   *)
(* taken).                                                                 *)
DeleteSubKeepPair(id) ==
  LET trk == subs[id].TrackerName IN
  /\ subs' = [i \in DOMAIN subs \ {id} |-> subs[i]]
  /\ byTracker' = [t \in DOMAIN byTracker |->
                     IF t = trk THEN byTracker[t] \ {id} ELSE byTracker[t]]
  /\ byPair' = byPair
DeleteSub(id) ==
  LET trk == subs[id].TrackerName IN
  /\ subs' = [i \in DOMAIN subs \ {id} |-> subs[i]]
  /\ byTracker' = [t \in DOMAIN byTracker |->
                     IF t = trk THEN byTracker[t] \ {id} ELSE byTracker[t]]
  /\ byPair' = [p \in DOMAIN byPair \ {PairOf(subs[id])} |-> byPair[p]]

SubsInit ==
  /\ subs = [i \in {} |-> NoRef]
  /\ byTracker = [t \in {} |-> {}]
  /\ byPair = [p \in {} |-> NoRef]
-----------------------------------------------------------------------------
SubsTypeOK ==
  /\ DOMAIN subs \subseteq SubIDs
  /\ subs \in [DOMAIN subs -> Subscription]
  /\ \A i \in DOMAIN subs : subs[i].ID = i
  /\ DOMAIN byTracker \subseteq SubTrackers
  /\ byTracker \in [DOMAIN byTracker -> SUBSET SubIDs]
  /\ byPair \in [DOMAIN byPair -> SubIDs]

(* The three buckets tell the same: no index leads to a deleted entry, for *)
(* which List would fail and with it every later cleaning up, none misses  *)
(* an entry, and a pair is free again once its entry is gone.  The entries *)
(* survive crashes and changes of the configuration, and each index is     *)
(* written by other code than it is cleared by (subscription.go:104-133,   *)
(* 192-219).                                                               *)
IndexConsistent ==
  /\ \A i \in DOMAIN subs :
       /\ subs[i].TrackerName \in DOMAIN byTracker
       /\ i \in byTracker[subs[i].TrackerName]
       /\ PairOf(subs[i]) \in DOMAIN byPair
       /\ byPair[PairOf(subs[i])] = i
  /\ \A t \in DOMAIN byTracker : \A i \in byTracker[t] :
       i \in DOMAIN subs /\ subs[i].TrackerName = t
  /\ \A p \in DOMAIN byPair :
       byPair[p] \in DOMAIN subs /\ PairOf(subs[byPair[p]]) = p
=============================================================================
