----------------------------- MODULE MCUpdates -----------------------------
(***************************************************************************)
(* Instances of Updates for TLC.  A scenario gives the updates that may    *)
(* arrive and the configured jobs; gh is a github tracker, rpc a plugin    *)
(* that answers with the task, log one that answers with an empty task.    *)
(***************************************************************************)
EXTENDS Updates

CONSTANTS u1, u2, u3, u4, u5, u6, MaxTickets, MaxTasks

gh == <<"gh">>
rpc == <<"rpc">>
log == <<"log">>
MCSep == <<"!!">>

(* IDs in unary: the empty one, <<"1">>, <<"1", "1">> and so on.           *)
Nth(n) == [i \in 1..n |-> "1"]
MCTaskIDs == {Nth(n) : n \in 0..MaxTasks}
MCTicketIDs == {Nth(n) : n \in 1..MaxTickets}

Issue(n) == [Tracker |-> gh, ID |-> Nth(n)]
Item(n) == [Tracker |-> rpc, ID |-> Nth(n)]
Line == [Tracker |-> log, ID |-> NoID]

(* New IDs are handed out in order.  The program only compares them, so    *)
(* this leaves out nothing but renamings.                                  *)
InOrder ==
  /\ \A i \in DOMAIN tickets : Len(i) > 1 => Tail(i) \in DOMAIN tickets
  /\ \A l \in DOMAIN tasks :
       Len(l.ID) > 1 => [l EXCEPT !.ID = Tail(@)] \in DOMAIN tasks

TwoTrackers == {gh, rpc}
ThreeTrackers == {gh, rpc, log}
OneIssue == {Issue(1)}
TwoIssues == {Issue(1), Issue(2)}

action(t) == [do |-> "action", tracker |-> t]
if(b) == [do |-> "if", then |-> b]

(* Issues are mirrored by items and items by issues: two updates of the    *)
(* first issue and one of the second, and as many of the items made for    *)
(* them, which arrive whenever their task exists.                          *)
MirrorFrom == [u \in Updates |->
  CASE u \in {u1, u2} -> Issue(1) [] u = u5 -> Issue(2)
    [] u \in {u3, u4} -> Item(1)  [] u = u6 -> Item(2)]
MirrorTrigger ==
  [u \in Updates |-> IF u \in {u1, u2, u5} THEN "issues" ELSE "items"]
MirrorOn == ("toItem" :> "issues") @@ ("toIssue" :> "items")
MirrorBody == ("toItem" :> <<action(rpc), action(gh)>>) @@ ("toIssue" :> <<action(gh)>>)

(* Overlapping updates: two of one issue, printed and mirrored; one of the *)
(* item, mirrored back; one of a tracker whose tasks have no ID, mirrored  *)
(* under a condition.                                                      *)
MixedFrom == [u \in Updates |->
  CASE u \in {u1, u2} -> Issue(1) [] u = u3 -> Item(1) [] u = u4 -> Line]
MixedTrigger == [u \in Updates |->
  CASE u \in {u1, u2} -> "issues" [] u = u3 -> "items" [] u = u4 -> "lines"]
MixedOn == ("toItem" :> "issues") @@ ("toIssue" :> "items") @@ ("fromLine" :> "lines")
MixedBody ==
  ("toItem" :> <<action(log), action(rpc)>>) @@ ("toIssue" :> <<action(gh)>>) @@
  ("fromLine" :> <<if("create")>>) @@ ("create" :> <<action(rpc)>>)

Symmetry == Permutations({u1, u2})

JustLog == {log}
JustRpc == {rpc}

(* Two jobs on one trigger, and a job that creates the item under an if,   *)
(* as the configuration of README.md:65-77 does.                           *)
PairOn == ("toItem" :> "issues") @@ ("toIssue" :> "issues")
NestedOn == ("toItem" :> "issues")
NestedBody == ("toItem" :> <<if("create")>>) @@ ("create" :> <<action(rpc)>>)

(* One update at a time: what is left of the interleavings are those of    *)
(* the faults.                                                             *)
InOrderSerialSpec == Init /\ [][Next /\ InOrder' /\ Serial']_vars

OverlappingSpec == Init /\ [][Next /\ InOrder']_vars

LiveSpec == OverlappingSpec /\ Fairness
=============================================================================
