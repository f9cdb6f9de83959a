-------------------------- MODULE MCSerialUpdates --------------------------
(***************************************************************************)
(* An instance of SerialUpdates for TLC.  Issues are printed, mirrored by  *)
(* items and updated in turn; the items mirror back, and so do the lines   *)
(* of a tracker whose tasks have no ID, of which there is an update too.   *)
(***************************************************************************)
EXTENDS SerialUpdates, MCUpdates

PrintedFrom == [u \in Updates |->
  CASE u \in {u1, u2} -> Issue(1) [] u = u6 -> Issue(2)
    [] u = u3 -> Item(1) [] u = u4 -> Line]
PrintedTrigger == [u \in Updates |->
  CASE u \in {u1, u2, u6} -> "issues" [] u = u3 -> "items" [] u = u4 -> "lines"]
PrintedOn == MirrorOn @@ ("fromLine" :> "lines")
PrintedBody ==
  ("toItem" :> <<action(log), action(rpc), action(gh)>>) @@ ("toIssue" :> <<action(gh)>>) @@
  ("fromLine" :> <<action(rpc), action(log)>>)
=============================================================================
