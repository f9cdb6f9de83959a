--------------------------- MODULE SerialUpdates ---------------------------
(***************************************************************************)
(* Updates that arrive one after the other, for which the program keeps    *)
(* one record of every issue.  What it takes beyond that is written down   *)
(* here: sequences have no ifs, whose tickets the enclosing sequence does  *)
(* not read again; no two jobs share a trigger, since they would run at    *)
(* once; no plugin's call is answered without being made; and a tracker    *)
(* that answers with empty tasks has none.                                 *)
(***************************************************************************)
EXTENDS Updates

ASSUME SerialAssumption ==
  /\ \A b \in Blocks : \A k \in DOMAIN Body[b] : Body[b][k].do = "action"
  /\ \A u \in Updates : \A i, j \in Subscribed(u) : i = j
  /\ "skip" \notin Faults
  /\ \A l \in InitialTasks : l.Tracker \notin Silent

SerialSpec == Init /\ [][Next /\ Serial']_vars
=============================================================================
