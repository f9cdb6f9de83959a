----------------------------- MODULE IssueLinks -----------------------------
(***************************************************************************)
(* What the program promises of its links, whatever goes wrong: a task     *)
(* that appears is of one issue, and is not linked yet; a step relinks the *)
(* tasks of one issue, among themselves only, and what is known of every   *)
(* other issue stays as it is.                                             *)
(***************************************************************************)
CONSTANTS Tasks,  \* tasks that may exist in the trackers
          Issues  \* what a task may stand for

VARIABLES exists,  \* task -> the issue it stands for
          view     \* task -> the tasks a lookup of it leads to

Of(issue) == {t \in DOMAIN exists : exists[t] = issue}

Init ==
  /\ DOMAIN exists \subseteq Tasks
  /\ exists \in [DOMAIN exists -> Issues]
  /\ view = [t \in DOMAIN exists |-> {}]

Appear(issue) ==
  \E t \in Tasks \ DOMAIN exists :
    /\ exists' = [x \in DOMAIN exists \cup {t} |->
                    IF x = t THEN issue ELSE exists[x]]
    /\ view' = [x \in DOMAIN exists \cup {t} |->
                  IF x = t THEN {} ELSE view[x]]

Relink(issue) ==
  /\ exists' = exists
  /\ view' \in [DOMAIN exists -> SUBSET DOMAIN exists]
  /\ \A x \in DOMAIN exists :
       IF x \in Of(issue) THEN view'[x] \subseteq Of(issue) ELSE view'[x] = view[x]

Next ==
  \/ \E issue \in Issues : Relink(issue)
  \/ \E issue \in Issues : Appear(issue)

Spec == Init /\ [][Next]_<<exists, view>>
=============================================================================
