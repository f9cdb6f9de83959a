------------------------------ MODULE MCFlow ------------------------------
(***************************************************************************)
(* Small configuration files for TLC.                                      *)
(***************************************************************************)
EXTENDS Flow

Trk(n, d) == [name |-> n, driver |-> d]
Trg(n, t) == [name |-> n, in |-> t]
On(t, b) == [on |-> t, do |-> b]
Act(name) == [if |-> FALSE, action |-> name, then |-> "body"]
If(name) == [if |-> TRUE, action |-> name, then |-> "body"]

(* One tracker; two; two of one name; a name with a slash in it; a driver  *)
(* that is not known.                                                      *)
SomeTrackers ==
  {<<Trk("gh", "github")>>, <<Trk("gh", "github"), Trk("rpc", "rpc")>>,
   <<Trk("gh", "github"), Trk("gh", "rpc")>>, <<Trk("gh/rpc", "rpc")>>,
   <<Trk("gh", "jira")>>}
SomeTriggers == {<<>>, <<Trg("t", "gh")>>, <<Trg("t", "gh"), Trg("u", "rpc")>>}

Good == Act(<<"gh", "call">>)
(* Names of actions, and a step that has both a condition and an action.   *)
SomeActions ==
  {<<"">>, <<"gh">>, <<"gh", "">>, <<"", "call">>, <<"gh", "rpc", "call">>,
   <<"rpc", "call">>}
SomeSteps == {Good} \cup {Act(a) : a \in SomeActions}
Ifs == {If(<<"">>), If(<<"rpc", "call">>)}
Bodies == {<<>>} \cup {<<s>> : s \in SomeSteps} \cup {<<Good, s>> : s \in SomeSteps}
Flat == Bodies \cup {<<s, Good>> : s \in SomeSteps}
Nested == {<<i>> \o r : i \in Ifs, r \in {<<>>, <<Act(<<"rpc", "call">>)>>}}
            \cup {<<Good, i>> : i \in Ifs} \cup {<<i, i>> : i \in Ifs}

(* No job; one; two on one trigger or on two; one in an if.                *)
NoBody == [b \in {} |-> <<>>]
Jobless == {<<<<>>, NoBody>>}
OneJob == {<<<<On("t", "j1")>>, [b \in {"j1"} |-> f]>> : f \in Flat}
TwoJobs ==
  {<<<<On(t, "j1"), On(u, "j2")>>, [b \in {"j1", "j2"} |-> IF b = "j1" THEN <<Good>> ELSE f]>> :
     t \in {"t", "u"}, u \in {"t", "u"}, f \in Flat}
InIf ==
  {<<<<On("t", "j1")>>, [b \in {"j1", "body"} |-> IF b = "j1" THEN n ELSE f]>> :
     n \in Nested, f \in Bodies}

SomeDocuments ==
  {[trackers |-> k, triggers |-> g, jobs |-> jb[1], body |-> jb[2]] :
     k \in SomeTrackers, g \in SomeTriggers, jb \in Jobless \cup OneJob \cup TwoJobs \cup InIf}
=============================================================================
