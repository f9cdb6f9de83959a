---------------------------- MODULE MCLifecycle ----------------------------
(***************************************************************************)
(* Instances of Lifecycle for TLC: a github tracker and a plugin.          *)
(***************************************************************************)
EXTENDS Lifecycle, TLC

CONSTANTS i1, i2, i3, i4, r1, r2, r3, r4

gh == "gh"
rpc == "rpc"

On(trk, name) == [name |-> name, in |-> trk]

(* Both trackers; github alone, with one trigger or both; the triggers on  *)
(* the other trackers; no trackers; one name for both triggers, of one     *)
(* tracker or of two.  Jobs are attached to the first trigger alone.       *)
Of(T, L) == [trackers |-> T, triggers |-> L, jobs |-> NamesOf(L) \cap {"issues"}]

Both == Of({gh, rpc}, <<On(gh, "issues"), On(rpc, "items")>>)
OnlyGithub == Of({gh}, <<On(gh, "issues")>>)
TwoOnGithub == Of({gh}, <<On(gh, "issues"), On(gh, "items")>>)
Moved == Of({gh, rpc}, <<On(rpc, "issues"), On(gh, "items")>>)
NoTrackers == Of({}, <<>>)
Namesakes == Of({gh, rpc}, <<On(gh, "issues"), On(rpc, "issues")>>)
SameTwice == Of({gh, rpc}, <<On(gh, "issues"), On(gh, "issues")>>)

SteadyConfigs == {TwoOnGithub}
ChangingConfigs ==
  {Both, Moved} \cup {[c EXCEPT !.trackers = {gh, rpc}] : c \in {OnlyGithub, TwoOnGithub}}
    \cup {NoTrackers, Namesakes, SameTwice}
ShrinkingConfigs == {Both, OnlyGithub}

(* A new ID is the first that is not in use.  The program only compares    *)
(* them, so this leaves out nothing but renamings.                         *)
First(S) == CHOOSE x \in S : TRUE
InOrder ==
  /\ \A i \in (DOMAIN subs' \ DOMAIN subs) \cap SubIDs : i = First(SubIDs \ UsedIDs)
  /\ \A h \in hooks' \ hooks : h.ref = First(HookRefs \ UsedRefs)

OrderedSpec == Init /\ [][Next /\ InOrder]_vars

=============================================================================
