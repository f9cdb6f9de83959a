-------------------------- MODULE MCWebhookServer --------------------------
(***************************************************************************)
(* Instances of WebhookServer for TLC: a github tracker and a plugin.      *)
(***************************************************************************)
EXTENDS WebhookServer, MCLifecycle

(* One trigger, which moves between the trackers when the plugin comes or  *)
(* goes, or one on each of them.                                           *)
ViaPlugin == Of({gh, rpc}, <<On(rpc, "issues")>>)
MovingConfigs == {OnlyGithub, ViaPlugin}
ServerConfigs == {OnlyGithub, ViaPlugin, Both}

(* A second life is one whose trigger has moved or stayed.                 *)
Lives == starts' = 2 /\ starts = 1 => {config, config'} \subseteq MovingConfigs

(* The environment that Terminates asks for.                               *)
PluginsAnswer ==
  /\ \A t \in Places : WF_vars(Register(t))
  /\ WF_vars(\E x \in unreg : Unregister(x))

LiveServerSpec ==
  /\ ServerInit /\ [][ServerNext /\ InOrder /\ Lives]_serverVars
  /\ ServerFairness /\ PluginsAnswer
=============================================================================
