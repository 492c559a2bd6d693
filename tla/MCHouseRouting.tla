--------------------------- MODULE MCHouseRouting ----------------------------
(* Instances of HouseRouting for TLC.                                       *)
EXTENDS HouseRouting

CONSTANTS s1, w1, auto

MCLanes   == {"claude", "codex", "pilot"}
MCEngine  == [claude |-> "anthropic", codex |-> "codex", pilot |-> "copilot"]
MCRank    == [pilot |-> 1, claude |-> 2, codex |-> 3]
MCModes   == [claude |-> "secondary", codex |-> "primary", pilot |-> "primary"]
MCCodex   == {"codex"}
MCSessions == {s1}
MCWorkers == {w1}
NoWorkers == {}

MCLanePolicies ==
  {[mode |-> "secondary", group |-> "core", priority |-> 90],
   [mode |-> "primary", group |-> NoGroup, priority |-> 10]}

MCPaths == {"a", "b"}
MCWorldPolicies ==
  {[scope |-> "workspace", allow |-> TRUE, limit |-> 0],
   [scope |-> "process", allow |-> TRUE, limit |-> 2],
   [scope |-> "workspace", allow |-> FALSE, limit |-> 2]}
MCCredentials == {Engines, {"copilot"}}
MCWorkspaces ==
  {[entries |-> {"a"}, changed |-> << >>], [entries |-> {"b"}, changed |-> <<"a", "b">>]}

(* Bounds.  Either lanes and credentials change and the workspace and its   *)
(* rows stay as they are, or the workspace and the policies change, and     *)
(* there is one lane.                                                       *)
Quiet == [entries |-> {"a"}, changed |-> << >>]
Plain == [scope |-> "workspace", allow |-> TRUE, limit |-> 0]

Given ==
  {l \in lanes.connected : lanes.policy[l].mode # MCModes[l] \/ lanes.policy[l] \notin Bootstraps(Engine[l])}
AboutLanes ==
  /\ workspace = Quiet /\ policy = Plain /\ saved.rows \subseteq Nodes(Plain, Quiet)
  /\ \A l, k \in Given : l = k
  /\ rows = saved.rows /\ (Given = {} \/ (saved.lanes = lanes /\ disk = House))
  /\ \A e \in Executors :
       /\ Busy(e) => saved.lanes = lanes
       /\ route[e].listed => lanes = route[e].read
AboutWorld ==
  /\ lanes.connected \subseteq {"codex"} /\ Given = {} /\ ready = {"copilot"}

(* A second dispatch follows up on the first with three lanes, connected in *)
(* one order, and all is saved. *)
Second == status[2] # "none"
Settle ==
  /\ status[1] = "completed"
  /\ lanes.older = {<<"codex", "claude">>, <<"codex", "pilot">>, <<"claude", "pilot">>}
  /\ Given = {} /\ saved.lanes = lanes /\ disk = House /\ rows = saved.rows

RoutingBound == enabled /\ ((AboutLanes /\ (Second => Settle)) \/ (AboutWorld /\ ~Second))

==============================================================================
