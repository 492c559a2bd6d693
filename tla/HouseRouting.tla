---------------------------- MODULE HouseRouting -----------------------------
(***************************************************************************)
(* HouseDispatch with what it leaves open: which lane a turn is queued on, *)
(* whether the workspace is dirty, and which lanes a run falls back to, in *)
(* which order.  The dispatch core shares one mutex and one transaction    *)
(* with the lane registry and the world state cache; credentials and       *)
(* workspace are outside and change when they will.                        *)
(*                                                                         *)
(* Each action below is one of HouseDispatch, with the rest of the house.  *)
(***************************************************************************)
EXTENDS HouseDispatch, Sequences

CONSTANTS
  Engine, Rank,   \* see ProviderLanes
  Paths,          \* see WorldState
  LanePolicies,   \* bound: policies the operator may give a lane
  Credentials,    \* bound: engines that may have credentials at a time
  WorldPolicies,  \* bound: world state policies of the mandalas
  Workspaces      \* bound: states of the workspace

VARIABLES
  lanes,      \* providers
  rows,       \* world_state_nodes, world_state_deltas
  policy,     \* the active memory policy, as far as it is about the world
  saved,      \* the three as the last committed transactions left them
  ready,      \* the engines with credentials on this machine
  workspace,  \* what the file system and git would tell
  route       \* executor -> what it knows of the lanes it may fall back to

INSTANCE ProviderLanes
INSTANCE WorldState

ASSUME RoutingAssumption ==
  /\ Engine \in [Lanes -> Engines] /\ CodexLanes = {l \in Lanes : Engine[l] = "codex"}
  /\ Rank \in [Lanes -> Nat] /\ \A l, k \in Lanes : Rank[l] = Rank[k] => l = k
  /\ LanePolicies \subseteq Policy /\ Credentials \subseteq SUBSET Engines
  /\ WorldPolicies \subseteq WorldPolicy /\ Workspaces \subseteq Worlds
  /\ NoLane \notin Lanes

outside == <<ready, workspace>>
routingVars == <<vars, lanes, rows, policy, saved, ready, workspace, route>>

(* group: of the home lane when the dispatch was selected; read, able: the  *)
(* lanes and engines the list was made of; left: what is left of the list.  *)
NoRoute == [listed |-> FALSE, group |-> NoGroup, read |-> NoLanes, able |-> {}, left |-> {}]

Routes ==
  [listed : BOOLEAN, group : Groups, read : LaneRegistries, able : SUBSET Engines,
   left : SUBSET Lanes]

RoutingInit ==
  /\ Init
  /\ lanes = NoLanes /\ rows = {} /\ policy \in WorldPolicies
  /\ saved = [lanes |-> NoLanes, rows |-> {}, policy |-> policy]
  /\ ready \in Credentials /\ workspace \in Workspaces
  /\ route = [e \in Executors |-> NoRoute]

-----------------------------------------------------------------------------
(* Mutant: the transaction forgets one table. *)
UpsertButLanes ==
  saved' = [saved EXCEPT !.rows = Upserted(@, rows'), !.policy = policy']

(* One transaction saves the dispatch core and the rest, or neither. *)
Upsert == saved' = [lanes |-> lanes', rows |-> Upserted(saved.rows, rows'), policy |-> policy']

SavesAll ==
  \/ Persisted /\ Upsert
  \/ PersistFailed /\ UNCHANGED saved

(* An executor that leaves drops what it knew. *)
RoutesKept ==
  route' = [e \in Executors |-> IF exec'[e] = Idle THEN NoRoute ELSE route[e]]

DispatchStays == UNCHANGED <<house, exec, enabled, launched, told>>

-----------------------------------------------------------------------------
(* The operator.                                                            *)

(* The bootstrap handlers.  A copilot lane gets a new id each time. *)
ConnectLane(l) ==
  /\ Engine[l] = "copilot" => l \notin lanes.connected
  /\ \E p \in Bootstraps(Engine[l]) : lanes' = Connected(lanes, l, p)
  /\ DispatchStays /\ UNCHANGED <<rows, policy, outside, route>>
  /\ SavesAll

UpdateLane(l, p) ==
  /\ l \in lanes.connected
  /\ lanes' = Updated(lanes, l, p)
  /\ DispatchStays /\ UNCHANGED <<rows, policy, outside, route>>
  /\ SavesAll

(* update_mandala_memory_policy, or another mandala becomes active. *)
ChangeWorldPolicy ==
  /\ policy' \in WorldPolicies \ {policy}
  /\ DispatchStays /\ UNCHANGED <<lanes, rows, outside, route>>
  /\ SavesAll

(* context_packet and world_state_status; a chat refreshes without saving.  *)
LookAtWorld ==
  /\ rows' = Refreshed(rows, policy, workspace)
  /\ DispatchStays /\ UNCHANGED <<lanes, policy, outside, route>>
  /\ SavesAll \/ UNCHANGED <<disk, saved>>

SaveAll ==
  /\ DispatchStays /\ UNCHANGED <<lanes, rows, policy, outside, route>>
  /\ Persisted /\ Upsert

(* create_turn *)
QueueOnDefaultLane ==
  /\ CreateTurn
  /\ \A d \in Dispatches : Fresh(d) => IsDefault(lanes, lane'[d])
  /\ UNCHANGED <<lanes, rows, policy, outside, route>>
  /\ SavesAll

WithoutAdapter ==
  /\ ExecuteLatest \/ \E d \in Dispatches : GrantApproval(d) \/ DenyApproval(d)
  /\ UNCHANGED <<lanes, rows, policy, outside, route>>
  /\ SavesAll

SwitchAutonomy == SetAutonomy /\ UNCHANGED <<lanes, rows, policy, saved, outside, route>>

-----------------------------------------------------------------------------
(* The executors.                                                           *)

Selected(d) == [NoRoute EXCEPT !.group = lanes.policy[lane[d]].group]

(* First section: the lane of the dispatch and the workspace are read; the  *)
(* lane is there (LanesAreThere), so the error for one that is not is left  *)
(* out.                                                                     *)
SelectOnLane(e, d) ==
  LET read  == Refreshed(rows, policy, workspace)
      dirty == Slice(read, policy).dirty
  IN
  /\ rows' = read
  /\ \/ RequestApproval(e, d, dirty) /\ UNCHANGED route
     \/ /\ StartRun(e, d, dirty, Lanes \ {lane[d]})
        /\ route' = IF exec'[e] = Idle THEN route ELSE [route EXCEPT ![e] = Selected(d)]
  /\ UNCHANGED <<lanes, policy, outside>>
  /\ SavesAll

(* Second section: the other lanes, as they are by now. *)
ListFallbacks(e) ==
  /\ At(e, "attempt") /\ ~route[e].listed
  /\ route' = [route EXCEPT ![e] =
       [listed |-> TRUE, group |-> @.group, read |-> lanes, able |-> ready,
        left |-> Fallbacks(lanes, exec[e].home, @.group, ready)]]
  /\ UNCHANGED <<vars, lanes, rows, policy, saved, outside>>

LaneAnswers(e) ==
  /\ route[e].listed
  /\ AttemptSucceeds(e)
  /\ UNCHANGED <<lanes, rows, policy, outside>> /\ RoutesKept
  /\ IF exec[e].at = exec[e].home THEN UNCHANGED saved ELSE SavesAll

(* The next of the list is asked, if the error allows it and there is one.  *)
LaneFails(e) ==
  LET r == route[e] IN
  /\ r.listed
  /\ AttemptFails(e)
  /\ IF exec'[e].pc = "attempt"
     THEN /\ IsNext(r.read, exec[e].home, r.left, exec'[e].at)
          /\ route' = [route EXCEPT ![e].left = @ \ {exec'[e].at}]
     ELSE RoutesKept
  /\ UNCHANGED <<lanes, rows, policy, outside>>
  /\ SavesAll

Close(e) ==
  /\ CloseFailed(e) \/ CloseCompleted(e) \/ CloseWithFollowUp(e)
  /\ UNCHANGED <<lanes, rows, policy, outside>> /\ RoutesKept
  /\ SavesAll

Lose(e) ==
  /\ ExecutorLost(e)
  /\ RoutesKept
  /\ UNCHANGED <<lanes, rows, policy, saved, outside>>

-----------------------------------------------------------------------------
(* What is outside the house changes, and the house starts again.           *)

CredentialsChange ==
  /\ ready' \in Credentials \ {ready}
  /\ UNCHANGED <<vars, lanes, rows, policy, saved, workspace, route>>

WorkspaceChanges ==
  /\ workspace' \in Workspaces \ {workspace}
  /\ UNCHANGED <<vars, lanes, rows, policy, saved, ready, route>>

Restart ==
  /\ CrashAndRestart
  /\ lanes' = saved.lanes /\ rows' = saved.rows /\ policy' = saved.policy
  /\ RoutesKept
  /\ UNCHANGED <<saved, outside>>

RoutingNext ==
  \/ \E l \in Lanes : ConnectLane(l) \/ \E p \in LanePolicies : UpdateLane(l, p)
  \/ ChangeWorldPolicy \/ LookAtWorld \/ SaveAll
  \/ QueueOnDefaultLane \/ WithoutAdapter \/ SwitchAutonomy
  \/ \E e \in Executors :
       \/ \E d \in Dispatches : SelectOnLane(e, d)
       \/ ListFallbacks(e) \/ LaneAnswers(e) \/ LaneFails(e) \/ Close(e) \/ Lose(e)
  \/ CredentialsChange \/ WorkspaceChanges \/ Restart

RoutingSpec == RoutingInit /\ [][RoutingNext]_routingVars

-----------------------------------------------------------------------------
(* Properties.                                                              *)

(* connected_at orders the connected lanes, each pair one way. *)
Ordered(reg) ==
  \A l, k \in reg.connected : l # k => (<<l, k>> \in reg.older <=> <<k, l>> \notin reg.older)

(* Every variable stays in its domain, and no two connected lanes tie when  *)
(* candidates are sorted.                                                   *)
RoutingTypeOK ==
  /\ TypeOK
  /\ lanes \in LaneRegistries /\ rows \subseteq Rows /\ policy \in WorldPolicy
  /\ saved \in [lanes : LaneRegistries, rows : SUBSET Rows, policy : WorldPolicy]
  /\ ready \in Credentials /\ workspace \in Workspaces
  /\ route \in [Executors -> Routes]
  /\ Ordered(lanes) /\ Ordered(saved.lanes)

(* The gate of a default-engine dispatch opens on the workspace as it is    *)
(* when the dispatch is selected: no row of a file that is gone, of another *)
(* scope or from before a restart closes it, no limit, stale cache or       *)
(* change of policy opens it on a changed workspace.                        *)
GateSeesWorkspace ==
  [][\A d \in Dispatches :
       status[d] = "queued" /\ approval[d] = "none" /\ lane[d] \in CodexLanes =>
         /\ status'[d] = "running" => (policy.allow => workspace.changed = << >>)
         /\ status'[d] = "awaiting_approval" => policy.allow /\ workspace.changed # << >>
    ]_routingVars

(* A dispatch is on a lane the registry has, in memory and on disk, through *)
(* failed transactions and crashes; else "provider lane metadata missing"   *)
(* would leave it running.  While it runs that is the lane it was selected  *)
(* on, and once it is answered the one that answered.                       *)
LanesAreThere ==
  /\ \A d \in Dispatches : status[d] # "none" => lane[d] \in lanes.connected
  /\ \A d \in Dispatches : disk.status[d] # "none" => disk.lane[d] \in saved.lanes.connected
  /\ \A e \in Executors : Busy(e) =>
       lane[exec[e].job] = IF At(e, "answered") THEN exec[e].at ELSE exec[e].home

(* However lanes and credentials change meanwhile, a run asks no lane twice *)
(* and never its home again, none without credentials when the list was     *)
(* made, one outside the home's group only if the group had none, and one   *)
(* of lower priority only after those of higher priority of its engine.     *)
RoutesAreSound ==
  \A e \in Executors : route[e].listed =>
    LET r == route[e]
        x == exec[e]
        asked == IF x.at = x.home THEN {} ELSE {x.at}
        inGroup(l) == r.group # NoGroup /\ r.read.policy[l].group = r.group
    IN
    /\ x.home \notin r.left /\ x.at \notin r.left
    /\ \A l \in r.left \cup asked :
         /\ l \in r.read.connected /\ Engine[l] \in r.able
         /\ \A k \in r.read.connected \ {x.home} :
              Engine[k] \in r.able /\ inGroup(k) => inGroup(l)
    /\ \A l \in asked, k \in r.left :
         Engine[l] = Engine[k] => r.read.policy[l].priority >= r.read.policy[k].priority

=============================================================================
