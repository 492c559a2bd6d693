------------------------- MODULE HouseRoutingProofs --------------------------
(***************************************************************************)
(* The composition of the dispatch core with lanes and world state is a    *)
(* dispatch core, so what was proved of HouseDispatch holds of it; the     *)
(* gate sees the workspace as it is; and falling back is sound and always  *)
(* decided.  For every set of lanes, executors, policies and workspaces,   *)
(* and every choice of faults.                                             *)
(***************************************************************************)
EXTENDS HouseRouting, DispatchLedgerProofs

-----------------------------------------------------------------------------
(* Every step is one of the dispatch core, or leaves it as it is.           *)

LEMMA DispatchSavedOrNot ==
  ASSUME DispatchStays, SavesAll \/ UNCHANGED <<disk, saved>>
  PROVE  [Next]_vars
<1>1. House' = House
  BY DEF DispatchStays, house, House
<1>2. disk' = House \/ disk' = disk
  BY <1>1 DEF SavesAll, Persisted, PersistFailed
<1>3. CASE disk' = disk
  BY <1>3 DEF DispatchStays, house, vars
<1>4. CASE disk' = House /\ disk # House
  BY <1>4 DEF DispatchStays, OtherHandlerSaves, Next
<1> QED
  BY <1>2, <1>3, <1>4

LEMMA RoutingStep == [RoutingNext]_routingVars => [Next]_vars
<1> SUFFICES ASSUME [RoutingNext]_routingVars PROVE [Next]_vars
  OBVIOUS
<1>1. CASE \E l \in Lanes : ConnectLane(l) \/ \E p \in LanePolicies : UpdateLane(l, p)
  BY <1>1, DispatchSavedOrNot DEF ConnectLane, UpdateLane
<1>2. CASE ChangeWorldPolicy \/ LookAtWorld
  BY <1>2, DispatchSavedOrNot DEF ChangeWorldPolicy, LookAtWorld
<1>3. CASE SaveAll
  BY <1>3, DispatchSavedOrNot DEF SaveAll, SavesAll
<1>4. CASE QueueOnDefaultLane \/ WithoutAdapter \/ SwitchAutonomy
  BY <1>4 DEF QueueOnDefaultLane, WithoutAdapter, SwitchAutonomy, Next
<1>5. ASSUME NEW e \in Executors, NEW d \in Dispatches, SelectOnLane(e, d)
      PROVE  [Next]_vars
  <2> DEFINE dirty == Slice(Refreshed(rows, policy, workspace), policy).dirty
  <2>1. dirty \in BOOLEAN
    BY DEF Slice
  <2>2. RequestApproval(e, d, dirty) \/ StartRun(e, d, dirty, Lanes \ {lane[d]})
    BY <1>5 DEF SelectOnLane
  <2>3. SelectAndRun(e)
    BY <2>1, <2>2 DEF SelectAndRun
  <2> QED
    BY <2>3 DEF Next
<1>6. ASSUME NEW e \in Executors, ListFallbacks(e) PROVE [Next]_vars
  BY <1>6 DEF ListFallbacks
<1>7. ASSUME NEW e \in Executors, LaneAnswers(e) \/ LaneFails(e) \/ Close(e) \/ Lose(e)
      PROVE  [Next]_vars
  BY <1>7 DEF LaneAnswers, LaneFails, Close, Lose, Step, Next
<1>8. CASE CredentialsChange \/ WorkspaceChanges
  BY <1>8 DEF CredentialsChange, WorkspaceChanges
<1>9. CASE Restart
  BY <1>9 DEF Restart, Next
<1>10. CASE UNCHANGED routingVars
  BY <1>10 DEF routingVars
<1> QED
  BY <1>1, <1>2, <1>3, <1>4, <1>5, <1>6, <1>7, <1>8, <1>9, <1>10 DEF RoutingNext

(* The composition implements HouseDispatch: its gate and its fallbacks are *)
(* among those that module allows, and no step does anything else to it.    *)
THEOREM RoutingIsDispatch == RoutingSpec => Spec
<1>1. RoutingInit => Init
  BY DEF RoutingInit
<1> QED
  BY <1>1, RoutingStep, PTL DEF RoutingSpec, Spec

(* So no lane of another engine works unapproved in the composition either. *)
THEOREM RoutingGate == RoutingSpec => []EngineGate
BY RoutingIsDispatch, GateHolds, PTL

-----------------------------------------------------------------------------
(* The gate.                                                                *)

(* After a refresh a slice is dirty just when the policy lets it look and   *)
(* git tells of a change, whatever rows there were.                         *)
LEMMA SliceIsTrue ==
  ASSUME NEW rs, NEW p \in WorldPolicy, NEW w \in Worlds
  PROVE  Slice(Refreshed(rs, p, w), p).dirty <=> (p.allow /\ w.changed # << >>)
<1>1. CASE ~p.allow
  BY <1>1 DEF Slice
<1>2. CASE p.allow
  <2> DEFINE fresh == Nodes(p, w) \cup Deltas(p, w)
  <2>1. Refreshed(rs, p, w) = {r \in rs : r.scope # p.scope} \cup fresh
    BY <1>2 DEF Refreshed, ReplaceScope
  <2>2. \A r \in Nodes(p, w) : r.table = "node"
    BY DEF Nodes, Row
  <2>3. \A r \in Deltas(p, w) : r.table = "delta" /\ r.scope = p.scope
    BY DEF Deltas, Row
  <2>4. Slice(Refreshed(rs, p, w), p).dirty <=> Deltas(p, w) # {}
    BY <1>2, <2>1, <2>2, <2>3 DEF Slice, InScope
  <2>5. Deltas(p, w) # {} <=> \E j \in DOMAIN w.changed : j <= AtLeastOne(p.limit)
    BY DEF Deltas
  <2>6. p.limit \in Nat /\ w.changed \in Seq(Paths)
    BY DEF WorldPolicy, Worlds
  <2>7. AtLeastOne(p.limit) \in Nat /\ 1 <= AtLeastOne(p.limit)
    BY <2>6 DEF AtLeastOne
  <2>8. DOMAIN w.changed = 1 .. Len(w.changed) /\ Len(w.changed) \in Nat
    BY <2>6
  <2>9. CASE w.changed = << >>
    <3>1. Len(w.changed) = 0
      BY <2>9
    <3> QED
      BY <3>1, <1>2, <2>4, <2>5, <2>8, <2>9
  <2>10. CASE w.changed # << >>
    <3>1. Len(w.changed) # 0
      BY <2>10, <2>6
    <3>2. 1 \in DOMAIN w.changed
      BY <3>1, <2>8
    <3> QED
      BY <3>2, <1>2, <2>4, <2>5, <2>7, <2>10
  <2> QED
    BY <2>9, <2>10
<1> QED
  BY <1>1, <1>2

-----------------------------------------------------------------------------
(* Types.                                                                   *)

GoodRegistry(reg) == reg \in LaneRegistries /\ Ordered(reg)

LEMMA NoLanesGood == GoodRegistry(NoLanes)
BY DEF GoodRegistry, NoLanes, LaneRegistries, Ordered, Unset, Policy, Modes, Groups, NoGroup

LEMMA BootstrapTyped ==
  ASSUME NEW engine \in Engines, NEW p \in Bootstraps(engine)
  PROVE  p \in Policy
<1>1. CASE engine = "codex"
  BY <1>1 DEF Bootstraps, Policy, Modes, Groups
<1>2. CASE engine = "anthropic"
  BY <1>2 DEF Bootstraps, Policy, Modes, Groups
<1>3. CASE engine = "copilot"
  <2>1. PICK m \in Modes : p = [mode |-> m, group |-> "default", priority |-> 10]
    BY <1>3 DEF Bootstraps
  <2> QED
    BY <2>1 DEF Policy, Groups
<1> QED
  BY <1>1, <1>2, <1>3 DEF Engines

(* Connecting a lane, again or for the first time, leaves one order.        *)
LEMMA ConnectGood ==
  ASSUME NEW reg, GoodRegistry(reg), NEW l \in Lanes, NEW p \in Policy
  PROVE  GoodRegistry(Connected(reg, l, p))
<1> DEFINE new == Connected(reg, l, p)
<1>1. /\ reg.connected \subseteq Lanes /\ reg.policy \in [Lanes -> Policy]
      /\ reg.older \subseteq Lanes \X Lanes
  BY DEF GoodRegistry, LaneRegistries
<1>2. /\ new.connected = reg.connected \cup {l}
      /\ new.policy = [reg.policy EXCEPT ![l] = p]
      /\ new.older = {q \in reg.older : l \notin {q[1], q[2]}} \cup ((reg.connected \ {l}) \X {l})
  BY DEF Connected
<1>3. new.older \subseteq Lanes \X Lanes
  BY <1>1, <1>2
<1>4. new \in LaneRegistries
  BY <1>1, <1>2, <1>3 DEF Connected, LaneRegistries
<1>5. ASSUME NEW a \in new.connected, NEW b \in new.connected, a # b
      PROVE  <<a, b>> \in new.older <=> <<b, a>> \notin new.older
  <2>1. CASE a = l
    <3>1. <<b, a>> \in new.older
      BY <2>1, <1>2, <1>5
    <3>2. <<a, b>> \notin new.older
      BY <2>1, <1>2, <1>5
    <3> QED
      BY <3>1, <3>2
  <2>2. CASE b = l
    <3>1. <<a, b>> \in new.older
      BY <2>2, <1>2, <1>5
    <3>2. <<b, a>> \notin new.older
      BY <2>2, <1>2, <1>5
    <3> QED
      BY <3>1, <3>2
  <2>3. CASE a # l /\ b # l
    <3>1. a \in reg.connected /\ b \in reg.connected
      BY <2>3, <1>2
    <3>2. <<a, b>> \in new.older <=> <<a, b>> \in reg.older
      BY <2>3, <1>2
    <3>3. <<b, a>> \in new.older <=> <<b, a>> \in reg.older
      BY <2>3, <1>2
    <3> QED
      BY <3>1, <3>2, <3>3, <1>5 DEF GoodRegistry, Ordered
  <2> QED
    BY <2>1, <2>2, <2>3
<1> QED
  BY <1>4, <1>5 DEF GoodRegistry, Ordered

LEMMA UpdateGood ==
  ASSUME NEW reg, GoodRegistry(reg), NEW l \in Lanes, NEW p \in Policy
  PROVE  GoodRegistry(Updated(reg, l, p))
BY DEF GoodRegistry, Updated, LaneRegistries, Ordered

LEMMA RefreshTyped ==
  ASSUME NEW rs \in SUBSET Rows, NEW p \in WorldPolicy, NEW w \in Worlds
  PROVE  Refreshed(rs, p, w) \in SUBSET Rows
<1>1. Nodes(p, w) \subseteq Rows
  BY DEF Nodes, Row, Rows, WorldPolicy, Worlds, Scopes
<1>2. ASSUME NEW i \in DOMAIN w.changed PROVE w.changed[i] \in Paths
  BY DEF Worlds
<1>3. Deltas(p, w) \subseteq Rows
  BY <1>2 DEF Deltas, Row, Rows, WorldPolicy
<1> QED
  BY <1>1, <1>3 DEF Refreshed, ReplaceScope

LEMMA FallbacksTyped ==
  ASSUME NEW reg \in LaneRegistries, NEW home, NEW group, NEW able
  PROVE  Fallbacks(reg, home, group, able) \subseteq Lanes
BY DEF Fallbacks, Kin, Candidates, LaneRegistries

WorldTypeOK ==
  /\ GoodRegistry(lanes) /\ rows \in SUBSET Rows /\ policy \in WorldPolicies
  /\ saved \in [lanes : LaneRegistries, rows : SUBSET Rows, policy : WorldPolicies]
  /\ Ordered(saved.lanes)
  /\ ready \in Credentials /\ workspace \in Workspaces

(* What a transaction writes is of the types of what it is taken from.      *)
LEMMA SavedTyped ==
  ASSUME WorldTypeOK, SavesAll \/ UNCHANGED saved,
         GoodRegistry(lanes)', rows' \in SUBSET Rows, policy' \in WorldPolicies
  PROVE  /\ saved' \in [lanes : LaneRegistries, rows : SUBSET Rows, policy : WorldPolicies]
         /\ Ordered(saved.lanes)'
<1>1. CASE Upsert
  <2>1. saved.rows \in SUBSET Rows
    BY DEF WorldTypeOK
  <2> QED
    BY <1>1, <2>1 DEF Upsert, Upserted, GoodRegistry
<1>2. CASE UNCHANGED saved
  BY <1>2 DEF WorldTypeOK
<1> QED
  BY <1>1, <1>2 DEF SavesAll

LEMMA WorldTypeInit == RoutingInit => WorldTypeOK
BY NoLanesGood DEF RoutingInit, WorldTypeOK, GoodRegistry

LEMMA WorldTypeNext == WorldTypeOK /\ [RoutingNext]_routingVars => WorldTypeOK'
<1> SUFFICES ASSUME WorldTypeOK, [RoutingNext]_routingVars PROVE WorldTypeOK'
  OBVIOUS
<1> USE DEF outside
<1>0. /\ GoodRegistry(lanes) /\ rows \in SUBSET Rows /\ policy \in WorldPolicy
      /\ workspace \in Worlds /\ policy \in WorldPolicies
  BY RoutingAssumption DEF WorldTypeOK
<1>1. ASSUME SavesAll \/ UNCHANGED saved, UNCHANGED outside,
             GoodRegistry(lanes)', rows' \in SUBSET Rows, policy' \in WorldPolicies
      PROVE  WorldTypeOK'
  BY <1>1, SavedTyped DEF WorldTypeOK
<1>2. ASSUME NEW l \in Lanes, ConnectLane(l) PROVE WorldTypeOK'
  <2>1. PICK p \in Bootstraps(Engine[l]) : lanes' = Connected(lanes, l, p)
    BY <1>2 DEF ConnectLane
  <2>2. p \in Policy
    BY RoutingAssumption, BootstrapTyped
  <2>3. GoodRegistry(lanes')
    BY <1>0, <2>1, <2>2, ConnectGood
  <2>4. GoodRegistry(lanes)'
    BY <2>3 DEF GoodRegistry, Ordered
  <2> QED
    BY <1>0, <1>1, <1>2, <2>4 DEF ConnectLane
<1>3. ASSUME NEW l \in Lanes, NEW p \in LanePolicies, UpdateLane(l, p) PROVE WorldTypeOK'
  <2>1. GoodRegistry(lanes')
    BY <1>0, <1>3, UpdateGood, RoutingAssumption DEF UpdateLane
  <2>2. GoodRegistry(lanes)'
    BY <2>1 DEF GoodRegistry, Ordered
  <2> QED
    BY <1>0, <1>1, <1>3, <2>2 DEF UpdateLane
<1>4. CASE ChangeWorldPolicy
  BY <1>0, <1>1, <1>4 DEF ChangeWorldPolicy, GoodRegistry, Ordered
<1>5. CASE LookAtWorld
  BY <1>0, <1>1, <1>5, RefreshTyped DEF LookAtWorld, GoodRegistry, Ordered
<1>6. CASE UNCHANGED <<lanes, rows, policy, outside>> /\ (SavesAll \/ UNCHANGED saved)
  BY <1>0, <1>1, <1>6 DEF GoodRegistry, Ordered
<1>7. CASE SaveAll
  BY <1>6, <1>7 DEF SaveAll, SavesAll
<1>8. CASE QueueOnDefaultLane \/ WithoutAdapter \/ SwitchAutonomy
  BY <1>6, <1>8 DEF QueueOnDefaultLane, WithoutAdapter, SwitchAutonomy
<1>9. ASSUME NEW e \in Executors, NEW d \in Dispatches, SelectOnLane(e, d) PROVE WorldTypeOK'
  <2>1. rows' \in SUBSET Rows
    BY <1>0, <1>9, RefreshTyped DEF SelectOnLane
  <2> QED
    BY <1>0, <1>1, <1>9, <2>1 DEF SelectOnLane, GoodRegistry, Ordered
<1>10. ASSUME NEW e \in Executors, ListFallbacks(e) \/ LaneAnswers(e) \/ LaneFails(e) \/ Close(e) \/ Lose(e)
       PROVE WorldTypeOK'
  BY <1>6, <1>10 DEF ListFallbacks, LaneAnswers, LaneFails, Close, Lose
<1>11. CASE CredentialsChange \/ WorkspaceChanges
  BY <1>11 DEF CredentialsChange, WorkspaceChanges, WorldTypeOK, GoodRegistry, Ordered
<1>12. CASE Restart
  BY <1>12 DEF Restart, WorldTypeOK, GoodRegistry, Ordered
<1>13. CASE UNCHANGED routingVars
  BY <1>6, <1>13 DEF routingVars
<1> QED
  BY <1>2, <1>3, <1>4, <1>5, <1>7, <1>8, <1>9, <1>10, <1>11, <1>12, <1>13 DEF RoutingNext

-----------------------------------------------------------------------------
(* What was never started, nor waited for an approval, was not on disk.     *)
DiskBehind ==
  \A d \in Dispatches :
    /\ status[d] = "none" => disk.status[d] = "none"
    /\ status[d] = "queued" /\ approval[d] = "none" => disk.status[d] \in {"none", "queued"}

(* Other than by a restart a dispatch starts, or waits, only if an executor *)
(* selects it, and is queued anew only if it has an approval.               *)
Moves(d) ==
  \/ status'[d] = status[d] /\ approval'[d] = approval[d]
  \/ status[d] = "none" /\ status'[d] = "queued"
  \/ status'[d] \in {"completed", "failed", "denied"}
  \/ status'[d] = "queued" /\ approval'[d] # "none"

LEMMA OtherMoves ==
  ASSUME TypeInv, NEW d \in Dispatches,
         CreateTurn \/ ExecuteLatest \/ OtherHandlerSaves \/ SetAutonomy \/ UNCHANGED vars
         \/ (\E c \in Dispatches : GrantApproval(c) \/ DenyApproval(c))
         \/ (\E e \in Executors : Step(e) \/ ExecutorLost(e))
  PROVE  Moves(d)
<1>0. /\ status \in [Dispatches -> Status] /\ approval \in [Dispatches -> ApprovalStatus]
  BY HouseTyped DEF TypeInv, TypeOK, Typed
<1>1. CASE CreateTurn
  BY <1>0, <1>1 DEF CreateTurn, QueueTurn, Mark, Fresh, Moves
<1>2. CASE ExecuteLatest
  BY <1>0, <1>2 DEF ExecuteLatest, Mark, Moves
<1>3. CASE OtherHandlerSaves \/ SetAutonomy \/ UNCHANGED vars
  BY <1>3 DEF OtherHandlerSaves, SetAutonomy, vars, house, Moves
<1>4. ASSUME NEW c \in Dispatches, GrantApproval(c) \/ DenyApproval(c) PROVE Moves(d)
  BY <1>0, <1>4 DEF GrantApproval, DenyApproval, Mark, Moves
<1>5. ASSUME NEW e \in Executors, AttemptSucceeds(e) \/ AttemptFails(e) \/ ExecutorLost(e)
      PROVE  Moves(d)
  BY <1>5 DEF AttemptSucceeds, AttemptFails, ExecutorLost, house, Moves
<1>6. ASSUME NEW e \in Executors, CloseFailed(e) \/ CloseCompleted(e) PROVE Moves(d)
  BY <1>0, <1>6 DEF CloseFailed, CloseCompleted, Mark, Moves
<1>7. ASSUME NEW e \in Executors, CloseWithFollowUp(e) PROVE Moves(d)
  BY <1>0, <1>7 DEF CloseWithFollowUp, Fresh, Moves
<1> QED
  BY <1>1, <1>2, <1>3, <1>4, <1>5, <1>6, <1>7 DEF Step

LEMMA NextDiskBehind == TypeInv /\ DiskBehind /\ [Next]_vars => DiskBehind'
<1> SUFFICES ASSUME TypeInv, DiskBehind, [Next]_vars PROVE DiskBehind'
  OBVIOUS
<1>0. /\ status \in [Dispatches -> Status] /\ approval \in [Dispatches -> ApprovalStatus]
  BY HouseTyped DEF TypeInv, TypeOK, Typed
<1>1. CASE disk' = House'
  BY <1>1 DEF DiskBehind, House
<1>2. CASE disk' = disk /\ \A d \in Dispatches : Moves(d)
  BY <1>2 DEF DiskBehind, Moves
<1>3. ASSUME NEW e \in Executors, SelectAndRun(e), disk' = disk PROVE DiskBehind'
  <2>1. ASSUME NEW d \in Dispatches
        PROVE  \/ status'[d] = status[d] /\ approval'[d] = approval[d]
               \/ status'[d] \in {"running", "awaiting_approval"}
    BY <1>0, <1>3 DEF SelectAndRun, RequestApproval, StartRun, Mark
  <2> QED
    BY <1>3, <2>1 DEF DiskBehind
<1>4. CASE CrashAndRestart
  BY <1>4 DEF CrashAndRestart, DiskBehind
<1>5. disk' = House' \/ disk' = disk
  BY SavesOrNot
<1> QED
  BY <1>1, <1>2, <1>3, <1>4, <1>5, OtherMoves DEF Next

-----------------------------------------------------------------------------
(* No row of a file that is gone, of another scope or from before a restart *)
(* closes the gate, and none that is missing opens it (first lock section   *)
(* of run_latest_dispatch_live_once).                                       *)
THEOREM GateSees == RoutingSpec => GateSeesWorkspace
<1> DEFINE Sees(d) ==
      status[d] = "queued" /\ approval[d] = "none" /\ lane[d] \in CodexLanes =>
        /\ status'[d] = "running" => (policy.allow => workspace.changed = << >>)
        /\ status'[d] = "awaiting_approval" => policy.allow /\ workspace.changed # << >>
<1>1. RoutingInit => TypeInv /\ WorldTypeOK /\ DiskBehind
  BY WorldTypeInit, InitTypeInv DEF RoutingInit, Init, EmptyHouse, DiskBehind
<1>2. TypeInv /\ WorldTypeOK /\ DiskBehind /\ [RoutingNext]_routingVars
      => (TypeInv /\ WorldTypeOK /\ DiskBehind)'
  BY WorldTypeNext, NextTypeInv, NextDiskBehind, RoutingStep
<1>3. ASSUME TypeInv, WorldTypeOK, DiskBehind, RoutingNext, NEW d \in Dispatches,
             status[d] = "queued", approval[d] = "none", lane[d] \in CodexLanes
      PROVE  /\ status'[d] = "running" => (policy.allow => workspace.changed = << >>)
             /\ status'[d] = "awaiting_approval" => policy.allow /\ workspace.changed # << >>
  <2>1. /\ status \in [Dispatches -> Status] /\ disk.status \in [Dispatches -> Status]
    BY <1>3, HouseTyped DEF TypeInv, TypeOK, HouseType, Typed
  <2>2. CASE status'[d] \notin {"running", "awaiting_approval"}
    BY <2>2
  <2>3. ASSUME NEW e \in Executors, NEW c \in Dispatches, SelectOnLane(e, c)
        PROVE  /\ status'[d] = "running" => (policy.allow => workspace.changed = << >>)
               /\ status'[d] = "awaiting_approval" => policy.allow /\ workspace.changed # << >>
    <3> DEFINE dirty == Slice(Refreshed(rows, policy, workspace), policy).dirty
    <3>1. dirty <=> policy.allow /\ workspace.changed # << >>
      BY <1>3, SliceIsTrue, RoutingAssumption DEF WorldTypeOK
    <3>2. CASE RequestApproval(e, c, dirty)
      <4>1. c = d => dirty
        BY <3>2, <1>3 DEF RequestApproval, GateReason
      <4>2. c # d => status'[d] = "queued"
        BY <3>2, <1>3, <2>1 DEF RequestApproval, Mark
      <4>3. c = d => status'[d] = "awaiting_approval"
        BY <3>2, <1>3, <2>1 DEF RequestApproval, Mark
      <4> QED
        BY <3>1, <4>1, <4>2, <4>3
    <3>3. CASE StartRun(e, c, dirty, Lanes \ {lane[c]})
      <4>1. c = d => ~dirty
        BY <3>3, <1>3 DEF StartRun, GateReason
      <4>2. c # d => status'[d] = "queued"
        BY <3>3, <1>3, <2>1 DEF StartRun, Mark
      <4>3. c = d => status'[d] = "running"
        BY <3>3, <1>3, <2>1 DEF StartRun, Mark
      <4> QED
        BY <3>1, <4>1, <4>2, <4>3
    <3> QED
      BY <2>3, <3>2, <3>3 DEF SelectOnLane
  <2>4. CASE Restart
    <3>1. status'[d] = disk.status[d]
      BY <2>4 DEF Restart, CrashAndRestart
    <3> QED
      BY <1>3, <3>1, <2>2 DEF DiskBehind
  <2>5. CASE Moves(d)
    BY <1>3, <2>5 DEF Moves
  <2>6. ASSUME UNCHANGED house PROVE Moves(d)
    BY <2>6 DEF house, Moves
  <2>7. ASSUME NEW l \in Lanes, ConnectLane(l) \/ \E p \in LanePolicies : UpdateLane(l, p)
        PROVE  Moves(d)
    BY <2>6, <2>7 DEF ConnectLane, UpdateLane, DispatchStays
  <2>8. CASE ChangeWorldPolicy \/ LookAtWorld \/ SaveAll
    BY <2>5, <2>6, <2>8 DEF ChangeWorldPolicy, LookAtWorld, SaveAll, DispatchStays
  <2>9. CASE CredentialsChange \/ WorkspaceChanges
    BY <2>5, <2>6, <2>9 DEF CredentialsChange, WorkspaceChanges, vars, house
  <2>10. CASE QueueOnDefaultLane \/ WithoutAdapter \/ SwitchAutonomy
    BY <1>3, <2>5, <2>10, OtherMoves DEF QueueOnDefaultLane, WithoutAdapter, SwitchAutonomy
  <2>11. ASSUME NEW e \in Executors, LaneAnswers(e) \/ LaneFails(e) \/ Close(e) \/ Lose(e)
         PROVE  Moves(d)
    BY <1>3, <2>11, OtherMoves DEF LaneAnswers, LaneFails, Close, Lose, Step
  <2>12. ASSUME NEW e \in Executors, ListFallbacks(e) PROVE Moves(d)
    BY <2>6, <2>12 DEF ListFallbacks, vars, house
  <2> QED
    BY <1>3, <2>3, <2>4, <2>5, <2>7, <2>8, <2>9, <2>10, <2>11, <2>12 DEF RoutingNext
<1>4. TypeInv /\ WorldTypeOK /\ DiskBehind /\ [RoutingNext]_routingVars
      => [\A d \in Dispatches : Sees(d)]_routingVars
  BY <1>3
<1> QED
  BY <1>1, <1>2, <1>4, PTL DEF RoutingSpec, GateSeesWorkspace

-----------------------------------------------------------------------------
(* The lanes a run falls back to.                                           *)

Sound(r, x) ==
  LET asked == IF x.at = x.home THEN {} ELSE {x.at}
      inGroup(l) == r.group # NoGroup /\ r.read.policy[l].group = r.group
  IN
  /\ x.home \notin r.left /\ x.at \notin r.left
  /\ \A l \in r.left \cup asked :
       /\ l \in r.read.connected /\ Engine[l] \in r.able
       /\ \A k \in r.read.connected \ {x.home} :
            Engine[k] \in r.able /\ inGroup(k) => inGroup(l)
  /\ \A l \in asked, k \in r.left :
       Engine[l] = Engine[k] => r.read.policy[l].priority >= r.read.policy[k].priority

(* Who has a list works on; who has none yet is still asking its home.      *)
RouteOf(r, x) ==
  /\ r.listed => x # Idle /\ Sound(r, x)
  /\ x # Idle /\ ~r.listed => x.pc = "attempt" /\ x.at = x.home

RouteInv ==
  /\ route \in [Executors -> Routes]
  /\ \A e \in Executors : RouteOf(route[e], exec[e])

LEMMA NoRouteTyped == NoRoute \in Routes
BY NoLanesGood DEF NoRoute, Routes, GoodRegistry, Groups, NoGroup

LEMMA NoRouteOf == RouteOf(NoRoute, Idle)
BY DEF RouteOf, NoRoute, Idle

(* One executor goes on or leaves, and takes its list with it.              *)
LEMMA KeptRoute ==
  ASSUME RouteInv, TypeInv, NEW e \in Executors, RoutesKept, exec[e] # Idle, NEW y,
         exec' = [exec EXCEPT ![e] = y],
         y = Idle \/ (route[e].listed /\ y.home = exec[e].home /\ y.at = exec[e].at)
  PROVE  RouteInv'
<1>1. exec \in [Executors -> Working \cup {Idle}]
  BY DEF TypeInv, TypeOK
<1>2. route' \in [Executors -> Routes]
  BY NoRouteTyped DEF RoutesKept, RouteInv
<1>3. ASSUME NEW f \in Executors PROVE RouteOf(route'[f], exec'[f])
  <2>1. CASE exec'[f] = Idle
    BY <2>1, NoRouteOf DEF RoutesKept
  <2>2. CASE exec'[f] # Idle /\ f # e
    BY <2>2, <1>1 DEF RoutesKept, RouteInv
  <2>3. CASE exec'[f] # Idle /\ f = e
    <3>1. exec'[f] = y /\ route'[f] = route[e] /\ route[e].listed
      BY <2>3, <1>1 DEF RoutesKept
    <3>2. Sound(route[e], exec[e])
      BY <3>1 DEF RouteInv, RouteOf
    <3>3. Sound(route[e], y)
      BY <2>3, <3>1, <3>2 DEF Sound
    <3> QED
      BY <2>3, <3>1, <3>3 DEF RouteOf
  <2> QED
    BY <2>1, <2>2, <2>3
<1> QED
  BY <1>2, <1>3 DEF RouteInv

(* The candidates of a group are taken alone, and none is the home lane.    *)
LEMMA FallbacksSound ==
  ASSUME NEW x, x.at = x.home, NEW r \in Routes,
         r.left = Fallbacks(r.read, x.home, r.group, r.able)
  PROVE  Sound(r, x)
<1>1. ASSUME NEW l \in r.left
      PROVE  l \in r.read.connected /\ l # x.home /\ Engine[l] \in r.able
  BY <1>1 DEF Fallbacks, Kin, Candidates
<1>2. ASSUME NEW l \in r.left, NEW k \in r.read.connected \ {x.home},
             Engine[k] \in r.able, r.group # NoGroup, r.read.policy[k].group = r.group
      PROVE  r.read.policy[l].group = r.group
  BY <1>2 DEF Fallbacks, Kin, Candidates
<1> QED
  BY <1>1, <1>2 DEF Sound

(* The next lane of the list is asked: none of its engine that is left has  *)
(* a higher priority.                                                       *)
LEMMA NextSound ==
  ASSUME NEW x, NEW y, NEW r \in Routes, Sound(r, x), y.home = x.home,
         IsNext(r.read, x.home, r.left, y.at)
  PROVE  Sound([r EXCEPT !.left = @ \ {y.at}], y)
<1> DEFINE n == [r EXCEPT !.left = @ \ {y.at}]
<1>1. /\ n.left = r.left \ {y.at} /\ n.read = r.read /\ n.able = r.able /\ n.group = r.group
  BY DEF Routes
<1>2. y.at \in r.left /\ y.home \notin r.left /\ r.left \subseteq Lanes
  BY DEF IsNext, Sound, Routes
<1>3. ASSUME NEW k \in n.left, Engine[y.at] = Engine[k]
      PROVE  r.read.policy[y.at].priority >= r.read.policy[k].priority
  <2>1. Ahead(r.read, x.home, y.at, k)
    BY <1>1, <1>3 DEF IsNext
  <2>2. /\ r.read.policy[y.at].priority \in Nat /\ r.read.policy[k].priority \in Nat
    BY <1>1, <1>2 DEF Routes, LaneRegistries, Policy
  <2>3. \/ r.read.policy[y.at].priority > r.read.policy[k].priority
        \/ r.read.policy[y.at].priority = r.read.policy[k].priority
    BY <2>1, <1>3 DEF Ahead, SameEngine
  <2> QED
    BY <2>2, <2>3
<1> QED
  BY <1>1, <1>2, <1>3 DEF Sound

LEMMA InitRouteInv == RoutingInit => RouteInv
BY NoRouteTyped, NoRouteOf DEF RoutingInit, Init, RouteInv

LEMMA NextRouteInv == TypeInv /\ WorldTypeOK /\ RouteInv /\ [RoutingNext]_routingVars => RouteInv'
<1> SUFFICES ASSUME TypeInv, WorldTypeOK, RouteInv, [RoutingNext]_routingVars PROVE RouteInv'
  OBVIOUS
<1> USE DEF house, vars
<1>0. /\ exec \in [Executors -> Working \cup {Idle}] /\ route \in [Executors -> Routes]
      /\ \A w \in Working : w # Idle
  BY DEF TypeInv, TypeOK, RouteInv, Working, Idle
<1>1. CASE UNCHANGED <<exec, route>>
  BY <1>1 DEF RouteInv
<1>2. CASE ChangeWorldPolicy \/ LookAtWorld \/ SaveAll \/ SwitchAutonomy
  BY <1>1, <1>2 DEF ChangeWorldPolicy, LookAtWorld, SaveAll, SwitchAutonomy, DispatchStays, SetAutonomy
<1>3. CASE \E l \in Lanes : ConnectLane(l) \/ \E p \in LanePolicies : UpdateLane(l, p)
  BY <1>1, <1>3 DEF ConnectLane, UpdateLane, DispatchStays
<1>4. CASE QueueOnDefaultLane \/ WithoutAdapter
  BY <1>1, <1>4 DEF QueueOnDefaultLane, WithoutAdapter, CreateTurn, ExecuteLatest, GrantApproval, DenyApproval
<1>5. CASE CredentialsChange \/ WorkspaceChanges \/ UNCHANGED routingVars
  BY <1>1, <1>5 DEF CredentialsChange, WorkspaceChanges, routingVars
<1>6. CASE Restart
  <2>1. \A e \in Executors : exec'[e] = Idle /\ route'[e] = NoRoute
    BY <1>6 DEF Restart, CrashAndRestart, RoutesKept
  <2>2. route' \in [Executors -> Routes]
    BY <1>0, <1>6, NoRouteTyped DEF Restart, RoutesKept
  <2> QED
    BY <2>1, <2>2, NoRouteOf DEF RouteInv
<1>7. ASSUME NEW e \in Executors, NEW d \in Dispatches, SelectOnLane(e, d) PROVE RouteInv'
  <2>1. exec[e] = Idle /\ status[d] = "queued"
    BY <1>7 DEF SelectOnLane, RequestApproval, StartRun, MayBegin, Queued
  <2>2. lane[d] \in Lanes
    BY <2>1 DEF TypeInv, Laned, House
  <2>3. Selected(d) \in Routes /\ ~Selected(d).listed
    <3>1. lanes.policy[lane[d]].group \in Groups
      BY <2>2 DEF WorldTypeOK, GoodRegistry, LaneRegistries, Policy
    <3> QED
      BY <3>1, NoRouteTyped DEF Selected, Routes, NoRoute
  <2>4. CASE UNCHANGED <<exec, route>>
    BY <1>1, <2>4
  <2>5. CASE /\ exec' = [exec EXCEPT ![e] = [pc |-> "attempt", job |-> d, home |-> lane[d],
                                             at |-> lane[d], rest |-> Lanes \ {lane[d]}]]
             /\ route' = [route EXCEPT ![e] = Selected(d)]
    <3>1. exec'[e].pc = "attempt" /\ exec'[e].at = exec'[e].home /\ route'[e] = Selected(d)
      BY <1>0, <2>5
    <3>2. \A f \in Executors \ {e} : exec'[f] = exec[f] /\ route'[f] = route[f]
      BY <1>0, <2>5
    <3>3. route' \in [Executors -> Routes]
      BY <1>0, <2>3, <2>5
    <3> QED
      BY <2>3, <3>1, <3>2, <3>3 DEF RouteInv, RouteOf
  <2>6. exec'[e] = Idle \/ exec'[e].pc = "attempt"
    BY <1>0, <1>7, <2>1 DEF SelectOnLane, RequestApproval, StartRun
  <2> QED
    BY <1>0, <1>7, <2>1, <2>4, <2>5, <2>6 DEF SelectOnLane, RequestApproval, StartRun, Idle
<1>8. ASSUME NEW e \in Executors, ListFallbacks(e) PROVE RouteInv'
  <2> DEFINE n == [listed |-> TRUE, group |-> route[e].group, read |-> lanes, able |-> ready,
                   left |-> Fallbacks(lanes, exec[e].home, route[e].group, ready)]
  <2>1. route' = [route EXCEPT ![e] = n] /\ exec' = exec
    BY <1>0, <1>8 DEF ListFallbacks
  <2>2. exec[e] # Idle /\ exec[e].at = exec[e].home
    BY <1>8 DEF ListFallbacks, At, Idle, RouteInv, RouteOf
  <2>3. lanes \in LaneRegistries /\ ready \in SUBSET Engines /\ route[e].group \in Groups
    BY <1>0, RoutingAssumption DEF WorldTypeOK, GoodRegistry, Routes
  <2>4. n \in Routes
    BY <2>3, FallbacksTyped DEF Routes
  <2>5. Sound(n, exec[e])
    BY <2>2, <2>4, FallbacksSound
  <2>6. RouteOf(n, exec[e])
    BY <2>2, <2>5 DEF RouteOf
  <2>7. route' \in [Executors -> Routes]
    BY <1>0, <2>1, <2>4
  <2> QED
    BY <1>0, <2>1, <2>6, <2>7 DEF RouteInv
<1>9. ASSUME NEW e \in Executors, LaneAnswers(e) PROVE RouteInv'
  <2>1. exec[e] # Idle /\ route[e].listed /\ RoutesKept
    BY <1>9 DEF LaneAnswers, AttemptSucceeds, At, Idle
  <2>2. \/ Leaves(e)
        \/ GoesOn(e, "answered", exec[e].at, exec[e].rest)
    BY <1>9 DEF LaneAnswers, AttemptSucceeds
  <2>3. CASE Leaves(e)
    BY <2>1, <2>3, KeptRoute DEF Leaves
  <2>4. CASE GoesOn(e, "answered", exec[e].at, exec[e].rest)
    BY <2>1, <2>4, KeptRoute DEF GoesOn
  <2> QED
    BY <2>2, <2>3, <2>4
<1>10. ASSUME NEW e \in Executors, Close(e) \/ Lose(e) PROVE RouteInv'
  <2>1. exec[e] # Idle /\ RoutesKept /\ Leaves(e)
    BY <1>10 DEF Close, Lose, CloseFailed, CloseCompleted, CloseWithFollowUp, ExecutorLost, At, Idle
  <2> QED
    BY <2>1, KeptRoute DEF Leaves
<1>11. ASSUME NEW e \in Executors, LaneFails(e) PROVE RouteInv'
  <2>1. exec[e] # Idle /\ route[e].listed /\ route[e] \in Routes /\ Sound(route[e], exec[e])
    BY <1>0, <1>11 DEF LaneFails, AttemptFails, At, Idle, RouteInv, RouteOf
  <2>2. CASE exec'[e].pc # "attempt"
    <3>1. RoutesKept
      BY <1>11, <2>2 DEF LaneFails
    <3>2. Leaves(e) \/ GoesOn(e, "exhausted", exec[e].at, exec[e].rest)
      BY <1>0, <1>11, <2>2 DEF LaneFails, AttemptFails, GoesOn
    <3> QED
      BY <2>1, <3>1, <3>2, KeptRoute DEF Leaves, GoesOn
  <2>3. CASE exec'[e].pc = "attempt"
    <3>1. /\ IsNext(route[e].read, exec[e].home, route[e].left, exec'[e].at)
          /\ route' = [route EXCEPT ![e].left = @ \ {exec'[e].at}]
      BY <1>11, <2>3 DEF LaneFails
    <3>2. PICK y : /\ exec' = [exec EXCEPT ![e] = y]
                   /\ y # Idle /\ y.home = exec[e].home
      BY <1>0, <1>11, <2>3 DEF LaneFails, AttemptFails, GoesOn, Leaves, Idle
    <3> DEFINE n == [route[e] EXCEPT !.left = @ \ {y.at}]
    <3>3. exec'[e] = y
      BY <1>0, <3>2
    <3>4. IsNext(route[e].read, exec[e].home, route[e].left, y.at)
      BY <3>1, <3>3
    <3>5. Sound(n, y)
      BY <2>1, <3>2, <3>4, NextSound
    <3>6. route' = [route EXCEPT ![e] = n]
      BY <1>0, <3>1, <3>3
    <3>7. n \in Routes /\ n.listed
      BY <2>1 DEF Routes
    <3>8. RouteOf(n, y)
      BY <3>2, <3>5, <3>7 DEF RouteOf
    <3>9. route' \in [Executors -> Routes]
      BY <1>0, <3>6, <3>7
    <3> QED
      BY <1>0, <3>2, <3>6, <3>8, <3>9 DEF RouteInv
  <2> QED
    BY <2>2, <2>3
<1> QED
  BY <1>2, <1>3, <1>4, <1>5, <1>6, <1>7, <1>8, <1>9, <1>10, <1>11 DEF RoutingNext

(* Every variable stays in its domain.                                      *)
THEOREM RoutingTypes == RoutingSpec => []RoutingTypeOK
<1>1. RoutingInit => TypeInv /\ WorldTypeOK /\ RouteInv
  BY WorldTypeInit, InitTypeInv, InitRouteInv DEF RoutingInit
<1>2. TypeInv /\ WorldTypeOK /\ RouteInv /\ [RoutingNext]_routingVars
      => (TypeInv /\ WorldTypeOK /\ RouteInv)'
  BY WorldTypeNext, NextTypeInv, NextRouteInv, RoutingStep
<1>3. TypeInv /\ WorldTypeOK /\ RouteInv => RoutingTypeOK
  BY RoutingAssumption DEF RoutingTypeOK, TypeInv, WorldTypeOK, RouteInv, GoodRegistry
<1> QED
  BY <1>1, <1>2, <1>3, PTL DEF RoutingSpec

(* No run asks its home again, a lane without credentials, one outside the  *)
(* group when the group had one, or one before those of higher priority of  *)
(* its engine (fallback_candidates and the loop over them).                 *)
THEOREM SoundRoutes == RoutingSpec => []RoutesAreSound
<1>1. RoutingInit => TypeInv /\ WorldTypeOK /\ RouteInv
  BY WorldTypeInit, InitTypeInv, InitRouteInv DEF RoutingInit
<1>2. TypeInv /\ WorldTypeOK /\ RouteInv /\ [RoutingNext]_routingVars
      => (TypeInv /\ WorldTypeOK /\ RouteInv)'
  BY WorldTypeNext, NextTypeInv, NextRouteInv, RoutingStep
<1>3. RouteInv => RoutesAreSound
  BY DEF RouteInv, RouteOf, Sound, RoutesAreSound
<1> QED
  BY <1>1, <1>2, <1>3, PTL DEF RoutingSpec

-----------------------------------------------------------------------------
(* The lane of a dispatch is in the registry.                               *)

Placed       == \A d \in Dispatches : status[d] # "none" => lane[d] \in lanes.connected
PlacedOnDisk == \A d \in Dispatches : disk.status[d] # "none" => disk.lane[d] \in saved.lanes.connected

AtWork ==
  \A e \in Executors : Busy(e) =>
    /\ lane[exec[e].job] = IF At(e, "answered") THEN exec[e].at ELSE exec[e].home
    /\ exec[e].home \in lanes.connected /\ exec[e].at \in lanes.connected
    /\ route[e].listed => route[e].left \subseteq lanes.connected

PlacedInv == Placed /\ PlacedOnDisk /\ AtWork

LEMMA SavePlaced ==
  ASSUME PlacedOnDisk, Placed', SavesAll \/ UNCHANGED <<disk, saved>>
  PROVE  PlacedOnDisk'
<1>1. CASE Persisted /\ Upsert
  BY <1>1 DEF Persisted, Upsert, House, Placed, PlacedOnDisk
<1>2. CASE UNCHANGED <<disk, saved>>
  BY <1>2 DEF PlacedOnDisk
<1> QED
  BY <1>1, <1>2 DEF SavesAll, PersistFailed

(* Other lanes come and go, nothing else happens.                           *)
LEMMA GrowPlaced ==
  ASSUME PlacedInv, UNCHANGED <<status, lane, exec, route>>,
         lanes.connected \subseteq lanes'.connected,
         SavesAll \/ UNCHANGED <<disk, saved>>
  PROVE  PlacedInv'
<1>1. Placed'
  BY DEF PlacedInv, Placed
<1>2. AtWork'
  BY DEF PlacedInv, AtWork, Busy, At
<1> QED
  BY <1>1, <1>2, SavePlaced DEF PlacedInv

(* Dispatches that have a lane move on, one executor leaves or stays.       *)
LEMMA MovePlaced ==
  ASSUME TypeInv, PlacedInv, UNCHANGED lanes, SavesAll \/ UNCHANGED <<disk, saved>>,
         \A d \in Dispatches : status'[d] # "none" =>
           lane'[d] \in lanes.connected,
         \A e \in Executors : Busy(e)' =>
           \/ /\ exec'[e] = exec[e] /\ route'[e] = route[e]
              /\ lane'[exec[e].job] = lane[exec[e].job]
           \/ /\ lane'[exec'[e].job] = IF At(e, "answered")' THEN exec'[e].at ELSE exec'[e].home
              /\ exec'[e].home \in lanes.connected /\ exec'[e].at \in lanes.connected
              /\ route'[e].listed => route'[e].left \subseteq lanes.connected
  PROVE  PlacedInv'
<1>1. Placed'
  BY DEF Placed
<1>2. AtWork'
  BY DEF PlacedInv, AtWork, Busy, At
<1> QED
  BY <1>1, <1>2, SavePlaced DEF PlacedInv

LEMMA NextPlacedInv ==
  ASSUME CockpitOperator, LedgerInv, WorldTypeOK, RouteInv, PlacedInv, [RoutingNext]_routingVars
  PROVE  PlacedInv'
<1> USE DEF house, vars
<1>0. /\ exec \in [Executors -> Working \cup {Idle}] /\ route \in [Executors -> Routes]
      /\ status \in [Dispatches -> Status] /\ lane \in [Dispatches -> Lanes \cup {NoLane}]
      /\ lanes \in LaneRegistries /\ TypeInv
      /\ \A e \in Executors : Busy(e) => exec[e] \in Working /\ status[exec[e].job] = "running"
      /\ \A e, f \in Executors : Busy(e) /\ Busy(f) /\ exec[e].job = exec[f].job => e = f
      /\ \A e \in Executors : Busy(e) => exec[e].job \in Dispatches
  <2>1. TypeInv /\ SoleOwner
    BY DEF LedgerInv, GateInv
  <2> QED
    BY <2>1, HouseTyped
    DEF TypeInv, TypeOK, Typed, RouteInv, WorldTypeOK, GoodRegistry, SoleOwner, Busy, Working
<1>1. ASSUME NEW l \in Lanes, ConnectLane(l) \/ \E p \in LanePolicies : UpdateLane(l, p)
      PROVE  PlacedInv'
  <2>1. lanes.connected \subseteq lanes'.connected
    BY <1>0, <1>1 DEF ConnectLane, UpdateLane, Connected, Updated, LaneRegistries
  <2> QED
    BY <1>1, <2>1, GrowPlaced DEF ConnectLane, UpdateLane, DispatchStays
<1>2. CASE ChangeWorldPolicy \/ LookAtWorld \/ SaveAll
  BY <1>2, GrowPlaced DEF ChangeWorldPolicy, LookAtWorld, SaveAll, SavesAll, DispatchStays
<1>3. CASE CredentialsChange \/ WorkspaceChanges \/ UNCHANGED routingVars \/ SwitchAutonomy
  BY <1>3, GrowPlaced DEF CredentialsChange, WorkspaceChanges, routingVars, SwitchAutonomy, SetAutonomy
<1>4. CASE QueueOnDefaultLane
  <2>1. PICK d \in Dispatches, s \in Sessions, l \in Lanes : Fresh(d) /\ QueueTurn(d, s, l)
    BY <1>4 DEF QueueOnDefaultLane, CreateTurn
  <2>2. lane'[d] \in lanes.connected
    BY <1>4, <2>1 DEF QueueOnDefaultLane, IsDefault, IsFirst, Primaries
  <2>3. \A c \in Dispatches \ {d} : status'[c] = status[c] /\ lane'[c] = lane[c]
    BY <1>0, <2>1 DEF QueueTurn, Mark
  <2>4. \A e \in Executors : Busy(e) => exec[e].job # d
    BY <1>0, <2>1 DEF Fresh
  <2>5. UNCHANGED <<exec, route, lanes>> /\ SavesAll
    BY <1>4 DEF QueueOnDefaultLane, CreateTurn
  <2>6. \A c \in Dispatches : status'[c] # "none" => lane'[c] \in lanes.connected
    BY <2>2, <2>3 DEF PlacedInv, Placed
  <2> QED
    BY <1>0, <2>3, <2>4, <2>5, <2>6, MovePlaced DEF Busy
<1>5. CASE WithoutAdapter
  <2>1. PICK d \in Dispatches : /\ status[d] # "none"
                                /\ UNCHANGED <<lane, exec>>
                                /\ \A c \in Dispatches \ {d} : status'[c] = status[c]
    <3>1. CASE ExecuteLatest
      BY <1>0, <3>1 DEF ExecuteLatest, Queued, Mark
    <3>2. ASSUME NEW d \in Dispatches, GrantApproval(d) \/ DenyApproval(d)
          PROVE  status[d] # "none" /\ \A c \in Dispatches \ {d} : status'[c] = status[c]
      <4>1. approval[d] = "pending"
        BY <3>2 DEF GrantApproval, DenyApproval, Resolvable
      <4>2. status[d] = "awaiting_approval"
        BY <4>1 DEF LedgerInv, GateInv, Whole, Agree, House
      <4> QED
        BY <1>0, <3>2, <4>2 DEF GrantApproval, DenyApproval, Mark
    <3> QED
      BY <1>5, <3>1, <3>2 DEF WithoutAdapter, GrantApproval, DenyApproval
  <2>2. \A c \in Dispatches : status'[c] # "none" => lane'[c] \in lanes.connected
    BY <2>1 DEF PlacedInv, Placed
  <2> QED
    BY <1>0, <1>5, <2>1, <2>2, MovePlaced DEF WithoutAdapter
<1>6. ASSUME NEW e \in Executors, NEW d \in Dispatches, SelectOnLane(e, d) PROVE PlacedInv'
  <2>1. /\ status[d] = "queued" /\ exec[e] = Idle /\ UNCHANGED <<lane, lanes>> /\ SavesAll
        /\ \A c \in Dispatches \ {d} : status'[c] = status[c]
    BY <1>0, <1>6 DEF SelectOnLane, RequestApproval, StartRun, Mark, MayBegin, Queued
  <2>2. \A c \in Dispatches : status'[c] # "none" => lane'[c] \in lanes.connected
    BY <2>1 DEF PlacedInv, Placed
  <2>3. \A f \in Executors \ {e} : exec'[f] = exec[f] /\ route'[f] = route[f]
    BY <1>0, <1>6, <2>1 DEF SelectOnLane, RequestApproval, StartRun
  <2>4. lane[d] \in lanes.connected
    BY <2>1 DEF PlacedInv, Placed
  <2>5. ASSUME Busy(e)'
        PROVE  /\ exec'[e].pc = "attempt" /\ exec'[e].job = d
               /\ exec'[e].home = lane[d] /\ exec'[e].at = lane[d] /\ ~route'[e].listed
    <3>1. exec' = [exec EXCEPT ![e] = [pc |-> "attempt", job |-> d, home |-> lane[d],
                                       at |-> lane[d], rest |-> Lanes \ {lane[d]}]]
      BY <1>6, <2>1, <2>5 DEF SelectOnLane, RequestApproval, StartRun, Busy
    <3>2. exec'[e] # Idle
      BY <2>5 DEF Busy
    <3>3. route' = [route EXCEPT ![e] = Selected(d)]
      BY <1>6, <2>1, <3>2 DEF SelectOnLane, RequestApproval
    <3> QED
      BY <1>0, <3>1, <3>3 DEF Selected, NoRoute
  <2> QED
    BY <1>0, <2>1, <2>2, <2>3, <2>4, <2>5, MovePlaced DEF At
<1>7. ASSUME NEW e \in Executors, ListFallbacks(e) PROVE PlacedInv'
  <2>1. UNCHANGED <<status, lane, exec, lanes, disk, saved>>
    BY <1>7 DEF ListFallbacks
  <2>2. route'[e].left \subseteq lanes.connected /\ \A f \in Executors \ {e} : route'[f] = route[f]
    BY <1>0, <1>7 DEF ListFallbacks, Fallbacks, Kin, Candidates
  <2>3. \A c \in Dispatches : status'[c] # "none" => lane'[c] \in lanes.connected
    BY <2>1 DEF PlacedInv, Placed
  <2> QED
    BY <1>0, <2>1, <2>2, <2>3, MovePlaced DEF PlacedInv, AtWork, Busy, At
<1>8. ASSUME NEW e \in Executors, LaneAnswers(e) PROVE PlacedInv'
  <2> DEFINE d == exec[e].job
  <2>1. /\ Busy(e) /\ ~At(e, "answered") /\ RoutesKept /\ UNCHANGED <<lanes, status>>
        /\ SavesAll \/ UNCHANGED <<disk, saved>>
    BY <1>8 DEF LaneAnswers, AttemptSucceeds, At, Busy, Idle
  <2>2. /\ lane[d] = exec[e].home /\ exec[e].home \in lanes.connected
        /\ exec[e].at \in lanes.connected
        /\ route[e].listed => route[e].left \subseteq lanes.connected
    BY <2>1 DEF PlacedInv, AtWork
  <2>3. lane'[d] = exec[e].at /\ \A c \in Dispatches \ {d} : lane'[c] = lane[c]
    BY <1>0, <1>8, <2>1, <2>2 DEF LaneAnswers, AttemptSucceeds
  <2>4. \A c \in Dispatches : status'[c] # "none" => lane'[c] \in lanes.connected
    BY <2>1, <2>2, <2>3 DEF PlacedInv, Placed
  <2>5. ASSUME Busy(e)'
        PROVE  /\ exec'[e].pc = "answered" /\ exec'[e].job = d /\ exec'[e].at = exec[e].at
               /\ exec'[e].home = exec[e].home /\ route'[e] = route[e]
    <3>1. GoesOn(e, "answered", exec[e].at, exec[e].rest)
      BY <1>0, <1>8, <2>5 DEF LaneAnswers, AttemptSucceeds, Leaves, Busy
    <3> QED
      BY <1>0, <2>1, <2>5, <3>1 DEF GoesOn, RoutesKept, Busy
  <2>6. ASSUME NEW f \in Executors \ {e}, Busy(f)'
        PROVE  exec'[f] = exec[f] /\ route'[f] = route[f] /\ lane'[exec[f].job] = lane[exec[f].job]
    <3>1. exec'[f] = exec[f]
      BY <1>0, <1>8 DEF LaneAnswers, AttemptSucceeds, GoesOn, Leaves
    <3>2. exec[f].job # d /\ exec[f].job \in Dispatches
      BY <1>0, <2>1, <2>6, <3>1 DEF Busy
    <3> QED
      BY <2>1, <2>3, <2>6, <3>1, <3>2 DEF RoutesKept, Busy
  <2> QED
    BY <1>0, <2>1, <2>2, <2>3, <2>4, <2>5, <2>6, MovePlaced DEF At
<1>9. ASSUME NEW e \in Executors, LaneFails(e) PROVE PlacedInv'
  <2>1. /\ Busy(e) /\ ~At(e, "answered") /\ UNCHANGED <<lanes, status, lane>> /\ SavesAll
    BY <1>9 DEF LaneFails, AttemptFails, At, Busy, Idle
  <2>2. /\ lane[exec[e].job] = exec[e].home /\ exec[e].home \in lanes.connected
        /\ exec[e].at \in lanes.connected
        /\ route[e].left \subseteq lanes.connected
    BY <1>9, <2>1 DEF PlacedInv, AtWork, LaneFails
  <2>3. \A c \in Dispatches : status'[c] # "none" => lane'[c] \in lanes.connected
    BY <2>1 DEF PlacedInv, Placed
  <2>4. \A f \in Executors \ {e} : exec'[f] = exec[f]
    BY <1>0, <1>9 DEF LaneFails, AttemptFails, GoesOn, Leaves
  <2>5. \A f \in Executors \ {e} : exec'[f] # Idle => route'[f] = route[f]
    BY <1>0, <1>9 DEF LaneFails, RoutesKept
  <2>6. ASSUME Busy(e)'
        PROVE  /\ exec'[e].pc # "answered" /\ exec'[e].job = exec[e].job
               /\ exec'[e].home = exec[e].home /\ exec'[e].at \in lanes.connected
               /\ route'[e].left \subseteq lanes.connected
    <3>1. CASE exec'[e].pc = "attempt"
      <4>1. /\ exec'[e].at \in route[e].left
            /\ route' = [route EXCEPT ![e].left = @ \ {exec'[e].at}]
        BY <1>9, <3>1 DEF LaneFails, IsNext
      <4>2. exec'[e].job = exec[e].job /\ exec'[e].home = exec[e].home
        BY <1>0, <1>9, <2>6 DEF LaneFails, AttemptFails, GoesOn, Leaves, Busy
      <4>3. PICK a : a = exec'[e].at
        OBVIOUS
      <4> DEFINE n == [route[e] EXCEPT !.left = @ \ {a}]
      <4>4. route' = [route EXCEPT ![e] = n]
        BY <1>0, <4>1, <4>3
      <4>5. n.left = route[e].left \ {a}
        BY <1>0 DEF Routes
      <4>6. route'[e].left = route[e].left \ {a}
        BY <1>0, <4>4, <4>5
      <4> QED
        BY <2>2, <3>1, <4>1, <4>2, <4>6
    <3>2. CASE exec'[e].pc # "attempt"
      <4>1. RoutesKept
        BY <1>9, <3>2 DEF LaneFails
      <4>2. GoesOn(e, "exhausted", exec[e].at, exec[e].rest)
        BY <1>0, <1>9, <2>6, <3>2 DEF LaneFails, AttemptFails, GoesOn, Leaves, Busy
      <4> QED
        BY <1>0, <2>2, <2>6, <4>1, <4>2 DEF GoesOn, RoutesKept, Busy
    <3> QED
      BY <3>1, <3>2
  <2> QED
    BY <1>0, <2>1, <2>2, <2>3, <2>4, <2>5, <2>6, MovePlaced DEF At, Busy
<1>10. ASSUME NEW e \in Executors, Close(e) \/ Lose(e) PROVE PlacedInv'
  <2> DEFINE d == exec[e].job
  <2>1. /\ Busy(e) /\ Leaves(e) /\ RoutesKept /\ UNCHANGED lanes
        /\ SavesAll \/ UNCHANGED <<disk, saved>>
    BY <1>10
    DEF Close, Lose, CloseFailed, CloseCompleted, CloseWithFollowUp, ExecutorLost, At, Busy, Idle
  <2>2. exec'[e] = Idle /\ \A f \in Executors \ {e} : exec'[f] = exec[f]
    BY <1>0, <2>1 DEF Leaves
  <2>3. \A f \in Executors \ {e} : Busy(f)' => route'[f] = route[f]
    BY <2>1 DEF RoutesKept, Busy
  <2>4. status[d] = "running" /\ d \in Dispatches /\ exec[e].at \in lanes.connected
    BY <1>0, <2>1 DEF PlacedInv, AtWork
  <2>5. CASE CloseFailed(e) \/ CloseCompleted(e) \/ Lose(e)
    <3>1. /\ lane' = lane /\ \A c \in Dispatches \ {d} : status'[c] = status[c]
      BY <1>0, <2>5 DEF CloseFailed, CloseCompleted, Lose, ExecutorLost, Mark
    <3>2. \A c \in Dispatches : status'[c] # "none" => lane'[c] \in lanes.connected
      BY <2>4, <3>1 DEF PlacedInv, Placed
    <3> QED
      BY <1>0, <2>1, <2>2, <2>3, <3>1, <3>2, MovePlaced DEF Busy
  <2>6. CASE CloseWithFollowUp(e)
    <3>1. PICK f \in Dispatches \ {d} :
            /\ Fresh(f) /\ lane' = [lane EXCEPT ![f] = exec[e].at]
            /\ status'  = [status EXCEPT ![d] = "completed", ![f] = "queued"]
      BY <2>6 DEF CloseWithFollowUp
    <3>2. \A c \in Dispatches \ {d, f} : status'[c] = status[c]
      BY <1>0, <3>1
    <3>3. lane'[f] = exec[e].at /\ \A c \in Dispatches \ {f} : lane'[c] = lane[c]
      BY <1>0, <3>1
    <3>4. \A c \in Dispatches : status'[c] # "none" => lane'[c] \in lanes.connected
      BY <2>4, <3>2, <3>3 DEF PlacedInv, Placed
    <3>5. \A g \in Executors : Busy(g) => exec[g].job # f
      BY <1>0, <3>1 DEF Fresh
    <3> QED
      BY <1>0, <2>1, <2>2, <2>3, <3>3, <3>4, <3>5, MovePlaced DEF Busy
  <2> QED
    BY <1>10, <2>5, <2>6 DEF Close
<1>11. CASE Restart
  BY <1>11 DEF Restart, CrashAndRestart, PlacedInv, Placed, PlacedOnDisk, AtWork, Busy
<1> QED
  BY <1>1, <1>2, <1>3, <1>4, <1>5, <1>6, <1>7, <1>8, <1>9, <1>10, <1>11 DEF RoutingNext

(* "provider lane metadata missing" never leaves a dispatch running, with   *)
(* an operator who resolves each approval once: the lane is in the registry, *)
(* in memory and on disk (run_latest_dispatch_live_once).                   *)
THEOREM LanesThere == ASSUME CockpitOperator PROVE RoutingSpec => []LanesAreThere
<1>1. RoutingInit => LedgerInv /\ WorldTypeOK /\ RouteInv /\ PlacedInv
  <2> SUFFICES ASSUME RoutingInit PROVE LedgerInv /\ WorldTypeOK /\ RouteInv /\ PlacedInv
    OBVIOUS
  <2>1. PlacedInv
    BY DEF RoutingInit, Init, EmptyHouse, PlacedInv, Placed, PlacedOnDisk, AtWork, Busy
  <2> QED
    BY <2>1, WorldTypeInit, InitLedgerInv, InitRouteInv DEF RoutingInit
<1>2. LedgerInv /\ WorldTypeOK /\ RouteInv /\ PlacedInv /\ [RoutingNext]_routingVars
      => (LedgerInv /\ WorldTypeOK /\ RouteInv /\ PlacedInv)'
  <2>1. LedgerInv => TypeInv
    BY DEF LedgerInv, GateInv
  <2> QED
    BY <2>1, NextLedgerInv, WorldTypeNext, NextRouteInv, NextPlacedInv, RoutingStep
<1>3. PlacedInv => LanesAreThere
  BY DEF PlacedInv, Placed, PlacedOnDisk, AtWork, LanesAreThere
<1> QED
  BY <1>1, <1>2, <1>3, PTL DEF RoutingSpec

-----------------------------------------------------------------------------
(* The next lane of a list.                                                 *)

(* A finite set that a relation orders has a first element: how many come   *)
(* before an element tells it from the others, so all numbers are taken, 0  *)
(* among them.                                                              *)
LEMMA FirstOfOrder ==
  ASSUME NEW S, IsFiniteSet(S), S # {}, NEW R,
         \A a, b \in S : a # b => (<<a, b>> \in R <=> <<b, a>> \notin R),
         \A a, b, c \in S : a # c /\ <<a, b>> \in R /\ <<b, c>> \in R => <<a, c>> \in R
  PROVE  \E a \in S : \A b \in S \ {a} : <<a, b>> \in R
<1> DEFINE Before(a) == {b \in S \ {a} : <<b, a>> \in R}
           n == Cardinality(S)
           f == [a \in S |-> Cardinality(Before(a))]
<1>1. n \in Nat /\ n # 0
  BY FS_CardinalityType, FS_EmptySet
<1>2. ASSUME NEW a \in S
      PROVE  /\ IsFiniteSet(Before(a))
             /\ Cardinality(Before(a)) \in Nat /\ Cardinality(Before(a)) < n
  <2>1. Before(a) \in SUBSET (S \ {a})
    OBVIOUS
  <2>2. IsFiniteSet(S \ {a}) /\ Cardinality(S \ {a}) = n - 1
    BY FS_RemoveElement
  <2> HIDE DEF Before
  <2>3. IsFiniteSet(Before(a)) /\ Cardinality(Before(a)) <= Cardinality(S \ {a})
    BY <2>1, <2>2, FS_Subset
  <2>4. Cardinality(Before(a)) \in Nat
    BY <2>3, FS_CardinalityType
  <2> QED
    BY <1>1, <2>2, <2>3, <2>4
<1>3. ASSUME NEW a \in S, NEW b \in S, a # b, <<a, b>> \in R
      PROVE  Cardinality(Before(a)) # Cardinality(Before(b))
  <2>1. Before(a) \in SUBSET Before(b)
    BY <1>3
  <2>2. a \in Before(b) /\ a \notin Before(a)
    BY <1>3
  <2> HIDE DEF Before
  <2>3. Before(a) # Before(b)
    BY <2>2
  <2>4. IsFiniteSet(Before(b))
    BY <1>2
  <2> QED
    BY <2>1, <2>3, <2>4, FS_Subset
<1>4. f \in [S -> 0..(n - 1)]
  <2>1. ASSUME NEW a \in S PROVE Cardinality(Before(a)) \in 0..(n - 1)
    <3>1. Cardinality(Before(a)) \in Nat /\ Cardinality(Before(a)) < n
      BY <1>2
    <3> HIDE DEF Before, n
    <3> QED
      BY <1>1, <3>1
  <2> QED
    BY <2>1
<1>5. \A a, b \in S : f[a] = f[b] => a = b
  <2>1. \A a \in S : f[a] = Cardinality(Before(a))
    OBVIOUS
  <2> HIDE DEF f, Before
  <2> QED
    BY <1>3, <2>1
<1>6. f \in Injection(S, 0..(n - 1))
  BY <1>4, <1>5 DEF Injection, IsInjective
<1>7. IsFiniteSet(0..(n - 1)) /\ Cardinality(0..(n - 1)) = n
  <2>1. 0 \in Int /\ n - 1 \in Int /\ (IF 0 > n - 1 THEN 0 ELSE (n - 1) - 0 + 1) = n
    BY <1>1
  <2> HIDE DEF n
  <2> QED
    BY <2>1, FS_Interval
<1>8. f \in Surjection(S, 0..(n - 1))
  BY <1>1, <1>6, <1>7, FS_Injection
<1>9. 0 \in 0..(n - 1)
  BY <1>1
<1>10. PICK a \in S : f[a] = 0
  BY <1>8, <1>9 DEF Surjection
<1>11. Before(a) = {}
  <2>1. Cardinality(Before(a)) = 0 /\ IsFiniteSet(Before(a))
    BY <1>2, <1>10
  <2> HIDE DEF Before
  <2> QED
    BY <2>1, FS_EmptySet
<1> QED
  BY <1>11

(* connected_at orders the connected lanes, in a chain.                     *)
Chronological(reg) ==
  /\ GoodRegistry(reg)
  /\ \A a, b, c \in reg.connected :
       a # c /\ <<a, b>> \in reg.older /\ <<b, c>> \in reg.older => <<a, c>> \in reg.older

LEMMA NoLanesChronological == Chronological(NoLanes)
BY NoLanesGood DEF Chronological, NoLanes

LEMMA ConnectChronological ==
  ASSUME NEW reg, Chronological(reg), NEW l \in Lanes, NEW p \in Policy
  PROVE  Chronological(Connected(reg, l, p))
<1> DEFINE new == Connected(reg, l, p)
<1>1. GoodRegistry(new)
  BY ConnectGood DEF Chronological
<1>2. /\ new.connected = reg.connected \cup {l}
      /\ new.older = {q \in reg.older : l \notin {q[1], q[2]}} \cup ((reg.connected \ {l}) \X {l})
  BY DEF Connected
<1>3. ASSUME NEW a \in new.connected, NEW b \in new.connected, NEW c \in new.connected,
             a # c, <<a, b>> \in new.older, <<b, c>> \in new.older
      PROVE  <<a, c>> \in new.older
  <2>1. \A k : <<l, k>> \notin new.older
    BY <1>2
  <2>2. a # l /\ b # l
    BY <1>3, <2>1
  <2>3. CASE c = l
    BY <1>2, <1>3, <2>2, <2>3
  <2>4. CASE c # l
    <3>1. /\ <<a, b>> \in reg.older /\ <<b, c>> \in reg.older
          /\ a \in reg.connected /\ b \in reg.connected /\ c \in reg.connected
      BY <1>2, <1>3, <2>2, <2>4
    <3>2. <<a, c>> \in reg.older
      BY <1>3, <3>1 DEF Chronological
    <3> QED
      BY <1>2, <2>2, <2>4, <3>2
  <2> QED
    BY <2>3, <2>4
<1> QED
  BY <1>1, <1>3 DEF Chronological

LEMMA UpdateChronological ==
  ASSUME NEW reg, Chronological(reg), NEW l \in Lanes, NEW p \in Policy
  PROVE  Chronological(Updated(reg, l, p))
<1>1. GoodRegistry(Updated(reg, l, p))
  BY UpdateGood DEF Chronological
<1>2. /\ Updated(reg, l, p).connected = reg.connected
      /\ Updated(reg, l, p).older = reg.older
  BY DEF Chronological, GoodRegistry, Updated, LaneRegistries
<1> QED
  BY <1>1, <1>2 DEF Chronological

(* The comparator of fallback_candidates tells any two lanes apart one way, *)
(* and is transitive, over lanes connected in a chain.                      *)
LEMMA AheadOneWay ==
  ASSUME NEW reg, Chronological(reg), NEW home,
         NEW l \in reg.connected, NEW k \in reg.connected, l # k
  PROVE  Ahead(reg, home, l, k) <=> ~Ahead(reg, home, k, l)
<1> DEFINE p == reg.policy[l]
           q == reg.policy[k]
<1>1. p.priority \in Nat /\ q.priority \in Nat
  BY DEF Chronological, GoodRegistry, LaneRegistries, Policy
<1>2. <<l, k>> \in reg.older <=> <<k, l>> \notin reg.older
  BY DEF Chronological, GoodRegistry, Ordered
<1>3. \/ p.priority > q.priority /\ ~(q.priority > p.priority) /\ p.priority # q.priority
      \/ q.priority > p.priority /\ ~(p.priority > q.priority) /\ p.priority # q.priority
      \/ p.priority = q.priority /\ ~(p.priority > q.priority) /\ ~(q.priority > p.priority)
  BY <1>1
<1> QED
  BY <1>2, <1>3 DEF Ahead

LEMMA AheadTransitive ==
  ASSUME NEW reg, Chronological(reg), NEW home,
         NEW l \in reg.connected, NEW k \in reg.connected, NEW m \in reg.connected, l # m,
         Ahead(reg, home, l, k), Ahead(reg, home, k, m)
  PROVE  Ahead(reg, home, l, m)
<1>1. /\ reg.policy[l].priority \in Nat /\ reg.policy[k].priority \in Nat
      /\ reg.policy[m].priority \in Nat
  BY DEF Chronological, GoodRegistry, LaneRegistries, Policy
<1>2. <<l, k>> \in reg.older /\ <<k, m>> \in reg.older => <<l, m>> \in reg.older
  BY DEF Chronological
<1> QED
  BY <1>1, <1>2 DEF Ahead

LEMMA NextExists ==
  ASSUME IsFiniteSet(Lanes), NEW reg, Chronological(reg), NEW home,
         NEW S \in SUBSET reg.connected, S # {}
  PROVE  \E l \in S : /\ IsNext(reg, home, S, l)
                      /\ \A k : IsNext(reg, home, S, k) => k = l
<1> DEFINE R == {q \in S \X S : Ahead(reg, home, q[1], q[2])}
<1>1. IsFiniteSet(S)
  BY FS_Subset DEF Chronological, GoodRegistry, LaneRegistries
<1>2. \A a, b \in S : <<a, b>> \in R <=> Ahead(reg, home, a, b)
  OBVIOUS
<1>3. \A a, b \in S : a # b => (<<a, b>> \in R <=> <<b, a>> \notin R)
  BY <1>2, AheadOneWay
<1>4. \A a, b, c \in S : a # c /\ <<a, b>> \in R /\ <<b, c>> \in R => <<a, c>> \in R
  BY <1>2, AheadTransitive
<1> HIDE DEF R
<1>5. PICK l \in S : \A k \in S \ {l} : <<l, k>> \in R
  BY <1>1, <1>3, <1>4, FirstOfOrder
<1>6. IsNext(reg, home, S, l)
  BY <1>2, <1>5 DEF IsNext
<1>7. ASSUME NEW k, IsNext(reg, home, S, k) PROVE k = l
  BY <1>6, <1>7, AheadOneWay DEF IsNext
<1> QED
  BY <1>6, <1>7

ReadInTime(r) == r.listed => Chronological(r.read)

TimeInv ==
  /\ Chronological(lanes) /\ Chronological(saved.lanes)
  /\ \A e \in Executors : ReadInTime(route[e])

(* A step connects or updates one lane, or goes back to what was saved.     *)
LEMMA LanesChronological ==
  ASSUME WorldTypeOK, TimeInv, [RoutingNext]_routingVars
  PROVE  Chronological(lanes') /\ Chronological(saved'.lanes)
<1> USE DEF outside
<1>1. Chronological(lanes) /\ Chronological(saved.lanes)
  BY DEF TimeInv
<1>2. ASSUME Chronological(lanes'), SavesAll \/ UNCHANGED saved
      PROVE  Chronological(saved'.lanes)
  BY <1>1, <1>2 DEF SavesAll, Upsert
<1>3. ASSUME NEW l \in Lanes, ConnectLane(l) PROVE Chronological(lanes') /\ SavesAll
  <2>1. PICK p \in Bootstraps(Engine[l]) : lanes' = Connected(lanes, l, p)
    BY <1>3 DEF ConnectLane
  <2>2. p \in Policy
    BY RoutingAssumption, BootstrapTyped
  <2> QED
    BY <1>1, <1>3, <2>1, <2>2, ConnectChronological DEF ConnectLane
<1>4. ASSUME NEW l \in Lanes, NEW p \in LanePolicies, UpdateLane(l, p)
      PROVE  Chronological(lanes') /\ SavesAll
  BY <1>1, <1>4, UpdateChronological, RoutingAssumption DEF UpdateLane
<1>5. CASE UNCHANGED lanes /\ (SavesAll \/ UNCHANGED saved)
  BY <1>1, <1>2, <1>5
<1>6. CASE ChangeWorldPolicy \/ LookAtWorld \/ SaveAll
  BY <1>5, <1>6 DEF ChangeWorldPolicy, LookAtWorld, SaveAll, SavesAll
<1>7. CASE QueueOnDefaultLane \/ WithoutAdapter \/ SwitchAutonomy
  BY <1>5, <1>7 DEF QueueOnDefaultLane, WithoutAdapter, SwitchAutonomy
<1>8. ASSUME NEW e \in Executors,
             \/ \E d \in Dispatches : SelectOnLane(e, d)
             \/ ListFallbacks(e) \/ LaneAnswers(e) \/ LaneFails(e) \/ Close(e) \/ Lose(e)
      PROVE  UNCHANGED lanes /\ (SavesAll \/ UNCHANGED saved)
  BY <1>8 DEF SelectOnLane, ListFallbacks, LaneAnswers, LaneFails, Close, Lose
<1>9. CASE CredentialsChange \/ WorkspaceChanges \/ UNCHANGED routingVars
  BY <1>5, <1>9 DEF CredentialsChange, WorkspaceChanges, routingVars
<1>10. CASE Restart
  BY <1>1, <1>10 DEF Restart
<1> QED
  BY <1>2, <1>3, <1>4, <1>5, <1>6, <1>7, <1>8, <1>9, <1>10 DEF RoutingNext

(* What an executor has read it keeps; what it reads is the registry.       *)
LEMMA ReadsChronological ==
  ASSUME TypeInv, RouteInv, TimeInv, [RoutingNext]_routingVars, NEW e \in Executors
  PROVE  ReadInTime(route'[e])
<1> USE DEF house, vars, outside
<1>0. /\ route \in [Executors -> Routes] /\ exec \in [Executors -> Working \cup {Idle}]
      /\ ReadInTime(route[e]) /\ ReadInTime(NoRoute) /\ Chronological(lanes)
  BY DEF TypeInv, TypeOK, RouteInv, TimeInv, ReadInTime, NoRoute
<1>1. CASE route'[e] \in {route[e], NoRoute}
  BY <1>0, <1>1
<1>2. CASE RoutesKept
  BY <1>1, <1>2 DEF RoutesKept
<1>3. CASE \E l \in Lanes : ConnectLane(l) \/ \E p \in LanePolicies : UpdateLane(l, p)
  BY <1>1, <1>3 DEF ConnectLane, UpdateLane
<1>4. CASE \/ ChangeWorldPolicy \/ LookAtWorld \/ SaveAll
           \/ QueueOnDefaultLane \/ WithoutAdapter \/ SwitchAutonomy
  BY <1>1, <1>4
  DEF ChangeWorldPolicy, LookAtWorld, SaveAll, QueueOnDefaultLane, WithoutAdapter, SwitchAutonomy
<1>5. CASE CredentialsChange \/ WorkspaceChanges \/ UNCHANGED routingVars
  BY <1>1, <1>5 DEF CredentialsChange, WorkspaceChanges, routingVars
<1>6. CASE Restart
  BY <1>2, <1>6 DEF Restart
<1>7. ASSUME NEW f \in Executors, NEW d \in Dispatches, SelectOnLane(f, d)
      PROVE  ReadInTime(route'[e])
  <2>1. route' = route \/ route' = [route EXCEPT ![f] = Selected(d)]
    BY <1>7 DEF SelectOnLane
  <2>2. ~Selected(d).listed
    BY DEF Selected, NoRoute
  <2>3. CASE route' = [route EXCEPT ![f] = Selected(d)] /\ e = f
    BY <1>0, <2>2, <2>3 DEF ReadInTime
  <2> QED
    BY <1>0, <1>1, <2>1, <2>3
<1>8. ASSUME NEW f \in Executors, ListFallbacks(f) PROVE ReadInTime(route'[e])
  <2>1. route'[f].read = lanes /\ \A g \in Executors \ {f} : route'[g] = route[g]
    BY <1>0, <1>8 DEF ListFallbacks
  <2> QED
    BY <1>0, <2>1 DEF ReadInTime
<1>9. ASSUME NEW f \in Executors, LaneAnswers(f) \/ Close(f) \/ Lose(f)
      PROVE  ReadInTime(route'[e])
  BY <1>2, <1>9 DEF LaneAnswers, Close, Lose
<1>10. ASSUME NEW f \in Executors, LaneFails(f) PROVE ReadInTime(route'[e])
  <2>1. CASE RoutesKept
    BY <1>2, <2>1
  <2>2. CASE route' = [route EXCEPT ![f].left = @ \ {exec'[f].at}]
    <3>1. PICK a : a = exec'[f].at
      OBVIOUS
    <3> DEFINE n == [route[f] EXCEPT !.left = @ \ {a}]
    <3>2. route' = [route EXCEPT ![f] = n]
      BY <1>0, <2>2, <3>1
    <3>3. n.read = route[f].read /\ n.listed = route[f].listed
      BY <1>0 DEF Routes
    <3> HIDE DEF n
    <3> QED
      BY <1>0, <3>2, <3>3 DEF ReadInTime
  <2> QED
    BY <1>10, <2>1, <2>2 DEF LaneFails
<1> QED
  BY <1>3, <1>4, <1>5, <1>6, <1>7, <1>8, <1>9, <1>10 DEF RoutingNext

(* A run that has lanes left to ask asks one, and there is no choice which: *)
(* the list of fallback_candidates is one list, whatever was connected      *)
(* again, updated, lost by a restart or left meanwhile.                     *)
NextIsDecided ==
  \A e \in Executors : route[e].listed /\ route[e].left # {} =>
    \E l \in route[e].left :
      /\ IsNext(route[e].read, exec[e].home, route[e].left, l)
      /\ \A k : IsNext(route[e].read, exec[e].home, route[e].left, k) => k = l

THEOREM OneNextLane == ASSUME IsFiniteSet(Lanes) PROVE RoutingSpec => []NextIsDecided
<1>1. RoutingInit => TypeInv /\ WorldTypeOK /\ RouteInv /\ TimeInv
  <2> SUFFICES ASSUME RoutingInit PROVE TypeInv /\ WorldTypeOK /\ RouteInv /\ TimeInv
    OBVIOUS
  <2>1. TimeInv
    BY NoLanesChronological DEF RoutingInit, TimeInv, ReadInTime, NoRoute
  <2> QED
    BY <2>1, WorldTypeInit, InitTypeInv, InitRouteInv DEF RoutingInit
<1>2. TypeInv /\ WorldTypeOK /\ RouteInv /\ TimeInv /\ [RoutingNext]_routingVars
      => (TypeInv /\ WorldTypeOK /\ RouteInv /\ TimeInv)'
  <2> SUFFICES ASSUME TypeInv, WorldTypeOK, RouteInv, TimeInv, [RoutingNext]_routingVars
               PROVE  (TypeInv /\ WorldTypeOK /\ RouteInv /\ TimeInv)'
    OBVIOUS
  <2>1. TypeInv' /\ WorldTypeOK' /\ RouteInv'
    BY WorldTypeNext, NextTypeInv, NextRouteInv, RoutingStep
  <2>2. Chronological(lanes') /\ Chronological(saved'.lanes)
    BY LanesChronological
  <2>3. \A e \in Executors : ReadInTime(route'[e])
    BY ReadsChronological
  <2>4. TimeInv'
    BY <2>2, <2>3 DEF TimeInv, ReadInTime, Chronological, GoodRegistry, Ordered
  <2> QED
    BY <2>1, <2>4
<1>3. RouteInv /\ TimeInv => NextIsDecided
  <2> SUFFICES ASSUME RouteInv, TimeInv, NEW e \in Executors, route[e].listed, route[e].left # {}
               PROVE  \E l \in route[e].left :
                        /\ IsNext(route[e].read, exec[e].home, route[e].left, l)
                        /\ \A k : IsNext(route[e].read, exec[e].home, route[e].left, k) => k = l
    BY DEF NextIsDecided
  <2>1. Chronological(route[e].read)
    BY DEF TimeInv, ReadInTime
  <2>2. route[e].left \in SUBSET route[e].read.connected
    BY DEF RouteInv, RouteOf, Sound
  <2> QED
    BY <2>1, <2>2, NextExists
<1> QED
  BY <1>1, <1>2, <1>3, PTL DEF RoutingSpec

-----------------------------------------------------------------------------
(* What the dispatch core promises its readers, the composition promises.   *)

(* With lanes, credentials and the workspace as they come, and an operator  *)
(* who resolves each approval once: one executor and one launch per         *)
(* dispatch, reports and settled dispatches that last, and a database that  *)
(* is the ledger.                                                           *)
THEOREM RoutingKeepsPromises ==
  ASSUME CockpitOperator
  PROVE  RoutingSpec => /\ []SoleOwner /\ []ToldIsDurable
                        /\ LaunchedOnce /\ SettledForGood /\ ImplementsLedger
BY RoutingIsDispatch, OneOwner, ReportsAreDurable, NeverLaunchedAgain, SettledStays, Refinement, PTL

(* And a run comes down to its end with every step its executor takes,      *)
(* however many lanes are connected while it works.                         *)
THEOREM RoutingAdvances == ASSUME IsFiniteSet(Lanes) PROVE RoutingSpec => RunsWindDown
BY RoutingIsDispatch, RunsAdvance, PTL

=============================================================================
