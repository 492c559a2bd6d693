---------------------------- MODULE HouseDispatch ----------------------------
(***************************************************************************)
(* The dispatch core of the house: the turns the operator asks for, the    *)
(* dispatch each one becomes, the approvals that gate a dispatch, and the  *)
(* executors that run it (HTTP requests and the autonomy loop).            *)
(*                                                                         *)
(* All handlers take one mutex around the runtime, so each lock section is *)
(* one action; between two sections of the same executor anything may      *)
(* happen.  Every section ends by writing the whole runtime to SQLite in   *)
(* one transaction.  The registries below are never shrunk, so an upsert   *)
(* of everything leaves on disk exactly the memory it was taken from.      *)
(***************************************************************************)
EXTENDS Naturals, FiniteSets

CONSTANTS
  MaxDispatch,     \* bound: turns (and so dispatches) the model creates
  Sessions,        \* session ids
  Lanes,           \* connected provider lanes
  CodexLanes,      \* the lanes whose provider is the default engine "codex"
  HttpWorkers,     \* concurrent POST /dispatches/execute-latest-live requests
  Autonomy,        \* the one autonomy loop task
  CockpitOperator, \* TRUE: grant/deny only what is pending, as the cockpit does
  Faults           \* the faults that may happen, a subset of FaultKinds

FaultKinds == {"persist", "crash", "cancel", "join"}

ASSUME BoundAssumption    == MaxDispatch \in Nat
ASSUME LaneAssumption     == CodexLanes \subseteq Lanes
ASSUME ExecutorAssumption == Autonomy \notin HttpWorkers
ASSUME SwitchAssumption   == CockpitOperator \in BOOLEAN /\ Faults \subseteq FaultKinds

Dispatches == 1 .. MaxDispatch  \* dispatch ids grow with time (UUID v7)
Executors  == HttpWorkers \cup {Autonomy}

NoLane    == "no lane"
NoSession == "no session"

Status   == {"none", "queued", "running", "awaiting_approval", "completed", "failed", "denied"}
Settled  == {"completed", "failed", "denied"}
TurnState == {"None", "Queued", "Executing", "AwaitingApproval", "Completed", "Failed", "Interrupted"}
ApprovalStatus == {"none", "pending", "granted", "denied"}

VARIABLES
  status,    \* dispatch -> its status ("none": not created)
  turn,      \* dispatch -> the state of the turn it was created with
  approval,  \* dispatch -> the status of its approval request, if any
  lane,      \* dispatch -> its provider lane
  session,   \* dispatch -> its session
  logged,    \* dispatch -> the status its latest status-bearing event announces
  disk,      \* the runtime as the last committed transaction left it
  exec,      \* executor -> where it stands in run_latest_dispatch_live_once
  enabled,   \* autonomy_status.enabled
  launched,  \* history: dispatches a provider was called for
  told       \* history: dispatches an executor reported completed

house == <<status, turn, approval, lane, session, logged>>
vars  == <<status, turn, approval, lane, session, logged, disk, exec, enabled, launched, told>>

House == [status |-> status, turn |-> turn, approval |-> approval,
          lane |-> lane, session |-> session, logged |-> logged]

EmptyHouse == [status   |-> [d \in Dispatches |-> "none"],
               turn     |-> [d \in Dispatches |-> "None"],
               approval |-> [d \in Dispatches |-> "none"],
               lane     |-> [d \in Dispatches |-> NoLane],
               session  |-> [d \in Dispatches |-> NoSession],
               logged   |-> [d \in Dispatches |-> "none"]]

\* An executor outside run_latest_dispatch_live_once.
Idle == [pc |-> "idle", job |-> 0, home |-> NoLane, at |-> NoLane, rest |-> {}]

HouseType ==
  [status   : [Dispatches -> Status],
   turn     : [Dispatches -> TurnState],
   approval : [Dispatches -> ApprovalStatus],
   lane     : [Dispatches -> Lanes \cup {NoLane}],
   session  : [Dispatches -> Sessions \cup {NoSession}],
   logged   : [Dispatches -> Status]]

\* pc: "attempt" calls the adapter of lane `at`, with the lanes of `rest` to
\* fall back to; "answered" and "exhausted" wait for the closing lock section.
\* `home` is the lane the dispatch had when it was selected.
Working ==
  [pc : {"attempt", "answered", "exhausted"}, job : Dispatches,
   home : Lanes, at : Lanes, rest : SUBSET Lanes]

Init ==
  /\ status = EmptyHouse.status /\ turn = EmptyHouse.turn
  /\ approval = EmptyHouse.approval /\ lane = EmptyHouse.lane
  /\ session = EmptyHouse.session /\ logged = EmptyHouse.logged
  /\ disk = EmptyHouse
  /\ exec = [e \in Executors |-> Idle]
  /\ enabled = TRUE
  /\ launched = {}
  /\ told = {}

-----------------------------------------------------------------------------
(* persist_runtime: one transaction, all of the runtime or none of it.     *)

Persisted     == disk' = House'
PersistFailed == "persist" \in Faults /\ UNCHANGED disk

\* Mutant: selects what is already running as well.
QueuedOrRunning == {d \in Dispatches : status[d] \in {"queued", "running"}}

Queued == {d \in Dispatches : status[d] = "queued"}

\* The id the next turn gets.
Fresh(d) == status[d] = "none" /\ \A c \in Dispatches : c < d => status[c] # "none"

\* Mutant: closes the gate without its ApprovalRequired event.
MarkWithoutGateEvent(d, s, t) ==
  /\ status' = [status EXCEPT ![d] = s]
  /\ turn'   = [turn EXCEPT ![d] = t]
  /\ logged' = IF s = "awaiting_approval" THEN logged ELSE [logged EXCEPT ![d] = s]

\* update_status and update_turn_state, with the event that announces them.
Mark(d, s, t) ==
  /\ status' = [status EXCEPT ![d] = s]
  /\ turn'   = [turn EXCEPT ![d] = t]
  /\ logged' = [logged EXCEPT ![d] = s]

-----------------------------------------------------------------------------
(* The operator.                                                           *)

\* queue_turn_for_lane: a turn and its dispatch, queued on lane l.
QueueTurn(d, s, l) ==
  /\ Mark(d, "queued", "Queued")
  /\ lane'    = [lane EXCEPT ![d] = l]
  /\ session' = [session EXCEPT ![d] = s]
  /\ UNCHANGED approval

CreateTurn ==
  /\ \E d \in Dispatches, s \in Sessions, l \in Lanes : Fresh(d) /\ QueueTurn(d, s, l)
  /\ UNCHANGED <<exec, enabled, launched, told>>
  /\ Persisted \/ PersistFailed

\* Mutant: reports completion although the transaction failed.
ReportCompletedAnyway(d) ==
  /\ Persisted \/ PersistFailed
  /\ told' = told \cup {d}

\* A section that completes d saves, then reports completion to the caller.
ReportCompleted(d) ==
  \/ Persisted /\ told' = told \cup {d}
  \/ PersistFailed /\ UNCHANGED told

\* execute_latest_dispatch: the newest queued dispatch, simulated from
\* running to completed inside one lock section; no approval is asked for.
ExecuteLatest ==
  /\ \E d \in Queued :
       /\ \A c \in Queued : c <= d
       /\ Mark(d, "completed", "Completed")
       /\ UNCHANGED <<approval, lane, session, exec, enabled, launched>>
       /\ ReportCompleted(d)

\* Mutant: an old page of the cockpit still shows the buttons.
ResolvableAgain(d) == approval[d] # "none"

\* What the operator may resolve: the handlers look no status up, the
\* cockpit shows the two buttons on pending approvals only.
Resolvable(d) ==
  /\ approval[d] # "none"
  /\ CockpitOperator => approval[d] = "pending"

\* Mutant: grants the approval and leaves its dispatch where it was.
GrantApprovalOnly(d) ==
  /\ Resolvable(d)
  /\ approval' = [approval EXCEPT ![d] = "granted"]
  /\ UNCHANGED <<status, turn, logged, lane, session, exec, enabled, launched, told>>
  /\ Persisted \/ PersistFailed

\* grant_approval: the dispatch is queued again, whatever its status was.
GrantApproval(d) ==
  /\ Resolvable(d)
  /\ approval' = [approval EXCEPT ![d] = "granted"]
  /\ Mark(d, "queued", "Queued")
  /\ UNCHANGED <<lane, session, exec, enabled, launched, told>>
  /\ Persisted \/ PersistFailed

\* deny_approval
DenyApproval(d) ==
  /\ Resolvable(d)
  /\ approval' = [approval EXCEPT ![d] = "denied"]
  /\ Mark(d, "denied", "Interrupted")
  /\ UNCHANGED <<lane, session, exec, enabled, launched, told>>
  /\ Persisted \/ PersistFailed

SetAutonomy ==
  /\ enabled' = ~enabled
  /\ UNCHANGED <<house, disk, exec, launched, told>>

\* Any other handler (capsules, lanes, distiller...) saves the whole runtime.
OtherHandlerSaves ==
  /\ disk # House
  /\ disk' = House
  /\ UNCHANGED <<house, exec, enabled, launched, told>>

-----------------------------------------------------------------------------
(* The executors: run_latest_dispatch_live_once, called by an HTTP request *)
(* or by a cycle of the autonomy loop.                                     *)

MayBegin(e) == exec[e] = Idle /\ (e = Autonomy => enabled)

\* Mutant: asks for an approval in a dirty workspace only.
GateReasonDirtyOnly(d, dirty) == dirty

\* approval_reason_for_dispatch: a non-default engine, or a dirty workspace.
GateReason(d, dirty) == lane[d] \notin CodexLanes \/ dirty

\* First lock section, gate closed: select a queued dispatch, request its
\* approval and return.
RequestApproval(e, d, dirty) ==
  /\ MayBegin(e) /\ d \in Queued
  /\ GateReason(d, dirty)
  /\ approval[d] \notin {"pending", "granted"}
  /\ Mark(d, "awaiting_approval", "AwaitingApproval")
  /\ approval' = [approval EXCEPT ![d] = "pending"]
  /\ UNCHANGED <<lane, session, exec, enabled, launched, told>>
  /\ Persisted \/ PersistFailed

\* Mutant: calls the provider even when the start could not be saved.
StartRunUnsaved(e, d, dirty, rest) ==
  /\ MayBegin(e) /\ d \in Queued
  /\ GateReason(d, dirty) => approval[d] \in {"pending", "granted"}
  /\ Mark(d, "running", "Executing")
  /\ exec' = [exec EXCEPT ![e] = [pc |-> "attempt", job |-> d, home |-> lane[d],
                                  at |-> lane[d], rest |-> rest]]
  /\ launched' = launched \cup {d}
  /\ UNCHANGED <<approval, lane, session, enabled, told>>
  /\ Persisted \/ PersistFailed

\* Mutant: the gate does not recognise an approval that was granted.
StartRunUngranted(e, d, dirty, rest) ==
  /\ MayBegin(e) /\ d \in Queued
  /\ GateReason(d, dirty) => approval[d] = "pending"
  /\ Mark(d, "running", "Executing")
  /\ UNCHANGED <<approval, lane, session, enabled, told>>
  /\ Persisted
  /\ exec' = [exec EXCEPT ![e] = [pc |-> "attempt", job |-> d, home |-> lane[d],
                                  at |-> lane[d], rest |-> rest]]
  /\ launched' = launched \cup {d}

\* First lock section, gate open, then the list of lanes to fall back to.  The
\* provider is called only if the transaction committed.
StartRun(e, d, dirty, rest) ==
  /\ MayBegin(e) /\ d \in Queued
  /\ GateReason(d, dirty) => approval[d] \in {"pending", "granted"}
  /\ Mark(d, "running", "Executing")
  /\ UNCHANGED <<approval, lane, session, enabled, told>>
  /\ \/ /\ Persisted
        /\ exec' = [exec EXCEPT ![e] = [pc |-> "attempt", job |-> d, home |-> lane[d],
                                        at |-> lane[d], rest |-> rest]]
        /\ launched' = launched \cup {d}
     \/ PersistFailed /\ UNCHANGED <<exec, launched>>

\* select_next_live_dispatch takes the highest score (primary lanes, words of
\* the mission), then the newest; here any queued dispatch, so that what holds
\* does so for this ranking and any other.
SelectAndRun(e) ==
  \E d \in Dispatches, dirty \in BOOLEAN :
    \/ RequestApproval(e, d, dirty)
    \/ \E rest \in SUBSET (Lanes \ {lane[d]}) : StartRun(e, d, dirty, rest)

At(e, pc) == exec[e].pc = pc

\* The executor goes on with its dispatch, or leaves it.
GoesOn(e, pc, at, rest) ==
  exec' = [exec EXCEPT ![e] = [pc |-> pc, job |-> exec[e].job, home |-> exec[e].home,
                               at |-> at, rest |-> rest]]
Leaves(e) == exec' = [exec EXCEPT ![e] = Idle]

\* The adapter answered.  A fallback lane becomes the lane of the dispatch, in a
\* lock section of its own; if its transaction fails the executor returns.
AttemptSucceeds(e) ==
  LET x == exec[e] IN
  /\ At(e, "attempt")
  /\ UNCHANGED <<status, turn, approval, session, logged, enabled, launched, told>>
  /\ \/ /\ x.at = x.home
        /\ GoesOn(e, "answered", x.at, x.rest)
        /\ UNCHANGED <<lane, disk>>
     \/ /\ x.at # x.home
        /\ lane' = [lane EXCEPT ![x.job] = x.at]
        /\ \/ Persisted /\ GoesOn(e, "answered", x.at, x.rest)
           \/ PersistFailed /\ Leaves(e)

\* Mutant: walks past the last lane to fall back to.
AttemptFailsPastTheEnd(e) ==
  LET x == exec[e] IN
  /\ At(e, "attempt")
  /\ UNCHANGED <<house, enabled, launched, told>>
  /\ Persisted
  /\ \E l \in x.rest \cup {NoLane} : GoesOn(e, "attempt", l, x.rest \ {l})

\* The adapter failed (EngineDegraded).  Only some errors fall back.
AttemptFails(e) ==
  LET x == exec[e] IN
  /\ At(e, "attempt")
  /\ UNCHANGED <<house, enabled, launched, told>>
  /\ \/ /\ Persisted
        /\ \/ \E l \in x.rest : GoesOn(e, "attempt", l, x.rest \ {l})
           \/ GoesOn(e, "exhausted", x.at, x.rest)
     \/ PersistFailed /\ Leaves(e)

\* Mutant: returns the error without closing the dispatch.
CloseFailedOpen(e) ==
  /\ At(e, "exhausted")
  /\ Leaves(e)
  /\ UNCHANGED <<house, disk, enabled, launched, told>>

\* Closing lock section of a run no lane answered.  No event is appended.
CloseFailed(e) ==
  LET d == exec[e].job IN
  /\ At(e, "exhausted")
  /\ status' = [status EXCEPT ![d] = "failed"]
  /\ turn'   = [turn EXCEPT ![d] = "Failed"]
  /\ Leaves(e)
  /\ UNCHANGED <<approval, lane, session, logged, enabled, launched, told>>
  /\ Persisted \/ PersistFailed

\* Closing lock section of an answered run.  The dispatch is not looked at
\* again: whatever happened to it in between, it becomes completed.
CloseCompleted(e) ==
  LET d == exec[e].job IN
  /\ At(e, "answered")
  /\ Mark(d, "completed", "Completed")
  /\ Leaves(e)
  /\ UNCHANGED <<approval, lane, session, enabled, launched>>
  /\ ReportCompleted(d)

\* The same section when the active mandala has another next action and the
\* session has nothing queued: the house queues it on the lane that answered.
CloseWithFollowUp(e) ==
  LET d == exec[e].job IN
  /\ At(e, "answered")
  /\ \A c \in Queued : session[c] = session[d] => c = d
  /\ \E f \in Dispatches \ {d} :
       /\ Fresh(f)
       /\ status'  = [status EXCEPT ![d] = "completed", ![f] = "queued"]
       /\ turn'    = [turn EXCEPT ![d] = "Completed", ![f] = "Queued"]
       /\ logged'  = [logged EXCEPT ![d] = "completed", ![f] = "queued"]
       /\ lane'    = [lane EXCEPT ![f] = exec[e].at]
       /\ session' = [session EXCEPT ![f] = session[d]]
  /\ Leaves(e)
  /\ UNCHANGED <<approval, enabled, launched>>
  /\ ReportCompleted(d)

-----------------------------------------------------------------------------
(* Faults.                                                                 *)

\* The adapter's blocking task panics: the executor returns at once.  An HTTP
\* executor is also dropped where it awaits when its client goes away.
ExecutorLost(e) ==
  /\ At(e, "attempt")
  /\ "join" \in Faults \/ ("cancel" \in Faults /\ e \in HttpWorkers)
  /\ Leaves(e)
  /\ UNCHANGED <<house, disk, enabled, launched, told>>

\* Mutant: the restart queues again what was running.
CrashAndRequeue ==
  /\ "crash" \in Faults
  /\ status' = [d \in Dispatches |->
                  IF disk.status[d] = "running" THEN "queued" ELSE disk.status[d]]
  /\ turn' = disk.turn /\ approval' = disk.approval
  /\ lane' = disk.lane /\ session' = disk.session /\ logged' = disk.logged
  /\ exec' = [e \in Executors |-> Idle]
  /\ enabled' = TRUE
  /\ UNCHANGED <<disk, launched, told>>

\* The process dies and starts again from what SQLite holds.
CrashAndRestart ==
  /\ "crash" \in Faults
  /\ status' = disk.status /\ turn' = disk.turn /\ approval' = disk.approval
  /\ lane' = disk.lane /\ session' = disk.session /\ logged' = disk.logged
  /\ exec' = [e \in Executors |-> Idle]
  /\ enabled' = TRUE
  /\ UNCHANGED <<disk, launched, told>>

-----------------------------------------------------------------------------
Step(e) ==
  \/ AttemptSucceeds(e)
  \/ AttemptFails(e)
  \/ CloseFailed(e)
  \/ CloseCompleted(e)
  \/ CloseWithFollowUp(e)

Next ==
  \/ CreateTurn
  \/ ExecuteLatest
  \/ \E d \in Dispatches : GrantApproval(d) \/ DenyApproval(d)
  \/ SetAutonomy
  \/ OtherHandlerSaves
  \/ \E e \in Executors : SelectAndRun(e) \/ Step(e) \/ ExecutorLost(e)
  \/ CrashAndRestart

Spec == Init /\ [][Next]_vars

\* A provider call returns and a task that holds the mutex releases it: the
\* runtime's threads are scheduled.  The autonomy loop wakes every 2 seconds.
\* Nothing is asked of the operator, who may never create or resolve anything.
FairSpec ==
  /\ Spec
  /\ \A e \in Executors : WF_vars(Step(e))
  /\ WF_vars(SelectAndRun(Autonomy))

-----------------------------------------------------------------------------
(* Properties.                                                             *)

\* Every variable stays in the domain the code's types and statuses give it.
TypeOK ==
  /\ House \in HouseType
  /\ disk \in HouseType
  /\ exec \in [Executors -> Working \cup {Idle}]
  /\ enabled \in BOOLEAN
  /\ launched \subseteq Dispatches
  /\ told \subseteq Dispatches

TurnOf(s) == CASE s = "none"              -> "None"
               [] s = "queued"            -> "Queued"
               [] s = "running"           -> "Executing"
               [] s = "awaiting_approval" -> "AwaitingApproval"
               [] s = "completed"         -> "Completed"
               [] s = "failed"            -> "Failed"
               [] s = "denied"            -> "Interrupted"

\* The two registries tell one story, and so does the copy on disk: a turn is
\* in the state of its dispatch, an approval is pending exactly while its
\* dispatch waits for it, and what is queued was never refused.
Coherent(h) ==
  \A d \in Dispatches :
    /\ h.turn[d] = TurnOf(h.status[d])
    /\ h.approval[d] = "pending" <=> h.status[d] = "awaiting_approval"
    /\ h.status[d] = "queued" => h.approval[d] \in {"none", "granted"}
    /\ h.status[d] = "denied" => h.approval[d] = "denied"

\* Coherence of the dispatch, turn and approval registries, in memory and on
\* disk, whatever the interleaving of executors, operator, crashes and failed
\* transactions (run_latest_dispatch_live_once against grant_approval).
RegistriesCoherent == Coherent(House) /\ Coherent(disk)

Busy(e) == exec[e] # Idle

\* No provider of a non-default engine works for a dispatch selected on that
\* engine before the operator resolved its approval (the gate at the head of
\* run_latest_dispatch_live_once), and with an operator who only resolves
\* what is pending the answer was "granted".
EngineGate ==
  \A e \in Executors :
    Busy(e) /\ exec[e].home \notin CodexLanes =>
      /\ approval[exec[e].job] \in {"granted", "denied"}
      /\ CockpitOperator => approval[exec[e].job] = "granted"

\* A provider is called only for a dispatch whose start is already on disk, so
\* that no crash can bring the dispatch back as if it had not been started
\* (operator resolving each approval once).
StartIsDurable ==
  \A d \in launched : disk.status[d] \notin {"none", "queued", "awaiting_approval"}

\* At most one executor works for a dispatch, and it is running meanwhile,
\* provided the operator resolves each approval once.
SoleOwner ==
  /\ \A e, f \in Executors : Busy(e) /\ Busy(f) /\ exec[e].job = exec[f].job => e = f
  /\ \A e \in Executors : Busy(e) => status[exec[e].job] = "running"

\* A provider is called at most once for a dispatch, through crashes, failed
\* transactions and lost executors (operator resolving each approval once).
LaunchedOnce ==
  [][\A e \in Executors : ~Busy(e) /\ Busy(e)' => exec'[e].job \notin launched]_vars

\* What an executor reported completed is completed on disk and stays so.
ToldIsDurable ==
  \A d \in told : disk.status[d] = "completed"

\* A settled dispatch never changes on disk again: no late answer, no crash and
\* no grant reopens it (operator resolving each approval once).
SettledForGood ==
  [][\A d \in Dispatches : disk.status[d] \in Settled => disk'.status[d] = disk.status[d]]_vars

\* Replaying the status-bearing events gives every dispatch the status it has;
\* the one exception is a failed run, which closes without an event.
LogTellsStatus ==
  \A d \in Dispatches :
    logged[d] = status[d] \/ (status[d] = "failed" /\ logged[d] = "running")

\* RETROBUILDER-HANDOFF.md: "Nada muda sem EventEnvelope", nothing changes
\* without an event.  The closing section of a failed run does.
NothingChangesWithoutEvent == \A d \in Dispatches : logged[d] = status[d]

\* Without faults a running dispatch is always somebody's work.
RunningIsOwned ==
  \A d \in Dispatches : status[d] = "running" => \E e \in Executors : exec[e].job = d

\* A running dispatch whose executor was lost, once on disk, stays running for
\* ever: no handler, no loop and no restart looks at it again.
OrphansAreNeverPickedUp ==
  [][\A d \in Dispatches :
        /\ status[d] = "running" /\ disk.status[d] = "running"
        /\ \A e \in Executors : exec[e].job # d
        => status'[d] = "running"]_vars

\* A run that began ends, one way or another.
RunsEnd == \A d \in Dispatches : (status[d] = "running") ~> (status[d] # "running")

\* What has been selected so far: a dispatch once for its approval, once to run.
Asked == {d \in Dispatches : approval[d] # "none"}
Begun == {d \in Dispatches : status[d] \in {"running", "completed", "failed"}}

Selections == Cardinality(Asked) + Cardinality(Begun)

\* While the autonomy loop stays enabled and something is queued, something is
\* selected again, whichever of the queued dispatches select_next_live_dispatch
\* prefers: no run holds the loop for ever, and nothing that is queued is such
\* that it can be neither started nor sent to the operator.  Of one dispatch it
\* says nothing: newer or better ones may be preferred to it for ever.
QueueIsServed ==
  \A n \in 0 .. 2 * MaxDispatch :
    (Queued # {} /\ Selections = n) ~> (Selections > n \/ ~enabled)

\* The phase a saved dispatch shows: when it is queued with a granted approval
\* it is past the gate.
Phase(s, a) ==
  IF s = "none" THEN "absent"
  ELSE IF s = "awaiting_approval" THEN "awaiting"
  ELSE IF s = "queued" /\ a = "granted" THEN "cleared"
  ELSE s

PhaseOf(h, d) == Phase(h.status[d], h.approval[d])

Ledger == INSTANCE DispatchLedger
            WITH Ids <- Dispatches, ledger <- [d \in Dispatches |-> PhaseOf(disk, d)]

\* The durable view of the house implements the ledger of DispatchLedger, with
\* every fault, as long as the operator resolves each approval once.
ImplementsLedger == Ledger!Spec

=============================================================================
