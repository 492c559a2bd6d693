# jimi: a verification project

This directory holds TLA+ models of the house server (`src/apps/jimi-server`, with the
registries of `src/crates/jimi-kernel`), the TLC configurations that check them on small
instances, and proofs, checked by TLAPS, of the theorems that should hold for every instance.
`PROJECT.json` maps each definition to the lines it was translated from, lists the runs, the
mutants that show each property can fail, the hazards and the theorems.

To check a module: `tlc -config HouseDispatchFaults.cfg MCHouseDispatch`.
To check proofs: `tlapm HouseDispatchProofs.tla`.

Contents: [the system](#the-system), [the plan](#the-plan), [the modules](#the-modules),
[the runs](#the-runs), [the proofs](#the-proofs), [what the code does that its documents do
not say](#findings), [what is left out](#what-is-left-out).

## The system

One process holds the whole house in memory (`HouseRuntime`: about twenty registries, each
an append-or-update list) behind one mutex. A handler locks the mutex, changes registries,
appends events, calls `persist_runtime`, which writes **everything** in one SQLite
transaction, unlocks, and sends copies of some events to a broadcast channel. When the
transaction fails most handlers answer with an error; memory keeps the change, and the next
handler that saves takes it to disk. At start the house is what SQLite holds, or an empty
house if that cannot be loaded.

Provider calls take seconds to minutes, so a dispatch is run in several lock sections with
the call in between; that is where most of the hard behaviour is.

### Components

| Component | State | Operations | Talks to | What makes it correct |
|---|---|---|---|---|
| Dispatch core (`main.rs`, `runtime.rs` dispatches, turns, approvals; `session.rs`) | dispatch status and lane, turn state, approval status, autonomy switch | create a turn; run the latest dispatch (simulated, or live with fallback lanes); grant, deny; start and stop autonomy | provider adapters (call without the lock), event log, store | registries agree; gate before a foreign engine runs; one executor and one provider launch per dispatch; a settled dispatch stays settled; what begins ends |
| Event log and stream (`EventStore`, `/ws/events`) | events, next sequence number, the `events` table, the channel, each watcher's receiver | append, save, send, connect, subscribe, receive, lag, disconnect, reload | every handler | what is streamed is durable; numbers identify events; replay only appends; no silent gap |
| Capsule packages, trust, slot | package status, trust and version, slot binding, install approvals | bootstrap, import, change trust, request, grant, deny, activate, deactivate, uninstall, upgrade | approvals (shared with dispatches), event log, store | nothing is activatable past a denial or an upgrade; the slot holds only what was cleared; nothing waits for an approval that is not there |
| Durable store (`durable.rs`) | the SQLite tables | `save_runtime`, `load_runtime`, search | all handlers | all or nothing; a reload is a house that has been |
| Provider lanes | connected lanes, their policies, the order they came in | bootstrap a lane, change its policy, default lane, fallback list | dispatch core, chat, credentials | a dispatch names a lane that is there; a run never falls back to a lane it asked; order of preference kept |
| Provider adapters and tokens (`provider_adapter.rs`, `provider_auth.rs`) | process-wide token cache, device-flow polls, token file | call Codex, Copilot, Anthropic; refresh and retry once on 401; poll the device flow | dispatch core, chat, distiller | a rejected token is not used again; one retry; a sign-in that was answered is not polled again |
| Chat (`/ws/chat`) | whether a socket waits for a provider | message, provider call with its timeout, device flow | lanes, events, memory | answers are in the log; what a chat leaves in memory spoils no checkpoint |
| Transcript distiller | the set of waiting sessions, the channel, the worker | offer, send, receive, distill, release | live runs (which alone offer their session), memory | set and channel agree; no answer is forgotten by coalescing; one transcript per turn |
| House memory (capsules, bands, checkpoints, promotions) | capsules by session with their band, checkpoints, learned rules of the active mandala | remember, sort into bands, summarize, promote | turns, runs, chat, distiller | the newest checkpoints tell of every capsule once; only the operator's word becomes a rule |
| FieldVault artifacts | records | seal, list | store | records are added only |
| World state cache | nodes and deltas by scope | replace a scope, save, slice | store, git and the file system, gate of the dispatch core | the gate sees the workspace as it is |
| Status, inventory, macro endpoints | none | read | everything | read-only |
| Capability records, graph endpoints | data types; a wrapper over an external crate | none of their own | | |
| Cockpit (`static/cockpit.html`) | browser page | shows buttons for what it believes pending | all endpoints | the assumption `CockpitOperator` below |

### What is hard here

* **Between two lock sections.** `run_latest_dispatch_live_once` selects a dispatch, unlocks,
  awaits the provider, and closes the dispatch without looking at it again. In between the
  operator may grant or deny its approval once more, another executor may select, the
  transaction of anybody may fail.
* **Fault in the middle.** A process that dies while a provider works leaves a dispatch
  `running` on disk; the request of a cockpit that goes away is dropped at its `await`; a
  blocking task may panic.
* **Memory ahead of disk.** After a failed transaction memory shows what disk does not; a
  crash then takes it back, and ids and sequence numbers are handed out again.
* **Send after unlock.** Two handlers may send in the other order than they appended; some
  send copies of events other handlers appended; one receiver may be too slow.
* **Long sequences of legal calls.** A package goes through imports, trust changes, requests,
  late rulings, upgrades and evictions in any order; no handler looks at all of them.
* **Caches and files of tokens**, read by one task while another refreshes them.
* **A set and a channel without a lock around both.** A run asks the distiller's set whether its
  session waits, adds it, and sends it; the worker looks, and takes it out of the set later.
* **Memory and disk that differ on purpose.** Rows of the world state are replaced in memory and
  only inserted on disk; a restart brings back what was gone.
* **Read now, used two sections later.** The home lane is read when a dispatch is selected, the
  lanes and credentials for the fallback list in the next section, and both change meanwhile.

Every place where one of these bites is a hazard in `PROJECT.json`, with the properties that
would catch it.

## The plan

In this order, the most important behaviour first. All of it is written.

1. `HouseDispatch`, the dispatch core with its transactions and faults, and
   `DispatchLedger`, the abstract specification it implements; proofs in
   `HouseDispatchProofs` and `DispatchLedgerProofs`.
2. `EventStream`, the event log, its table, the channel and its watchers, and `EventHistory`, the
   abstract specification it implements; proofs in `EventStreamProofs`.
3. `CapsuleLifecycle`, packages, trust, approvals and the slot; proofs in
   `CapsuleLifecycleProofs`.
4. `CopilotTokens`: the process-wide cache, the token store and `copilot_token.json`; refresh
   and one retry after 401; the device-flow poll; proofs in `CopilotTokensProofs`.
5. `HouseMemory`: the memory of turns, runs and chats, and the distiller's set, channel and
   worker; proofs in `HouseMemoryProofs` and, of bands and checkpoints, `HouseDigestProofs`.
6. `ProviderLanes` and `WorldState`, the algorithms of two registries, and `HouseRouting`, which
   composes them with `HouseDispatch`; proofs in `HouseRoutingProofs`.

What could come next: the bridges between capsules, once something reads them; the composition of
`HouseMemory` with `HouseDispatch`, of which it uses no more than that a queued turn may run; what
the operator is promised of a package, as an abstract specification of `CapsuleLifecycle`.

## The modules

| Module | Role |
|---|---|
| `HouseDispatch` | the dispatch core |
| `DispatchLedger` | what a reader of the database may rely on about a dispatch; implemented by `HouseDispatch` |
| `EventStream` | the event log and its stream |
| `EventHistory` | what a reader of the events table, or a watcher, may rely on; implemented by `EventStream` |
| `CapsuleLifecycle` | packages, trust, install approvals, the slot |
| `CopilotTokens` | the Copilot token: where it is looked for, left, refreshed |
| `HouseMemory` | capsules, bands, checkpoints, promotions, and the distiller |
| `ProviderLanes` | the lane registry, the default lane, the fallback list (operators) |
| `WorldState` | the world state cache by scope (operators) |
| `HouseRouting` | the dispatch core with lanes, credentials, world state and workspace; implements `HouseDispatch` |
| `MC…` | the small instances TLC checks |
| `…Proofs` | theorems and their proofs |

An action is one lock section of a handler: what a handler does while it holds
the mutex nobody sees half done. (`CopilotTokens`, and the offers and the worker of `HouseMemory`,
are about tasks between lock sections; there an action is one of their steps.) `persist_runtime`
is part of the section, with both its
outcomes. The transaction upserts every row; the registries of `HouseDispatch`, `EventStream`,
`CapsuleLifecycle` and `HouseMemory` never shrink, so a transaction that commits leaves on disk
exactly the memory it was taken from, and `disk` is a copy of the house. The rows of the world
state do shrink, so `HouseRouting` upserts them. Definitions whose comment starts with "Mutant:" are plausible bugs;
nothing uses them, and each makes a property fail when it replaces the definition below it.

### HouseDispatch

State: for each dispatch its `status`, the state of its `turn`, its `approval`, its `lane` and
`session`; `logged`, the status its last status-bearing event announces; `disk`; for each
executor its place in `run_latest_dispatch_live_once` (`exec`); the autonomy switch; two
history variables, `launched` and `told`. A dispatch and its turn are created together, so one
number names both; ids grow with time.

| Action | Code |
|---|---|
| `CreateTurn` | `create_turn` with `queue_turn_for_lane` |
| `ExecuteLatest` | `execute_latest_dispatch`: from running to completed in one section, without an approval |
| `GrantApproval`, `DenyApproval` | the two handlers, which look no status up |
| `SetAutonomy` | start and stop |
| `OtherHandlerSaves` | any other handler: it saves the house as it is |
| `RequestApproval`, `StartRun` | the first section: select, `approval_reason_for_dispatch`, mark, save; then the list of fallback lanes |
| `AttemptSucceeds`, `AttemptFails` | the answer of one adapter call, with the section that moves the dispatch to a fallback lane, or records the degraded engine |
| `CloseFailed`, `CloseCompleted`, `CloseWithFollowUp` | the last section |
| `ExecutorLost` | the task is dropped at its `await`, or the blocking task panics |
| `CrashAndRestart` | the process dies and loads what SQLite holds |

Abstracted: the ranking of `select_next_live_dispatch`, highest score first and then the newest. Any
queued dispatch may be selected, so every property holds for this ranking and for any other, and
none can say that a dispatch gets its turn; it need not ("Not findings", below). Also whether the
active mandala has a next action (it may or may not each time). The lane of a new
turn, the order of fallback lanes and whether the workspace is dirty are open here (any lane, any
order of any subset of the other lanes, dirty or not at each selection, because the code runs
`git status` at each selection); `HouseRouting` fills them in.

`CockpitOperator` is the one assumption about the world. The handlers of grant and deny accept
any approval id, in any status; the cockpit shows the two buttons for pending approvals only
(`cockpit.html:1068`). With `CockpitOperator = TRUE` the operator resolves what is pending;
with `FALSE` anything that exists, again and again. Which properties need it is part of what
the runs and the proofs show.

`DispatchLedger` is the promise in one page: phases of a dispatch only move forward, settled
ones are final, and a provider is launched for a dispatch at most once, in the step that puts
`running` on disk. `HouseDispatch!Ledger` maps the saved house to it: a dispatch that is queued
with a granted approval is `cleared`. A save may skip phases (memory went through them while
saves were failing) and may move several dispatches at once.

### EventStream

State: the `log` and `next` sequence number; `disk`, the rows of the table; for each handler
the events it still has to send; for each watcher its connection, with what it was shown and
what its receiver has not read; history of all that was ever minted and streamed. An event is
its id, its sequence number and who made it. The log and the table are sets: memory and
reload both order events by sequence number, older ids first among equals.

Each handler that appends is a `Section(h, by, k, n)`: append `k` events, save, and keep the
last `n` of **the log** for the channel, which is what the code does
(`events.all().iter().rev().take(n)`), so `n` may be less than `k` (`CloseWithFollowUp`) or
more (`BootstrapCoreCapsule`). `ChatOpensSession` and `Chat` ignore the result of the
transaction; the events of chat are therefore kept out of the durability properties by
`Vouched`, and nothing is claimed of them. `Send` hands one event to the channel at a time,
without the lock. A receiver more than `Capacity` behind is told so and the connection ends.
`Connect` takes the snapshot and `Subscribe` comes after it: what is streamed between the two
is lost to this watcher, and `NothingMissed` starts at the subscription on purpose.
`CrashAndRestart` renumbers from the greatest number on disk; `RestartEmpty` is
`load_runtime().unwrap_or_default()`.

### CapsuleLifecycle

State: for each package `status`, `trust` and `version`; the `slot`; the install `approvals` in
the order of their ids; `disk`; and the history variable `ruling`, the last decision about each
package and the version it was made on. `ruling` is saved and reloaded with the house, so
that after a crash it speaks of the requests that survived.

Every handler is an action of the same name. `BootstrapCoreCapsule` registers the core package
once and binds the slot every time. `RequestCapsuleInstall` is refused for an installed
package or while a request is undecided; an internal package is ready at once and
asks for an approval all the same. `GrantApproval` and `DenyApproval` set the status of the
package whatever it is by then. `UpgradeCapsulePackage` leaves the slot as it is.

Abstracted: the code knows one slot id and binds and activates it in one section, so the slot
is the package it holds; trust is internal or not, as only that changes what a handler
does; capabilities, import and export records, the preview, and the memory policy of a mandala
decide nothing here. A failed load is left out: an empty house has none of these properties to
lose, but is saved over the old rows package by package, and what then mixes is the subject of
`EventStream`'s `load` fault.

### CopilotTokens

State: the process-wide `cache` (a `OnceLock`, set once), the entry of the token `store` and of
its file `storefile` (`oauth_tokens.json`), the `tokenfile` (`copilot_token.json`); the `logins`
other tools left on the machine; how many tokens were `issued` and which are `dead`, that is
answered with a 401; for each task, a blocking call of the adapter or a device flow, its place
`pc`, the `token` in its hands, the places it still has `todo`, and the token `rejected` at its
first request.

`LookInCache`, `LookInStore`, `Exchange`, `LookInFile`, `Import`, `FromEnvironment` and
`MissingCredentials` are the steps of `obtain_copilot_token`, in its order. A source that has a
token gives the task a list of places to leave it in; the lists are those of the code and
differ (`FileStoreCache`, `StoreCacheFile`, ...). `Leave` does one of them: `cache` has no effect
if the cache is set, `store` is one step because the store is locked while its file is written,
`truncate` and `file` are two because `copilot_token.json` is created and then written without
a lock, and two tasks that do so at once may leave a mixture that nobody can read. `Rejected`,
`Refresh`, `ExchangeAgain`, `KeepRefreshed` and `KeepOpenai` are what `run_provider_adapter` does after a
401; the last sets the entry "openai", which no step here reads, but writes the whole of
`oauth_tokens.json` to do so.
`MissingCredentials` may start a device flow (the chat does, the other callers do not), which
ends with `Authorized` or `GivesUp`. `CrashAndRestart` loses every task and the cache; it may find
the file of the store half written.

Abstracted: time, so a token in the store may be found expired, and one at the provider may die,
at any moment; the provider of the lane, which is read only by the refresh and chosen there
(the Copilot adapter serves lanes of several providers); the sixty polls, which end in `GivesUp`;
the 120 s of the chat, after which the blocking task goes on all the same. The fault `write`, a
file that cannot be written, is in the module and covered by the proofs; the run has crashes
only, which are enough to leave a file empty.

### HouseMemory

State: `house`, the turns, the capsules in the order of their ids, the newest checkpoint of each
band of each session (`digest`: the capsules it cites), the `rules` learned and whether the active
mandala promotes; `disk`, the same as last saved; for each live run (`runner`) and each chat
where it is; `pending` and `queue`, the distiller's set and channel; the `worker`; and the history
`owed`, the turns whose live answer the distiller has yet to look at.

| Action or operator | Code |
|---|---|
| `Refreshed` | `refresh_memory_for_session`: `Rebanded`, `Summarized`, `Promoted`, in this order |
| `Queued`, `CreateTurn` | `queue_turn_for_lane`; the intent of a follow-up has the role of the distiller |
| `Answered`, `ExecuteLatest` | the answer's capsule, after which the session is refreshed; the simulated run |
| `RequestApproval`, `ResolveApproval`, `StartRun`, `RunFails` | as in `HouseDispatch`, as far as the status of a turn goes; a ruling may be repeated, whatever has become of the turn |
| `Complete` | the closing section of a live run, perhaps with a follow-up; then the offer, unless the transaction failed |
| `Offer`, `Send` | `enqueue_transcript_distillation` |
| `Receive`, `Distill`, `Release` | the worker, with `distill_session_transcript` in one section |
| `Ask`, `Answer`, `GiveUp` | a chat: the question is kept in memory only, the answer saved; neither refreshes |
| `ChangePolicy` | `update_mandala_memory_policy`, or another mandala becomes active |
| `OtherHandlerSaves`, `CrashAndRestart` | as elsewhere; set, channel and chats are gone after a crash |

Abstracted: the text of capsules (`Said` is what the heuristics may hear in an answer), which turn
may run when (`HouseDispatch`; any queued turn may), older checkpoints (each refresh adds three;
the newest of each band is what is read), a mandala that is not there (one that does not promote).
The constants `HotCount`, `WarmCount` and `Window` are 5, 5 and 6 in the code.

### ProviderLanes, WorldState and HouseRouting

`ProviderLanes` is the registry as a record (`connected`, `policy`, `older`, which lane was
connected before which) with what is computed from it: `IsDefault`, the lane of a new turn;
`Fallbacks`, the lanes of the home's group with credentials if there are any and all with
credentials if not; `Ahead`, the order they are asked in (the engine of the home lane first, then
priority, then primary lanes, then the older). `WorldState` is the cache as a set of rows:
`Refreshed` replaces the scope of the active policy in memory, `Upserted` is what the transaction
does to the table, `Slice` what prompts and the gate are told.

`HouseRouting` EXTENDS `HouseDispatch` and adds to each of its actions the rest of the house: each
action of `RoutingNext` is an action of `HouseDispatch`, or leaves its variables alone, with one
transaction for both (`SavesAll`).

| Action | Code |
|---|---|
| `ConnectLane`, `UpdateLane` | the bootstrap handlers; the change of a lane's policy |
| `ChangeWorldPolicy`, `LookAtWorld` | the policy of the active mandala; `context_packet`, `world_state_status` and the chat's packet |
| `QueueOnDefaultLane` | `create_turn`, which asks `IsDefault` |
| `SelectOnLane` | the first section of a run: lane and group are read, the world refreshed, the gate asked |
| `ListFallbacks` | the second: credentials are detected and the list made, of the lanes as they are by now |
| `LaneAnswers`, `LaneFails` | an adapter call; a lane that fails is followed by the next of the list |
| `Close`, `Lose`, `WithoutAdapter`, `SwitchAutonomy`, `SaveAll` | what else the dispatch core does |
| `CredentialsChange`, `WorkspaceChanges` | outside: a login comes or goes, files change |
| `Restart` | everything is read back; the world state is what the table has, rows of gone files included |

Abstracted: of a lane, its model and its label; of the scopes, all that list the directory are one
and all others another; relations between nodes, which are replaced and saved as the nodes are;
`saved` needs no rows of lanes that are gone, since lanes are never removed. The branch for a
dispatch whose lane is not in the registry is left out of `SelectOnLane` because it cannot be
reached: that is `LanesAreThere`, which is checked and proved.

## The runs

| Run | Instance | Shows |
|---|---|---|
| `dispatch_faults` | 2 dispatches, 2 lanes (one the default engine), 2 HTTP executors and the loop, all faults, careful operator | no foreign engine is launched unless the gate was passed, one owner, one launch, durable starts and reports, settled stays settled, the log tells the status but for a failed run, orphans stay running for ever, the ledger is implemented |
| `dispatch_replay` | 1 dispatch, the same executors and faults, an operator who resolves anything again | the registries agree |
| `dispatch_live` | 2 dispatches, 2 sessions, 1 HTTP executor and the loop, no faults, fairness | what is running is owned, runs end, something is selected again while autonomy is on and something is queued |
| `silent_failure` | 1 dispatch, no faults | violated: a failed run changes the house and appends no event |
| `events` | 2 handlers, 1 watcher, channel of 1, 6 events, all faults | what is streamed is durable, a live watcher has no gap, a streamed number names one event, the table grows at its end |
| `unsent_events` | 2 handlers, 6 events, no faults | violated: two of the three events of a closing run are never sent |
| `capsules` | 2 packages, 2 versions, 3 requests, all faults | nothing slips past a denial or an upgrade, nothing waits in vain, the slot holds what was cleared, through any order of calls, failed transactions and crashes |
| `uninstalled_active` | 2 packages, 2 versions, 2 requests, no faults | violated: the core package is active while uninstalled |
| `tokens` | 2 calls, 1 device flow, 2 tokens, crashes, fairness | a retry presents the cached token, a sign-in survives, a dead file locks the house out for good, calls end |
| `stale_retry` | 1 call, 1 device flow, no faults | violated: the retry presents the token that was just rejected |
| `house_memory` | 2 sessions, 2 live runs, 1 chat, 3 turns, bands of 2 and 1, window of 2, all faults, fairness | set and channel agree, no answer is forgotten by coalescing, one transcript per turn, rules are the operator's, checkpoints tell of each capsule once, what is in the set leaves it |
| `house_routing` | 2 dispatches, the loop, 3 lanes of 3 engines, 3 world policies, 2 workspaces, 2 sets of credentials, all faults | a dispatch names a lane that is there, fallback is sound however lanes and credentials change, the gate sees the workspace as it is |

**Bounds.** `MaxDispatch = 2`: the interesting cases are two executors on one dispatch, a
dispatch with its follow-up, and a save that takes two dispatches to disk. `QueueIsServed` does not rest
on there being two: it is about how many selections there have been, and `QueueMoves` proves
for any number that each is a new one (a run with three dispatches of one session agrees, and takes
too long to be kept). Two HTTP executors
and the loop: two of a kind that can be dropped and one that starts by itself. Two lanes: one
gated and one not, one fallback. One dispatch in `dispatch_replay`: the operator's replays are
about one dispatch and the state space of two is large. `MaxEvents = 6` leaves room for a
session, a turn and its closing section with a follow-up, or two bootstraps; three events with a
watcher or a failed load (`WatchedWhileShort`) are enough to overrun a channel of 1, which has the
same code path as one of 256. Two packages: the core and one imported, as in the code; two versions: one
upgrade; three requests: a denied, a granted and a further one. A house that is ahead of its disk is
followed through its first versions and its first request (`FaultsWhileFirst`); longer sequences
with all faults are the subject of the proofs, which have no bounds. The handlers of `EventStream` are interchangeable and its runs
have no liveness property, so they use symmetry. Deadlock is checked in every run.
Two tokens are the one that is rejected and the one that replaces it; two calls and a flow put
three tasks in each other's way at every place. With a second flow TLC finds `SignInSurvives`
violated: two sign-ins in direct mode may write the token file at once and nothing else on disk
holds their tokens (a hazard of its own); `SignInIsKept` proves that one flow at most is all it takes.
Three turns in `house_memory` are an answer, its follow-up and one of another session, or three
answers of one session, which is one more than the hot band holds; `MemoryBound` says which of the
chats, failures and approvals go with how many of them. In `house_routing` the lanes and the
workspace change in separate halves of the run (`RoutingBound`), since nothing reads both but the
selection, which reads them one after the other: three lanes put two in the list, so there is an
order; the one policy that the operator may give instead of each default changes priority, mode
and group. Constraints cut what TLC explores, not the module: the theorems hold without them.

**Fairness** (`FairSpec` of `HouseDispatch`, in `dispatch_live`). Weak fairness of `Step(e)`: a provider call
returns (the adapters set timeouts or the CLI exits) and a task that wants the mutex gets it.
Weak fairness of `SelectAndRun(Autonomy)`: the loop wakes every two seconds and tries.
Nothing is asked of the operator, who may never grant anything and may stop the loop: `QueueIsServed`
counts what is sent to the operator as well as what is begun, and ends where the loop is stopped. It
speaks of the queue, not of a dispatch in it: weak fairness of `SelectAndRun` gives none of them its
turn, and neither does the code. With faults none of the liveness properties holds, and
`OrphansAreNeverPickedUp` says which way: no handler, no loop and no restart ever looks at an
orphan again. `FairSpec` of `CopilotTokens`, in `tokens`: weak fairness of each call, because every
request has a timeout of 30 s and nothing in a call waits for another task but the lock of the
store. Nothing is asked of device flows: the user need not sign in. `FairSpec` of `HouseMemory`, in
`house_memory`: weak fairness of `Send`, which follows the set's insertion without an `await`, and
of the worker's three steps; `Distill` is fair by what it does to the worker (`Looks`), whichever
notes it writes and whether or not they are saved. Nothing is asked of runs, chats or operators.

## The proofs

All theorems are for every value of the constants that meets the named assumptions: any number
of dispatches, lanes, executors, handlers, watchers, packages, calls, device flows, any subset of the faults.

**Dispatch core.** Three inductive invariants, each built on the one before.

1. `TypeInv` is `TypeOK`, with the shape of `exec` (theorem `TypeCorrect`).
2. `GateInv` adds `RegistriesCoherent` and `EngineGate`, and what they need: both houses are
   coherent, and what an executor was started for passed the gate. It holds for every operator
   and every fault (`Registries`, `GateHolds`).
3. `LedgerInv` adds `SoleOwner`, `MemoryAhead` (phase by phase, memory is where disk is or
   further on) and `HistoryKept` (`launched` and `told` against memory and disk). It needs
   `CockpitOperator`, and TLC shows why: an operator who grants an approval again while
   the executor works puts the dispatch back in the queue under it. From it follow `OneOwner`,
   `ReportsAreDurable`, `StartsAreDurable`, `NeverLaunchedAgain`, `SettledStays`, and `Refinement`,
   that every step of the house is a step or a stutter of `DispatchLedger`. `MemoryAhead` is what
   makes the refinement work: a crash throws memory away, so what the ledger sees must never
   depend on memory coming back.

**What the log tells and who owns a run.** `Told`, of memory and of disk, says that the last event
of a dispatch tells its status but for a failed run; with `LedgerInv` it gives `LogTells`.
`RunsOwned` needs `Faults = {}`: without faults what is running is in an executor's hands.
`OrphansStay` is the other side: what is running on disk and nobody's work is out of reach of every
step, because executors start only what is queued and, with `GateInv`, rulings touch only what
awaits one.

**Event stream.** `StreamInv` (`TypeOK`, `Numbered`: ids and numbers within what was minted;
`Covered`: what handlers have to send or have sent is durable or unchecked; `NothingMissed`) is
inductive with every fault and gives `StreamTypes`, `StreamIsDurable` and
`LiveWatchersMissNothing`. `OrderInv` relates the order of numbers in log and table, as long as no
load has failed (`restarted`); it gives `SequencesIdentify`. `HistoryRefinement` puts the two
invariants together: every step of the house is a step or a stutter of `EventHistory`. Memory runs
ahead of the table and a crash takes it back, so the table grows by what `Ordered` says comes after
it, and a step that saves tells nobody: the one event that is streamed inside a lock section is of
a chat, which nobody vouches for. That a failed load ends the order is no accident of the proof: an
empty house numbers from one on top of the old rows (`Renumber`); that nothing is told that is not
in the table holds even then.

**Capsules.** `CapsuleInv` is `Sound` of memory and of disk, where `Sound` is a predicate of a
house: types, nothing fresh has a history, activatable means cleared, an occupant of the slot
has a warrant among the approvals, released means out, waiting means decidable. Stating it of
both copies makes the crash a trivial step. `NoWayAround` needs `CockpitOperator` (an approval
denied after its grant would leave an occupant without a warrant); the others do not.

**Tokens.** `TokenTypes` is `TypeOK`, inductive as it stands. `RetryIsFutile` is
`RetryPresentsCache`, from an invariant over every task: who is about to send holds what the
cache holds or reached it with the cache still among its places to fill, and a call that had a 401 left the
cache filled, so its retry can only come from there. No fault is excluded.

`LockedOutStays` goes through the steps of a call of a locked-out house one by one: what it finds
is the dead token, or its copy in the cache, and the one way to anything else is a sign-in, which
only missing credentials start.

`SignInIsKept` follows every list a task has left to do: a token that is cached, or about to be, is
in a file or some task will still put it there. It assumes at most one device flow, since two that
end in direct mode are a counterexample.

**Memory.** `MemInv` is `Good` of memory and of disk, with `OffersAreKept`, `AnswersAreAwaited` and
that a session in the set has a turn. `Good` is a predicate of a house: types; `Filed`, every
capsule is of a turn of its own session or of a chat, and the operator's role is found on the
intents of the operator's turns only; `Transcribed`; `Learned`, rules are operator's capsules in
the order of their ids. A refresh keeps it because it learns at most the newest capsule, which is
newer than all that was learned. `NewestIsNewest`, that a non-empty bounded set has a greatest
element, rests on the well-foundedness of `<`. No assumption on operator or faults.

**Bands and checkpoints** (`HouseDigestProofs`). A capsule's band is decided by its rank, the number of
capsules of its session that are newer. Ranks of a finite set of ids are a bijection onto
`0 .. n - 1` (`EveryRankTaken`: they are injective, and a finite set maps one to one into another of
its size only onto it), which replaces the induction that the prover cannot do. It gives `BandsByAge`,
how many capsules are in each band after a refresh and that bands follow age, and `BandsFill`,
that a band holds something just when the session has more capsules than the bands before it
take. So a band that ever had a capsule is never empty again, a refresh always writes its checkpoint
anew, and no old checkpoint outlives what it cites. `DigestInv` says so of memory and of disk, with
what a chat adds between two refreshes; on top of `MemInv` it is inductive and gives `DigestsTell`.

**Routing.** `RoutingIsDispatch`: every behaviour of the composition is one of `HouseDispatch`, so
its theorems carry over (`RoutingGate`, `RoutingKeepsPromises` with the ledger, `RoutingAdvances`).
`RouteInv` says what an executor knows of its list, `PlacedInv` that dispatches are on lanes that are there, in memory and on disk, and where
executors believe them; with them `RoutingTypes`,
`SoundRoutes`, and `LanesThere`, which needs `CockpitOperator` because a second grant lets a second
executor move the lane under the first. `GateSees` rests on the refresh, which replaces the whole
scope the slice reads in the same section, and on `DiskBehind`: a dispatch that is queued in memory
without an approval is not running or waiting on disk, so no restart starts it past the gate.

`OneNextLane`: a run that still has lanes to ask has exactly one that is next. `LaneFails` would be
stuck, and `sort_by` unspecified, if the comparator of `fallback_candidates` were not a strict total
order; it is one because `connected_at`, which no two lanes
share, is a chain over the connected lanes (`Chronological`), which a lane that is connected again,
updated, or brought back by a restart leaves a chain, and which each executor's copy of the registry was when it was read. `FirstOfOrder` finds the first
element of a finite ordered set by ranks, as above.

**Progress.** Liveness is out of reach, but most of what it rests on is not. `RunsAdvance`, `CallsComeDown`
and `OffersAdvance` each give a run, a call and a waiting session a natural number that every step
of the one it waits for lowers and that no step of anybody else, no fault and no restart raises:
the lanes a run may still ask, the rungs a call has before its answer (through one refresh and one
retry), the place in the channel and what the worker still does with the session in its hand.
They are action properties, proved for every value of the constants (`IsFiniteSet(Lanes)` for
runs). `QueueMoves` does for the queue what counts up instead: no step but a crash takes back that a
dispatch was sent to the operator or begun, and every selection, of whichever dispatch, adds one. What fairness adds, and TLC alone checks, is that the next step is taken: it has to be
enabled and not put off for ever.

**Only model-checked.** `RunsEnd`, `QueueIsServed`, `CallsEnd`, `OffersAreTaken` (liveness under fairness is
out of the prover's reach, as is ENABLED), and the four violations, which are about one behaviour
each. Every other property of the runs is a theorem.

## Findings

* **A failed run is silent** (`main.rs:2216`, run `silent_failure`). The section that closes a
  failed run changes the dispatch and its turn and appends no event, where
  `docs/specs/RETROBUILDER-HANDOFF.md:166` says nothing changes without an envelope. A
  replay of the events shows the dispatch running for ever. `LogTellsStatus` shows that this is
  the only such place in the dispatch core.
* **Two events are never streamed** (`main.rs:2343`, run `unsent_events`). A closing run with a
  follow-up appends three events and keeps the last one for the channel, so a connected cockpit sees
  neither the completed message nor the start of the follow-up; `create_turn`, with the same
  helper, sends two.
* **An uninstalled package is active** (`main.rs:4032`, run `uninstalled_active`). Bootstrap,
  uninstall, bootstrap: the core package is back in the slot and its status still says
  uninstalled. Imported packages do not have this problem, which is `ReleasedIsNotActive`.
* **The retry after a 401 is futile** (`provider_adapter.rs:832`, run `stale_retry`). The
  comment at `provider_adapter.rs:336` promises to refresh the token and retry. The refresh changes the store, the
  retry asks the cache first, and the cache is a `OnceLock`: the retry and all later calls of this
  process present the token that was just rejected.

Not findings, but worth knowing: dispatches left `running` by a crash or by a cockpit that
went away are never picked up (`OrphansAreNeverPickedUp`); granting an approval twice
while it runs starts the dispatch again (`SoleOwner` fails without `CockpitOperator`); a dead token in
`copilot_token.json` with nothing to refresh it from locks the Copilot lane out across restarts,
because a 401 is not taken for missing credentials (`LockedOutForGood`). A `git status` that fails
is taken for a clean workspace and opens the gate; a fallback to another engine in the middle of a
run is not gated again. A queued dispatch may wait for ever: `select_next_live_dispatch`
(`main.rs:1853-1881`) takes the highest score and then the newest, so new turns, and the follow-ups
the closing section queues (`main.rs:2301-2341`), may be preferred to an older one of another session
each time. What holds is that the queue as a whole is served (`QueueIsServed`).

Of the distiller: a run that completes between the worker's look and its leaving the set is
dropped without being looked at (`AnswersAreAwaited` leaves out just this case, in `Offer`); the
transcript is attributed to the session's latest turn, which may be a follow-up queued a moment ago
or a turn that still runs, and then no later look transcribes that turn's own answer; a
closing transaction that fails skips the offer; and simulated runs are never offered. Distillation
after turn completion with coalescing is what
`docs/specs/CRUSH-TO-JIMI-MEMORY-DONOR-MAP.md:94` plans; it promises nothing of these cases.

## What is left out

* Of the adapters: how credentials of the other providers are detected, and their calls, which
  keep no state; a call is one step that may succeed or fail.
* Of memory: bridges and resume triggers, which are made from capsules and decide nothing; the
  ranking of a search; the sealing of capsules into the FieldVault, which asks for privacy
  classes that no capsule is given; older checkpoints.
* The score that ranks queued dispatches.
* FieldVault: records are added and nothing decides on them.
* Status, inventory and macro endpoints: read-only projections. Capability records: data types.
* Graph endpoints: wrappers over an external crate.
* The schema, migrations and full-text search of SQLite: taken as a store with transactions.
* The cockpit: represented by `CockpitOperator` only.
* Of chat: the socket itself.
