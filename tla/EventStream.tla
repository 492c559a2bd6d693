----------------------------- MODULE EventStream -----------------------------
(***************************************************************************)
(* The event log of the house and its live stream: every handler appends   *)
(* to runtime.events inside its lock section, the transaction at the end   *)
(* of the section saves the log, and the handler sends copies of the last  *)
(* few events to a broadcast channel after it let go of the lock.  A       *)
(* watcher (/ws/events) is sent the log as it was, then subscribes.        *)
(*                                                                         *)
(* An event is its id, its sequence number and who made it.  Ids are given *)
(* out in order (uuid v7).  Memory and reload both keep the events in the  *)
(* order of their sequence numbers, older first among equals, so the log   *)
(* is a set with that order; so is the events table, which is keyed by id. *)
(***************************************************************************)
EXTENDS Naturals, Sequences, FiniteSets

CONSTANTS
  Handlers,   \* HTTP requests and background tasks that may be under way
  Watchers,   \* cockpits connected to /ws/events
  Capacity,   \* events the broadcast channel keeps for a slow receiver (256)
  MaxEvents,  \* bound: events the model creates
  Faults      \* the faults that may happen, a subset of FaultKinds

FaultKinds == {"persist", "crash", "load"}

ASSUME EventBoundAssumption == Capacity \in Nat /\ MaxEvents \in Nat
ASSUME EventFaultAssumption == Faults \subseteq FaultKinds

VARIABLES
  log,       \* runtime.events.events
  next,      \* runtime.events.next_sequence
  disk,      \* the rows of the events table
  pending,   \* handler -> events it still has to send
  watcher,   \* watcher -> the state of its connection
  minted,    \* history: event ids created, across restarts
  streamed,  \* history: every event ever sent to the channel
  restarted  \* history: a load failed, and numbering began again at 1

vars == <<log, next, disk, pending, watcher, minted, streamed, restarted>>

(* Who made an event: the handlers that differ in what they require of the *)
(* log or do about a failed transaction, and all the others.               *)
Unchecked     == {"chat_session", "chat"}
SessionMakers == {"session", "chat_session"}
Makers        == SessionMakers \cup {"turn", "core", "chat", "other"}

Events == [id : 1..MaxEvents, sequence : 1..MaxEvents, by : Makers]

Before(e, f) ==
  e.sequence < f.sequence \/ (e.sequence = f.sequence /\ e.id < f.id)

(* log.last(), and log.iter().rev().take(n) *)
Newest(S)    == {e \in S : \A f \in S : ~Before(e, f)}
LastOf(S, n) == {e \in S : Cardinality({f \in S : Before(e, f)}) < n}

(* The connection of a watcher: what it was shown, the id of the newest     *)
(* event when it subscribed, and what its receiver has not read yet.       *)
Connection(pc, shown, since, queue) ==
  [pc |-> pc, shown |-> shown, since |-> since, queue |-> queue]

Closed == Connection("closed", {}, 0, << >>)

TypeOK ==
  /\ log \subseteq Events /\ disk \subseteq Events /\ streamed \subseteq Events
  /\ next \in 0..MaxEvents /\ minted \in 0..MaxEvents /\ restarted \in BOOLEAN
  /\ pending \in [Handlers -> SUBSET Events]
  /\ watcher \in [Watchers -> [pc : {"closed", "snapshot", "live", "lagged"},
                               shown : SUBSET Events, since : 0..MaxEvents,
                               queue : Seq(Events)]]
  /\ \A w \in Watchers : Len(watcher[w].queue) <= Capacity

Init ==
  /\ log = {} /\ next = 0 /\ disk = {}
  /\ pending = [h \in Handlers |-> {}]
  /\ watcher = [w \in Watchers |-> Closed]
  /\ minted = 0 /\ streamed = {} /\ restarted = FALSE

-----------------------------------------------------------------------------
(* Lock sections.                                                           *)

Made(by) == \E e \in log : e.by = by

HasSession == \E by \in SessionMakers : Made(by)

(* EventStore::append, k times. *)
Add(by, k) ==
  /\ minted + k <= MaxEvents
  /\ log' = log \cup {[id |-> minted + i, sequence |-> next + i, by |-> by] : i \in 1..k}
  /\ next' = next + k
  /\ minted' = minted + k

Saved == disk' = disk \cup log'
SaveFails == "persist" \in Faults /\ disk' = disk

(* Mutant: the copies are sent whatever became of the transaction. *)
SectionIgnoringTheSave(h, by, k, n) ==
  /\ pending[h] = {}
  /\ Add(by, k)
  /\ Saved \/ SaveFails
  /\ pending' = [pending EXCEPT ![h] = LastOf(log', n)]
  /\ UNCHANGED <<watcher, streamed, restarted>>

(* A lock section whose handler answers with an error, and sends nothing,  *)
(* when the transaction fails; otherwise it keeps the last n events.       *)
Section(h, by, k, n) ==
  /\ pending[h] = {}
  /\ Add(by, k)
  /\ \/ Saved /\ pending' = [pending EXCEPT ![h] = LastOf(log', n)]
     \/ SaveFails /\ UNCHANGED pending
  /\ UNCHANGED <<watcher, streamed, restarted>>

CreateSession(h) == Section(h, "session", 1, 1)

(* The handlers that append one event and send it: grants, denials, lanes, *)
(* policies, packages, a live run without follow-up, the distiller.        *)
Announce(h) == Section(h, "other", 1, 1)

CreateTurn(h) == HasSession /\ Section(h, "turn", 2, 2)

ExecuteLatest(h) == Made("turn") /\ Section(h, "turn", 2, 2)

(* The completed message and the two events of the turn queued after it;   *)
(* only the last of the three is kept for the channel.                     *)
CloseWithFollowUp(h) == Made("turn") /\ Section(h, "turn", 3, 1)

(* Mandala, capsule and slot events the first time, the slot event alone   *)
(* later, and the last four events of the log sent either way.             *)
BootstrapCoreCapsule(h) ==
  Section(h, "core", IF Made("core") THEN 1 ELSE 3, 4)

BootstrapProviderLane(h) == Section(h, "other", 2, 2)

(* The answer of a chat message: the result of the transaction is ignored. *)
Chat(h) ==
  /\ pending[h] = {} /\ HasSession
  /\ Add("chat", 1)
  /\ Saved \/ SaveFails
  /\ pending' = [pending EXCEPT ![h] = Newest(log')]
  /\ UNCHANGED <<watcher, streamed, restarted>>

(* Sections that save and append nothing: context packets, world state,    *)
(* the branch that closes a failed run.                                    *)
SaveOnly ==
  /\ disk' = disk \cup log
  /\ UNCHANGED <<log, next, pending, watcher, minted, streamed, restarted>>

-----------------------------------------------------------------------------
(* The broadcast channel and its receivers.                                 *)

(* Mutant: a full receiver loses the event and stays. *)
DeliveredOrDropped(w, e) ==
  IF w.pc = "live" /\ Len(w.queue) < Capacity
  THEN Connection("live", w.shown, w.since, Append(w.queue, e)) ELSE w

(* Mutant: an unbounded channel. *)
DeliveredAlways(w, e) ==
  IF w.pc = "live"
  THEN Connection("live", w.shown, w.since, Append(w.queue, e)) ELSE w

(* A receiver more than Capacity behind is told Lagged at its next recv.   *)
Delivered(w, e) ==
  IF w.pc # "live" THEN w
  ELSE IF Len(w.queue) < Capacity
       THEN Connection("live", w.shown, w.since, Append(w.queue, e))
       ELSE Connection("lagged", w.shown, w.since, w.queue)

Broadcast(e) ==
  /\ streamed' = streamed \cup {e}
  /\ watcher' = [w \in Watchers |-> Delivered(watcher[w], e)]

Send(h) ==
  /\ \E e \in pending[h] :
       /\ \A f \in pending[h] : ~Before(f, e)
       /\ Broadcast(e)
       /\ pending' = [pending EXCEPT ![h] = @ \ {e}]
  /\ UNCHANGED <<log, next, disk, minted, restarted>>

(* The first chat message of a house without sessions: the new session is  *)
(* announced before the lock is released, saved or not.                    *)
ChatOpensSession(h) ==
  /\ pending[h] = {} /\ ~HasSession
  /\ Add("chat_session", 1)
  /\ Saved \/ SaveFails
  /\ \E e \in Newest(log') : Broadcast(e)
  /\ UNCHANGED <<pending, restarted>>

Moves(w, connection) ==
  /\ watcher' = [watcher EXCEPT ![w] = connection]
  /\ UNCHANGED <<log, next, disk, pending, minted, streamed, restarted>>

Connect(w) ==
  watcher[w].pc = "closed" /\ Moves(w, Connection("snapshot", log, 0, << >>))

(* The snapshot has been sent; from here on the channel keeps events.      *)
Subscribe(w) ==
  /\ watcher[w].pc = "snapshot"
  /\ Moves(w, Connection("live", watcher[w].shown, minted, << >>))

Receive(w) ==
  LET c == watcher[w] IN
  /\ c.pc = "live" /\ c.queue # << >>
  /\ Moves(w, Connection("live", c.shown \cup {Head(c.queue)}, c.since, Tail(c.queue)))

(* The loop ends on Lagged, and on a socket that is gone. *)
Disconnect(w) == watcher[w].pc # "closed" /\ Moves(w, Closed)

-----------------------------------------------------------------------------
(* Restarts.                                                                *)

(* Every connection and every unsent copy is gone. *)
Forgotten ==
  /\ pending' = [h \in Handlers |-> {}]
  /\ watcher' = [w \in Watchers |-> Closed]
  /\ UNCHANGED <<disk, minted, streamed>>

(* Mutant: the numbering starts again after every restart. *)
RestartNumbering ==
  /\ "crash" \in Faults
  /\ log' = disk /\ next' = 0
  /\ Forgotten /\ UNCHANGED restarted

(* EventStore::push_existing of every row, then set_next_sequence of the   *)
(* greatest sequence number.                                               *)
CrashAndRestart ==
  /\ "crash" \in Faults
  /\ log' = disk
  /\ next' \in {n \in 0..MaxEvents :
       /\ \A e \in disk : e.sequence <= n
       /\ n = 0 \/ \E e \in disk : e.sequence = n}
  /\ Forgotten /\ UNCHANGED restarted

(* load_runtime().unwrap_or_default(): what cannot be loaded is an empty   *)
(* house, on top of the table that is still there.                         *)
RestartEmpty ==
  /\ "load" \in Faults
  /\ log' = {} /\ next' = 0 /\ restarted' = TRUE
  /\ Forgotten

Next ==
  \/ \E h \in Handlers :
       \/ CreateSession(h) \/ Announce(h) \/ CreateTurn(h) \/ ExecuteLatest(h)
       \/ CloseWithFollowUp(h) \/ BootstrapCoreCapsule(h)
       \/ BootstrapProviderLane(h) \/ ChatOpensSession(h) \/ Chat(h) \/ Send(h)
  \/ SaveOnly
  \/ \E w \in Watchers : Connect(w) \/ Subscribe(w) \/ Receive(w) \/ Disconnect(w)
  \/ CrashAndRestart \/ RestartEmpty

Spec == Init /\ [][Next]_vars

-----------------------------------------------------------------------------
(* Properties.                                                              *)

(* Events whose handler waited for its transaction. *)
Vouched == {e \in streamed : e.by \notin Unchecked}

(* What a watcher was ever sent by a handler that checks its transaction   *)
(* is in the events table: no crash takes it back, also when the copies go *)
(* out long after the lock was released and when a bootstrap sends again   *)
(* events other handlers appended (main.rs take(4), take(2)).              *)
StreamedIsDurable == Vouched \subseteq disk

(* While loads succeed, two events streamed by such handlers never share a *)
(* sequence number, although a failed transaction and a crash give numbers *)
(* out again.                                                              *)
SequenceIdentifies ==
  restarted \/ \A e, f \in Vouched : e.sequence = f.sequence => e = f

(* The table, and what watchers were told by such handlers, implement the   *)
(* history of EventHistory: while loads succeed, what joins the table comes *)
(* after every row that is there, so a reload shows the old history first,  *)
(* and no step both saves events and tells of them, or takes one back.      *)
History == INSTANCE EventHistory WITH history <- disk, told <- Vouched, renumbered <- restarted

ImplementsHistory == History!Spec

(* Once subscribed, a watcher that is still live has been shown, or will   *)
(* read from the channel, every event appended since then and streamed: a  *)
(* receiver the channel overran is cut off, never left with a silent gap.  *)
NothingMissed ==
  \A w \in Watchers : watcher[w].pc = "live" =>
    \A e \in streamed : e.id > watcher[w].since =>
      \/ e \in watcher[w].shown
      \/ \E i \in 1..Len(watcher[w].queue) : watcher[w].queue[i] = e

(* Real-time streaming of the events (docs/specs/RETROBUILDER-HANDOFF.md): *)
(* when no handler has copies left to send, every event of the log has     *)
(* been streamed.                                                          *)
EveryEventIsStreamed ==
  (\A h \in Handlers : pending[h] = {}) => log \subseteq streamed

=============================================================================
