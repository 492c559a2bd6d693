----------------------------- MODULE HouseMemory -----------------------------
(***************************************************************************)
(* The memory of the house and the worker that distills it.  Turns, runs   *)
(* and chats append capsules; a refresh sorts a session's capsules into    *)
(* bands, writes its checkpoints and may promote a directive to a rule of  *)
(* the active mandala.  A live run that completed offers its session to    *)
(* the distiller: a set of sessions that wait, an unbounded channel, and   *)
(* one worker.  Set and channel live in memory only.                       *)
(*                                                                         *)
(* Which turn may run when is HouseDispatch; here any queued turn may, and *)
(* a turn that waits for its approval is not queued.                       *)
(***************************************************************************)
EXTENDS Naturals, Sequences, FiniteSets

CONSTANTS
  Sessions,
  ChatSession,   \* sessions().first(), where every chat goes
  Runners,       \* HTTP requests and the autonomy loop: live runs under way
  Chats,         \* connections to /ws/chat
  MaxTurns,      \* bound: turns the model creates
  MaxQuestions,  \* bound: chat messages
  HotCount,      \* capsules of a session in the hot band (5)
  WarmCount,     \* capsules after those in the warm band (5)
  Window,        \* capsules a transcript is made of (6)
  Remarks,       \* what an answer may be heard to say: "promise", "decision"
  Faults         \* a subset of MemoryFaultKinds

MemoryFaultKinds == {"persist", "crash"}

ASSUME MemoryAssumption ==
  /\ ChatSession \in Sessions
  /\ MaxTurns \in Nat /\ MaxQuestions \in Nat
  /\ HotCount \in Nat \ {0} /\ WarmCount \in Nat /\ Window \in Nat \ {0}
  /\ Remarks \subseteq {"promise", "decision"}
  /\ Faults \subseteq MemoryFaultKinds

VARIABLES
  house,    \* the registries of the runtime this module is about
  disk,     \* what the last transaction saved of them
  runner,   \* runner -> the live run it is in
  chat,     \* chat -> "open", or "asked" while the provider is called
  pending,  \* distiller_pending
  queue,    \* distiller_tx, distiller_rx
  worker,   \* the distiller's task
  owed      \* history: turns with a live answer the distiller has yet to look at

vars == <<house, disk, runner, chat, pending, queue, worker, owed>>

Bands == {"hot", "warm", "archive"}
Roles == {"operator", "assistant", "distiller", "user"}
Kinds == {"intent", "answer", "question",
          "transcript", "episode", "directive", "promise", "decision"}

(* A turn is its place in the order of creation, and 0 is no turn; by is   *)
(* the actor its TurnStarted event names, gated whether an approval was    *)
(* requested for it.                                                       *)
Turn(s, by, status, gated) ==
  [session |-> s, by |-> by, status |-> status, gated |-> gated]

Capsule(s, t, role, kind, band) ==
  [session |-> s, turn |-> t, role |-> role, kind |-> kind, band |-> band]

(* The runtime: turns, capsules in the order of their ids, the newest      *)
(* checkpoint of each band of each session as the capsules it cites, the   *)
(* capsules promoted to rules, and whether the active mandala promotes.    *)
(* No active mandala is one that does not, and whose next action is always *)
(* what was asked.                                                         *)
Policies == {"keeps", "promotes"}

Turns == [session : Sessions, by : {"operator", "house"},
          status : {"queued", "waiting", "running", "done"}, gated : BOOLEAN]
Capsules ==
  [session : Sessions, turn : 0..MaxTurns, role : Roles, kind : Kinds, band : Bands]

HouseType(h) ==
  /\ h.turns \in Seq(Turns) /\ Len(h.turns) <= MaxTurns
  /\ h.capsules \in Seq(Capsules)
  /\ \A i \in DOMAIN h.capsules : h.capsules[i].turn <= Len(h.turns)
  /\ h.digest \in [Sessions -> [Bands -> SUBSET Nat]]
  /\ h.rules \in Seq(Nat)
  /\ h.mandala \in Policies

Resting == [pc |-> "idle", turn |-> 0]
Waiting == [pc |-> "waiting", session |-> ChatSession]

RunnerStates == [pc : {"idle", "running", "offering", "sending"}, turn : 0..MaxTurns]
WorkerStates == [pc : {"waiting", "holding", "looked"}, session : Sessions]

TypeOK ==
  /\ HouseType(house) /\ HouseType(disk)
  /\ runner \in [Runners -> RunnerStates]
  /\ \A r \in Runners : runner[r] # Resting => runner[r].turn \in DOMAIN house.turns
  /\ chat \in [Chats -> {"open", "asked"}]
  /\ pending \subseteq Sessions /\ queue \in Seq(Sessions)
  /\ worker \in WorkerStates
  /\ owed \subseteq DOMAIN house.turns

EmptyHouse ==
  [turns |-> << >>, capsules |-> << >>, digest |-> [s \in Sessions |-> [b \in Bands |-> {}]],
   rules |-> << >>, mandala |-> "keeps"]

Init ==
  /\ house = EmptyHouse /\ disk = EmptyHouse
  /\ runner = [r \in Runners |-> Resting]
  /\ chat = [c \in Chats |-> "open"]
  /\ pending = {} /\ queue = << >> /\ worker = Waiting /\ owed = {}

-----------------------------------------------------------------------------
(* The registries.                                                          *)

Of(h, s) == {i \in DOMAIN h.capsules : h.capsules[i].session = s}

Newest(S) == CHOOSE i \in S : \A j \in S : j <= i

LastOf(S, n) == {i \in S : Cardinality({j \in S : i < j}) < n}

Remember(h, capsule) == [h EXCEPT !.capsules = Append(@, capsule)]

(* MemoryCapsuleRegistry::reband_session *)
BandOf(mine, i) ==
  LET newer == Cardinality({j \in mine : i < j}) IN
  IF newer < HotCount THEN "hot"
  ELSE IF newer < HotCount + WarmCount THEN "warm" ELSE "archive"

Rebanded(h, s) ==
  LET mine == Of(h, s) IN
  [h EXCEPT !.capsules =
     [i \in DOMAIN @ |-> IF i \in mine THEN [@[i] EXCEPT !.band = BandOf(mine, i)]
                         ELSE @[i]]]

(* The checkpoint of a band: none is written for a band without capsules. *)
Summary(h, s, b) ==
  LET cited == {i \in Of(h, s) : h.capsules[i].band = b} IN
  IF cited = {} THEN h.digest[s][b] ELSE cited

Summarized(h, s) == [h EXCEPT !.digest[s] = [b \in Bands |-> Summary(h, s, b)]]

(* The newest hot capsule, if an operator's, becomes a learned rule; its    *)
(* confidence is above the threshold.                                       *)
Promoted(h, s) ==
  LET newest == Newest(Of(h, s)) IN
  IF h.mandala = "promotes" /\ h.capsules[newest].role = "operator"
  THEN [h EXCEPT !.rules = Append(@, newest)] ELSE h

(* Mutant: the checkpoints are written before the bands are sorted. *)
RefreshedLate(h, s) == Promoted(Rebanded(Summarized(h, s), s), s)

(* HouseRuntime::refresh_memory_for_session *)
Refreshed(h, s) == Promoted(Summarized(Rebanded(h, s), s), s)

(* Mutant: what the house tells itself counts as the operator's word. *)
QueuedAsOperator(h, s, by) ==
  LET t == Len(h.turns) + 1
      started == [h EXCEPT !.turns = Append(@, Turn(s, by, "queued", FALSE))]
  IN Refreshed(Remember(started, Capsule(s, t, "operator", "intent", "hot")), s)

(* Mutant: the capsule names the turn after its own. *)
QueuedOneAhead(h, s, by) ==
  LET t == Len(h.turns) + 2
      role == IF by = "house" THEN "distiller" ELSE "operator"
      started == [h EXCEPT !.turns = Append(@, Turn(s, by, "queued", FALSE))]
  IN Refreshed(Remember(started, Capsule(s, t, role, "intent", "hot")), s)

(* queue_turn_for_lane *)
Queued(h, s, by) ==
  LET t == Len(h.turns) + 1
      role == IF by = "house" THEN "distiller" ELSE "operator"
      started == [h EXCEPT !.turns = Append(@, Turn(s, by, "queued", FALSE))]
  IN Refreshed(Remember(started, Capsule(s, t, role, "intent", "hot")), s)

Marked(h, t, status) ==
  [h EXCEPT !.turns[t] = Turn(@.session, @.by, status, @.gated \/ status = "waiting")]

Answered(h, t) ==
  LET s == h.turns[t].session IN
  Refreshed(Remember(Marked(h, t, "done"), Capsule(s, t, "assistant", "answer", "hot")), s)

QueuedTurns(h) == {t \in DOMAIN h.turns : h.turns[t].status = "queued"}

-----------------------------------------------------------------------------
(* What every lock section ends with.                                       *)

SaveFails == "persist" \in Faults /\ UNCHANGED disk
Saved     == disk' = house'
Persist   == Saved \/ SaveFails

Becomes(h) == house' = h /\ Persist

Still == UNCHANGED <<runner, chat, pending, queue, worker, owed>>

CreateTurn(s) ==
  /\ Len(house.turns) < MaxTurns
  /\ Becomes(Queued(house, s, "operator"))
  /\ Still

(* The simulated run of the newest queued turn; the distiller is not told. *)
ExecuteLatest ==
  \E t \in QueuedTurns(house) :
    /\ \A u \in QueuedTurns(house) : u <= t
    /\ Becomes(Answered(house, t))
    /\ Still

(* A run finds the gate closed: once, for a turn that is queued after its  *)
(* approval was requested is queued because that was granted.              *)
RequestApproval(t) ==
  /\ t \in QueuedTurns(house) /\ ~house.turns[t].gated
  /\ Becomes(Marked(house, t, "waiting"))
  /\ Still

(* The operator grants or denies the approval.  No status is looked up: a  *)
(* ruling may come again, when the turn has run or while it runs.          *)
ResolveApproval(t) ==
  /\ house.turns[t].gated
  /\ \E status \in {"queued", "done"} : Becomes(Marked(house, t, status))
  /\ Still

(* update_mandala_memory_policy, and the activations that change which      *)
(* mandala is active.                                                       *)
ChangePolicy ==
  /\ \E p \in Policies \ {house.mandala} : Becomes([house EXCEPT !.mandala = p])
  /\ Still

OtherHandlerSaves == disk # house /\ house' = house /\ Saved /\ Still

-----------------------------------------------------------------------------
(* Live runs: run_latest_dispatch_live_once.                                *)

At(r, pc) == runner[r].pc = pc
Goes(r, pc) == runner' = [runner EXCEPT ![r] = [pc |-> pc, turn |-> @.turn]]
Rests(r) == runner' = [runner EXCEPT ![r] = Resting]

SessionOf(r) == house.turns[runner[r].turn].session

StartRun(r, t) ==
  /\ At(r, "idle") /\ t \in QueuedTurns(house)
  /\ house' = Marked(house, t, "running")
  /\ \/ Saved /\ runner' = [runner EXCEPT ![r] = [pc |-> "running", turn |-> t]]
     \/ SaveFails /\ UNCHANGED runner
  /\ UNCHANGED <<chat, pending, queue, worker, owed>>

(* No lane answered, and the run is closed as failed; or its task or its    *)
(* client is gone, and it is not.                                           *)
RunFails(r) ==
  /\ At(r, "running")
  /\ Becomes(Marked(house, runner[r].turn, "done")) \/ UNCHANGED <<house, disk>>
  /\ Rests(r)
  /\ UNCHANGED <<chat, pending, queue, worker, owed>>

(* The active mandala's next action is the answer just given; when that is *)
(* not what was asked, and nothing of the session is queued, it is queued. *)
MayFollowUp(h, s) ==
  /\ Len(h.turns) < MaxTurns
  /\ \A t \in QueuedTurns(h) : h.turns[t].session # s

(* The closing section; if its transaction fails the distiller is not told. *)
Complete(r) ==
  LET t == runner[r].turn
      h == Answered(house, t)
      s == SessionOf(r)
  IN
  /\ At(r, "running")
  /\ house' = h \/ (MayFollowUp(h, s) /\ house' = Queued(h, s, "house"))
  /\ \/ Saved /\ Goes(r, "offering") /\ owed' = owed \cup {t}
     \/ SaveFails /\ Rests(r) /\ UNCHANGED owed
  /\ UNCHANGED <<chat, pending, queue, worker>>

-----------------------------------------------------------------------------
(* enqueue_transcript_distillation: the set, then the channel.              *)

Holds(s)  == worker.pc # "waiting" /\ worker.session = s
Looked(s) == worker.pc = "looked" /\ worker.session = s

OwedBy(s) == {t \in owed : house.turns[t].session = s}

(* Mutant: the set is not asked. *)
OfferAgain(r) ==
  /\ At(r, "offering")
  /\ pending' = pending \cup {SessionOf(r)} /\ Goes(r, "sending")
  /\ UNCHANGED <<house, disk, chat, queue, worker, owed>>

(* An offer of a session that waits already is dropped, also if the worker *)
(* has just looked at it and is about to take it out of the set: what that *)
(* run answered is then left to the session's next offer.                  *)
Offer(r) ==
  LET s == SessionOf(r) IN
  /\ At(r, "offering")
  /\ IF s \in pending
     THEN /\ UNCHANGED pending /\ Rests(r)
          /\ owed' = IF Looked(s) THEN owed \ OwedBy(s) ELSE owed
     ELSE pending' = pending \cup {s} /\ Goes(r, "sending") /\ UNCHANGED owed
  /\ UNCHANGED <<house, disk, chat, queue, worker>>

Send(r) ==
  /\ At(r, "sending")
  /\ queue' = Append(queue, SessionOf(r))
  /\ Rests(r)
  /\ UNCHANGED <<house, disk, chat, pending, worker, owed>>

-----------------------------------------------------------------------------
(* The worker: spawn_transcript_distiller.                                  *)

Receive ==
  /\ worker.pc = "waiting" /\ queue # << >>
  /\ worker' = [pc |-> "holding", session |-> Head(queue)]
  /\ queue' = Tail(queue)
  /\ UNCHANGED <<house, disk, runner, chat, pending, owed>>

TurnsOf(h, s) == {t \in DOMAIN h.turns : h.turns[t].session = s}

Recent(h, s) ==
  LastOf({i \in Of(h, s) : h.capsules[i].role \in {"operator", "assistant"}}, Window)

HasTranscript(h, s, t) ==
  \E i \in Of(h, s) : h.capsules[i].turn = t /\ h.capsules[i].kind = "transcript"

Said == {q \in {<< >>, <<"promise">>, <<"decision">>, <<"promise", "decision">>} :
           \A i \in DOMAIN q : q[i] \in Remarks}

(* The notes made of the recent capsules S, with what the answer says.      *)
Notes(h, S, said) ==
  LET Some(role) == \E i \in S : h.capsules[i].role = role IN
  <<"transcript">>
    \o (IF Cardinality(S) >= 2 THEN <<"episode">> ELSE << >>)
    \o (IF Some("operator") THEN <<"directive">> ELSE << >>)
    \o (IF Some("assistant") THEN said ELSE << >>)

Noted(h, s, t, notes) ==
  [h EXCEPT !.capsules = @ \o
     [n \in 1..Len(notes) |-> Capsule(s, t, "distiller", notes[n], "warm")]]

Distilled(h, s, t, said) == Refreshed(Noted(h, s, t, Notes(h, Recent(h, s), said)), s)

(* Mutant: whether the turn has its transcript is not asked. *)
DistillAgain ==
  LET s == worker.session
      latest == Newest(TurnsOf(house, s))
  IN
  /\ worker.pc = "holding"
  /\ \E said \in Said : Becomes(Distilled(house, s, latest, said))
  /\ worker' = [worker EXCEPT !.pc = "looked"]
  /\ owed' = owed \ OwedBy(s)
  /\ UNCHANGED <<runner, chat, pending, queue>>

(* One lock section: the transcript is the latest turn's, once.  If the     *)
(* transaction fails the worker goes on all the same.                       *)
Distill ==
  LET s == worker.session
      latest == Newest(TurnsOf(house, s))
  IN
  /\ worker.pc = "holding"
  /\ IF HasTranscript(house, s, latest) \/ Recent(house, s) = {}
     THEN UNCHANGED <<house, disk>>
     ELSE \E said \in Said : Becomes(Distilled(house, s, latest, said))
  /\ worker' = [worker EXCEPT !.pc = "looked"]
  /\ owed' = owed \ OwedBy(s)
  /\ UNCHANGED <<runner, chat, pending, queue>>

(* Mutant: the set is emptied. *)
ReleaseAll ==
  /\ worker.pc = "looked"
  /\ pending' = {} /\ worker' = Waiting
  /\ UNCHANGED <<house, disk, runner, chat, queue, owed>>

(* Mutant: the session stays in the set. *)
ReleaseNothing ==
  /\ worker.pc = "looked"
  /\ worker' = Waiting
  /\ UNCHANGED <<house, disk, runner, chat, pending, queue, owed>>

Release ==
  /\ worker.pc = "looked"
  /\ pending' = pending \ {worker.session} /\ worker' = Waiting
  /\ UNCHANGED <<house, disk, runner, chat, queue, owed>>

-----------------------------------------------------------------------------
(* Chats: the question is kept in memory, the answer saved with the house,  *)
(* and neither refreshes the session's bands.                               *)

Questions(h) == {i \in DOMAIN h.capsules : h.capsules[i].kind = "question"}

Ask(c) ==
  /\ chat[c] = "open" /\ Cardinality(Questions(house)) < MaxQuestions
  /\ house' = Remember(house, Capsule(ChatSession, 0, "user", "question", "hot"))
  /\ chat' = [chat EXCEPT ![c] = "asked"]
  /\ UNCHANGED <<disk, runner, pending, queue, worker, owed>>

Answer(c) ==
  /\ chat[c] = "asked"
  /\ Becomes(Remember(house, Capsule(ChatSession, 0, "assistant", "answer", "hot")))
  /\ chat' = [chat EXCEPT ![c] = "open"]
  /\ UNCHANGED <<runner, pending, queue, worker, owed>>

(* No lane is connected, the provider failed, or 120 seconds have passed.   *)
GiveUp(c) ==
  /\ chat[c] = "asked"
  /\ chat' = [chat EXCEPT ![c] = "open"]
  /\ UNCHANGED <<house, disk, runner, pending, queue, worker, owed>>

-----------------------------------------------------------------------------
CrashAndRestart ==
  /\ "crash" \in Faults
  /\ house' = disk
  /\ runner' = [r \in Runners |-> Resting]
  /\ chat' = [c \in Chats |-> "open"]
  /\ pending' = {} /\ queue' = << >> /\ worker' = Waiting /\ owed' = {}
  /\ UNCHANGED disk

Next ==
  \/ \E s \in Sessions : CreateTurn(s)
  \/ ExecuteLatest
  \/ \E t \in DOMAIN house.turns : RequestApproval(t) \/ ResolveApproval(t)
  \/ ChangePolicy \/ OtherHandlerSaves
  \/ \E r \in Runners :
       \/ \E t \in DOMAIN house.turns : StartRun(r, t)
       \/ RunFails(r) \/ Complete(r) \/ Offer(r) \/ Send(r)
  \/ Receive \/ Distill \/ Release
  \/ \E c \in Chats : Ask(c) \/ Answer(c) \/ GiveUp(c)
  \/ CrashAndRestart

Spec == Init /\ [][Next]_vars

(* Distill by what it does to the worker: no other step looks, and there is *)
(* nothing that keeps the worker from looking at what it holds.             *)
Looks == worker.pc = "holding" /\ worker' = [worker EXCEPT !.pc = "looked"]

(* The worker is a task that awaits nothing but its channel and locks that *)
(* are released; nothing is awaited between the set and the channel.       *)
FairSpec ==
  /\ Spec
  /\ \A r \in Runners : WF_vars(Send(r))
  /\ WF_vars(Receive) /\ WF_worker(Looks) /\ WF_vars(Release)

-----------------------------------------------------------------------------
(* Properties.                                                              *)

Sending(r, s) == At(r, "sending") /\ SessionOf(r) = s

(* The set and the channel agree, whoever is between the two: a session in *)
(* the set is on its way to the worker exactly once - being sent, queued   *)
(* or in the worker's hand - and a session outside it is nowhere.          *)
OffersAreKept ==
  /\ \A s \in Sessions : s \in pending <=>
       (\E i \in DOMAIN queue : queue[i] = s) \/ (\E r \in Runners : Sending(r, s)) \/ Holds(s)
  /\ \A i, j \in DOMAIN queue : queue[i] = queue[j] => i = j
  /\ \A s \in Sessions, r \in Runners : Sending(r, s) =>
       /\ ~Holds(s) /\ \A i \in DOMAIN queue : queue[i] # s
       /\ \A q \in Runners : Sending(q, s) => q = r
  /\ \A i \in DOMAIN queue : ~Holds(queue[i])

(* Coalescing loses no answer: while one is owed, its session is on its    *)
(* way to a worker that has not looked yet, or a run is about to offer it. *)
(* (owed leaves out what an offer dropped under Looked leaves behind.)     *)
AnswersAreAwaited ==
  \A t \in owed :
    LET s == house.turns[t].session IN
    \/ s \in pending /\ ~Looked(s)
    \/ \E r \in Runners : At(r, "offering") /\ SessionOf(r) = s

(* A turn is transcribed once, however often its session is offered, and   *)
(* through failed transactions and crashes that forget the offers.         *)
TranscriptOnce ==
  \A h \in {house, disk} : \A i, j \in DOMAIN h.capsules :
    /\ h.capsules[i].kind = "transcript" /\ h.capsules[j].kind = "transcript"
    /\ h.capsules[i].turn = h.capsules[j].turn
    => i = j

(* Rules are learned from the operator only, each directive once: an       *)
(* answer the house queued for itself never becomes one.                   *)
RulesAreDirectives ==
  \A h \in {house, disk} : \A m, n \in DOMAIN h.rules :
    /\ h.rules[m] \in DOMAIN h.capsules
    /\ h.capsules[h.rules[m]].kind = "intent"
    /\ h.turns[h.capsules[h.rules[m]].turn].by = "operator"
    /\ m < n => h.rules[m] < h.rules[n]

(* The newest checkpoints of a session tell of each of its capsules once,  *)
(* in the band it has; only what a chat said since is in none of them.     *)
DigestAgrees ==
  \A h \in {house, disk} : \A s \in Sessions : \A i \in Of(h, s) :
    \/ \A b \in Bands : i \in h.digest[s][b] <=> h.capsules[i].band = b
    \/ /\ h.capsules[i].turn = 0
       /\ \A b \in Bands : \A j \in h.digest[s][b] : j < i

(* Every session in the set leaves it: nothing waits for a worker that     *)
(* will not come.                                                          *)
OffersAreTaken == \A s \in Sessions : s \in pending ~> s \notin pending

=============================================================================
