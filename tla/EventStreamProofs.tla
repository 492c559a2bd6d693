-------------------------- MODULE EventStreamProofs --------------------------
(***************************************************************************)
(* What EventStream guarantees for any number of handlers and watchers,    *)
(* and that it implements EventHistory.  OrderInv says nothing more of the *)
(* order once a load has failed.                                           *)
(***************************************************************************)
EXTENDS EventStream, TLAPS

\* Numbers are given out in the order of ids and never run ahead of them.
Numbered ==
  /\ next <= minted
  /\ \A e \in log : e.sequence <= next
  /\ \A e \in log \cup disk : e.id <= minted /\ e.sequence <= e.id
  /\ \A e \in streamed : e.id <= minted
  /\ \A h \in Handlers : \A e \in pending[h] : e.id <= minted

\* What was or will be streamed on the word of a transaction is on disk.
Covered ==
  /\ StreamedIsDurable
  /\ \A h \in Handlers : \A e \in pending[h] : e.by \notin Unchecked => e \in disk

StreamInv == TypeOK /\ Numbered /\ Covered /\ NothingMissed

\* The lock sections of handlers that check their transaction.
IsSection(h) ==
  \E by \in Makers \ Unchecked, k \in Nat, n \in Nat : Section(h, by, k, n)

LEMMA Sections ==
  ASSUME NEW h,
         \/ CreateSession(h) \/ Announce(h) \/ CreateTurn(h) \/ ExecuteLatest(h)
         \/ CloseWithFollowUp(h) \/ BootstrapCoreCapsule(h) \/ BootstrapProviderLane(h)
  PROVE  IsSection(h)
<1>1. \A by \in Makers \ Unchecked, k \in Nat, n \in Nat : Section(h, by, k, n) => IsSection(h)
  BY DEF IsSection
<1>2. {"session", "other", "turn", "core"} \subseteq Makers \ Unchecked
  BY DEF Makers, Unchecked, SessionMakers
<1> QED
  BY <1>1, <1>2 DEF CreateSession, Announce, CreateTurn, ExecuteLatest, CloseWithFollowUp,
     BootstrapCoreCapsule, BootstrapProviderLane

\* What an append adds to the log.
LEMMA Added ==
  ASSUME TypeOK, Numbered, NEW by \in Makers, NEW k \in Nat, Add(by, k)
  PROVE  /\ \A e \in log' \ log :
              /\ e \in Events /\ e.by = by
              /\ minted < e.id /\ e.id <= minted' /\ e.sequence <= e.id
              /\ next < e.sequence /\ e.sequence <= next'
         /\ \A e, f \in log' \ log : e.sequence = f.sequence => e = f
         /\ log \subseteq log'
         /\ minted' \in 0..MaxEvents /\ next' \in 0..MaxEvents
         /\ minted <= minted' /\ next <= next' /\ next' <= minted'
<1> USE EventBoundAssumption DEF TypeOK, Numbered
<1>1. \A e \in log' \ log : \E i \in 1..k :
        e = [id |-> minted + i, sequence |-> next + i, by |-> by]
  BY DEF Add
<1>2. minted \in Nat /\ next \in Nat /\ minted + k <= MaxEvents /\ next <= minted
  BY DEF Add
<1>3. \A i \in 1..k : minted + i \in 1..MaxEvents /\ next + i \in 1..MaxEvents
  BY <1>2
<1>4. \A e \in log' \ log :
        /\ e \in Events /\ e.by = by
        /\ minted < e.id /\ e.id <= minted' /\ e.sequence <= e.id
        /\ next < e.sequence /\ e.sequence <= next'
  <2> SUFFICES ASSUME NEW i \in 1..k,
                      NEW e, e = [id |-> minted + i, sequence |-> next + i, by |-> by]
               PROVE  /\ e \in Events /\ e.by = by
                      /\ minted < e.id /\ e.id <= minted' /\ e.sequence <= e.id
                      /\ next < e.sequence /\ e.sequence <= next'
    BY <1>1
  <2> QED
    BY <1>2, <1>3 DEF Events, Add
<1>5. ASSUME NEW e \in log' \ log, NEW f \in log' \ log, e.sequence = f.sequence
      PROVE  e = f
  <2>1. PICK i \in 1..k : e = [id |-> minted + i, sequence |-> next + i, by |-> by]
    BY <1>1
  <2>2. PICK j \in 1..k : f = [id |-> minted + j, sequence |-> next + j, by |-> by]
    BY <1>1
  <2> QED
    BY <2>1, <2>2, <1>2, <1>5
<1> QED
  BY <1>2, <1>4, <1>5 DEF Add

LEMMA LastOfIsPart == ASSUME NEW S, NEW n PROVE LastOf(S, n) \subseteq S
BY DEF LastOf

\* A log that grew keeps the types and the numbering of memory and disk.
LEMMA GrownLog ==
  ASSUME TypeOK, Numbered, NEW by \in Makers, NEW k \in Nat, Add(by, k),
         Saved \/ SaveFails
  PROVE  /\ log' \subseteq Events /\ disk' \subseteq Events
         /\ next' \in 0..MaxEvents /\ minted' \in 0..MaxEvents
         /\ next' <= minted' /\ minted <= minted' /\ disk \subseteq disk'
         /\ \A e \in log' : e.sequence <= next'
         /\ \A e \in log' \cup disk' : e.id <= minted' /\ e.sequence <= e.id
<1>1. \A e \in Events : e.id \in Nat /\ e.sequence \in Nat
  BY EventBoundAssumption DEF Events
<1>2. next \in Nat /\ minted \in Nat /\ next' \in Nat /\ minted' \in Nat
  BY Added, EventBoundAssumption DEF TypeOK
<1> QED
  BY <1>1, <1>2, Added DEF TypeOK, Numbered, Saved, SaveFails

LEMMA DeliveredType ==
  ASSUME TypeOK, NEW w \in Watchers, NEW e \in Events
  PROVE  /\ Delivered(watcher[w], e) \in
              [pc : {"closed", "snapshot", "live", "lagged"}, shown : SUBSET Events,
               since : 0..MaxEvents, queue : Seq(Events)]
         /\ Len(Delivered(watcher[w], e).queue) <= Capacity
BY EventBoundAssumption DEF TypeOK, Delivered, Connection

\* After a broadcast everybody live has the event in the queue.
LEMMA BroadcastMissesNothing ==
  ASSUME TypeOK, NothingMissed, NEW e \in Events, Broadcast(e)
  PROVE  NothingMissed'
<1> SUFFICES ASSUME NEW w \in Watchers, (watcher[w].pc = "live")', NEW f \in streamed',
                    (f.id > watcher[w].since)'
             PROVE  \/ f \in watcher'[w].shown
                    \/ \E i \in 1..Len(watcher'[w].queue) : watcher'[w].queue[i] = f
  BY DEF NothingMissed
<1> DEFINE c == watcher[w]
           q == watcher[w].queue
<1>1. watcher'[w] = Delivered(c, e) /\ (f \in streamed \/ f = e)
  BY DEF Broadcast
<1>2. q \in Seq(Events)
  BY DEF TypeOK
<1>3. c.pc = "live" /\ Len(q) < Capacity
  BY <1>1 DEF Delivered, Connection
<1>4. watcher'[w].shown = c.shown /\ watcher'[w].since = c.since /\ watcher'[w].queue = Append(q, e)
  BY <1>1, <1>3 DEF Delivered, Connection
<1>5. CASE f = e
  BY <1>2, <1>4, <1>5
<1>6. CASE f \in streamed
  <2>1. f \in c.shown \/ \E i \in 1..Len(q) : q[i] = f
    BY <1>3, <1>4, <1>6 DEF NothingMissed
  <2> QED
    BY <2>1, <1>2, <1>4
<1> QED
  BY <1>1, <1>5, <1>6

LEMMA InitStreamInv == Init => StreamInv
<1> SUFFICES ASSUME Init PROVE StreamInv
  OBVIOUS
<1>1. << >> \in Seq(Events) /\ Len(<< >>) = 0
  OBVIOUS
<1>2. restarted \in BOOLEAN
  BY DEF Init
<1>3. TypeOK
  BY <1>1, <1>2, EventBoundAssumption DEF Init, TypeOK, Closed, Connection
<1> QED
  BY <1>3, EventBoundAssumption DEF Init, StreamInv, Numbered, Covered, StreamedIsDurable, Vouched,
     NothingMissed, Closed, Connection

\* A section, whatever it does about its transaction, keeps what is not about
\* the copies it will send; those come from the log it leaves behind.
LEMMA SectionKeeps ==
  ASSUME StreamInv, NEW by \in Makers, NEW k \in Nat, Add(by, k), Saved \/ SaveFails,
         NEW h \in Handlers, NEW n \in Nat,
         \/ UNCHANGED pending
         \/ pending' = [pending EXCEPT ![h] = LastOf(log', n)]
  PROVE  /\ \A g \in Handlers : pending'[g] \subseteq Events
         /\ pending' \in [Handlers -> SUBSET Events]
         /\ \A g \in Handlers : \A e \in pending'[g] : e.id <= minted'
<1>1. \A e \in Events : e.id \in Nat
  BY EventBoundAssumption DEF Events
<1>2. minted \in Nat /\ minted' \in Nat
  BY Added, EventBoundAssumption DEF StreamInv, TypeOK
<1>3. log' \subseteq Events /\ minted <= minted' /\ \A e \in log' : e.id <= minted'
  BY GrownLog DEF StreamInv
<1>4. \A g \in Handlers : pending'[g] = pending[g] \/ pending'[g] \subseteq log'
  BY LastOfIsPart DEF StreamInv, TypeOK
<1>5. \A g \in Handlers : pending[g] \subseteq Events /\ \A e \in pending[g] : e.id <= minted
  BY DEF StreamInv, TypeOK, Numbered
<1>6. DOMAIN pending' = Handlers /\ pending' = [g \in Handlers |-> pending'[g]]
  BY DEF StreamInv, TypeOK
<1>7. \A g \in Handlers : pending'[g] \subseteq Events
  BY <1>3, <1>4, <1>5
<1>8. \A g \in Handlers : \A e \in pending'[g] : e.id <= minted'
  <2> SUFFICES ASSUME NEW g \in Handlers, NEW e \in pending'[g] PROVE e.id <= minted'
    OBVIOUS
  <2>1. CASE e \in log'
    BY <2>1, <1>3
  <2>2. CASE e \in pending[g]
    BY <2>2, <1>1, <1>2, <1>3, <1>5
  <2> QED
    BY <2>1, <2>2, <1>4
<1> QED
  BY <1>6, <1>7, <1>8

\* Nobody streams anything and no watcher moves: what was missed stays the same.
LEMMA QuietKeepsWatchers ==
  ASSUME StreamInv, UNCHANGED <<watcher, streamed>>
  PROVE  NothingMissed'
BY DEF StreamInv, NothingMissed

LEMMA SectionStep ==
  ASSUME StreamInv, NEW h \in Handlers, IsSection(h)
  PROVE  StreamInv'
<1>1. PICK by \in Makers \ Unchecked, k \in Nat, n \in Nat : Section(h, by, k, n)
  BY DEF IsSection
<1>2. /\ Add(by, k) /\ (Saved \/ SaveFails) /\ UNCHANGED <<watcher, streamed, restarted>>
      /\ \/ UNCHANGED pending
         \/ pending' = [pending EXCEPT ![h] = LastOf(log', n)]
  BY <1>1 DEF Section
<1>3. TypeOK'
  BY <1>2, GrownLog, SectionKeeps DEF StreamInv, TypeOK
<1>4. Numbered'
  <2>1. \A e \in streamed : e.id <= minted'
    <3>1. \A e \in streamed : e.id \in Nat /\ e.id <= minted
      BY EventBoundAssumption DEF StreamInv, TypeOK, Numbered, Events
    <3> QED
      BY <3>1, <1>2, Added, EventBoundAssumption DEF StreamInv, TypeOK
  <2> QED
    BY <2>1, <1>2, GrownLog, SectionKeeps DEF StreamInv, Numbered
<1>5. Covered'
  <2>1. disk \subseteq disk'
    BY <1>1, <1>2, GrownLog DEF StreamInv
  <2>2. \A g \in Handlers : pending'[g] = pending[g] \/ pending'[g] \subseteq disk'
    <3>1. CASE UNCHANGED pending
      BY <3>1
    <3>2. CASE Saved /\ pending' = [pending EXCEPT ![h] = LastOf(log', n)]
      BY <3>2, LastOfIsPart DEF StreamInv, TypeOK, Saved
    <3> QED
      BY <1>1, <3>1, <3>2 DEF Section
  <2> QED
    BY <1>2, <2>1, <2>2 DEF StreamInv, Covered, StreamedIsDurable, Vouched
<1> QED
  BY <1>2, <1>3, <1>4, <1>5, QuietKeepsWatchers DEF StreamInv

\* What a broadcast of an event with a known id keeps.
LEMMA BroadcastKeeps ==
  ASSUME StreamInv, NEW e \in Events, Broadcast(e)
  PROVE  /\ watcher' \in [Watchers -> [pc : {"closed", "snapshot", "live", "lagged"},
                                       shown : SUBSET Events, since : 0..MaxEvents,
                                       queue : Seq(Events)]]
         /\ \A w \in Watchers : Len(watcher'[w].queue) <= Capacity
         /\ streamed' \subseteq Events
         /\ NothingMissed'
<1>1. \A w \in Watchers : watcher'[w] = Delivered(watcher[w], e)
  BY DEF Broadcast
<1> QED
  BY <1>1, DeliveredType, BroadcastMissesNothing DEF StreamInv, Broadcast, TypeOK

\* The newest event of a log that grew by one is the one it grew by.
LEMMA NewestIsNew ==
  ASSUME StreamInv, NEW by \in Makers, Add(by, 1)
  PROVE  Newest(log') \subseteq log' \ log
<1> DEFINE new == [id |-> minted + 1, sequence |-> next + 1, by |-> by]
<1>1. new \in log'
  <2>1. 1 \in 1..1
    OBVIOUS
  <2> QED
    BY <2>1 DEF Add
<1>2. next \in Nat /\ \A e \in log : e.sequence \in Nat /\ e.sequence <= next
  BY EventBoundAssumption DEF StreamInv, TypeOK, Numbered, Events
<1>3. \A e \in log : Before(e, new)
  BY <1>2 DEF Before
<1> QED
  BY <1>1, <1>3 DEF Newest

LEMMA ChatStep ==
  ASSUME StreamInv, NEW h \in Handlers, Chat(h) \/ ChatOpensSession(h)
  PROVE  StreamInv'
<1>1. PICK by \in Unchecked : Add(by, 1) /\ (Saved \/ SaveFails)
  BY DEF Chat, ChatOpensSession, Unchecked
<1>2. by \in Makers
  BY DEF Unchecked, Makers, SessionMakers
<1>3. Newest(log') \subseteq Events /\ \A e \in Newest(log') : e.id <= minted' /\ e.by \in Unchecked
  BY <1>1, <1>2, NewestIsNew, Added DEF StreamInv
<1>4. \/ pending' = [pending EXCEPT ![h] = Newest(log')] /\ UNCHANGED <<watcher, streamed>>
      \/ UNCHANGED pending /\ \E e \in Newest(log') : Broadcast(e)
  BY DEF Chat, ChatOpensSession
<1>5. \A g \in Handlers : pending'[g] = pending[g] \/ pending'[g] = Newest(log')
  BY <1>4 DEF StreamInv, TypeOK
<1>6. pending' = [g \in Handlers |-> pending'[g]]
  BY <1>4 DEF StreamInv, TypeOK
<1>7. \A e \in streamed' : e \in streamed \/ e \in Newest(log')
  BY <1>4 DEF Broadcast
<1>8. minted <= minted' /\ minted \in Nat /\ minted' \in Nat
  BY <1>1, <1>2, GrownLog, EventBoundAssumption DEF StreamInv, TypeOK
<1>9. TypeOK'
  <2>1. pending' \in [Handlers -> SUBSET Events] /\ restarted' = restarted
    BY <1>3, <1>5, <1>6 DEF StreamInv, TypeOK, Chat, ChatOpensSession
  <2>2. CASE UNCHANGED <<watcher, streamed>>
    BY <2>1, <2>2, <1>1, <1>2, GrownLog DEF StreamInv, TypeOK
  <2>3. CASE \E e \in Newest(log') : Broadcast(e)
    BY <2>1, <2>3, <1>1, <1>2, <1>3, GrownLog, BroadcastKeeps DEF StreamInv, TypeOK
  <2> QED
    BY <2>2, <2>3, <1>4
<1>10. Numbered'
  <2>1. \A e \in Events : e.id \in Nat
    BY EventBoundAssumption DEF Events
  <2>2. \A e \in streamed' : e.id <= minted'
    BY <2>1, <1>3, <1>7, <1>8 DEF StreamInv, TypeOK, Numbered
  <2>3. \A g \in Handlers : \A e \in pending'[g] : e.id <= minted'
    BY <2>1, <1>3, <1>5, <1>8 DEF StreamInv, TypeOK, Numbered
  <2> QED
    BY <2>2, <2>3, <1>1, <1>2, GrownLog DEF StreamInv, Numbered
<1>11. Covered'
  <2>1. disk \subseteq disk'
    BY <1>1, <1>2, GrownLog DEF StreamInv
  <2> QED
    BY <2>1, <1>3, <1>5, <1>7 DEF StreamInv, Covered, StreamedIsDurable, Vouched
<1>12. NothingMissed'
  BY <1>3, <1>4, BroadcastKeeps, QuietKeepsWatchers
<1> QED
  BY <1>9, <1>10, <1>11, <1>12 DEF StreamInv

LEMMA SendStep ==
  ASSUME StreamInv, NEW h \in Handlers, Send(h)
  PROVE  StreamInv'
<1>1. PICK e \in pending[h] : Broadcast(e) /\ pending' = [pending EXCEPT ![h] = @ \ {e}]
  BY DEF Send
<1>2. e \in Events /\ e.id <= minted /\ (e.by \notin Unchecked => e \in disk)
  BY DEF StreamInv, TypeOK, Numbered, Covered
<1>3. streamed' = streamed \cup {e}
  BY <1>1 DEF Broadcast
<1>4. /\ pending' \in [Handlers -> SUBSET Events]
      /\ \A g \in Handlers : pending'[g] \subseteq pending[g]
  BY <1>1 DEF StreamInv, TypeOK
<1>5. UNCHANGED <<log, next, disk, minted, restarted>>
  BY DEF Send
<1>6. TypeOK'
  BY <1>1, <1>2, <1>4, <1>5, BroadcastKeeps DEF StreamInv, TypeOK
<1>7. Numbered' /\ Covered'
  BY <1>2, <1>3, <1>4, <1>5 DEF StreamInv, Numbered, Covered, StreamedIsDurable, Vouched
<1> QED
  BY <1>1, <1>2, <1>6, <1>7, BroadcastKeeps DEF StreamInv

LEMMA SaveOnlyStep ==
  ASSUME StreamInv, SaveOnly
  PROVE  StreamInv'
<1>1. TypeOK' /\ Numbered'
  BY DEF SaveOnly, StreamInv, TypeOK, Numbered
<1>2. Covered'
  BY DEF SaveOnly, StreamInv, Covered, StreamedIsDurable, Vouched
<1> QED
  BY <1>1, <1>2, QuietKeepsWatchers DEF SaveOnly, StreamInv

Connections == [pc : {"closed", "snapshot", "live", "lagged"}, shown : SUBSET Events,
                since : 0..MaxEvents, queue : Seq(Events)]

\* A connection that, if live, misses nothing.
Complete(c) ==
  c.pc = "live" =>
    \A e \in streamed : e.id > c.since =>
      e \in c.shown \/ \E i \in 1..Len(c.queue) : c.queue[i] = e

LEMMA MovesStep ==
  ASSUME StreamInv, NEW w \in Watchers, NEW c \in Connections,
         Len(c.queue) <= Capacity, Complete(c), Moves(w, c)
  PROVE  StreamInv'
<1>1. /\ watcher' = [watcher EXCEPT ![w] = c]
      /\ UNCHANGED <<log, next, disk, pending, minted, streamed, restarted>>
  BY DEF Moves
<1>2. watcher' \in [Watchers -> Connections]
  BY <1>1 DEF StreamInv, TypeOK, Connections
<1>3. \A v \in Watchers : watcher'[v] = c \/ watcher'[v] = watcher[v]
  BY <1>1 DEF StreamInv, TypeOK
<1>4. TypeOK'
  BY <1>1, <1>2, <1>3 DEF StreamInv, TypeOK, Connections
<1>5. \A v \in Watchers : Complete(watcher[v])
  BY DEF StreamInv, NothingMissed, Complete
<1>6. NothingMissed'
  <2> SUFFICES ASSUME NEW v \in Watchers PROVE Complete(watcher[v])'
    BY DEF NothingMissed, Complete
  <2>1. CASE watcher'[v] = c
    BY <2>1, <1>1 DEF Complete
  <2>2. CASE watcher'[v] = watcher[v]
    BY <2>2, <1>1, <1>5 DEF Complete
  <2> QED
    BY <2>1, <2>2, <1>3
<1> QED
  BY <1>1, <1>4, <1>6 DEF StreamInv, Numbered, Covered, StreamedIsDurable, Vouched

LEMMA EmptyQueue == << >> \in Seq(Events) /\ Len(<< >>) = 0
OBVIOUS

\* Reading the head of a queue keeps every other element in it.
LEMMA TailKeeps ==
  ASSUME NEW q \in Seq(Events), q # << >>
  PROVE  /\ Head(q) \in Events /\ Tail(q) \in Seq(Events) /\ Len(Tail(q)) = Len(q) - 1
         /\ \A i \in 1..Len(q) : q[i] = Head(q) \/ \E j \in 1..Len(Tail(q)) : Tail(q)[j] = q[i]
<1>1. Head(q) = q[1] /\ Len(Tail(q)) = Len(q) - 1 /\ Len(q) \in Nat
      /\ Head(q) \in Events /\ Tail(q) \in Seq(Events)
  OBVIOUS
<1>2. \A i \in 1..Len(q) : i # 1 => i - 1 \in 1..Len(Tail(q)) /\ Tail(q)[i - 1] = q[i]
  BY <1>1
<1> QED
  BY <1>1, <1>2

LEMMA WatcherStep ==
  ASSUME StreamInv, NEW w \in Watchers,
         Connect(w) \/ Subscribe(w) \/ Receive(w) \/ Disconnect(w)
  PROVE  StreamInv'
<1> DEFINE o == watcher[w]
<1>1. o \in Connections /\ Len(o.queue) <= Capacity /\ Complete(o)
  BY DEF StreamInv, TypeOK, NothingMissed, Complete, Connections
<1>2. CASE Connect(w)
  <2> DEFINE c == Connection("snapshot", log, 0, << >>)
  <2>1. c \in Connections /\ Len(c.queue) <= Capacity /\ Complete(c)
    BY EmptyQueue, EventBoundAssumption DEF Connection, Connections, Complete, StreamInv, TypeOK
  <2> QED
    BY <1>2, <2>1, MovesStep DEF Connect
<1>3. CASE Subscribe(w)
  <2> DEFINE c == Connection("live", o.shown, minted, << >>)
  <2>1. \A e \in streamed : ~(e.id > minted)
    BY EventBoundAssumption DEF StreamInv, TypeOK, Numbered, Events
  <2>2. c \in Connections /\ Len(c.queue) <= Capacity
    BY <1>1, EmptyQueue, EventBoundAssumption DEF Connection, Connections, StreamInv, TypeOK
  <2>3. Complete(c)
    BY <2>1 DEF Connection, Complete
  <2> QED
    BY <1>3, <2>2, <2>3, MovesStep DEF Subscribe
<1>4. CASE Receive(w)
  <2> DEFINE q == o.queue
             c == Connection("live", o.shown \cup {Head(q)}, o.since, Tail(q))
  <2>1. o.pc = "live" /\ q # << >> /\ Moves(w, c)
    BY <1>4 DEF Receive
  <2>2. q \in Seq(Events) /\ o.shown \subseteq Events /\ o.since \in 0..MaxEvents
    BY <1>1 DEF Connections
  <2>3. /\ Head(q) \in Events /\ Tail(q) \in Seq(Events) /\ Len(Tail(q)) = Len(q) - 1
        /\ \A i \in 1..Len(q) : q[i] = Head(q) \/ \E j \in 1..Len(Tail(q)) : Tail(q)[j] = q[i]
    BY <2>1, <2>2, TailKeeps
  <2>4. /\ c.pc = "live" /\ c.shown = o.shown \cup {Head(q)} /\ c.since = o.since
        /\ c.queue = Tail(q)
    BY DEF Connection
  <2>5. Complete(c)
    BY <1>1, <2>1, <2>3, <2>4 DEF Complete
  <2>6. c \in Connections
    BY <2>2, <2>3 DEF Connections, Connection
  <2>7. Len(c.queue) <= Capacity
    <3>1. Len(q) \in Nat /\ Len(q) <= Capacity
      BY <1>1, <2>2
    <3>2. Len(c.queue) = Len(q) - 1
      BY <2>3, <2>4
    <3> HIDE DEF c, q
    <3> QED
      BY <3>1, <3>2, EventBoundAssumption
  <2> HIDE DEF c
  <2> QED
    BY <2>1, <2>5, <2>6, <2>7, MovesStep
<1>5. CASE Disconnect(w)
  <2>1. Closed \in Connections /\ Len(Closed.queue) <= Capacity /\ Complete(Closed)
    BY EmptyQueue, EventBoundAssumption DEF Closed, Connection, Connections, Complete
  <2> QED
    BY <1>5, <2>1, MovesStep DEF Disconnect
<1> QED
  BY <1>2, <1>3, <1>4, <1>5

LEMMA RestartStep ==
  ASSUME StreamInv, CrashAndRestart \/ RestartEmpty
  PROVE  StreamInv'
<1>1. /\ log' = disk \/ log' = {}
      /\ next' \in 0..MaxEvents /\ next' <= minted
      /\ \A e \in log' : e.sequence <= next'
  <2>1. CASE CrashAndRestart
    <3>1. PICK n \in 0..MaxEvents :
            /\ next' = n /\ log' = disk
            /\ \A e \in disk : e.sequence <= n
            /\ n = 0 \/ \E e \in disk : e.sequence = n
      BY <2>1 DEF CrashAndRestart
    <3>2. n <= minted
      BY <3>1, EventBoundAssumption DEF StreamInv, TypeOK, Numbered, Events
    <3> QED
      BY <3>1, <3>2
  <2>2. CASE RestartEmpty
    BY <2>2, EventBoundAssumption DEF RestartEmpty, StreamInv, TypeOK
  <2> QED
    BY <2>1, <2>2
<1>2. Forgotten
  BY DEF CrashAndRestart, RestartEmpty
<1>3. \A w \in Watchers : watcher'[w] = Closed
  BY <1>2 DEF Forgotten
<1>4. << >> \in Seq(Events) /\ Len(<< >>) = 0
  OBVIOUS
<1>5. restarted' \in BOOLEAN
  <2>1. restarted' = restarted \/ restarted' = TRUE
    BY DEF CrashAndRestart, RestartEmpty
  <2> QED
    BY <2>1 DEF StreamInv, TypeOK
<1>6. TypeOK'
  BY <1>1, <1>2, <1>3, <1>4, <1>5, EventBoundAssumption
  DEF Forgotten, StreamInv, TypeOK, Closed, Connection
<1>7. Numbered' /\ Covered'
  BY <1>1, <1>2 DEF Forgotten, StreamInv, Numbered, Covered, StreamedIsDurable, Vouched
<1>8. NothingMissed'
  BY <1>3 DEF NothingMissed, Closed, Connection
<1> QED
  BY <1>6, <1>7, <1>8 DEF StreamInv

LEMMA NextStreamInv == StreamInv /\ [Next]_vars => StreamInv'
<1> SUFFICES ASSUME StreamInv, [Next]_vars PROVE StreamInv'
  OBVIOUS
<1>1. CASE UNCHANGED vars
  BY <1>1 DEF vars, StreamInv, TypeOK, Numbered, Covered, StreamedIsDurable, Vouched, NothingMissed
<1>2. CASE Next
  <2>1. CASE \E h \in Handlers : IsSection(h)
    BY <2>1, SectionStep
  <2>2. CASE \E h \in Handlers : Chat(h) \/ ChatOpensSession(h) \/ Send(h)
    BY <2>2, ChatStep, SendStep
  <2>3. CASE SaveOnly \/ CrashAndRestart \/ RestartEmpty
    BY <2>3, SaveOnlyStep, RestartStep
  <2>4. CASE \E w \in Watchers : Connect(w) \/ Subscribe(w) \/ Receive(w) \/ Disconnect(w)
    BY <2>4, WatcherStep
  <2> QED
    BY <1>2, <2>1, <2>2, <2>3, <2>4, Sections DEF Next
<1> QED
  BY <1>1, <1>2

\* Every variable keeps its domain, for every bound, channel and fault.
THEOREM StreamTypes == Spec => []TypeOK
<1>1. StreamInv => TypeOK
  BY DEF StreamInv
<1> QED
  BY InitStreamInv, NextStreamInv, <1>1, PTL DEF Spec

\* What handlers that check their transaction streamed is on disk for good.
THEOREM StreamIsDurable == Spec => []StreamedIsDurable
<1>1. StreamInv => StreamedIsDurable
  BY DEF StreamInv, Covered
<1> QED
  BY InitStreamInv, NextStreamInv, <1>1, PTL DEF Spec

\* A live watcher has, or will read, all that was streamed since it subscribed.
THEOREM LiveWatchersMissNothing == Spec => []NothingMissed
<1>1. StreamInv => NothingMissed
  BY DEF StreamInv
<1> QED
  BY InitStreamInv, NextStreamInv, <1>1, PTL DEF Spec

-----------------------------------------------------------------------------
(* The order of the log, as long as every load succeeded.                   *)

\* Disk is the part of the log that comes first, and numbers are not reused.
Ordered ==
  /\ disk \subseteq log
  /\ \A e, f \in log : e.sequence = f.sequence => e = f
  /\ \A e \in disk, f \in log \ disk : e.sequence < f.sequence

OrderInv == StreamInv /\ (restarted \/ Ordered)

\* What an append or a save does to the order of disk.
Appends == \A e \in disk, f \in disk' \ disk : e.sequence < f.sequence

LEMMA AddOrder ==
  ASSUME StreamInv, Ordered, NEW by \in Makers, NEW k \in Nat, Add(by, k),
         Saved \/ SaveFails
  PROVE  Ordered' /\ Appends
<1>1. next \in Nat /\ \A e \in log : e.sequence \in Nat /\ e.sequence <= next
  BY EventBoundAssumption DEF StreamInv, TypeOK, Numbered, Events
<1>2. \A e \in log' \ log : e.sequence \in Nat /\ next < e.sequence
  BY Added, EventBoundAssumption DEF StreamInv, Events
<1>3. log \subseteq log' /\ \A e, f \in log' \ log : e.sequence = f.sequence => e = f
  BY Added DEF StreamInv
<1>4. \A e \in log, f \in log' \ log : e.sequence < f.sequence
  BY <1>1, <1>2
<1>5. \A e, f \in log' : e.sequence = f.sequence => e = f
  BY <1>1, <1>2, <1>3, <1>4 DEF Ordered
<1>6. \A e \in disk, f \in log' \ disk : e.sequence < f.sequence
  BY <1>4 DEF Ordered
<1>7. disk' = disk \/ disk' = log'
  BY <1>3 DEF Saved, SaveFails, Ordered
<1> QED
  BY <1>3, <1>5, <1>6, <1>7 DEF Ordered, Appends

\* One step from an ordered log; a failed load is the only step that is not here.
LEMMA OrderStep ==
  ASSUME StreamInv, Ordered, Next, ~RestartEmpty
  PROVE  Ordered' /\ Appends
<1>1. CASE UNCHANGED <<log, disk>>
  BY <1>1 DEF Ordered, Appends
<1>2. ASSUME NEW h \in Handlers, IsSection(h) PROVE Ordered' /\ Appends
  BY <1>2, AddOrder DEF IsSection, Section
<1>3. ASSUME NEW h \in Handlers, Chat(h) \/ ChatOpensSession(h) PROVE Ordered' /\ Appends
  <2>1. \E by \in Unchecked : Add(by, 1) /\ (Saved \/ SaveFails)
    BY <1>3 DEF Chat, ChatOpensSession, Unchecked
  <2>2. Unchecked \subseteq Makers
    BY DEF Unchecked, Makers, SessionMakers
  <2> QED
    BY <2>1, <2>2, AddOrder
<1>4. CASE SaveOnly
  BY <1>4 DEF SaveOnly, Ordered, Appends
<1>5. CASE CrashAndRestart
  BY <1>5 DEF CrashAndRestart, Forgotten, Ordered, Appends
<1>6. ASSUME NEW h \in Handlers, Send(h) PROVE UNCHANGED <<log, disk>>
  BY <1>6 DEF Send
<1>7. ASSUME NEW w \in Watchers, Connect(w) \/ Subscribe(w) \/ Receive(w) \/ Disconnect(w)
      PROVE  UNCHANGED <<log, disk>>
  BY <1>7 DEF Connect, Subscribe, Receive, Disconnect, Moves
<1> QED
  BY <1>1, <1>2, <1>3, <1>4, <1>5, <1>6, <1>7, Sections DEF Next

\* A failed load is remembered: no other step touches the flag.
LEMMA RestartedStays == [Next]_vars => restarted' = restarted \/ RestartEmpty
BY DEF Next, vars, CreateSession, Announce, CreateTurn, ExecuteLatest, CloseWithFollowUp,
   BootstrapCoreCapsule, BootstrapProviderLane, Section, ChatOpensSession, Chat, Send,
   SaveOnly, Connect, Subscribe, Receive, Disconnect, Moves, CrashAndRestart

LEMMA NextOrder ==
  ASSUME OrderInv, [Next]_vars
  PROVE  OrderInv' /\ (restarted \/ Appends)
<1>1. StreamInv'
  BY NextStreamInv DEF OrderInv
<1>2. CASE restarted
  <2>1. restarted'
    BY <1>2, RestartedStays DEF RestartEmpty
  <2> QED
    BY <1>1, <1>2, <2>1 DEF OrderInv
<1>3. CASE Ordered /\ Next /\ ~RestartEmpty
  BY <1>1, <1>3, OrderStep DEF OrderInv
<1>4. CASE RestartEmpty
  BY <1>1, <1>4 DEF RestartEmpty, Forgotten, OrderInv, Appends
<1>5. CASE Ordered /\ UNCHANGED vars
  BY <1>1, <1>5 DEF vars, OrderInv, Ordered, Appends
<1> QED
  BY <1>2, <1>3, <1>4, <1>5 DEF OrderInv

LEMMA InitOrder == Init => OrderInv
BY InitStreamInv DEF Init, OrderInv, Ordered

\* While loads succeed, a streamed sequence number names one event for good.
THEOREM SequencesIdentify == Spec => []SequenceIdentifies
<1>1. OrderInv /\ [Next]_vars => OrderInv'
  BY NextOrder
<1>2. OrderInv => SequenceIdentifies
  BY DEF OrderInv, StreamInv, Covered, StreamedIsDurable, Ordered, SequenceIdentifies
<1> QED
  BY InitOrder, <1>1, <1>2, PTL DEF Spec

-----------------------------------------------------------------------------
(* The table and the stream implement EventHistory.                         *)

\* Rows are never taken away, and telling of an event saves nothing; the event
\* a chat streams inside its section was made by nobody who waits.
LEMMA SavesOrTells ==
  ASSUME StreamInv, [Next]_vars
  PROVE  /\ disk \subseteq disk'
         /\ \/ Vouched' = Vouched
            \/ disk' = disk /\ \E e \in streamed' : Vouched' = Vouched \cup {e} /\ e \in Vouched'
<1>1. CASE UNCHANGED vars
  BY <1>1 DEF vars, Vouched
<1>2. ASSUME NEW h \in Handlers, IsSection(h)
      PROVE  disk \subseteq disk' /\ Vouched' = Vouched
  BY <1>2 DEF IsSection, Section, Saved, SaveFails, Vouched
<1>3. ASSUME NEW h \in Handlers, Chat(h)
      PROVE  disk \subseteq disk' /\ Vouched' = Vouched
  BY <1>3 DEF Chat, Saved, SaveFails, Vouched
<1>4. ASSUME NEW h \in Handlers, ChatOpensSession(h)
      PROVE  disk \subseteq disk' /\ Vouched' = Vouched
  <2>1. PICK e \in Newest(log') : streamed' = streamed \cup {e}
    BY <1>4 DEF ChatOpensSession, Broadcast
  <2>2. Add("chat_session", 1) /\ (Saved \/ SaveFails)
    BY <1>4 DEF ChatOpensSession
  <2>3. e.by \in Unchecked
    BY <2>1, <2>2, NewestIsNew, Added DEF StreamInv, Unchecked, Makers, SessionMakers
  <2> QED
    BY <2>1, <2>2, <2>3 DEF Saved, SaveFails, Vouched
<1>5. ASSUME NEW h \in Handlers, Send(h)
      PROVE  /\ disk' = disk
             /\ \/ Vouched' = Vouched
                \/ \E e \in streamed' : Vouched' = Vouched \cup {e} /\ e \in Vouched'
  <2>1. PICK e : streamed' = streamed \cup {e} /\ disk' = disk
    BY <1>5 DEF Send, Broadcast
  <2>2. CASE e.by \in Unchecked
    BY <2>1, <2>2 DEF Vouched
  <2>3. CASE e.by \notin Unchecked
    <3>1. Vouched' = Vouched \cup {e} /\ e \in Vouched'
      BY <2>1, <2>3 DEF Vouched
    <3> QED
      BY <2>1, <3>1
  <2> QED
    BY <2>2, <2>3
<1>6. CASE SaveOnly \/ CrashAndRestart \/ RestartEmpty
  BY <1>6 DEF SaveOnly, CrashAndRestart, RestartEmpty, Forgotten, Vouched
<1>7. ASSUME NEW w \in Watchers, Connect(w) \/ Subscribe(w) \/ Receive(w) \/ Disconnect(w)
      PROVE  disk' = disk /\ Vouched' = Vouched
  BY <1>7 DEF Connect, Subscribe, Receive, Disconnect, Moves, Vouched
<1> QED
  BY <1>1, <1>2, <1>3, <1>4, <1>5, <1>6, <1>7, Sections DEF Next

\* In an ordered log what joins the table continues it.
LEMMA Continued ==
  ASSUME Ordered, Ordered', Appends
  PROVE  History!Continues(disk, disk' \ disk)
BY DEF Ordered, Appends, History!Continues

\* The table, and what watchers were told by handlers that wait for their
\* transaction, are a history that only grows at its end, for any number of
\* handlers and watchers and with every fault.
THEOREM HistoryRefinement == Spec => ImplementsHistory
<1>1. Init => History!Init
  BY DEF Init, History!Init, Vouched
<1>2. ASSUME OrderInv, OrderInv', [Next]_vars
      PROVE  [History!Next]_<<disk, Vouched, restarted>>
  <2>1. /\ disk \subseteq disk'
        /\ \/ Vouched' = Vouched
           \/ disk' = disk /\ \E e \in streamed' : Vouched' = Vouched \cup {e} /\ e \in Vouched'
    BY <1>2, SavesOrTells DEF OrderInv
  <2>2. CASE RestartEmpty
    BY <2>2 DEF RestartEmpty, Forgotten, Vouched, History!Next, History!Renumber
  <2>3. CASE ~RestartEmpty /\ Vouched' = Vouched
    <3>1. restarted' = restarted
      BY <1>2, <2>3, RestartedStays
    <3>2. restarted \/ History!Continues(disk, disk' \ disk)
      BY <1>2, <3>1, NextOrder, Continued DEF OrderInv
    <3> QED
      BY <2>1, <2>3, <3>1, <3>2 DEF History!Next, History!Save
  <2>4. CASE ~RestartEmpty /\ Vouched' # Vouched
    <3>1. restarted' = restarted
      BY <1>2, <2>4, RestartedStays
    <3>2. PICK e \in streamed' : Vouched' = Vouched \cup {e} /\ e \in Vouched'
      BY <2>1, <2>4
    <3>3. disk' = disk /\ e \in disk'
      BY <1>2, <2>1, <2>4, <3>2 DEF OrderInv, StreamInv, Covered, StreamedIsDurable
    <3> QED
      BY <3>1, <3>2, <3>3 DEF History!Next, History!Tell
  <2> QED
    BY <2>2, <2>3, <2>4
<1>3. OrderInv /\ [Next]_vars => OrderInv'
  BY NextOrder
<1> QED
  BY InitOrder, <1>1, <1>2, <1>3, PTL DEF Spec, ImplementsHistory, History!Spec

===============================================================================
