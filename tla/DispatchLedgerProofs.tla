------------------------ MODULE DispatchLedgerProofs ------------------------
(***************************************************************************)
(* When the operator resolves each approval once, as the cockpit lets him, *)
(* HouseDispatch keeps the ledger of DispatchLedger: one executor per      *)
(* dispatch, one provider launch per dispatch, and a copy on disk that     *)
(* only moves forward, through crashes and failed transactions.  Whatever  *)
(* the operator does, a run comes down to its end.                         *)
(***************************************************************************)
EXTENDS HouseDispatchProofs, FiniteSetTheorems

NotEarlier(p, q) == q = p \/ Ledger!Precedes(p, q)

LEMMA NotEarlierTransitive ==
  ASSUME NEW p, NEW q, NEW r, NotEarlier(p, q), NotEarlier(q, r)
  PROVE  NotEarlier(p, r)
BY DEF NotEarlier, Ledger!Precedes

\* Memory has gone at least as far as disk with every dispatch.
MemoryAhead == \A d \in Dispatches : NotEarlier(PhaseOf(disk, d), PhaseOf(House, d))

\* What was launched or reported is known to memory and disk alike.
HistoryKept ==
  /\ \A e \in Executors : Busy(e) => exec[e].job \in launched
  /\ \A d \in launched : status[d] \in Ledger!Started /\ disk.status[d] \in Ledger!Started
  /\ \A d \in told : status[d] = "completed" /\ disk.status[d] = "completed"

\* A step takes no dispatch back on disk.
DiskForward == \A d \in Dispatches : NotEarlier(PhaseOf(disk, d), PhaseOf(disk, d)')

LedgerInv == GateInv /\ SoleOwner /\ MemoryAhead /\ HistoryKept

LEMMA InitLedgerInv == Init => LedgerInv
<1> SUFFICES ASSUME Init PROVE LedgerInv
  OBVIOUS
<1>1. House = disk
  BY DEF Init, House, EmptyHouse
<1> QED
  BY <1>1, InitGateInv DEF Init, LedgerInv, SoleOwner, MemoryAhead, HistoryKept, NotEarlier, Busy

\* Memory moves forward and is saved, or the save fails: memory stays ahead of
\* disk and disk itself moves forward.
LEMMA SaveForward ==
  ASSUME MemoryAhead, \A d \in Dispatches : NotEarlier(PhaseOf(House, d), PhaseOf(House, d)'),
         disk' = House' \/ disk' = disk
  PROVE  /\ MemoryAhead'
         /\ \A d \in Dispatches : NotEarlier(PhaseOf(disk, d), PhaseOf(disk, d)')
<1>1. ASSUME NEW d \in Dispatches PROVE NotEarlier(PhaseOf(disk, d), PhaseOf(House, d)')
  BY NotEarlierTransitive DEF MemoryAhead
<1>2. CASE disk' = House'
  <2>1. \A d \in Dispatches : PhaseOf(disk, d)' = PhaseOf(House, d)'
    BY <1>2 DEF PhaseOf
  <2> QED
    BY <1>1, <2>1 DEF MemoryAhead, NotEarlier
<1>3. CASE disk' = disk
  <2>1. \A d \in Dispatches : PhaseOf(disk, d)' = PhaseOf(disk, d)
    BY <1>3 DEF PhaseOf
  <2> QED
    BY <1>1, <2>1 DEF MemoryAhead, NotEarlier
<1> QED
  BY <1>2, <1>3

\* A started dispatch stays started whatever follows it.
LEMMA StartedStays ==
  ASSUME NEW s \in Status, NEW a \in ApprovalStatus, NEW s2 \in Status, NEW a2 \in ApprovalStatus,
         NotEarlier(Phase(s, a), Phase(s2, a2))
  PROVE  /\ s \in Ledger!Started => s2 \in Ledger!Started
         /\ s = "completed" => s2 = "completed"
         /\ s2 \notin Ledger!Started => s \notin Ledger!Started
         /\ s \in Settled => s2 = s
BY DEF Phase, NotEarlier, Ledger!Precedes, Ledger!Started, Status, ApprovalStatus, Settled

\* A section that moves memory forward and saves it, leaving executors and the
\* launch history alone, keeps what was launched and reported.
LEMMA KeepHistory ==
  ASSUME LedgerInv, TypeOK', UNCHANGED launched,
         \A e \in Executors : Busy(e)' => Busy(e) /\ exec'[e].job = exec[e].job,
         \A d \in Dispatches : NotEarlier(PhaseOf(House, d), PhaseOf(House, d)'),
         \A d \in Dispatches : NotEarlier(PhaseOf(disk, d), PhaseOf(disk, d)'),
         \A d \in told' \ told : status'[d] = "completed" /\ disk'.status[d] = "completed"
  PROVE  HistoryKept'
<1>1. TypeOK /\ HistoryKept
  BY DEF LedgerInv, GateInv, TypeInv
<1>2. ASSUME NEW d \in Dispatches
      PROVE  /\ status[d] \in Ledger!Started => status'[d] \in Ledger!Started
             /\ status[d] = "completed" => status'[d] = "completed"
             /\ disk.status[d] \in Ledger!Started => disk'.status[d] \in Ledger!Started
             /\ disk.status[d] = "completed" => disk'.status[d] = "completed"
  <2>1. /\ status[d] \in Status /\ status'[d] \in Status
        /\ approval[d] \in ApprovalStatus /\ approval'[d] \in ApprovalStatus
        /\ disk.status[d] \in Status /\ disk'.status[d] \in Status
        /\ disk.approval[d] \in ApprovalStatus /\ disk'.approval[d] \in ApprovalStatus
    BY <1>1 DEF TypeOK, House, HouseType
  <2>2. NotEarlier(Phase(status[d], approval[d]), Phase(status'[d], approval'[d]))
    BY DEF PhaseOf, House
  <2>3. NotEarlier(Phase(disk.status[d], disk.approval[d]), Phase(disk'.status[d], disk'.approval[d]))
    BY DEF PhaseOf
  <2> QED
    BY <2>1, <2>2, <2>3, StartedStays
<1>3. launched \subseteq Dispatches /\ told \subseteq Dispatches
  BY <1>1 DEF TypeOK
<1>4. \A e \in Executors : Busy(e)' => exec'[e].job \in launched'
  BY <1>1 DEF HistoryKept
<1>5. \A d \in launched' : status'[d] \in Ledger!Started /\ disk'.status[d] \in Ledger!Started
  BY <1>1, <1>2, <1>3 DEF HistoryKept
<1>6. \A d \in told' : status'[d] = "completed" /\ disk'.status[d] = "completed"
  BY <1>1, <1>2, <1>3 DEF HistoryKept
<1> QED
  BY <1>4, <1>5, <1>6 DEF HistoryKept, Ledger!Started

\* Executors as they were or gone, and no dispatch taken from one that stays.
LEMMA KeepOwners ==
  ASSUME LedgerInv,
         \A e \in Executors : Busy(e)' =>
            Busy(e) /\ exec'[e].job = exec[e].job /\ status'[exec[e].job] = status[exec[e].job]
  PROVE  SoleOwner'
BY DEF LedgerInv, SoleOwner

\* Every step but a restart saves memory or leaves disk alone.
LEMMA SavesOrNot == [Next]_vars => disk' = House' \/ disk' = disk
BY DEF Next, vars, CreateTurn, ExecuteLatest, GrantApproval, DenyApproval, SetAutonomy,
       OtherHandlerSaves, SelectAndRun, RequestApproval, StartRun, Step, AttemptSucceeds,
       AttemptFails, CloseFailed, CloseCompleted, CloseWithFollowUp, ReportCompleted,
       ExecutorLost, CrashAndRestart, Persisted, PersistFailed, house, House

\* The dispatches a step does not touch keep their phase.
LEMMA OthersKeepPhase ==
  ASSUME NEW D \in SUBSET Dispatches,
         \A d \in Dispatches \ D : status'[d] = status[d] /\ approval'[d] = approval[d],
         \A d \in D : NotEarlier(Phase(status[d], approval[d]), Phase(status'[d], approval'[d]))
  PROVE  \A d \in Dispatches : NotEarlier(PhaseOf(House, d), PhaseOf(House, d)')
BY DEF NotEarlier, PhaseOf, House

\* A step of one dispatch.
LEMMA OneMoves ==
  ASSUME Typed, NEW d \in Dispatches, NEW s \in Status, NEW t, Mark(d, s, t),
         \A c \in Dispatches \ {d} : approval'[c] = approval[c],
         NotEarlier(Phase(status[d], approval[d]), Phase(s, approval'[d]))
  PROVE  /\ \A c \in Dispatches : NotEarlier(PhaseOf(House, c), PhaseOf(House, c)')
         /\ status'[d] = s
         /\ \A c \in Dispatches \ {d} : status'[c] = status[c]
<1>1. status'[d] = s /\ \A c \in Dispatches \ {d} : status'[c] = status[c]
  BY DEF Mark, Typed
<1>2. \A c \in {d} : NotEarlier(Phase(status[c], approval[c]), Phase(status'[c], approval'[c]))
  BY <1>1
<1>3. {d} \in SUBSET Dispatches
  OBVIOUS
<1>4. \A c \in Dispatches \ {d} : status'[c] = status[c] /\ approval'[c] = approval[c]
  BY <1>1
<1>5. \A c \in Dispatches : NotEarlier(PhaseOf(House, c), PhaseOf(House, c)')
  BY <1>2, <1>3, <1>4, OthersKeepPhase
<1> QED
  BY <1>1, <1>5

\* Nothing but a launch is needed of a step that moves memory forward.
LEMMA ForwardKeepsInv ==
  ASSUME LedgerInv, [Next]_vars, UNCHANGED launched,
         \A d \in Dispatches : NotEarlier(PhaseOf(House, d), PhaseOf(House, d)'),
         \A e \in Executors : Busy(e)' =>
            Busy(e) /\ exec'[e].job = exec[e].job /\ status'[exec[e].job] = status[exec[e].job],
         \A d \in told' \ told : status'[d] = "completed" /\ disk'.status[d] = "completed"
  PROVE  LedgerInv' /\ DiskForward
<1>1. GateInv' /\ TypeOK'
  BY NextGateInv DEF LedgerInv, GateInv, TypeInv
<1>2. MemoryAhead' /\ \A d \in Dispatches : NotEarlier(PhaseOf(disk, d), PhaseOf(disk, d)')
  BY SavesOrNot, SaveForward DEF LedgerInv
<1>3. SoleOwner'
  BY KeepOwners
<1>4. HistoryKept'
  BY <1>1, <1>2, KeepHistory
<1> QED
  BY <1>1, <1>2, <1>3, <1>4 DEF LedgerInv, DiskForward

\* A section that completes d and reports it.
LEMMA ReportIsTrue ==
  ASSUME NEW d \in Dispatches, ReportCompleted(d), status'[d] = "completed"
  PROVE  \A c \in told' \ told : status'[c] = "completed" /\ disk'.status[c] = "completed"
BY DEF ReportCompleted, Persisted, PersistFailed, House

LEMMA NextLedgerInv ==
  ASSUME CockpitOperator, LedgerInv, [Next]_vars
  PROVE  LedgerInv' /\ DiskForward
<1>t. /\ GateInv /\ TypeInv /\ TypeOK /\ Typed /\ Whole(House) /\ SoleOwner
      /\ GateInv' /\ TypeOK'
  BY NextGateInv, HouseTyped DEF LedgerInv, GateInv, TypeInv, TypeOK
<1> USE DEF Ledger!Precedes, NotEarlier, Phase
<1>1. CASE CreateTurn
  <2>1. PICK d \in Dispatches, s \in Sessions, l \in Lanes : Fresh(d) /\ QueueTurn(d, s, l)
    BY <1>1 DEF CreateTurn
  <2>2. status[d] = "none"
    BY <2>1 DEF Fresh
  <2>3. /\ \A c \in Dispatches : NotEarlier(PhaseOf(House, c), PhaseOf(House, c)')
        /\ \A c \in Dispatches \ {d} : status'[c] = status[c]
    BY <2>1, <2>2, <1>t, OneMoves DEF QueueTurn, Status
  <2>4. \A e \in Executors : Busy(e)' =>
          Busy(e) /\ exec'[e].job = exec[e].job /\ status'[exec[e].job] = status[exec[e].job]
    BY <1>1, <2>2, <2>3, <1>t, BusyWorking DEF CreateTurn, Busy, SoleOwner
  <2> QED
    BY <1>1, <2>3, <2>4, ForwardKeepsInv DEF CreateTurn
<1>2. CASE ExecuteLatest
  <2>1. PICK d \in Queued :
          /\ Mark(d, "completed", "Completed") /\ ReportCompleted(d)
          /\ UNCHANGED <<approval, lane, session, exec, enabled, launched>>
    BY <1>2 DEF ExecuteLatest
  <2>2. d \in Dispatches /\ status[d] = "queued"
    BY <2>1 DEF Queued
  <2>3. /\ \A c \in Dispatches : NotEarlier(PhaseOf(House, c), PhaseOf(House, c)')
        /\ \A c \in Dispatches \ {d} : status'[c] = status[c]
        /\ status'[d] = "completed"
    BY <2>1, <2>2, <1>t, OneMoves DEF Status
  <2>4. \A e \in Executors : Busy(e)' =>
          Busy(e) /\ exec'[e].job = exec[e].job /\ status'[exec[e].job] = status[exec[e].job]
    BY <2>1, <2>2, <2>3, <1>t, BusyWorking DEF Busy, SoleOwner
  <2>5. \A c \in told' \ told : status'[c] = "completed" /\ disk'.status[c] = "completed"
    BY <2>1, <2>2, <2>3, ReportIsTrue
  <2> QED
    BY <2>1, <2>3, <2>4, <2>5, ForwardKeepsInv
<1>3. ASSUME NEW d \in Dispatches, GrantApproval(d) PROVE LedgerInv' /\ DiskForward
  <2>1. status[d] = "awaiting_approval"
    BY <1>3, <1>t DEF GrantApproval, Resolvable, Whole, Agree, House
  <2>2. approval'[d] = "granted" /\ \A c \in Dispatches \ {d} : approval'[c] = approval[c]
    BY <1>3, <1>t DEF GrantApproval, Typed
  <2>3. /\ \A c \in Dispatches : NotEarlier(PhaseOf(House, c), PhaseOf(House, c)')
        /\ \A c \in Dispatches \ {d} : status'[c] = status[c]
    BY <1>3, <2>1, <2>2, <1>t, OneMoves DEF GrantApproval, Status
  <2>4. \A e \in Executors : Busy(e)' =>
          Busy(e) /\ exec'[e].job = exec[e].job /\ status'[exec[e].job] = status[exec[e].job]
    BY <1>3, <2>1, <2>3, <1>t, BusyWorking DEF GrantApproval, Busy, SoleOwner
  <2> QED
    BY <1>3, <2>3, <2>4, ForwardKeepsInv DEF GrantApproval
<1>4. ASSUME NEW d \in Dispatches, DenyApproval(d) PROVE LedgerInv' /\ DiskForward
  <2>1. status[d] = "awaiting_approval"
    BY <1>4, <1>t DEF DenyApproval, Resolvable, Whole, Agree, House
  <2>2. approval'[d] = "denied" /\ \A c \in Dispatches \ {d} : approval'[c] = approval[c]
    BY <1>4, <1>t DEF DenyApproval, Typed
  <2>3. /\ \A c \in Dispatches : NotEarlier(PhaseOf(House, c), PhaseOf(House, c)')
        /\ \A c \in Dispatches \ {d} : status'[c] = status[c]
    BY <1>4, <2>1, <2>2, <1>t, OneMoves DEF DenyApproval, Status
  <2>4. \A e \in Executors : Busy(e)' =>
          Busy(e) /\ exec'[e].job = exec[e].job /\ status'[exec[e].job] = status[exec[e].job]
    BY <1>4, <2>1, <2>3, <1>t, BusyWorking DEF DenyApproval, Busy, SoleOwner
  <2> QED
    BY <1>4, <2>3, <2>4, ForwardKeepsInv DEF DenyApproval
<1>5. ASSUME UNCHANGED <<house, exec, launched, told>> PROVE LedgerInv' /\ DiskForward
  BY <1>5, ForwardKeepsInv DEF house, House, PhaseOf, Busy
<1>6. ASSUME NEW e \in Executors, NEW d \in Dispatches, NEW dirty \in BOOLEAN,
             RequestApproval(e, d, dirty)
      PROVE  LedgerInv' /\ DiskForward
  <2>1. status[d] = "queued" /\ approval[d] # "granted"
    BY <1>6 DEF RequestApproval, Queued
  <2>2. approval'[d] = "pending" /\ \A c \in Dispatches \ {d} : approval'[c] = approval[c]
    BY <1>6, <1>t DEF RequestApproval, Typed
  <2>3. /\ \A c \in Dispatches : NotEarlier(PhaseOf(House, c), PhaseOf(House, c)')
        /\ \A c \in Dispatches \ {d} : status'[c] = status[c]
    BY <1>6, <2>1, <2>2, <1>t, OneMoves DEF RequestApproval, Status
  <2>4. \A f \in Executors : Busy(f)' =>
          Busy(f) /\ exec'[f].job = exec[f].job /\ status'[exec[f].job] = status[exec[f].job]
    BY <1>6, <2>1, <2>3, <1>t, BusyWorking DEF RequestApproval, Busy, SoleOwner
  <2> QED
    BY <1>6, <2>3, <2>4, ForwardKeepsInv DEF RequestApproval
<1>7. ASSUME NEW e \in Executors, NEW d \in Dispatches, NEW dirty \in BOOLEAN,
             NEW rest \in SUBSET (Lanes \ {lane[d]}), StartRun(e, d, dirty, rest)
      PROVE  LedgerInv' /\ DiskForward
  <2>1. status[d] = "queued" /\ approval' = approval /\ told' = told
    BY <1>7 DEF StartRun, Queued
  <2>2. /\ \A c \in Dispatches : NotEarlier(PhaseOf(House, c), PhaseOf(House, c)')
        /\ \A c \in Dispatches \ {d} : status'[c] = status[c]
        /\ status'[d] = "running"
    BY <1>7, <2>1, <1>t, OneMoves DEF StartRun, Status
  <2>3. \A f \in Executors : Busy(f) => exec[f].job \in Dispatches \ {d}
    BY <2>1, <1>t, BusyWorking DEF SoleOwner
  <2>4. CASE PersistFailed /\ UNCHANGED <<exec, launched>>
    BY <2>1, <2>2, <2>3, <2>4, ForwardKeepsInv DEF Busy
  <2>5. CASE /\ Persisted /\ launched' = launched \cup {d}
             /\ exec' = [exec EXCEPT ![e] = [pc |-> "attempt", job |-> d, home |-> lane[d],
                                             at |-> lane[d], rest |-> rest]]
    <3>1. MemoryAhead' /\ \A c \in Dispatches : NotEarlier(PhaseOf(disk, c), PhaseOf(disk, c)')
      BY <2>2, SavesOrNot, SaveForward DEF LedgerInv
    <3>2. \A f \in Executors : Busy(f)' =>
            \/ Busy(f) /\ exec'[f] = exec[f] /\ f # e
            \/ f = e /\ exec'[f].job = d
      BY <1>7, <2>5, <1>t DEF StartRun, MayBegin, TypeOK, Busy
    <3>3. SoleOwner'
      BY <2>2, <2>3, <3>2, <1>t DEF SoleOwner
    <3>4. d \notin launched /\ d \notin told
      BY <2>1 DEF LedgerInv, HistoryKept, Ledger!Started
    <3>5. disk'.status[d] = "running" /\ \A c \in Dispatches \ {d} : disk'.status[c] = status[c]
      BY <2>2, <2>5 DEF Persisted, House
    <3>6. HistoryKept'
      BY <2>1, <2>2, <2>5, <3>2, <3>4, <3>5, <1>t DEF LedgerInv, HistoryKept, Ledger!Started, TypeOK
    <3> QED
      BY <1>t, <3>1, <3>3, <3>6 DEF LedgerInv, DiskForward
  <2> QED
    BY <1>7, <2>4, <2>5 DEF StartRun
<1>8. ASSUME NEW e \in Executors, AttemptSucceeds(e) \/ AttemptFails(e) PROVE LedgerInv' /\ DiskForward
  <2>1. UNCHANGED <<status, approval, launched, told>>
    BY <1>8 DEF AttemptSucceeds, AttemptFails, house
  <2>2. At(e, "attempt")
    BY <1>8 DEF AttemptSucceeds, AttemptFails
  <2>3. \A f \in Executors : Busy(f)' => Busy(f) /\ exec'[f].job = exec[f].job
    BY <1>8, <2>2, <1>t, BusyWorking DEF AttemptSucceeds, AttemptFails, GoesOn, Leaves, TypeOK, Busy
  <2> QED
    BY <2>1, <2>3, ForwardKeepsInv DEF PhaseOf, House
<1>9. ASSUME NEW e \in Executors, CloseFailed(e) \/ CloseCompleted(e) \/ CloseWithFollowUp(e)
                                  \/ ExecutorLost(e)
      PROVE  /\ exec[e].job \in Dispatches /\ Busy(e) /\ status[exec[e].job] = "running"
             /\ \A f \in Executors : Busy(f)' => Busy(f) /\ exec'[f] = exec[f]
                                                 /\ exec[f].job \in Dispatches \ {exec[e].job}
             /\ UNCHANGED <<approval, launched>>
  <2>1. exec[e].job \in Dispatches /\ Busy(e)
    BY <1>9, <1>t, BusyWorking DEF CloseFailed, CloseCompleted, CloseWithFollowUp, ExecutorLost
  <2>2. exec' = [exec EXCEPT ![e] = Idle] /\ UNCHANGED <<approval, launched>>
    BY <1>9 DEF CloseFailed, CloseCompleted, CloseWithFollowUp, ExecutorLost, Leaves, house
  <2>3. \A f \in Executors : Busy(f)' => f # e /\ Busy(f) /\ exec'[f] = exec[f]
    BY <2>2, <1>t DEF TypeOK, Busy
  <2> QED
    BY <2>1, <2>2, <2>3, <1>t, BusyWorking DEF SoleOwner
<1>10. ASSUME NEW e \in Executors, CloseFailed(e) PROVE LedgerInv' /\ DiskForward
  <2> DEFINE d == exec[e].job
  <2>1. status'[d] = "failed" /\ \A c \in Dispatches \ {d} : status'[c] = status[c]
    BY <1>9, <1>10, <1>t DEF CloseFailed, Typed
  <2>2. \A c \in Dispatches : NotEarlier(PhaseOf(House, c), PhaseOf(House, c)')
    BY <1>9, <1>10, <2>1 DEF PhaseOf, House
  <2>3. told' = told
    BY <1>10 DEF CloseFailed
  <2> QED
    BY <1>9, <1>10, <2>1, <2>2, <2>3, ForwardKeepsInv
<1>11. ASSUME NEW e \in Executors, CloseCompleted(e) PROVE LedgerInv' /\ DiskForward
  <2> DEFINE d == exec[e].job
  <2>1. status'[d] = "completed" /\ \A c \in Dispatches \ {d} : status'[c] = status[c]
    BY <1>9, <1>11, <1>t DEF CloseCompleted, Mark, Typed
  <2>2. \A c \in Dispatches : NotEarlier(PhaseOf(House, c), PhaseOf(House, c)')
    BY <1>9, <1>11, <2>1 DEF PhaseOf, House
  <2>3. \A c \in told' \ told : status'[c] = "completed" /\ disk'.status[c] = "completed"
    BY <1>9, <1>11, <2>1, ReportIsTrue DEF CloseCompleted
  <2> QED
    BY <1>9, <1>11, <2>1, <2>2, <2>3, ForwardKeepsInv
<1>12. ASSUME NEW e \in Executors, CloseWithFollowUp(e) PROVE LedgerInv' /\ DiskForward
  <2> DEFINE d == exec[e].job
  <2>1. PICK f \in Dispatches \ {d} :
          Fresh(f) /\ status' = [status EXCEPT ![d] = "completed", ![f] = "queued"]
    BY <1>12 DEF CloseWithFollowUp
  <2>2. /\ status[f] = "none" /\ status'[f] = "queued" /\ status'[d] = "completed"
        /\ \A c \in Dispatches \ {d, f} : status'[c] = status[c]
    BY <1>9, <1>12, <2>1, <1>t DEF Fresh, Typed
  <2>3. \A c \in Dispatches : NotEarlier(PhaseOf(House, c), PhaseOf(House, c)')
    BY <1>9, <1>12, <2>2 DEF PhaseOf, House
  <2>4. \A g \in Executors : Busy(g)' =>
          Busy(g) /\ exec'[g].job = exec[g].job /\ status'[exec[g].job] = status[exec[g].job]
    BY <1>9, <1>12, <2>2, <1>t DEF SoleOwner
  <2>5. \A c \in told' \ told : status'[c] = "completed" /\ disk'.status[c] = "completed"
    BY <1>9, <1>12, <2>2, ReportIsTrue DEF CloseWithFollowUp
  <2> QED
    BY <1>9, <1>12, <2>3, <2>4, <2>5, ForwardKeepsInv
<1>13. ASSUME NEW e \in Executors, ExecutorLost(e) PROVE LedgerInv' /\ DiskForward
  <2>1. UNCHANGED <<status, approval, told>>
    BY <1>13 DEF ExecutorLost, house
  <2> QED
    BY <1>9, <1>13, <2>1, ForwardKeepsInv DEF PhaseOf, House
<1>14. CASE CrashAndRestart
  <2>1. /\ \A e \in Executors : ~Busy(e)'
        /\ status' = disk.status /\ approval' = disk.approval /\ UNCHANGED <<disk, launched, told>>
    BY <1>14 DEF CrashAndRestart, Busy
  <2>2. MemoryAhead'
    BY <2>1 DEF MemoryAhead, PhaseOf, House
  <2>3. SoleOwner' /\ HistoryKept'
    BY <2>1 DEF SoleOwner, LedgerInv, HistoryKept, Ledger!Started
  <2>4. DiskForward
    BY <2>1 DEF DiskForward, PhaseOf
  <2> QED
    BY <1>t, <2>2, <2>3, <2>4 DEF LedgerInv
<1> QED
  BY <1>1, <1>2, <1>3, <1>4, <1>5, <1>6, <1>7, <1>8, <1>10, <1>11, <1>12, <1>13, <1>14
  DEF Next, SelectAndRun, Step, SetAutonomy, OtherHandlerSaves, vars, house

\* A provider is launched by StartRun alone, for a dispatch that was queued and
\* is running on disk from that step on.
LEMMA LaunchIsStart ==
  ASSUME TypeInv, [Next]_vars
  PROVE  \/ UNCHANGED launched /\ \A e \in Executors : Busy(e)' => Busy(e)
         \/ \E d \in Dispatches, e \in Executors :
              /\ status[d] = "queued" /\ disk'.status[d] = "running"
              /\ launched' = launched \cup {d}
              /\ exec'[e].job = d /\ \A f \in Executors \ {e} : exec'[f] = exec[f]
<1>t. TypeOK /\ Typed
  BY HouseTyped DEF TypeInv, TypeOK
<1>1. CASE \E e \in Executors : SelectAndRun(e)
  <2>1. PICK e \in Executors : SelectAndRun(e)
    BY <1>1
  <2>2. PICK d \in Dispatches, dirty \in BOOLEAN :
          \/ RequestApproval(e, d, dirty)
          \/ \E rest \in SUBSET (Lanes \ {lane[d]}) : StartRun(e, d, dirty, rest)
    BY <2>1 DEF SelectAndRun
  <2>3. CASE RequestApproval(e, d, dirty)
    BY <2>3 DEF RequestApproval, Busy
  <2>4. CASE \E rest \in SUBSET (Lanes \ {lane[d]}) : StartRun(e, d, dirty, rest)
    <3>1. PICK rest \in SUBSET (Lanes \ {lane[d]}) : StartRun(e, d, dirty, rest)
      BY <2>4
    <3>2. CASE UNCHANGED <<exec, launched>>
      BY <3>2 DEF Busy
    <3>3. CASE /\ Persisted /\ launched' = launched \cup {d}
               /\ exec' = [exec EXCEPT ![e] = [pc |-> "attempt", job |-> d, home |-> lane[d],
                                               at |-> lane[d], rest |-> rest]]
      <4>1. status[d] = "queued" /\ disk'.status[d] = "running"
        BY <3>1, <3>3, <1>t DEF StartRun, Queued, Mark, Typed, Persisted, House
      <4>2. exec'[e].job = d /\ \A f \in Executors \ {e} : exec'[f] = exec[f]
        BY <3>3, <1>t DEF TypeOK
      <4> QED
        BY <3>3, <4>1, <4>2
    <3> QED
      BY <3>1, <3>2, <3>3 DEF StartRun
  <2> QED
    BY <2>2, <2>3, <2>4
<1>2. CASE \E e \in Executors : Step(e) \/ ExecutorLost(e)
  <2>1. PICK e \in Executors : Step(e) \/ ExecutorLost(e)
    BY <1>2
  <2>2. UNCHANGED launched /\ exec' \in {[exec EXCEPT ![e] = exec'[e]]} /\ Busy(e)
    BY <2>1, <1>t, BusyWorking
    DEF Step, AttemptSucceeds, AttemptFails, CloseFailed, CloseCompleted, CloseWithFollowUp,
        ExecutorLost, GoesOn, Leaves, TypeOK
  <2> QED
    BY <2>2, <1>t DEF Busy, TypeOK
<1>3. CASE CrashAndRestart
  BY <1>3 DEF CrashAndRestart, Busy
<1>4. CASE UNCHANGED <<exec, launched>>
  BY <1>4 DEF Busy
<1> QED
  BY <1>1, <1>2, <1>3, <1>4
  DEF Next, CreateTurn, ExecuteLatest, GrantApproval, DenyApproval, SetAutonomy,
      OtherHandlerSaves, vars

-----------------------------------------------------------------------------
(* The theorems, for an operator who resolves each approval once.          *)

\* Two executors never work for the same dispatch.
THEOREM OneOwner == ASSUME CockpitOperator PROVE Spec => []SoleOwner
<1>1. Init => LedgerInv
  BY InitLedgerInv
<1>2. LedgerInv /\ [Next]_vars => LedgerInv'
  BY NextLedgerInv
<1>3. LedgerInv => SoleOwner
  BY DEF LedgerInv
<1> QED
  BY <1>1, <1>2, <1>3, PTL DEF Spec

\* What was reported completed is completed on disk, from then on.
THEOREM ReportsAreDurable == ASSUME CockpitOperator PROVE Spec => []ToldIsDurable
<1>1. Init => LedgerInv
  BY InitLedgerInv
<1>2. LedgerInv /\ [Next]_vars => LedgerInv'
  BY NextLedgerInv
<1>3. LedgerInv => ToldIsDurable
  BY DEF LedgerInv, HistoryKept, ToldIsDurable
<1> QED
  BY <1>1, <1>2, <1>3, PTL DEF Spec

\* No dispatch a provider was called for is waiting on disk to be started.
THEOREM StartsAreDurable == ASSUME CockpitOperator PROVE Spec => []StartIsDurable
<1>1. Init => LedgerInv
  BY InitLedgerInv
<1>2. LedgerInv /\ [Next]_vars => LedgerInv'
  BY NextLedgerInv
<1>3. LedgerInv => StartIsDurable
  BY DEF LedgerInv, HistoryKept, StartIsDurable, Ledger!Started
<1> QED
  BY <1>1, <1>2, <1>3, PTL DEF Spec

\* No dispatch is handed to a provider twice, not even after a crash.
THEOREM NeverLaunchedAgain == ASSUME CockpitOperator PROVE Spec => LaunchedOnce
<1>1. Init => LedgerInv
  BY InitLedgerInv
<1>2. LedgerInv /\ [Next]_vars => LedgerInv'
  BY NextLedgerInv
<1>3. ASSUME LedgerInv, [Next]_vars
      PROVE  \A e \in Executors : ~Busy(e) /\ Busy(e)' => exec'[e].job \notin launched
  <2>1. TypeInv /\ HistoryKept
    BY <1>3 DEF LedgerInv, GateInv
  <2> QED
    BY <1>3, <2>1, LaunchIsStart DEF HistoryKept, Ledger!Started, Busy
<1>4. LedgerInv /\ [Next]_vars =>
        [\A e \in Executors : ~Busy(e) /\ Busy(e)' => exec'[e].job \notin launched]_vars
  BY <1>3
<1> QED
  BY <1>1, <1>2, <1>4, PTL DEF Spec, LaunchedOnce

\* A settled dispatch keeps its status on disk for ever.
THEOREM SettledStays == ASSUME CockpitOperator PROVE Spec => SettledForGood
<1>1. Init => LedgerInv
  BY InitLedgerInv
<1>2. LedgerInv /\ [Next]_vars => LedgerInv'
  BY NextLedgerInv
<1>3. ASSUME LedgerInv, [Next]_vars, NEW d \in Dispatches, disk.status[d] \in Settled
      PROVE  disk'.status[d] = disk.status[d]
  <2>1. TypeOK /\ TypeOK' /\ DiskForward
    BY <1>3, NextLedgerInv DEF LedgerInv, GateInv, TypeInv
  <2>2. /\ disk.status[d] \in Status /\ disk'.status[d] \in Status
        /\ disk.approval[d] \in ApprovalStatus /\ disk'.approval[d] \in ApprovalStatus
    BY <2>1 DEF TypeOK, HouseType
  <2>3. NotEarlier(Phase(disk.status[d], disk.approval[d]), Phase(disk'.status[d], disk'.approval[d]))
    BY <2>1 DEF DiskForward, PhaseOf
  <2> QED
    BY <1>3, <2>2, <2>3, StartedStays
<1>4. LedgerInv /\ [Next]_vars =>
        [\A d \in Dispatches : disk.status[d] \in Settled => disk'.status[d] = disk.status[d]]_vars
  BY <1>3
<1> QED
  BY <1>1, <1>2, <1>4, PTL DEF Spec, SettledForGood

-----------------------------------------------------------------------------
(* The event log, and whose work a running dispatch is.                    *)

Told(h) ==
  \A d \in Dispatches :
    h.logged[d] = h.status[d] \/ (h.status[d] = "failed" /\ h.logged[d] = "running")

\* A dispatch is marked with its event, and the others keep theirs.
LEMMA MarkTold ==
  ASSUME Typed, Told(House), NEW d \in Dispatches, NEW s, NEW t, Mark(d, s, t)
  PROVE  Told(House)'
BY DEF Typed, Told, House, Mark

LEMMA SaveTold ==
  ASSUME Told(House)', Told(disk), disk' = House' \/ disk' = disk
  PROVE  Told(disk)'
BY DEF Told

LEMMA NextTold ==
  ASSUME LedgerInv, Told(House), Told(disk), [Next]_vars
  PROVE  Told(House)' /\ Told(disk)'
<1>0. Typed /\ TypeOK /\ SoleOwner
  BY HouseTyped DEF LedgerInv, GateInv, TypeInv, TypeOK
<1>1. ASSUME CreateTurn PROVE Told(House)'
  BY <1>0, <1>1, MarkTold DEF CreateTurn, QueueTurn
<1>2. ASSUME ExecuteLatest PROVE Told(House)'
  BY <1>0, <1>2, MarkTold DEF ExecuteLatest, Queued
<1>3. ASSUME NEW d \in Dispatches, GrantApproval(d) \/ DenyApproval(d) PROVE Told(House)'
  BY <1>0, <1>3, MarkTold DEF GrantApproval, DenyApproval
<1>4. ASSUME UNCHANGED house PROVE Told(House)'
  BY <1>4 DEF house, House, Told
<1>5. ASSUME NEW e \in Executors, SelectAndRun(e) PROVE Told(House)'
  BY <1>0, <1>5, MarkTold DEF SelectAndRun, RequestApproval, StartRun
<1>6. ASSUME NEW e \in Executors, AttemptSucceeds(e) PROVE Told(House)'
  BY <1>6 DEF AttemptSucceeds, House, Told
<1>7. ASSUME NEW e \in Executors, CloseFailed(e) PROVE Told(House)'
  <2>1. exec[e].job \in Dispatches /\ status[exec[e].job] = "running"
    BY <1>0, <1>7, BusyWorking DEF CloseFailed, SoleOwner
  <2>2. logged[exec[e].job] = "running"
    BY <2>1 DEF Told, House
  <2> QED
    BY <1>0, <1>7, <2>1, <2>2 DEF CloseFailed, Typed, Told, House
<1>8. ASSUME NEW e \in Executors, CloseCompleted(e) PROVE Told(House)'
  <2>1. exec[e].job \in Dispatches
    BY <1>0, <1>8, BusyWorking DEF CloseCompleted
  <2> QED
    BY <1>0, <1>8, <2>1, MarkTold DEF CloseCompleted
<1>9. ASSUME NEW e \in Executors, CloseWithFollowUp(e) PROVE Told(House)'
  BY <1>0, <1>9 DEF CloseWithFollowUp, Typed, Told, House
<1>10. ASSUME CrashAndRestart PROVE Told(House)'
  BY <1>10 DEF CrashAndRestart, Told, House
<1>11. Told(House)'
  BY <1>1, <1>2, <1>3, <1>4, <1>5, <1>6, <1>7, <1>8, <1>9, <1>10
  DEF Next, Step, SetAutonomy, OtherHandlerSaves, AttemptFails, ExecutorLost, vars, house
<1> QED
  BY <1>11, SavesOrNot, SaveTold

\* The status-bearing events tell every dispatch's status, but for a run that
\* failed, through crashes and failed transactions (the closing section of
\* run_latest_dispatch_live_once appends no event on failure).
THEOREM LogTells == ASSUME CockpitOperator PROVE Spec => []LogTellsStatus
<1>1. Init => LedgerInv /\ Told(House) /\ Told(disk)
  <2>1. Init => Told(House) /\ Told(disk)
    BY DEF Init, EmptyHouse, House, Told
  <2> QED
    BY <2>1, InitLedgerInv
<1>2. LedgerInv /\ Told(House) /\ Told(disk) /\ [Next]_vars => (LedgerInv /\ Told(House) /\ Told(disk))'
  BY NextLedgerInv, NextTold
<1>3. Told(House) => LogTellsStatus
  BY DEF Told, House, LogTellsStatus
<1> QED
  BY <1>1, <1>2, <1>3, PTL DEF Spec

\* Without faults no running dispatch is forgotten by its executor, not even
\* when an operator grants again what is running.
THEOREM RunsOwned == ASSUME Faults = {} PROVE Spec => []RunningIsOwned
<1>1. Init => RunningIsOwned
  BY DEF Init, EmptyHouse, RunningIsOwned
<1>2. TypeInv /\ RunningIsOwned /\ [Next]_vars => RunningIsOwned'
  <2> SUFFICES ASSUME TypeInv, RunningIsOwned, [Next]_vars PROVE RunningIsOwned'
    OBVIOUS
  <2>0. Typed /\ TypeOK /\ exec \in [Executors -> Working \cup {Idle}]
        /\ \A d \in Dispatches : d # 0
    BY HouseTyped DEF TypeInv, TypeOK, Dispatches
  <2>1. ASSUME \A d \in Dispatches : status'[d] = "running" => status[d] = "running",
               \A e \in Executors : exec'[e].job = exec[e].job
        PROVE  RunningIsOwned'
    BY <2>1 DEF RunningIsOwned
  <2>2. CASE CreateTurn \/ ExecuteLatest \/ SetAutonomy \/ OtherHandlerSaves \/ UNCHANGED vars
    BY <2>0, <2>1, <2>2
    DEF CreateTurn, QueueTurn, ExecuteLatest, Mark, Typed, SetAutonomy, OtherHandlerSaves, house, vars
  <2>3. ASSUME NEW d \in Dispatches, GrantApproval(d) \/ DenyApproval(d) PROVE RunningIsOwned'
    BY <2>0, <2>1, <2>3 DEF GrantApproval, DenyApproval, Mark, Typed
  <2>4. ASSUME NEW e \in Executors, NEW d \in Dispatches, NEW dirty \in BOOLEAN,
               RequestApproval(e, d, dirty)
        PROVE  RunningIsOwned'
    BY <2>0, <2>1, <2>4 DEF RequestApproval, Mark, Typed
  <2>5. ASSUME NEW e \in Executors, NEW d \in Dispatches, NEW dirty \in BOOLEAN,
               NEW rest \in SUBSET (Lanes \ {lane[d]}), StartRun(e, d, dirty, rest)
        PROVE  RunningIsOwned'
    <3>1. /\ status' = [status EXCEPT ![d] = "running"] /\ exec[e] = Idle
          /\ exec' = [exec EXCEPT ![e] = [pc |-> "attempt", job |-> d, home |-> lane[d],
                                          at |-> lane[d], rest |-> rest]]
      BY <2>5 DEF StartRun, Mark, MayBegin, PersistFailed
    <3>2. exec'[e].job = d /\ \A f \in Executors \ {e} : exec'[f] = exec[f]
      BY <2>0, <3>1
    <3>3. exec[e].job = 0
      BY <3>1 DEF Idle
    <3> QED
      BY <2>0, <3>1, <3>2, <3>3 DEF RunningIsOwned, Typed
  <2>6. ASSUME NEW e \in Executors, AttemptSucceeds(e) \/ AttemptFails(e) PROVE RunningIsOwned'
    BY <2>0, <2>1, <2>6 DEF AttemptSucceeds, AttemptFails, GoesOn, PersistFailed, house
  <2>7. ASSUME NEW e \in Executors, CloseFailed(e) \/ CloseCompleted(e) \/ CloseWithFollowUp(e)
        PROVE  RunningIsOwned'
    <3>1. exec[e].job \in Dispatches
      BY <2>0, <2>7, BusyWorking DEF CloseFailed, CloseCompleted, CloseWithFollowUp
    <3>2. \A d \in Dispatches : status'[d] = "running" => status[d] = "running" /\ d # exec[e].job
      BY <2>0, <2>7, <3>1 DEF CloseFailed, CloseCompleted, CloseWithFollowUp, Mark, Typed
    <3>3. \A f \in Executors \ {e} : exec'[f] = exec[f]
      BY <2>0, <2>7 DEF CloseFailed, CloseCompleted, CloseWithFollowUp, Leaves
    <3> QED
      BY <3>2, <3>3 DEF RunningIsOwned
  <2> QED
    BY <2>2, <2>3, <2>4, <2>5, <2>6, <2>7
    DEF Next, Step, SelectAndRun, ExecutorLost, CrashAndRestart
<1>3. Init => TypeInv
  BY InitTypeInv
<1>4. TypeInv /\ [Next]_vars => TypeInv'
  BY NextTypeInv
<1> QED
  BY <1>1, <1>2, <1>3, <1>4, PTL DEF Spec

\* A step that marks one dispatch leaves the others where they were.
LEMMA MarkOther ==
  ASSUME Typed, NEW d \in Dispatches, NEW c \in Dispatches \ {d}, NEW s, NEW t, Mark(d, s, t)
  PROVE  status'[c] = status[c]
BY DEF Typed, Mark

\* A running dispatch no executor holds, once its start is on disk, is out of
\* every handler's reach: not queued, not pending, nobody's job, and running in
\* the copy a restart reads (run_latest_dispatch_live_once, grant_approval).
THEOREM OrphansStay == ASSUME CockpitOperator PROVE Spec => OrphansAreNeverPickedUp
<1>1. GateInv /\ [Next]_vars =>
        [\A d \in Dispatches :
           /\ status[d] = "running" /\ disk.status[d] = "running"
           /\ \A e \in Executors : exec[e].job # d
           => status'[d] = "running"]_vars
  <2> SUFFICES ASSUME GateInv, [Next]_vars, NEW d \in Dispatches,
                      status[d] = "running", disk.status[d] = "running",
                      \A e \in Executors : exec[e].job # d
               PROVE  status'[d] = "running"
    OBVIOUS
  <2>0. Typed /\ TypeOK
    BY HouseTyped DEF GateInv, TypeInv, TypeOK
  <2>1. approval[d] # "pending"
    BY DEF GateInv, Whole, Agree, House
  <2>2. CASE CreateTurn
    BY <2>0, <2>2, MarkOther DEF CreateTurn, QueueTurn, Fresh
  <2>3. CASE ExecuteLatest
    BY <2>0, <2>3, MarkOther DEF ExecuteLatest, Queued
  <2>4. ASSUME NEW c \in Dispatches, GrantApproval(c) \/ DenyApproval(c)
        PROVE  status'[d] = "running"
    BY <2>0, <2>1, <2>4, MarkOther DEF GrantApproval, DenyApproval, Resolvable
  <2>5. ASSUME NEW e \in Executors, SelectAndRun(e)
        PROVE  status'[d] = "running"
    BY <2>0, <2>5, MarkOther DEF SelectAndRun, RequestApproval, StartRun, Queued
  <2>6. ASSUME NEW e \in Executors, CloseFailed(e) \/ CloseCompleted(e) \/ CloseWithFollowUp(e)
        PROVE  status'[d] = "running"
    <3>1. exec[e].job \in Dispatches /\ exec[e].job # d
      BY <2>0, <2>6, BusyWorking DEF CloseFailed, CloseCompleted, CloseWithFollowUp
    <3>2. CASE CloseFailed(e)
      BY <2>0, <3>1, <3>2 DEF CloseFailed, Typed
    <3>3. CASE CloseCompleted(e)
      BY <2>0, <3>1, <3>3, MarkOther DEF CloseCompleted
    <3>4. CASE CloseWithFollowUp(e)
      BY <2>0, <3>1, <3>4 DEF CloseWithFollowUp, Fresh, Typed
    <3> QED
      BY <2>6, <3>2, <3>3, <3>4
  <2>7. CASE CrashAndRestart
    BY <2>7 DEF CrashAndRestart
  <2>8. CASE UNCHANGED status
    BY <2>8
  <2> QED
    BY <2>2, <2>3, <2>4, <2>5, <2>6, <2>7, <2>8
    DEF Next, Step, SetAutonomy, OtherHandlerSaves, AttemptSucceeds, AttemptFails, ExecutorLost,
        vars, house
<1>2. Init => GateInv
  BY InitGateInv
<1>3. GateInv /\ [Next]_vars => GateInv'
  BY NextGateInv
<1> QED
  BY <1>1, <1>2, <1>3, PTL DEF Spec, OrphansAreNeverPickedUp

-----------------------------------------------------------------------------
(* What fairness needs of RunsEnd: the lanes a run may still ask, and the  *)
(* section that closes it.                                                 *)

StepsLeft(e) ==
  IF ~Busy(e) THEN 0 ELSE IF At(e, "attempt") THEN 2 + Cardinality(exec[e].rest) ELSE 1

\* Each step of an executor brings its run nearer to its end, and no step of
\* another executor, of the operator or of a restart takes it back.
RunsWindDown ==
  [][\A e \in Executors : Busy(e) =>
       /\ StepsLeft(e)' <= StepsLeft(e)
       /\ Step(e) => StepsLeft(e)' < StepsLeft(e)]_vars

LEMMA StepsAreNat ==
  ASSUME IsFiniteSet(Lanes), TypeOK, NEW e \in Executors
  PROVE  /\ StepsLeft(e) \in Nat
         /\ Busy(e) => StepsLeft(e) >= 1
         /\ At(e, "attempt") => /\ StepsLeft(e) = 2 + Cardinality(exec[e].rest)
                                /\ IsFiniteSet(exec[e].rest) /\ Cardinality(exec[e].rest) \in Nat
<1>1. CASE At(e, "attempt")
  <2>1. IsFiniteSet(exec[e].rest) /\ Busy(e)
    BY <1>1, BusyWorking, FS_Subset DEF Busy, At, Idle
  <2>2. Cardinality(exec[e].rest) \in Nat
    BY <2>1, FS_CardinalityType
  <2> QED
    BY <1>1, <2>1, <2>2 DEF StepsLeft
<1>2. CASE ~At(e, "attempt")
  BY <1>2 DEF StepsLeft
<1> QED
  BY <1>1, <1>2

\* What an executor of the given state has left.
LEMMA StepsNext ==
  ASSUME TypeOK, NEW e \in Executors, NEW x, exec' = [exec EXCEPT ![e] = x]
  PROVE  /\ x = Idle => StepsLeft(e)' = 0
         /\ x # Idle /\ x.pc # "attempt" => StepsLeft(e)' = 1
         /\ x # Idle /\ x.pc = "attempt" => StepsLeft(e)' = 2 + Cardinality(x.rest)
<1>1. exec'[e] = x
  BY DEF TypeOK
<1> QED
  BY <1>1 DEF StepsLeft, Busy, At

LEMMA StepsDown ==
  ASSUME IsFiniteSet(Lanes), TypeOK, NEW e \in Executors, Step(e)
  PROVE  StepsLeft(e)' < StepsLeft(e) /\ StepsLeft(e)' \in Nat
<1>1. \A pc \in {"attempt", "answered", "exhausted"} : \A at, rest :
        [pc |-> pc, job |-> exec[e].job, home |-> exec[e].home, at |-> at, rest |-> rest] # Idle
  BY DEF Idle
<1>2. CASE AttemptSucceeds(e)
  <2>1. At(e, "attempt") /\ (GoesOn(e, "answered", exec[e].at, exec[e].rest) \/ Leaves(e))
    BY <1>2 DEF AttemptSucceeds
  <2>2. StepsLeft(e)' = 1 \/ StepsLeft(e)' = 0
    BY <1>1, <2>1, StepsNext DEF GoesOn, Leaves
  <2> QED
    BY <2>1, <2>2, StepsAreNat
<1>3. CASE AttemptFails(e)
  <2>1. At(e, "attempt")
    BY <1>3 DEF AttemptFails
  <2>2. CASE GoesOn(e, "exhausted", exec[e].at, exec[e].rest) \/ Leaves(e)
    <3>1. StepsLeft(e)' = 1 \/ StepsLeft(e)' = 0
      BY <1>1, <2>2, StepsNext DEF GoesOn, Leaves
    <3> QED
      BY <2>1, <3>1, StepsAreNat
  <2>3. ASSUME NEW l \in exec[e].rest, GoesOn(e, "attempt", l, exec[e].rest \ {l})
        PROVE  StepsLeft(e)' < StepsLeft(e) /\ StepsLeft(e)' \in Nat
    <3> DEFINE x == [pc |-> "attempt", job |-> exec[e].job, home |-> exec[e].home,
                     at |-> l, rest |-> exec[e].rest \ {l}]
    <3>1. /\ exec' = [exec EXCEPT ![e] = x] /\ x # Idle
          /\ x.pc = "attempt" /\ x.rest = exec[e].rest \ {l}
      BY <2>3 DEF GoesOn, Idle
    <3> HIDE DEF x
    <3>2. StepsLeft(e)' = 2 + Cardinality(exec[e].rest \ {l})
      BY <3>1, StepsNext
    <3>3. /\ Cardinality(exec[e].rest \ {l}) = Cardinality(exec[e].rest) - 1
          /\ Cardinality(exec[e].rest \ {l}) \in Nat
      BY <2>1, <2>3, StepsAreNat, FS_RemoveElement, FS_CardinalityType
    <3> QED
      BY <2>1, <3>2, <3>3, StepsAreNat
  <2> QED
    BY <1>3, <2>2, <2>3 DEF AttemptFails
<1>4. CASE CloseFailed(e) \/ CloseCompleted(e) \/ CloseWithFollowUp(e)
  <2>1. Leaves(e) /\ Busy(e)
    BY <1>4 DEF CloseFailed, CloseCompleted, CloseWithFollowUp, At, Busy, Idle
  <2>2. StepsLeft(e)' = 0
    BY <2>1, StepsNext DEF Leaves
  <2> QED
    BY <2>1, <2>2, StepsAreNat
<1> QED
  BY <1>2, <1>3, <1>4 DEF Step

\* A run of run_latest_dispatch_live_once gets nearer to its end with every
\* step of its executor, whatever else happens: it asks no lane twice and
\* closes once, in at most one step more than there are lanes.
THEOREM RunsAdvance == ASSUME IsFiniteSet(Lanes) PROVE Spec => RunsWindDown
<1>1. ASSUME TypeOK, [Next]_vars, NEW e \in Executors, Busy(e)
      PROVE  /\ StepsLeft(e)' <= StepsLeft(e)
             /\ Step(e) => StepsLeft(e)' < StepsLeft(e)
  <2>1. StepsLeft(e) \in Nat
    BY <1>1, StepsAreNat
  <2>2. Step(e) => StepsLeft(e)' < StepsLeft(e) /\ StepsLeft(e)' \in Nat
    BY <1>1, StepsDown
  <2>3. CASE exec'[e] = exec[e]
    BY <1>1, <2>1, <2>2, <2>3 DEF StepsLeft, Busy, At
  <2>4. CASE exec'[e] = Idle
    <3>1. StepsLeft(e)' = 0
      BY <2>4 DEF StepsLeft, Busy
    <3> QED
      BY <2>1, <2>2, <3>1
  <2>5. CASE Step(e)
    BY <2>1, <2>2, <2>5
  <2>6. ASSUME NEW f \in Executors, f # e, SelectAndRun(f) \/ Step(f) \/ ExecutorLost(f)
        PROVE  exec'[e] = exec[e]
    BY <1>1, <2>6
    DEF SelectAndRun, RequestApproval, StartRun, Step, AttemptSucceeds, AttemptFails, CloseFailed,
        CloseCompleted, CloseWithFollowUp, ExecutorLost, GoesOn, Leaves, TypeOK
  <2>7. ASSUME SelectAndRun(e) \/ ExecutorLost(e) \/ CrashAndRestart
        PROVE  exec'[e] = exec[e] \/ exec'[e] = Idle
    BY <1>1, <2>7
    DEF SelectAndRun, RequestApproval, StartRun, ExecutorLost, CrashAndRestart, MayBegin, Busy,
        Leaves, TypeOK
  <2>8. CASE UNCHANGED exec
    BY <2>3, <2>8
  <2> QED
    BY <1>1, <2>3, <2>4, <2>5, <2>6, <2>7, <2>8
    DEF Next, CreateTurn, ExecuteLatest, GrantApproval, DenyApproval, SetAutonomy,
        OtherHandlerSaves, vars
<1>2. TypeOK /\ [Next]_vars =>
        [\A e \in Executors : Busy(e) =>
           /\ StepsLeft(e)' <= StepsLeft(e)
           /\ Step(e) => StepsLeft(e)' < StepsLeft(e)]_vars
  BY <1>1
<1> QED
  BY <1>2, TypeCorrect, PTL DEF Spec, RunsWindDown

\* Nothing that was sent to the operator or begun is taken back, and whichever
\* queued dispatch an executor selects, it is one of which neither was so: the
\* queue is served by ever new selections (select_next_live_dispatch).
SelectionsGrow ==
  [][/\ Asked \subseteq Asked' /\ Begun \subseteq Begun'
     /\ \A e \in Executors : SelectAndRun(e) => Asked # Asked' \/ Begun # Begun']_vars

\* What one dispatch may go through without being taken back.
LEMMA MarkBegun ==
  ASSUME Typed, NEW d \in Dispatches, NEW s, NEW t, Mark(d, s, t),
         d \in Begun => s \in {"running", "completed", "failed"}
  PROVE  /\ Begun \subseteq Begun' /\ status'[d] = s
         /\ s \in {"running", "completed", "failed"} => d \in Begun'
BY DEF Typed, Mark, Begun

\* Selections are never taken back, for any set of lanes and executors and with
\* failed transactions and lost executors, as long as the process lives and the
\* operator resolves each approval once; the half of QueueIsServed that needs
\* no fairness.
THEOREM QueueMoves ==
  ASSUME CockpitOperator, "crash" \notin Faults
  PROVE  Spec => SelectionsGrow
<1>1. LedgerInv /\ [Next]_vars =>
        [/\ Asked \subseteq Asked' /\ Begun \subseteq Begun'
         /\ \A e \in Executors : SelectAndRun(e) => Asked # Asked' \/ Begun # Begun']_vars
  <2> SUFFICES ASSUME LedgerInv, [Next]_vars
               PROVE  /\ Asked \subseteq Asked' /\ Begun \subseteq Begun'
                      /\ \A e \in Executors : SelectAndRun(e) => Asked # Asked' \/ Begun # Begun'
    OBVIOUS
  <2>0. Typed /\ TypeOK
    BY HouseTyped DEF LedgerInv, GateInv, TypeInv, TypeOK
  <2>1. \A d \in Dispatches : Agree(status[d], turn[d], approval[d])
    BY DEF LedgerInv, GateInv, Whole, House
  <2>2. ASSUME NEW e \in Executors, SelectAndRun(e)
        PROVE  /\ Asked \subseteq Asked' /\ Begun \subseteq Begun'
               /\ Asked # Asked' \/ Begun # Begun'
    <3>1. PICK d \in Dispatches, dirty \in BOOLEAN :
            \/ RequestApproval(e, d, dirty)
            \/ \E rest \in SUBSET (Lanes \ {lane[d]}) : StartRun(e, d, dirty, rest)
      BY <2>2 DEF SelectAndRun
    <3>2. CASE RequestApproval(e, d, dirty)
      <4>1. d \notin Begun /\ d \notin Asked
        BY <2>1, <3>2 DEF RequestApproval, Queued, Begun, Asked, Agree
      <4>2. Asked \subseteq Asked' /\ d \in Asked'
        BY <2>0, <3>2 DEF RequestApproval, Asked, Typed
      <4> QED
        BY <2>0, <3>2, <4>1, <4>2, MarkBegun DEF RequestApproval
    <3>3. CASE \E rest \in SUBSET (Lanes \ {lane[d]}) : StartRun(e, d, dirty, rest)
      <4>1. d \notin Begun /\ Mark(d, "running", "Executing") /\ UNCHANGED approval
        BY <3>3 DEF StartRun, Queued, Begun
      <4> QED
        BY <2>0, <4>1, MarkBegun DEF Asked
    <3> QED
      BY <3>1, <3>2, <3>3
  <2>3. CASE CreateTurn
    <3>1. PICK d \in Dispatches : Fresh(d) /\ Mark(d, "queued", "Queued") /\ UNCHANGED approval
      BY <2>3 DEF CreateTurn, QueueTurn
    <3>2. d \notin Begun
      BY <3>1 DEF Fresh, Begun
    <3>3. Asked \subseteq Asked' /\ Begun \subseteq Begun'
      BY <2>0, <3>1, <3>2, MarkBegun DEF Asked
    <3> QED
      BY <2>2, <3>3
  <2>4. CASE ExecuteLatest
    <3>1. PICK d \in Queued : Mark(d, "completed", "Completed") /\ UNCHANGED approval
      BY <2>4 DEF ExecuteLatest
    <3>2. Asked \subseteq Asked' /\ Begun \subseteq Begun'
      BY <2>0, <3>1, MarkBegun DEF Asked, Queued
    <3> QED
      BY <2>2, <3>2
  <2>5. ASSUME NEW d \in Dispatches, GrantApproval(d) \/ DenyApproval(d)
        PROVE  Asked \subseteq Asked' /\ Begun \subseteq Begun'
    <3>1. d \notin Begun
      BY <2>1, <2>5 DEF GrantApproval, DenyApproval, Resolvable, Begun, Agree
    <3>2. Asked \subseteq Asked'
      BY <2>0, <2>5 DEF GrantApproval, DenyApproval, Asked, Typed
    <3> QED
      BY <2>0, <2>5, <3>1, <3>2, MarkBegun DEF GrantApproval, DenyApproval
  <2>6. ASSUME NEW e \in Executors, CloseFailed(e) \/ CloseCompleted(e) \/ CloseWithFollowUp(e)
        PROVE  Asked \subseteq Asked' /\ Begun \subseteq Begun'
    <3>1. UNCHANGED approval /\ exec[e].job \in Dispatches
      BY <2>0, <2>6, BusyWorking DEF CloseFailed, CloseCompleted, CloseWithFollowUp
    <3>2. CASE CloseFailed(e)
      BY <2>0, <3>1, <3>2 DEF CloseFailed, Typed, Asked, Begun
    <3>3. CASE CloseCompleted(e)
      BY <2>0, <3>1, <3>3, MarkBegun DEF CloseCompleted, Asked
    <3>4. CASE CloseWithFollowUp(e)
      BY <2>0, <3>1, <3>4 DEF CloseWithFollowUp, Fresh, Typed, Asked, Begun
    <3> QED
      BY <2>6, <3>2, <3>3, <3>4
  <2>7. CASE UNCHANGED <<status, approval>>
    BY <2>2, <2>7 DEF Asked, Begun
  <2>8. ~CrashAndRestart
    BY DEF CrashAndRestart
  <2> QED
    BY <2>2, <2>3, <2>4, <2>5, <2>6, <2>7, <2>8
    DEF Next, Step, SetAutonomy, OtherHandlerSaves, AttemptSucceeds, AttemptFails, ExecutorLost,
        vars, house
<1>2. Init => LedgerInv
  BY InitLedgerInv
<1>3. LedgerInv /\ [Next]_vars => LedgerInv'
  BY NextLedgerInv
<1> QED
  BY <1>1, <1>2, <1>3, PTL DEF Spec, SelectionsGrow

-----------------------------------------------------------------------------
\* HouseDispatch implements DispatchLedger: the database only moves forward and
\* a launch is recorded in the step that makes it.
THEOREM Refinement == ASSUME CockpitOperator PROVE Spec => ImplementsLedger
<1> DEFINE bar == [d \in Dispatches |-> PhaseOf(disk, d)]
<1>1. Init => LedgerInv /\ Ledger!Init
  BY InitLedgerInv DEF Init, EmptyHouse, Ledger!Init, PhaseOf, Phase
<1>2. LedgerInv /\ [Next]_vars => LedgerInv'
  BY NextLedgerInv
<1>3. ASSUME LedgerInv, [Next]_vars PROVE [Ledger!Next]_<<bar, launched>>
  <2>1. DiskForward /\ TypeInv /\ HistoryKept
    BY <1>3, NextLedgerInv DEF LedgerInv, GateInv
  <2>2. Ledger!MovesForward
    BY <2>1 DEF DiskForward, NotEarlier, Ledger!MovesForward
  <2>3. CASE UNCHANGED launched
    BY <2>2, <2>3 DEF Ledger!Next, Ledger!Save
  <2>4. CASE \E d \in Dispatches : /\ status[d] = "queued" /\ disk'.status[d] = "running"
                                   /\ launched' = launched \cup {d}
    <3>1. PICK d \in Dispatches : /\ status[d] = "queued" /\ disk'.status[d] = "running"
                                  /\ launched' = launched \cup {d}
      BY <2>4
    <3>2. d \notin launched
      BY <2>1, <3>1 DEF HistoryKept, Ledger!Started
    <3>3. NotEarlier(PhaseOf(disk, d), PhaseOf(House, d))
      BY <1>3 DEF LedgerInv, MemoryAhead
    <3>4. bar[d] \notin Ledger!Started /\ bar'[d] = "running"
      BY <3>1, <3>3 DEF PhaseOf, Phase, NotEarlier, Ledger!Precedes, Ledger!Started, House
    <3> QED
      BY <2>2, <3>1, <3>2, <3>4 DEF Ledger!Next, Ledger!Launch
  <2> QED
    BY <1>3, <2>1, <2>3, <2>4, LaunchIsStart
<1>4. LedgerInv /\ [Next]_vars => [Ledger!Next]_<<bar, launched>>
  BY <1>3
<1> QED
  BY <1>1, <1>2, <1>4, PTL DEF Spec, ImplementsLedger, Ledger!Spec

===============================================================================
