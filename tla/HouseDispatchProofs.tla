------------------------- MODULE HouseDispatchProofs -------------------------
(***************************************************************************)
(* Theorems about HouseDispatch, for every bound, every set of lanes,      *)
(* sessions and executors, and every choice of faults.                     *)
(***************************************************************************)
EXTENDS HouseDispatch, TLAPS

\* The domains of the copies in memory and on disk, one variable at a time.
Typed ==
  /\ status \in [Dispatches -> Status] /\ turn \in [Dispatches -> TurnState]
  /\ approval \in [Dispatches -> ApprovalStatus]
  /\ lane \in [Dispatches -> Lanes \cup {NoLane}]
  /\ session \in [Dispatches -> Sessions \cup {NoSession}]
  /\ logged \in [Dispatches -> Status]

\* A saved or restarted house has the type of the variables it is made of.
LEMMA HouseTyped == House \in HouseType <=> Typed
BY DEF House, HouseType, Typed

\* What was created, or has an approval, was given a lane.
Laned(h) ==
  \A d \in Dispatches : h.status[d] # "none" \/ h.approval[d] # "none" => h.lane[d] \in Lanes

\* TypeOK, with what it takes to be inductive: an executor starts on the lane
\* its dispatch was given.
TypeInv ==
  /\ TypeOK
  /\ Laned(House) /\ Laned(disk)
  /\ \A e \in Executors : Busy(e) => lane[exec[e].job] \in Lanes

LEMMA InitTypeInv == Init => TypeInv
<1> SUFFICES ASSUME Init PROVE TypeInv
  OBVIOUS
<1>1. EmptyHouse \in HouseType
  BY DEF EmptyHouse, HouseType, Status, TurnState, ApprovalStatus
<1>2. House = EmptyHouse
  BY DEF Init, House, EmptyHouse
<1>3. Laned(EmptyHouse)
  BY DEF Laned, EmptyHouse
<1> QED
  BY <1>1, <1>2, <1>3 DEF Init, TypeInv, TypeOK, Busy

\* An executor that is not idle has a working record.
LEMMA BusyWorking ==
  ASSUME TypeOK, NEW e \in Executors, Busy(e) \/ \E pc \in {"attempt", "answered", "exhausted"} : At(e, pc)
  PROVE  /\ exec[e] \in Working /\ exec[e].job \in Dispatches
         /\ exec[e].home \in Lanes /\ exec[e].at \in Lanes /\ exec[e].rest \subseteq Lanes
         /\ Busy(e)
BY DEF TypeOK, Busy, At, Idle, Working

\* A section leaves memory typed and then saves it, or fails to.
LEMMA SaveTyped ==
  ASSUME House' \in HouseType, Laned(House)', disk \in HouseType, Laned(disk),
         Persisted \/ PersistFailed
  PROVE  disk' \in HouseType /\ Laned(disk)'
BY DEF Persisted, PersistFailed, Laned

\* One dispatch moves to another status; the others keep theirs.
LEMMA MarkTyped ==
  ASSUME TypeInv, NEW d \in Dispatches, NEW s \in Status, NEW t \in TurnState,
         Mark(d, s, t), lane[d] \in Lanes,
         NEW a \in ApprovalStatus, approval' \in {approval, [approval EXCEPT ![d] = a]},
         UNCHANGED <<lane, session>>
  PROVE  House' \in HouseType /\ Laned(House)'
<1>1. Typed
  BY HouseTyped DEF TypeInv, TypeOK
<1>2. Typed'
  BY <1>1 DEF Typed, Mark
<1>3. House' \in HouseType
  BY <1>2 DEF Typed, House, HouseType
<1>4. Laned(House)'
  BY <1>1 DEF TypeInv, Laned, House, Mark, Typed
<1> QED
  BY <1>3, <1>4

\* TypeInv is inductive: one step per action of Next.
LEMMA NextTypeInv == TypeInv /\ [Next]_vars => TypeInv'
<1> SUFFICES ASSUME TypeInv, [Next]_vars PROVE TypeInv'
  OBVIOUS
<1> USE DEF TypeInv
<1>t. Typed /\ TypeOK
  BY HouseTyped DEF TypeOK
<1>1. CASE CreateTurn
  <2>1. PICK d \in Dispatches, s \in Sessions, l \in Lanes : QueueTurn(d, s, l)
    BY <1>1 DEF CreateTurn
  <2>2. Typed'
    BY <2>1, <1>t DEF QueueTurn, Mark, Typed, Status, TurnState
  <2>3. House' \in HouseType
    BY <2>2 DEF Typed, House, HouseType
  <2>4. Laned(House)'
    BY <2>1, <1>t DEF QueueTurn, Mark, Typed, Laned, House
  <2>5. disk' \in HouseType /\ Laned(disk)'
    BY <2>3, <2>4, <1>1, SaveTyped DEF CreateTurn, TypeOK
  <2>6. \A e \in Executors : Busy(e)' => lane'[exec'[e].job] \in Lanes
    BY <2>1, <1>1, <1>t, BusyWorking DEF CreateTurn, QueueTurn, Typed, Busy
  <2> QED
    BY <2>3, <2>4, <2>5, <2>6, <1>1, <1>t DEF CreateTurn, TypeOK
<1>2. CASE ExecuteLatest
  <2>1. PICK d \in Queued :
          /\ Mark(d, "completed", "Completed") /\ ReportCompleted(d)
          /\ UNCHANGED <<approval, lane, session, exec, enabled, launched>>
    BY <1>2 DEF ExecuteLatest
  <2>2. d \in Dispatches /\ lane[d] \in Lanes
    BY <2>1, <1>t DEF Queued, Laned, House
  <2>3. House' \in HouseType /\ Laned(House)'
    BY <2>1, <2>2, MarkTyped DEF Status, TurnState, ApprovalStatus
  <2>4. (Persisted \/ PersistFailed) /\ told' \subseteq Dispatches
    BY <2>1, <2>2, <1>t DEF ReportCompleted, PersistFailed, TypeOK
  <2>5. disk' \in HouseType /\ Laned(disk)'
    BY <2>3, <2>4, SaveTyped DEF TypeOK
  <2> QED
    BY <2>1, <2>3, <2>4, <2>5, <1>t DEF TypeOK, Busy
<1>3. ASSUME NEW d \in Dispatches, GrantApproval(d) PROVE TypeInv'
  <2>1. lane[d] \in Lanes
    BY <1>3 DEF GrantApproval, Resolvable, Laned, House
  <2>2. House' \in HouseType /\ Laned(House)'
    BY <1>3, <2>1, MarkTyped DEF GrantApproval, Status, TurnState, ApprovalStatus
  <2>3. disk' \in HouseType /\ Laned(disk)'
    BY <1>3, <2>2, SaveTyped DEF GrantApproval, TypeOK
  <2> QED
    BY <1>3, <2>2, <2>3, <1>t DEF GrantApproval, TypeOK, Busy
<1>4. ASSUME NEW d \in Dispatches, DenyApproval(d) PROVE TypeInv'
  <2>1. lane[d] \in Lanes
    BY <1>4 DEF DenyApproval, Resolvable, Laned, House
  <2>2. House' \in HouseType /\ Laned(House)'
    BY <1>4, <2>1, MarkTyped DEF DenyApproval, Status, TurnState, ApprovalStatus
  <2>3. disk' \in HouseType /\ Laned(disk)'
    BY <1>4, <2>2, SaveTyped DEF DenyApproval, TypeOK
  <2> QED
    BY <1>4, <2>2, <2>3, <1>t DEF DenyApproval, TypeOK, Busy
<1>5. CASE SetAutonomy
  BY <1>5, <1>t DEF SetAutonomy, house, TypeOK, Laned, House, Busy
<1>6. CASE OtherHandlerSaves
  BY <1>6, <1>t DEF OtherHandlerSaves, house, TypeOK, Laned, House, Busy
<1>7. ASSUME NEW e \in Executors, NEW d \in Dispatches, NEW dirty \in BOOLEAN,
             RequestApproval(e, d, dirty)
      PROVE  TypeInv'
  <2>1. lane[d] \in Lanes
    BY <1>7 DEF RequestApproval, Queued, Laned, House
  <2>2. House' \in HouseType /\ Laned(House)'
    BY <1>7, <2>1, MarkTyped DEF RequestApproval, Status, TurnState, ApprovalStatus
  <2>3. disk' \in HouseType /\ Laned(disk)'
    BY <1>7, <2>2, SaveTyped DEF RequestApproval, TypeOK
  <2> QED
    BY <1>7, <2>2, <2>3, <1>t DEF RequestApproval, TypeOK, Busy
<1>8. ASSUME NEW e \in Executors, NEW d \in Dispatches, NEW dirty \in BOOLEAN,
             NEW rest \in SUBSET (Lanes \ {lane[d]}), StartRun(e, d, dirty, rest)
      PROVE  TypeInv'
  <2>1. lane[d] \in Lanes
    BY <1>8 DEF StartRun, Queued, Laned, House
  <2>2. House' \in HouseType /\ Laned(House)'
    BY <1>8, <2>1, MarkTyped DEF StartRun, Status, TurnState, ApprovalStatus
  <2>3. disk' \in HouseType /\ Laned(disk)'
    BY <1>8, <2>2, SaveTyped DEF StartRun, TypeOK
  <2>4. exec' \in [Executors -> Working \cup {Idle}] /\ launched' \subseteq Dispatches
    BY <1>8, <2>1, <1>t DEF StartRun, TypeOK, Working
  <2>5. \A f \in Executors : Busy(f)' => lane'[exec'[f].job] \in Lanes
    BY <1>8, <2>1, <1>t DEF StartRun, TypeOK, Busy
  <2> QED
    BY <1>8, <2>2, <2>3, <2>4, <2>5, <1>t DEF StartRun, TypeOK
<1>9. ASSUME NEW e \in Executors, AttemptSucceeds(e) PROVE TypeInv'
  <2> DEFINE x == exec[e]
  <2>1. x \in Working /\ x.job \in Dispatches /\ x.at \in Lanes /\ Busy(e) /\ lane[x.job] \in Lanes
    BY <1>9, BusyWorking DEF AttemptSucceeds, GoesOn, Leaves
  <2>2. exec' \in [Executors -> Working \cup {Idle}]
    BY <1>9, <2>1, <1>t DEF AttemptSucceeds, TypeOK, Working, GoesOn, Leaves
  <2>3. CASE lane' = lane /\ disk' = disk /\ GoesOn(e, "answered", x.at, x.rest)
    BY <1>9, <2>1, <2>2, <2>3, <1>t DEF AttemptSucceeds, TypeOK, Laned, House, Busy, Working, GoesOn, Leaves
  <2>4. CASE lane' = [lane EXCEPT ![x.job] = x.at]
    <3>1. Typed'
      BY <1>9, <2>1, <2>4, <1>t DEF AttemptSucceeds, Typed
    <3>2. House' \in HouseType /\ Laned(House)'
      BY <1>9, <2>1, <2>4, <3>1, <1>t DEF AttemptSucceeds, Typed, House, HouseType, Laned
    <3>3. disk' \in HouseType /\ Laned(disk)'
      BY <1>9, <3>2, SaveTyped DEF AttemptSucceeds, TypeOK, PersistFailed
    <3>4. \A f \in Executors : Busy(f)' => Busy(f) /\ exec'[f].job = exec[f].job
      BY <1>9, <2>1, <1>t DEF AttemptSucceeds, TypeOK, Busy, Working, GoesOn, Leaves
    <3>5. \A f \in Executors : Busy(f)' => lane'[exec'[f].job] \in Lanes
      BY <2>1, <2>4, <3>4, <1>t, BusyWorking DEF Typed
    <3> QED
      BY <1>9, <2>2, <3>2, <3>3, <3>5, <1>t DEF AttemptSucceeds, TypeOK
  <2> QED
    BY <1>9, <2>3, <2>4 DEF AttemptSucceeds
<1>10. ASSUME NEW e \in Executors, AttemptFails(e) PROVE TypeInv'
  <2>1. exec[e] \in Working /\ exec[e].rest \subseteq Lanes /\ Busy(e)
    BY <1>10, BusyWorking DEF AttemptFails, GoesOn, Leaves
  <2>2. exec' \in [Executors -> Working \cup {Idle}]
    BY <1>10, <2>1, <1>t DEF AttemptFails, TypeOK, Working, GoesOn, Leaves
  <2>3. UNCHANGED house /\ House' = House
    BY <1>10 DEF AttemptFails, house, House
  <2>4. disk' \in HouseType /\ Laned(disk)'
    BY <1>10, <2>3, <1>t DEF AttemptFails, Persisted, PersistFailed, TypeOK, Laned
  <2>5. \A f \in Executors : Busy(f)' => Busy(f) /\ exec'[f].job = exec[f].job
    BY <1>10, <2>1, <1>t DEF AttemptFails, TypeOK, Busy, Working, GoesOn, Leaves
  <2>6. \A f \in Executors : Busy(f)' => lane'[exec'[f].job] \in Lanes
    BY <2>3, <2>5 DEF house
  <2> QED
    BY <1>10, <2>2, <2>3, <2>4, <2>6, <1>t DEF AttemptFails, TypeOK, Laned
<1>11. ASSUME NEW e \in Executors, CloseFailed(e) PROVE TypeInv'
  <2> DEFINE d == exec[e].job
  <2>1. d \in Dispatches /\ lane[d] \in Lanes /\ Busy(e)
    BY <1>11, BusyWorking DEF CloseFailed
  <2>2. Typed'
    BY <1>11, <2>1, <1>t DEF CloseFailed, Typed, Status, TurnState
  <2>3. House' \in HouseType /\ Laned(House)'
    BY <1>11, <2>1, <2>2, <1>t DEF CloseFailed, Typed, House, HouseType, Laned
  <2>4. disk' \in HouseType /\ Laned(disk)'
    BY <1>11, <2>3, SaveTyped DEF CloseFailed, TypeOK
  <2> QED
    BY <1>11, <2>3, <2>4, <1>t DEF CloseFailed, TypeOK, Busy, Leaves
<1>12. ASSUME NEW e \in Executors, CloseCompleted(e) PROVE TypeInv'
  <2> DEFINE d == exec[e].job
  <2>1. d \in Dispatches /\ lane[d] \in Lanes /\ Busy(e)
    BY <1>12, BusyWorking DEF CloseCompleted
  <2>2. House' \in HouseType /\ Laned(House)'
    BY <1>12, <2>1, MarkTyped DEF CloseCompleted, Status, TurnState, ApprovalStatus
  <2>3. (Persisted \/ PersistFailed) /\ told' \subseteq Dispatches
    BY <1>12, <2>1, <1>t DEF CloseCompleted, ReportCompleted, PersistFailed, TypeOK
  <2>4. disk' \in HouseType /\ Laned(disk)'
    BY <2>2, <2>3, SaveTyped DEF TypeOK
  <2> QED
    BY <1>12, <2>2, <2>3, <2>4, <1>t DEF CloseCompleted, TypeOK, Busy, Leaves
<1>13. ASSUME NEW e \in Executors, CloseWithFollowUp(e) PROVE TypeInv'
  <2> DEFINE d == exec[e].job
  <2>1. d \in Dispatches /\ lane[d] \in Lanes /\ exec[e].at \in Lanes /\ Busy(e)
    BY <1>13, BusyWorking DEF CloseWithFollowUp
  <2>2. PICK f \in Dispatches \ {d} :
          /\ status'  = [status EXCEPT ![d] = "completed", ![f] = "queued"]
          /\ turn'    = [turn EXCEPT ![d] = "Completed", ![f] = "Queued"]
          /\ logged'  = [logged EXCEPT ![d] = "completed", ![f] = "queued"]
          /\ lane'    = [lane EXCEPT ![f] = exec[e].at]
          /\ session' = [session EXCEPT ![f] = session[d]]
    BY <1>13 DEF CloseWithFollowUp
  <2>3. Typed'
    BY <1>13, <2>1, <2>2, <1>t DEF CloseWithFollowUp, Typed, Status, TurnState
  <2>4. House' \in HouseType
    BY <2>3 DEF Typed, House, HouseType
  <2>5. Laned(House)'
    BY <1>13, <2>1, <2>2, <1>t DEF CloseWithFollowUp, Typed, House, Laned
  <2>6. (Persisted \/ PersistFailed) /\ told' \subseteq Dispatches
    BY <1>13, <2>1, <1>t DEF CloseWithFollowUp, ReportCompleted, PersistFailed, TypeOK
  <2>7. disk' \in HouseType /\ Laned(disk)'
    BY <2>4, <2>5, <2>6, SaveTyped DEF TypeOK
  <2>8. exec' = [exec EXCEPT ![e] = Idle]
    BY <1>13 DEF CloseWithFollowUp, Leaves
  <2>9. \A g \in Executors : Busy(g)' => lane'[exec'[g].job] \in Lanes
    BY <2>1, <2>2, <2>8, <1>t, BusyWorking DEF TypeOK, Busy, Typed
  <2> QED
    BY <1>13, <2>4, <2>5, <2>6, <2>7, <2>8, <2>9, <1>t DEF CloseWithFollowUp, TypeOK
<1>14. ASSUME NEW e \in Executors, ExecutorLost(e) PROVE TypeInv'
  BY <1>14, <1>t DEF ExecutorLost, house, TypeOK, Laned, House, Busy, Leaves
<1>15. CASE CrashAndRestart
  <2>1. House' = disk
    BY <1>15, <1>t DEF CrashAndRestart, House, TypeOK, HouseType
  <2> QED
    BY <1>15, <2>1, <1>t DEF CrashAndRestart, TypeOK, Laned, Busy
<1>16. CASE UNCHANGED vars
  BY <1>16, <1>t DEF vars, TypeOK, Laned, House, Busy
<1> QED
  BY <1>1, <1>2, <1>3, <1>4, <1>5, <1>6, <1>7, <1>8, <1>9, <1>10, <1>11, <1>12, <1>13,
     <1>14, <1>15, <1>16 DEF Next, SelectAndRun, Step

\* Type correctness: every variable keeps the domain the code gives it.
THEOREM TypeCorrect == Spec => []TypeOK
<1>1. TypeInv => TypeOK
  BY DEF TypeInv
<1> QED
  BY InitTypeInv, NextTypeInv, <1>1, PTL DEF Spec

-----------------------------------------------------------------------------
(* The registries agree, and the gate holds, whoever resolves what.        *)

\* What one dispatch's status, turn and approval may be together.
Agree(s, t, a) ==
  /\ t = TurnOf(s)
  /\ a = "pending" <=> s = "awaiting_approval"
  /\ s = "queued" => a \in {"none", "granted"}
  /\ s = "denied" => a = "denied"
  /\ s = "none" => a = "none"

Whole(h) == \A d \in Dispatches : Agree(h.status[d], h.turn[d], h.approval[d])

\* An executor's dispatch is never back at the gate: the gate is only for what
\* is queued without an approval, and once past it neither returns.
PastTheGate ==
  \A e \in Executors : Busy(e) =>
    /\ approval[exec[e].job] # "pending"
    /\ approval[exec[e].job] = "none" => status[exec[e].job] \notin {"none", "queued"}

GateInv == TypeInv /\ Whole(House) /\ Whole(disk) /\ PastTheGate /\ EngineGate

LEMMA TurnOfEach ==
  /\ TurnOf("none") = "None" /\ TurnOf("queued") = "Queued"
  /\ TurnOf("running") = "Executing" /\ TurnOf("awaiting_approval") = "AwaitingApproval"
  /\ TurnOf("completed") = "Completed" /\ TurnOf("failed") = "Failed"
  /\ TurnOf("denied") = "Interrupted"
BY DEF TurnOf

LEMMA InitGateInv == Init => GateInv
<1> SUFFICES ASSUME Init PROVE GateInv
  OBVIOUS
<1>1. Whole(House) /\ Whole(disk)
  BY TurnOfEach DEF Init, Whole, Agree, House, EmptyHouse
<1> QED
  BY <1>1, InitTypeInv DEF Init, GateInv, PastTheGate, EngineGate, Busy

\* A save, or a failed one, leaves a whole copy on disk if memory is whole.
LEMMA SaveWhole ==
  ASSUME Whole(House)', Whole(disk), Persisted \/ PersistFailed
  PROVE  Whole(disk)'
BY DEF Persisted, PersistFailed, Whole

\* Moving one dispatch to a status and an approval that agree keeps all whole.
LEMMA MarkWhole ==
  ASSUME TypeInv, Whole(House), NEW d \in Dispatches, NEW s \in Status, NEW t \in TurnState,
         Mark(d, s, t), approval' \in [Dispatches -> ApprovalStatus],
         \A c \in Dispatches \ {d} : approval'[c] = approval[c],
         Agree(s, t, approval'[d])
  PROVE  Whole(House)'
<1>1. Typed
  BY HouseTyped DEF TypeInv, TypeOK
<1>2. ASSUME NEW c \in Dispatches PROVE Agree(status'[c], turn'[c], approval'[c])
  <2>1. CASE c = d
    BY <1>1, <2>1 DEF Mark, Typed
  <2>2. CASE c # d
    BY <1>1, <2>2 DEF Mark, Typed, Whole, House
  <2> QED
    BY <2>1, <2>2
<1> QED
  BY <1>2 DEF Whole, House

\* Executors and approvals untouched, and what was not queued stays so: the
\* executors stay past the gate.
LEMMA StayPastTheGate ==
  ASSUME GateInv, UNCHANGED <<approval, exec>>,
         \A d \in Dispatches : status'[d] \in {"none", "queued"} /\ approval[d] = "none"
                               => status[d] \in {"none", "queued"}
  PROVE  PastTheGate' /\ EngineGate'
BY BusyWorking DEF GateInv, TypeInv, PastTheGate, EngineGate, Busy

\* The same when executor e leaves its dispatch.
LEMMA LeavePastTheGate ==
  ASSUME GateInv, NEW e \in Executors, UNCHANGED approval, Leaves(e),
         \A d \in Dispatches : status'[d] \in {"none", "queued"} /\ approval[d] = "none"
                               => status[d] \in {"none", "queued"}
  PROVE  PastTheGate' /\ EngineGate'
<1>1. \A f \in Executors : Busy(f)' => Busy(f) /\ exec'[f] = exec[f] /\ exec[f].job \in Dispatches
  BY BusyWorking DEF GateInv, TypeInv, TypeOK, Leaves, Busy
<1> QED
  BY <1>1 DEF GateInv, PastTheGate, EngineGate

LEMMA NextGateInv == GateInv /\ [Next]_vars => GateInv'
<1> SUFFICES ASSUME GateInv, [Next]_vars PROVE GateInv'
  OBVIOUS
<1>t. TypeInv /\ TypeInv' /\ TypeOK /\ Typed /\ Whole(House) /\ Whole(disk)
  BY NextTypeInv, HouseTyped DEF GateInv, TypeInv, TypeOK
<1>1. CASE CreateTurn
  <2>1. PICK d \in Dispatches, s \in Sessions, l \in Lanes : Fresh(d) /\ QueueTurn(d, s, l)
    BY <1>1 DEF CreateTurn
  <2>2. approval[d] = "none" /\ status[d] = "none"
    BY <2>1, <1>t DEF Fresh, Whole, Agree, House
  <2>3. Whole(House)'
    BY <2>1, <2>2, <1>t, MarkWhole, TurnOfEach
    DEF QueueTurn, Agree, Status, TurnState, Typed
  <2>4. Whole(disk)'
    BY <1>1, <1>t, <2>3, SaveWhole DEF CreateTurn
  <2>5. PastTheGate' /\ EngineGate'
    BY <1>1, <2>1, <2>2, <1>t, StayPastTheGate DEF CreateTurn, QueueTurn, Mark, Typed
  <2> QED
    BY <1>t, <2>3, <2>4, <2>5 DEF GateInv
<1>2. CASE ExecuteLatest
  <2>1. PICK d \in Queued :
          /\ Mark(d, "completed", "Completed") /\ ReportCompleted(d)
          /\ UNCHANGED <<approval, lane, session, exec, enabled, launched>>
    BY <1>2 DEF ExecuteLatest
  <2>2. d \in Dispatches /\ approval[d] \in {"none", "granted"}
    BY <2>1, <1>t DEF Queued, Whole, Agree, House
  <2>3. Whole(House)'
    BY <2>1, <2>2, <1>t, MarkWhole, TurnOfEach DEF Agree, Status, TurnState, Typed
  <2>4. Whole(disk)'
    BY <2>1, <1>t, <2>3, SaveWhole DEF ReportCompleted, PersistFailed
  <2>5. PastTheGate' /\ EngineGate'
    BY <2>1, <2>2, <1>t, StayPastTheGate DEF Mark, Typed
  <2> QED
    BY <1>t, <2>3, <2>4, <2>5 DEF GateInv
<1>3. ASSUME NEW d \in Dispatches, GrantApproval(d) PROVE GateInv'
  <2>1. Whole(House)'
    BY <1>3, <1>t, MarkWhole, TurnOfEach
    DEF GrantApproval, Agree, Status, TurnState, ApprovalStatus, Typed
  <2>2. Whole(disk)'
    BY <1>3, <1>t, <2>1, SaveWhole DEF GrantApproval
  <2>3. PastTheGate'
    BY <1>3, <1>t, BusyWorking DEF GrantApproval, GateInv, PastTheGate, Busy, Mark, Typed
  <2>4. EngineGate'
    BY <1>3, <1>t, BusyWorking DEF GrantApproval, GateInv, EngineGate, Busy, Typed
  <2> QED
    BY <1>t, <2>1, <2>2, <2>3, <2>4 DEF GateInv
<1>4. ASSUME NEW d \in Dispatches, DenyApproval(d) PROVE GateInv'
  <2>1. Whole(House)'
    BY <1>4, <1>t, MarkWhole, TurnOfEach
    DEF DenyApproval, Agree, Status, TurnState, ApprovalStatus, Typed
  <2>2. Whole(disk)'
    BY <1>4, <1>t, <2>1, SaveWhole DEF DenyApproval
  <2>3. PastTheGate'
    BY <1>4, <1>t, BusyWorking DEF DenyApproval, GateInv, PastTheGate, Busy, Mark, Typed
  <2>4. EngineGate'
    BY <1>4, <1>t, BusyWorking
    DEF DenyApproval, Resolvable, GateInv, EngineGate, PastTheGate, Busy, Typed
  <2> QED
    BY <1>t, <2>1, <2>2, <2>3, <2>4 DEF GateInv
<1>5. CASE SetAutonomy
  BY <1>5, <1>t DEF SetAutonomy, house, GateInv, Whole, House, PastTheGate, EngineGate, Busy
<1>6. CASE OtherHandlerSaves
  BY <1>6, <1>t DEF OtherHandlerSaves, house, GateInv, Whole, House, PastTheGate, EngineGate, Busy
<1>7. ASSUME NEW e \in Executors, NEW d \in Dispatches, NEW dirty \in BOOLEAN,
             RequestApproval(e, d, dirty)
      PROVE  GateInv'
  <2>1. status[d] = "queued" /\ approval[d] = "none"
    BY <1>7, <1>t DEF RequestApproval, Queued, Whole, Agree, House
  <2>2. Whole(House)'
    BY <1>7, <1>t, MarkWhole, TurnOfEach
    DEF RequestApproval, Agree, Status, TurnState, ApprovalStatus, Typed
  <2>3. Whole(disk)'
    BY <1>7, <1>t, <2>2, SaveWhole DEF RequestApproval
  <2>4. \A f \in Executors : Busy(f) => exec[f].job # d
    BY <2>1 DEF GateInv, PastTheGate
  <2>5. PastTheGate' /\ EngineGate'
    BY <1>7, <2>4, <1>t, BusyWorking
    DEF RequestApproval, GateInv, PastTheGate, EngineGate, Busy, Mark, Typed
  <2> QED
    BY <1>t, <2>2, <2>3, <2>5 DEF GateInv
<1>8. ASSUME NEW e \in Executors, NEW d \in Dispatches, NEW dirty \in BOOLEAN,
             NEW rest \in SUBSET (Lanes \ {lane[d]}), StartRun(e, d, dirty, rest)
      PROVE  GateInv'
  <2>1. /\ status[d] = "queued" /\ approval[d] \in {"none", "granted"}
        /\ lane[d] \notin CodexLanes => approval[d] = "granted"
    BY <1>8, <1>t DEF StartRun, GateReason, Queued, Whole, Agree, House
  <2>2. Whole(House)'
    BY <1>8, <2>1, <1>t, MarkWhole, TurnOfEach
    DEF StartRun, Agree, Status, TurnState, ApprovalStatus, Typed
  <2>3. Whole(disk)'
    BY <1>8, <1>t, <2>2, SaveWhole DEF StartRun
  <2>4. status'[d] = "running" /\ \A c \in Dispatches \ {d} : status'[c] = status[c]
    BY <1>8, <1>t DEF StartRun, Mark, Typed
  <2>5. \A f \in Executors : Busy(f)' =>
          \/ Busy(f) /\ exec'[f] = exec[f] /\ exec[f].job \in Dispatches
          \/ exec'[f].job = d /\ exec'[f].home = lane[d]
    BY <1>8, <1>t, BusyWorking DEF StartRun, TypeOK, Busy
  <2>6. PastTheGate' /\ EngineGate'
    BY <1>8, <2>1, <2>4, <2>5 DEF StartRun, GateInv, PastTheGate, EngineGate
  <2> QED
    BY <1>t, <2>2, <2>3, <2>6 DEF GateInv
<1>9. ASSUME NEW e \in Executors, AttemptSucceeds(e) PROVE GateInv'
  <2>1. UNCHANGED <<status, turn, approval>> /\ (disk' = disk \/ Persisted)
    BY <1>9 DEF AttemptSucceeds, PersistFailed
  <2>2. Whole(House)' /\ Whole(disk)'
    BY <2>1, <1>t DEF Whole, House, Persisted
  <2>3. \A f \in Executors : Busy(f)' =>
          Busy(f) /\ exec'[f].job = exec[f].job /\ exec'[f].home = exec[f].home
    BY <1>9, <1>t, BusyWorking DEF AttemptSucceeds, GoesOn, Leaves, TypeOK, Busy
  <2>4. PastTheGate' /\ EngineGate'
    BY <2>1, <2>3 DEF GateInv, PastTheGate, EngineGate
  <2> QED
    BY <1>t, <2>2, <2>4 DEF GateInv
<1>10. ASSUME NEW e \in Executors, AttemptFails(e) PROVE GateInv'
  <2>1. UNCHANGED <<status, turn, approval>> /\ (disk' = disk \/ Persisted)
    BY <1>10 DEF AttemptFails, PersistFailed, house
  <2>2. Whole(House)' /\ Whole(disk)'
    BY <2>1, <1>t DEF Whole, House, Persisted
  <2>3. \A f \in Executors : Busy(f)' =>
          Busy(f) /\ exec'[f].job = exec[f].job /\ exec'[f].home = exec[f].home
    BY <1>10, <1>t, BusyWorking DEF AttemptFails, GoesOn, Leaves, TypeOK, Busy
  <2>4. PastTheGate' /\ EngineGate'
    BY <2>1, <2>3 DEF GateInv, PastTheGate, EngineGate
  <2> QED
    BY <1>t, <2>2, <2>4 DEF GateInv
<1>11. ASSUME NEW e \in Executors, CloseFailed(e) PROVE GateInv'
  <2> DEFINE d == exec[e].job
  <2>1. d \in Dispatches /\ Busy(e) /\ approval[d] # "pending"
    BY <1>11, <1>t, BusyWorking DEF CloseFailed, GateInv, PastTheGate
  <2>2. Whole(House)'
    BY <1>11, <2>1, <1>t, TurnOfEach DEF CloseFailed, Whole, Agree, House, Typed
  <2>3. Whole(disk)'
    BY <1>11, <1>t, <2>2, SaveWhole DEF CloseFailed
  <2>4. PastTheGate' /\ EngineGate'
    BY <1>11, <2>1, <1>t, LeavePastTheGate DEF CloseFailed, Typed
  <2> QED
    BY <1>t, <2>2, <2>3, <2>4 DEF GateInv
<1>12. ASSUME NEW e \in Executors, CloseCompleted(e) PROVE GateInv'
  <2> DEFINE d == exec[e].job
  <2>1. d \in Dispatches /\ Busy(e) /\ approval[d] # "pending"
    BY <1>12, <1>t, BusyWorking DEF CloseCompleted, GateInv, PastTheGate
  <2>2. Whole(House)'
    BY <1>12, <2>1, <1>t, MarkWhole, TurnOfEach
    DEF CloseCompleted, Agree, Status, TurnState, Typed
  <2>3. Whole(disk)'
    BY <1>12, <1>t, <2>2, SaveWhole DEF CloseCompleted, ReportCompleted, PersistFailed
  <2>4. PastTheGate' /\ EngineGate'
    BY <1>12, <2>1, <1>t, LeavePastTheGate DEF CloseCompleted, Mark, Typed
  <2> QED
    BY <1>t, <2>2, <2>3, <2>4 DEF GateInv
<1>13. ASSUME NEW e \in Executors, CloseWithFollowUp(e) PROVE GateInv'
  <2> DEFINE d == exec[e].job
  <2>1. d \in Dispatches /\ Busy(e) /\ approval[d] # "pending"
    BY <1>13, <1>t, BusyWorking DEF CloseWithFollowUp, GateInv, PastTheGate
  <2>2. PICK f \in Dispatches \ {d} :
          /\ Fresh(f)
          /\ status'  = [status EXCEPT ![d] = "completed", ![f] = "queued"]
          /\ turn'    = [turn EXCEPT ![d] = "Completed", ![f] = "Queued"]
    BY <1>13 DEF CloseWithFollowUp
  <2>3. approval[f] = "none" /\ status[f] = "none" /\ UNCHANGED approval
    BY <1>13, <2>2, <1>t DEF CloseWithFollowUp, Fresh, Whole, Agree, House
  <2>4. Whole(House)'
    BY <2>1, <2>2, <2>3, <1>t, TurnOfEach DEF Whole, Agree, House, Typed
  <2>5. Whole(disk)'
    BY <1>13, <1>t, <2>4, SaveWhole DEF CloseWithFollowUp, ReportCompleted, PersistFailed
  <2>6. PastTheGate' /\ EngineGate'
    BY <1>13, <2>1, <2>2, <2>3, <1>t, LeavePastTheGate DEF CloseWithFollowUp, Typed
  <2> QED
    BY <1>t, <2>4, <2>5, <2>6 DEF GateInv
<1>14. ASSUME NEW e \in Executors, ExecutorLost(e) PROVE GateInv'
  BY <1>14, <1>t, LeavePastTheGate DEF ExecutorLost, house, GateInv, Whole, House
<1>15. CASE CrashAndRestart
  <2>1. Whole(House)' /\ Whole(disk)'
    BY <1>15, <1>t DEF CrashAndRestart, Whole, House
  <2>2. PastTheGate' /\ EngineGate'
    BY <1>15 DEF CrashAndRestart, PastTheGate, EngineGate, Busy
  <2> QED
    BY <1>t, <2>1, <2>2 DEF GateInv
<1>16. CASE UNCHANGED vars
  BY <1>16, <1>t DEF vars, GateInv, Whole, House, PastTheGate, EngineGate, Busy
<1> QED
  BY <1>1, <1>2, <1>3, <1>4, <1>5, <1>6, <1>7, <1>8, <1>9, <1>10, <1>11, <1>12, <1>13,
     <1>14, <1>15, <1>16 DEF Next, SelectAndRun, Step

\* The dispatch, turn and approval registries agree, in memory and on disk,
\* with every interleaving, operator and fault.
THEOREM Registries == Spec => []RegistriesCoherent
<1>1. GateInv => RegistriesCoherent
  BY DEF GateInv, Whole, Agree, RegistriesCoherent, Coherent
<1> QED
  BY InitGateInv, NextGateInv, <1>1, PTL DEF Spec

\* No non-default engine starts on a dispatch before its approval is resolved.
THEOREM GateHolds == Spec => []EngineGate
<1>1. GateInv => EngineGate
  BY DEF GateInv
<1> QED
  BY InitGateInv, NextGateInv, <1>1, PTL DEF Spec

===============================================================================
