---------------------------- MODULE DispatchLedger ----------------------------
(***************************************************************************)
(* What the house promises about a dispatch to whoever reads its database: *)
(* the phase it is in only moves forward, a settled phase is final, and a  *)
(* provider is called for it at most once, at the moment the ledger says   *)
(* it runs.  HouseDispatch implements this with its memory, its executors  *)
(* and its transactions; one save may move several dispatches, and may     *)
(* skip phases that memory went through while saves were failing.          *)
(***************************************************************************)
CONSTANT Ids

VARIABLES
  ledger,   \* id -> phase
  launched  \* the ids a provider was called for

\* q may still follow p.
Precedes(p, q) ==
  \/ p = "absent"   /\ q \in {"queued", "awaiting", "cleared", "running", "completed", "failed", "denied"}
  \/ p = "queued"   /\ q \in {"awaiting", "cleared", "running", "completed", "failed", "denied"}
  \/ p = "awaiting" /\ q \in {"cleared", "running", "completed", "failed", "denied"}
  \/ p = "cleared"  /\ q \in {"running", "completed", "failed"}
  \/ p = "running"  /\ q \in {"completed", "failed"}

Started == {"running", "completed", "failed"}

Init ==
  /\ ledger = [i \in Ids |-> "absent"]
  /\ launched = {}

MovesForward == \A i \in Ids : ledger'[i] = ledger[i] \/ Precedes(ledger[i], ledger'[i])

Save ==
  /\ MovesForward
  /\ UNCHANGED launched

Launch(i) ==
  /\ i \notin launched
  /\ ledger[i] \notin Started
  /\ MovesForward
  /\ ledger'[i] = "running"
  /\ launched' = launched \cup {i}

Next == Save \/ \E i \in Ids : Launch(i)

Spec == Init /\ [][Next]_<<ledger, launched>>
===============================================================================
