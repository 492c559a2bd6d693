-------------------------- MODULE MCCapsuleLifecycle --------------------------
(* Instances of CapsuleLifecycle for TLC: the core package and one that is *)
(* imported, as in the code.                                               *)
EXTENDS CapsuleLifecycle

CONSTANTS core, echo

MCPackages == {core, echo}
NoFaults == {}

(* Bounds that depend on the faults: up to two versions and MaxApprovals   *)
(* requests while every transaction has succeeded; a house that is ahead   *)
(* of its disk, or lost something in a crash, is followed through its      *)
(* first versions and its first request.                                   *)
Saved == disk = House
FirstOnes ==
  Len(approvals) <= 1 /\ \A p \in Packages : version[p] = 1
FaultsWhileFirst == Saved \/ FirstOnes

==============================================================================
