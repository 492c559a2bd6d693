--------------------------- MODULE MCHouseDispatch ---------------------------
(* Instances of HouseDispatch for TLC.                                      *)
EXTENDS HouseDispatch

CONSTANTS s1, s2, l1, l2, w1, w2, auto

MCSessions  == {s1}
TwoSessions == {s1, s2}
MCLanes     == {l1, l2}
MCCodex     == {l1}
OneWorker   == {w1}
TwoWorkers  == {w1, w2}
NoFaults    == {}

==============================================================================
