---------------------------- MODULE MCEventStream ----------------------------
(* Instances of EventStream for TLC.                                        *)
EXTENDS EventStream, TLC

CONSTANTS h1, h2, c1

MCHandlers == {h1, h2}
OneWatcher == {c1}
NoWatchers == {}
NoFaults   == {}

(* A bound: a watcher, and a failed load, are followed through the first    *)
(* three events; the longer logs are those of an unwatched house that always *)
(* could be loaded.                                                         *)
WatchedWhileShort ==
  minted <= 3 \/ (~restarted /\ \A w \in Watchers : watcher[w] = Closed)

(* The handlers are interchangeable, and no run of this module has a        *)
(* liveness property.                                                       *)
HandlerSymmetry == Permutations(MCHandlers)

==============================================================================
