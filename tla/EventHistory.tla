----------------------------- MODULE EventHistory -----------------------------
(***************************************************************************)
(* What the house promises to whoever reads its events table, or is told   *)
(* of events by a handler that waits for its transaction: the history only *)
(* grows, at its end, every sequence number is one event, and nothing is   *)
(* told that is not in it.  A house that could not load its history and    *)
(* numbers anew keeps the first and the last of these promises.            *)
(* EventStream implements this with a log in memory that runs ahead of the *)
(* table and is taken back by crashes, and with copies sent without the    *)
(* lock; one transaction may save what several handlers appended.          *)
(***************************************************************************)
EXTENDS Naturals

VARIABLES
  history,   \* the events saved
  told,      \* the events watchers were told of
  renumbered \* the numbering began again on top of a history

Init == history = {} /\ told = {} /\ renumbered = FALSE

(* The events of new follow those of old, each with a number of its own.   *)
Continues(old, new) ==
  /\ \A e \in old, f \in new : e.sequence < f.sequence
  /\ \A e, f \in new : e.sequence = f.sequence => e = f

Save ==
  /\ history \subseteq history'
  /\ renumbered \/ Continues(history, history' \ history)
  /\ UNCHANGED <<told, renumbered>>

Tell ==
  /\ \E e \in history : told' = told \cup {e}
  /\ UNCHANGED <<history, renumbered>>

Renumber == renumbered' = TRUE /\ UNCHANGED <<history, told>>

Next == Save \/ Tell \/ Renumber

Spec == Init /\ [][Next]_<<history, told, renumbered>>
===============================================================================
