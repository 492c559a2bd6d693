---------------------------- MODULE ProviderLanes ----------------------------
(***************************************************************************)
(* The registry of provider lanes and what is computed from it: the lane a *)
(* new dispatch gets, and the lanes a run falls back to.                   *)
(*                                                                         *)
(* A registry is a record: the lanes that are connected, the policy of     *)
(* each, and which of two connected lanes was connected before the other   *)
(* (connected_at).  A lane is always connected under the same engine.      *)
(***************************************************************************)
EXTENDS Naturals

CONSTANTS
  Lanes,   \* provider lane ids
  Engine,  \* lane -> its provider
  Rank     \* lane -> its place in the order of ids, in which the registry lists

Engines == {"codex", "anthropic", "copilot"}
Modes   == {"primary", "secondary"}
NoGroup == "no group"
Groups  == {"core", "default", NoGroup}

Policy == [mode : Modes, group : Groups, priority : Nat]

LaneRegistries ==
  [connected : SUBSET Lanes, policy : [Lanes -> Policy], older : SUBSET (Lanes \X Lanes)]

(* What the bootstrap handlers connect a lane of an engine with; the handler *)
(* for any copilot model takes the mode from its request.                   *)
Bootstraps(engine) ==
  CASE engine = "codex"     -> {[mode |-> "primary", group |-> "core", priority |-> 100]}
    [] engine = "anthropic" -> {[mode |-> "secondary", group |-> "core", priority |-> 80]}
    [] engine = "copilot"   -> {[mode |-> m, group |-> "default", priority |-> 10] : m \in Modes}

Unset == [mode |-> "secondary", group |-> NoGroup, priority |-> 0]

NoLanes == [connected |-> {}, policy |-> [l \in Lanes |-> Unset], older |-> {}]

(* Mutant: a lane that is connected again keeps its place as well. *)
ConnectedTwice(reg, l, p) ==
  [connected |-> reg.connected \cup {l},
   policy    |-> [reg.policy EXCEPT ![l] = p],
   older     |-> reg.older \cup (reg.connected \X {l})]

(* ProviderLaneRegistry::connect: a lane that is there already is replaced, *)
(* the policy the operator gave it and its place in time with it.           *)
Connected(reg, l, p) ==
  [connected |-> reg.connected \cup {l},
   policy    |-> [reg.policy EXCEPT ![l] = p],
   older     |-> {q \in reg.older : l \notin {q[1], q[2]}} \cup ((reg.connected \ {l}) \X {l})]

(* ProviderLaneRegistry::update_lane *)
Updated(reg, l, policy) == [reg EXCEPT !.policy[l] = policy]

IsFirst(S, l) == l \in S /\ \A k \in S : Rank[l] <= Rank[k]

Primaries(reg) == {l \in reg.connected : reg.policy[l].mode = "primary"}

(* The lane of a new turn: the first primary one, or else the first.        *)
IsDefault(reg, l) ==
  IF Primaries(reg) # {} THEN IsFirst(Primaries(reg), l) ELSE IsFirst(reg.connected, l)

-----------------------------------------------------------------------------
(* fallback_candidates, for a run that was selected on lane home when that  *)
(* lane was of the given group.                                             *)

Candidates(reg, home, ready) == {l \in reg.connected \ {home} : Engine[l] \in ready}

Kin(reg, home, group, ready) ==
  {l \in Candidates(reg, home, ready) : group # NoGroup /\ reg.policy[l].group = group}

(* Mutant: the lane that failed is a candidate like the others. *)
FallbacksAndHome(reg, home, group, ready) ==
  LET kin == {l \in reg.connected : Engine[l] \in ready /\ reg.policy[l].group = group} IN
  IF kin # {} THEN kin ELSE Candidates(reg, home, ready)

(* Those of the group if there are any, and else all of them. *)
Fallbacks(reg, home, group, ready) ==
  IF Kin(reg, home, group, ready) # {} THEN Kin(reg, home, group, ready)
  ELSE Candidates(reg, home, ready)

(* What the candidates are sorted by; of the fallbacks either all or none   *)
(* are of the group, so that criterion decides nothing.                     *)
SameEngine(home, l) == Engine[l] = Engine[home]

Ahead(reg, home, l, k) ==
  LET p == reg.policy[l]
      q == reg.policy[k]
  IN
  \/ SameEngine(home, l) /\ ~SameEngine(home, k)
  \/ /\ SameEngine(home, l) <=> SameEngine(home, k)
     /\ \/ p.priority > q.priority
        \/ /\ p.priority = q.priority
           /\ \/ p.mode = "primary" /\ q.mode # "primary"
              \/ (p.mode = "primary" <=> q.mode = "primary") /\ <<l, k>> \in reg.older

(* The lane of S a run asks next. *)
IsNext(reg, home, S, l) == l \in S /\ \A k \in S \ {l} : Ahead(reg, home, l, k)

=============================================================================
