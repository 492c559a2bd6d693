-------------------------- MODULE HouseMemoryProofs --------------------------
(***************************************************************************)
(* The distiller's set and channel keep what they were offered, a turn is  *)
(* transcribed once, rules are learned from the operator alone, and what   *)
(* waits for the distiller moves up.  For every number of sessions, runs   *)
(* and chats, every size of bands and window, and every choice of faults.  *)
(***************************************************************************)
EXTENDS HouseMemory, SequenceTheorems, WellFoundedInduction, TLAPS

-----------------------------------------------------------------------------
(* The newest of some turns or capsules.                                    *)

LEMMA NewestIsNewest ==
  ASSUME NEW n \in Nat, NEW S \in SUBSET (1..n), S # {}
  PROVE  Newest(S) \in S /\ \A j \in S : j <= Newest(S)
<1> DEFINE Before == OpToRel(<, Nat)
           T == {n - i : i \in S}
<1>1. T \subseteq Nat /\ T # {}
  <2>1. \A i \in S : n - i \in Nat
    OBVIOUS
  <2> QED
    BY <2>1
<1>2. PICK x \in T : \A y \in T : ~ (<<y, x>> \in Before)
  BY <1>1, NatLessThanWellFounded, WFMin
<1>3. \A y \in T : ~ (y < x)
  BY <1>1, <1>2 DEF OpToRel
<1>4. PICK i \in S : x = n - i
  OBVIOUS
<1>5. \A j \in S : j <= i
  BY <1>3, <1>4
<1> QED
  BY <1>5 DEF Newest

-----------------------------------------------------------------------------
(* A house: its registries, and what every transaction keeps of them.       *)

Shape(h) ==
  h \in [turns : Seq(Turns), capsules : Seq(Capsules),
         digest : [Sessions -> [Bands -> SUBSET Nat]], rules : Seq(Nat), mandala : Policies]

(* A capsule is of a turn of its own session, or of a chat; the operator's   *)
(* are the intents of turns the operator asked for.                         *)
Filed(h) ==
  \A i \in DOMAIN h.capsules :
    LET c == h.capsules[i] IN
    /\ c.turn # 0 => c.turn \in DOMAIN h.turns /\ h.turns[c.turn].session = c.session
    /\ c.kind = "transcript" => c.turn # 0
    /\ c.role = "operator" =>
         c.kind = "intent" /\ c.turn # 0 /\ h.turns[c.turn].by = "operator"

Transcribed(h) ==
  \A i, j \in DOMAIN h.capsules :
    /\ h.capsules[i].kind = "transcript" /\ h.capsules[j].kind = "transcript"
    /\ h.capsules[i].turn = h.capsules[j].turn
    => i = j

Learned(h) ==
  \A m, n \in DOMAIN h.rules :
    /\ h.rules[m] \in DOMAIN h.capsules /\ h.capsules[h.rules[m]].role = "operator"
    /\ m < n => h.rules[m] < h.rules[n]

Good(h) ==
  Shape(h) /\ Len(h.turns) <= MaxTurns /\ Filed(h) /\ Transcribed(h) /\ Learned(h)

(* The turns of g are those of h, and there may be more.                    *)
Extends(h, g) ==
  /\ DOMAIN h.turns \subseteq DOMAIN g.turns
  /\ \A t \in DOMAIN h.turns :
       g.turns[t].session = h.turns[t].session /\ g.turns[t].by = h.turns[t].by

(* Its capsules too, each in its place, in whatever band it is by now.      *)
Keeps(h, g) ==
  /\ Len(g.capsules) = Len(h.capsules)
  /\ \A i \in DOMAIN h.capsules :
       /\ g.capsules[i].session = h.capsules[i].session
       /\ g.capsules[i].turn = h.capsules[i].turn
       /\ g.capsules[i].role = h.capsules[i].role
       /\ g.capsules[i].kind = h.capsules[i].kind

-----------------------------------------------------------------------------
(* A refresh moves capsules between bands, writes checkpoints and learns at *)
(* most the newest capsule of the session, if the operator said it.         *)

LEMMA RebandKeeps ==
  ASSUME NEW h, Shape(h), NEW s \in Sessions
  PROVE  /\ Shape(Rebanded(h, s)) /\ Keeps(h, Rebanded(h, s))
         /\ Rebanded(h, s).turns = h.turns /\ Rebanded(h, s).rules = h.rules
<1> DEFINE g == Rebanded(h, s)
           new == [i \in DOMAIN h.capsules |->
                     IF i \in Of(h, s) THEN [h.capsules[i] EXCEPT !.band = BandOf(Of(h, s), i)]
                     ELSE h.capsules[i]]
<1>1. g = [h EXCEPT !.capsules = new]
  BY DEF Rebanded
<1>2. /\ h.capsules \in Seq(Capsules) /\ DOMAIN h.capsules = 1..Len(h.capsules)
      /\ Len(h.capsules) \in Nat
  BY DEF Shape
<1>3. ASSUME NEW i \in DOMAIN h.capsules
      PROVE  /\ new[i] \in Capsules /\ new[i].session = h.capsules[i].session
             /\ new[i].turn = h.capsules[i].turn /\ new[i].role = h.capsules[i].role
             /\ new[i].kind = h.capsules[i].kind
  <2>1. h.capsules[i] \in Capsules /\ BandOf(Of(h, s), i) \in Bands
    BY <1>2 DEF BandOf, Bands
  <2> QED
    BY <2>1 DEF Capsules
<1>4. new \in Seq(Capsules) /\ Len(new) = Len(h.capsules)
  <2>1. new \in [1..Len(h.capsules) -> Capsules]
    BY <1>2, <1>3
  <2> QED
    BY <1>2, <2>1
<1>5. g.capsules = new /\ g.turns = h.turns /\ g.rules = h.rules
  BY <1>1 DEF Shape
<1>6. Shape(g)
  BY <1>1, <1>4 DEF Shape
<1>7. Keeps(h, g)
  BY <1>3, <1>4, <1>5 DEF Keeps
<1> QED
  BY <1>5, <1>6, <1>7

LEMMA SummaryKeeps ==
  ASSUME NEW h, Shape(h), NEW s \in Sessions
  PROVE  /\ Shape(Summarized(h, s))
         /\ Summarized(h, s).turns = h.turns /\ Summarized(h, s).capsules = h.capsules
         /\ Summarized(h, s).rules = h.rules
<1> DEFINE new == [b \in Bands |-> Summary(h, s, b)]
<1>1. Of(h, s) \subseteq Nat
  BY DEF Of, Shape
<1>2. new \in [Bands -> SUBSET Nat]
  <2>1. ASSUME NEW b \in Bands PROVE Summary(h, s, b) \in SUBSET Nat
    BY <1>1 DEF Summary, Shape
  <2> QED
    BY <2>1
<1>3. Summarized(h, s) = [h EXCEPT !.digest = [h.digest EXCEPT ![s] = new]]
  BY DEF Summarized
<1> QED
  BY <1>2, <1>3 DEF Shape

LEMMA LastIsNewest ==
  ASSUME NEW h, Shape(h), NEW s, Len(h.capsules) > 0,
         h.capsules[Len(h.capsules)].session = s
  PROVE  Newest(Of(h, s)) = Len(h.capsules)
<1>1. Of(h, s) \in SUBSET (1..Len(h.capsules)) /\ Len(h.capsules) \in Nat
  BY DEF Of, Shape
<1>2. Len(h.capsules) \in Of(h, s)
  BY <1>1 DEF Of, Shape
<1>3. Newest(Of(h, s)) \in Of(h, s) /\ Len(h.capsules) <= Newest(Of(h, s))
  BY <1>1, <1>2, NewestIsNewest
<1> QED
  BY <1>1, <1>3

LEMMA RefreshKeeps ==
  ASSUME NEW h, Shape(h), NEW s \in Sessions, Len(h.capsules) > 0,
         h.capsules[Len(h.capsules)].session = s
  PROVE  /\ Shape(Refreshed(h, s)) /\ Keeps(h, Refreshed(h, s))
         /\ Refreshed(h, s).turns = h.turns
         /\ \/ Refreshed(h, s).rules = h.rules
            \/ /\ Refreshed(h, s).rules = Append(h.rules, Len(h.capsules))
               /\ h.capsules[Len(h.capsules)].role = "operator"
<1> DEFINE r == Rebanded(h, s)
           m == Summarized(r, s)
           n == Len(h.capsules)
<1>1. Shape(r) /\ Keeps(h, r) /\ r.turns = h.turns /\ r.rules = h.rules
  BY RebandKeeps
<1>2. Shape(m) /\ m.turns = h.turns /\ m.capsules = r.capsules /\ m.rules = h.rules
  BY <1>1, SummaryKeeps
<1>3. n \in Nat /\ n \in DOMAIN h.capsules
  BY DEF Shape
<1>4. /\ Len(m.capsules) = n /\ m.capsules[n].session = s
      /\ m.capsules[n].role = h.capsules[n].role /\ Keeps(h, m)
  BY <1>1, <1>2, <1>3 DEF Keeps
<1>5. Newest(Of(m, s)) = n
  BY <1>2, <1>3, <1>4, LastIsNewest
<1>6. Refreshed(h, s) = IF m.mandala = "promotes" /\ m.capsules[n].role = "operator"
                        THEN [m EXCEPT !.rules = Append(@, n)] ELSE m
  BY <1>5 DEF Refreshed, Promoted
<1>7. CASE Refreshed(h, s) = m
  BY <1>2, <1>4, <1>7
<1>8. CASE Refreshed(h, s) = [m EXCEPT !.rules = Append(@, n)] /\ m.capsules[n].role = "operator"
  <2>1. Append(m.rules, n) \in Seq(Nat)
    BY <1>2, <1>3 DEF Shape
  <2> DEFINE g == [m EXCEPT !.rules = Append(@, n)]
  <2>2. Shape(g) /\ g.rules = Append(m.rules, n) /\ g.turns = m.turns /\ g.capsules = m.capsules
    BY <1>2, <2>1 DEF Shape
  <2>3. Keeps(h, g)
    BY <1>4, <2>2 DEF Keeps
  <2> QED
    BY <1>2, <1>4, <1>8, <2>2, <2>3
<1> QED
  BY <1>6, <1>7, <1>8

LEMMA GoodTyped ==
  ASSUME NEW h, Good(h)
  PROVE  HouseType(h)
<1>1. \A i \in DOMAIN h.capsules : h.capsules[i].turn = 0 \/ h.capsules[i].turn \in 1..Len(h.turns)
  BY DEF Good, Filed, Shape
<1>2. Len(h.turns) \in Nat
  BY DEF Good, Shape
<1>3. \A i \in DOMAIN h.capsules : h.capsules[i].turn <= Len(h.turns)
  BY <1>1, <1>2
<1> QED
  BY <1>3 DEF Good, Shape, HouseType

LEMMA TurnTyped ==
  ASSUME NEW h, Good(h), NEW t \in DOMAIN h.turns
  PROVE  h.turns[t] \in Turns /\ h.turns[t].session \in Sessions /\ t \in 1..MaxTurns
<1>1. h.turns \in Seq(Turns) /\ Len(h.turns) <= MaxTurns /\ MaxTurns \in Nat
  BY MemoryAssumption DEF Good, Shape
<1>2. h.turns[t] \in Turns /\ DOMAIN h.turns = 1..Len(h.turns) /\ Len(h.turns) \in Nat
  BY <1>1
<1> QED
  BY <1>1, <1>2 DEF Turns

(* What was learned is older than the newest capsule.                       *)
Fresher(h) == \A m \in DOMAIN h.rules : h.rules[m] < Len(h.capsules)

LEMMA RefreshGood ==
  ASSUME NEW h, Good(h), NEW s \in Sessions, Len(h.capsules) > 0,
         h.capsules[Len(h.capsules)].session = s, Fresher(h)
  PROVE  /\ Good(Refreshed(h, s)) /\ Refreshed(h, s).turns = h.turns
         /\ Keeps(h, Refreshed(h, s))
<1> DEFINE g == Refreshed(h, s)
           n == Len(h.capsules)
<1>1. /\ Shape(g) /\ Keeps(h, g) /\ g.turns = h.turns
      /\ \/ g.rules = h.rules
         \/ g.rules = Append(h.rules, n) /\ h.capsules[n].role = "operator"
  BY RefreshKeeps DEF Good
<1>2. /\ DOMAIN g.capsules = DOMAIN h.capsules /\ n \in DOMAIN h.capsules /\ n \in Nat
  BY <1>1 DEF Keeps, Shape, Good
<1>3. Filed(g)
  BY <1>1, <1>2 DEF Good, Filed, Keeps
<1>4. Transcribed(g)
  BY <1>1, <1>2 DEF Good, Transcribed, Keeps
<1>5. Learned(g)
  <2>1. CASE g.rules = h.rules
    BY <1>1, <1>2, <2>1 DEF Good, Learned, Keeps
  <2>2. CASE g.rules = Append(h.rules, n) /\ h.capsules[n].role = "operator"
    <3>1. h.rules \in Seq(Nat)
      BY DEF Good, Shape
    <3>2. /\ DOMAIN g.rules = DOMAIN h.rules \cup {Len(h.rules) + 1}
          /\ g.rules[Len(h.rules) + 1] = n /\ Len(h.rules) \in Nat
          /\ \A m \in DOMAIN h.rules : g.rules[m] = h.rules[m] /\ m < Len(h.rules) + 1
      BY <2>2, <3>1
    <3>3. ASSUME NEW m \in DOMAIN g.rules
          PROVE  g.rules[m] \in DOMAIN g.capsules /\ g.capsules[g.rules[m]].role = "operator"
      <4>1. CASE m \in DOMAIN h.rules
        BY <1>1, <1>2, <3>2, <4>1 DEF Good, Learned, Keeps
      <4>2. CASE m = Len(h.rules) + 1
        BY <1>1, <1>2, <2>2, <3>2, <4>2 DEF Keeps
      <4> QED
        BY <3>2, <4>1, <4>2
    <3>4. ASSUME NEW m \in DOMAIN g.rules, NEW o \in DOMAIN g.rules, m < o
          PROVE  g.rules[m] < g.rules[o]
      <4>1. m \in DOMAIN h.rules
        <5>1. CASE m = Len(h.rules) + 1
          <6>1. o <= Len(h.rules) + 1
            BY <3>1, <3>2
          <6> QED
            BY <3>1, <3>2, <3>4, <5>1, <6>1
        <5> QED
          BY <3>2, <5>1
      <4>2. CASE o \in DOMAIN h.rules
        BY <3>2, <3>4, <4>1, <4>2 DEF Good, Learned
      <4>3. CASE o = Len(h.rules) + 1
        BY <3>2, <4>1, <4>3 DEF Fresher
      <4> QED
        BY <3>2, <4>2, <4>3
    <3> QED
      BY <3>3, <3>4 DEF Learned
  <2> QED
    BY <1>1, <2>1, <2>2
<1> QED
  BY <1>1, <1>3, <1>4, <1>5 DEF Good

-----------------------------------------------------------------------------
(* What the handlers do to a house leaves it good.                          *)

TurnStatuses == {"queued", "waiting", "running", "done"}

LEMMA MarkGood ==
  ASSUME NEW h, Good(h), NEW t \in DOMAIN h.turns, NEW st \in TurnStatuses
  PROVE  /\ Good(Marked(h, t, st)) /\ Extends(h, Marked(h, t, st))
         /\ Marked(h, t, st).turns[t].session = h.turns[t].session
         /\ Marked(h, t, st).capsules = h.capsules /\ Marked(h, t, st).rules = h.rules
<1> DEFINE new == Turn(h.turns[t].session, h.turns[t].by, st,
                       h.turns[t].gated \/ st = "waiting")
           g == Marked(h, t, st)
<1>1. h.turns \in Seq(Turns) /\ h.turns[t] \in Turns
  BY DEF Good, Shape
<1>2. new \in Turns /\ new.session = h.turns[t].session /\ new.by = h.turns[t].by
  BY <1>1 DEF Turn, Turns, TurnStatuses
<1>3. g = [h EXCEPT !.turns = [h.turns EXCEPT ![t] = new]]
  BY DEF Marked
<1>4. [h.turns EXCEPT ![t] = new] \in Seq(Turns) /\ Len([h.turns EXCEPT ![t] = new]) = Len(h.turns)
  BY <1>1, <1>2
<1>5. /\ Shape(g) /\ g.turns = [h.turns EXCEPT ![t] = new]
      /\ g.capsules = h.capsules /\ g.rules = h.rules
  BY <1>3, <1>4 DEF Good, Shape
<1>6. Extends(h, g) /\ DOMAIN g.turns = DOMAIN h.turns
  BY <1>1, <1>2, <1>4, <1>5 DEF Extends
<1>7. Filed(g)
  BY <1>5, <1>6 DEF Good, Filed, Extends
<1> QED
  BY <1>2, <1>4, <1>5, <1>6, <1>7 DEF Good, Transcribed, Learned, Extends

(* A capsule is added that is no transcript.                                *)
LEMMA RememberGood ==
  ASSUME NEW h, Good(h), NEW c \in Capsules, c.kind # "transcript",
         c.turn # 0 => c.turn \in DOMAIN h.turns /\ h.turns[c.turn].session = c.session,
         c.role = "operator" => c.kind = "intent" /\ c.turn # 0 /\ h.turns[c.turn].by = "operator"
  PROVE  LET g == Remember(h, c) IN
         /\ Good(g) /\ g.turns = h.turns /\ Fresher(g) /\ Len(g.capsules) > 0
         /\ g.capsules[Len(g.capsules)] = c
<1> DEFINE g == Remember(h, c)
           n == Len(h.capsules)
<1>1. h.capsules \in Seq(Capsules) /\ n \in Nat /\ DOMAIN h.capsules = 1..n
  BY DEF Good, Shape
<1>2. /\ Shape(g) /\ g.turns = h.turns /\ g.rules = h.rules
      /\ g.capsules = Append(h.capsules, c)
  <2>1. Append(h.capsules, c) \in Seq(Capsules)
    BY <1>1
  <2>2. g = [h EXCEPT !.capsules = Append(h.capsules, c)]
    BY DEF Remember
  <2> QED
    BY <2>1, <2>2 DEF Good, Shape
<1>3. /\ DOMAIN g.capsules = DOMAIN h.capsules \cup {n + 1} /\ Len(g.capsules) = n + 1
      /\ g.capsules[n + 1] = c /\ \A i \in DOMAIN h.capsules : g.capsules[i] = h.capsules[i]
  BY <1>1, <1>2
<1>4. Filed(g)
  BY <1>2, <1>3 DEF Good, Filed
<1>5. Transcribed(g)
  BY <1>2, <1>3 DEF Good, Transcribed
<1>6. Learned(g)
  BY <1>2, <1>3 DEF Good, Learned
<1>7. Fresher(g)
  BY <1>1, <1>2, <1>3 DEF Good, Learned, Fresher
<1> QED
  BY <1>1, <1>2, <1>3, <1>4, <1>5, <1>6, <1>7 DEF Good

LEMMA QueueGood ==
  ASSUME NEW h, Good(h), NEW s \in Sessions, NEW by \in {"operator", "house"},
         Len(h.turns) < MaxTurns
  PROVE  Good(Queued(h, s, by)) /\ Extends(h, Queued(h, s, by))
<1> DEFINE t == Len(h.turns) + 1
           role == IF by = "house" THEN "distiller" ELSE "operator"
           new == Turn(s, by, "queued", FALSE)
           started == [h EXCEPT !.turns = Append(@, new)]
           c == Capsule(s, t, role, "intent", "hot")
           g == Remember(started, c)
<1>0. new \in Turns /\ new.session = s /\ new.by = by
  BY DEF Turn, Turns
<1> HIDE DEF new
<1>1. h.turns \in Seq(Turns) /\ Len(h.turns) \in Nat /\ MaxTurns \in Nat
  BY MemoryAssumption DEF Good, Shape
<1>2. /\ Shape(started) /\ started.turns = Append(h.turns, new)
      /\ started.capsules = h.capsules /\ started.rules = h.rules
  <2>1. Append(h.turns, new) \in Seq(Turns)
    BY <1>0, <1>1
  <2> QED
    BY <2>1 DEF Good, Shape
<1>3. /\ DOMAIN started.turns = DOMAIN h.turns \cup {t} /\ Len(started.turns) = t
      /\ started.turns[t] = new
      /\ \A u \in DOMAIN h.turns : started.turns[u] = h.turns[u]
  BY <1>0, <1>1, <1>2
<1>4. Filed(started)
  BY <1>2, <1>3 DEF Good, Filed
<1>5. Good(started)
  BY <1>1, <1>2, <1>3, <1>4 DEF Good, Transcribed, Learned
<1>6. c \in Capsules
  BY <1>1 DEF Capsule, Capsules, Roles, Kinds, Bands
<1>7. Good(g) /\ g.turns = started.turns /\ Fresher(g) /\ Len(g.capsules) > 0
      /\ g.capsules[Len(g.capsules)].session = s
  <2>1. /\ c.session = s /\ c.turn = t /\ c.role = role /\ c.kind = "intent"
        /\ started.turns[t].session = s /\ started.turns[t].by = by
        /\ t \in DOMAIN started.turns
        /\ role = "operator" => by = "operator"
    BY <1>0, <1>3 DEF Capsule
  <2> HIDE DEF started, c, t, role
  <2>2. /\ c.kind # "transcript"
        /\ c.turn # 0 => c.turn \in DOMAIN started.turns /\ started.turns[c.turn].session = c.session
        /\ c.role = "operator" => started.turns[c.turn].by = "operator"
    BY <2>1
  <2>3. c.turn # 0
    BY <1>1, <2>1 DEF t
  <2>4. /\ Good(Remember(started, c)) /\ Remember(started, c).turns = started.turns
        /\ Fresher(Remember(started, c)) /\ Len(Remember(started, c).capsules) > 0
        /\ Remember(started, c).capsules[Len(Remember(started, c).capsules)] = c
    BY <1>5, <1>6, <2>1, <2>2, <2>3, RememberGood
  <2> QED
    BY <2>1, <2>4
<1>8. Good(Refreshed(g, s)) /\ Refreshed(g, s).turns = started.turns
  BY <1>7, RefreshGood
<1>9. Queued(h, s, by) = Refreshed(g, s)
  BY DEF Queued, new
<1> QED
  BY <1>3, <1>8, <1>9 DEF Extends

LEMMA AnswerGood ==
  ASSUME NEW h, Good(h), NEW t \in DOMAIN h.turns
  PROVE  Good(Answered(h, t)) /\ Extends(h, Answered(h, t))
<1> DEFINE s == h.turns[t].session
           m == Marked(h, t, "done")
           c == Capsule(s, t, "assistant", "answer", "hot")
           g == Remember(m, c)
<1>1. Good(m) /\ Extends(h, m) /\ m.turns[t].session = s /\ t \in DOMAIN m.turns
  BY MarkGood DEF TurnStatuses, Extends
<1>2. s \in Sessions /\ t \in 1..MaxTurns
  BY TurnTyped
<1>3. c \in Capsules
  BY <1>2 DEF Capsule, Capsules, Roles, Kinds, Bands
<1>4. Good(g) /\ g.turns = m.turns /\ Fresher(g) /\ Len(g.capsules) > 0
      /\ g.capsules[Len(g.capsules)].session = s
  BY <1>1, <1>3, RememberGood DEF Capsule
<1>5. Good(Refreshed(g, s)) /\ Refreshed(g, s).turns = m.turns
  BY <1>2, <1>4, RefreshGood
<1>6. Answered(h, t) = Refreshed(g, s)
  BY DEF Answered
<1> QED
  BY <1>1, <1>5, <1>6 DEF Extends

(* A transcript is the first of its notes and the only one.                 *)
Memoir(q) ==
  /\ q \in Seq(Kinds) /\ Len(q) > 0 /\ q[1] = "transcript"
  /\ \A n \in DOMAIN q : n # 1 => q[n] # "transcript"

LEMMA MoreNotes ==
  ASSUME NEW q, Memoir(q), NEW r \in Seq(Kinds \ {"transcript"})
  PROVE  Memoir(q \o r)
<1>1. q \in Seq(Kinds) /\ r \in Seq(Kinds)
      /\ DOMAIN q = 1..Len(q) /\ Len(q) \in Nat /\ DOMAIN r = 1..Len(r) /\ Len(r) \in Nat
  BY DEF Memoir
<1>2. q \o r \in Seq(Kinds) /\ Len(q \o r) = Len(q) + Len(r)
  BY <1>1
<1>3. ASSUME NEW n \in 1..(Len(q) + Len(r))
      PROVE  (q \o r)[n] = IF n <= Len(q) THEN q[n] ELSE r[n - Len(q)]
  BY <1>1
<1>4. ASSUME NEW n \in DOMAIN (q \o r), n # 1 PROVE (q \o r)[n] # "transcript"
  <2>1. n \in 1..(Len(q) + Len(r))
    BY <1>2
  <2>2. CASE n <= Len(q)
    BY <1>1, <1>3, <1>4, <2>1, <2>2 DEF Memoir
  <2>3. CASE ~(n <= Len(q))
    <3>1. n - Len(q) \in DOMAIN r
      BY <1>1, <2>1, <2>3
    <3>2. r[n - Len(q)] \in Kinds \ {"transcript"}
      BY <3>1
    <3> QED
      BY <1>3, <2>1, <2>3, <3>2
  <2> QED
    BY <2>2, <2>3
<1> QED
  BY <1>1, <1>2, <1>3, <1>4 DEF Memoir

LEMMA NotesAreMemoir ==
  ASSUME NEW h, NEW S, NEW said \in Said
  PROVE  Memoir(Notes(h, S, said))
<1> DEFINE Some(role) == \E i \in S : h.capsules[i].role = role
           a == IF Cardinality(S) >= 2 THEN <<"episode">> ELSE << >>
           b == IF Some("operator") THEN <<"directive">> ELSE << >>
           c == IF Some("assistant") THEN said ELSE << >>
           Others == Kinds \ {"transcript"}
<1>1. a \in Seq(Others) /\ b \in Seq(Others)
  BY DEF Kinds
<1>2. c \in Seq(Others)
  <2>1. said \in {<< >>, <<"promise">>, <<"decision">>, <<"promise", "decision">>}
    BY DEF Said
  <2>2. "promise" \in Others /\ "decision" \in Others
    BY DEF Kinds
  <2> HIDE DEF Others
  <2>3. /\ << >> \in Seq(Others) /\ <<"promise">> \in Seq(Others)
        /\ <<"decision">> \in Seq(Others) /\ <<"promise", "decision">> \in Seq(Others)
    BY <2>2
  <2>4. said \in Seq(Others)
    BY <2>1, <2>3
  <2> QED
    BY <2>3, <2>4
<1>3. Memoir(<<"transcript">>)
  BY DEF Memoir, Kinds
<1>4. Notes(h, S, said) = ((<<"transcript">> \o a) \o b) \o c
  BY DEF Notes
<1> HIDE DEF a, b, c
<1> QED
  BY <1>1, <1>2, <1>3, <1>4, MoreNotes

LEMMA NotedGood ==
  ASSUME NEW h, Good(h), NEW s \in Sessions, NEW t \in TurnsOf(h, s), ~HasTranscript(h, s, t),
         NEW notes, Memoir(notes)
  PROVE  LET g == Noted(h, s, t, notes) IN
         /\ Good(g) /\ g.turns = h.turns /\ Fresher(g) /\ Len(g.capsules) > 0
         /\ g.capsules[Len(g.capsules)].session = s
<1> DEFINE n == Len(h.capsules)
           k == Len(notes)
           more == [j \in 1..k |-> Capsule(s, t, "distiller", notes[j], "warm")]
           g == Noted(h, s, t, notes)
<1>1. /\ h.capsules \in Seq(Capsules) /\ n \in Nat /\ DOMAIN h.capsules = 1..n
      /\ k \in Nat /\ k > 0 /\ DOMAIN notes = 1..k /\ notes \in Seq(Kinds)
      /\ t \in DOMAIN h.turns /\ h.turns[t].session = s /\ t \in 1..MaxTurns
  <2>1. h.turns \in Seq(Turns) /\ Len(h.turns) <= MaxTurns /\ MaxTurns \in Nat
        /\ t \in DOMAIN h.turns /\ h.turns[t].session = s
    BY MemoryAssumption DEF Good, Shape, TurnsOf
  <2>2. DOMAIN h.turns = 1..Len(h.turns) /\ Len(h.turns) \in Nat
    BY <2>1
  <2> QED
    BY <2>1, <2>2 DEF Good, Shape, Memoir
<1>2. ASSUME NEW j \in 1..k
      PROVE  /\ more[j] \in Capsules /\ more[j].session = s /\ more[j].turn = t
             /\ more[j].role = "distiller" /\ more[j].kind = notes[j]
  <2>1. notes[j] \in Kinds
    BY <1>1
  <2> QED
    BY <1>1, <2>1 DEF Capsule, Capsules, Roles, Bands
<1>3. more \in Seq(Capsules) /\ Len(more) = k
  <2>1. more \in [1..k -> Capsules]
    BY <1>2
  <2> QED
    BY <1>1, <2>1
<1> HIDE DEF more
<1>4. /\ h.capsules \o more \in Seq(Capsules) /\ Len(h.capsules \o more) = n + k
      /\ \A i \in 1..n : (h.capsules \o more)[i] = h.capsules[i]
      /\ \A j \in 1..k : (h.capsules \o more)[n + j] = more[j]
  BY <1>1, <1>3
<1>5. /\ g.capsules = h.capsules \o more /\ g.turns = h.turns /\ g.rules = h.rules
      /\ Shape(g)
  <2>1. g = [h EXCEPT !.capsules = h.capsules \o more]
    BY DEF Noted, more
  <2> QED
    BY <1>4, <2>1 DEF Good, Shape
<1>6. DOMAIN g.capsules = 1..(n + k)
  BY <1>1, <1>4, <1>5
<1>7. ASSUME NEW i \in 1..(n + k)
      PROVE  \/ i \in 1..n /\ g.capsules[i] = h.capsules[i]
             \/ \E j \in 1..k : i = n + j /\ g.capsules[i] = more[j]
  <2>1. CASE i \in 1..n
    BY <1>4, <1>5, <2>1
  <2>2. CASE i \notin 1..n
    <3>1. i - n \in 1..k /\ i = n + (i - n)
      BY <1>1, <2>2
    <3> QED
      BY <1>4, <1>5, <3>1
  <2> QED
    BY <2>1, <2>2
<1>8. Filed(g)
  <2> SUFFICES ASSUME NEW i \in 1..(n + k)
               PROVE  LET c == g.capsules[i] IN
                      /\ c.turn # 0 => c.turn \in DOMAIN h.turns /\ h.turns[c.turn].session = c.session
                      /\ c.kind = "transcript" => c.turn # 0
                      /\ c.role = "operator" =>
                           c.kind = "intent" /\ c.turn # 0 /\ h.turns[c.turn].by = "operator"
    BY <1>5, <1>6 DEF Filed
  <2>1. CASE i \in 1..n /\ g.capsules[i] = h.capsules[i]
    BY <1>1, <2>1 DEF Good, Filed
  <2>2. ASSUME NEW j \in 1..k, g.capsules[i] = more[j] PROVE
                      LET c == g.capsules[i] IN
                      /\ c.turn # 0 => c.turn \in DOMAIN h.turns /\ h.turns[c.turn].session = c.session
                      /\ c.kind = "transcript" => c.turn # 0
                      /\ c.role = "operator" =>
                           c.kind = "intent" /\ c.turn # 0 /\ h.turns[c.turn].by = "operator"
    BY <1>1, <1>2, <2>2
  <2> QED
    BY <1>7, <2>1, <2>2
<1>9. Transcribed(g)
  <2>1. ASSUME NEW i \in 1..n, h.capsules[i].kind = "transcript" PROVE h.capsules[i].turn # t
    BY <1>1, <2>1 DEF Good, Filed, HasTranscript, Of
  <2>2. ASSUME NEW j \in 1..k, more[j].kind = "transcript" PROVE j = 1
    BY <1>1, <1>2, <2>2 DEF Memoir
  <2> SUFFICES ASSUME NEW i \in 1..(n + k), NEW j \in 1..(n + k),
                      g.capsules[i].kind = "transcript", g.capsules[j].kind = "transcript",
                      g.capsules[i].turn = g.capsules[j].turn
               PROVE  i = j
    BY <1>6 DEF Transcribed
  <2>3. CASE i \in 1..n /\ j \in 1..n
    <3>1. g.capsules[i] = h.capsules[i] /\ g.capsules[j] = h.capsules[j]
      BY <1>4, <1>5, <2>3
    <3>2. h.capsules[i].turn = h.capsules[j].turn
      BY <3>1
    <3>3. h.capsules[i].kind = "transcript" /\ h.capsules[j].kind = "transcript"
      BY <3>1
    <3> QED
      BY <1>1, <2>3, <3>2, <3>3 DEF Good, Transcribed
  <2>4. CASE i \notin 1..n /\ j \notin 1..n
    <3>1. PICK x \in 1..k : i = n + x /\ g.capsules[i] = more[x]
      BY <1>7, <2>4
    <3>2. PICK y \in 1..k : j = n + y /\ g.capsules[j] = more[y]
      BY <1>7, <2>4
    <3>3. x = 1 /\ y = 1
      BY <2>2, <3>1, <3>2
    <3> QED
      BY <3>1, <3>2, <3>3
  <2>5. ASSUME NEW x \in 1..n, NEW y \in 1..(n + k), y \notin 1..n,
               g.capsules[x].kind = "transcript", g.capsules[x].turn = g.capsules[y].turn
        PROVE  FALSE
    <3>1. g.capsules[x] = h.capsules[x]
      BY <1>4, <1>5
    <3>2. PICK z \in 1..k : g.capsules[y] = more[z]
      BY <1>7, <2>5
    <3>3. g.capsules[y].turn = t
      BY <1>2, <3>2
    <3>4. h.capsules[x].turn # t
      BY <2>1, <2>5, <3>1
    <3> QED
      BY <2>5, <3>1, <3>3, <3>4
  <2> QED
    BY <2>3, <2>4, <2>5
<1>10. Learned(g) /\ Fresher(g)
  <2>1. \A m \in DOMAIN h.rules : h.rules[m] \in 1..n
    BY <1>1 DEF Good, Learned
  <2> QED
    BY <1>1, <1>4, <1>5, <1>6, <2>1 DEF Good, Learned, Fresher
<1>11. g.capsules[Len(g.capsules)].session = s
  <2>1. Len(g.capsules) = n + k /\ k \in 1..k
    BY <1>1, <1>4, <1>5
  <2> QED
    BY <1>2, <1>4, <1>5, <2>1
<1> QED
  BY <1>1, <1>4, <1>5, <1>8, <1>9, <1>10, <1>11 DEF Good

LEMMA DistillGood ==
  ASSUME NEW h, Good(h), NEW s \in Sessions, NEW t \in TurnsOf(h, s), ~HasTranscript(h, s, t),
         NEW said \in Said
  PROVE  Good(Distilled(h, s, t, said)) /\ Extends(h, Distilled(h, s, t, said))
<1> DEFINE notes == Notes(h, Recent(h, s), said)
           g == Noted(h, s, t, notes)
<1>1. Memoir(notes)
  BY NotesAreMemoir
<1> HIDE DEF notes
<1>2. /\ Good(g) /\ g.turns = h.turns /\ Fresher(g) /\ Len(g.capsules) > 0
      /\ g.capsules[Len(g.capsules)].session = s
  BY <1>1, NotedGood
<1> HIDE DEF g
<1>3. Good(Refreshed(g, s)) /\ Refreshed(g, s).turns = h.turns
  BY <1>2, RefreshGood
<1>4. Distilled(h, s, t, said) = Refreshed(g, s)
  BY DEF Distilled, g, notes
<1> QED
  BY <1>3, <1>4 DEF Extends

-----------------------------------------------------------------------------
(* The house and its copy on disk are good; runs, offers and the worker are *)
(* of sessions that have a turn.                                            *)

HasTurn(s) == \E t \in DOMAIN house.turns : house.turns[t].session = s

MemInv ==
  /\ TypeOK /\ Good(house) /\ Good(disk)
  /\ OffersAreKept /\ AnswersAreAwaited
  /\ \A s \in pending : HasTurn(s)

LEMMA EmptyGood == Good(EmptyHouse)
<1> DEFINE h == EmptyHouse
<1>1. /\ h.turns = << >> /\ h.capsules = << >> /\ h.rules = << >>
      /\ DOMAIN h.turns = {} /\ DOMAIN h.capsules = {} /\ DOMAIN h.rules = {}
  BY DEF EmptyHouse
<1>2. Shape(h)
  BY DEF EmptyHouse, Shape, Policies
<1>3. Len(h.turns) <= MaxTurns
  BY <1>1, MemoryAssumption
<1> QED
  BY <1>1, <1>2, <1>3 DEF Good, Filed, Transcribed, Learned

LEMMA MemInit == Init => MemInv
<1> SUFFICES ASSUME Init PROVE MemInv
  OBVIOUS
<1>1. Good(house) /\ Good(disk)
  BY EmptyGood DEF Init
<1>2. Resting \in RunnerStates /\ Waiting \in WorkerStates
  BY MemoryAssumption DEF Resting, RunnerStates, Waiting, WorkerStates
<1>3. TypeOK
  BY <1>1, <1>2, GoodTyped DEF Init, TypeOK
<1>4. \A s \in Sessions, r \in Runners : ~Sending(r, s) /\ ~Holds(s)
  BY DEF Init, Sending, At, Holds, Resting, Waiting
<1>5. OffersAreKept /\ AnswersAreAwaited
  BY <1>4 DEF Init, OffersAreKept, AnswersAreAwaited, Holds, Waiting
<1> QED
  BY <1>1, <1>3, <1>5 DEF Init, MemInv

(* A transaction keeps the house good, on disk too; everything the rest of  *)
(* the model says of turns it says of the same turns.                       *)
LEMMA HouseStep ==
  ASSUME MemInv, Good(house'), Extends(house, house'), disk' \in {disk, house'}
  PROVE  /\ HouseType(house') /\ HouseType(disk') /\ Good(disk')
         /\ DOMAIN house.turns \subseteq DOMAIN house'.turns
         /\ \A t \in DOMAIN house.turns : house'.turns[t].session = house.turns[t].session
         /\ \A s : HasTurn(s) => HasTurn(s)'
<1>1. Good(disk')
  BY DEF MemInv
<1> QED
  BY <1>1, GoodTyped DEF HasTurn, Extends

(* The runs, the set, the channel and the worker stay as they are.          *)
LEMMA StillInv ==
  ASSUME MemInv, Good(house'), Extends(house, house'), disk' \in {disk, house'},
         UNCHANGED <<runner, pending, queue, worker, owed>>,
         chat' \in [Chats -> {"open", "asked"}]
  PROVE  MemInv'
<1>1. /\ HouseType(house') /\ HouseType(disk') /\ Good(disk')
      /\ DOMAIN house.turns \subseteq DOMAIN house'.turns
      /\ \A t \in DOMAIN house.turns : house'.turns[t].session = house.turns[t].session
      /\ \A s : HasTurn(s) => HasTurn(s)'
  BY HouseStep
<1>2. \A r \in Runners : runner[r].pc # "idle" => runner[r].turn \in DOMAIN house.turns
  BY DEF MemInv, TypeOK, Resting
<1>3. TypeOK'
  BY <1>1 DEF MemInv, TypeOK
<1>4. \A r \in Runners, s \in Sessions : Sending(r, s)' <=> Sending(r, s)
  BY <1>1, <1>2 DEF Sending, At, SessionOf
<1>5. \A r \in Runners : At(r, "offering") => SessionOf(r)' = SessionOf(r)
  BY <1>1, <1>2 DEF At, SessionOf
<1>6. OffersAreKept'
  BY <1>4 DEF MemInv, OffersAreKept, Holds
<1>7. AnswersAreAwaited'
  BY <1>1, <1>5 DEF MemInv, TypeOK, AnswersAreAwaited, Looked, At
<1> QED
  BY <1>1, <1>3, <1>6, <1>7 DEF MemInv

LEMMA SameExtends == ASSUME NEW h PROVE Extends(h, h)
BY DEF Extends

(* A run starts or ends; nobody has offered anything of it yet.             *)
LEMMA RunInv ==
  ASSUME MemInv, Good(house'), Extends(house, house'), disk' \in {disk, house'},
         NEW r \in Runners, runner[r].pc \in {"idle", "running"},
         NEW y \in RunnerStates, y.pc # "sending", y = Resting \/ y.turn \in DOMAIN house.turns,
         runner' = [runner EXCEPT ![r] = y], UNCHANGED <<chat, pending, queue, worker>>,
         owed' = owed \/ (y.pc = "offering" /\ y # Resting /\ owed' = owed \cup {y.turn})
  PROVE  MemInv'
<1>1. /\ HouseType(house') /\ HouseType(disk') /\ Good(disk')
      /\ DOMAIN house.turns \subseteq DOMAIN house'.turns
      /\ \A t \in DOMAIN house.turns : house'.turns[t].session = house.turns[t].session
      /\ \A s : HasTurn(s) => HasTurn(s)'
  BY HouseStep
<1>2. /\ runner \in [Runners -> RunnerStates]
      /\ \A q \in Runners : runner[q].pc # "idle" => runner[q].turn \in DOMAIN house.turns
  BY DEF MemInv, TypeOK, Resting
<1>3. runner'[r] = y /\ \A q \in Runners \ {r} : runner'[q] = runner[q]
  BY <1>2
<1>4. TypeOK'
  <2>1. runner' \in [Runners -> RunnerStates]
    BY <1>2
  <2>2. owed' \subseteq DOMAIN house'.turns
    BY <1>1 DEF MemInv, TypeOK
  <2>3. \A q \in Runners : runner'[q] # Resting => runner'[q].turn \in DOMAIN house'.turns
    BY <1>1, <1>3 DEF MemInv, TypeOK
  <2> QED
    BY <1>1, <2>1, <2>2, <2>3 DEF MemInv, TypeOK
<1>5. \A q \in Runners, s \in Sessions : Sending(q, s)' <=> Sending(q, s)
  BY <1>1, <1>2, <1>3 DEF Sending, At, SessionOf
<1>6. OffersAreKept'
  BY <1>5 DEF MemInv, OffersAreKept, Holds
<1>7. AnswersAreAwaited'
  <2> SUFFICES ASSUME NEW t \in owed'
               PROVE  LET s == house'.turns[t].session IN
                      \/ s \in pending /\ ~Looked(s)
                      \/ \E q \in Runners : At(q, "offering")' /\ SessionOf(q)' = s
    BY DEF AnswersAreAwaited, Looked
  <2>1. CASE t \in owed
    <3>1. t \in DOMAIN house.turns /\ house'.turns[t].session = house.turns[t].session
      BY <1>1, <2>1 DEF MemInv, TypeOK
    <3>2. CASE house.turns[t].session \in pending /\ ~Looked(house.turns[t].session)
      BY <3>1, <3>2
    <3>3. ASSUME NEW q \in Runners, At(q, "offering"), SessionOf(q) = house.turns[t].session
          PROVE  At(q, "offering")' /\ SessionOf(q)' = house'.turns[t].session
      BY <1>1, <1>2, <1>3, <3>1, <3>3 DEF At, SessionOf
    <3> QED
      BY <2>1, <3>2, <3>3 DEF MemInv, AnswersAreAwaited
  <2>2. CASE t \notin owed
    BY <1>3, <2>2 DEF At, SessionOf
  <2> QED
    BY <2>1, <2>2
<1> QED
  BY <1>1, <1>4, <1>6, <1>7 DEF MemInv

(* The two steps of an offer.                                               *)
LEMMA OfferInv ==
  ASSUME MemInv, NEW r \in Runners, Offer(r)
  PROVE  MemInv'
<1> DEFINE s == SessionOf(r)
<1>1. /\ At(r, "offering") /\ runner \in [Runners -> RunnerStates]
      /\ runner[r].turn \in DOMAIN house.turns
      /\ UNCHANGED <<house, disk, chat, queue, worker>>
  BY DEF Offer, At, MemInv, TypeOK, Resting
<1>2. s \in Sessions /\ HasTurn(s)
  BY <1>1, TurnTyped DEF MemInv, SessionOf, HasTurn
<1>3. \A q \in Runners : SessionOf(q)' = IF q = r /\ runner'[r] = Resting THEN SessionOf(q)' ELSE SessionOf(q)
  BY <1>1 DEF Offer, SessionOf, Rests, Goes
<1>4. CASE s \in pending
  <2>1. /\ runner' = [runner EXCEPT ![r] = Resting] /\ pending' = pending
        /\ owed' = IF Looked(s) THEN owed \ OwedBy(s) ELSE owed
    BY <1>4 DEF Offer, Rests
  <2>2. \A q \in Runners, x \in Sessions : Sending(q, x)' <=> Sending(q, x)
    BY <1>1, <2>1 DEF Sending, At, SessionOf, Resting
  <2>3. OffersAreKept'
    BY <1>1, <2>1, <2>2 DEF MemInv, OffersAreKept, Holds
  <2>4. TypeOK'
    <3>1. Resting \in RunnerStates
      BY MemoryAssumption DEF Resting, RunnerStates
    <3>2. owed' \subseteq DOMAIN house.turns
      BY <2>1 DEF MemInv, TypeOK
    <3> QED
      BY <1>1, <2>1, <3>1, <3>2 DEF MemInv, TypeOK
  <2>5. AnswersAreAwaited'
    <3> SUFFICES ASSUME NEW t \in owed'
                 PROVE  LET x == house.turns[t].session IN
                        \/ x \in pending' /\ ~Looked(x)'
                        \/ \E q \in Runners : At(q, "offering")' /\ SessionOf(q)' = x
      BY <1>1 DEF AnswersAreAwaited
    <3>1. t \in owed /\ (Looked(s) => house.turns[t].session # s)
      BY <2>1 DEF OwedBy
    <3>2. CASE house.turns[t].session = s
      BY <1>1, <1>4, <2>1, <3>1, <3>2 DEF Looked
    <3>3. CASE house.turns[t].session # s
      <4>1. CASE house.turns[t].session \in pending /\ ~Looked(house.turns[t].session)
        BY <1>1, <2>1, <4>1 DEF Looked
      <4>2. ASSUME NEW q \in Runners, At(q, "offering"), SessionOf(q) = house.turns[t].session
            PROVE  At(q, "offering")' /\ SessionOf(q)' = house.turns[t].session
        BY <1>1, <2>1, <3>3, <4>2 DEF At, SessionOf
      <4> QED
        BY <3>1, <4>1, <4>2 DEF MemInv, AnswersAreAwaited
    <3> QED
      BY <3>2, <3>3
  <2> QED
    BY <1>1, <2>1, <2>3, <2>4, <2>5 DEF MemInv, HasTurn
<1>5. CASE s \notin pending
  <2>1. /\ pending' = pending \cup {s} /\ owed' = owed
        /\ runner' = [runner EXCEPT ![r] = [pc |-> "sending", turn |-> runner[r].turn]]
    BY <1>5 DEF Offer, Goes
  <2>2. ~Holds(s) /\ (\A i \in DOMAIN queue : queue[i] # s) /\ \A q \in Runners : ~Sending(q, s)
    BY <1>2, <1>5 DEF MemInv, OffersAreKept
  <2>3. \A q \in Runners, x \in Sessions : Sending(q, x)' <=> (Sending(q, x) \/ (q = r /\ x = s))
    BY <1>1, <2>1 DEF Sending, At, SessionOf
  <2>4. OffersAreKept'
    BY <1>1, <1>2, <2>1, <2>2, <2>3 DEF MemInv, OffersAreKept, Holds
  <2>5. TypeOK'
    <3>1. [pc |-> "sending", turn |-> runner[r].turn] \in RunnerStates
      BY <1>1 DEF RunnerStates
    <3> QED
      BY <1>1, <1>2, <2>1, <3>1 DEF MemInv, TypeOK
  <2>6. AnswersAreAwaited'
    <3> SUFFICES ASSUME NEW t \in owed
                 PROVE  LET x == house.turns[t].session IN
                        \/ x \in pending' /\ ~Looked(x)'
                        \/ \E q \in Runners : At(q, "offering")' /\ SessionOf(q)' = x
      BY <1>1, <2>1 DEF AnswersAreAwaited
    <3>1. CASE house.turns[t].session = s
      BY <1>1, <2>1, <2>2, <3>1 DEF Looked, Holds
    <3>2. CASE house.turns[t].session # s
      <4>1. CASE house.turns[t].session \in pending /\ ~Looked(house.turns[t].session)
        BY <1>1, <2>1, <4>1 DEF Looked
      <4>2. ASSUME NEW q \in Runners, At(q, "offering"), SessionOf(q) = house.turns[t].session
            PROVE  At(q, "offering")' /\ SessionOf(q)' = house.turns[t].session
        BY <1>1, <2>1, <3>2, <4>2 DEF At, SessionOf
      <4> QED
        BY <4>1, <4>2 DEF MemInv, AnswersAreAwaited
    <3> QED
      BY <3>1, <3>2
  <2> QED
    BY <1>1, <1>2, <2>1, <2>4, <2>5, <2>6 DEF MemInv, HasTurn
<1> QED
  BY <1>4, <1>5

LEMMA SendInv ==
  ASSUME MemInv, NEW r \in Runners, Send(r)
  PROVE  MemInv'
<1> DEFINE s == SessionOf(r)
           n == Len(queue)
<1>1. /\ At(r, "sending") /\ runner \in [Runners -> RunnerStates]
      /\ runner[r].turn \in DOMAIN house.turns
      /\ UNCHANGED <<house, disk, chat, pending, worker, owed>>
      /\ queue' = Append(queue, s) /\ runner' = [runner EXCEPT ![r] = Resting]
  BY DEF Send, Rests, At, MemInv, TypeOK, Resting
<1>2. s \in Sessions
  BY <1>1, TurnTyped DEF MemInv, SessionOf
<1>3. queue \in Seq(Sessions) /\ n \in Nat /\ DOMAIN queue = 1..n
  BY DEF MemInv, TypeOK
<1>4. /\ queue' \in Seq(Sessions) /\ DOMAIN queue' = DOMAIN queue \cup {n + 1}
      /\ queue'[n + 1] = s /\ n + 1 \notin DOMAIN queue
      /\ \A i \in DOMAIN queue : queue'[i] = queue[i]
  BY <1>1, <1>2, <1>3
<1>5. Sending(r, s)
  BY <1>1 DEF Sending
<1>6. /\ s \in pending /\ ~Holds(s) /\ \A i \in DOMAIN queue : queue[i] # s
      /\ \A q \in Runners : Sending(q, s) => q = r
  BY <1>2, <1>5 DEF MemInv, OffersAreKept
<1>7. \A q \in Runners, x \in Sessions : Sending(q, x)' <=> (Sending(q, x) /\ x # s)
  BY <1>1, <1>6 DEF Sending, At, SessionOf, Resting
<1>8. OffersAreKept'
  <2>0. \A x : Holds(x)' <=> Holds(x)
    BY <1>1 DEF Holds
  <2>1. \A x \in Sessions : x \in pending <=>
          (\E i \in DOMAIN queue' : queue'[i] = x) \/ (\E q \in Runners : Sending(q, x)') \/ Holds(x)'
    BY <1>4, <1>5, <1>6, <1>7, <2>0 DEF MemInv, OffersAreKept
  <2>2. \A i, j \in DOMAIN queue' : queue'[i] = queue'[j] => i = j
    BY <1>4, <1>6 DEF MemInv, OffersAreKept
  <2>3. \A x \in Sessions, q \in Runners : Sending(q, x)' =>
          /\ ~Holds(x)' /\ \A i \in DOMAIN queue' : queue'[i] # x
          /\ \A p \in Runners : Sending(p, x)' => p = q
    BY <1>4, <1>7, <2>0 DEF MemInv, OffersAreKept
  <2>4. \A i \in DOMAIN queue' : worker'.pc = "waiting" \/ worker'.session # queue'[i]
    BY <1>1, <1>4, <1>6 DEF MemInv, OffersAreKept, Holds
  <2> QED
    BY <1>1, <2>1, <2>2, <2>3, <2>4 DEF OffersAreKept, Holds
<1>9. TypeOK'
  <2>1. Resting \in RunnerStates
    BY MemoryAssumption DEF Resting, RunnerStates
  <2> QED
    BY <1>1, <1>4, <2>1 DEF MemInv, TypeOK
<1>10. AnswersAreAwaited'
  <2> SUFFICES ASSUME NEW t \in owed
               PROVE  LET x == house.turns[t].session IN
                      \/ x \in pending /\ ~Looked(x)'
                      \/ \E q \in Runners : At(q, "offering")' /\ SessionOf(q)' = x
    BY <1>1 DEF AnswersAreAwaited
  <2>1. CASE house.turns[t].session \in pending /\ ~Looked(house.turns[t].session)
    BY <1>1, <2>1 DEF Looked
  <2>2. ASSUME NEW q \in Runners, At(q, "offering"), SessionOf(q) = house.turns[t].session
        PROVE  At(q, "offering")' /\ SessionOf(q)' = house.turns[t].session
    BY <1>1, <2>2 DEF At, SessionOf
  <2> QED
    BY <2>1, <2>2 DEF MemInv, AnswersAreAwaited
<1> QED
  BY <1>1, <1>8, <1>9, <1>10 DEF MemInv, HasTurn

(* The worker takes a session from the channel, looks at it, and takes it   *)
(* out of the set.                                                          *)
LEMMA ReceiveInv ==
  ASSUME MemInv, Receive
  PROVE  MemInv'
<1> DEFINE n == Len(queue)
           s == Head(queue)
<1>1. /\ worker.pc = "waiting" /\ queue # << >> /\ queue' = Tail(queue)
      /\ worker' = [pc |-> "holding", session |-> s]
      /\ UNCHANGED <<house, disk, runner, chat, pending, owed>>
  BY DEF Receive
<1>2. /\ queue \in Seq(Sessions) /\ n \in Nat /\ n > 0 /\ DOMAIN queue = 1..n
      /\ s = queue[1] /\ s \in Sessions
  BY <1>1 DEF MemInv, TypeOK
<1>3. /\ queue' \in Seq(Sessions) /\ DOMAIN queue' = 1..(n - 1)
      /\ \A i \in 1..(n - 1) : queue'[i] = queue[i + 1]
  BY <1>1, <1>2
<1>4. \A x \in Sessions : (\E i \in DOMAIN queue : queue[i] = x)
                          <=> x = s \/ \E i \in DOMAIN queue' : queue'[i] = x
  <2> SUFFICES ASSUME NEW x \in Sessions
               PROVE  (\E i \in DOMAIN queue : queue[i] = x)
                      <=> x = s \/ \E i \in DOMAIN queue' : queue'[i] = x
    OBVIOUS
  <2>1. ASSUME NEW i \in 1..n, queue[i] = x, i # 1 PROVE i - 1 \in 1..(n - 1) /\ queue'[i - 1] = x
    BY <1>2, <1>3, <2>1
  <2>2. ASSUME NEW i \in 1..(n - 1), queue'[i] = x PROVE i + 1 \in 1..n /\ queue[i + 1] = x
    BY <1>2, <1>3, <2>2
  <2>3. ASSUME \E i \in DOMAIN queue : queue[i] = x
        PROVE  x = s \/ \E i \in DOMAIN queue' : queue'[i] = x
    <3>1. PICK i \in 1..n : queue[i] = x
      BY <1>2, <2>3
    <3> QED
      BY <1>2, <1>3, <2>1, <3>1
  <2>4. ASSUME \E i \in DOMAIN queue' : queue'[i] = x
        PROVE  \E i \in DOMAIN queue : queue[i] = x
    BY <1>2, <1>3, <2>2, <2>4
  <2>5. 1 \in DOMAIN queue /\ queue[1] = s
    BY <1>2
  <2> QED
    BY <2>3, <2>4, <2>5
<1>5. \A i \in DOMAIN queue' : queue'[i] # s
  <2> SUFFICES ASSUME NEW i \in 1..(n - 1), queue[i + 1] = queue[1] PROVE FALSE
    BY <1>2, <1>3
  <2>1. i + 1 \in DOMAIN queue /\ 1 \in DOMAIN queue /\ i + 1 # 1
    BY <1>2
  <2> QED
    BY <2>1 DEF MemInv, OffersAreKept
<1>6. \A r \in Runners, x \in Sessions : Sending(r, x)' <=> Sending(r, x)
  BY <1>1 DEF Sending, At, SessionOf
<1>7. \A x : Holds(x)' <=> x = s
  BY <1>1 DEF Holds
<1>8. \A x : ~Holds(x)
  BY <1>1 DEF Holds
<1>9. OffersAreKept'
  <2>1. \A x \in Sessions : x \in pending <=>
          (\E i \in DOMAIN queue' : queue'[i] = x) \/ (\E q \in Runners : Sending(q, x)') \/ Holds(x)'
    BY <1>4, <1>6, <1>7, <1>8 DEF MemInv, OffersAreKept
  <2>2. \A i, j \in DOMAIN queue' : queue'[i] = queue'[j] => i = j
    <3> SUFFICES ASSUME NEW i \in 1..(n - 1), NEW j \in 1..(n - 1), queue[i + 1] = queue[j + 1]
                 PROVE  i = j
      BY <1>3
    <3>1. i + 1 \in DOMAIN queue /\ j + 1 \in DOMAIN queue
      BY <1>2
    <3>2. i + 1 = j + 1
      BY <3>1 DEF MemInv, OffersAreKept
    <3> QED
      BY <1>2, <3>2
  <2>3. \A x \in Sessions, q \in Runners : Sending(q, x)' =>
          /\ ~Holds(x)' /\ \A i \in DOMAIN queue' : queue'[i] # x
          /\ \A p \in Runners : Sending(p, x)' => p = q
    BY <1>4, <1>6, <1>7 DEF MemInv, OffersAreKept
  <2>4. \A i \in DOMAIN queue' : worker'.pc = "waiting" \/ worker'.session # queue'[i]
    BY <1>1, <1>5
  <2> QED
    BY <1>1, <2>1, <2>2, <2>3, <2>4 DEF OffersAreKept, Holds
<1>10. TypeOK'
  <2>1. worker' \in WorkerStates
    BY <1>1, <1>2 DEF WorkerStates
  <2> QED
    BY <1>1, <1>3, <2>1 DEF MemInv, TypeOK
<1>11. AnswersAreAwaited'
  BY <1>1 DEF MemInv, AnswersAreAwaited, Looked, At, SessionOf
<1> QED
  BY <1>1, <1>9, <1>10, <1>11 DEF MemInv, HasTurn

(* The worker holds a session that has a turn.                              *)
LEMMA LatestTurn ==
  ASSUME MemInv, worker.pc = "holding"
  PROVE  /\ worker.session \in Sessions
         /\ Newest(TurnsOf(house, worker.session)) \in TurnsOf(house, worker.session)
<1> DEFINE s == worker.session
<1>1. s \in Sessions /\ Holds(s)
  BY DEF MemInv, TypeOK, WorkerStates, Holds
<1>2. s \in pending
  BY <1>1 DEF MemInv, OffersAreKept
<1>3. house.turns \in Seq(Turns)
  BY DEF MemInv, Good, Shape
<1>4. DOMAIN house.turns = 1..Len(house.turns) /\ Len(house.turns) \in Nat
  BY <1>3
<1>5. TurnsOf(house, s) # {}
  BY <1>2 DEF MemInv, HasTurn, TurnsOf
<1>6. TurnsOf(house, s) \in SUBSET (1..Len(house.turns))
  BY <1>4 DEF TurnsOf
<1> QED
  BY <1>1, <1>4, <1>5, <1>6, NewestIsNewest

LEMMA DistillInv ==
  ASSUME MemInv, Distill
  PROVE  MemInv'
<1> DEFINE s == worker.session
           t == Newest(TurnsOf(house, s))
<1>1. /\ worker.pc = "holding" /\ worker \in WorkerStates /\ s \in Sessions /\ Holds(s)
  BY DEF Distill, MemInv, TypeOK, WorkerStates, Holds
<1>2. worker' = [pc |-> "looked", session |-> s] /\ owed' = owed \ OwedBy(s)
      /\ UNCHANGED <<runner, chat, pending, queue>>
  BY <1>1 DEF Distill, WorkerStates
<1>3. t \in TurnsOf(house, s)
  BY <1>1, LatestTurn
<1>4. Good(house') /\ Extends(house, house') /\ disk' \in {disk, house'}
  <2>1. CASE UNCHANGED <<house, disk>>
    BY <2>1, SameExtends DEF MemInv
  <2>2. ASSUME NEW said \in Said, ~HasTranscript(house, s, t),
               Becomes(Distilled(house, s, t, said))
        PROVE  Good(house') /\ Extends(house, house') /\ disk' \in {disk, house'}
    BY <1>1, <1>3, <2>2, DistillGood DEF MemInv, Becomes, Persist, Saved, SaveFails
  <2> QED
    BY <2>1, <2>2 DEF Distill
<1>5. /\ HouseType(house') /\ HouseType(disk') /\ Good(disk')
      /\ DOMAIN house.turns \subseteq DOMAIN house'.turns
      /\ \A u \in DOMAIN house.turns : house'.turns[u].session = house.turns[u].session
      /\ \A x : HasTurn(x) => HasTurn(x)'
  BY <1>4, HouseStep
<1>6. \A r \in Runners : runner[r].pc # "idle" => runner[r].turn \in DOMAIN house.turns
  BY DEF MemInv, TypeOK, Resting
<1>7. TypeOK'
  <2>1. worker' \in WorkerStates
    BY <1>1, <1>2 DEF WorkerStates
  <2> QED
    BY <1>2, <1>5, <2>1 DEF MemInv, TypeOK
<1>8. \A r \in Runners, x \in Sessions : Sending(r, x)' <=> Sending(r, x)
  BY <1>2, <1>5, <1>6 DEF Sending, At, SessionOf
<1>9. OffersAreKept'
  BY <1>1, <1>2, <1>8 DEF MemInv, OffersAreKept, Holds
<1>10. AnswersAreAwaited'
  <2> SUFFICES ASSUME NEW u \in owed'
               PROVE  LET x == house'.turns[u].session IN
                      \/ x \in pending /\ (worker'.pc # "looked" \/ worker'.session # x)
                      \/ \E q \in Runners : At(q, "offering")' /\ SessionOf(q)' = x
    BY <1>2 DEF AnswersAreAwaited, Looked
  <2>1. u \in owed /\ u \in DOMAIN house.turns /\ house.turns[u].session # s
        /\ house'.turns[u].session = house.turns[u].session
    BY <1>2, <1>5 DEF OwedBy, MemInv, TypeOK
  <2>2. CASE house.turns[u].session \in pending
    BY <1>2, <2>1, <2>2
  <2>3. ASSUME NEW q \in Runners, At(q, "offering"), SessionOf(q) = house.turns[u].session
        PROVE  At(q, "offering")' /\ SessionOf(q)' = house'.turns[u].session
    BY <1>2, <1>5, <1>6, <2>1, <2>3 DEF At, SessionOf
  <2> QED
    BY <2>1, <2>2, <2>3 DEF MemInv, AnswersAreAwaited
<1> QED
  BY <1>2, <1>4, <1>5, <1>7, <1>9, <1>10 DEF MemInv

LEMMA ReleaseInv ==
  ASSUME MemInv, Release
  PROVE  MemInv'
<1> DEFINE s == worker.session
<1>1. /\ worker.pc = "looked" /\ worker \in WorkerStates /\ s \in Sessions
      /\ worker' = Waiting /\ pending' = pending \ {s}
      /\ UNCHANGED <<house, disk, runner, chat, queue, owed>>
  BY DEF Release, MemInv, TypeOK, WorkerStates
<1>2. Holds(s) /\ (\A x : Holds(x) <=> x = s) /\ Looked(s) /\ (\A x : ~Holds(x)') /\ \A x : ~Looked(x)'
  BY <1>1 DEF Holds, Looked, Waiting
<1>3. \A r \in Runners, x \in Sessions : Sending(r, x)' <=> Sending(r, x)
  BY <1>1 DEF Sending, At, SessionOf
<1>4. (\A i \in DOMAIN queue : queue[i] # s) /\ \A r \in Runners : ~Sending(r, s)
  BY <1>1, <1>2 DEF MemInv, OffersAreKept
<1>5. OffersAreKept'
  <2>1. \A x \in Sessions : x \in pending' <=>
          (\E i \in DOMAIN queue : queue[i] = x) \/ \E q \in Runners : Sending(q, x)'
    BY <1>1, <1>2, <1>3, <1>4 DEF MemInv, OffersAreKept
  <2>2. \A x \in Sessions, q \in Runners : Sending(q, x)' =>
          /\ \A i \in DOMAIN queue : queue[i] # x
          /\ \A p \in Runners : Sending(p, x)' => p = q
    BY <1>3 DEF MemInv, OffersAreKept
  <2> QED
    BY <1>1, <1>2, <2>1, <2>2 DEF MemInv, OffersAreKept, Holds, Waiting
<1>6. TypeOK'
  <2>1. Waiting \in WorkerStates
    BY MemoryAssumption DEF Waiting, WorkerStates
  <2> QED
    BY <1>1, <2>1 DEF MemInv, TypeOK
<1>7. AnswersAreAwaited'
  <2> SUFFICES ASSUME NEW u \in owed
               PROVE  LET x == house.turns[u].session IN
                      \/ x \in pending'
                      \/ \E q \in Runners : At(q, "offering") /\ SessionOf(q) = x
    BY <1>1 DEF AnswersAreAwaited, Looked, Waiting, At, SessionOf
  <2> QED
    BY <1>1, <1>2 DEF MemInv, AnswersAreAwaited, Looked
<1> QED
  BY <1>1, <1>5, <1>6, <1>7 DEF MemInv, HasTurn

LEMMA CrashInv ==
  ASSUME MemInv, CrashAndRestart
  PROVE  MemInv'
<1>1. /\ house' = disk /\ disk' = disk /\ pending' = {} /\ queue' = << >>
      /\ worker' = Waiting /\ owed' = {}
      /\ runner' = [r \in Runners |-> Resting] /\ chat' = [c \in Chats |-> "open"]
  BY DEF CrashAndRestart
<1>2. Resting \in RunnerStates /\ Waiting \in WorkerStates
  BY MemoryAssumption DEF Resting, RunnerStates, Waiting, WorkerStates
<1>3. TypeOK'
  BY <1>1, <1>2 DEF MemInv, TypeOK
<1>4. \A r \in Runners, x \in Sessions : ~Sending(r, x)'
  BY <1>1 DEF Sending, At, Resting
<1>5. OffersAreKept' /\ AnswersAreAwaited'
  BY <1>1, <1>4 DEF OffersAreKept, AnswersAreAwaited, Holds, Waiting
<1> QED
  BY <1>1, <1>3, <1>5 DEF MemInv

-----------------------------------------------------------------------------
(* Every step.                                                              *)

(* A transaction of a handler: the house becomes g.                         *)
LEMMA BecomesInv ==
  ASSUME MemInv, NEW g, Good(g), Extends(house, g), house' = g,
         Persist, UNCHANGED <<runner, pending, queue, worker, owed>>,
         chat' \in [Chats -> {"open", "asked"}]
  PROVE  MemInv'
<1>1. disk' \in {disk, house'}
  BY DEF Persist, Saved, SaveFails
<1> QED
  BY <1>1, StillInv

LEMMA HandlersInv ==
  ASSUME MemInv,
         \/ \E s \in Sessions : CreateTurn(s)
         \/ ExecuteLatest
         \/ \E t \in DOMAIN house.turns : RequestApproval(t) \/ ResolveApproval(t)
         \/ ChangePolicy \/ OtherHandlerSaves
  PROVE  MemInv'
<1>0. chat \in [Chats -> {"open", "asked"}] /\ Good(house)
  BY DEF MemInv, TypeOK
<1>1. ASSUME NEW s \in Sessions, CreateTurn(s) PROVE MemInv'
  <2>1. Good(Queued(house, s, "operator")) /\ Extends(house, Queued(house, s, "operator"))
    BY <1>0, <1>1, QueueGood DEF CreateTurn
  <2> QED
    BY <1>0, <1>1, <2>1, BecomesInv DEF CreateTurn, Becomes, Still
<1>2. CASE ExecuteLatest
  <2>1. PICK t \in QueuedTurns(house) : Becomes(Answered(house, t)) /\ Still
    BY <1>2 DEF ExecuteLatest
  <2>2. Good(Answered(house, t)) /\ Extends(house, Answered(house, t))
    BY <1>0, AnswerGood DEF QueuedTurns
  <2> QED
    BY <1>0, <2>1, <2>2, BecomesInv DEF Becomes, Still
<1>3. ASSUME NEW t \in DOMAIN house.turns, RequestApproval(t) \/ ResolveApproval(t)
      PROVE  MemInv'
  <2>1. PICK status \in TurnStatuses : Becomes(Marked(house, t, status)) /\ Still
    BY <1>3 DEF RequestApproval, ResolveApproval, TurnStatuses
  <2>2. Good(Marked(house, t, status)) /\ Extends(house, Marked(house, t, status))
    BY <1>0, MarkGood
  <2> QED
    BY <1>0, <2>1, <2>2, BecomesInv DEF Becomes, Still
<1>4. CASE ChangePolicy
  <2>1. PICK p \in Policies : Becomes([house EXCEPT !.mandala = p]) /\ Still
    BY <1>4 DEF ChangePolicy
  <2> DEFINE g == [house EXCEPT !.mandala = p]
  <2>2. /\ Shape(g) /\ g.turns = house.turns /\ g.capsules = house.capsules
        /\ g.rules = house.rules
    BY <1>0 DEF Good, Shape
  <2>3. Good(g) /\ Extends(house, g)
    BY <1>0, <2>2 DEF Good, Filed, Transcribed, Learned, Extends
  <2> QED
    BY <1>0, <2>1, <2>3, BecomesInv DEF Becomes, Still
<1>5. CASE OtherHandlerSaves
  BY <1>0, <1>5, SameExtends, BecomesInv DEF OtherHandlerSaves, Persist, Still
<1> QED
  BY <1>1, <1>2, <1>3, <1>4, <1>5

LEMMA RunsInv ==
  ASSUME MemInv, NEW r \in Runners,
         \/ \E t \in DOMAIN house.turns : StartRun(r, t)
         \/ RunFails(r) \/ Complete(r)
  PROVE  MemInv'
<1>0. Good(house) /\ runner \in [Runners -> RunnerStates]
  BY DEF MemInv, TypeOK
<1>1. Resting \in RunnerStates /\ Resting.pc = "idle"
  BY MemoryAssumption DEF Resting, RunnerStates
<1>2. ASSUME NEW t \in DOMAIN house.turns, StartRun(r, t) PROVE MemInv'
  <2>1. Good(Marked(house, t, "running")) /\ Extends(house, Marked(house, t, "running"))
    BY <1>0, MarkGood DEF TurnStatuses
  <2>2. disk' \in {disk, house'}
    BY <1>2 DEF StartRun, Saved, SaveFails
  <2>3. CASE UNCHANGED runner
    <3>1. UNCHANGED <<runner, pending, queue, worker, owed>> /\ chat' = chat
      BY <1>2, <2>3 DEF StartRun
    <3> QED
      BY <1>2, <2>1, <2>2, <3>1, StillInv DEF StartRun, MemInv, TypeOK
  <2>4. CASE runner' = [runner EXCEPT ![r] = [pc |-> "running", turn |-> t]]
    <3>1. [pc |-> "running", turn |-> t] \in RunnerStates
      BY <1>0, TurnTyped DEF RunnerStates
    <3>2. UNCHANGED <<chat, pending, queue, worker, owed>> /\ runner[r].pc = "idle"
          /\ house' = Marked(house, t, "running")
      BY <1>2 DEF StartRun, At
    <3> QED
      BY <2>1, <2>2, <2>4, <3>1, <3>2, RunInv
  <2> QED
    BY <1>2, <2>3, <2>4 DEF StartRun
<1>3. ASSUME At(r, "running")
      PROVE  runner[r].turn \in DOMAIN house.turns /\ runner[r].pc = "running"
  BY <1>3 DEF At, MemInv, TypeOK, Resting
<1>4. CASE RunFails(r)
  <2>1. /\ At(r, "running") /\ runner' = [runner EXCEPT ![r] = Resting]
        /\ UNCHANGED <<chat, pending, queue, worker, owed>>
    BY <1>4 DEF RunFails, Rests
  <2>2. Good(house') /\ Extends(house, house') /\ disk' \in {disk, house'}
    <3>1. CASE UNCHANGED <<house, disk>>
      BY <1>0, <3>1, SameExtends
    <3>2. CASE Becomes(Marked(house, runner[r].turn, "done"))
      BY <1>0, <1>3, <2>1, <3>2, MarkGood DEF Becomes, Persist, Saved, SaveFails, TurnStatuses
    <3> QED
      BY <1>4, <3>1, <3>2 DEF RunFails
  <2> QED
    BY <1>1, <1>3, <2>1, <2>2, RunInv
<1>5. CASE Complete(r)
  <2> DEFINE t == runner[r].turn
             h == Answered(house, t)
             s == SessionOf(r)
             y == [pc |-> "offering", turn |-> t]
  <2>1. /\ At(r, "running") /\ t \in DOMAIN house.turns /\ runner[r].pc = "running"
        /\ UNCHANGED <<chat, pending, queue, worker>>
    BY <1>3, <1>5 DEF Complete
  <2>2. Good(h) /\ Extends(house, h)
    BY <1>0, <2>1, AnswerGood
  <2>3. s \in Sessions /\ t \in 1..MaxTurns
    BY <1>0, <2>1, TurnTyped DEF SessionOf
  <2>4. Good(house') /\ Extends(house, house')
    <3>1. CASE house' = h
      BY <2>2, <3>1
    <3>2. CASE MayFollowUp(h, s) /\ house' = Queued(h, s, "house")
      <4>1. Good(house') /\ Extends(h, house')
        BY <2>2, <2>3, <3>2, QueueGood DEF MayFollowUp
      <4> QED
        BY <2>2, <4>1 DEF Extends
    <3> QED
      BY <1>5, <3>1, <3>2 DEF Complete
  <2>5. disk' \in {disk, house'}
    BY <1>5 DEF Complete, Saved, SaveFails
  <2>6. CASE Goes(r, "offering") /\ owed' = owed \cup {t}
    <3>1. runner' = [runner EXCEPT ![r] = y]
      BY <2>6 DEF Goes
    <3>2. y \in RunnerStates /\ y # Resting /\ y.pc = "offering" /\ y.turn = t
      BY <2>3 DEF RunnerStates, Resting
    <3> QED
      BY <2>1, <2>4, <2>5, <2>6, <3>1, <3>2, RunInv
  <2>7. CASE Rests(r) /\ owed' = owed
    BY <1>1, <2>1, <2>4, <2>5, <2>7, RunInv DEF Rests
  <2> QED
    BY <1>5, <2>6, <2>7 DEF Complete
<1> QED
  BY <1>2, <1>4, <1>5

LEMMA ChatsInv ==
  ASSUME MemInv, NEW c \in Chats, Ask(c) \/ Answer(c) \/ GiveUp(c)
  PROVE  MemInv'
<1> DEFINE Line(role, kind) == Capsule(ChatSession, 0, role, kind, "hot")
<1>0. chat \in [Chats -> {"open", "asked"}] /\ Good(house)
  BY DEF MemInv, TypeOK
<1>1. chat' \in [Chats -> {"open", "asked"}] /\ UNCHANGED <<runner, pending, queue, worker, owed>>
  BY <1>0 DEF Ask, Answer, GiveUp
<1>2. ASSUME NEW role \in {"user", "assistant"}, NEW kind \in {"question", "answer"}
      PROVE  Good(Remember(house, Line(role, kind))) /\ Extends(house, Remember(house, Line(role, kind)))
  <2>1. Line(role, kind) \in Capsules
    BY MemoryAssumption DEF Capsule, Capsules, Roles, Kinds, Bands
  <2>2. Line(role, kind).turn = 0 /\ Line(role, kind).role # "operator"
        /\ Line(role, kind).kind # "transcript"
    BY DEF Capsule
  <2> HIDE DEF Line
  <2>3. Good(Remember(house, Line(role, kind)))
        /\ Remember(house, Line(role, kind)).turns = house.turns
    BY <1>0, <2>1, <2>2, RememberGood
  <2> QED
    BY <2>3 DEF Extends
<1>3. CASE Ask(c)
  <2>1. house' = Remember(house, Line("user", "question")) /\ disk' = disk
    BY <1>3 DEF Ask
  <2>2. Good(house') /\ Extends(house, house')
    BY <1>2, <2>1
  <2> QED
    BY <1>1, <2>1, <2>2, StillInv
<1>4. CASE Answer(c)
  <2>1. house' = Remember(house, Line("assistant", "answer")) /\ disk' \in {disk, house'}
    BY <1>4 DEF Answer, Becomes, Persist, Saved, SaveFails
  <2>2. Good(house') /\ Extends(house, house')
    BY <1>2, <2>1
  <2> QED
    BY <1>1, <2>1, <2>2, StillInv
<1>5. CASE GiveUp(c)
  BY <1>0, <1>1, <1>5, SameExtends, StillInv DEF GiveUp
<1> QED
  BY <1>3, <1>4, <1>5

LEMMA MemNext == MemInv /\ [Next]_vars => MemInv'
<1> SUFFICES ASSUME MemInv, [Next]_vars PROVE MemInv'
  OBVIOUS
<1>1. CASE UNCHANGED vars
  <2>1. UNCHANGED <<house, disk, runner, chat, pending, queue, worker, owed>>
    BY <1>1 DEF vars
  <2> QED
    BY <2>1, SameExtends, StillInv DEF MemInv, TypeOK
<1>2. CASE Next
  <2>1. CASE \/ \E s \in Sessions : CreateTurn(s)
             \/ ExecuteLatest
             \/ \E t \in DOMAIN house.turns : RequestApproval(t) \/ ResolveApproval(t)
             \/ ChangePolicy \/ OtherHandlerSaves
    BY <2>1, HandlersInv
  <2>2. ASSUME NEW r \in Runners,
               \/ \E t \in DOMAIN house.turns : StartRun(r, t)
               \/ RunFails(r) \/ Complete(r) \/ Offer(r) \/ Send(r)
        PROVE  MemInv'
    BY <2>2, RunsInv, OfferInv, SendInv
  <2>3. CASE Receive \/ Distill \/ Release
    BY <2>3, ReceiveInv, DistillInv, ReleaseInv
  <2>4. ASSUME NEW c \in Chats, Ask(c) \/ Answer(c) \/ GiveUp(c) PROVE MemInv'
    BY <2>4, ChatsInv
  <2>5. CASE CrashAndRestart
    BY <2>5, CrashInv
  <2> QED
    BY <1>2, <2>1, <2>2, <2>3, <2>4, <2>5 DEF Next
<1> QED
  BY <1>1, <1>2

LEMMA MemAlways == Spec => []MemInv
<1>1. Init => MemInv
  BY MemInit
<1>2. MemInv /\ [Next]_vars => MemInv'
  BY MemNext
<1> QED
  BY <1>1, <1>2, PTL DEF Spec

-----------------------------------------------------------------------------
(* The registries stay well formed in memory and in the database, whatever  *)
(* transaction fails and whenever the server restarts.                      *)
THEOREM MemoryTypes == Spec => []TypeOK
<1>1. MemInv => TypeOK
  BY DEF MemInv
<1> QED
  BY <1>1, MemAlways, PTL

(* enqueue_transcript_distillation and the worker never lose a session      *)
(* between the set and the channel, and never hold one twice.               *)
THEOREM OffersKept == Spec => []OffersAreKept
<1>1. MemInv => OffersAreKept
  BY DEF MemInv
<1> QED
  BY <1>1, MemAlways, PTL

(* Dropping the offer of a session that waits already loses no answer,      *)
(* except under the worker that has just looked.                            *)
THEOREM AnswersAwaited == Spec => []AnswersAreAwaited
<1>1. MemInv => AnswersAreAwaited
  BY DEF MemInv
<1> QED
  BY <1>1, MemAlways, PTL

(* distill_session_transcript writes one transcript of a turn.              *)
THEOREM TranscribedOnce == Spec => []TranscriptOnce
<1>1. MemInv => TranscriptOnce
  BY DEF MemInv, Good, Transcribed, TranscriptOnce
<1> QED
  BY <1>1, MemAlways, PTL

(* refresh_memory_for_session promotes directives of the operator only, and *)
(* each once.                                                               *)
THEOREM RulesFromOperator == Spec => []RulesAreDirectives
<1>1. ASSUME NEW h, Good(h), NEW m \in DOMAIN h.rules, NEW n \in DOMAIN h.rules
      PROVE  /\ h.rules[m] \in DOMAIN h.capsules
             /\ h.capsules[h.rules[m]].kind = "intent"
             /\ h.turns[h.capsules[h.rules[m]].turn].by = "operator"
             /\ m < n => h.rules[m] < h.rules[n]
  BY <1>1 DEF Good, Filed, Learned
<1>2. MemInv => RulesAreDirectives
  BY <1>1 DEF MemInv, RulesAreDirectives
<1> QED
  BY <1>2, MemAlways, PTL

-----------------------------------------------------------------------------
(* What fairness needs of OffersAreTaken.  A session in line for the worker *)
(* is in its hand, or has a place in the channel.                           *)

InLine(s) == Holds(s) \/ \E i \in DOMAIN queue : queue[i] = s

Place(q, s) == CHOOSE i \in DOMAIN q : q[i] = s

AtHand == IF worker.pc = "holding" THEN 2 ELSE IF worker.pc = "looked" THEN 1 ELSE 0

(* The worker takes three steps for each session before it takes the next.  *)
StepsTo(s) ==
  IF Holds(s) THEN AtHand ELSE IF InLine(s) THEN 3 * Place(queue, s) + AtHand ELSE 0

(* Each step of the worker brings it nearer to every session in line, and   *)
(* no new offer, run or restart gets ahead of one.                          *)
OffersMoveUp ==
  [][\A s \in Sessions : InLine(s) =>
       /\ StepsTo(s)' <= StepsTo(s)
       /\ Receive \/ Distill \/ Release => StepsTo(s)' < StepsTo(s)]_vars

LEMMA PlaceIs ==
  ASSUME NEW q, \A i, j \in DOMAIN q : q[i] = q[j] => i = j, NEW i \in DOMAIN q
  PROVE  Place(q, q[i]) = i
BY DEF Place

(* Where a session in line stands.                                          *)
LEMMA Standing ==
  ASSUME TypeOK, OffersAreKept, NEW s \in Sessions
  PROVE  /\ Holds(s) => StepsTo(s) = AtHand
         /\ \A i \in DOMAIN queue : queue[i] = s =>
              ~Holds(s) /\ i \in Nat /\ i >= 1 /\ StepsTo(s) = 3 * i + AtHand
         /\ ~InLine(s) => StepsTo(s) = 0
<1>1. Holds(s) => StepsTo(s) = AtHand
  BY DEF StepsTo
<1>2. ASSUME NEW i \in DOMAIN queue, queue[i] = s
      PROVE  ~Holds(s) /\ i \in Nat /\ i >= 1 /\ StepsTo(s) = 3 * i + AtHand
  <2>1. ~Holds(s) /\ Place(queue, s) = i
    BY <1>2, PlaceIs DEF OffersAreKept
  <2>2. i \in Nat /\ i >= 1
    BY DEF TypeOK
  <2> QED
    BY <1>2, <2>1, <2>2 DEF StepsTo, InLine
<1>3. ~InLine(s) => StepsTo(s) = 0
  BY DEF StepsTo, InLine
<1> QED
  BY <1>1, <1>2, <1>3

LEMMA StandingNext ==
  ASSUME TypeOK', OffersAreKept', NEW s \in Sessions
  PROVE  /\ Holds(s)' => StepsTo(s)' = AtHand'
         /\ \A i \in DOMAIN queue' : queue'[i] = s =>
              ~Holds(s)' /\ i \in Nat /\ i >= 1 /\ StepsTo(s)' = 3 * i + AtHand'
         /\ ~InLine(s)' => StepsTo(s)' = 0
<1>1. Holds(s)' => StepsTo(s)' = AtHand'
  BY DEF StepsTo
<1>2. ASSUME NEW i \in DOMAIN queue', queue'[i] = s
      PROVE  ~Holds(s)' /\ i \in Nat /\ i >= 1 /\ StepsTo(s)' = 3 * i + AtHand'
  <2>1. ~Holds(s)' /\ Place(queue', s) = i
    BY <1>2, PlaceIs DEF OffersAreKept
  <2>2. i \in Nat /\ i >= 1
    BY DEF TypeOK
  <2> QED
    BY <1>2, <2>1, <2>2 DEF StepsTo, InLine
<1>3. ~InLine(s)' => StepsTo(s)' = 0
  BY DEF StepsTo, InLine
<1> QED
  BY <1>1, <1>2, <1>3

(* The line behind an unchanged worker, or while the worker is at work.     *)
LEMMA LineStays ==
  ASSUME MemInv, MemInv', NEW s \in Sessions, InLine(s),
         \A i \in DOMAIN queue : i \in DOMAIN queue' /\ queue'[i] = queue[i],
         Holds(s)' <=> Holds(s)
  PROVE  /\ AtHand' <= AtHand => StepsTo(s)' <= StepsTo(s)
         /\ AtHand' < AtHand => StepsTo(s)' < StepsTo(s)
<1>1. AtHand \in Nat /\ AtHand' \in Nat
  BY DEF AtHand
<1>2. CASE Holds(s)
  BY <1>1, <1>2, Standing, StandingNext DEF MemInv
<1>3. CASE ~Holds(s)
  <2>1. PICK i \in DOMAIN queue : queue[i] = s
    BY <1>3 DEF InLine
  <2>2. i \in Nat /\ StepsTo(s) = 3 * i + AtHand /\ StepsTo(s)' = 3 * i + AtHand'
    BY <2>1, Standing, StandingNext DEF MemInv
  <2> QED
    BY <1>1, <2>2
<1> QED
  BY <1>2, <1>3

LEMMA ReceiveMovesUp ==
  ASSUME MemInv, MemInv', Receive, NEW s \in Sessions, InLine(s)
  PROVE  StepsTo(s)' < StepsTo(s)
<1>1. /\ queue \in Seq(Sessions) /\ queue # << >> /\ queue' = Tail(queue)
      /\ worker.pc = "waiting" /\ worker' = [pc |-> "holding", session |-> Head(queue)]
  BY DEF Receive, MemInv, TypeOK
<1>2. AtHand = 0 /\ AtHand' = 2 /\ ~Holds(s)
  BY <1>1 DEF AtHand, Holds
<1>3. PICK i \in DOMAIN queue : queue[i] = s
  BY <1>2 DEF InLine
<1>4. i \in Nat /\ i >= 1 /\ StepsTo(s) = 3 * i
  BY <1>2, <1>3, Standing DEF MemInv
<1>5. CASE i = 1
  <2>1. Holds(s)'
    BY <1>1, <1>3, <1>5 DEF Holds
  <2>2. StepsTo(s)' = 2
    BY <1>2, <2>1, StandingNext DEF MemInv
  <2> QED
    BY <1>4, <1>5, <2>2
<1>6. CASE i # 1
  <2>1. i - 1 \in DOMAIN queue' /\ queue'[i - 1] = s
    BY <1>1, <1>3, <1>4, <1>6
  <2>2. StepsTo(s)' = 3 * (i - 1) + 2
    BY <1>2, <2>1, StandingNext DEF MemInv
  <2> QED
    BY <1>4, <2>2
<1> QED
  BY <1>5, <1>6

LEMMA DistillMovesUp ==
  ASSUME MemInv, MemInv', Distill, NEW s \in Sessions, InLine(s)
  PROVE  StepsTo(s)' < StepsTo(s)
<1>1. /\ UNCHANGED queue /\ worker \in WorkerStates /\ worker.pc = "holding"
      /\ worker' = [worker EXCEPT !.pc = "looked"]
  BY DEF Distill, MemInv, TypeOK
<1>2. worker'.pc = "looked" /\ worker'.session = worker.session
  BY <1>1 DEF WorkerStates
<1>3. AtHand' < AtHand /\ (Holds(s)' <=> Holds(s))
  BY <1>1, <1>2 DEF AtHand, Holds
<1> QED
  BY <1>1, <1>3, LineStays

LEMMA ReleaseMovesUp ==
  ASSUME MemInv, MemInv', Release, NEW s \in Sessions, InLine(s)
  PROVE  StepsTo(s)' < StepsTo(s)
<1>1. UNCHANGED queue /\ worker.pc = "looked" /\ worker' = Waiting /\ AtHand = 1 /\ AtHand' = 0
  BY DEF Release, AtHand, Waiting
<1>2. ~Holds(s)'
  BY <1>1 DEF Holds, Waiting
<1>3. CASE Holds(s)
  <2>1. ~InLine(s)'
    BY <1>1, <1>2, <1>3 DEF InLine, MemInv, OffersAreKept
  <2> QED
    BY <1>1, <1>3, <2>1, Standing, StandingNext DEF MemInv
<1>4. CASE ~Holds(s)
  BY <1>1, <1>2, <1>4, LineStays
<1> QED
  BY <1>3, <1>4

LEMMA SendMovesNone ==
  ASSUME MemInv, MemInv', NEW r \in Runners, Send(r), NEW s \in Sessions, InLine(s)
  PROVE  StepsTo(s)' <= StepsTo(s)
<1>1. queue \in Seq(Sessions) /\ queue' = Append(queue, SessionOf(r)) /\ UNCHANGED worker
  BY DEF Send, MemInv, TypeOK
<1>2. /\ \A i \in DOMAIN queue : i \in DOMAIN queue' /\ queue'[i] = queue[i]
      /\ AtHand' <= AtHand /\ (Holds(s)' <=> Holds(s))
  BY <1>1 DEF AtHand, Holds
<1> QED
  BY <1>2, LineStays

(* Whatever the runs, the chats and the operator do, a session that was     *)
(* offered (enqueue_transcript_distillation) moves up in the channel, and   *)
(* none that comes later gets ahead of it.                                  *)
THEOREM OffersAdvance == Spec => OffersMoveUp
<1>1. ASSUME MemInv, MemInv', [Next]_vars, NEW s \in Sessions, InLine(s)
      PROVE  /\ StepsTo(s)' <= StepsTo(s)
             /\ Receive \/ Distill \/ Release => StepsTo(s)' < StepsTo(s)
  <2>1. AtHand \in Nat /\ AtHand' \in Nat
    BY DEF AtHand
  <2>2. StepsTo(s) \in Nat
    <3>1. CASE Holds(s)
      BY <1>1, <2>1, <3>1, Standing DEF MemInv
    <3>2. ASSUME NEW i \in DOMAIN queue, queue[i] = s PROVE StepsTo(s) \in Nat
      BY <1>1, <2>1, <3>2, Standing DEF MemInv
    <3> QED
      BY <1>1, <3>1, <3>2 DEF InLine
  <2>3. StepsTo(s)' \in Nat
    <3>1. CASE Holds(s)'
      BY <1>1, <2>1, <3>1, StandingNext DEF MemInv
    <3>2. ASSUME NEW i \in DOMAIN queue', queue'[i] = s PROVE StepsTo(s)' \in Nat
      BY <1>1, <2>1, <3>2, StandingNext DEF MemInv
    <3>3. CASE ~InLine(s)'
      BY <1>1, <3>3, StandingNext DEF MemInv
    <3> QED
      BY <3>1, <3>2, <3>3 DEF InLine
  <2>4. Receive \/ Distill \/ Release => StepsTo(s)' < StepsTo(s)
    BY <1>1, ReceiveMovesUp, DistillMovesUp, ReleaseMovesUp
  <2>5. ASSUME NEW r \in Runners, Send(r) PROVE StepsTo(s)' <= StepsTo(s)
    BY <1>1, <2>5, SendMovesNone
  <2>6. CASE CrashAndRestart
    <3>1. ~InLine(s)'
      BY <2>6 DEF CrashAndRestart, InLine, Holds, Waiting
    <3>2. StepsTo(s)' = 0
      BY <1>1, <3>1, StandingNext DEF MemInv
    <3> QED
      BY <2>2, <2>4, <3>2
  <2>7. CASE UNCHANGED <<queue, worker>>
    BY <2>2, <2>4, <2>7 DEF StepsTo, InLine, Holds, AtHand
  <2>8. CASE Receive \/ Distill \/ Release
    BY <2>2, <2>3, <2>4, <2>8
  <2> QED
    BY <1>1, <2>4, <2>5, <2>6, <2>7, <2>8
    DEF Next, CreateTurn, ExecuteLatest, RequestApproval, ResolveApproval, ChangePolicy,
        OtherHandlerSaves, Still, StartRun, RunFails, Complete, Offer, Ask, Answer, GiveUp, vars
<1>2. MemInv /\ MemInv' /\ [Next]_vars =>
        [\A s \in Sessions : InLine(s) =>
           /\ StepsTo(s)' <= StepsTo(s)
           /\ Receive \/ Distill \/ Release => StepsTo(s)' < StepsTo(s)]_vars
  BY <1>1
<1> QED
  BY <1>2, MemAlways, PTL DEF Spec, OffersMoveUp

=============================================================================
