--------------------------- MODULE HouseDigestProofs ---------------------------
(***************************************************************************)
(* Bands and checkpoints: the newest checkpoints of a session tell of each *)
(* of its capsules once, in the band it has.  For every number of sessions *)
(* and every size of the bands, on what HouseMemoryProofs shows of a house.*)
(***************************************************************************)
EXTENDS HouseMemoryProofs, FiniteSetTheorems

-----------------------------------------------------------------------------
(* Ranks.  A capsule is put in a band by how many of its session are newer; *)
(* every rank there is room for is some capsule's.                          *)

Newer(S, i) == {j \in S : i < j}

LEMMA RankTyped ==
  ASSUME NEW S \in SUBSET Nat, IsFiniteSet(S), NEW i \in S
  PROVE  /\ Cardinality(S) \in Nat
         /\ IsFiniteSet(Newer(S, i)) /\ Cardinality(Newer(S, i)) \in 0..(Cardinality(S) - 1)
<1>1. Cardinality(S) \in Nat
  BY FS_CardinalityType
<1>2. IsFiniteSet(S \ {i}) /\ Cardinality(S \ {i}) = Cardinality(S) - 1
  BY <1>1, FS_RemoveElement
<1>3. Newer(S, i) \in SUBSET (S \ {i})
  BY DEF Newer
<1>4. IsFiniteSet(Newer(S, i)) /\ Cardinality(Newer(S, i)) <= Cardinality(S \ {i})
  BY <1>2, <1>3, FS_Subset
<1>5. Cardinality(Newer(S, i)) \in Nat
  BY <1>4, FS_CardinalityType
<1> QED
  BY <1>1, <1>2, <1>4, <1>5

LEMMA NewerRanksLower ==
  ASSUME NEW S \in SUBSET Nat, IsFiniteSet(S), NEW i \in S, NEW j \in S, i < j
  PROVE  Cardinality(Newer(S, j)) < Cardinality(Newer(S, i))
<1>1. /\ IsFiniteSet(Newer(S, i))
      /\ Cardinality(Newer(S, i)) \in Nat /\ Cardinality(Newer(S, j)) \in Nat
  BY RankTyped
<1>2. Newer(S, j) \in SUBSET Newer(S, i) /\ j \in Newer(S, i) /\ j \notin Newer(S, j)
  <2>1. i \in Nat /\ j \in Nat /\ \A x \in S : x \in Nat
    OBVIOUS
  <2>2. \A x \in S : j < x => i < x
    BY <2>1
  <2>3. ~ (j < j)
    BY <2>1
  <2>4. Newer(S, j) \subseteq Newer(S, i)
    BY <2>2 DEF Newer
  <2> QED
    BY <2>3, <2>4 DEF Newer
<1>3. /\ Cardinality(Newer(S, j)) <= Cardinality(Newer(S, i))
      /\ Cardinality(Newer(S, j)) # Cardinality(Newer(S, i))
  BY <1>1, <1>2, FS_Subset
<1> QED
  BY <1>1, <1>3

LEMMA EveryRankTaken ==
  ASSUME NEW S \in SUBSET Nat, IsFiniteSet(S), NEW k \in Nat, k < Cardinality(S)
  PROVE  \E i \in S : Cardinality(Newer(S, i)) = k
<1> DEFINE c == Cardinality(S)
           f == [i \in S |-> Cardinality(Newer(S, i))]
<1>1. c \in Nat
  BY FS_CardinalityType
<1>2. f \in [S -> 0..(c - 1)]
  BY RankTyped
<1>3. ASSUME NEW i \in S, NEW j \in S, f[i] = f[j] PROVE i = j
  <2>1. ~(i < j) /\ ~(j < i)
    <3>1. ASSUME NEW x \in S, NEW y \in S, x < y PROVE f[y] < f[x] /\ f[x] \in Nat /\ f[y] \in Nat
      <4>1. f[x] = Cardinality(Newer(S, x)) /\ f[y] = Cardinality(Newer(S, y))
        OBVIOUS
      <4>2. f[x] \in 0..(c - 1) /\ f[y] \in 0..(c - 1)
        BY <1>2
      <4> QED
        BY <1>1, <3>1, <4>1, <4>2, NewerRanksLower
    <3> QED
      BY <1>3, <3>1
  <2> QED
    BY <2>1
<1>4. f \in Injection(S, 0..(c - 1))
  BY <1>2, <1>3 DEF Injection, IsInjective
<1>5. IsFiniteSet(0..(c - 1)) /\ Cardinality(0..(c - 1)) = c
  <2>1. 0 \in Int /\ c - 1 \in Int /\ (IF 0 > c - 1 THEN 0 ELSE (c - 1) - 0 + 1) = c
    BY <1>1
  <2> HIDE DEF c
  <2> QED
    BY <2>1, FS_Interval
<1>6. f \in Surjection(S, 0..(c - 1))
  BY <1>1, <1>4, <1>5, FS_Injection
<1>7. k \in 0..(c - 1)
  BY <1>1
<1> QED
  BY <1>6, <1>7 DEF Surjection

-----------------------------------------------------------------------------
(* Which bands of a session with c capsules hold any.                       *)

Full(c, b) ==
  \/ b = "hot" /\ c > 0
  \/ b = "warm" /\ WarmCount > 0 /\ c > HotCount
  \/ b = "archive" /\ c > HotCount + WarmCount

LEMMA BandsFill ==
  ASSUME NEW S \in SUBSET Nat, IsFiniteSet(S), NEW b \in Bands
  PROVE  (\E i \in S : BandOf(S, i) = b) <=> Full(Cardinality(S), b)
<1> DEFINE c == Cardinality(S)
<1>1. HotCount \in Nat /\ HotCount > 0 /\ WarmCount \in Nat
  BY MemoryAssumption
<1>2. c \in Nat
  BY FS_CardinalityType
<1>3. ASSUME NEW i \in S
      PROVE  /\ Cardinality(Newer(S, i)) \in Nat /\ Cardinality(Newer(S, i)) < c
             /\ BandOf(S, i) = IF Cardinality(Newer(S, i)) < HotCount THEN "hot"
                               ELSE IF Cardinality(Newer(S, i)) < HotCount + WarmCount THEN "warm"
                               ELSE "archive"
  <2>1. Cardinality(Newer(S, i)) \in 0..(c - 1)
    BY RankTyped
  <2> QED
    BY <1>2, <2>1 DEF BandOf, Newer
<1>4. ASSUME NEW i \in S, BandOf(S, i) = b PROVE Full(c, b)
  BY <1>1, <1>2, <1>3, <1>4 DEF Full
<1>5. ASSUME Full(c, b) PROVE \E i \in S : BandOf(S, i) = b
  <2> DEFINE k == IF b = "hot" THEN 0 ELSE IF b = "warm" THEN HotCount ELSE HotCount + WarmCount
  <2>1. k \in Nat /\ k < c
    BY <1>1, <1>2, <1>5 DEF Full
  <2>2. PICK i \in S : Cardinality(Newer(S, i)) = k
    BY <2>1, EveryRankTaken
  <2> QED
    BY <1>1, <1>3, <1>5, <2>2 DEF Full
<1> QED
  BY <1>4, <1>5

-----------------------------------------------------------------------------
(* How many capsules a band holds.                                          *)

Smaller(m, c) == IF m < c THEN m ELSE c

LEMMA LowestRanks ==
  ASSUME NEW S \in SUBSET Nat, IsFiniteSet(S), NEW m \in Nat
  PROVE  Cardinality({i \in S : Cardinality(Newer(S, i)) < m}) = Smaller(m, Cardinality(S))
<1> DEFINE c == Cardinality(S)
           L == {i \in S : Cardinality(Newer(S, i)) < m}
           k == Smaller(m, c)
           T == 0..(k - 1)
           f == [i \in L |-> Cardinality(Newer(S, i))]
<1>1. c \in Nat /\ k \in Nat /\ k <= m /\ k <= c /\ \A x \in Nat : x < m /\ x < c => x < k
  BY FS_CardinalityType DEF Smaller
<1>2. ASSUME NEW i \in S
      PROVE  Cardinality(Newer(S, i)) \in Nat /\ Cardinality(Newer(S, i)) < c
  BY <1>1, RankTyped
<1>3. f \in [L -> T]
  <2>1. ASSUME NEW i \in L PROVE Cardinality(Newer(S, i)) \in T
    <3>1. Cardinality(Newer(S, i)) \in Nat /\ Cardinality(Newer(S, i)) < k
      BY <1>1, <1>2
    <3> QED
      BY <1>1, <3>1
  <2> QED
    BY <2>1
<1>4. ASSUME NEW i \in L, NEW j \in L, f[i] = f[j] PROVE i = j
  <2>1. ASSUME NEW x \in L, NEW y \in L, x < y PROVE f[x] # f[y]
    <3>1. /\ Cardinality(Newer(S, y)) < Cardinality(Newer(S, x))
          /\ Cardinality(Newer(S, x)) \in Nat /\ Cardinality(Newer(S, y)) \in Nat
      BY <1>2, <2>1, NewerRanksLower
    <3> QED
      BY <3>1
  <2>2. i \in Nat /\ j \in Nat /\ ~ (i < j) /\ ~ (j < i)
    BY <1>4, <2>1
  <2> QED
    BY <2>2
<1>5. \A x \in T : \E i \in L : f[i] = x
  <2> SUFFICES ASSUME NEW x \in T PROVE \E i \in L : f[i] = x
    OBVIOUS
  <2>1. x \in Nat /\ x < c /\ x < m
    BY <1>1
  <2>2. PICK i \in S : Cardinality(Newer(S, i)) = x
    BY <2>1, EveryRankTaken
  <2> QED
    BY <2>1, <2>2
<1>6. f \in Injection(L, T) /\ f \in Surjection(L, T)
  BY <1>3, <1>4, <1>5 DEF Injection, IsInjective, Surjection
<1>7. IsFiniteSet(T) /\ Cardinality(T) = k
  <2>1. 0 \in Int /\ k - 1 \in Int /\ (IF 0 > k - 1 THEN 0 ELSE (k - 1) - 0 + 1) = k
    BY <1>1
  <2> HIDE DEF k
  <2> QED
    BY <2>1, FS_Interval
<1> HIDE DEF f, L, T, k
<1>8. Cardinality(L) = Cardinality(T)
  BY <1>6, <1>7, FS_Injection
<1> QED
  BY <1>7, <1>8 DEF L, k, c

-----------------------------------------------------------------------------
(* The checkpoints of a house.                                              *)

(* The checkpoints of session s tell of each of its capsules in the band it *)
(* has, but for what a chat has said since they were written.               *)
TellsOf(h, s) ==
  \A i \in Of(h, s) :
    \/ \A b \in Bands : i \in h.digest[s][b] <=> h.capsules[i].band = b
    \/ h.capsules[i].turn = 0 /\ \A b \in Bands : \A j \in h.digest[s][b] : j < i

(* A checkpoint cites capsules that are there, and a band that has one is   *)
(* never empty again: an old checkpoint does not outlive its band.          *)
Written(h) ==
  \A s \in Sessions, b \in Bands :
    /\ h.digest[s][b] \subseteq DOMAIN h.capsules
    /\ h.digest[s][b] # {} => Full(Cardinality(Of(h, s)), b)

Digested(h) == Written(h) /\ \A s \in Sessions : TellsOf(h, s)

LEMMA OfTyped ==
  ASSUME NEW h, Shape(h), NEW s
  PROVE  /\ Of(h, s) \in SUBSET Nat /\ IsFiniteSet(Of(h, s)) /\ Cardinality(Of(h, s)) \in Nat
         /\ Of(h, s) \subseteq DOMAIN h.capsules
<1>1. DOMAIN h.capsules = 1..Len(h.capsules) /\ Len(h.capsules) \in Nat
  BY DEF Shape
<1>2. IsFiniteSet(DOMAIN h.capsules)
  BY <1>1, FS_Interval
<1>3. Of(h, s) \in SUBSET DOMAIN h.capsules
  BY DEF Of
<1>4. IsFiniteSet(Of(h, s))
  BY <1>2, <1>3, FS_Subset
<1> QED
  BY <1>1, <1>3, <1>4, FS_CardinalityType

LEMMA FullGrows ==
  ASSUME NEW c \in Nat, NEW d \in Nat, c <= d, NEW b, Full(c, b)
  PROVE  Full(d, b)
BY MemoryAssumption DEF Full

(* The capsules of S that belong in band b.                                 *)
Banded(S, b) == {i \in S : BandOf(S, i) = b}

(* What refresh_memory_for_session leaves of a house.                       *)
LEMMA RefreshResult ==
  ASSUME NEW h, Shape(h), NEW s \in Sessions
  PROVE  LET S == Of(h, s)
             g == Refreshed(h, s)
         IN
         /\ DOMAIN g.capsules = DOMAIN h.capsules /\ \A q : Of(g, q) = Of(h, q)
         /\ \A i \in DOMAIN h.capsules :
              /\ g.capsules[i].turn = h.capsules[i].turn
              /\ i \in S => g.capsules[i].band = BandOf(S, i)
              /\ i \notin S => g.capsules[i] = h.capsules[i]
         /\ \A b \in Bands : g.digest[s][b] = IF Banded(S, b) = {} THEN h.digest[s][b] ELSE Banded(S, b)
         /\ \A q \in Sessions \ {s} : g.digest[q] = h.digest[q]
<1> DEFINE S == Of(h, s)
           r == Rebanded(h, s)
           m == Summarized(r, s)
           g == Refreshed(h, s)
<1>1. /\ r.digest = h.digest /\ DOMAIN r.capsules = DOMAIN h.capsules
      /\ Shape(r) /\ Keeps(h, r)
  BY RebandKeeps DEF Rebanded, Shape
<1>2. ASSUME NEW i \in DOMAIN h.capsules
      PROVE  /\ r.capsules[i].session = h.capsules[i].session
             /\ r.capsules[i].turn = h.capsules[i].turn
             /\ i \in S => r.capsules[i].band = BandOf(S, i)
             /\ i \notin S => r.capsules[i] = h.capsules[i]
  <2>1. h.capsules[i] \in Capsules
    BY DEF Shape
  <2>2. r.capsules[i] = IF i \in S THEN [h.capsules[i] EXCEPT !.band = BandOf(S, i)]
                        ELSE h.capsules[i]
    BY DEF Rebanded, Shape
  <2> QED
    BY <2>1, <2>2 DEF Capsules
<1>3. \A q : Of(r, q) = Of(h, q)
  BY <1>1, <1>2 DEF Of
<1>4. ASSUME NEW b \in Bands
      PROVE  {i \in Of(r, s) : r.capsules[i].band = b} = Banded(S, b)
  BY <1>2, <1>3 DEF Of, Banded
<1>5. ASSUME NEW b \in Bands
      PROVE  Summary(r, s, b) = IF Banded(S, b) = {} THEN h.digest[s][b] ELSE Banded(S, b)
  BY <1>1, <1>4 DEF Summary
<1>6. /\ m.capsules = r.capsules
      /\ \A b \in Bands : m.digest[s][b] = IF Banded(S, b) = {} THEN h.digest[s][b] ELSE Banded(S, b)
      /\ \A q \in Sessions \ {s} : m.digest[q] = h.digest[q]
  <2>1. m = [r EXCEPT !.digest = [r.digest EXCEPT ![s] = [b \in Bands |-> Summary(r, s, b)]]]
    BY DEF Summarized
  <2>2. m.digest = [r.digest EXCEPT ![s] = [b \in Bands |-> Summary(r, s, b)]]
        /\ m.capsules = r.capsules
    BY <1>1, <2>1 DEF Shape
  <2> DEFINE new == [b \in Bands |-> Summary(r, s, b)]
  <2>3. m.digest = [h.digest EXCEPT ![s] = new] /\ DOMAIN h.digest = Sessions
    BY <1>1, <2>2 DEF Shape
  <2>4. \A b \in Bands : new[b] = IF Banded(S, b) = {} THEN h.digest[s][b] ELSE Banded(S, b)
    BY <1>5
  <2> HIDE DEF new, m
  <2>5. m.digest[s] = new /\ \A q \in Sessions \ {s} : m.digest[q] = h.digest[q]
    BY <2>3
  <2> QED
    BY <2>2, <2>4, <2>5
<1>7. g.capsules = m.capsules /\ g.digest = m.digest
  <2>1. Shape(m)
    BY <1>1, SummaryKeeps
  <2> QED
    BY <2>1 DEF Refreshed, Promoted, Shape
<1>8. \A q : Of(g, q) = Of(h, q)
  <2> HIDE DEF r, m, g
  <2>1. \A q : Of(g, q) = Of(r, q)
    BY <1>6, <1>7 DEF Of
  <2> QED
    BY <1>3, <2>1
<1> HIDE DEF r, m, g
<1> QED
  BY <1>1, <1>2, <1>6, <1>7, <1>8 DEF g

(* MemoryCapsuleRegistry::reband_session: when a session was refreshed, its *)
(* newest HotCount capsules are hot, the next WarmCount are warm and the    *)
(* others are archived, however they were banded before.                    *)
THEOREM BandsByAge ==
  ASSUME NEW h, Shape(h), NEW s \in Sessions
  PROVE  LET g == Refreshed(h, s)
             c == Cardinality(Of(h, s))
             In(b) == {i \in Of(g, s) : g.capsules[i].band = b}
         IN
         /\ Cardinality(In("hot")) = Smaller(HotCount, c)
         /\ Cardinality(In("hot") \cup In("warm")) = Smaller(HotCount + WarmCount, c)
         /\ In("hot") \cup In("warm") \cup In("archive") = Of(h, s)
         /\ \A i, j \in Of(h, s) : i < j =>
              /\ i \in In("hot") => j \in In("hot")
              /\ i \in In("warm") => j \notin In("archive")
<1> DEFINE S == Of(h, s)
           g == Refreshed(h, s)
           In(b) == {i \in Of(g, s) : g.capsules[i].band = b}
           Rank(i) == Cardinality(Newer(S, i))
<1>1. HotCount \in Nat /\ WarmCount \in Nat /\ HotCount + WarmCount \in Nat
  BY MemoryAssumption
<1>2. S \in SUBSET Nat /\ IsFiniteSet(S) /\ S \subseteq DOMAIN h.capsules
  BY OfTyped
<1>3. Of(g, s) = S /\ \A i \in S : g.capsules[i].band = BandOf(S, i)
  BY <1>2, RefreshResult
<1>4. ASSUME NEW i \in S
      PROVE  /\ Rank(i) \in Nat
             /\ BandOf(S, i) = IF Rank(i) < HotCount THEN "hot"
                               ELSE IF Rank(i) < HotCount + WarmCount THEN "warm" ELSE "archive"
  <2>1. Rank(i) \in 0..(Cardinality(S) - 1)
    BY <1>2, RankTyped
  <2>2. Cardinality(S) \in Nat
    BY <1>2, FS_CardinalityType
  <2> QED
    BY <2>1, <2>2 DEF BandOf, Newer
<1>5. ASSUME NEW i \in S, NEW j \in S, i < j PROVE Rank(j) < Rank(i)
  BY <1>2, <1>5, NewerRanksLower
<1> HIDE DEF g, S, Rank
<1>6. /\ In("hot") = {i \in S : Rank(i) < HotCount}
      /\ In("hot") \cup In("warm") = {i \in S : Rank(i) < HotCount + WarmCount}
      /\ In("hot") \cup In("warm") \cup In("archive") = S
  BY <1>1, <1>3, <1>4
<1>7. ASSUME NEW i \in S, NEW j \in S, i < j
      PROVE  /\ i \in In("hot") => j \in In("hot")
             /\ i \in In("warm") => j \notin In("archive")
  <2>1. /\ Rank(i) \in Nat /\ Rank(j) \in Nat /\ Rank(j) < Rank(i)
        /\ g.capsules[i].band = BandOf(S, i) /\ g.capsules[j].band = BandOf(S, j)
    BY <1>3, <1>4, <1>5, <1>7
  <2> QED
    BY <1>1, <1>3, <1>4, <2>1
<1>8. /\ Cardinality({i \in S : Rank(i) < HotCount}) = Smaller(HotCount, Cardinality(S))
      /\ Cardinality({i \in S : Rank(i) < HotCount + WarmCount})
           = Smaller(HotCount + WarmCount, Cardinality(S))
  BY <1>1, <1>2, LowestRanks DEF Rank
<1> QED
  BY <1>6, <1>7, <1>8 DEF g, S

(* Whatever was added to s, its checkpoints tell of every capsule, and      *)
(* those of the other sessions are as they were.                            *)
LEMMA RefreshDigests ==
  ASSUME NEW h, Shape(h), NEW s \in Sessions, Written(h),
         \A q \in Sessions \ {s} : TellsOf(h, q)
  PROVE  Digested(Refreshed(h, s))
<1> DEFINE S == Of(h, s)
           g == Refreshed(h, s)
<1>1. DOMAIN g.capsules = DOMAIN h.capsules
  BY RefreshResult
<1>2. \A q : Of(g, q) = Of(h, q)
  BY RefreshResult
<1>3. \A i \in DOMAIN h.capsules :
         /\ i \in S => g.capsules[i].band = BandOf(S, i)
         /\ i \notin S => g.capsules[i] = h.capsules[i]
  BY RefreshResult
<1>4. /\ \A b \in Bands : g.digest[s][b] = IF Banded(S, b) = {} THEN h.digest[s][b] ELSE Banded(S, b)
      /\ \A q \in Sessions \ {s} : g.digest[q] = h.digest[q]
  BY RefreshResult
<1>5. S \in SUBSET Nat /\ IsFiniteSet(S) /\ S \subseteq DOMAIN h.capsules
  BY OfTyped
<1> HIDE DEF g
<1>6. ASSUME NEW b \in Bands
      PROVE  /\ Banded(S, b) # {} <=> Full(Cardinality(S), b)
             /\ h.digest[s][b] # {} => Full(Cardinality(S), b)
  BY <1>5, BandsFill DEF Written, Banded
<1>7. \A b \in Bands : g.digest[s][b] = Banded(S, b)
  BY <1>4, <1>6
<1>8. TellsOf(g, s)
  <2>1. ASSUME NEW i \in S, NEW b \in Bands PROVE i \in Banded(S, b) <=> g.capsules[i].band = b
    BY <1>3, <1>5 DEF Banded
  <2> QED
    BY <1>2, <1>7, <2>1 DEF TellsOf
<1>9. ASSUME NEW q \in Sessions \ {s} PROVE TellsOf(g, q)
  <2>1. \A i \in Of(h, q) : g.capsules[i] = h.capsules[i]
    BY <1>3 DEF Of
  <2> QED
    BY <1>2, <1>4, <2>1 DEF TellsOf
<1>10. Written(g)
  <2> SUFFICES ASSUME NEW q \in Sessions, NEW b \in Bands
               PROVE  /\ g.digest[q][b] \subseteq DOMAIN g.capsules
                      /\ g.digest[q][b] # {} => Full(Cardinality(Of(g, q)), b)
    BY DEF Written
  <2>1. CASE q = s
    BY <1>1, <1>2, <1>5, <1>6, <1>7, <2>1 DEF Banded
  <2>2. CASE q # s
    BY <1>1, <1>2, <1>4, <2>2 DEF Written
  <2> QED
    BY <2>1, <2>2
<1> QED
  BY <1>8, <1>9, <1>10 DEF Digested, g

-----------------------------------------------------------------------------
(* What the handlers do to a house.                                         *)

(* A house whose capsules and checkpoints are those of h.                   *)
LEMMA SameDigests ==
  ASSUME NEW h, NEW g, Digested(h), g.capsules = h.capsules, g.digest = h.digest
  PROVE  Digested(g)
<1>1. \A s : Of(g, s) = Of(h, s)
  BY DEF Of
<1> QED
  BY <1>1 DEF Digested, Written, TellsOf

(* g has capsules of s besides those of h.                                  *)
Grows(h, g, s) ==
  /\ g.digest = h.digest
  /\ DOMAIN h.capsules \subseteq DOMAIN g.capsules
  /\ \A i \in DOMAIN h.capsules : g.capsules[i] = h.capsules[i]
  /\ \A i \in DOMAIN g.capsules \ DOMAIN h.capsules : g.capsules[i].session = s

LEMMA GrownKeeps ==
  ASSUME NEW h, NEW g, Shape(h), Shape(g), NEW s \in Sessions, Grows(h, g, s), Digested(h)
  PROVE  Written(g) /\ \A q \in Sessions \ {s} : TellsOf(g, q)
<1>1. \A q \in Sessions : Of(h, q) \in SUBSET Of(g, q)
  BY DEF Of, Grows
<1>2. \A q \in Sessions \ {s} : Of(g, q) = Of(h, q)
  BY DEF Of, Grows
<1>3. Written(g)
  <2> SUFFICES ASSUME NEW q \in Sessions, NEW b \in Bands
               PROVE  /\ g.digest[q][b] \subseteq DOMAIN g.capsules
                      /\ g.digest[q][b] # {} => Full(Cardinality(Of(g, q)), b)
    BY DEF Written
  <2>1. /\ Cardinality(Of(h, q)) \in Nat /\ Cardinality(Of(g, q)) \in Nat
        /\ IsFiniteSet(Of(g, q))
    BY OfTyped
  <2>2. Cardinality(Of(h, q)) <= Cardinality(Of(g, q))
    BY <1>1, <2>1, FS_Subset
  <2>3. /\ h.digest[q][b] \subseteq DOMAIN h.capsules
        /\ h.digest[q][b] # {} => Full(Cardinality(Of(h, q)), b)
        /\ g.digest = h.digest /\ DOMAIN h.capsules \subseteq DOMAIN g.capsules
    BY DEF Digested, Written, Grows
  <2> QED
    BY <2>1, <2>2, <2>3, FullGrows
<1>4. ASSUME NEW q \in Sessions \ {s} PROVE TellsOf(g, q)
  <2>1. \A i \in Of(h, q) : g.capsules[i] = h.capsules[i]
    BY DEF Of, Grows
  <2> QED
    BY <1>2, <2>1 DEF Digested, TellsOf, Grows
<1> QED
  BY <1>3, <1>4

LEMMA GrownRefreshed ==
  ASSUME NEW h, NEW g, Shape(h), Shape(g), NEW s \in Sessions, Grows(h, g, s), Digested(h)
  PROVE  Digested(Refreshed(g, s))
BY GrownKeeps, RefreshDigests

LEMMA RememberGrows ==
  ASSUME NEW h, Shape(h), NEW c \in Capsules
  PROVE  /\ Shape(Remember(h, c)) /\ Grows(h, Remember(h, c), c.session)
         /\ \A i \in DOMAIN Remember(h, c).capsules \ DOMAIN h.capsules :
              Remember(h, c).capsules[i] = c /\ \A j \in DOMAIN h.capsules : j < i
<1> DEFINE g == Remember(h, c)
           n == Len(h.capsules)
<1>1. h.capsules \in Seq(Capsules) /\ n \in Nat /\ DOMAIN h.capsules = 1..n
  BY DEF Shape
<1>2. g = [h EXCEPT !.capsules = Append(h.capsules, c)]
  BY DEF Remember
<1>3. /\ Append(h.capsules, c) \in Seq(Capsules) /\ DOMAIN Append(h.capsules, c) = 1..(n + 1)
      /\ Append(h.capsules, c)[n + 1] = c
      /\ \A i \in 1..n : Append(h.capsules, c)[i] = h.capsules[i]
  BY <1>1
<1>4. g.capsules = Append(h.capsules, c) /\ g.digest = h.digest /\ Shape(g)
  BY <1>2, <1>3 DEF Shape
<1>5. \A i \in DOMAIN g.capsules \ DOMAIN h.capsules : i = n + 1
  BY <1>1, <1>3, <1>4
<1>6. Grows(h, g, c.session)
  BY <1>1, <1>3, <1>4, <1>5 DEF Grows
<1>7. \A j \in DOMAIN h.capsules : j < n + 1
  BY <1>1
<1> QED
  BY <1>3, <1>4, <1>5, <1>6, <1>7

LEMMA MarkDigests ==
  ASSUME NEW h, Good(h), Digested(h), NEW t \in DOMAIN h.turns, NEW st \in TurnStatuses
  PROVE  Good(Marked(h, t, st)) /\ Digested(Marked(h, t, st))
<1>1. Marked(h, t, st).capsules = h.capsules /\ Marked(h, t, st).digest = h.digest
  BY DEF Marked, Good, Shape
<1> QED
  BY <1>1, MarkGood, SameDigests

LEMMA QueueDigests ==
  ASSUME NEW h, Good(h), Digested(h), NEW s \in Sessions, NEW by \in {"operator", "house"},
         Len(h.turns) < MaxTurns
  PROVE  Digested(Queued(h, s, by))
<1> DEFINE t == Len(h.turns) + 1
           role == IF by = "house" THEN "distiller" ELSE "operator"
           new == Turn(s, by, "queued", FALSE)
           started == [h EXCEPT !.turns = Append(@, new)]
           c == Capsule(s, t, role, "intent", "hot")
<1>0. new \in Turns
  BY DEF Turn, Turns
<1> HIDE DEF new
<1>1. h.turns \in Seq(Turns) /\ t \in 0..MaxTurns
  BY MemoryAssumption DEF Good, Shape
<1>2. Append(h.turns, new) \in Seq(Turns)
  BY <1>0, <1>1
<1>3. Shape(started) /\ started.capsules = h.capsules /\ started.digest = h.digest
  BY <1>2 DEF Good, Shape
<1>4. c \in Capsules /\ c.session = s
  BY <1>1 DEF Capsule, Capsules, Roles, Kinds, Bands
<1>5. Digested(started)
  BY <1>3, SameDigests
<1> HIDE DEF started, c
<1>6. Digested(Refreshed(Remember(started, c), s))
  BY <1>3, <1>4, <1>5, RememberGrows, GrownRefreshed
<1> QED
  BY <1>6 DEF Queued, started, c, new

LEMMA AnswerDigests ==
  ASSUME NEW h, Good(h), Digested(h), NEW t \in DOMAIN h.turns
  PROVE  Digested(Answered(h, t))
<1> DEFINE s == h.turns[t].session
           m == Marked(h, t, "done")
           c == Capsule(s, t, "assistant", "answer", "hot")
<1>1. Good(m) /\ Digested(m)
  BY MarkDigests DEF TurnStatuses
<1>2. s \in Sessions /\ t \in 1..MaxTurns
  BY TurnTyped
<1>3. c \in Capsules /\ c.session = s
  BY <1>2 DEF Capsule, Capsules, Roles, Kinds, Bands
<1> HIDE DEF m, c
<1>4. Digested(Refreshed(Remember(m, c), s))
  BY <1>1, <1>2, <1>3, RememberGrows, GrownRefreshed DEF Good
<1> QED
  BY <1>4 DEF Answered, m, c

(* A chat refreshes nothing: what it said is newer than any checkpoint.     *)
LEMMA ChatDigests ==
  ASSUME NEW h, Good(h), Digested(h), NEW role \in Roles, NEW kind \in Kinds
  PROVE  Digested(Remember(h, Capsule(ChatSession, 0, role, kind, "hot")))
<1> DEFINE c == Capsule(ChatSession, 0, role, kind, "hot")
           g == Remember(h, c)
<1>1. c \in Capsules /\ c.session = ChatSession /\ c.turn = 0 /\ ChatSession \in Sessions
  BY MemoryAssumption DEF Capsule, Capsules, Bands
<1>2. Shape(h) /\ Written(h) /\ TellsOf(h, ChatSession)
  BY <1>1 DEF Good, Digested
<1> HIDE DEF c
<1>3. /\ Shape(g) /\ Grows(h, g, ChatSession)
      /\ \A i \in DOMAIN g.capsules \ DOMAIN h.capsules :
           g.capsules[i] = c /\ \A j \in DOMAIN h.capsules : j < i
  BY <1>1, <1>2, RememberGrows
<1> HIDE DEF g
<1>4. Written(g) /\ \A q \in Sessions \ {ChatSession} : TellsOf(g, q)
  BY <1>1, <1>2, <1>3, GrownKeeps
<1>5. TellsOf(g, ChatSession)
  <2> SUFFICES ASSUME NEW i \in Of(g, ChatSession)
               PROVE  \/ \A b \in Bands : i \in g.digest[ChatSession][b] <=> g.capsules[i].band = b
                      \/ /\ g.capsules[i].turn = 0
                         /\ \A b \in Bands : \A j \in g.digest[ChatSession][b] : j < i
    BY DEF TellsOf
  <2>1. g.digest = h.digest
    BY <1>3 DEF Grows
  <2>2. CASE i \in DOMAIN h.capsules
    <3>1. g.capsules[i] = h.capsules[i] /\ i \in Of(h, ChatSession)
      BY <1>3, <2>2 DEF Grows, Of
    <3> QED
      BY <1>2, <2>1, <3>1 DEF TellsOf
  <2>3. CASE i \notin DOMAIN h.capsules
    <3>1. g.capsules[i] = c /\ \A j \in DOMAIN h.capsules : j < i
      BY <1>3, <2>3 DEF Of
    <3>2. \A b \in Bands : h.digest[ChatSession][b] \subseteq DOMAIN h.capsules
      BY <1>1, <1>2 DEF Written
    <3> QED
      BY <1>1, <2>1, <3>1, <3>2
  <2> QED
    BY <2>2, <2>3
<1>6. Digested(g)
  BY <1>4, <1>5 DEF Digested
<1> QED
  BY <1>6 DEF g, c

LEMMA DistillDigests ==
  ASSUME NEW h, Good(h), Digested(h), NEW s \in Sessions, NEW t \in TurnsOf(h, s), NEW said \in Said
  PROVE  Digested(Distilled(h, s, t, said))
<1> DEFINE notes == Notes(h, Recent(h, s), said)
           more == [n \in 1..Len(notes) |-> Capsule(s, t, "distiller", notes[n], "warm")]
           g == Noted(h, s, t, notes)
           k == Len(h.capsules)
<1>1. notes \in Seq(Kinds)
  BY NotesAreMemoir DEF Memoir
<1>2. t \in 1..MaxTurns
  BY TurnTyped DEF TurnsOf
<1> HIDE DEF notes
<1>3. Len(notes) \in Nat /\ \A n \in 1..Len(notes) : notes[n] \in Kinds
  BY <1>1
<1>4. \A n \in 1..Len(notes) : more[n] \in Capsules /\ more[n].session = s
  BY <1>2, <1>3 DEF Capsule, Capsules, Roles, Bands
<1>5. more \in Seq(Capsules) /\ Len(more) = Len(notes)
  <2>1. more \in [1..Len(notes) -> Capsules]
    BY <1>4
  <2> QED
    BY <1>3, <2>1
<1>6. g = [h EXCEPT !.capsules = h.capsules \o more]
  BY DEF Noted
<1> HIDE DEF more, g
<1>7. h.capsules \in Seq(Capsules) /\ k \in Nat /\ DOMAIN h.capsules = 1..k
  BY DEF Good, Shape
<1>8. /\ h.capsules \o more \in Seq(Capsules)
      /\ DOMAIN (h.capsules \o more) = 1..(k + Len(notes))
      /\ \A i \in 1..k : (h.capsules \o more)[i] = h.capsules[i]
      /\ \A i \in 1..(k + Len(notes)) : i > k => (h.capsules \o more)[i] = more[i - k]
  BY <1>3, <1>5, <1>7
<1>9. g.capsules = h.capsules \o more /\ g.digest = h.digest /\ Shape(g)
  BY <1>6, <1>8 DEF Good, Shape
<1>10. ASSUME NEW i \in DOMAIN g.capsules \ DOMAIN h.capsules PROVE g.capsules[i].session = s
  <2>1. i \in 1..(k + Len(notes)) /\ i > k /\ i - k \in 1..Len(notes)
    BY <1>3, <1>7, <1>8, <1>9
  <2> QED
    BY <1>4, <1>8, <1>9, <2>1
<1>11. DOMAIN h.capsules \subseteq DOMAIN g.capsules
  BY <1>3, <1>7, <1>8, <1>9
<1>12. Grows(h, g, s)
  BY <1>7, <1>8, <1>9, <1>10, <1>11 DEF Grows
<1>13. Digested(Refreshed(g, s))
  BY <1>9, <1>12, GrownRefreshed DEF Good
<1> QED
  BY <1>13 DEF Distilled, g, notes

-----------------------------------------------------------------------------
(* Every step.                                                              *)

DigestInv == Digested(house) /\ Digested(disk)

LEMMA EmptyDigested == Digested(EmptyHouse)
<1>1. EmptyHouse.capsules = << >> /\ DOMAIN EmptyHouse.capsules = {}
  BY DEF EmptyHouse
<1>2. \A s \in Sessions, b \in Bands : EmptyHouse.digest[s][b] = {}
  BY DEF EmptyHouse
<1> QED
  BY <1>1, <1>2 DEF Digested, Written, TellsOf, Of

LEMMA DigestNext == MemInv /\ DigestInv /\ [Next]_vars => DigestInv'
<1> SUFFICES ASSUME MemInv, DigestInv, [Next]_vars PROVE DigestInv'
  OBVIOUS
<1>1. Good(house) /\ Digested(house) /\ Digested(disk)
  BY DEF MemInv, DigestInv
<1>2. ASSUME Digested(house'), disk' \in {disk, house'} PROVE DigestInv'
  BY <1>1, <1>2 DEF DigestInv
<1>3. ASSUME NEW g, Digested(g), Becomes(g) PROVE DigestInv'
  BY <1>2, <1>3 DEF Becomes, Persist, Saved, SaveFails
<1>4. CASE UNCHANGED <<house, disk>>
  BY <1>1, <1>2, <1>4
<1>5. ASSUME NEW s \in Sessions, CreateTurn(s) PROVE DigestInv'
  BY <1>1, <1>3, <1>5, QueueDigests DEF CreateTurn
<1>6. CASE ExecuteLatest
  <2>1. PICK t \in QueuedTurns(house) : Becomes(Answered(house, t))
    BY <1>6 DEF ExecuteLatest
  <2> QED
    BY <1>1, <1>3, <2>1, AnswerDigests DEF QueuedTurns
<1>7. ASSUME NEW t \in DOMAIN house.turns, RequestApproval(t) \/ ResolveApproval(t)
      PROVE  DigestInv'
  <2>1. PICK status \in TurnStatuses : Becomes(Marked(house, t, status))
    BY <1>7 DEF RequestApproval, ResolveApproval, TurnStatuses
  <2> QED
    BY <1>1, <1>3, <2>1, MarkDigests
<1>8. CASE ChangePolicy
  <2>1. PICK p \in Policies : Becomes([house EXCEPT !.mandala = p])
    BY <1>8 DEF ChangePolicy
  <2> DEFINE g == [house EXCEPT !.mandala = p]
  <2>2. g.capsules = house.capsules /\ g.digest = house.digest
    BY <1>1 DEF Good, Shape
  <2> HIDE DEF g
  <2>3. Digested(g)
    BY <1>1, <2>2, SameDigests
  <2> QED
    BY <1>3, <2>1, <2>3 DEF g
<1>9. CASE OtherHandlerSaves
  BY <1>1, <1>2, <1>9 DEF OtherHandlerSaves, Saved
<1>10. ASSUME NEW r \in Runners, NEW t \in DOMAIN house.turns, StartRun(r, t) PROVE DigestInv'
  <2>1. Digested(house')
    BY <1>1, <1>10, MarkDigests DEF StartRun, TurnStatuses
  <2> QED
    BY <1>2, <1>10, <2>1 DEF StartRun, Saved, SaveFails
<1>11. ASSUME NEW r \in Runners, At(r, "running") PROVE runner[r].turn \in DOMAIN house.turns
  BY <1>11 DEF At, MemInv, TypeOK, Resting
<1>12. ASSUME NEW r \in Runners, RunFails(r) PROVE DigestInv'
  <2>1. CASE Becomes(Marked(house, runner[r].turn, "done"))
    BY <1>1, <1>3, <1>11, <1>12, <2>1, MarkDigests DEF RunFails, TurnStatuses
  <2> QED
    BY <1>4, <1>12, <2>1 DEF RunFails
<1>13. ASSUME NEW r \in Runners, Complete(r) PROVE DigestInv'
  <2> DEFINE t == runner[r].turn
             h == Answered(house, t)
             s == SessionOf(r)
  <2>1. t \in DOMAIN house.turns
    BY <1>11, <1>13 DEF Complete
  <2>2. Good(h) /\ Digested(h)
    BY <1>1, <2>1, AnswerGood, AnswerDigests
  <2>3. s \in Sessions
    BY <1>1, <2>1, TurnTyped DEF SessionOf
  <2>4. Digested(house')
    <3>1. CASE house' = h
      BY <2>2, <3>1
    <3>2. CASE MayFollowUp(h, s) /\ house' = Queued(h, s, "house")
      BY <2>2, <2>3, <3>2, QueueDigests DEF MayFollowUp
    <3> QED
      BY <1>13, <3>1, <3>2 DEF Complete
  <2> QED
    BY <1>2, <1>13, <2>4 DEF Complete, Saved, SaveFails
<1>14. ASSUME NEW r \in Runners, Offer(r) \/ Send(r) PROVE DigestInv'
  BY <1>4, <1>14 DEF Offer, Send
<1>15. CASE Receive \/ Release
  BY <1>4, <1>15 DEF Receive, Release
<1>16. CASE Distill
  <2> DEFINE s == worker.session
             t == Newest(TurnsOf(house, s))
  <2>1. CASE UNCHANGED <<house, disk>>
    BY <1>4, <2>1
  <2>2. ASSUME NEW said \in Said, Becomes(Distilled(house, s, t, said)) PROVE DigestInv'
    <3>1. s \in Sessions /\ t \in TurnsOf(house, s)
      BY <1>16, LatestTurn DEF Distill
    <3>2. Digested(Distilled(house, s, t, said))
      BY <1>1, <3>1, DistillDigests
    <3> QED
      BY <1>3, <2>2, <3>2
  <2> QED
    BY <1>16, <2>1, <2>2 DEF Distill
<1>17. ASSUME NEW c \in Chats, Ask(c) \/ Answer(c) \/ GiveUp(c) PROVE DigestInv'
  <2>1. CASE Ask(c)
    <3>1. Digested(house') /\ disk' = disk
      BY <1>1, <2>1, ChatDigests DEF Ask, Roles, Kinds
    <3> QED
      BY <1>2, <3>1
  <2>2. CASE Answer(c)
    BY <1>1, <1>3, <2>2, ChatDigests DEF Answer, Roles, Kinds
  <2> QED
    BY <1>4, <1>17, <2>1, <2>2 DEF GiveUp
<1>18. CASE CrashAndRestart
  BY <1>1, <1>18 DEF CrashAndRestart, DigestInv
<1> QED
  BY <1>4, <1>5, <1>6, <1>7, <1>8, <1>9, <1>10, <1>12, <1>13, <1>14, <1>15, <1>16, <1>17, <1>18
     DEF Next, vars

(* refresh_memory_for_session writes the checkpoints of the bands it has    *)
(* just sorted: whatever is added, refreshed, promoted or taken back by a   *)
(* crash, no capsule is left out of them or told of twice but the lines of  *)
(* a chat, which refreshes nothing.                                         *)
THEOREM DigestsTell == Spec => []DigestAgrees
<1>1. Init => DigestInv
  BY EmptyDigested DEF Init, DigestInv
<1>2. MemInv /\ DigestInv /\ [Next]_vars => DigestInv'
  BY DigestNext
<1>3. DigestInv => DigestAgrees
  BY DEF DigestInv, Digested, TellsOf, DigestAgrees
<1> QED
  BY <1>1, <1>2, <1>3, MemAlways, PTL DEF Spec

================================================================================
