--------------------------- MODULE LevelBufferProofs ---------------------------
(***************************************************************************)
(* Proofs about LevelBuffer, for every set of levels, every size of the    *)
(* buffer and of a cycle, every number of trials, every update target and  *)
(* every number of cycles.                                                 *)
(***************************************************************************)
EXTENDS LevelBuffer, DataTheorems

Pairs == Nat \X Nat
Places == {<< >>} \cup Slots \X Nat

Labels == {"incomplete_rejected", "duplicate_new_rejected", "updated", "valid_not_persisted",
           "inserted", "inserted_then_evicted"}

(* A row of the ledger. *)
EventRow ==
  [level : Mazes, source : {"new", "replay"}, current : GroupOutcomes, pre : Places, post : Places,
   before : Pairs, disposition : Labels, persisted : BOOLEAN, after : Pairs,
   clock : [iters : Nat, updates : Nat], clockAfter : [iters : Nat, updates : Nat]]

(* The state's types. *)
LevelTypeOK ==
  /\ Filled \subseteq Slots
  /\ \A s \in Filled : /\ plrBuffer[s].level \in Mazes
                       /\ plrBuffer[s].gen \in Nat
                       /\ plrBuffer[s].counts \in Pairs
  /\ generation \in [Slots -> Nat]
  /\ cycleClock \in [iters : Nat, updates : Nat]
  /\ telemetry \in Seq(EventRow)

(* No level is in the buffer twice. *)
LevelsApart == \A s, t \in Filled : plrBuffer[s].level = plrBuffer[t].level => s = t

(* The row r says that a level came into the place. *)
CameIn(r, place) == telemetry[r].pre = << >> /\ telemetry[r].post = place

(* Generations in the ledger are past ones, and the ledger says how each    *)
(* level came into its slot.                                                *)
InsertionsKnown ==
  /\ \A r \in Rows : telemetry[r].pre = << >> /\ telemetry[r].post # << >>
                       => telemetry[r].post[2] < generation[telemetry[r].post[1]]
  /\ \A s \in Filled : \E r \in Rows : CameIn(r, <<s, plrBuffer[s].gen>>)

LevelInv == LevelTypeOK /\ LevelsApart /\ InsertionsKnown /\ EvidenceStaysWithLevel

-----------------------------------------------------------------------------
(* A batch the program can make: a group's slot is that of its level. *)
Group == [level : Mazes, slot : Nat, outcome : GroupOutcomes]
BatchOK(batch) ==
  /\ batch \in [1..Parallel -> Group]
  /\ \A i \in 1..Parallel : batch[i].slot # 0 =>
       batch[i].slot \in Filled /\ plrBuffer[batch[i].slot].level = batch[i].level
  /\ \A i \in 1..Parallel : \A s \in Filled :
       plrBuffer[s].level = batch[i].level => batch[i].slot = s

(* An order of the groups: each once, those with a slot first, and the      *)
(* others in the order of the batch.                                        *)
OrderOK(batch, order) ==
  /\ order \in [1..Parallel -> 1..Parallel]
  /\ \A j, k \in 1..Parallel : order[j] = order[k] => j = k
  /\ \A i \in 1..Parallel : \E k \in 1..Parallel : order[k] = i
  /\ \A j, k \in 1..Parallel : batch[order[j]].slot = 0 /\ batch[order[k]].slot # 0 => k < j
  /\ \A j, k \in 1..Parallel :
       batch[order[j]].slot = 0 /\ batch[order[k]].slot = 0 /\ j < k => order[j] < order[k]

(* The scan's order is such a one. *)
LEMMA ExistingFirstOrders ==
  ASSUME NEW batch, batch \in [1..Parallel -> Group], LevelBufferAssumption
  PROVE  OrderOK(batch, ExistingFirst(batch))
<1> DEFINE N == 1..Parallel
           A == {i \in N : batch[i].slot # 0}
           B == {i \in N : batch[i].slot = 0}
           a == Cardinality(A)
           b == Cardinality(B)
           f == Ascending(A)
           g == Ascending(B)
           order == f \o g
<1>1. Parallel \in Nat /\ DOMAIN batch = N /\ IsFiniteSet(N) /\ Cardinality(N) = Parallel
  BY FS_Interval DEF LevelBufferAssumption
<1>2. A \in SUBSET Int /\ B \in SUBSET Int /\ IsFiniteSet(A) /\ IsFiniteSet(B)
  <2>1. A \in SUBSET N /\ B \in SUBSET N /\ N \subseteq Int
    BY <1>1
  <2> HIDE DEF A, B, N
  <2>2. QED
    BY <1>1, <2>1, FS_Subset
<1>3. a + b = Parallel /\ a \in Nat /\ b \in Nat
  <2>1. A \cup B = N /\ A \cap B = {}
    OBVIOUS
  <2> HIDE DEF A, B, N
  <2>2. Cardinality(A \cup B) = a + b - Cardinality(A \cap B) /\ Cardinality(A \cap B) = 0
    BY <1>2, <2>1, FS_Union, FS_EmptySet
  <2>3. a \in Nat /\ b \in Nat
    BY <1>2, FS_CardinalityType
  <2>4. Cardinality(A \cup B) = Parallel
    BY <1>1, <2>1
  <2> HIDE DEF a, b
  <2>5. QED
    BY <2>2, <2>3, <2>4
<1>4. ExistingFirst(batch) = order
  BY <1>1 DEF ExistingFirst
<1>5. /\ f \in [1..a -> A] /\ \A j, k \in 1..a : j < k => f[j] < f[k]
      /\ \A x \in A : \E k \in 1..a : f[k] = x
  <2> HIDE DEF A
  <2>1. QED
    BY <1>2, AscendingIsIncreasing, AscendingCovers
<1>6. /\ g \in [1..b -> B] /\ \A j, k \in 1..b : j < k => g[j] < g[k]
      /\ \A x \in B : \E k \in 1..b : g[k] = x
  <2> HIDE DEF B
  <2>1. QED
    BY <1>2, AscendingIsIncreasing, AscendingCovers
<1>7. \A x \in A : x \in N /\ x \in Int /\ batch[x].slot # 0
  OBVIOUS
<1>8. \A x \in B : x \in N /\ x \in Int /\ batch[x].slot = 0
  OBVIOUS
<1>9. \A x \in N : x \in A \/ x \in B
  OBVIOUS
<1> HIDE DEF A, B, a, b, f, g
<1>10. /\ order \in Seq(Int) /\ Len(order) = Parallel
       /\ \A k \in N : order[k] = IF k <= a THEN f[k] ELSE g[k - a]
  <2>1. f \in [1..a -> Int] /\ g \in [1..b -> Int]
    BY <1>5, <1>6, <1>7, <1>8
  <2>2. f \in Seq(Int) /\ Len(f) = a /\ g \in Seq(Int) /\ Len(g) = b
    BY <1>3, <2>1
  <2>3. QED
    BY <1>3, <2>2
<1>11. \A k \in N : (k <= a => k \in 1..a) /\ (~(k <= a) => k - a \in 1..b)
  BY <1>3
<1>12. /\ \A k \in 1..a : k \in N /\ k <= a
       /\ \A k \in 1..b : k + a \in N /\ ~(k + a <= a) /\ (k + a) - a = k
  BY <1>3
<1> HIDE DEF order
<1>13. \A k \in N : k <= a => order[k] = f[k] /\ order[k] \in A
  BY <1>5, <1>10, <1>11
<1>14. \A k \in N : ~(k <= a) => order[k] = g[k - a] /\ order[k] \in B
  BY <1>6, <1>10, <1>11
<1>15. order \in [N -> N]
  <2>1. order = [k \in N |-> order[k]]
    BY <1>10
  <2>2. \A k \in N : order[k] \in N
    BY <1>7, <1>8, <1>13, <1>14
  <2> HIDE DEF N
  <2>3. QED
    BY <2>1, <2>2
<1>16. ASSUME NEW j \in N, NEW k \in N, order[j] = order[k] PROVE j = k
  <2>1. j \in Int /\ k \in Int /\ a \in Int
    BY <1>3
  <2>2. CASE j <= a /\ k <= a
    <3>1. j \in 1..a /\ k \in 1..a /\ f[j] = f[k]
      BY <1>11, <1>13, <1>16, <2>2
    <3>2. f[j] \in Int /\ f[k] \in Int
      BY <1>5, <1>7, <3>1
    <3>3. ~(j < k) /\ ~(k < j)
      BY <1>5, <3>1, <3>2
    <3>4. QED
      BY <2>1, <3>3
  <2>3. CASE ~(j <= a) /\ ~(k <= a)
    <3> DEFINE p == j - a
               q == k - a
    <3>1. p \in 1..b /\ q \in 1..b /\ g[p] = g[q]
      BY <1>11, <1>14, <1>16, <2>3
    <3>2. p \in Int /\ q \in Int /\ j = p + a /\ k = q + a
      BY <2>1
    <3> HIDE DEF p, q
    <3>3. g[p] \in Int /\ g[q] \in Int
      BY <1>6, <1>8, <3>1
    <3>4. ~(p < q) /\ ~(q < p)
      BY <1>6, <3>1, <3>3
    <3>5. p = q
      BY <3>2, <3>4
    <3>6. QED
      BY <3>2, <3>5
  <2>4. CASE (j <= a /\ ~(k <= a)) \/ (~(j <= a) /\ k <= a)
    BY <1>7, <1>8, <1>13, <1>14, <1>16, <2>4
  <2>5. QED
    BY <2>2, <2>3, <2>4
<1>17. ASSUME NEW i \in N PROVE \E k \in N : order[k] = i
  <2>1. CASE i \in A
    <3>1. PICK k \in 1..a : f[k] = i
      BY <1>5, <2>1
    <3>2. k \in N /\ order[k] = i
      BY <1>12, <1>13, <3>1
    <3>3. QED
      BY <3>2
  <2>2. CASE i \in B
    <3>1. PICK k \in 1..b : g[k] = i
      BY <1>6, <2>2
    <3>2. k + a \in N /\ order[k + a] = i
      BY <1>12, <1>14, <3>1
    <3>3. QED
      BY <3>2
  <2>3. QED
    BY <1>9, <2>1, <2>2
<1>18. ASSUME NEW j \in N, NEW k \in N, batch[order[j]].slot = 0, batch[order[k]].slot # 0 PROVE k < j
  <2>1. k <= a /\ ~(j <= a)
    BY <1>7, <1>8, <1>13, <1>14, <1>18
  <2>2. QED
    BY <1>3, <2>1
<1>19. ASSUME NEW j \in N, NEW k \in N, batch[order[j]].slot = 0, batch[order[k]].slot = 0, j < k
       PROVE  order[j] < order[k]
  <2> DEFINE p == j - a
             q == k - a
  <2>1. ~(j <= a) /\ ~(k <= a)
    BY <1>7, <1>13, <1>19
  <2>2. p \in 1..b /\ q \in 1..b /\ p < q
    BY <1>3, <1>11, <1>19, <2>1
  <2>3. order[j] = g[p] /\ order[k] = g[q]
    BY <1>14, <2>1
  <2> HIDE DEF p, q
  <2>4. QED
    BY <1>6, <2>2, <2>3
<1>20. QED
  BY <1>4, <1>15, <1>16, <1>17, <1>18, <1>19 DEF OrderOK

-----------------------------------------------------------------------------
(* The ledger as a cycle leaves it: what its rows, and the rows of the      *)
(* batch after them, say of successes (c = 1) and trials (c = 2).           *)
Width(batch) == Len(telemetry) + Parallel
Told(batch, c) ==
  [r \in 1..Width(batch) |-> IF r <= Len(telemetry) THEN telemetry[r].current[c]
                            ELSE batch[r - Len(telemetry)].outcome[c]]
Sums(batch, S) == <<SumFunctionOnSet(Told(batch, 1), S), SumFunctionOnSet(Told(batch, 2), S)>>

(* The rows of the whole groups of slot t among the positions D. *)
Part(batch, t, D) ==
  {r \in (Len(telemetry) + 1)..Width(batch) :
     LET i == r - Len(telemetry) IN i \in D /\ batch[i].slot = t /\ WholeGroup(batch[i])}

(* A new level, whole and for the first time in its batch. *)
Newly(batch, i) == batch[i].slot = 0 /\ Counts(batch, i)

(* The entry of slot t is that of the cycle's start, or a new one. *)
OldEntry(s, batch, D, t) ==
  /\ t \in Filled
  /\ s.buffer[t].level = plrBuffer[t].level
  /\ s.buffer[t].gen = plrBuffer[t].gen
  /\ s.buffer[t].counts = Sums(batch, SeenSince(t) \cup Part(batch, t, D))
NewEntry(s, batch, D, t) ==
  \E i \in D : /\ Newly(batch, i)
               /\ s.placed[i] = <<t, s.buffer[t].gen>>
               /\ s.buffer[t].level = batch[i].level
               /\ s.buffer[t].counts = batch[i].outcome

(* The carry of the scan once it has stored the groups of the positions D. *)
FoldInv(s, batch, D) ==
  /\ DOMAIN s.buffer \subseteq Slots /\ Filled \subseteq DOMAIN s.buffer
  /\ s.generation \in [Slots -> Nat] /\ \A t \in Slots : generation[t] <= s.generation[t]
  /\ s.placed \in [1..Parallel -> Places]
  /\ \A i \in 1..Parallel : batch[i].slot = 0 /\ s.placed[i] # << >> =>
       /\ i \in D /\ Newly(batch, i)
       /\ generation[s.placed[i][1]] <= s.placed[i][2]
       /\ s.placed[i][2] < s.generation[s.placed[i][1]]
  /\ \A i, j \in 1..Parallel :
       batch[i].slot = 0 /\ batch[j].slot = 0 /\ s.placed[i] # << >> /\ s.placed[i] = s.placed[j] => i = j
  /\ \A t \in DOMAIN s.buffer : OldEntry(s, batch, D, t) \/ NewEntry(s, batch, D, t)

(* The weights are natural numbers, and the rows a finite set. *)
LEMMA ToldIsNat ==
  ASSUME LevelBufferAssumption, LevelTypeOK, NEW batch, BatchOK(batch), NEW c \in {1, 2}
  PROVE  /\ IsFiniteSet(1..Width(batch)) /\ Width(batch) \in Nat
         /\ Len(telemetry) \in Nat /\ Parallel \in Nat /\ Rows = 1..Len(telemetry)
         /\ \A r \in 1..Width(batch) : Told(batch, c)[r] \in Nat
<1>1. Len(telemetry) \in Nat /\ Parallel \in Nat /\ Rows = 1..Len(telemetry)
  BY DEF LevelTypeOK, Rows, LevelBufferAssumption
<1>2. \A o \in GroupOutcomes : o[1] \in Nat /\ o[2] \in Nat
  BY DEF LevelBufferAssumption
<1>3. \A r \in 1..Len(telemetry) : telemetry[r].current \in GroupOutcomes
  <2>1. \A r \in 1..Len(telemetry) : telemetry[r] \in EventRow
    BY DEF LevelTypeOK
  <2>2. QED
    BY <2>1 DEF EventRow
<1>4. \A i \in 1..Parallel : batch[i].outcome \in GroupOutcomes
  BY DEF BatchOK, Group
<1>5. Width(batch) \in Nat
  BY <1>1 DEF Width
<1>6. IsFiniteSet(1..Width(batch))
  BY <1>5, FS_Interval
<1>7. ASSUME NEW r \in 1..Width(batch) PROVE Told(batch, c)[r] \in Nat
  <2>1. CASE r <= Len(telemetry)
    <3>1. r \in 1..Len(telemetry)
      BY <1>1, <2>1
    <3>2. Told(batch, c)[r] = telemetry[r].current[c]
      BY <2>1 DEF Told
    <3>3. QED
      BY <1>2, <1>3, <3>1, <3>2
  <2>2. CASE ~(r <= Len(telemetry))
    <3>1. r - Len(telemetry) \in 1..Parallel
      BY <1>1, <2>2 DEF Width
    <3>2. Told(batch, c)[r] = batch[r - Len(telemetry)].outcome[c]
      BY <2>2 DEF Told
    <3>3. QED
      BY <1>2, <1>4, <3>1, <3>2
  <2>3. QED
    BY <2>1, <2>2
<1>8. QED
  BY <1>1, <1>5, <1>6, <1>7

(* One more row adds what it tells. *)
LEMMA SumsGrow ==
  ASSUME LevelBufferAssumption, LevelTypeOK, NEW batch, BatchOK(batch), NEW i \in 1..Parallel,
         NEW S \in SUBSET (1..Width(batch)), Len(telemetry) + i \notin S
  PROVE  Sums(batch, S \cup {Len(telemetry) + i}) = Plus(Sums(batch, S), batch[i].outcome)
<1> DEFINE x == Len(telemetry) + i
           U == 1..Width(batch)
           T == S \cup {x}
<1>1. Len(telemetry) \in Nat /\ Parallel \in Nat
  BY ToldIsNat
<1>2. x \in U /\ ~(x <= Len(telemetry)) /\ x - Len(telemetry) = i
  BY <1>1 DEF Width
<1>3. T \in SUBSET U /\ x \in T /\ T \ {x} = S
  BY <1>2
<1>4. ASSUME NEW c \in {1, 2}
      PROVE  SumFunctionOnSet(Told(batch, c), T) = SumFunctionOnSet(Told(batch, c), S) + batch[i].outcome[c]
  <2> DEFINE f == Told(batch, c)
  <2>1. IsFiniteSet(U) /\ \A r \in U : f[r] \in Nat
    BY ToldIsNat
  <2>2. f[x] = batch[i].outcome[c]
    BY <1>2 DEF Told
  <2> HIDE DEF f, x, U, T
  <2>3. \A r \in U : f[r] \in Int
    BY <2>1
  <2>4. SumFunctionOnSet(f, T) = f[x] + SumFunctionOnSet(f, T \ {x})
    BY <1>3, <2>1, <2>3, SumRemove
  <2>5. SumFunctionOnSet(f, S) \in Nat /\ f[x] \in Nat
    BY <1>2, <1>3, <2>1, SumNat
  <2>6. SumFunctionOnSet(f, T) = SumFunctionOnSet(f, S) + f[x]
    <3>1. \A k, l \in Nat : k + l = l + k
      OBVIOUS
    <3>2. f[x] + SumFunctionOnSet(f, S) = SumFunctionOnSet(f, S) + f[x]
      BY <2>5, <3>1, Zenon
    <3>3. QED
      BY <1>3, <2>4, <3>2, Zenon
  <2>7. QED
    BY <2>2, <2>6 DEF f
<1> HIDE DEF x, T
<1>5. QED
  BY <1>4 DEF Sums, Plus, x, T

(* The rows of a slot's groups grow by those of the group stored. *)
LEMMA PartGrows ==
  ASSUME LevelBufferAssumption, LevelTypeOK, NEW batch, BatchOK(batch),
         NEW D \in SUBSET (1..Parallel), NEW i \in 1..Parallel, i \notin D, NEW t \in Slots
  PROVE  /\ SeenSince(t) \cup Part(batch, t, D) \in SUBSET (1..Width(batch))
         /\ Len(telemetry) + i \notin SeenSince(t) \cup Part(batch, t, D)
         /\ Part(batch, t, D \cup {i}) =
              IF batch[i].slot = t /\ WholeGroup(batch[i])
              THEN Part(batch, t, D) \cup {Len(telemetry) + i} ELSE Part(batch, t, D)
<1> DEFINE n == Len(telemetry)
           w == Width(batch)
<1>1. n \in Nat /\ Parallel \in Nat /\ Rows = 1..n /\ w = n + Parallel
  BY ToldIsNat DEF Width
<1>2. \A r \in SeenSince(t) : r \in 1..n
  BY <1>1 DEF SeenSince
<1>3. \A C : \A r : r \in Part(batch, t, C) <=>
        r \in (n + 1)..w /\ r - n \in C /\ batch[r - n].slot = t /\ WholeGroup(batch[r - n])
  BY DEF Part
<1>4. n + i \in (n + 1)..w /\ (n + i) - n = i /\ n + i \notin 1..n
  BY <1>1
<1>5. \A r \in (n + 1)..w : r - n = i => r = n + i
  BY <1>1
<1>6. 1..n \subseteq 1..w /\ (n + 1)..w \subseteq 1..w
  BY <1>1
<1> HIDE DEF n, w
<1>7. SeenSince(t) \cup Part(batch, t, D) \in SUBSET (1..w)
  BY <1>2, <1>3, <1>6
<1>8. n + i \notin SeenSince(t) \cup Part(batch, t, D)
  BY <1>2, <1>3, <1>4
<1>9. CASE batch[i].slot = t /\ WholeGroup(batch[i])
  <2>1. Part(batch, t, D \cup {i}) = Part(batch, t, D) \cup {n + i}
    BY <1>3, <1>4, <1>5, <1>9
  <2>2. QED
    BY <1>7, <1>8, <1>9, <2>1 DEF n, w
<1>10. CASE ~(batch[i].slot = t /\ WholeGroup(batch[i]))
  <2>1. ASSUME NEW r \in (n + 1)..w, r - n \in D \cup {i}, batch[r - n].slot = t, WholeGroup(batch[r - n])
        PROVE  r - n \in D
    BY <1>5, <1>10, <2>1
  <2>2. \A r : r \in Part(batch, t, D \cup {i}) <=> r \in Part(batch, t, D)
    BY <1>3, <2>1
  <2>3. Part(batch, t, D \cup {i}) = Part(batch, t, D)
    BY <2>2
  <2>4. QED
    BY <1>7, <1>8, <1>10, <2>3 DEF n, w
<1>11. QED
  BY <1>9, <1>10

(* The slot a new level takes is one. *)
LEMMA InsertsInSlot ==
  ASSUME LevelBufferAssumption, NEW filled, filled \subseteq Slots, NEW victim \in Slots
  PROVE  NextInsert(filled, victim) \in Slots
<1>1. CASE filled = Slots
  BY <1>1 DEF NextInsert
<1>2. CASE filled # Slots
  <2> DEFINE F == Slots \ filled
  <2>1. F # {} /\ F \in SUBSET Nat /\ F \subseteq Slots
    <3>1. F # {} /\ F \subseteq Slots
      BY <1>2
    <3>2. Slots \subseteq Nat
      BY DEF Slots, LevelBufferAssumption
    <3> HIDE DEF F
    <3>3. QED
      BY <3>1, <3>2
  <2> HIDE DEF F
  <2>2. \E x \in F : \A y \in F : x <= y
    BY <2>1, LeastNat
  <2>3. Min(F) \in F
    BY <2>2 DEF Min
  <2>4. NextInsert(filled, victim) = Min(F)
    BY <1>2 DEF NextInsert, F
  <2>5. QED
    BY <2>1, <2>3, <2>4
<1>3. QED
  BY <1>1, <1>2

(* One step of the scan. *)
LEMMA StoreKeeps ==
  ASSUME LevelBufferAssumption, LevelTypeOK, NEW batch, BatchOK(batch),
         NEW D \in SUBSET (1..Parallel), NEW i \in 1..Parallel, i \notin D,
         batch[i].slot # 0 => \A j \in D : batch[j].slot # 0,
         NEW s, FoldInv(s, batch, D), NEW victim \in Slots
  PROVE  FoldInv(StoreGroup(s, batch, i, victim), batch, D \cup {i})
<1> DEFINE E == D \cup {i}
           g == batch[i]
           at == IF g.slot = 0 THEN NextInsert(DOMAIN s.buffer, victim) ELSE g.slot
           candidate == Plus(BaseCounts(s, g, at), g.outcome)
           stores == /\ Counts(batch, i)
                     /\ \/ g.slot # 0 \/ at \notin DOMAIN s.buffer
                        \/ ~Higher(s.buffer[at].counts, candidate)
           gen == IF g.slot = 0 THEN s.generation[at] ELSE s.buffer[at].gen
           entry == [level |-> g.level, gen |-> gen, counts |-> candidate]
           buffer == [t \in DOMAIN s.buffer \cup {at} |-> IF t = at THEN entry ELSE s.buffer[t]]
           generated == IF g.slot = 0 THEN [s.generation EXCEPT ![at] = @ + 1] ELSE s.generation
           placed == [s.placed EXCEPT ![i] = <<at, gen>>]
           z == StoreGroup(s, batch, i, victim)
<1>1. z = IF ~stores THEN s ELSE [buffer |-> buffer, generation |-> generated, placed |-> placed]
  BY DEF StoreGroup
<1>2. /\ DOMAIN s.buffer \subseteq Slots /\ Filled \subseteq DOMAIN s.buffer
      /\ s.generation \in [Slots -> Nat] /\ \A t \in Slots : generation[t] <= s.generation[t]
      /\ s.placed \in [1..Parallel -> Places]
  BY DEF FoldInv
<1>3. \A j \in 1..Parallel : batch[j].slot = 0 /\ s.placed[j] # << >> =>
       /\ j \in D /\ Newly(batch, j)
       /\ generation[s.placed[j][1]] <= s.placed[j][2]
       /\ s.placed[j][2] < s.generation[s.placed[j][1]]
  BY DEF FoldInv
<1>4. \A j, k \in 1..Parallel :
       batch[j].slot = 0 /\ batch[k].slot = 0 /\ s.placed[j] # << >> /\ s.placed[j] = s.placed[k] => j = k
  BY DEF FoldInv
<1>5. \A t \in DOMAIN s.buffer : OldEntry(s, batch, D, t) \/ NewEntry(s, batch, D, t)
  BY DEF FoldInv
<1>6. 0 \notin Slots /\ generation \in [Slots -> Nat] /\ Filled \subseteq Slots
  BY DEF Slots, LevelTypeOK
<1>7. at \in Slots
  BY <1>2, <1>6, InsertsInSlot DEF BatchOK
<1>8. g.outcome \in GroupOutcomes /\ g.outcome \in Pairs
  <2>1. g \in Group
    BY DEF BatchOK
  <2>2. g.outcome \in GroupOutcomes
    BY <2>1 DEF Group
  <2>3. \A o \in GroupOutcomes : o \in (0..NEval) \X (0..NEval)
    BY DEF LevelBufferAssumption
  <2>4. QED
    BY <2>2, <2>3 DEF Pairs
<1>9. Part(batch, at, E) = IF g.slot = at /\ WholeGroup(g) THEN Part(batch, at, D) \cup {Len(telemetry) + i}
                           ELSE Part(batch, at, D)
  BY <1>7, PartGrows
<1>10. ASSUME NEW t \in Slots, t # g.slot \/ ~WholeGroup(g) PROVE Part(batch, t, E) = Part(batch, t, D)
  <2>1. Part(batch, t, D \cup {i}) =
          IF batch[i].slot = t /\ WholeGroup(batch[i])
          THEN Part(batch, t, D) \cup {Len(telemetry) + i} ELSE Part(batch, t, D)
    BY PartGrows
  <2>2. ~(batch[i].slot = t /\ WholeGroup(batch[i]))
    BY <1>10
  <2>3. QED
    BY <2>1, <2>2
<1> HIDE DEF E, z
<1>11. D \subseteq E /\ i \in E
  BY DEF E
<1>12. CASE ~stores
  <2>1. z = s
    BY <1>1, <1>12
  <2>2. g.slot = 0 \/ ~WholeGroup(g)
    BY <1>12 DEF Counts, RepeatsNew
  <2> HIDE DEF g, stores
  <2>3. ASSUME NEW t \in DOMAIN s.buffer PROVE OldEntry(s, batch, E, t) \/ NewEntry(s, batch, E, t)
    <3>1. Part(batch, t, E) = Part(batch, t, D)
      BY <1>2, <1>6, <1>10, <2>2
    <3>2. OldEntry(s, batch, D, t) => OldEntry(s, batch, E, t)
      BY <3>1 DEF OldEntry
    <3>3. NewEntry(s, batch, D, t) => NewEntry(s, batch, E, t)
      BY <1>11 DEF NewEntry
    <3>4. QED
      BY <1>5, <3>2, <3>3
  <2>4. FoldInv(s, batch, E)
    BY <1>2, <1>3, <1>4, <1>11, <2>3 DEF FoldInv
  <2>5. QED
    BY <2>1, <2>4 DEF E, z
<1>13. CASE stores /\ g.slot # 0
  <2>1. z = [buffer |-> buffer, generation |-> generated, placed |-> placed]
    BY <1>1, <1>13
  <2>2. at = g.slot /\ at \in Filled /\ g.level = plrBuffer[at].level /\ WholeGroup(g)
    BY <1>13 DEF BatchOK, Counts
  <2>3. at \in DOMAIN s.buffer /\ OldEntry(s, batch, D, at)
    <3>1. at \in DOMAIN s.buffer
      BY <1>2, <2>2
    <3>2. ~NewEntry(s, batch, D, at)
      BY <1>13 DEF NewEntry, Newly
    <3>3. QED
      BY <1>5, <3>1, <3>2
  <2>4. candidate = Plus(s.buffer[at].counts, g.outcome) /\ gen = s.buffer[at].gen /\ generated = s.generation
    BY <1>13 DEF BaseCounts
  <2>5. entry = [level |-> g.level, gen |-> gen, counts |-> candidate]
    OBVIOUS
  <2>6. DOMAIN buffer = DOMAIN s.buffer /\ \A t \in DOMAIN s.buffer : buffer[t] = IF t = at THEN entry ELSE s.buffer[t]
    BY <2>3
  <2>7. placed \in [1..Parallel -> Places] /\ \A j \in 1..Parallel : j # i => placed[j] = s.placed[j]
    <3>1. gen \in Nat
      BY <2>2, <2>3, <2>4 DEF OldEntry, LevelTypeOK
    <3>2. <<at, gen>> \in Places
      BY <1>7, <3>1 DEF Places
    <3>3. QED
      BY <1>2, <3>2
  <2> HIDE DEF at, candidate, stores, gen, entry, buffer, generated, placed
  <2>8. z.buffer = buffer /\ z.generation = generated /\ z.placed = placed
    BY <2>1
  <2>9. OldEntry(z, batch, E, at)
    <3> DEFINE S == SeenSince(at) \cup Part(batch, at, D)
    <3>1. S \in SUBSET (1..Width(batch)) /\ Len(telemetry) + i \notin S
      BY <1>7, PartGrows
    <3>2. SeenSince(at) \cup Part(batch, at, E) = S \cup {Len(telemetry) + i}
      BY <1>9, <2>2
    <3> HIDE DEF S
    <3>3. Sums(batch, S \cup {Len(telemetry) + i}) = Plus(Sums(batch, S), g.outcome)
      BY <3>1, SumsGrow
    <3>4. s.buffer[at].counts = Sums(batch, S)
      BY <2>3 DEF OldEntry, S
    <3>5. candidate = Sums(batch, SeenSince(at) \cup Part(batch, at, E))
      BY <2>4, <3>2, <3>3, <3>4
    <3>6. z.buffer[at].level = g.level /\ z.buffer[at].gen = gen /\ z.buffer[at].counts = candidate
      BY <2>3, <2>5, <2>6, <2>8
    <3>7. QED
      BY <2>2, <2>3, <2>4, <3>5, <3>6 DEF OldEntry
  <2>10. ASSUME NEW t \in DOMAIN s.buffer, t # at PROVE OldEntry(z, batch, E, t) \/ NewEntry(z, batch, E, t)
    <3>1. z.buffer[t] = s.buffer[t] /\ Part(batch, t, E) = Part(batch, t, D)
      BY <1>2, <1>10, <2>2, <2>6, <2>8, <2>10
    <3>2. ~NewEntry(s, batch, D, t)
      BY <1>13 DEF NewEntry, Newly
    <3>3. OldEntry(s, batch, D, t)
      BY <1>5, <3>2
    <3>4. QED
      BY <3>1, <3>3 DEF OldEntry
  <2>11. \A j \in 1..Parallel : batch[j].slot = 0 => z.placed[j] = s.placed[j]
    BY <1>13, <2>7, <2>8
  <2>12. FoldInv(z, batch, E)
    <3>1. /\ DOMAIN z.buffer \subseteq Slots /\ Filled \subseteq DOMAIN z.buffer
          /\ z.generation \in [Slots -> Nat] /\ \A t \in Slots : generation[t] <= z.generation[t]
          /\ z.placed \in [1..Parallel -> Places]
      BY <1>2, <2>4, <2>6, <2>7, <2>8
    <3>2. \A j \in 1..Parallel : batch[j].slot = 0 /\ z.placed[j] # << >> =>
             /\ j \in E /\ Newly(batch, j)
             /\ generation[z.placed[j][1]] <= z.placed[j][2]
             /\ z.placed[j][2] < z.generation[z.placed[j][1]]
      BY <1>3, <1>11, <2>4, <2>8, <2>11
    <3>3. \A j, k \in 1..Parallel :
            batch[j].slot = 0 /\ batch[k].slot = 0 /\ z.placed[j] # << >> /\ z.placed[j] = z.placed[k] => j = k
      BY <1>4, <2>11
    <3>4. \A t \in DOMAIN z.buffer : OldEntry(z, batch, E, t) \/ NewEntry(z, batch, E, t)
      BY <2>6, <2>8, <2>9, <2>10
    <3>5. QED
      BY <3>1, <3>2, <3>3, <3>4 DEF FoldInv
  <2>13. QED
    BY <2>12 DEF E, z
<1>14. CASE stores /\ g.slot = 0
  <2>1. z = [buffer |-> buffer, generation |-> generated, placed |-> placed]
    BY <1>1, <1>14
  <2>2. Newly(batch, i) /\ gen = s.generation[at] /\ gen \in Nat
    BY <1>2, <1>7, <1>14 DEF Newly
  <2>3. candidate = g.outcome
    <3>1. candidate = Plus(<<0, 0>>, g.outcome)
      BY <1>14 DEF BaseCounts
    <3>2. g.outcome[1] \in Nat /\ g.outcome[2] \in Nat /\ g.outcome = <<g.outcome[1], g.outcome[2]>>
      BY <1>8 DEF Pairs
    <3> HIDE DEF g, candidate
    <3>3. QED
      BY <3>1, <3>2 DEF Plus
  <2>4. generated = [s.generation EXCEPT ![at] = @ + 1]
    BY <1>14
  <2>5. entry = [level |-> g.level, gen |-> gen, counts |-> candidate]
    OBVIOUS
  <2>6. /\ DOMAIN buffer = DOMAIN s.buffer \cup {at}
        /\ \A t \in DOMAIN buffer : buffer[t] = IF t = at THEN entry ELSE s.buffer[t]
    OBVIOUS
  <2>7. /\ placed \in [1..Parallel -> Places] /\ placed[i] = <<at, gen>>
        /\ \A j \in 1..Parallel : j # i => placed[j] = s.placed[j]
    <3>1. <<at, gen>> \in Places
      BY <1>7, <2>2 DEF Places
    <3>2. QED
      BY <1>2, <3>1
  <2> HIDE DEF at, candidate, stores, gen, entry, buffer, generated, placed
  <2>8. z.buffer = buffer /\ z.generation = generated /\ z.placed = placed
    BY <2>1
  <2>9. /\ z.generation \in [Slots -> Nat] /\ z.generation[at] = gen + 1
        /\ \A t \in Slots : s.generation[t] <= z.generation[t]
    BY <1>2, <1>7, <2>2, <2>4, <2>8
  <2>10. s.placed[i] = << >>
    BY <1>3, <1>14
  <2>11. \A p \in Places : p # << >> => p[1] \in Slots /\ p[2] \in Nat
    BY DEF Places
  <2>12. NewEntry(z, batch, E, at)
    <3>1. z.buffer[at] = entry
      BY <2>6, <2>8
    <3>2. /\ z.buffer[at].level = g.level /\ z.buffer[at].gen = gen /\ z.buffer[at].counts = g.outcome
          /\ z.placed[i] = <<at, gen>>
      BY <2>3, <2>5, <2>7, <2>8, <3>1
    <3>3. QED
      BY <1>11, <2>2, <3>2 DEF NewEntry
  <2>13. ASSUME NEW t \in DOMAIN s.buffer, t # at PROVE OldEntry(z, batch, E, t) \/ NewEntry(z, batch, E, t)
    <3>1. z.buffer[t] = s.buffer[t] /\ Part(batch, t, E) = Part(batch, t, D)
      BY <1>2, <1>6, <1>10, <1>14, <2>6, <2>8, <2>13
    <3>2. OldEntry(s, batch, D, t) => OldEntry(z, batch, E, t)
      BY <3>1 DEF OldEntry
    <3>3. ASSUME NewEntry(s, batch, D, t) PROVE NewEntry(z, batch, E, t)
      <4>1. PICK j \in D : /\ Newly(batch, j)
                           /\ s.placed[j] = <<t, s.buffer[t].gen>>
                           /\ s.buffer[t].level = batch[j].level
                           /\ s.buffer[t].counts = batch[j].outcome
        BY <3>3 DEF NewEntry
      <4>2. j \in 1..Parallel /\ j # i /\ j \in E
        BY <1>11
      <4>3. z.placed[j] = s.placed[j]
        BY <2>7, <2>8, <4>2
      <4>4. QED
        BY <3>1, <4>1, <4>2, <4>3 DEF NewEntry
    <3>4. QED
      BY <1>5, <3>2, <3>3
  <2>14. ASSUME NEW j \in 1..Parallel, batch[j].slot = 0, z.placed[j] # << >>
         PROVE  /\ j \in E /\ Newly(batch, j)
                /\ generation[z.placed[j][1]] <= z.placed[j][2]
                /\ z.placed[j][2] < z.generation[z.placed[j][1]]
    <3>1. CASE j = i
      <4>1. z.placed[j][1] = at /\ z.placed[j][2] = gen
        BY <2>7, <2>8, <3>1
      <4>2. generation[at] <= gen /\ gen < gen + 1
        BY <1>2, <1>7, <2>2
      <4>3. QED
        BY <1>11, <2>2, <2>9, <3>1, <4>1, <4>2
    <3>2. CASE j # i
      <4>1. z.placed[j] = s.placed[j]
        BY <2>7, <2>8, <3>2
      <4>2. s.placed[j] \in Places /\ s.placed[j] # << >>
        BY <1>2, <2>14, <4>1
      <4>3. s.placed[j][1] \in Slots /\ s.placed[j][2] \in Nat
        BY <2>11, <4>2
      <4>4. /\ j \in D /\ Newly(batch, j)
            /\ generation[s.placed[j][1]] <= s.placed[j][2]
            /\ s.placed[j][2] < s.generation[s.placed[j][1]]
        BY <1>3, <2>14, <4>2
      <4>5. s.generation[s.placed[j][1]] <= z.generation[s.placed[j][1]]
        BY <2>9, <4>3
      <4>6. s.generation[s.placed[j][1]] \in Nat /\ z.generation[s.placed[j][1]] \in Nat
        BY <1>2, <2>9, <4>3
      <4>7. s.placed[j][2] < z.generation[s.placed[j][1]]
        BY <4>3, <4>4, <4>5, <4>6
      <4>8. QED
        BY <1>11, <4>1, <4>4, <4>7
    <3>3. QED
      BY <3>1, <3>2
  <2>15. ASSUME NEW j \in 1..Parallel, batch[j].slot = 0, j # i, s.placed[j] # << >>
         PROVE  s.placed[j] # <<at, gen>>
    <3>1. s.placed[j][2] < s.generation[s.placed[j][1]]
      BY <1>3, <2>15
    <3>2. QED
      BY <2>2, <3>1
  <2>16. ASSUME NEW j \in 1..Parallel, NEW k \in 1..Parallel, batch[j].slot = 0, batch[k].slot = 0,
                z.placed[j] # << >>, z.placed[j] = z.placed[k]
         PROVE  j = k
    <3>1. CASE j # i /\ k # i
      BY <1>4, <2>7, <2>8, <2>16, <3>1
    <3>2. CASE j = i /\ k # i
      BY <2>7, <2>8, <2>15, <2>16, <3>2
    <3>3. CASE j # i /\ k = i
      BY <2>7, <2>8, <2>15, <2>16, <3>3
    <3>4. QED
      BY <3>1, <3>2, <3>3
  <2>17. FoldInv(z, batch, E)
    <3>1. /\ DOMAIN z.buffer \subseteq Slots /\ Filled \subseteq DOMAIN z.buffer
          /\ z.placed \in [1..Parallel -> Places]
      BY <1>2, <1>7, <2>6, <2>7, <2>8
    <3>2. \A t \in Slots : generation[t] <= z.generation[t]
      BY <1>2, <1>6, <2>9
    <3>3. \A t \in DOMAIN z.buffer : OldEntry(z, batch, E, t) \/ NewEntry(z, batch, E, t)
      BY <2>6, <2>8, <2>12, <2>13
    <3>4. QED
      BY <2>9, <2>14, <2>16, <3>1, <3>2, <3>3 DEF FoldInv
  <2>18. QED
    BY <2>17 DEF E, z
<1>15. QED
  BY <1>12, <1>13, <1>14

-----------------------------------------------------------------------------
(* The scan of a batch. *)
ScanStart(batch) ==
  [buffer |-> plrBuffer, generation |-> generation, placed |-> [i \in DOMAIN batch |-> << >>]]
Carries(carry, batch, victims, n) ==
  carry = [k \in 0..n |-> IF k = 0 THEN ScanStart(batch)
                         ELSE StoreGroup(carry[k - 1], batch, ExistingFirst(batch)[k],
                                         victims[ExistingFirst(batch)[k]])]

(* It can be carried through any number of steps. *)
LEMMA ScanExists ==
  ASSUME NEW batch, NEW victims, NEW n \in Nat
  PROVE  \E carry : Carries(carry, batch, victims, n)
<1> DEFINE first == ScanStart(batch)
           Step(c, k) == StoreGroup(c, batch, ExistingFirst(batch)[k], victims[ExistingFirst(batch)[k]])
           Is(carry, m) == carry = [k \in 0..m |-> IF k = 0 THEN first ELSE Step(carry[k - 1], k)]
           T == {m \in Nat : \E carry : Is(carry, m)}
<1> HIDE DEF first, Step
<1>1. 0 \in T
  <2>1. Is([k \in 0..0 |-> first], 0)
    OBVIOUS
  <2>2. QED
    BY <2>1
<1>2. ASSUME NEW m \in T PROVE m + 1 \in T
  <2>1. m \in Nat
    OBVIOUS
  <2>2. PICK carry : Is(carry, m)
    OBVIOUS
  <2> DEFINE next == [k \in 0..(m + 1) |-> IF k = 0 THEN first ELSE Step(carry[k - 1], k)]
  <2>3. ASSUME NEW k \in 0..(m + 1), k # 0 PROVE carry[k - 1] = next[k - 1]
    <3>1. k - 1 \in 0..m /\ k - 1 \in 0..(m + 1)
      BY <2>1, <2>3
    <3>2. carry[k - 1] = IF k - 1 = 0 THEN first ELSE Step(carry[(k - 1) - 1], k - 1)
      BY <2>2, <3>1
    <3>3. QED
      BY <3>1, <3>2
  <2>4. Is(next, m + 1)
    <3>1. ASSUME NEW k \in 0..(m + 1)
          PROVE  (IF k = 0 THEN first ELSE Step(carry[k - 1], k)) = (IF k = 0 THEN first ELSE Step(next[k - 1], k))
      BY <2>3
    <3> DEFINE again == [k \in 0..(m + 1) |-> IF k = 0 THEN first ELSE Step(next[k - 1], k)]
    <3>2. next = again
      BY <3>1
    <3>3. QED
      BY <3>2
  <2>5. m + 1 \in Nat /\ \E c : Is(c, m + 1)
    <3> HIDE DEF next, Is
    <3>1. QED
      BY <2>1, <2>4
  <2>6. QED
    <3> HIDE DEF Is
    <3>1. QED
      BY <2>5, Zenon
<1>3. T = Nat
  <2>1. T \in SUBSET Nat
    OBVIOUS
  <2> HIDE DEF T
  <2>2. QED
    BY <1>1, <1>2, <2>1, SetInduction
<1>4. \E carry : Is(carry, n)
  BY <1>3
<1>5. QED
  BY <1>4 DEF Carries, first, Step

(* A batch is scanned from the buffer's state, one group after the other. *)
LEMMA ScanCarries ==
  ASSUME NEW batch, NEW victims, Len(batch) \in Nat
  PROVE  /\ Scan(batch, victims)[0] = ScanStart(batch)
         /\ \A k \in 1..Len(batch) :
              Scan(batch, victims)[k] =
                StoreGroup(Scan(batch, victims)[k - 1], batch, ExistingFirst(batch)[k],
                           victims[ExistingFirst(batch)[k]])
<1> DEFINE n == Len(batch)
           carry == Scan(batch, victims)
<1>1. carry = CHOOSE c : Carries(c, batch, victims, n)
  BY DEF Scan, Carries, ScanStart
<1> HIDE DEF carry
<1>2. Carries(carry, batch, victims, n)
  BY <1>1, ScanExists
<1> HIDE DEF n
<1>3. /\ carry[0] = ScanStart(batch)
      /\ \A k \in 1..n : carry[k] = StoreGroup(carry[k - 1], batch, ExistingFirst(batch)[k],
                                                victims[ExistingFirst(batch)[k]])
  <2>1. n \in Nat
    BY DEF n
  <2>2. \A k \in 0..n : carry[k] = IF k = 0 THEN ScanStart(batch)
                                   ELSE StoreGroup(carry[k - 1], batch, ExistingFirst(batch)[k],
                                                   victims[ExistingFirst(batch)[k]])
    BY <1>2 DEF Carries
  <2>3. 0 \in 0..n /\ \A k \in 1..n : k \in 0..n /\ k # 0
    BY <2>1
  <2>4. QED
    BY <2>2, <2>3
<1>4. QED
  BY <1>3 DEF carry, n

(* Evidence of the ledger's rows is a sum of what its rows tell. *)
LEMMA EvidenceIsSums ==
  ASSUME LevelBufferAssumption, LevelTypeOK, NEW batch, BatchOK(batch), NEW S \in SUBSET Rows
  PROVE  Evidence(S) = Sums(batch, S)
<1>1. /\ Len(telemetry) \in Nat /\ Parallel \in Nat /\ Rows = 1..Len(telemetry)
      /\ IsFiniteSet(1..Width(batch))
  BY ToldIsNat
<1>2. Rows \subseteq 1..Width(batch) /\ \A r \in Rows : r <= Len(telemetry)
  BY <1>1 DEF Width
<1>3. IsFiniteSet(S)
  BY <1>1, <1>2, FS_Subset
<1>4. ASSUME NEW c \in {1, 2}
      PROVE  SumFunctionOnSet([r \in S |-> telemetry[r].current[c]], S) = SumFunctionOnSet(Told(batch, c), S)
  <2> DEFINE f == [r \in S |-> telemetry[r].current[c]]
  <2>1. \A r \in S : f[r] = Told(batch, c)[r]
    BY <1>2 DEF Told
  <2> HIDE DEF f
  <2>2. SumFunctionOnSet(f, S) = SumFunctionOnSet(Told(batch, c), S)
    BY <1>3, <2>1, SumCongruent
  <2>3. QED
    BY <2>2 DEF f
<1>5. QED
  BY <1>4 DEF Evidence, Sums

(* The scan begins with the entries the buffer has. *)
LEMMA FoldStarts ==
  ASSUME LevelBufferAssumption, LevelInv, NEW batch, BatchOK(batch)
  PROVE  FoldInv(ScanStart(batch), batch, {})
<1> DEFINE s == ScanStart(batch)
<1>1. s.buffer = plrBuffer /\ s.generation = generation /\ s.placed = [i \in DOMAIN batch |-> << >>]
  BY DEF ScanStart
<1>2. DOMAIN batch = 1..Parallel /\ LevelTypeOK
  BY DEF BatchOK, LevelInv
<1> HIDE DEF s
<1>3. ASSUME NEW t \in Filled PROVE OldEntry(s, batch, {}, t)
  <2> DEFINE S == SeenSince(t)
  <2>1. Part(batch, t, {}) = {}
    BY DEF Part
  <2>2. plrBuffer[t].counts = Evidence(S)
    BY DEF LevelInv, EvidenceStaysWithLevel
  <2>3. S \subseteq Rows
    BY DEF SeenSince
  <2>4. Evidence(S) = Sums(batch, S)
    <3> HIDE DEF S
    <3>1. QED
      BY <1>2, <2>3, EvidenceIsSums
  <2>5. S \cup Part(batch, t, {}) = S
    BY <2>1
  <2>6. s.buffer[t].counts = Sums(batch, S \cup Part(batch, t, {}))
    BY <1>1, <2>2, <2>4, <2>5
  <2>7. QED
    BY <1>1, <2>6 DEF OldEntry, S
<1>4. generation \in [Slots -> Nat] /\ Filled \subseteq Slots
  BY <1>2 DEF LevelTypeOK
<1>5. s.placed \in [1..Parallel -> Places] /\ \A i \in 1..Parallel : s.placed[i] = << >>
  BY <1>1, <1>2 DEF Places
<1>6. \A t \in Slots : generation[t] <= s.generation[t]
  BY <1>1, <1>4
<1>7. DOMAIN s.buffer = Filled
  BY <1>1 DEF Filled
<1>8. FoldInv(s, batch, {})
  BY <1>1, <1>3, <1>4, <1>5, <1>6, <1>7 DEF FoldInv
<1>9. QED
  BY <1>8 DEF s

(* The positions scanned in the first k steps. *)
Scanned(batch, k) == {ExistingFirst(batch)[j] : j \in 1..k}

(* A step of the scan stores a group that was not scanned yet.  Only groups *)
(* of levels in the buffer, or new ones before it, were.                    *)
StepOK(batch, victims, k) ==
  LET i == ExistingFirst(batch)[k]
      D == Scanned(batch, k - 1)
  IN /\ i \in 1..Parallel /\ D \in SUBSET (1..Parallel) /\ i \notin D
     /\ Scanned(batch, k) = D \cup {i}
     /\ \A j \in D : batch[j].slot = 0 => batch[i].slot = 0 /\ j < i
     /\ victims[i] \in Slots
     /\ Scan(batch, victims)[k] = StoreGroup(Scan(batch, victims)[k - 1], batch, i, victims[i])

(* Every step of the scan is such a step, and in the end all are scanned. *)
LEMMA ScanSteps ==
  ASSUME LevelBufferAssumption, NEW batch, BatchOK(batch), NEW victims \in [1..Parallel -> Slots]
  PROVE  /\ Scan(batch, victims)[0] = ScanStart(batch) /\ Scanned(batch, 0) = {}
         /\ \A k \in 1..Parallel : StepOK(batch, victims, k)
         /\ UpdateBatch(batch, victims) = Scan(batch, victims)[Parallel]
         /\ Scanned(batch, Parallel) = 1..Parallel
<1> DEFINE N == 1..Parallel
           order == ExistingFirst(batch)
           carry == Scan(batch, victims)
           Done(k) == {order[j] : j \in 1..k}
<1>1. Parallel \in Nat /\ batch \in [N -> Group]
  BY DEF LevelBufferAssumption, BatchOK
<1>2. Len(batch) = Parallel
  BY <1>1
<1>3. /\ order \in [N -> N]
      /\ \A j, k \in N : order[j] = order[k] => j = k
      /\ \A i \in N : \E k \in N : order[k] = i
      /\ \A j, k \in N : batch[order[j]].slot = 0 /\ batch[order[k]].slot # 0 => k < j
      /\ \A j, k \in N : batch[order[j]].slot = 0 /\ batch[order[k]].slot = 0 /\ j < k => order[j] < order[k]
  BY <1>1, ExistingFirstOrders DEF OrderOK
<1>4. /\ carry[0] = ScanStart(batch)
      /\ \A k \in N : carry[k] = StoreGroup(carry[k - 1], batch, order[k], victims[order[k]])
  BY <1>1, <1>2, ScanCarries
<1>5. \A k : Scanned(batch, k) = Done(k)
  BY DEF Scanned
<1> HIDE DEF order, carry
<1>6. Done(0) = {}
  OBVIOUS
<1>7. ASSUME NEW m \in N PROVE StepOK(batch, victims, m)
  <2> DEFINE k == m - 1
             i == order[m]
             D == Done(k)
  <2>1. k \in Nat /\ k < m /\ m \in Int /\ \A j \in 1..k : j \in N /\ j < m
    BY <1>1
  <2>2. (\A j \in 1..m : j \in 1..k \/ j = m) /\ (\A j \in 1..k : j \in 1..m) /\ m \in 1..m
    BY <2>1
  <2> HIDE DEF k
  <2>3. i \in N /\ D \in SUBSET N /\ i \notin D
    <3>1. i \in N
      BY <1>3
    <3>2. ASSUME NEW j \in 1..k PROVE order[j] \in N /\ order[j] # i
      <4>1. j \in N /\ m \in N /\ j # m
        BY <2>1
      <4> HIDE DEF N
      <4>2. QED
        BY <1>3, <4>1
    <3>3. QED
      BY <3>1, <3>2
  <2>4. Done(m) = D \cup {i}
    <3>1. Done(m) \subseteq D \cup {i}
      BY <2>2
    <3>2. D \cup {i} \subseteq Done(m)
      BY <2>2
    <3>3. QED
      BY <3>1, <3>2
  <2>5. ASSUME NEW d \in D, batch[d].slot = 0 PROVE batch[i].slot = 0 /\ d < i
    <3>1. PICK j \in 1..k : d = order[j]
      OBVIOUS
    <3>2. j \in N /\ m \in N /\ j < m /\ ~(m < j)
      BY <2>1
    <3> HIDE DEF N, D
    <3>3. batch[i].slot = 0
      BY <1>3, <2>5, <3>1, <3>2
    <3>4. QED
      BY <1>3, <2>5, <3>1, <3>2, <3>3
  <2>6. victims[i] \in Slots
    BY <2>3
  <2>7. carry[m] = StoreGroup(carry[k], batch, i, victims[i])
    BY <1>4 DEF k
  <2> HIDE DEF Done, i, D
  <2>8. QED
    BY <1>5, <2>3, <2>4, <2>5, <2>6, <2>7 DEF StepOK, i, D, k, order, carry
<1>8. Done(Parallel) = N
  <2>1. Done(Parallel) \subseteq N
    <3>1. \A j \in N : order[j] \in N
      BY <1>3
    <3> HIDE DEF N
    <3>2. {order[j] : j \in N} \subseteq N
      BY <3>1
    <3>3. QED
      BY <3>2 DEF N
  <2>2. N \subseteq Done(Parallel)
    BY <1>3
  <2>3. QED
    BY <2>1, <2>2
<1>9. UpdateBatch(batch, victims) = carry[Parallel]
  BY <1>2 DEF UpdateBatch, carry
<1> HIDE DEF Done
<1>10. QED
  BY <1>4, <1>5, <1>6, <1>7, <1>8, <1>9 DEF carry

(* What each step of the scan of a batch leaves. *)
LEMMA FoldKeeps ==
  ASSUME LevelBufferAssumption, LevelInv, NEW batch, BatchOK(batch),
         NEW victims \in [1..Parallel -> Slots]
  PROVE  \A k \in 0..Parallel : FoldInv(Scan(batch, victims)[k], batch, Scanned(batch, k))
<1> DEFINE carry == Scan(batch, victims)
           T == {k \in Nat : k <= Parallel => FoldInv(carry[k], batch, Scanned(batch, k))}
<1>1. Parallel \in Nat /\ LevelTypeOK
  BY DEF LevelBufferAssumption, LevelInv
<1>2. /\ carry[0] = ScanStart(batch) /\ Scanned(batch, 0) = {}
      /\ \A k \in 1..Parallel : StepOK(batch, victims, k)
  BY ScanSteps
<1>3. 0 \in T
  BY <1>2, FoldStarts
<1>4. ASSUME NEW k \in T PROVE k + 1 \in T
  <2>1. k \in Nat /\ (k <= Parallel => FoldInv(carry[k], batch, Scanned(batch, k)))
    OBVIOUS
  <2>2. ASSUME k + 1 <= Parallel PROVE FoldInv(carry[k + 1], batch, Scanned(batch, k + 1))
    <3> DEFINE m == k + 1
               i == ExistingFirst(batch)[m]
               D == Scanned(batch, k)
    <3>1. m \in 1..Parallel /\ m - 1 = k /\ k <= Parallel
      BY <1>1, <2>1, <2>2
    <3>2. FoldInv(carry[k], batch, D)
      BY <2>1, <3>1
    <3> HIDE DEF m
    <3>3. /\ i \in 1..Parallel /\ D \in SUBSET (1..Parallel) /\ i \notin D
          /\ Scanned(batch, m) = D \cup {i}
          /\ \A j \in D : batch[j].slot = 0 => batch[i].slot = 0 /\ j < i
          /\ victims[i] \in Slots
          /\ carry[m] = StoreGroup(carry[k], batch, i, victims[i])
      BY <1>2, <3>1 DEF StepOK
    <3> HIDE DEF i, D, carry
    <3>4. FoldInv(StoreGroup(carry[k], batch, i, victims[i]), batch, D \cup {i})
      BY <1>1, <3>2, <3>3, StoreKeeps
    <3>5. QED
      BY <3>3, <3>4 DEF m
  <2>3. QED
    BY <2>1, <2>2
<1>5. T = Nat
  <2>1. T \in SUBSET Nat
    OBVIOUS
  <2> HIDE DEF T
  <2>2. QED
    BY <1>3, <1>4, <2>1, SetInduction
<1>6. ASSUME NEW k \in 0..Parallel PROVE FoldInv(carry[k], batch, Scanned(batch, k))
  <2>1. k \in Nat /\ k <= Parallel
    BY <1>1
  <2>2. k \in T
    BY <1>5, <2>1
  <2>3. QED
    BY <2>1, <2>2
<1>7. QED
  BY <1>6

(* What the scan of a whole batch leaves. *)
LEMMA BatchKeeps ==
  ASSUME LevelBufferAssumption, LevelInv, NEW batch, BatchOK(batch),
         NEW victims \in [1..Parallel -> Slots]
  PROVE  FoldInv(UpdateBatch(batch, victims), batch, 1..Parallel)
<1>1. Parallel \in 0..Parallel
  BY DEF LevelBufferAssumption
<1>2. FoldInv(Scan(batch, victims)[Parallel], batch, Scanned(batch, Parallel))
  BY <1>1, FoldKeeps
<1>3. UpdateBatch(batch, victims) = Scan(batch, victims)[Parallel] /\ Scanned(batch, Parallel) = 1..Parallel
  BY ScanSteps
<1>4. QED
  BY <1>2, <1>3

-----------------------------------------------------------------------------
(* Sums over rows are pairs of numbers, and an empty one is of zeros. *)
LEMMA SumsArePairs ==
  ASSUME LevelBufferAssumption, LevelTypeOK, NEW batch, BatchOK(batch), NEW S \in SUBSET (1..Width(batch))
  PROVE  Sums(batch, S) \in Pairs /\ Sums(batch, {}) = <<0, 0>>
<1>1. ASSUME NEW c \in {1, 2}
      PROVE  SumFunctionOnSet(Told(batch, c), S) \in Nat
  <2>1. IsFiniteSet(1..Width(batch)) /\ \A r \in 1..Width(batch) : Told(batch, c)[r] \in Nat
    BY ToldIsNat
  <2>2. QED
    BY <2>1, SumNat
<1>2. QED
  BY <1>1, SumEmpty DEF Sums, Pairs

(* Every entry the scan leaves is typed. *)
LEMMA EntriesTyped ==
  ASSUME LevelBufferAssumption, LevelInv, NEW batch, BatchOK(batch),
         NEW s, FoldInv(s, batch, 1..Parallel), NEW t \in DOMAIN s.buffer
  PROVE  /\ s.buffer[t].level \in Mazes
         /\ s.buffer[t].gen \in Nat
         /\ s.buffer[t].counts \in Pairs
<1>1. LevelTypeOK /\ t \in Slots /\ s.placed \in [1..Parallel -> Places] /\ Parallel \in Nat
  BY DEF LevelInv, FoldInv, LevelBufferAssumption
<1>2. OldEntry(s, batch, 1..Parallel, t) \/ NewEntry(s, batch, 1..Parallel, t)
  BY DEF FoldInv
<1>3. CASE OldEntry(s, batch, 1..Parallel, t)
  <2>1. Part(batch, t, 1..Parallel) \subseteq 1..Width(batch)
    BY <1>1, ToldIsNat DEF Part
  <2>2. SeenSince(t) \subseteq 1..Width(batch)
    BY <1>1, ToldIsNat DEF SeenSince, Width
  <2>3. Sums(batch, SeenSince(t) \cup Part(batch, t, 1..Parallel)) \in Pairs
    BY <1>1, <2>1, <2>2, SumsArePairs
  <2>4. plrBuffer[t].level \in Mazes /\ plrBuffer[t].gen \in Nat
    BY <1>1, <1>3 DEF OldEntry, LevelTypeOK
  <2>5. QED
    BY <1>3, <2>3, <2>4 DEF OldEntry
<1>4. CASE NewEntry(s, batch, 1..Parallel, t)
  <2>1. PICK i \in 1..Parallel : /\ s.placed[i] = <<t, s.buffer[t].gen>>
                                /\ s.buffer[t].level = batch[i].level
                                /\ s.buffer[t].counts = batch[i].outcome
    BY <1>4 DEF NewEntry
  <2>2. batch[i] \in Group
    BY DEF BatchOK
  <2>3. batch[i].level \in Mazes /\ batch[i].outcome \in GroupOutcomes
    BY <2>2 DEF Group
  <2>4. batch[i].outcome \in Pairs
    BY <2>3 DEF LevelBufferAssumption, Pairs
  <2>5. s.placed[i] \in Places
    BY <1>1
  <2>6. s.buffer[t].gen \in Nat
    BY <2>1, <2>5 DEF Places
  <2>7. QED
    BY <2>1, <2>3, <2>4, <2>6
<1>5. QED
  BY <1>2, <1>3, <1>4

(* The rows a cycle writes, as far as evidence goes. *)
WrittenRow(batch, i, after, row) ==
  /\ row.level = batch[i].level /\ row.current = batch[i].outcome
  /\ (row.pre = << >>) <=> (batch[i].slot = 0)
  /\ batch[i].slot = 0 => row.post = after.placed[i]
  /\ WholeGroup(batch[i]) => ((row.disposition = "duplicate_new_rejected") <=> RepeatsNew(batch, i))

(* They are rows of the ledger, and say this of their groups. *)
LEMMA RowsAreWritten ==
  ASSUME LevelBufferAssumption, LevelInv, NEW branch \in {"new", "replay"}, NEW batch, BatchOK(batch),
         NEW after, FoldInv(after, batch, 1..Parallel), NEW i \in 1..Parallel,
         cycleClock' \in [iters : Nat, updates : Nat]
  PROVE  /\ TelemetryRow(branch, batch, i, after) \in EventRow
         /\ WrittenRow(batch, i, after, TelemetryRow(branch, batch, i, after))
<1> DEFINE g == batch[i]
           pre == IF g.slot = 0 THEN << >> ELSE <<g.slot, plrBuffer[g.slot].gen>>
           post == IF g.slot = 0 THEN after.placed[i] ELSE pre
           persists == Persists(post, after)
           before == IF g.slot = 0 THEN <<0, 0>> ELSE plrBuffer[g.slot].counts
           label == Disposition(batch, i, persists, after)
           ends == IF persists THEN after.buffer[post[1]].counts
                   ELSE IF label = "inserted_then_evicted" THEN Plus(before, g.outcome) ELSE before
           row == TelemetryRow(branch, batch, i, after)
<1>1. row = [level |-> g.level, source |-> branch, current |-> g.outcome, pre |-> pre, post |-> post,
             before |-> before, disposition |-> label, persisted |-> persists, after |-> ends,
             clock |-> cycleClock, clockAfter |-> cycleClock']
  BY DEF TelemetryRow
<1>2. LevelTypeOK /\ g \in Group /\ (g.slot # 0 => g.slot \in Filled)
  BY DEF LevelInv, BatchOK
<1>3. g.level \in Mazes /\ g.outcome \in GroupOutcomes /\ g.outcome \in Pairs
  <2>1. g.level \in Mazes /\ g.outcome \in GroupOutcomes
    BY <1>2 DEF Group
  <2>2. GroupOutcomes \subseteq Pairs
    BY DEF LevelBufferAssumption, Pairs
  <2>3. QED
    BY <2>1, <2>2
<1>4. pre \in Places /\ before \in Pairs /\ ((pre = << >>) <=> (g.slot = 0))
  <2>1. CASE g.slot = 0
    BY <2>1 DEF Places, Pairs
  <2>2. CASE g.slot # 0
    <3>1. g.slot \in Slots /\ plrBuffer[g.slot].gen \in Nat /\ plrBuffer[g.slot].counts \in Pairs
      BY <1>2, <2>2 DEF LevelTypeOK
    <3>2. <<g.slot, plrBuffer[g.slot].gen>> \in Places /\ <<g.slot, plrBuffer[g.slot].gen>> # << >>
      BY <3>1 DEF Places
    <3>3. QED
      BY <2>2, <3>1, <3>2
  <2>3. QED
    BY <2>1, <2>2
<1>5. post \in Places /\ (g.slot = 0 => post = after.placed[i])
  <2>1. after.placed[i] \in Places
    BY DEF FoldInv
  <2>2. QED
    BY <1>4, <2>1
<1>6. label \in Labels /\ (WholeGroup(g) => ((label = "duplicate_new_rejected") <=> RepeatsNew(batch, i)))
  <2> HIDE DEF g, pre, post, persists
  <2>1. label = IF ~WholeGroup(g) THEN "incomplete_rejected"
                ELSE IF RepeatsNew(batch, i) THEN "duplicate_new_rejected"
                ELSE IF g.slot # 0 THEN "updated"
                ELSE IF after.placed[i] = << >> THEN "valid_not_persisted"
                ELSE IF persists THEN "inserted" ELSE "inserted_then_evicted"
    BY DEF Disposition, g
  <2> HIDE DEF label
  <2>3. label \in Labels
    BY <2>1 DEF Labels
  <2>4. WholeGroup(g) => ((label = "duplicate_new_rejected") <=> RepeatsNew(batch, i))
    BY <2>1
  <2>5. QED
    BY <2>3, <2>4
<1>7. persists \in BOOLEAN
  BY DEF Persists
<1> HIDE DEF g, pre, before, label
<1>8. ends \in Pairs
  <2>1. Plus(before, g.outcome) \in Pairs
    BY <1>3, <1>4 DEF Plus, Pairs
  <2>2. persists => after.buffer[post[1]].counts \in Pairs
    BY EntriesTyped DEF Persists
  <2>3. QED
    BY <1>4, <2>1, <2>2
<1>9. cycleClock \in [iters : Nat, updates : Nat]
  BY <1>2 DEF LevelTypeOK
<1> HIDE DEF post, persists, ends, row
<1>10. row \in EventRow
  BY <1>1, <1>3, <1>4, <1>5, <1>6, <1>7, <1>8, <1>9 DEF EventRow
<1>11. row.level = g.level /\ row.current = g.outcome /\ row.pre = pre /\ row.post = post /\ row.disposition = label
  BY <1>1
<1>12. WrittenRow(batch, i, after, row)
  BY <1>4, <1>5, <1>6, <1>11 DEF WrittenRow, g
<1>13. QED
  BY <1>10, <1>12 DEF row

(* The ledger after a cycle: the rows it had and those of the batch. *)
LedgerGrows(batch, after) ==
  /\ telemetry' \in Seq(EventRow) /\ Rows' = 1..Width(batch)
  /\ \A r \in Rows : telemetry'[r] = telemetry[r]
  /\ \A i \in 1..Parallel : WrittenRow(batch, i, after, telemetry'[Len(telemetry) + i])

(* The new rows are those the writer makes. *)
WritesRows(branch, batch, after) ==
  \A i \in 1..Parallel : telemetry'[Len(telemetry) + i] = TelemetryRow(branch, batch, i, after)

(* A cycle's ledger is such a one. *)
LEMMA CycleWrites ==
  ASSUME LevelBufferAssumption, LevelInv, NEW branch \in {"new", "replay"}, NEW batch, BatchOK(batch),
         NEW victims \in [1..Parallel -> Slots], RunCycle(branch, batch, victims)
  PROVE  /\ cycleClock' \in [iters : Nat, updates : Nat]
         /\ LedgerGrows(batch, UpdateBatch(batch, victims))
         /\ WritesRows(branch, batch, UpdateBatch(batch, victims))
<1> DEFINE n == Len(telemetry)
           after == UpdateBatch(batch, victims)
           new == [i \in 1..Parallel |-> TelemetryRow(branch, batch, i, after)]
<1>1. n \in Nat /\ Parallel \in Nat /\ telemetry \in Seq(EventRow) /\ LevelTypeOK
  BY DEF LevelInv, LevelTypeOK, LevelBufferAssumption
<1>2. cycleClock' \in [iters : Nat, updates : Nat]
  <2>1. cycleClock.iters \in Nat /\ cycleClock.updates \in Nat
    BY <1>1 DEF LevelTypeOK
  <2>2. cycleClock' = [iters |-> cycleClock.iters + 1,
                       updates |-> cycleClock.updates + IF branch = "replay" THEN 1 ELSE 0]
    BY DEF RunCycle
  <2>3. cycleClock.iters + 1 \in Nat /\ cycleClock.updates + (IF branch = "replay" THEN 1 ELSE 0) \in Nat
    BY <2>1
  <2>4. QED
    BY <2>2, <2>3
<1>3. FoldInv(after, batch, 1..Parallel)
  BY BatchKeeps
<1>4. telemetry' = telemetry \o new
  BY DEF RunCycle
<1> HIDE DEF after
<1>5. \A i \in 1..Parallel : /\ TelemetryRow(branch, batch, i, after) \in EventRow
                             /\ WrittenRow(batch, i, after, TelemetryRow(branch, batch, i, after))
  BY <1>2, <1>3, RowsAreWritten
<1>6. /\ new \in [1..Parallel -> EventRow]
      /\ \A i \in 1..Parallel : /\ new[i] = TelemetryRow(branch, batch, i, after)
                               /\ WrittenRow(batch, i, after, new[i])
  BY <1>5
<1> HIDE DEF new
<1>7. new \in Seq(EventRow) /\ Len(new) = Parallel
  BY <1>1, <1>6, FunctionIsSequence
<1>8. /\ telemetry' \in Seq(EventRow) /\ Len(telemetry') = n + Parallel
      /\ \A r \in 1..(n + Parallel) : telemetry'[r] = IF r <= n THEN telemetry[r] ELSE new[r - n]
  BY <1>1, <1>4, <1>7, ConcatProperties
<1>9. Rows' = 1..Width(batch)
  BY <1>8 DEF Rows, Width
<1>10. ASSUME NEW r \in Rows PROVE telemetry'[r] = telemetry[r]
  <2>1. r \in 1..(n + Parallel) /\ r <= n
    BY <1>1 DEF Rows
  <2>2. QED
    BY <1>8, <2>1
<1>11. ASSUME NEW i \in 1..Parallel
       PROVE  /\ telemetry'[n + i] = TelemetryRow(branch, batch, i, after)
              /\ WrittenRow(batch, i, after, telemetry'[n + i])
  <2>1. n + i \in 1..(n + Parallel) /\ ~(n + i <= n) /\ (n + i) - n = i
    BY <1>1
  <2>2. telemetry'[n + i] = new[i]
    BY <1>8, <2>1
  <2>3. QED
    BY <1>6, <2>2
<1>12. QED
  BY <1>2, <1>8, <1>9, <1>10, <1>11 DEF LedgerGrows, WritesRows, after

(* What the grown ledger tells of a set of its rows. *)
LEMMA GrownSums ==
  ASSUME LevelBufferAssumption, LevelInv, NEW batch, BatchOK(batch),
         NEW after, LedgerGrows(batch, after)
  PROVE  \A S \in SUBSET (1..Width(batch)) :
           <<SumFunctionOnSet([r \in S |-> telemetry'[r].current[1]], S),
             SumFunctionOnSet([r \in S |-> telemetry'[r].current[2]], S)>> = Sums(batch, S)
<1> SUFFICES ASSUME NEW S \in SUBSET (1..Width(batch))
             PROVE  <<SumFunctionOnSet([r \in S |-> telemetry'[r].current[1]], S),
                      SumFunctionOnSet([r \in S |-> telemetry'[r].current[2]], S)>> = Sums(batch, S)
  OBVIOUS
<1> DEFINE n == Len(telemetry)
<1>1. /\ IsFiniteSet(1..Width(batch)) /\ n \in Nat /\ Parallel \in Nat
      /\ Rows = 1..n /\ Width(batch) = n + Parallel
  BY ToldIsNat DEF LevelInv, Width
<1>2. IsFiniteSet(S)
  BY <1>1, FS_Subset
<1>3. ASSUME NEW r \in S, NEW c \in {1, 2} PROVE telemetry'[r].current[c] = Told(batch, c)[r]
  <2>1. r \in 1..Width(batch) /\ r \in Int
    OBVIOUS
  <2>2. CASE r <= n
    <3>1. r \in Rows
      BY <1>1, <2>1, <2>2
    <3>2. telemetry'[r] = telemetry[r]
      BY <3>1 DEF LedgerGrows
    <3>3. Told(batch, c)[r] = telemetry[r].current[c]
      BY <2>1, <2>2 DEF Told
    <3>4. QED
      BY <3>2, <3>3
  <2>3. CASE ~(r <= n)
    <3>1. r - n \in 1..Parallel /\ n + (r - n) = r
      BY <1>1, <2>1, <2>3
    <3>2. WrittenRow(batch, r - n, after, telemetry'[n + (r - n)])
      BY <3>1 DEF LedgerGrows
    <3>3. telemetry'[r].current = batch[r - n].outcome
      BY <3>1, <3>2 DEF WrittenRow
    <3>4. Told(batch, c)[r] = batch[r - n].outcome[c]
      BY <2>1, <2>3 DEF Told
    <3>5. QED
      BY <3>3, <3>4
  <2>4. QED
    BY <2>2, <2>3
<1>4. ASSUME NEW c \in {1, 2}
      PROVE  SumFunctionOnSet([r \in S |-> telemetry'[r].current[c]], S) = SumFunctionOnSet(Told(batch, c), S)
  <2> DEFINE f == [r \in S |-> telemetry'[r].current[c]]
  <2>1. \A r \in S : f[r] = Told(batch, c)[r]
    BY <1>3
  <2> HIDE DEF f
  <2>2. SumFunctionOnSet(f, S) = SumFunctionOnSet(Told(batch, c), S)
    BY <1>2, <2>1, SumCongruent
  <2>3. QED
    BY <2>2 DEF f
<1>5. QED
  BY <1>4 DEF Sums

(* A level that stays has been seen before, and in the whole groups of its slot. *)
LEMMA SeenOfOld ==
  ASSUME LevelBufferAssumption, LevelInv, NEW batch, BatchOK(batch),
         NEW after, LedgerGrows(batch, after), NEW t \in Filled,
         plrBuffer'[t].level = plrBuffer[t].level, plrBuffer'[t].gen = plrBuffer[t].gen
  PROVE  SeenSince(t)' = SeenSince(t) \cup Part(batch, t, 1..Parallel)
<1> DEFINE n == Len(telemetry)
           place == <<t, plrBuffer[t].gen>>
           level == plrBuffer[t].level
<1>1. /\ n \in Nat /\ Parallel \in Nat /\ Rows = 1..n /\ Width(batch) = n + Parallel
      /\ Rows' = 1..Width(batch) /\ t \in Slots /\ 0 \notin Slots
  <2>1. LevelTypeOK /\ t \in Slots
    BY DEF LevelInv, LevelTypeOK
  <2>2. n \in Nat /\ Parallel \in Nat /\ Rows = 1..n
    BY <2>1, ToldIsNat
  <2>3. Rows' = 1..Width(batch) /\ Width(batch) = n + Parallel /\ 0 \notin Slots
    BY DEF LedgerGrows, Width, Slots
  <2>4. QED
    BY <2>1, <2>2, <2>3
<1>2. \A r \in Rows : telemetry'[r] = telemetry[r]
  BY DEF LedgerGrows
<1>3. \A i \in 1..Parallel : WrittenRow(batch, i, after, telemetry'[n + i])
  BY DEF LedgerGrows
<1>4. PICK b \in Rows : CameIn(b, place)
  BY DEF LevelInv, InsertionsKnown
<1>5. \A r : r \in SeenSince(t)' <=>
        /\ r \in Rows' /\ telemetry'[r].level = level /\ telemetry'[r].current[2] = NEval
        /\ telemetry'[r].disposition # "duplicate_new_rejected"
        /\ \E q \in Rows' : q <= r /\ telemetry'[q].pre = << >> /\ telemetry'[q].post = place
  BY DEF SeenSince
<1>6. \A r : r \in SeenSince(t) <=>
        /\ r \in Rows /\ telemetry[r].level = level /\ telemetry[r].current[2] = NEval
        /\ telemetry[r].disposition # "duplicate_new_rejected"
        /\ \E q \in Rows : q <= r /\ telemetry[q].pre = << >> /\ telemetry[q].post = place
  BY DEF SeenSince
<1>7. ASSUME NEW r \in Rows PROVE r \in SeenSince(t)' <=> r \in SeenSince(t)
  <2>1. r \in Rows' /\ \A q \in Rows' : q <= r => q \in Rows
    BY <1>1
  <2>2. \A q \in Rows : q \in Rows' /\ telemetry'[q] = telemetry[q]
    BY <1>1, <1>2
  <2> HIDE DEF place, level
  <2>3. (\E q \in Rows' : q <= r /\ telemetry'[q].pre = << >> /\ telemetry'[q].post = place)
          <=> (\E q \in Rows : q <= r /\ telemetry[q].pre = << >> /\ telemetry[q].post = place)
    BY <2>1, <2>2
  <2>4. QED
    BY <1>5, <1>6, <2>1, <2>2, <2>3
<1>8. ASSUME NEW r \in (n + 1)..Width(batch)
      PROVE  r \in SeenSince(t)' <=> r \in Part(batch, t, 1..Parallel)
  <2> DEFINE i == r - n
  <2>1. i \in 1..Parallel /\ n + i = r /\ r \in Rows' /\ \A q \in Rows : q <= r /\ q \in Rows'
    BY <1>1
  <2>2. r \in Part(batch, t, 1..Parallel) <=> batch[i].slot = t /\ WholeGroup(batch[i])
    BY <2>1 DEF Part
  <2> HIDE DEF i
  <2>3. WrittenRow(batch, i, after, telemetry'[r])
    BY <1>3, <2>1
  <2>4. \E q \in Rows' : q <= r /\ telemetry'[q].pre = << >> /\ telemetry'[q].post = place
    BY <1>2, <1>4, <2>1 DEF CameIn
  <2>5. telemetry'[r].level = level <=> batch[i].slot = t
    <3>1. telemetry'[r].level = batch[i].level
      BY <2>3 DEF WrittenRow
    <3>2. batch[i].level = level => batch[i].slot = t
      BY <2>1 DEF BatchOK
    <3>3. batch[i].slot = t => batch[i].level = level
      BY <1>1, <2>1 DEF BatchOK
    <3>4. QED
      BY <3>1, <3>2, <3>3
  <2>6. telemetry'[r].current[2] = NEval <=> WholeGroup(batch[i])
    BY <2>3 DEF WrittenRow, WholeGroup
  <2>7. batch[i].slot = t /\ WholeGroup(batch[i]) => telemetry'[r].disposition # "duplicate_new_rejected"
    BY <1>1, <2>3 DEF WrittenRow, RepeatsNew
  <2>8. QED
    BY <1>5, <2>1, <2>2, <2>4, <2>5, <2>6, <2>7
<1>9. /\ \A r \in SeenSince(t)' : r \in Rows \/ r \in (n + 1)..Width(batch)
      /\ \A r \in Part(batch, t, 1..Parallel) : r \in (n + 1)..Width(batch)
      /\ \A r \in SeenSince(t) : r \in Rows
  <2>1. \A r \in 1..Width(batch) : r \in Rows \/ r \in (n + 1)..Width(batch)
    BY <1>1
  <2>2. QED
    BY <1>1, <1>5, <1>6, <2>1 DEF Part
<1> HIDE DEF n
<1>10. QED
  BY <1>7, <1>8, <1>9

(* A new level has been seen once. *)
LEMMA SeenOfNew ==
  ASSUME LevelBufferAssumption, LevelInv, NEW batch, BatchOK(batch),
         NEW after, FoldInv(after, batch, 1..Parallel), LedgerGrows(batch, after), plrBuffer' = after.buffer,
         NEW t \in DOMAIN after.buffer, NEW i \in 1..Parallel, Newly(batch, i),
         after.placed[i] = <<t, after.buffer[t].gen>>, after.buffer[t].level = batch[i].level
  PROVE  SeenSince(t)' = {Len(telemetry) + i}
<1> DEFINE n == Len(telemetry)
           place == <<t, after.buffer[t].gen>>
           level == batch[i].level
<1>1. /\ n \in Nat /\ Parallel \in Nat /\ Rows = 1..n /\ Width(batch) = n + Parallel
      /\ Rows' = 1..Width(batch)
  BY ToldIsNat DEF LevelInv, LevelTypeOK, Width, LedgerGrows
<1>2. \A r \in Rows : telemetry'[r] = telemetry[r]
  BY DEF LedgerGrows
<1>3. \A j \in 1..Parallel : WrittenRow(batch, j, after, telemetry'[n + j])
  BY DEF LedgerGrows
<1>4. \A r : r \in SeenSince(t)' <=>
        /\ r \in Rows' /\ telemetry'[r].level = level /\ telemetry'[r].current[2] = NEval
        /\ telemetry'[r].disposition # "duplicate_new_rejected"
        /\ \E q \in Rows' : q <= r /\ telemetry'[q].pre = << >> /\ telemetry'[q].post = place
  BY DEF SeenSince
<1>5. batch[i].slot = 0 /\ WholeGroup(batch[i]) /\ ~RepeatsNew(batch, i)
  BY DEF Newly, Counts
<1>6. ASSUME NEW q \in Rows', telemetry'[q].pre = << >>, telemetry'[q].post = place PROVE q = n + i
  <2>1. CASE q \in Rows
    <3>1. telemetry[q].pre = << >> /\ telemetry[q].post = place /\ place # << >> /\ place[1] = t
          /\ place[2] = after.buffer[t].gen
      BY <1>2, <1>6, <2>1
    <3>2. after.buffer[t].gen < generation[t]
      BY <2>1, <3>1 DEF LevelInv, InsertionsKnown
    <3>3. after.placed[i] # << >> /\ after.placed[i][1] = t /\ after.placed[i][2] = after.buffer[t].gen
      OBVIOUS
    <3>4. generation[after.placed[i][1]] <= after.placed[i][2]
      BY <1>5, <3>3 DEF FoldInv
    <3>5. generation[t] <= after.buffer[t].gen
      BY <3>3, <3>4
    <3>6. generation[t] \in Nat /\ after.buffer[t].gen \in Nat
      BY EntriesTyped DEF LevelInv, LevelTypeOK, FoldInv
    <3>7. QED
      BY <3>2, <3>5, <3>6
  <2>2. CASE q \notin Rows
    <3> DEFINE j == q - n
    <3>1. j \in 1..Parallel /\ n + j = q
      BY <1>1, <2>2
    <3> HIDE DEF j
    <3>2. WrittenRow(batch, j, after, telemetry'[q])
      BY <1>3, <3>1
    <3>3. batch[j].slot = 0 /\ after.placed[j] = place
      BY <1>6, <3>2 DEF WrittenRow
    <3>4. after.placed[i] # << >>
      OBVIOUS
    <3>5. i = j
      BY <1>5, <3>1, <3>3, <3>4 DEF FoldInv
    <3>6. QED
      BY <3>1, <3>5
  <2>3. QED
    BY <2>1, <2>2
<1>7. ASSUME NEW r \in SeenSince(t)' PROVE r = n + i
  <2>1. PICK q \in Rows' : q <= r /\ telemetry'[q].pre = << >> /\ telemetry'[q].post = place
    BY <1>4
  <2>2. q = n + i /\ r \in 1..Width(batch)
    BY <1>1, <1>4, <1>6, <2>1
  <2> DEFINE j == r - n
  <2>3. j \in 1..Parallel /\ n + j = r /\ i <= j
    <3>1. /\ n \in Nat /\ Parallel \in Nat /\ r \in 1..(n + Parallel) /\ n + i <= r /\ i \in 1..Parallel
      BY <1>1, <2>1, <2>2
    <3> HIDE DEF n
    <3>2. QED
      BY <3>1
  <2> HIDE DEF j, n
  <2>4. WrittenRow(batch, j, after, telemetry'[r])
    BY <1>3, <2>3
  <2>5. batch[j].level = batch[i].level /\ WholeGroup(batch[j]) /\ ~RepeatsNew(batch, j)
    BY <1>4, <2>4 DEF WrittenRow, WholeGroup
  <2>6. batch[j].slot = 0
    <3>1. SUFFICES ASSUME batch[j].slot # 0 PROVE FALSE
      OBVIOUS
    <3>2. batch[j].slot \in Filled /\ plrBuffer[batch[j].slot].level = batch[i].level
      BY <2>3, <2>5, <3>1 DEF BatchOK
    <3>3. batch[i].slot = batch[j].slot
      BY <3>2 DEF BatchOK
    <3>4. QED
      BY <1>5, <3>1, <3>3
  <2>7. ~(i < j)
    <3>1. SUFFICES ASSUME i < j PROVE FALSE
      OBVIOUS
    <3>2. i \in 1..(j - 1)
      BY <2>3, <3>1
    <3>3. QED
      BY <2>5, <2>6, <3>2 DEF RepeatsNew
  <2>8. j = i
    BY <2>3, <2>7
  <2>9. QED
    BY <2>3, <2>8
<1>8. n + i \in SeenSince(t)'
  <2>1. n + i \in Rows' /\ n + i <= n + i
    BY <1>1
  <2>2. WrittenRow(batch, i, after, telemetry'[n + i])
    BY <1>3
  <2>3. telemetry'[n + i].pre = << >> /\ telemetry'[n + i].post = place
    BY <1>5, <2>2 DEF WrittenRow
  <2>4. /\ telemetry'[n + i].level = level /\ telemetry'[n + i].current[2] = NEval
        /\ telemetry'[n + i].disposition # "duplicate_new_rejected"
    BY <1>5, <2>2 DEF WrittenRow, WholeGroup
  <2>5. QED
    BY <1>4, <2>1, <2>3, <2>4
<1>9. QED
  BY <1>7, <1>8

(* A cycle keeps the invariant. *)
LEMMA CycleKeeps ==
  ASSUME LevelBufferAssumption, LevelInv, NEW branch \in {"new", "replay"}, NEW batch, BatchOK(batch),
         NEW victims \in [1..Parallel -> Slots], RunCycle(branch, batch, victims)
  PROVE  LevelInv'
<1> DEFINE n == Len(telemetry)
           N == 1..Parallel
           after == UpdateBatch(batch, victims)
<1>1. FoldInv(after, batch, N)
  BY BatchKeeps
<1>2. cycleClock' \in [iters : Nat, updates : Nat] /\ LedgerGrows(batch, after)
  BY CycleWrites
<1>3. plrBuffer' = after.buffer /\ generation' = after.generation
  BY DEF RunCycle
<1> HIDE DEF after
<1>4. /\ n \in Nat /\ Parallel \in Nat /\ Rows = 1..n /\ Width(batch) = n + Parallel
      /\ Rows' = 1..Width(batch) /\ LevelTypeOK
  <2>1. LevelTypeOK
    BY DEF LevelInv
  <2>2. n \in Nat /\ Parallel \in Nat /\ Rows = 1..n
    BY <2>1, ToldIsNat
  <2>3. QED
    BY <1>2, <2>1, <2>2 DEF LedgerGrows, Width
<1>5. Filled' = DOMAIN after.buffer
  BY <1>3 DEF Filled
<1>6. \A t \in Filled' : OldEntry(after, batch, N, t) \/ NewEntry(after, batch, N, t)
  BY <1>1, <1>5 DEF FoldInv
<1>7. LevelTypeOK'
  <2>1. Filled' \subseteq Slots /\ generation' \in [Slots -> Nat]
    BY <1>1, <1>3, <1>5 DEF FoldInv
  <2>2. \A t \in Filled' : /\ plrBuffer'[t].level \in Mazes
                           /\ plrBuffer'[t].gen \in Nat
                           /\ plrBuffer'[t].counts \in Pairs
    BY <1>1, <1>3, <1>5, EntriesTyped
  <2>3. telemetry' \in Seq(EventRow)
    BY <1>2 DEF LedgerGrows
  <2>4. QED
    BY <1>2, <2>1, <2>2, <2>3 DEF LevelTypeOK
<1>8. LevelsApart'
  <2>1. ASSUME NEW t \in Filled', NEW u \in Filled', plrBuffer'[t].level = plrBuffer'[u].level,
               OldEntry(after, batch, N, t), NewEntry(after, batch, N, u)
        PROVE  FALSE
    <3>1. PICK i \in N : Newly(batch, i) /\ after.buffer[u].level = batch[i].level
      BY <2>1 DEF NewEntry
    <3>2. t \in Filled /\ plrBuffer[t].level = batch[i].level /\ batch[i].slot = 0
      BY <1>3, <2>1, <3>1 DEF OldEntry, Newly
    <3>3. batch[i].slot = t
      BY <3>2 DEF BatchOK
    <3>4. QED
      BY <1>4, <3>2, <3>3 DEF LevelTypeOK, Slots
  <2>2. ASSUME NEW t \in Filled', NEW u \in Filled', plrBuffer'[t].level = plrBuffer'[u].level,
               NewEntry(after, batch, N, t), NewEntry(after, batch, N, u)
        PROVE  t = u
    <3>1. PICK i \in N : /\ Newly(batch, i) /\ after.buffer[t].level = batch[i].level
                         /\ after.placed[i] = <<t, after.buffer[t].gen>>
      BY <2>2 DEF NewEntry
    <3>2. PICK j \in N : /\ Newly(batch, j) /\ after.buffer[u].level = batch[j].level
                         /\ after.placed[j] = <<u, after.buffer[u].gen>>
      BY <2>2 DEF NewEntry
    <3>3. batch[i].level = batch[j].level
      BY <1>3, <2>2, <3>1, <3>2
    <3>4. ~(i < j) /\ ~(j < i)
      <4>1. ASSUME i < j PROVE FALSE
        <5>1. i \in 1..(j - 1)
          BY <4>1
        <5>2. QED
          BY <3>2, <3>3, <5>1 DEF Newly, Counts, RepeatsNew
      <4>2. ASSUME j < i PROVE FALSE
        <5>1. j \in 1..(i - 1)
          BY <4>2
        <5>2. QED
          BY <3>1, <3>3, <5>1 DEF Newly, Counts, RepeatsNew
      <4>3. QED
        BY <4>1, <4>2
    <3>5. i = j
      BY <3>4
    <3>6. QED
      BY <3>1, <3>2, <3>5
  <2>3. ASSUME NEW t \in Filled', NEW u \in Filled', plrBuffer'[t].level = plrBuffer'[u].level,
               OldEntry(after, batch, N, t), OldEntry(after, batch, N, u)
        PROVE  t = u
    <3>1. t \in Filled /\ u \in Filled /\ plrBuffer[t].level = plrBuffer[u].level
      BY <1>3, <2>3 DEF OldEntry
    <3>2. QED
      BY <3>1 DEF LevelInv, LevelsApart
  <2>4. QED
    BY <1>6, <2>1, <2>2, <2>3 DEF LevelsApart
<1>9. ASSUME NEW i \in N
      PROVE  /\ n + i \in Rows' /\ (telemetry'[n + i].pre = << >> <=> batch[i].slot = 0)
             /\ (batch[i].slot = 0 => telemetry'[n + i].post = after.placed[i])
  <2>1. n + i \in Rows'
    BY <1>4
  <2>2. WrittenRow(batch, i, after, telemetry'[n + i])
    BY <1>2 DEF LedgerGrows
  <2>3. QED
    BY <2>1, <2>2 DEF WrittenRow
<1>10. \A r \in Rows : r \in Rows' /\ telemetry'[r] = telemetry[r]
  <2>1. \A r \in Rows : r \in Rows'
    BY <1>4
  <2>2. QED
    BY <1>2, <2>1 DEF LedgerGrows
<1>11. \A r \in Rows' : r \in Rows \/ \E i \in N : r = n + i
  <2>1. ASSUME NEW r \in Rows', r \notin Rows PROVE r - n \in N /\ r = n + (r - n)
    BY <1>4, <2>1
  <2> HIDE DEF n, N
  <2>2. QED
    BY <2>1
<1>12. InsertionsKnown'
  <2>1. ASSUME NEW r \in Rows', telemetry'[r].pre = << >>, telemetry'[r].post # << >>
        PROVE  telemetry'[r].post[2] < generation'[telemetry'[r].post[1]]
    <3>1. CASE r \in Rows
      <4> DEFINE p == telemetry[r].post
      <4>1. telemetry'[r].post = p /\ telemetry[r].pre = << >> /\ p # << >>
        BY <1>10, <2>1, <3>1
      <4>2. telemetry[r] \in EventRow
        BY <1>4, <3>1 DEF LevelTypeOK
      <4>3. p[1] \in Slots /\ p[2] \in Nat
        BY <4>1, <4>2 DEF EventRow, Places
      <4>4. p[2] < generation[p[1]]
        BY <3>1, <4>1 DEF LevelInv, InsertionsKnown
      <4>5. generation[p[1]] \in Nat /\ generation'[p[1]] \in Nat /\ generation[p[1]] <= generation'[p[1]]
        BY <1>1, <1>3, <1>4, <4>3 DEF FoldInv, LevelTypeOK
      <4> HIDE DEF p
      <4>6. p[2] < generation'[p[1]]
        BY <4>3, <4>4, <4>5
      <4>7. QED
        BY <4>1, <4>6
    <3>2. CASE r \notin Rows
      <4>1. PICK i \in N : r = n + i
        BY <1>11, <3>2
      <4>2. batch[i].slot = 0 /\ telemetry'[r].post = after.placed[i]
        BY <1>9, <2>1, <4>1
      <4>3. after.placed[i][2] < after.generation[after.placed[i][1]]
        BY <1>1, <2>1, <4>2 DEF FoldInv
      <4>4. QED
        BY <1>3, <4>2, <4>3
    <3>3. QED
      BY <3>1, <3>2
  <2>2. ASSUME NEW t \in Filled'
        PROVE  \E r \in Rows' : telemetry'[r].pre = << >> /\ telemetry'[r].post = <<t, plrBuffer'[t].gen>>
    <3>1. CASE OldEntry(after, batch, N, t)
      <4>1. t \in Filled /\ plrBuffer'[t].gen = plrBuffer[t].gen
        BY <1>3, <3>1 DEF OldEntry
      <4>2. PICK r \in Rows : telemetry[r].pre = << >> /\ telemetry[r].post = <<t, plrBuffer[t].gen>>
        BY <4>1 DEF LevelInv, InsertionsKnown, CameIn
      <4>3. QED
        BY <1>10, <4>1, <4>2
    <3>2. CASE NewEntry(after, batch, N, t)
      <4>1. PICK i \in N : batch[i].slot = 0 /\ after.placed[i] = <<t, after.buffer[t].gen>>
        BY <3>2 DEF NewEntry, Newly
      <4>2. n + i \in Rows' /\ telemetry'[n + i].pre = << >> /\ telemetry'[n + i].post = after.placed[i]
        BY <1>9, <4>1
      <4>3. QED
        BY <1>3, <4>1, <4>2
    <3>3. QED
      BY <1>6, <3>1, <3>2
  <2>3. QED
    BY <2>1, <2>2 DEF InsertionsKnown, CameIn
<1>13. ASSUME NEW t \in Filled' PROVE plrBuffer'[t].counts = Sums(batch, SeenSince(t)')
  <2>1. CASE OldEntry(after, batch, N, t)
    <3>1. /\ t \in Filled /\ plrBuffer'[t].level = plrBuffer[t].level /\ plrBuffer'[t].gen = plrBuffer[t].gen
          /\ plrBuffer'[t].counts = Sums(batch, SeenSince(t) \cup Part(batch, t, N))
      BY <1>3, <2>1 DEF OldEntry
    <3>2. SeenSince(t)' = SeenSince(t) \cup Part(batch, t, N)
      BY <1>2, <3>1, SeenOfOld
    <3>3. QED
      BY <3>1, <3>2
  <2>2. CASE NewEntry(after, batch, N, t)
    <3>1. PICK i \in N : /\ Newly(batch, i) /\ after.placed[i] = <<t, after.buffer[t].gen>>
                         /\ after.buffer[t].level = batch[i].level
                         /\ after.buffer[t].counts = batch[i].outcome
      BY <2>2 DEF NewEntry
    <3>2. SeenSince(t)' = {n + i}
      <4>1. t \in DOMAIN after.buffer /\ i \in 1..Parallel
        BY <1>5
      <4>2. FoldInv(after, batch, 1..Parallel) /\ LedgerGrows(batch, after) /\ plrBuffer' = after.buffer
        BY <1>1, <1>2, <1>3
      <4> HIDE DEF N
      <4>3. SeenSince(t)' = {Len(telemetry) + i}
        BY <3>1, <4>1, <4>2, SeenOfNew, SMTT(60)
      <4>4. QED
        BY <4>3
    <3>3. Sums(batch, {} \cup {n + i}) = Plus(Sums(batch, {}), batch[i].outcome)
      BY <1>4, SumsGrow
    <3>4. Sums(batch, {}) = <<0, 0>>
      BY <1>4, SumsArePairs
    <3>5. batch[i].outcome \in Pairs
      <4>1. after.buffer[t].counts \in Pairs
        BY <1>1, <1>5, EntriesTyped
      <4>2. QED
        BY <3>1, <4>1
    <3>6. Plus(<<0, 0>>, batch[i].outcome) = batch[i].outcome
      <4> DEFINE o == batch[i].outcome
      <4>1. o[1] \in Nat /\ o[2] \in Nat /\ o = <<o[1], o[2]>>
        BY <3>5 DEF Pairs
      <4> HIDE DEF o
      <4>2. Plus(<<0, 0>>, o) = o
        BY <4>1 DEF Plus
      <4>3. QED
        BY <4>2 DEF o
    <3>7. {} \cup {n + i} = {n + i}
      OBVIOUS
    <3>8. plrBuffer'[t].counts = batch[i].outcome
      BY <1>3, <3>1
    <3> HIDE DEF n
    <3>9. QED
      BY <3>2, <3>3, <3>4, <3>6, <3>7, <3>8
  <2>3. QED
    BY <1>6, <2>1, <2>2
<1>14. EvidenceStaysWithLevel'
  <2>1. ASSUME NEW t \in Filled' PROVE plrBuffer'[t].counts = Evidence(SeenSince(t))'
    <3> DEFINE S == SeenSince(t)'
    <3>1. S \in SUBSET (1..Width(batch))
      BY <1>4 DEF SeenSince
    <3>2. Evidence(SeenSince(t))' =
            <<SumFunctionOnSet([r \in S |-> telemetry'[r].current[1]], S),
              SumFunctionOnSet([r \in S |-> telemetry'[r].current[2]], S)>>
      BY DEF Evidence
    <3> HIDE DEF S
    <3>3. Evidence(SeenSince(t))' = Sums(batch, S)
      BY <1>2, <3>1, <3>2, GrownSums
    <3>4. QED
      BY <1>13, <3>3 DEF S
  <2>2. QED
    BY <2>1 DEF EvidenceStaysWithLevel
<1>15. QED
  BY <1>7, <1>8, <1>12, <1>14 DEF LevelInv

(* The empty buffer satisfies the invariant. *)
LEMMA LevelInvInit == ASSUME LevelBufferAssumption, LevelInit PROVE LevelInv
<1>1. Filled = {} /\ Rows = {} /\ telemetry \in Seq(EventRow)
  BY DEF LevelInit, Filled, Rows
<1>2. LevelTypeOK
  BY <1>1 DEF LevelInit, LevelTypeOK
<1>3. LevelsApart /\ InsertionsKnown /\ EvidenceStaysWithLevel
  BY <1>1 DEF LevelsApart, InsertionsKnown, EvidenceStaysWithLevel
<1>4. QED
  BY <1>2, <1>3 DEF LevelInv

(* What a cycle does to its batch: in a replay every group has a slot. *)
RunsBatch(branch, batch, victims) ==
  /\ BatchOK(batch) /\ RunCycle(branch, batch, victims)
  /\ branch = "replay" => \A i \in 1..Parallel : batch[i].slot # 0
RunsACycle ==
  \E branch \in {"new", "replay"} : \E batch : \E victims \in [1..Parallel -> Slots] :
    RunsBatch(branch, batch, victims)

(* Every cycle is of a batch whose groups know the slot of their level. *)
LEMMA CyclesRunBatches == ASSUME LevelBufferAssumption, LevelInv, LevelNext PROVE RunsACycle
<1>1. LevelTypeOK /\ LevelsApart /\ 0 \notin Slots
  BY DEF LevelInv, Slots
<1>2. ASSUME NEW l, NEW s \in Filled, plrBuffer[s].level = l PROVE SlotOfLevel(l) = s
  <2>1. SlotOfLevel(l) = CHOOSE t \in Filled : plrBuffer[t].level = l
    BY <1>2 DEF SlotOfLevel
  <2>2. SlotOfLevel(l) \in Filled /\ plrBuffer[SlotOfLevel(l)].level = l
    BY <1>2, <2>1
  <2>3. QED
    BY <1>1, <1>2, <2>2 DEF LevelsApart
<1>3. ASSUME NEW l PROVE SlotOfLevel(l) # 0 => SlotOfLevel(l) \in Filled /\ plrBuffer[SlotOfLevel(l)].level = l
  <2>1. CASE \E s \in Filled : plrBuffer[s].level = l
    BY <1>2, <2>1
  <2>2. CASE ~\E s \in Filled : plrBuffer[s].level = l
    BY <2>2 DEF SlotOfLevel
  <2>3. QED
    BY <2>1, <2>2
<1>4. \A s \in Filled : s \in Nat /\ s \in Slots
  BY <1>1 DEF LevelTypeOK, Slots
<1>5. CASE NewCycle
  <2>1. PICK made \in [1..Parallel -> Mazes], outcomes \in [1..Parallel -> GroupOutcomes],
             victims \in [1..Parallel -> Slots] :
          RunCycle("new", [i \in 1..Parallel |-> [level |-> made[i], slot |-> SlotOfLevel(made[i]),
                                                  outcome |-> outcomes[i]]], victims)
    BY <1>5 DEF NewCycle
  <2> DEFINE batch == [i \in 1..Parallel |-> [level |-> made[i], slot |-> SlotOfLevel(made[i]),
                                             outcome |-> outcomes[i]]]
  <2>2. \A i \in 1..Parallel : /\ batch[i].level = made[i] /\ batch[i].slot = SlotOfLevel(made[i])
                               /\ batch[i] \in Group
    <3>1. ASSUME NEW i \in 1..Parallel PROVE SlotOfLevel(made[i]) \in Nat
      BY <1>3, <1>4
    <3>2. QED
      BY <3>1 DEF Group
  <2>3. DOMAIN batch = 1..Parallel /\ batch = [i \in 1..Parallel |-> batch[i]]
    OBVIOUS
  <2>4. RunCycle("new", batch, victims)
    BY <2>1
  <2> HIDE DEF batch
  <2>5. BatchOK(batch)
    <3>1. batch \in [1..Parallel -> Group]
      BY <2>2, <2>3
    <3>2. ASSUME NEW i \in 1..Parallel, batch[i].slot # 0
          PROVE  batch[i].slot \in Filled /\ plrBuffer[batch[i].slot].level = batch[i].level
      BY <1>3, <2>2, <3>2
    <3>3. ASSUME NEW i \in 1..Parallel, NEW s \in Filled, plrBuffer[s].level = batch[i].level
          PROVE  batch[i].slot = s
      BY <1>2, <2>2, <3>3
    <3>4. QED
      BY <3>1, <3>2, <3>3 DEF BatchOK
  <2>6. RunsBatch("new", batch, victims)
    BY <2>4, <2>5 DEF RunsBatch
  <2>7. QED
    BY <2>6 DEF RunsACycle
<1>6. CASE ReplayCycle
  <2>1. PICK drawn \in [1..Parallel -> Filled], outcomes \in [1..Parallel -> GroupOutcomes] :
          RunCycle("replay", [i \in 1..Parallel |-> [level |-> plrBuffer[drawn[i]].level, slot |-> drawn[i],
                                                     outcome |-> outcomes[i]]], drawn)
    BY <1>6 DEF ReplayCycle
  <2> DEFINE batch == [i \in 1..Parallel |-> [level |-> plrBuffer[drawn[i]].level, slot |-> drawn[i],
                                             outcome |-> outcomes[i]]]
  <2>2. \A i \in 1..Parallel : /\ batch[i].level = plrBuffer[drawn[i]].level /\ batch[i].slot = drawn[i]
                               /\ drawn[i] \in Filled /\ batch[i] \in Group
    <3>1. ASSUME NEW i \in 1..Parallel PROVE plrBuffer[drawn[i]].level \in Mazes /\ drawn[i] \in Nat
      BY <1>1, <1>4 DEF LevelTypeOK
    <3>2. QED
      BY <3>1 DEF Group
  <2>3. batch = [i \in 1..Parallel |-> batch[i]] /\ drawn \in [1..Parallel -> Slots]
    BY <1>4
  <2>4. RunCycle("replay", batch, drawn)
    BY <2>1
  <2> HIDE DEF batch
  <2>5. BatchOK(batch)
    <3>1. batch \in [1..Parallel -> Group]
      BY <2>2, <2>3
    <3>2. ASSUME NEW i \in 1..Parallel, NEW s \in Filled, plrBuffer[s].level = batch[i].level
          PROVE  batch[i].slot = s
      BY <1>1, <2>2, <3>2 DEF LevelsApart
    <3>3. QED
      BY <2>2, <3>1, <3>2 DEF BatchOK
  <2>6. \A i \in 1..Parallel : batch[i].slot # 0
    BY <1>1, <1>4, <2>2
  <2>7. RunsBatch("replay", batch, drawn)
    BY <2>4, <2>5, <2>6 DEF RunsBatch
  <2>8. QED
    BY <2>3, <2>7 DEF RunsACycle
<1>7. QED
  BY <1>5, <1>6 DEF LevelNext

(* Every step keeps the invariant. *)
LEMMA LevelInvStep == ASSUME LevelBufferAssumption, LevelInv, [LevelNext]_levelVars PROVE LevelInv'
<1>1. CASE LevelNext
  <2>1. PICK branch \in {"new", "replay"} : \E batch : \E victims \in [1..Parallel -> Slots] :
          RunsBatch(branch, batch, victims)
    BY <1>1, CyclesRunBatches DEF RunsACycle
  <2>2. PICK batch : \E victims \in [1..Parallel -> Slots] : RunsBatch(branch, batch, victims)
    BY <2>1
  <2>3. PICK victims \in [1..Parallel -> Slots] : RunsBatch(branch, batch, victims)
    BY <2>2
  <2>4. BatchOK(batch) /\ RunCycle(branch, batch, victims)
    BY <2>3 DEF RunsBatch
  <2>5. QED
    BY <2>4, CycleKeeps
<1>2. CASE UNCHANGED levelVars
  <2>1. /\ plrBuffer' = plrBuffer /\ generation' = generation /\ cycleClock' = cycleClock
        /\ telemetry' = telemetry
    BY <1>2 DEF levelVars
  <2>2. LevelTypeOK' /\ LevelsApart' /\ InsertionsKnown'
    BY <2>1 DEF LevelInv, LevelTypeOK, LevelsApart, InsertionsKnown, CameIn, Filled, Rows
  <2>3. EvidenceStaysWithLevel'
    <3>1. Filled' = Filled /\ Rows' = Rows
      BY <2>1 DEF Filled, Rows
    <3>2. ASSUME NEW s \in Filled PROVE Evidence(SeenSince(s))' = Evidence(SeenSince(s))
      <4>1. SeenSince(s)' = SeenSince(s)
        BY <2>1, <3>1 DEF SeenSince
      <4>2. QED
        BY <2>1, <4>1 DEF Evidence
    <3>3. QED
      BY <2>1, <3>1, <3>2 DEF LevelInv, EvidenceStaysWithLevel
  <2>4. QED
    BY <2>2, <2>3 DEF LevelInv
<1>3. QED
  BY <1>1, <1>2

(***************************************************************************)
(* The buffer counts for a level what was seen of it since it came into    *)
(* its slot, and no level is in the buffer twice: for any groups of any    *)
(* cycles, whatever slots the upstream manager gives up.                   *)
(***************************************************************************)
THEOREM EvidenceStaysWithLevelHolds == LevelSpec => []EvidenceStaysWithLevel
<1>1. LevelInit => LevelInv
  BY LevelBufferAssumption, LevelInvInit
<1>2. LevelInv /\ [LevelNext]_levelVars => LevelInv'
  BY LevelBufferAssumption, LevelInvStep
<1>3. LevelInv => EvidenceStaysWithLevel
  BY DEF LevelInv
<1>4. QED
  BY <1>1, <1>2, <1>3, PTL DEF LevelSpec

-----------------------------------------------------------------------------
(* The masses of the ranks. *)

(* Rising products are integers, and positive from a positive number on. *)
LEMMA RisingIsInt ==
  ASSUME NEW x \in Int, NEW n \in Nat
  PROVE  Rising(x, n) \in Int /\ (x >= 1 => Rising(x, n) >= 1)
<1> DEFINE Solves(h) == h = [k \in 0..n |-> IF k = 0 THEN 1 ELSE h[k - 1] * (x + k - 1)]
           f == CHOOSE h : Solves(h)
           step == [k \in 1..n |-> [y \in Int |-> y * (x + k - 1)]]
<1>1. \A y, z \in Int : y * z \in Int
  OBVIOUS
<1>2. ASSUME NEW k \in 1..n, NEW y \in Int PROVE y * (x + k - 1) \in Int
  <2>1. x + k - 1 \in Int
    OBVIOUS
  <2>2. QED
    BY <1>1, <2>1
<1>3. step \in [1..n -> [Int -> Int]] /\ \A k \in 1..n : \A y \in Int : step[k][y] = y * (x + k - 1)
  BY <1>2
<1> HIDE DEF step
<1>4. \E h : Solves(h)
  <2>1. PICK h \in [0..n -> Int] : h[0] = 1 /\ \A k \in 1..n : h[k] = step[k][h[k - 1]]
    <3>1. 1 \in Int /\ step \in [1..n -> [Int -> Int]]
      BY <1>3
    <3> HIDE DEF Solves
    <3>2. QED
      BY <3>1, IndexedRecursion
  <2>2. ASSUME NEW k \in 0..n PROVE h[k] = IF k = 0 THEN 1 ELSE h[k - 1] * (x + k - 1)
    <3>1. CASE k = 0
      BY <2>1, <3>1
    <3>2. CASE k # 0
      <4>1. k \in 1..n /\ k - 1 \in 0..n
        BY <3>2
      <4>2. h[k - 1] \in Int
        BY <4>1
      <4>3. h[k] = h[k - 1] * (x + k - 1)
        BY <1>3, <2>1, <4>1, <4>2
      <4>4. QED
        BY <3>2, <4>3
    <3>3. QED
      BY <3>1, <3>2
  <2>3. h = [k \in 0..n |-> h[k]]
    OBVIOUS
  <2>4. QED
    BY <2>2, <2>3
<1>5. \A k \in 0..n : f[k] = IF k = 0 THEN 1 ELSE f[k - 1] * (x + k - 1)
  <2>1. Solves(f)
    BY <1>4
  <2> HIDE DEF f
  <2>2. QED
    BY <2>1
<1>6. Rising(x, n) = f[n]
  BY DEF Rising
<1> HIDE DEF f
<1> DEFINE T == {k \in Nat : k <= n => f[k] \in Int /\ (x >= 1 => f[k] >= 1)}
<1>7. 0 \in T
  BY <1>5
<1>8. ASSUME NEW k \in T PROVE k + 1 \in T
  <2>1. k \in Nat /\ k + 1 \in Nat
    OBVIOUS
  <2>2. ASSUME k + 1 <= n PROVE f[k + 1] \in Int /\ (x >= 1 => f[k + 1] >= 1)
    <3> DEFINE y == f[k]
               z == x + (k + 1) - 1
    <3>1. y \in Int /\ (x >= 1 => y >= 1)
      BY <2>1, <2>2
    <3>2. k + 1 \in 0..n /\ k + 1 # 0 /\ (k + 1) - 1 = k
      BY <2>1, <2>2
    <3>3. f[k + 1] = y * z
      BY <1>5, <3>2
    <3>4. z \in Int /\ (x >= 1 => z >= 1)
      BY <2>1
    <3> HIDE DEF y, z
    <3>5. \A a, b \in Int : a >= 1 /\ b >= 1 => a * b >= 1
      BY SMT
    <3>6. QED
      BY <1>1, <3>1, <3>3, <3>4, <3>5
  <2>3. QED
    BY <2>1, <2>2
<1>9. T = Nat
  <2>1. T \in SUBSET Nat
    OBVIOUS
  <2> HIDE DEF T
  <2>2. QED
    BY <1>7, <1>8, <2>1, SetInduction
<1>10. n \in T
  <2> HIDE DEF T
  <2>1. QED
    BY <1>9
<1>11. QED
  BY <1>6, <1>10

(* A score is a fraction. *)
LEMMA ActivityIsFraction ==
  ASSUME LevelBufferAssumption, NEW c \in Pairs
  PROVE  Activity(c).num \in Int /\ Activity(c).den \in Int /\ Activity(c).den >= 1
<1> DEFINE a == c[1] + 1
           b == c[2] - c[1] + 1
           p == Rising(a + b + 1, NEval - 1)
           q == Rising(b, NEval)
<1>1. a \in Int /\ b \in Int /\ a + b \in Int /\ a + b >= 1 /\ a + b + 1 \in Int /\ NEval \in Nat /\ NEval - 1 \in Nat
  BY DEF Pairs, LevelBufferAssumption
<1>2. p \in Int /\ q \in Int
  BY <1>1, RisingIsInt
<1>3. Rising(a + b, NEval) \in Int /\ Rising(a + b, NEval) >= 1
  BY <1>1, RisingIsInt
<1>4. Activity(c) = [num |-> b * p - q, den |-> Rising(a + b, NEval)]
  BY DEF Activity
<1> HIDE DEF a, b, p, q
<1>5. \A y, z \in Int : y * z \in Int /\ y - z \in Int
  OBVIOUS
<1>6. b * p - q \in Int
  BY <1>1, <1>2, <1>5
<1>7. QED
  BY <1>3, <1>4, <1>6

(* Fractions are ordered. *)
LEMMA FractionsOrdered ==
  ASSUME NEW k \in Int, NEW l \in Int, NEW m \in Int,
         NEW a \in Int, NEW b \in Int, NEW c \in Int, a >= 1, b >= 1, c >= 1,
         k * b <= l * a, l * c <= m * b
  PROVE  k * c <= m * a
<1> DEFINE p == k * b
           q == l * a
           r == l * c
           s == m * b
           t == k * c
           u == m * a
<1>1. p \in Int /\ q \in Int /\ r \in Int /\ s \in Int /\ t \in Int /\ u \in Int
  BY SMT
<1>2. p * c = t * b /\ q * c = r * a /\ s * a = u * b
  BY SMT
<1>3. p <= q /\ r <= s
  OBVIOUS
<1> HIDE DEF p, q, r, s, t, u
<1>4. \A x, y, z \in Int : x <= y /\ z >= 1 => x * z <= y * z
  BY SMT
<1>5. p * c <= q * c /\ r * a <= s * a
  BY <1>1, <1>3, <1>4
<1>6. t * b <= u * b
  <2>1. t * b \in Int /\ u * b \in Int /\ r * a \in Int
    BY <1>1, SMT
  <2>2. QED
    BY <1>2, <1>5, <2>1
<1>7. \A x, y, z \in Int : x * z <= y * z /\ z >= 1 => x <= y
  BY SMT
<1>8. QED
  BY <1>1, <1>6, <1>7 DEF t, u

(* Of two counts one scores at least as high, and this is transitive. *)
LEMMA ScoresOrdered ==
  ASSUME LevelBufferAssumption, NEW c \in Pairs, NEW d \in Pairs, NEW e \in Pairs
  PROVE  /\ ~(Higher(c, d) /\ Higher(d, c))
         /\ ~Higher(c, d) /\ ~Higher(d, e) => ~Higher(c, e)
<1> DEFINE k == Activity(c).num
           l == Activity(d).num
           m == Activity(e).num
           a == Activity(c).den
           b == Activity(d).den
           f == Activity(e).den
<1>1. k \in Int /\ l \in Int /\ m \in Int /\ a \in Int /\ b \in Int /\ f \in Int /\ a >= 1 /\ b >= 1 /\ f >= 1
  BY ActivityIsFraction
<1>2. /\ Higher(c, d) <=> k * b > l * a
      /\ Higher(d, c) <=> l * a > k * b
      /\ Higher(d, e) <=> l * f > m * b
      /\ Higher(c, e) <=> k * f > m * a
  BY DEF Higher
<1> HIDE DEF k, l, m, a, b, f
<1>3. k * b \in Int /\ l * a \in Int /\ l * f \in Int /\ m * b \in Int /\ k * f \in Int /\ m * a \in Int
  BY <1>1, SMT
<1>4. ASSUME k * b <= l * a, l * f <= m * b PROVE k * f <= m * a
  BY <1>1, <1>4, FractionsOrdered
<1>5. \A x, y \in Int : ~(x > y /\ y > x) /\ (~(x > y) <=> x <= y)
  OBVIOUS
<1>6. QED
  BY <1>2, <1>3, <1>4, <1>5, Zenon

(* The order of the ranks is a total one. *)
LEMMA RanksAreOrdered ==
  ASSUME LevelBufferAssumption, LevelTypeOK
  PROVE  /\ \A s \in Slots : ~RankBefore(s, s)
         /\ \A s, t \in Slots : s # t => RankBefore(s, t) \/ RankBefore(t, s)
         /\ \A s, t, u \in Slots : RankBefore(s, t) /\ RankBefore(t, u) => RankBefore(s, u)
<1>1. \A s, t \in Filled : ~(ScoreAbove(s, t) /\ ScoreAbove(t, s))
  BY ScoresOrdered DEF ScoreAbove, LevelTypeOK
<1>2. \A s, t, u \in Filled : ~ScoreAbove(s, t) /\ ~ScoreAbove(t, u) => ~ScoreAbove(s, u)
  BY ScoresOrdered DEF ScoreAbove, LevelTypeOK
<1>3. Slots \subseteq Int
  BY DEF Slots
<1>4. \A s, t \in Slots : RankBefore(s, t) <=>
        \/ s \in Filled /\ t \notin Filled
        \/ s \in Filled /\ t \in Filled /\ (ScoreAbove(s, t) \/ (s < t /\ ~ScoreAbove(t, s)))
        \/ s \notin Filled /\ t \notin Filled /\ s < t
  BY DEF RankBefore
<1>5. \A s \in Slots : ~RankBefore(s, s)
  BY <1>1, <1>3, <1>4
<1>6. ASSUME NEW s \in Slots, NEW t \in Slots, s # t PROVE RankBefore(s, t) \/ RankBefore(t, s)
  <2>1. s < t \/ t < s
    BY <1>3, <1>6
  <2>2. QED
    BY <1>1, <1>4, <2>1
<1>7. ASSUME NEW s \in Slots, NEW t \in Slots, NEW u \in Slots, RankBefore(s, t), RankBefore(t, u)
      PROVE  RankBefore(s, u)
  <2>1. s < t /\ t < u => s < u
    BY <1>3
  <2>2. CASE s \in Filled /\ t \in Filled /\ u \in Filled
    <3>1. (ScoreAbove(s, t) \/ (s < t /\ ~ScoreAbove(t, s))) /\ (ScoreAbove(t, u) \/ (t < u /\ ~ScoreAbove(u, t)))
      BY <1>4, <1>7, <2>2
    <3>2. ~ScoreAbove(t, s) /\ ~ScoreAbove(u, t)
      BY <1>1, <2>2, <3>1
    <3>3. ~ScoreAbove(u, s)
      BY <1>2, <2>2, <3>2
    <3>4. ScoreAbove(s, t) => ScoreAbove(s, u)
      BY <1>2, <2>2, <3>2
    <3>5. ScoreAbove(t, u) => ScoreAbove(s, u)
      BY <1>2, <2>2, <3>2
    <3>6. QED
      BY <1>4, <2>1, <2>2, <3>1, <3>3, <3>4, <3>5
  <2>3. CASE ~(s \in Filled /\ t \in Filled /\ u \in Filled)
    BY <1>4, <1>7, <2>1, <2>3
  <2>4. QED
    BY <2>2, <2>3
<1>8. QED
  BY <1>5, <1>6, <1>7

(* The slots are enumerated by rank: each once. *)
LEMMA RankOrderEnumerates ==
  ASSUME LevelBufferAssumption, LevelTypeOK
  PROVE  /\ RankOrder \in [Slots -> Slots]
         /\ \A p, q \in Slots : p < q => RankBefore(RankOrder[p], RankOrder[q])
         /\ \A p, q \in Slots : RankOrder[p] = RankOrder[q] => p = q
         /\ \A s \in Slots : \E p \in Slots : RankOrder[p] = s
<1> DEFINE R == {pair \in Slots \X Slots : RankBefore(pair[1], pair[2])}
<1>1. \A s, t \in Slots : <<s, t>> \in R <=> RankBefore(s, t)
  OBVIOUS
<1>2. BufferSize \in Nat /\ IsFiniteSet(Slots) /\ Cardinality(Slots) = BufferSize /\ Slots = 1..BufferSize
  BY FS_Interval DEF Slots, LevelBufferAssumption
<1>3. /\ \A s, t \in Slots : s # t => <<s, t>> \in R \/ <<t, s>> \in R
      /\ \A s, t, u \in Slots : <<s, t>> \in R /\ <<t, u>> \in R => <<s, u>> \in R
  <2> HIDE DEF R
  <2>1. QED
    BY <1>1, RanksAreOrdered
<1>4. \E order \in [Slots -> Slots] : \A p, q \in Slots : p < q => RankBefore(order[p], order[q])
  <2> HIDE DEF R
  <2>1. PICK order \in [1..Cardinality(Slots) -> Slots] :
          \A j, k \in 1..Cardinality(Slots) : j < k => <<order[j], order[k]>> \in R
    BY <1>2, <1>3, OrderedEnumeration
  <2>2. order \in [Slots -> Slots] /\ \A j, k \in Slots : j < k => <<order[j], order[k]>> \in R
    BY <1>2, <2>1
  <2>3. ASSUME NEW p \in Slots, NEW q \in Slots, p < q PROVE RankBefore(order[p], order[q])
    <3>1. order[p] \in Slots /\ order[q] \in Slots /\ <<order[p], order[q]>> \in R
      BY <2>2, <2>3
    <3>2. QED
      BY <1>1, <3>1
  <2>4. QED
    BY <2>2, <2>3
<1>5. /\ RankOrder \in [Slots -> Slots]
      /\ \A p, q \in Slots : p < q => RankBefore(RankOrder[p], RankOrder[q])
  BY <1>4 DEF RankOrder
<1>6. ASSUME NEW p \in Slots, NEW q \in Slots, RankOrder[p] = RankOrder[q] PROVE p = q
  <2>1. ~RankBefore(RankOrder[p], RankOrder[q]) /\ ~RankBefore(RankOrder[q], RankOrder[p])
    BY <1>5, <1>6, RanksAreOrdered
  <2>2. p \in Int /\ q \in Int
    BY DEF Slots
  <2>3. QED
    BY <1>5, <2>1, <2>2
<1>7. RankOrder \in Injection(Slots, Slots)
  BY <1>5, <1>6, Zenon DEF Injection, IsInjective
<1>8. RankOrder \in Surjection(Slots, Slots)
  BY <1>2, <1>7, FS_Injection
<1>9. QED
  BY <1>5, <1>6, <1>8 DEF Surjection

(* The slots that score above that of s, and those that score the same. *)
Better(s) == {t \in Filled : ScoreAbove(t, s)}
Tied(s)   == {t \in Filled : SameScore(s, t)}

(* As many positions as slots they are of. *)
LEMMA PositionsCounted ==
  ASSUME LevelBufferAssumption, LevelTypeOK, NEW T \in SUBSET Slots
  PROVE  LET P == {p \in Slots : RankOrder[p] \in T}
         IN  Cardinality(P) = Cardinality(T) /\ Cardinality(T) \in Nat
<1> DEFINE P == {p \in Slots : RankOrder[p] \in T}
           f == [p \in P |-> RankOrder[p]]
<1>1. /\ RankOrder \in [Slots -> Slots]
      /\ \A p, q \in Slots : RankOrder[p] = RankOrder[q] => p = q
      /\ \A s \in Slots : \E p \in Slots : RankOrder[p] = s
  BY RankOrderEnumerates
<1>2. IsFiniteSet(Slots)
  BY FS_Interval DEF Slots, LevelBufferAssumption
<1>3. IsFiniteSet(P) /\ IsFiniteSet(T)
  BY <1>2, FS_Subset
<1>4. f \in [P -> T] /\ \A p, q \in P : f[p] = f[q] => p = q
  BY <1>1
<1>5. \A t \in T : \E p \in P : f[p] = t
  BY <1>1
<1> HIDE DEF P, f
<1>6. f \in Injection(P, T) /\ f \in Surjection(P, T)
  BY <1>4, <1>5 DEF Injection, IsInjective, Surjection
<1>7. Cardinality(P) = Cardinality(T)
  BY <1>3, <1>6, FS_Injection
<1>8. QED
  BY <1>3, <1>7, FS_CardinalityType DEF P

(* The positions of a slot and its ties follow those of the better slots. *)
TiesFollow(s, a, k) ==
  /\ a \in Nat /\ k \in Nat /\ k >= 1 /\ a + k <= BufferSize
  /\ \A p \in Slots : RankOrder[p] \in Tied(s) <=> p \in (a + 1)..(a + k)

(* A slot's ties are at consecutive positions, right after the better slots. *)
LEMMA TiesAreConsecutive ==
  ASSUME LevelBufferAssumption, LevelTypeOK, NEW s \in Filled
  PROVE  TiesFollow(s, Cardinality(Better(s)), Cardinality(Tied(s)))
<1> DEFINE order == RankOrder
           a == Cardinality(Better(s))
           k == Cardinality(Tied(s))
           A == {p \in Slots : order[p] \in Better(s)}
           T == {p \in Slots : order[p] \in Tied(s)}
           F == {p \in Slots : order[p] \in Better(s) \cup Tied(s)}
<1>1. Filled \subseteq Slots /\ BufferSize \in Nat /\ Slots = 1..BufferSize /\ IsFiniteSet(Slots)
  BY FS_Interval DEF LevelTypeOK, LevelBufferAssumption, Slots
<1>2. \A t, u \in Filled : ~(ScoreAbove(t, u) /\ ScoreAbove(u, t))
  BY ScoresOrdered DEF ScoreAbove, LevelTypeOK
<1>3. \A t, u, v \in Filled : ~ScoreAbove(t, u) /\ ~ScoreAbove(u, v) => ~ScoreAbove(t, v)
  BY ScoresOrdered DEF ScoreAbove, LevelTypeOK
<1>4. /\ order \in [Slots -> Slots]
      /\ \A p, q \in Slots : p < q => RankBefore(order[p], order[q])
      /\ \A t \in Slots : \E p \in Slots : order[p] = t
  BY RankOrderEnumerates
<1> HIDE DEF order
<1>5. Better(s) \in SUBSET Slots /\ Tied(s) \in SUBSET Slots /\ Better(s) \cap Tied(s) = {} /\ s \in Tied(s)
  BY <1>1, <1>2 DEF Better, Tied, SameScore
<1>6. ASSUME NEW p \in Slots, NEW q \in Slots, q < p, order[p] \in Filled
      PROVE  order[q] \in Filled /\ ~ScoreAbove(order[p], order[q])
  <2>1. RankBefore(order[q], order[p])
    BY <1>4, <1>6
  <2>2. QED
    BY <1>2, <1>6, <2>1 DEF RankBefore
<1>7. \A p \in A : \A q \in Slots : q < p => q \in A
  <2>1. ASSUME NEW p \in A, NEW q \in Slots, q < p PROVE q \in A
    <3>1. p \in Slots /\ order[p] \in Filled /\ ScoreAbove(order[p], s)
      BY DEF Better
    <3>2. order[q] \in Filled /\ ~ScoreAbove(order[p], order[q])
      BY <1>6, <2>1, <3>1
    <3>3. ScoreAbove(order[q], s)
      BY <1>3, <3>1, <3>2
    <3>4. QED
      BY <3>2, <3>3 DEF Better
  <2>2. QED
    BY <2>1
<1>8. \A t \in Filled : t \in Better(s) \cup Tied(s) <=> ~ScoreAbove(s, t)
  BY <1>2 DEF Better, Tied, SameScore
<1>9. \A p \in F : \A q \in Slots : q < p => q \in F
  <2>1. ASSUME NEW p \in F, NEW q \in Slots, q < p PROVE q \in F
    <3>1. p \in Slots /\ order[p] \in Filled
      BY DEF Better, Tied
    <3>2. ~ScoreAbove(s, order[p])
      BY <1>8, <3>1
    <3>3. order[q] \in Filled /\ ~ScoreAbove(order[p], order[q])
      BY <1>6, <2>1, <3>1
    <3>4. ~ScoreAbove(s, order[q])
      BY <1>3, <3>1, <3>2, <3>3
    <3>5. QED
      BY <1>8, <3>3, <3>4
  <2>2. QED
    BY <2>1
<1>10. Cardinality(A) = a /\ a \in Nat
  BY <1>5, PositionsCounted DEF order
<1>11. Cardinality(F) = Cardinality(Better(s) \cup Tied(s))
  <2>1. Better(s) \cup Tied(s) \in SUBSET Slots
    BY <1>5
  <2>2. QED
    BY <2>1, PositionsCounted DEF order
<1>12. Cardinality(Better(s) \cup Tied(s)) = a + k /\ k \in Nat /\ k >= 1
  <2>1. IsFiniteSet(Better(s)) /\ IsFiniteSet(Tied(s))
    BY <1>1, <1>5, FS_Subset
  <2>2. Cardinality(Better(s) \cup Tied(s)) = a + k - Cardinality(Better(s) \cap Tied(s))
    BY <2>1, FS_Union
  <2>3. Cardinality(Better(s) \cap Tied(s)) = 0
    BY <1>5, FS_EmptySet
  <2>4. k \in Nat /\ k # 0
    BY <1>5, <2>1, FS_CardinalityType, FS_EmptySet
  <2> HIDE DEF a, k
  <2>5. QED
    BY <1>10, <2>2, <2>3, <2>4
<1>13. A \in SUBSET (1..BufferSize) /\ F \in SUBSET (1..BufferSize)
  BY <1>1
<1>14. \A p \in Slots : p \in T <=> p \in F /\ p \notin A
  BY <1>5
<1> HIDE DEF A, F, a, k
<1>15. A = 1..a
  BY <1>1, <1>7, <1>10, <1>13, InitialSegment
<1>16. F = 1..(a + k)
  BY <1>1, <1>9, <1>11, <1>12, <1>13, InitialSegment
<1>17. a + k <= BufferSize
  <2>1. a + k \in F
    BY <1>10, <1>12, <1>16
  <2>2. a + k \in 1..BufferSize
    BY <1>13, <2>1
  <2>3. QED
    BY <1>1, <1>10, <1>12, <2>2
<1>18. \A p \in Slots : p \in T <=> p \in (a + 1)..(a + k)
  BY <1>1, <1>10, <1>12, <1>14, <1>15, <1>16
<1>19. QED
  BY <1>10, <1>12, <1>17, <1>18 DEF TiesFollow, order, a, k

(* The scans of RankMass: weights of filled ranks, prefix sums and totals. *)
Weights(order) == [p \in Slots |-> IF order[p] \in Filled THEN RankWeights[p] ELSE 0]
IsPrefix(order, f) ==
  f = [p \in Slots |-> IF p = 1 \/ StartsBlock(order, p) THEN Weights(order)[p]
                       ELSE f[p - 1] + Weights(order)[p]]
IsTotal(order, prefix, f) ==
  f = [p \in Slots |-> IF EndsBlock(order, p) THEN prefix[p]
                       ELSE IF p = BufferSize THEN 0 ELSE f[p + 1]]

(* A function that each of its values is a step from the one before. *)
Iterates(h, n, c, step) == h[0] = c /\ \A k \in 1..n : h[k] = step[k][h[k - 1]]

(* There is such a function, for any start and any steps. *)
LEMMA IterationExists ==
  ASSUME NEW n \in Nat, NEW c \in Int, NEW step \in [1..n -> [Int -> Int]]
  PROVE  \E h \in [0..n -> Int] : Iterates(h, n, c, step)
BY IndexedRecursion DEF Iterates

(* The prefix sums exist, and are integers. *)
LEMMA PrefixExists ==
  ASSUME LevelBufferAssumption, NEW order
  PROVE  /\ \E f : IsPrefix(order, f)
         /\ \A f : IsPrefix(order, f) => f \in [Slots -> Int]
<1> DEFINE w == Weights(order)
           Starts(p) == StartsBlock(order, p)
           step == [k \in 1..BufferSize |-> [y \in Int |-> IF k = 1 \/ Starts(k) THEN w[k] ELSE y + w[k]]]
<1>1. BufferSize \in Nat /\ Slots = 1..BufferSize /\ 0 \in Int
  BY DEF LevelBufferAssumption, Slots
<1>2. \A p \in Slots : w[p] \in Int
  BY <1>1 DEF Weights, LevelBufferAssumption
<1> HIDE DEF w, Starts
<1>3. step \in [1..BufferSize -> [Int -> Int]]
  BY <1>1, <1>2
<1>4. \A k \in Slots : \A y \in Int : step[k][y] = IF k = 1 \/ Starts(k) THEN w[k] ELSE y + w[k]
  BY <1>1
<1> HIDE DEF step
<1>5. PICK h \in [0..BufferSize -> Int] : h[0] = 0 /\ \A k \in 1..BufferSize : h[k] = step[k][h[k - 1]]
  <2>1. BufferSize \in Nat /\ 0 \in Int
    BY <1>1
  <2>2. \E h \in [0..BufferSize -> Int] : Iterates(h, BufferSize, 0, step)
    BY <1>3, <2>1, IterationExists
  <2>3. QED
    BY <2>2, Zenon DEF Iterates
<1> DEFINE g == [p \in Slots |-> h[p]]
<1>6. ASSUME NEW p \in Slots PROVE g[p] = IF p = 1 \/ Starts(p) THEN w[p] ELSE g[p - 1] + w[p]
  <2>1. p \in 1..BufferSize /\ p - 1 \in 0..BufferSize /\ (p # 1 => p - 1 \in Slots)
    BY <1>1
  <2>2. h[p - 1] \in Int /\ h[p] = step[p][h[p - 1]]
    BY <1>5, <2>1
  <2>3. h[p] = IF p = 1 \/ Starts(p) THEN w[p] ELSE h[p - 1] + w[p]
    BY <1>4, <2>2
  <2>4. p # 1 => g[p - 1] = h[p - 1]
    BY <2>1
  <2>5. g[p] = h[p]
    OBVIOUS
  <2> HIDE DEF g
  <2>6. QED
    BY <2>3, <2>4, <2>5
<1>7. IsPrefix(order, g)
  <2>1. g = [p \in Slots |-> g[p]]
    OBVIOUS
  <2> HIDE DEF g
  <2>2. QED
    BY <1>6, <2>1 DEF IsPrefix, w, Starts
<1>8. ASSUME NEW f, IsPrefix(order, f) PROVE f \in [Slots -> Int]
  <2> DEFINE G == {k \in Nat : k \in Slots => f[k] \in Int}
  <2>1. /\ f = [p \in Slots |-> f[p]]
        /\ \A p \in Slots : f[p] = IF p = 1 \/ Starts(p) THEN w[p] ELSE f[p - 1] + w[p]
    BY <1>8 DEF IsPrefix, w, Starts
  <2>2. 0 \in G
    BY <1>1
  <2>3. ASSUME NEW k \in G PROVE k + 1 \in G
    <3>1. SUFFICES ASSUME k + 1 \in Slots PROVE f[k + 1] \in Int
      OBVIOUS
    <3>2. k \in Nat /\ (k + 1) - 1 = k /\ (k + 1 # 1 => k \in Slots /\ f[k] \in Int)
      BY <1>1, <3>1
    <3>3. f[k + 1] = IF k + 1 = 1 \/ Starts(k + 1) THEN w[k + 1] ELSE f[k] + w[k + 1]
      BY <2>1, <3>1, <3>2
    <3>4. w[k + 1] \in Int
      BY <1>2, <3>1
    <3>5. QED
      BY <3>2, <3>3, <3>4
  <2>4. G = Nat
    <3>1. G \in SUBSET Nat
      OBVIOUS
    <3> HIDE DEF G
    <3>2. QED
      BY <2>2, <2>3, <3>1, SetInduction
  <2>5. ASSUME NEW p \in Slots PROVE f[p] \in Int
    <3>1. p \in Nat
      BY <1>1
    <3>2. p \in G
      BY <2>4, <3>1
    <3>3. QED
      BY <3>2
  <2>6. QED
    BY <2>1, <2>5
<1>9. QED
  BY <1>7, <1>8

(* The totals exist. *)
LEMMA TotalExists ==
  ASSUME LevelBufferAssumption, NEW order, NEW prefix \in [Slots -> Int]
  PROVE  \E f : IsTotal(order, prefix, f)
<1> DEFINE Ends(p) == EndsBlock(order, p)
           At(k) == (BufferSize + 1) - k
           step == [k \in 1..BufferSize |-> [y \in Int |->
                      IF Ends(At(k)) THEN prefix[At(k)] ELSE IF At(k) = BufferSize THEN 0 ELSE y]]
<1>1. BufferSize \in Nat /\ Slots = 1..BufferSize /\ 0 \in Int
  BY DEF LevelBufferAssumption, Slots
<1>2. \A k \in 1..BufferSize : At(k) \in Slots /\ prefix[At(k)] \in Int
  BY <1>1
<1> HIDE DEF At, Ends
<1>3. step \in [1..BufferSize -> [Int -> Int]]
  BY <1>1, <1>2
<1>4. \A k \in 1..BufferSize : \A y \in Int :
        step[k][y] = IF Ends(At(k)) THEN prefix[At(k)] ELSE IF At(k) = BufferSize THEN 0 ELSE y
  OBVIOUS
<1> HIDE DEF step
<1>5. PICK h \in [0..BufferSize -> Int] : h[0] = 0 /\ \A k \in 1..BufferSize : h[k] = step[k][h[k - 1]]
  <2>1. BufferSize \in Nat /\ 0 \in Int
    BY <1>1
  <2>2. \E h \in [0..BufferSize -> Int] : Iterates(h, BufferSize, 0, step)
    BY <1>3, <2>1, IterationExists
  <2>3. QED
    BY <2>2, Zenon DEF Iterates
<1> DEFINE g == [p \in Slots |-> h[At(p)]]
<1>6. ASSUME NEW p \in Slots
      PROVE  g[p] = IF Ends(p) THEN prefix[p] ELSE IF p = BufferSize THEN 0 ELSE g[p + 1]
  <2>1. /\ At(p) \in 1..BufferSize /\ At(At(p)) = p /\ At(p) - 1 \in 0..BufferSize
        /\ (p # BufferSize => p + 1 \in Slots /\ At(p + 1) = At(p) - 1)
    BY <1>1 DEF At
  <2>2. h[At(p) - 1] \in Int /\ h[At(p)] = step[At(p)][h[At(p) - 1]]
    BY <1>5, <2>1
  <2>3. h[At(p)] = IF Ends(p) THEN prefix[p] ELSE IF p = BufferSize THEN 0 ELSE h[At(p) - 1]
    BY <1>4, <2>1, <2>2
  <2>4. p # BufferSize => g[p + 1] = h[At(p) - 1]
    BY <2>1
  <2>5. g[p] = h[At(p)]
    OBVIOUS
  <2> HIDE DEF g
  <2>6. QED
    BY <2>3, <2>4, <2>5
<1>7. IsTotal(order, prefix, g)
  <2>1. g = [p \in Slots |-> g[p]]
    OBVIOUS
  <2> HIDE DEF g
  <2>2. QED
    BY <1>6, <2>1 DEF IsTotal, Ends
<1>8. QED
  BY <1>7

(* A sum over an interval, one entry longer. *)
LEMMA IntervalSum ==
  ASSUME LevelBufferAssumption, NEW f \in Slots, NEW l \in Slots, f <= l
  PROVE  /\ SumFunctionOnSet(RankWeights, f..l) \in Nat
         /\ SumFunctionOnSet(RankWeights, f..f) = RankWeights[f]
         /\ f < l => SumFunctionOnSet(RankWeights, f..l)
                       = SumFunctionOnSet(RankWeights, f..(l - 1)) + RankWeights[l]
<1>1. IsFiniteSet(Slots)
  BY FS_Interval DEF Slots, LevelBufferAssumption
<1>2. \A p \in Slots : RankWeights[p] \in Nat
  BY DEF Slots, LevelBufferAssumption
<1>3. \A p \in Slots : RankWeights[p] \in Int
  BY <1>2
<1>4. f..l \in SUBSET Slots
  BY DEF Slots, LevelBufferAssumption
<1>5. f..f \in SUBSET Slots
  BY DEF Slots, LevelBufferAssumption
<1>6. f..(l - 1) \in SUBSET Slots
  BY DEF Slots, LevelBufferAssumption
<1>7. SumFunctionOnSet(RankWeights, f..l) \in Nat
  BY <1>1, <1>2, <1>4, SumNat
<1>8. SumFunctionOnSet(RankWeights, f..(l - 1)) \in Nat
  BY <1>1, <1>2, <1>6, SumNat
<1>9. RankWeights[f] \in Int /\ RankWeights[l] \in Int
  BY <1>3
<1>10. f \in f..f /\ (f..f) \ {f} = {} /\ l \in f..l /\ (f..l) \ {l} = f..(l - 1)
  BY DEF Slots
<1>11. SumFunctionOnSet(RankWeights, f..f) = RankWeights[f]
  <2>1. SumFunctionOnSet(RankWeights, f..f) = RankWeights[f] + SumFunctionOnSet(RankWeights, (f..f) \ {f})
    <3> DEFINE S == f..f
    <3>1. S \in SUBSET Slots /\ f \in S
      BY <1>5, <1>10
    <3> HIDE DEF S
    <3>2. SumFunctionOnSet(RankWeights, S) = RankWeights[f] + SumFunctionOnSet(RankWeights, S \ {f})
      BY <1>1, <1>3, <3>1, SumRemove
    <3>3. QED
      BY <3>2 DEF S
  <2>2. SumFunctionOnSet(RankWeights, (f..f) \ {f}) = 0
    BY <1>10, SumEmpty
  <2>3. QED
    BY <1>9, <2>1, <2>2
<1>12. SumFunctionOnSet(RankWeights, f..l) = SumFunctionOnSet(RankWeights, f..(l - 1)) + RankWeights[l]
  <2>1. SumFunctionOnSet(RankWeights, f..l) = RankWeights[l] + SumFunctionOnSet(RankWeights, (f..l) \ {l})
    <3> DEFINE S == f..l
    <3>1. S \in SUBSET Slots /\ l \in S
      BY <1>4, <1>10
    <3> HIDE DEF S
    <3>2. SumFunctionOnSet(RankWeights, S) = RankWeights[l] + SumFunctionOnSet(RankWeights, S \ {l})
      BY <1>1, <1>3, <3>1, SumRemove
    <3>3. QED
      BY <3>2 DEF S
  <2>2. SumFunctionOnSet(RankWeights, (f..l) \ {l}) = SumFunctionOnSet(RankWeights, f..(l - 1))
    BY <1>10
  <2>3. QED
    BY <1>8, <1>9, <2>1, <2>2
<1>13. QED
  BY <1>7, <1>11, <1>12

(* The bounds of the block of a position, and its share of the block. *)
FirstOf(order, p) == Max({1} \cup {q \in 1..p : StartsBlock(order, q)})
LastOf(order, p)  == Min({BufferSize} \cup {q \in p..BufferSize : EndsBlock(order, q)})
Share(order, total, p) ==
  IF FirstOf(order, p) = LastOf(order, p) THEN Weights(order)[p]
  ELSE total[p] \div (1 + LastOf(order, p) - FirstOf(order, p))
PositionOf(order, s) == CHOOSE p \in Slots : order[p] = s

(* The masses by the scans that compute them. *)
LEMMA MassFromScans ==
  ASSUME LevelBufferAssumption
  PROVE  \E prefix, total :
           /\ IsPrefix(RankOrder, prefix) /\ IsTotal(RankOrder, prefix, total)
           /\ RankMass = [s \in Slots |-> IF s \in Filled
                                          THEN Share(RankOrder, total, PositionOf(RankOrder, s)) ELSE 0]
<1> DEFINE order == RankOrder
           prefix == CHOOSE f : IsPrefix(order, f)
           total == CHOOSE f : IsTotal(order, prefix, f)
           rank == [s \in Slots |-> PositionOf(order, s)]
<1>1. IsPrefix(order, prefix)
  <2> HIDE DEF order
  <2>1. \E f : IsPrefix(order, f)
    BY PrefixExists
  <2>2. QED
    BY <2>1, Zenon
<1>2. IsTotal(order, prefix, total)
  <2> HIDE DEF order, prefix
  <2>1. prefix \in [Slots -> Int]
    BY <1>1, PrefixExists
  <2>2. \E f : IsTotal(order, prefix, f)
    BY <2>1, TotalExists
  <2>3. QED
    BY <2>2, Zenon
<1>3. RankMass = [s \in Slots |-> IF s \in Filled THEN Share(order, total, rank[s]) ELSE 0]
  BY Zenon DEF RankMass, IsPrefix, IsTotal, Weights, Share, FirstOf, LastOf, PositionOf
<1>4. RankMass = [s \in Slots |-> IF s \in Filled THEN Share(order, total, PositionOf(order, s)) ELSE 0]
  <2> HIDE DEF order, total
  <2>1. \A s \in Slots : rank[s] = PositionOf(order, s)
    OBVIOUS
  <2> HIDE DEF rank
  <2>2. QED
    BY <1>3, <2>1
<1>5. QED
  BY <1>1, <1>2, <1>4, Zenon

(* A block: it starts at f and ends at l, and nowhere between. *)
IsBlock(order, f, l) ==
  /\ f \in Slots /\ l \in Slots /\ f <= l
  /\ \A p \in f..l : order[p] \in Filled
  /\ StartsBlock(order, f) /\ \A p \in (f + 1)..l : ~StartsBlock(order, p)
  /\ EndsBlock(order, l) /\ \A p \in f..(l - 1) : ~EndsBlock(order, p)

(* The positions of a slot's ties are a block. *)
LEMMA TiesAreABlock ==
  ASSUME LevelBufferAssumption, LevelTypeOK, NEW s \in Filled, NEW a, NEW k, TiesFollow(s, a, k)
  PROVE  IsBlock(RankOrder, a + 1, a + k)
<1> DEFINE order == RankOrder
           f == a + 1
           l == a + k
<1>1. Filled \subseteq Slots /\ BufferSize \in Nat /\ Slots = 1..BufferSize
  BY DEF LevelTypeOK, LevelBufferAssumption, Slots
<1>2. \A t, u \in Filled : ~(ScoreAbove(t, u) /\ ScoreAbove(u, t))
  BY ScoresOrdered DEF ScoreAbove, LevelTypeOK
<1>3. \A t, u, v \in Filled : ~ScoreAbove(t, u) /\ ~ScoreAbove(u, v) => ~ScoreAbove(t, v)
  BY ScoresOrdered DEF ScoreAbove, LevelTypeOK
<1>4. \A t, u, v \in Filled : SameScore(t, u) /\ SameScore(u, v) => SameScore(t, v)
  BY <1>3 DEF SameScore
<1>5. \A t, u \in Filled : SameScore(t, u) => SameScore(u, t)
  BY DEF SameScore
<1>6. a \in Nat /\ k \in Nat /\ k >= 1 /\ a + k <= BufferSize
  BY DEF TiesFollow
<1>7. \A p \in Slots : p \in f..l <=> order[p] \in Filled /\ SameScore(s, order[p])
  BY DEF TiesFollow, Tied
<1>8. f \in Slots /\ l \in Slots /\ f <= l /\ f \in Int /\ l \in Int
  BY <1>1, <1>6
<1> HIDE DEF order, f, l
<1>9. \A p \in f..l : p \in Slots /\ p \in Int
  BY <1>1, <1>8
<1>10. \A p \in f..l : order[p] \in Filled
  BY <1>7, <1>9
<1>11. \A p, q \in f..l : SameScore(order[p], order[q])
  BY <1>4, <1>5, <1>7, <1>9
<1>12. \A p \in f..l : \A q \in Slots : q \notin f..l => ~(order[q] \in Filled /\ SameScore(order[p], order[q]))
  BY <1>4, <1>7, <1>9
<1>13. \A p \in f..l : \A q \in Slots : q \notin f..l => ~(order[q] \in Filled /\ SameScore(order[q], order[p]))
  BY <1>5, <1>10, <1>12
<1>14. StartsBlock(order, f)
  <2>1. f \in f..l /\ (f > 1 => f - 1 \in Slots /\ f - 1 \notin f..l)
    BY <1>1, <1>8
  <2>2. QED
    BY <1>10, <1>13, <2>1 DEF StartsBlock
<1>15. EndsBlock(order, l)
  <2>1. l \in f..l /\ (l < BufferSize => l + 1 \in Slots /\ l + 1 \notin f..l)
    BY <1>1, <1>8
  <2>2. QED
    BY <1>10, <1>12, <2>1 DEF EndsBlock
<1>16. ASSUME NEW p \in (f + 1)..l PROVE ~StartsBlock(order, p)
  <2>1. p \in f..l /\ p - 1 \in f..l /\ p > 1
    BY <1>1, <1>8
  <2>2. QED
    BY <1>10, <1>11, <2>1 DEF StartsBlock
<1>17. ASSUME NEW p \in f..(l - 1) PROVE ~EndsBlock(order, p)
  <2>1. p \in f..l /\ p + 1 \in f..l /\ p < BufferSize
    BY <1>1, <1>8
  <2>2. QED
    BY <1>10, <1>11, <2>1 DEF EndsBlock
<1>18. IsBlock(order, f, l)
  BY <1>8, <1>10, <1>14, <1>15, <1>16, <1>17 DEF IsBlock
<1>19. QED
  BY <1>18 DEF order, f, l

(* In a block every position has the bounds of the block. *)
LEMMA BlockBounds ==
  ASSUME LevelBufferAssumption, NEW order, NEW f, NEW l, IsBlock(order, f, l), NEW p \in f..l
  PROVE  FirstOf(order, p) = f /\ LastOf(order, p) = l
<1> DEFINE F == {1} \cup {q \in 1..p : StartsBlock(order, q)}
           L == {BufferSize} \cup {q \in p..BufferSize : EndsBlock(order, q)}
<1>1. /\ BufferSize \in Nat /\ Slots = 1..BufferSize /\ f \in 1..BufferSize /\ l \in 1..BufferSize
      /\ f \in Int /\ l \in Int /\ p \in Int /\ f <= p /\ p <= l
  BY DEF IsBlock, LevelBufferAssumption, Slots
<1>2. f \in F /\ F \subseteq Int
  BY <1>1 DEF IsBlock
<1>3. ASSUME NEW q \in F PROVE q <= f
  <2>1. q = 1 \/ (q \in 1..p /\ StartsBlock(order, q))
    OBVIOUS
  <2>2. q \in 1..p => q <= f \/ q \in (f + 1)..l
    BY <1>1
  <2>3. QED
    BY <1>1, <2>1, <2>2 DEF IsBlock
<1>4. l \in L /\ L \subseteq Int
  BY <1>1 DEF IsBlock
<1>5. ASSUME NEW q \in L PROVE q >= l
  <2>1. q = BufferSize \/ (q \in p..BufferSize /\ EndsBlock(order, q))
    OBVIOUS
  <2>2. q \in p..BufferSize => q >= l \/ q \in f..(l - 1)
    BY <1>1
  <2>3. QED
    BY <1>1, <2>1, <2>2 DEF IsBlock
<1>6. FirstOf(order, p) = Max(F) /\ LastOf(order, p) = Min(L)
  BY DEF FirstOf, LastOf
<1> HIDE DEF F, L
<1>7. \E x \in F : \A y \in F : x >= y
  BY <1>1, <1>2, <1>3
<1>8. Max(F) \in F /\ \A y \in F : Max(F) >= y
  BY <1>7 DEF Max
<1>9. \E x \in L : \A y \in L : x <= y
  BY <1>1, <1>4, <1>5
<1>10. Min(L) \in L /\ \A y \in L : Min(L) <= y
  BY <1>9 DEF Min
<1>11. Max(F) = f
  <2> DEFINE m == Max(F)
  <2>1. m \in Int /\ m <= f /\ m >= f
    BY <1>2, <1>3, <1>8
  <2> HIDE DEF m
  <2>2. m = f
    BY <1>1, <2>1
  <2>3. QED
    BY <2>2 DEF m
<1>12. Min(L) = l
  <2> DEFINE m == Min(L)
  <2>1. m \in Int /\ m <= l /\ m >= l
    BY <1>4, <1>5, <1>10
  <2> HIDE DEF m
  <2>2. m = l
    BY <1>1, <2>1
  <2>3. QED
    BY <2>2 DEF m
<1>13. QED
  BY <1>6, <1>11, <1>12

(* Within a block the prefixes are the sums of its weights so far. *)
LEMMA BlockPrefix ==
  ASSUME LevelBufferAssumption, NEW order, NEW f, NEW l, IsBlock(order, f, l),
         NEW prefix, IsPrefix(order, prefix)
  PROVE  \A p \in f..l : prefix[p] = SumFunctionOnSet(RankWeights, f..p)
<1> DEFINE Sum(p) == SumFunctionOnSet(RankWeights, f..p)
           G == {d \in Nat : f + d <= l => prefix[f + d] = Sum(f + d)}
<1>1. /\ BufferSize \in Nat /\ Slots = 1..BufferSize /\ f \in 1..BufferSize /\ l \in 1..BufferSize
      /\ f \in Int /\ l \in Int
  BY DEF IsBlock, LevelBufferAssumption, Slots
<1>2. \A p \in f..l : p \in Slots /\ p \in Int /\ f <= p
  BY <1>1
<1>3. \A p \in f..l : Weights(order)[p] = RankWeights[p]
  BY <1>2 DEF Weights, IsBlock
<1>4. \A p \in Slots : prefix[p] = IF p = 1 \/ StartsBlock(order, p) THEN Weights(order)[p]
                                   ELSE prefix[p - 1] + Weights(order)[p]
  BY DEF IsPrefix
<1>5. 0 \in G
  <2>1. f \in f..l /\ f + 0 = f
    BY <1>1 DEF IsBlock
  <2>2. prefix[f] = RankWeights[f]
    BY <1>2, <1>3, <1>4, <2>1 DEF IsBlock
  <2>3. Sum(f) = RankWeights[f]
    BY <1>2, <2>1, IntervalSum
  <2> HIDE DEF Sum
  <2>4. QED
    BY <2>1, <2>2, <2>3
<1>6. ASSUME NEW d \in G PROVE d + 1 \in G
  <2>1. SUFFICES ASSUME f + (d + 1) <= l PROVE prefix[f + (d + 1)] = Sum(f + (d + 1))
    OBVIOUS
  <2> DEFINE p == f + (d + 1)
  <2>2. p \in f..l /\ p \in (f + 1)..l /\ p - 1 = f + d /\ f + d <= l /\ p # 1 /\ f < p
    BY <1>1, <2>1
  <2>3. prefix[p - 1] = Sum(p - 1)
    BY <2>2
  <2>4. p \in Slots /\ f \in Slots
    BY <1>1, <1>2, <2>2
  <2> HIDE DEF p
  <2>5. ~StartsBlock(order, p)
    BY <2>2 DEF IsBlock
  <2>6. prefix[p] = prefix[p - 1] + RankWeights[p]
    BY <1>3, <1>4, <2>2, <2>4, <2>5
  <2>7. Sum(p) = Sum(p - 1) + RankWeights[p]
    <3>1. f <= p
      BY <1>2, <2>2
    <3>2. QED
      BY <2>2, <2>4, <3>1, IntervalSum
  <2> HIDE DEF Sum
  <2>8. prefix[p] = Sum(p)
    BY <2>3, <2>6, <2>7
  <2>9. QED
    BY <2>8 DEF p
<1>7. G = Nat
  <2>1. G \in SUBSET Nat
    OBVIOUS
  <2> HIDE DEF G
  <2>2. QED
    BY <1>5, <1>6, <2>1, SetInduction
<1>8. ASSUME NEW p \in f..l PROVE prefix[p] = Sum(p)
  <2>1. p - f \in Nat /\ f + (p - f) = p /\ p <= l
    BY <1>1
  <2>2. p - f \in G
    BY <1>7, <2>1
  <2> HIDE DEF Sum
  <2>3. QED
    BY <2>1, <2>2
<1>9. QED
  BY <1>8

(* The total of a block reaches each of its positions. *)
LEMMA BlockTotal ==
  ASSUME LevelBufferAssumption, NEW order, NEW f, NEW l, IsBlock(order, f, l),
         NEW prefix, NEW total, IsTotal(order, prefix, total)
  PROVE  \A p \in f..l : total[p] = prefix[l]
<1> DEFINE G == {d \in Nat : f <= l - d => total[l - d] = prefix[l]}
<1>1. /\ BufferSize \in Nat /\ Slots = 1..BufferSize /\ f \in 1..BufferSize /\ l \in 1..BufferSize
      /\ f \in Int /\ l \in Int
  BY DEF IsBlock, LevelBufferAssumption, Slots
<1>2. \A p \in Slots : total[p] = IF EndsBlock(order, p) THEN prefix[p]
                                  ELSE IF p = BufferSize THEN 0 ELSE total[p + 1]
  BY DEF IsTotal
<1>3. 0 \in G
  <2>1. l - 0 = l /\ l \in Slots
    BY <1>1
  <2>2. total[l] = prefix[l]
    BY <1>2, <2>1 DEF IsBlock
  <2>3. QED
    BY <2>1, <2>2
<1>4. ASSUME NEW d \in G PROVE d + 1 \in G
  <2>1. SUFFICES ASSUME f <= l - (d + 1) PROVE total[l - (d + 1)] = prefix[l]
    OBVIOUS
  <2> DEFINE p == l - (d + 1)
  <2>2. p \in f..(l - 1) /\ p \in Slots /\ p + 1 = l - d /\ f <= l - d /\ p # BufferSize
    BY <1>1, <2>1
  <2>3. total[p + 1] = prefix[l]
    BY <2>2
  <2> HIDE DEF p
  <2>4. ~EndsBlock(order, p)
    BY <2>2 DEF IsBlock
  <2>5. total[p] = prefix[l]
    BY <1>2, <2>2, <2>3, <2>4
  <2>6. QED
    BY <2>5 DEF p
<1>5. G = Nat
  <2>1. G \in SUBSET Nat
    OBVIOUS
  <2> HIDE DEF G
  <2>2. QED
    BY <1>3, <1>4, <2>1, SetInduction
<1>6. ASSUME NEW p \in f..l PROVE total[p] = prefix[l]
  <2>1. l - p \in Nat /\ l - (l - p) = p /\ f <= p
    BY <1>1
  <2>2. l - p \in G
    BY <1>5, <2>1
  <2>3. QED
    BY <2>1, <2>2
<1>7. QED
  BY <1>6

(* A share times the length of its block is the sum of the block. *)
LEMMA ShareOfBlock ==
  ASSUME LevelBufferAssumption, RankWeightsAssumption, NEW order, NEW f, NEW l, IsBlock(order, f, l),
         NEW prefix, NEW total, IsPrefix(order, prefix), IsTotal(order, prefix, total), NEW p \in f..l
  PROVE  Share(order, total, p) * (1 + l - f) = SumFunctionOnSet(RankWeights, f..l)
<1> DEFINE sum == SumFunctionOnSet(RankWeights, f..l)
           n == 1 + l - f
<1>1. /\ BufferSize \in Nat /\ Slots = 1..BufferSize /\ f \in 1..BufferSize /\ l \in 1..BufferSize
      /\ f \in Int /\ l \in Int /\ f <= l /\ p \in Int
  BY DEF IsBlock, LevelBufferAssumption, Slots
<1>2. FirstOf(order, p) = f /\ LastOf(order, p) = l
  BY BlockBounds
<1>3. l \in f..l
  BY <1>1
<1>4. total[p] = sum
  <2>1. total[p] = prefix[l]
    BY BlockTotal
  <2>2. prefix[l] = sum
    BY <1>3, BlockPrefix
  <2>3. QED
    BY <2>1, <2>2
<1>5. sum \in Nat /\ SumFunctionOnSet(RankWeights, f..f) = RankWeights[f]
  BY <1>1, IntervalSum
<1>6. sum % n = 0
  BY <1>1 DEF RankWeightsAssumption
<1>7. n \in Nat /\ n >= 1 /\ (f = l => n = 1)
  BY <1>1
<1>8. Share(order, total, p) = IF f = l THEN Weights(order)[p] ELSE sum \div n
  BY <1>2, <1>4 DEF Share
<1>9. f = l => Weights(order)[p] = sum
  <2>1. SUFFICES ASSUME f = l PROVE Weights(order)[p] = sum
    OBVIOUS
  <2>2. p = f /\ p \in Slots /\ order[p] \in Filled
    BY <1>1, <2>1 DEF IsBlock
  <2>3. Weights(order)[p] = RankWeights[p]
    BY <2>2 DEF Weights
  <2>4. QED
    BY <1>5, <2>1, <2>2, <2>3
<1> HIDE DEF sum, n
<1>10. \A x, y \in Nat : y >= 1 /\ x % y = 0 => (x \div y) * y = x
  BY SMT
<1>11. \A x \in Nat : x * 1 = x
  BY SMT
<1>12. Share(order, total, p) * n = sum
  <2>1. CASE f = l
    <3>1. Share(order, total, p) = sum /\ n = 1
      BY <1>7, <1>8, <1>9, <2>1
    <3>2. QED
      BY <1>5, <1>11, <3>1
  <2>2. CASE f # l
    <3>1. Share(order, total, p) = sum \div n
      BY <1>8, <2>2
    <3>2. (sum \div n) * n = sum
      BY <1>5, <1>6, <1>7, <1>10
    <3>3. QED
      BY <3>1, <3>2
  <2>3. QED
    BY <2>1, <2>2
<1>13. QED
  BY <1>12 DEF sum, n

(* In every typed state the scans compute the means of the ranks. *)
LEMMA TiesShare ==
  ASSUME LevelBufferAssumption, RankWeightsAssumption, LevelTypeOK
  PROVE  TiesShareTheirRanks
<1>1. PICK prefix, total :
        /\ IsPrefix(RankOrder, prefix) /\ IsTotal(RankOrder, prefix, total)
        /\ RankMass = [s \in Slots |-> IF s \in Filled
                                       THEN Share(RankOrder, total, PositionOf(RankOrder, s)) ELSE 0]
  BY MassFromScans
<1>2. Filled \subseteq Slots
  BY DEF LevelTypeOK, Slots
<1>3. \A s \in Slots \ Filled : RankMass[s] = 0
  BY <1>1
<1>4. ASSUME NEW s \in Filled
      PROVE  RankMass[s] * Cardinality(Tied(s))
               = SumFunctionOnSet(RankWeights, (Cardinality(Better(s)) + 1)..(Cardinality(Better(s)) + Cardinality(Tied(s))))
  <2> DEFINE a == Cardinality(Better(s))
             k == Cardinality(Tied(s))
             p == PositionOf(RankOrder, s)
  <2>1. TiesFollow(s, a, k)
    BY TiesAreConsecutive
  <2>2. s \in Tied(s)
    BY ScoresOrdered DEF ScoreAbove, LevelTypeOK, Tied, SameScore
  <2>3. p \in Slots /\ RankOrder[p] = s
    <3>1. \E q \in Slots : RankOrder[q] = s
      BY <1>2, RankOrderEnumerates
    <3>2. QED
      BY <3>1 DEF PositionOf
  <2>4. RankMass[s] = Share(RankOrder, total, p)
    BY <1>1, <1>2
  <2> HIDE DEF a, k, p
  <2>5. p \in (a + 1)..(a + k)
    BY <2>1, <2>2, <2>3 DEF TiesFollow
  <2>6. IsBlock(RankOrder, a + 1, a + k)
    BY <2>1, TiesAreABlock
  <2>7. Share(RankOrder, total, p) * (1 + (a + k) - (a + 1)) = SumFunctionOnSet(RankWeights, (a + 1)..(a + k))
    BY <1>1, <2>5, <2>6, ShareOfBlock
  <2>8. 1 + (a + k) - (a + 1) = k
    BY <2>1 DEF TiesFollow
  <2>9. QED
    BY <2>4, <2>7, <2>8 DEF a, k, p
<1>5. QED
  BY <1>3, <1>4, Zenon DEF TiesShareTheirRanks, Tied, Better

(* The scans of tie_aware_rank_mass give every filled slot the mean of the  *)
(* weights of its ties' ranks, and an empty slot nothing.                   *)
THEOREM TiesShareTheirRanksHolds == LevelSpec => []TiesShareTheirRanks
<1>1. LevelInit => LevelInv
  BY LevelBufferAssumption, LevelInvInit
<1>2. LevelInv /\ [LevelNext]_levelVars => LevelInv'
  BY LevelBufferAssumption, LevelInvStep
<1>3. LevelInv => TiesShareTheirRanks
  BY LevelBufferAssumption, RankWeightsAssumption, TiesShare DEF LevelInv
<1>4. QED
  BY <1>1, <1>2, <1>3, PTL DEF LevelSpec

-----------------------------------------------------------------------------
(* The places of the ledger: which levels came into a slot, in order. *)

CameInto(s) ==
  {r \in Rows : telemetry[r].pre = << >> /\ telemetry[r].post # << >> /\ telemetry[r].post[1] = s}

(* The ledger's cycles are numbered in order, and their clocks follow on. *)
ClockInv ==
  /\ telemetry = << >> => cycleClock = [iters |-> 0, updates |-> 0]
  /\ \A r \in Rows : CycleOf(r) < cycleClock.iters
  /\ \A r \in Rows : CycleOf(r) + 1 = cycleClock.iters => telemetry[r].clockAfter = cycleClock
  /\ ValidClocks

(* Generations count the levels that came into a slot, the slot has the     *)
(* last, and no place had two levels.                                       *)
GenerationsCount ==
  /\ \A s \in Slots : generation[s] = Cardinality(CameInto(s))
  /\ \A s \in Slots : s \in Filled <=> generation[s] # 0
  /\ \A s \in Filled : plrBuffer[s].gen = generation[s] - 1
  /\ \A s \in Slots : \A r \in CameInto(s) : telemetry[r].post[2] = Cardinality({q \in CameInto(s) : q < r})

(* A place of the ledger has one level, and the buffer agrees with it. *)
PlacesKnown ==
  /\ \A r \in Rows : telemetry[r].post # << >> => telemetry[r].post[2] < generation[telemetry[r].post[1]]
  /\ \A r \in Rows : \A s \in Filled :
       telemetry[r].post = <<s, plrBuffer[s].gen>> => telemetry[r].level = plrBuffer[s].level
  /\ \A r, q \in Rows : telemetry[r].post # << >> /\ telemetry[q].post = telemetry[r].post =>
       telemetry[q].level = telemetry[r].level

(* A level with no place before it is new, and every level has been new. *)
OriginsKnown ==
  /\ \A r \in Rows : telemetry[r].pre = << >> => NewRow(r)
  /\ \A r \in Rows : \E q \in Rows : NewRow(q) /\ telemetry[q].level = telemetry[r].level

(* The rows that say a level came into slot t: those of the ledger, and     *)
(* those of the batch that the carry of the scan has placed there.          *)
Fresh(s, batch, i) == batch[i].slot = 0 /\ s.placed[i] # << >>
FreshIn(s, batch, t, r) ==
  \E i \in 1..Parallel : r = Len(telemetry) + i /\ Fresh(s, batch, i) /\ s.placed[i][1] = t
PlacedIn(s, batch, t) ==
  CameInto(t) \cup {r \in (Len(telemetry) + 1)..Width(batch) :
                      LET i == r - Len(telemetry) IN Fresh(s, batch, i) /\ s.placed[i][1] = t}

(* The carry counts them. *)
PlaceFold(s, batch) ==
  /\ \A t \in Slots : s.generation[t] = Cardinality(PlacedIn(s, batch, t))
  /\ \A t \in Slots : t \in DOMAIN s.buffer <=> s.generation[t] # 0
  /\ \A t \in DOMAIN s.buffer : s.buffer[t].gen = s.generation[t] - 1
  /\ \A i \in 1..Parallel : Fresh(s, batch, i) =>
       s.placed[i][2] = Cardinality({q \in PlacedIn(s, batch, s.placed[i][1]) : q < Len(telemetry) + i})

(* The rows of a slot are a finite set of numbers. *)
LEMMA PlacedIsFinite ==
  ASSUME LevelBufferAssumption, LevelTypeOK, NEW batch, BatchOK(batch), NEW s, NEW t
  PROVE  /\ PlacedIn(s, batch, t) \subseteq 1..Width(batch) /\ IsFiniteSet(PlacedIn(s, batch, t))
         /\ Len(telemetry) \in Nat /\ Parallel \in Nat /\ Width(batch) = Len(telemetry) + Parallel
         /\ \A r : r \in PlacedIn(s, batch, t) <=> r \in CameInto(t) \/ FreshIn(s, batch, t, r)
         /\ \A r \in CameInto(t) : r \in 1..Len(telemetry)
<1> DEFINE n == Len(telemetry)
           w == Width(batch)
           B == {r \in (n + 1)..w : Fresh(s, batch, r - n) /\ s.placed[r - n][1] = t}
<1>1. n \in Nat /\ Parallel \in Nat /\ Rows = 1..n /\ w = n + Parallel /\ IsFiniteSet(1..w)
  BY ToldIsNat DEF Width
<1>2. \A r \in CameInto(t) : r \in 1..n
  BY <1>1 DEF CameInto
<1>3. PlacedIn(s, batch, t) = CameInto(t) \cup B
  BY DEF PlacedIn
<1>4. 1..n \subseteq 1..w /\ (n + 1)..w \subseteq 1..w
  BY <1>1
<1>5. \A r \in (n + 1)..w : r - n \in 1..Parallel /\ r = n + (r - n)
  BY <1>1
<1>6. \A i \in 1..Parallel : n + i \in (n + 1)..w /\ (n + i) - n = i
  BY <1>1
<1> HIDE DEF n, w
<1>7. PlacedIn(s, batch, t) \subseteq 1..w
  BY <1>2, <1>3, <1>4
<1>8. IsFiniteSet(PlacedIn(s, batch, t))
  BY <1>1, <1>7, FS_Subset
<1>9. ASSUME NEW r PROVE r \in B <=> FreshIn(s, batch, t, r)
  <2>1. ASSUME r \in B PROVE FreshIn(s, batch, t, r)
    BY <1>5, <2>1 DEF FreshIn, n
  <2>2. ASSUME NEW i \in 1..Parallel, r = n + i, Fresh(s, batch, i), s.placed[i][1] = t PROVE r \in B
    BY <1>6, <2>2
  <2>3. QED
    BY <2>1, <2>2 DEF FreshIn, n
<1> HIDE DEF B
<1>10. \A r : r \in PlacedIn(s, batch, t) <=> r \in CameInto(t) \/ FreshIn(s, batch, t, r)
  BY <1>3, <1>9
<1>11. QED
  BY <1>1, <1>2, <1>7, <1>8, <1>10 DEF n, w

(* The scan starts with the places of the ledger. *)
LEMMA PlacesStart ==
  ASSUME LevelBufferAssumption, LevelInv, GenerationsCount, NEW batch, BatchOK(batch)
  PROVE  PlaceFold(ScanStart(batch), batch)
<1> DEFINE s == ScanStart(batch)
<1>1. s.buffer = plrBuffer /\ s.generation = generation /\ s.placed = [i \in DOMAIN batch |-> << >>]
  BY DEF ScanStart
<1>2. DOMAIN batch = 1..Parallel /\ LevelTypeOK
  BY DEF BatchOK, LevelInv
<1> HIDE DEF s
<1>3. \A i \in 1..Parallel : ~Fresh(s, batch, i)
  BY <1>1, <1>2 DEF Fresh
<1>4. ASSUME NEW t PROVE PlacedIn(s, batch, t) = CameInto(t)
  <2>1. \A r : r \in PlacedIn(s, batch, t) <=> r \in CameInto(t) \/ FreshIn(s, batch, t, r)
    BY <1>2, PlacedIsFinite
  <2>2. QED
    BY <1>3, <2>1 DEF FreshIn
<1>5. DOMAIN s.buffer = Filled
  BY <1>1 DEF Filled
<1>6. PlaceFold(s, batch)
  BY <1>1, <1>3, <1>4, <1>5 DEF PlaceFold, GenerationsCount
<1>7. QED
  BY <1>6 DEF s

(* One step of the scan counts the level it places. *)
LEMMA PlaceStep ==
  ASSUME LevelBufferAssumption, LevelTypeOK, NEW batch, BatchOK(batch),
         NEW D \in SUBSET (1..Parallel), NEW i \in 1..Parallel, i \notin D,
         \A j \in D : batch[j].slot = 0 => batch[i].slot = 0 /\ j < i,
         NEW s, FoldInv(s, batch, D), PlaceFold(s, batch), NEW victim \in Slots
  PROVE  PlaceFold(StoreGroup(s, batch, i, victim), batch)
<1> DEFINE n == Len(telemetry)
           g == batch[i]
           at == IF g.slot = 0 THEN NextInsert(DOMAIN s.buffer, victim) ELSE g.slot
           candidate == Plus(BaseCounts(s, g, at), g.outcome)
           stores == /\ Counts(batch, i)
                     /\ \/ g.slot # 0 \/ at \notin DOMAIN s.buffer
                        \/ ~Higher(s.buffer[at].counts, candidate)
           gen == IF g.slot = 0 THEN s.generation[at] ELSE s.buffer[at].gen
           entry == [level |-> g.level, gen |-> gen, counts |-> candidate]
           buffer == [t \in DOMAIN s.buffer \cup {at} |-> IF t = at THEN entry ELSE s.buffer[t]]
           generated == IF g.slot = 0 THEN [s.generation EXCEPT ![at] = @ + 1] ELSE s.generation
           placed == [s.placed EXCEPT ![i] = <<at, gen>>]
           z == StoreGroup(s, batch, i, victim)
<1>1. z = IF ~stores THEN s ELSE [buffer |-> buffer, generation |-> generated, placed |-> placed]
  BY DEF StoreGroup
<1>2. /\ DOMAIN s.buffer \subseteq Slots /\ Filled \subseteq DOMAIN s.buffer
      /\ s.generation \in [Slots -> Nat] /\ s.placed \in [1..Parallel -> Places]
  BY DEF FoldInv
<1>3. \A j \in 1..Parallel : Fresh(s, batch, j) => j \in D
  BY DEF FoldInv, Fresh
<1>4. \A t \in Slots : s.generation[t] = Cardinality(PlacedIn(s, batch, t))
  BY DEF PlaceFold
<1>5. \A t \in Slots : t \in DOMAIN s.buffer <=> s.generation[t] # 0
  BY DEF PlaceFold
<1>6. \A t \in DOMAIN s.buffer : s.buffer[t].gen = s.generation[t] - 1
  BY DEF PlaceFold
<1>7. \A j \in 1..Parallel : Fresh(s, batch, j) =>
        s.placed[j][2] = Cardinality({q \in PlacedIn(s, batch, s.placed[j][1]) : q < n + j})
  BY DEF PlaceFold
<1>8. n \in Nat /\ Parallel \in Nat
  BY ToldIsNat
<1>9. ASSUME NEW t
      PROVE  /\ IsFiniteSet(PlacedIn(s, batch, t))
             /\ \A r : r \in PlacedIn(s, batch, t) <=> r \in CameInto(t) \/ FreshIn(s, batch, t, r)
             /\ \A r : r \in PlacedIn(z, batch, t) <=> r \in CameInto(t) \/ FreshIn(z, batch, t, r)
             /\ \A r \in CameInto(t) : r \in 1..n
  <2> HIDE DEF z
  <2>1. QED
    BY PlacedIsFinite
<1>10. 0 \notin Slots /\ Filled \subseteq Slots
  BY DEF Slots, LevelTypeOK
<1>11. at \in Slots
  BY <1>2, <1>10, InsertsInSlot DEF BatchOK
<1>12. CASE ~stores
  BY <1>1, <1>12
<1>13. CASE stores /\ g.slot # 0
  <2>1. z = [buffer |-> buffer, generation |-> generated, placed |-> placed]
    BY <1>1, <1>13
  <2>2. at \in DOMAIN s.buffer /\ generated = s.generation /\ gen = s.buffer[at].gen
    BY <1>2, <1>13 DEF BatchOK
  <2>3. DOMAIN buffer = DOMAIN s.buffer /\ \A t \in DOMAIN s.buffer : buffer[t].gen = s.buffer[t].gen
    BY <2>2
  <2>4. \A j \in 1..Parallel : j # i => placed[j] = s.placed[j]
    BY <1>2
  <2> HIDE DEF buffer, generated, placed
  <2>5. z.buffer = buffer /\ z.generation = s.generation /\ z.placed = placed
    BY <2>1, <2>2
  <2> HIDE DEF z, at, gen, stores
  <2>6. \A j \in 1..Parallel : /\ Fresh(z, batch, j) <=> Fresh(s, batch, j)
                               /\ Fresh(s, batch, j) => z.placed[j] = s.placed[j]
    BY <1>13, <2>4, <2>5 DEF Fresh
  <2>7. ASSUME NEW t PROVE PlacedIn(z, batch, t) = PlacedIn(s, batch, t)
    <3>1. ASSUME NEW r
          PROVE  FreshIn(z, batch, t, r) <=> FreshIn(s, batch, t, r)
      BY <2>6 DEF FreshIn
    <3>2. \A r : r \in PlacedIn(z, batch, t) <=> r \in PlacedIn(s, batch, t)
      BY <1>9, <3>1
    <3>3. QED
      BY <3>2
  <2>8. PlaceFold(z, batch)
    BY <1>4, <1>5, <1>6, <1>7, <2>3, <2>5, <2>6, <2>7 DEF PlaceFold
  <2>9. QED
    BY <2>8 DEF z
<1>14. CASE stores /\ g.slot = 0
  <2>1. z = [buffer |-> buffer, generation |-> generated, placed |-> placed]
    BY <1>1, <1>14
  <2>2. gen = s.generation[at] /\ gen \in Nat
    BY <1>2, <1>11, <1>14
  <2>3. generated = [s.generation EXCEPT ![at] = @ + 1]
    BY <1>14
  <2>4. /\ DOMAIN buffer = DOMAIN s.buffer \cup {at} /\ buffer[at].gen = gen
        /\ \A t \in DOMAIN s.buffer : t # at => buffer[t] = s.buffer[t]
    OBVIOUS
  <2>5. placed[i] = <<at, gen>> /\ \A j \in 1..Parallel : j # i => placed[j] = s.placed[j]
    BY <1>2
  <2> HIDE DEF buffer, generated, placed
  <2>6. z.buffer = buffer /\ z.generation = generated /\ z.placed = placed
    BY <2>1
  <2> HIDE DEF z, at, gen, stores
  <2>7. z.generation[at] = gen + 1 /\ \A t \in Slots : t # at => z.generation[t] = s.generation[t]
    BY <1>2, <1>11, <2>2, <2>3, <2>6
  <2>8. ~Fresh(s, batch, i) /\ \A j \in 1..Parallel : Fresh(s, batch, j) => j < i /\ n + j < n + i
    <3>1. \A j \in 1..Parallel : Fresh(s, batch, j) => j < i
      BY <1>3 DEF Fresh
    <3>2. ~Fresh(s, batch, i)
      BY <1>3
    <3>3. QED
      BY <1>8, <3>1, <3>2
  <2>9. /\ Fresh(z, batch, i) /\ z.placed[i][1] = at /\ z.placed[i][2] = gen
        /\ \A j \in 1..Parallel : j # i => /\ Fresh(z, batch, j) <=> Fresh(s, batch, j)
                                           /\ z.placed[j] = s.placed[j]
    <3>1. z.placed[i] = <<at, gen>> /\ \A j \in 1..Parallel : j # i => z.placed[j] = s.placed[j]
      BY <2>5, <2>6
    <3>2. z.placed[i] # << >> /\ z.placed[i][1] = at /\ z.placed[i][2] = gen
      BY <3>1
    <3>3. QED
      BY <1>14, <3>1, <3>2 DEF Fresh
  <2>10. ASSUME NEW t, t # at PROVE PlacedIn(z, batch, t) = PlacedIn(s, batch, t)
    <3>1. ASSUME NEW r
          PROVE  FreshIn(z, batch, t, r) <=> FreshIn(s, batch, t, r)
      BY <2>8, <2>9, <2>10 DEF FreshIn
    <3>2. \A r : r \in PlacedIn(z, batch, t) <=> r \in PlacedIn(s, batch, t)
      BY <1>9, <3>1
    <3>3. QED
      BY <3>2
  <2>11. PlacedIn(z, batch, at) = PlacedIn(s, batch, at) \cup {n + i}
    <3>1. ASSUME NEW r
          PROVE  FreshIn(z, batch, at, r) <=> (r = n + i \/ FreshIn(s, batch, at, r))
      BY <2>8, <2>9 DEF FreshIn
    <3>2. \A r : r \in PlacedIn(z, batch, at) <=> r \in PlacedIn(s, batch, at) \/ r = n + i
      BY <1>9, <3>1
    <3>3. QED
      BY <3>2
  <2>12. /\ \A r \in PlacedIn(s, batch, at) : r < n + i
         /\ n + i \notin PlacedIn(s, batch, at)
    <3>1. ASSUME NEW r \in PlacedIn(s, batch, at) PROVE r < n + i
      <4>1. CASE r \in CameInto(at)
        <5>1. r \in 1..n
          BY <1>9, <4>1
        <5> HIDE DEF n
        <5>2. QED
          BY <1>8, <5>1
      <4>2. CASE FreshIn(s, batch, at, r)
        BY <2>8, <4>2 DEF FreshIn
      <4>3. QED
        BY <1>9, <4>1, <4>2
    <3>2. ~(n + i < n + i)
      BY <1>8
    <3>3. QED
      BY <3>1, <3>2
  <2>13. Cardinality(PlacedIn(s, batch, at)) = gen
    BY <1>4, <1>11, <2>2
  <2>14. Cardinality(PlacedIn(z, batch, at)) = gen + 1
    <3>1. IsFiniteSet(PlacedIn(s, batch, at))
      BY <1>9
    <3>2. Cardinality(PlacedIn(s, batch, at) \cup {n + i}) = Cardinality(PlacedIn(s, batch, at)) + 1
      BY <2>12, <3>1, FS_AddElement
    <3>3. QED
      BY <2>11, <2>13, <3>2
  <2>15. \A t \in Slots : z.generation[t] = Cardinality(PlacedIn(z, batch, t))
    BY <1>4, <2>7, <2>10, <2>14
  <2>16. \A t \in Slots : t \in DOMAIN z.buffer <=> z.generation[t] # 0
    <3>1. gen + 1 # 0
      BY <2>2
    <3>2. QED
      BY <1>5, <2>4, <2>6, <2>7, <3>1
  <2>17. \A t \in DOMAIN z.buffer : z.buffer[t].gen = z.generation[t] - 1
    <3>1. gen = (gen + 1) - 1
      BY <2>2
    <3>2. QED
      BY <1>2, <1>6, <2>4, <2>6, <2>7, <3>1
  <2>18. ASSUME NEW j \in 1..Parallel, Fresh(z, batch, j)
         PROVE  z.placed[j][2] = Cardinality({q \in PlacedIn(z, batch, z.placed[j][1]) : q < n + j})
    <3>1. CASE j = i
      <4>1. {q \in PlacedIn(z, batch, at) : q < n + i} = PlacedIn(s, batch, at)
        <5>1. ~(n + i < n + i)
          BY <1>8
        <5>2. QED
          BY <2>11, <2>12, <5>1
      <4>2. QED
        BY <2>9, <2>13, <3>1, <4>1
    <3>2. CASE j # i
      <4> DEFINE t == s.placed[j][1]
      <4>1. Fresh(s, batch, j) /\ z.placed[j] = s.placed[j]
        BY <2>9, <2>18, <3>2
      <4>2. ~(n + i < n + j)
        BY <1>8, <2>8, <4>1
      <4>3. {q \in PlacedIn(z, batch, t) : q < n + j} = {q \in PlacedIn(s, batch, t) : q < n + j}
        <5> HIDE DEF t
        <5>1. CASE t = at
          BY <2>11, <4>2, <5>1
        <5>2. CASE t # at
          BY <2>10, <5>2
        <5>3. QED
          BY <5>1, <5>2
      <4>4. QED
        BY <1>7, <4>1, <4>3
    <3>3. QED
      BY <3>1, <3>2
  <2>19. PlaceFold(z, batch)
    BY <2>15, <2>16, <2>17, <2>18 DEF PlaceFold
  <2>20. QED
    BY <2>19 DEF z
<1>15. QED
  BY <1>12, <1>13, <1>14

(* And so does the scan of a batch. *)
LEMMA PlacesFold ==
  ASSUME LevelBufferAssumption, LevelInv, GenerationsCount, NEW batch, BatchOK(batch),
         NEW victims \in [1..Parallel -> Slots]
  PROVE  PlaceFold(UpdateBatch(batch, victims), batch)
<1> DEFINE carry == Scan(batch, victims)
           T == {k \in Nat : k <= Parallel => PlaceFold(carry[k], batch)}
<1>1. Parallel \in Nat /\ LevelTypeOK
  BY DEF LevelBufferAssumption, LevelInv
<1>2. /\ carry[0] = ScanStart(batch) /\ \A k \in 1..Parallel : StepOK(batch, victims, k)
      /\ UpdateBatch(batch, victims) = carry[Parallel]
  BY ScanSteps
<1>3. \A k \in 0..Parallel : FoldInv(carry[k], batch, Scanned(batch, k))
  BY FoldKeeps
<1>4. 0 \in T
  BY <1>2, PlacesStart
<1>5. ASSUME NEW k \in T PROVE k + 1 \in T
  <2>1. k \in Nat /\ (k <= Parallel => PlaceFold(carry[k], batch))
    OBVIOUS
  <2>2. ASSUME k + 1 <= Parallel PROVE PlaceFold(carry[k + 1], batch)
    <3> DEFINE m == k + 1
               i == ExistingFirst(batch)[m]
               D == Scanned(batch, k)
    <3>1. m \in 1..Parallel /\ m - 1 = k /\ k <= Parallel /\ k \in 0..Parallel
      BY <1>1, <2>1, <2>2
    <3>2. PlaceFold(carry[k], batch) /\ FoldInv(carry[k], batch, D)
      BY <1>3, <2>1, <3>1
    <3> HIDE DEF m
    <3>3. /\ i \in 1..Parallel /\ D \in SUBSET (1..Parallel) /\ i \notin D
          /\ \A j \in D : batch[j].slot = 0 => batch[i].slot = 0 /\ j < i
          /\ victims[i] \in Slots
          /\ carry[m] = StoreGroup(carry[k], batch, i, victims[i])
      BY <1>2, <3>1 DEF StepOK
    <3> HIDE DEF i, D, carry
    <3>4. PlaceFold(StoreGroup(carry[k], batch, i, victims[i]), batch)
      BY <1>1, <3>2, <3>3, PlaceStep
    <3>5. QED
      BY <3>3, <3>4 DEF m
  <2>3. QED
    BY <2>1, <2>2
<1>6. T = Nat
  <2>1. T \in SUBSET Nat
    OBVIOUS
  <2> HIDE DEF T
  <2>2. QED
    BY <1>4, <1>5, <2>1, SetInduction
<1>7. Parallel \in T
  BY <1>1, <1>6
<1>8. Parallel <= Parallel
  BY <1>1
<1>9. QED
  BY <1>2, <1>7, <1>8

-----------------------------------------------------------------------------
(* The row of the group i. *)
GroupRow(row, branch, batch, i, after) ==
  /\ row.level = batch[i].level /\ row.source = branch /\ row.current = batch[i].outcome
  /\ row.clock = cycleClock /\ row.clockAfter = cycleClock'
  /\ batch[i].slot = 0 => row.pre = << >> /\ row.post = after.placed[i] /\ row.before = <<0, 0>>
  /\ batch[i].slot # 0 =>
       /\ row.pre = <<batch[i].slot, plrBuffer[batch[i].slot].gen>> /\ row.post = row.pre
       /\ row.before = plrBuffer[batch[i].slot].counts
  /\ row.persisted = Persists(row.post, after)
  /\ row.disposition = Disposition(batch, i, row.persisted, after)
  /\ row.after = IF row.persisted THEN after.buffer[row.post[1]].counts
                 ELSE IF row.disposition = "inserted_then_evicted" THEN Plus(row.before, batch[i].outcome)
                 ELSE row.before

(* A cycle of a batch, and what its scan leaves. *)
Cycle(branch, batch, after) ==
  /\ branch \in {"new", "replay"} /\ BatchOK(batch)
  /\ branch = "replay" => \A i \in 1..Parallel : batch[i].slot # 0
  /\ FoldInv(after, batch, 1..Parallel) /\ PlaceFold(after, batch)
  /\ LedgerGrows(batch, after)
  /\ \A i \in 1..Parallel : GroupRow(telemetry'[Len(telemetry) + i], branch, batch, i, after)
  /\ plrBuffer' = after.buffer /\ generation' = after.generation
  /\ cycleClock' = [iters |-> cycleClock.iters + 1,
                    updates |-> cycleClock.updates + IF branch = "replay" THEN 1 ELSE 0]
  /\ plrCounters' =
       [incomplete   |-> plrCounters.incomplete
                           + Cardinality({i \in DOMAIN batch : ~WholeGroup(batch[i])}),
        duplicateNew |-> plrCounters.duplicateNew
                           + Cardinality({i \in DOMAIN batch : RepeatsNew(batch, i)}),
        drawnAgain   |-> plrCounters.drawnAgain
                           + IF branch = "replay"
                             THEN Parallel - Cardinality({batch[i].slot : i \in DOMAIN batch}) ELSE 0]
  /\ LevelInv'

SomeCycle == \E branch : \E batch : \E after : Cycle(branch, batch, after)

(* The row the writer makes is that of its group. *)
LEMMA WriterMakesRow ==
  ASSUME NEW branch, NEW batch, NEW i, NEW after
  PROVE  GroupRow(TelemetryRow(branch, batch, i, after), branch, batch, i, after)
<1> DEFINE g == batch[i]
           pre == IF g.slot = 0 THEN << >> ELSE <<g.slot, plrBuffer[g.slot].gen>>
           post == IF g.slot = 0 THEN after.placed[i] ELSE pre
           persists == Persists(post, after)
           before == IF g.slot = 0 THEN <<0, 0>> ELSE plrBuffer[g.slot].counts
           label == Disposition(batch, i, persists, after)
           ends == IF persists THEN after.buffer[post[1]].counts
                   ELSE IF label = "inserted_then_evicted" THEN Plus(before, g.outcome) ELSE before
           row == TelemetryRow(branch, batch, i, after)
<1>1. row = [level |-> g.level, source |-> branch, current |-> g.outcome, pre |-> pre, post |-> post,
             before |-> before, disposition |-> label, persisted |-> persists, after |-> ends,
             clock |-> cycleClock, clockAfter |-> cycleClock']
  BY DEF TelemetryRow
<1>2. /\ g.slot = 0 => pre = << >> /\ post = after.placed[i] /\ before = <<0, 0>>
      /\ g.slot # 0 => /\ pre = <<g.slot, plrBuffer[g.slot].gen>> /\ post = pre
                       /\ before = plrBuffer[g.slot].counts
  OBVIOUS
<1>3. ends = IF persists THEN after.buffer[post[1]].counts
             ELSE IF label = "inserted_then_evicted" THEN Plus(before, g.outcome) ELSE before
  OBVIOUS
<1>4. persists = Persists(post, after) /\ label = Disposition(batch, i, persists, after)
  OBVIOUS
<1> HIDE DEF pre, post, before, persists, label, ends, row
<1>5. /\ row.level = g.level /\ row.source = branch /\ row.current = g.outcome /\ row.pre = pre
      /\ row.post = post /\ row.before = before /\ row.disposition = label /\ row.persisted = persists
      /\ row.after = ends /\ row.clock = cycleClock /\ row.clockAfter = cycleClock'
  BY <1>1
<1>6. GroupRow(row, branch, batch, i, after)
  BY <1>2, <1>3, <1>4, <1>5 DEF GroupRow
<1>7. QED
  BY <1>6 DEF row

(* Every cycle of the program is one of these. *)
LEMMA CyclesAre == ASSUME LevelBufferAssumption, LevelInv, GenerationsCount, LevelNext PROVE SomeCycle
<1>1. PICK branch \in {"new", "replay"} : \E batch : \E victims \in [1..Parallel -> Slots] :
        RunsBatch(branch, batch, victims)
  BY CyclesRunBatches DEF RunsACycle
<1>2. PICK batch : \E victims \in [1..Parallel -> Slots] : RunsBatch(branch, batch, victims)
  BY <1>1
<1>3. PICK victims \in [1..Parallel -> Slots] : RunsBatch(branch, batch, victims)
  BY <1>2
<1> DEFINE after == UpdateBatch(batch, victims)
<1>4. /\ BatchOK(batch) /\ RunCycle(branch, batch, victims)
      /\ branch = "replay" => \A i \in 1..Parallel : batch[i].slot # 0
  BY <1>3 DEF RunsBatch
<1>5. FoldInv(after, batch, 1..Parallel)
  BY <1>4, BatchKeeps
<1>6. PlaceFold(after, batch)
  BY <1>4, PlacesFold
<1>7. LedgerGrows(batch, after)
  BY <1>4, CycleWrites
<1>8. WritesRows(branch, batch, after)
  BY <1>4, CycleWrites
<1>9. LevelInv'
  BY <1>4, CycleKeeps
<1>10. \A i \in 1..Parallel : GroupRow(telemetry'[Len(telemetry) + i], branch, batch, i, after)
  <2> HIDE DEF after
  <2>1. ASSUME NEW i \in 1..Parallel PROVE GroupRow(telemetry'[Len(telemetry) + i], branch, batch, i, after)
    <3>1. GroupRow(TelemetryRow(branch, batch, i, after), branch, batch, i, after)
      BY WriterMakesRow
    <3>2. telemetry'[Len(telemetry) + i] = TelemetryRow(branch, batch, i, after)
      BY <1>8 DEF WritesRows
    <3>3. QED
      BY <3>1, <3>2 DEF GroupRow
  <2>2. QED
    BY <2>1
<1>11. plrBuffer' = after.buffer /\ generation' = after.generation
  BY <1>4 DEF RunCycle
<1> HIDE DEF after
<1>12. Cycle(branch, batch, after)
  BY <1>4, <1>5, <1>6, <1>7, <1>9, <1>10, <1>11 DEF Cycle, RunCycle
<1>13. QED
  BY <1>12 DEF SomeCycle

(* A cycle's rows come after those of the ledger. *)
LEMMA RowNumbers ==
  ASSUME LevelBufferAssumption, LevelInv, NEW branch, NEW batch, NEW after, Cycle(branch, batch, after)
  PROVE  /\ Len(telemetry) \in Nat /\ Parallel \in Nat /\ 1 \in 1..Parallel
         /\ Rows = 1..Len(telemetry) /\ Rows' = 1..Width(batch)
         /\ \A r \in Rows : r \in Rows' /\ r \in Nat /\ telemetry'[r] = telemetry[r]
         /\ \A i \in 1..Parallel : /\ Len(telemetry) + i \in Rows' /\ Len(telemetry) + i \notin Rows
                                   /\ \A r \in Rows : r < Len(telemetry) + i
         /\ \A r \in Rows' : r \in Nat /\ (r \in Rows \/ \E i \in 1..Parallel : r = Len(telemetry) + i)
<1> DEFINE n == Len(telemetry)
<1>1. LevelTypeOK /\ BatchOK(batch) /\ LedgerGrows(batch, after)
  BY DEF Cycle, LevelInv
<1>2. n \in Nat /\ Parallel \in Nat \ {0} /\ Rows = 1..n /\ Rows' = 1..(n + Parallel)
  BY <1>1, ToldIsNat DEF LevelBufferAssumption, LedgerGrows, Width
<1>3. \A r \in Rows : telemetry'[r] = telemetry[r]
  BY <1>1 DEF LedgerGrows
<1> HIDE DEF n
<1>4. \A r \in 1..n : r \in 1..(n + Parallel) /\ r \in Nat
  BY <1>2
<1>5. \A i \in 1..Parallel : /\ n + i \in 1..(n + Parallel) /\ n + i \notin 1..n
                             /\ \A r \in 1..n : r < n + i
  BY <1>2
<1>6. ASSUME NEW r \in 1..(n + Parallel), r \notin 1..n PROVE r - n \in 1..Parallel /\ r = n + (r - n)
  BY <1>2, <1>6
<1>7. \A r \in 1..(n + Parallel) : r \in Nat /\ (r \in 1..n \/ \E i \in 1..Parallel : r = n + i)
  BY <1>2, <1>6
<1>8. 1 \in 1..Parallel
  BY <1>2
<1>9. QED
  BY <1>2, <1>3, <1>4, <1>5, <1>7, <1>8 DEF n, Width

(* The types of a row's parts. *)
RowsTyped ==
  \A r \in Rows :
    /\ telemetry[r].source \in {"new", "replay"} /\ telemetry[r].persisted \in BOOLEAN
    /\ telemetry[r].post \in Places
    /\ telemetry[r].post # << >> => telemetry[r].post[1] \in Slots /\ telemetry[r].post[2] \in Nat
    /\ CycleOf(r) \in Nat /\ telemetry[r].clockAfter.iters \in Nat

(* Rows of the right type have such parts. *)
LEMMA RowTypes == LevelTypeOK => RowsTyped
<1> SUFFICES ASSUME LevelTypeOK, NEW r \in Rows
             PROVE  /\ telemetry[r].source \in {"new", "replay"} /\ telemetry[r].persisted \in BOOLEAN
                    /\ telemetry[r].post \in Places
                    /\ telemetry[r].post # << >> => telemetry[r].post[1] \in Slots /\ telemetry[r].post[2] \in Nat
                    /\ CycleOf(r) \in Nat /\ telemetry[r].clockAfter.iters \in Nat
  BY DEF RowsTyped
<1>1. telemetry[r] \in EventRow
  BY DEF LevelTypeOK, Rows
<1>2. /\ telemetry[r].source \in {"new", "replay"} /\ telemetry[r].persisted \in BOOLEAN
      /\ telemetry[r].post \in Places
      /\ telemetry[r].clock \in [iters : Nat, updates : Nat]
      /\ telemetry[r].clockAfter \in [iters : Nat, updates : Nat]
  BY <1>1 DEF EventRow
<1>3. telemetry[r].post # << >> => telemetry[r].post[1] \in Slots /\ telemetry[r].post[2] \in Nat
  BY <1>2 DEF Places
<1>4. QED
  BY <1>2, <1>3 DEF CycleOf

(* A cycle's clocks go on from those of the ledger. *)
LEMMA ClocksKept ==
  ASSUME LevelBufferAssumption, LevelInv, ClockInv,
         NEW branch, NEW batch, NEW after, Cycle(branch, batch, after)
  PROVE  ClockInv'
<1> DEFINE n == Len(telemetry)
           now == cycleClock.iters
<1>1. RowsTyped /\ now \in Nat /\ cycleClock.updates \in Nat
  BY RowTypes DEF LevelInv, LevelTypeOK
<1>2. /\ n \in Nat /\ Parallel \in Nat /\ 1 \in 1..Parallel
      /\ Rows = 1..n
      /\ \A r \in Rows : r \in Rows' /\ r \in Nat /\ telemetry'[r] = telemetry[r]
      /\ \A i \in 1..Parallel : /\ n + i \in Rows' /\ n + i \notin Rows /\ \A r \in Rows : r < n + i
      /\ \A r \in Rows' : r \in Nat /\ (r \in Rows \/ \E i \in 1..Parallel : r = n + i)
  BY RowNumbers
<1>3. /\ cycleClock' = [iters |-> now + 1,
                        updates |-> cycleClock.updates + IF branch = "replay" THEN 1 ELSE 0]
      /\ branch \in {"new", "replay"}
  BY DEF Cycle
<1>4. ASSUME NEW i \in 1..Parallel
      PROVE  /\ telemetry'[n + i].clock = cycleClock /\ telemetry'[n + i].clockAfter = cycleClock'
             /\ telemetry'[n + i].source = branch /\ telemetry'[n + i].clock.iters = now
  BY DEF Cycle, GroupRow
<1>5. /\ telemetry = << >> => cycleClock = [iters |-> 0, updates |-> 0]
      /\ \A r \in Rows : telemetry[r].clock.iters < now
      /\ \A r \in Rows : telemetry[r].clock.iters + 1 = now => telemetry[r].clockAfter = cycleClock
  BY DEF ClockInv, CycleOf
<1>6. /\ telemetry # << >> => telemetry[1].clock = [iters |-> 0, updates |-> 0]
      /\ \A r \in Rows :
           /\ telemetry[r].clockAfter.iters = telemetry[r].clock.iters + 1
           /\ telemetry[r].clockAfter.updates = telemetry[r].clock.updates + IF NewRow(r) THEN 0 ELSE 1
           /\ \A q \in Rows : telemetry[q].clock.iters = telemetry[r].clock.iters =>
                telemetry[q].clock = telemetry[r].clock /\ telemetry[q].source = telemetry[r].source
           /\ \A q \in Rows : telemetry[q].clock.iters = telemetry[r].clock.iters + 1 =>
                telemetry[q].clock = telemetry[r].clockAfter
  BY DEF ClockInv, ValidClocks, CycleOf
<1>7. \A r \in Rows : telemetry[r].clock.iters \in Nat
  BY <1>1 DEF RowsTyped, CycleOf
<1> HIDE DEF n
<1>8. \A r \in Rows' : telemetry'[r].clock.iters < cycleClock'.iters
  <2>1. \A r \in Rows : telemetry[r].clock.iters < now + 1
    BY <1>1, <1>5, <1>7
  <2>2. now < now + 1
    BY <1>1
  <2> HIDE DEF now
  <2>3. QED
    BY <1>2, <1>3, <1>4, <2>1, <2>2
<1>9. ASSUME NEW r \in Rows', telemetry'[r].clock.iters + 1 = cycleClock'.iters
      PROVE  telemetry'[r].clockAfter = cycleClock'
  <2>1. CASE r \in Rows
    <3>1. telemetry[r].clock.iters + 1 = now + 1 /\ telemetry[r].clock.iters < now
      BY <1>2, <1>3, <1>5, <1>9, <2>1
    <3>2. QED
      BY <1>1, <1>7, <2>1, <3>1
  <2>2. CASE r \notin Rows
    BY <1>2, <1>4, <2>2
  <2>3. QED
    BY <2>1, <2>2
<1>10. telemetry' # << >> => telemetry'[1].clock = [iters |-> 0, updates |-> 0]
  <2>1. CASE telemetry = << >>
    <3>1. n = 0 /\ n + 1 = 1
      BY <2>1 DEF n
    <3>2. QED
      BY <1>2, <1>4, <1>5, <2>1, <3>1
  <2>2. CASE telemetry # << >>
    <3>1. n # 0
      BY <2>2 DEF LevelInv, LevelTypeOK, n
    <3>2. 1 \in Rows
      BY <1>2, <3>1
    <3>3. QED
      BY <1>2, <1>6, <2>2, <3>2
  <2>3. QED
    BY <2>1, <2>2
<1>11. ASSUME NEW r \in Rows'
       PROVE  /\ telemetry'[r].clockAfter.iters = telemetry'[r].clock.iters + 1
              /\ telemetry'[r].clockAfter.updates =
                   telemetry'[r].clock.updates + IF NewRow(r)' THEN 0 ELSE 1
  <2>1. CASE r \in Rows
    BY <1>2, <1>6, <2>1 DEF NewRow
  <2>2. CASE r \notin Rows
    <3>1. PICK i \in 1..Parallel : r = n + i
      BY <1>2, <2>2
    <3>2. NewRow(r)' <=> branch = "new"
      BY <1>4, <3>1 DEF NewRow
    <3>3. QED
      BY <1>3, <1>4, <3>1, <3>2
  <2>3. QED
    BY <2>1, <2>2
<1>12. ASSUME NEW r \in Rows', NEW q \in Rows', telemetry'[q].clock.iters = telemetry'[r].clock.iters
       PROVE  telemetry'[q].clock = telemetry'[r].clock /\ telemetry'[q].source = telemetry'[r].source
  <2>1. CASE r \in Rows /\ q \in Rows
    <3>1. telemetry'[r] = telemetry[r] /\ telemetry'[q] = telemetry[q]
      BY <1>2, <2>1
    <3>2. QED
      BY <1>6, <1>12, <2>1, <3>1
  <2>2. CASE r \notin Rows /\ q \notin Rows
    <3>1. \A p \in Rows' : p \notin Rows =>
            telemetry'[p].clock = cycleClock /\ telemetry'[p].source = branch
      BY <1>2, <1>4
    <3>2. QED
      BY <2>2, <3>1
  <2>3. CASE (r \in Rows /\ q \notin Rows) \/ (r \notin Rows /\ q \in Rows)
    <3>1. \A p \in Rows : telemetry'[p].clock.iters < now
      BY <1>2, <1>5
    <3>2. \A p \in Rows' : p \notin Rows => telemetry'[p].clock.iters = now
      BY <1>2, <1>4
    <3>3. ~(now < now)
      BY <1>1
    <3>4. QED
      BY <1>12, <2>3, <3>1, <3>2, <3>3
  <2>4. QED
    BY <2>1, <2>2, <2>3
<1>13. ASSUME NEW r \in Rows', NEW q \in Rows', telemetry'[q].clock.iters = telemetry'[r].clock.iters + 1
       PROVE  telemetry'[q].clock = telemetry'[r].clockAfter
  <2>1. CASE r \in Rows /\ q \in Rows
    <3>1. telemetry'[r] = telemetry[r] /\ telemetry'[q] = telemetry[q]
      BY <1>2, <2>1
    <3>2. QED
      BY <1>6, <1>13, <2>1, <3>1
  <2>2. CASE r \in Rows /\ q \notin Rows
    <3>1. PICK i \in 1..Parallel : q = n + i
      BY <1>2, <2>2
    <3>2. telemetry'[q].clock = cycleClock /\ telemetry'[q].clock.iters = now
      BY <1>4, <3>1
    <3>3. telemetry'[r] = telemetry[r]
      BY <1>2, <2>2
    <3>4. telemetry[r].clockAfter = cycleClock
      BY <1>5, <1>13, <2>2, <3>2, <3>3
    <3>5. QED
      BY <3>2, <3>3, <3>4
  <2>3. CASE r \notin Rows
    <3>1. telemetry'[r].clock.iters = now
      BY <1>2, <1>4, <2>3
    <3>2. telemetry'[q].clock.iters < now + 1
      BY <1>3, <1>8
    <3>3. QED
      BY <1>1, <1>13, <3>1, <3>2
  <2>4. QED
    BY <2>1, <2>2, <2>3
<1>14. telemetry' # << >>
  BY <1>2 DEF Rows
<1>15. ValidClocks'
  BY <1>10, <1>11, <1>12, <1>13 DEF ValidClocks, CycleOf
<1>16. QED
  BY <1>8, <1>9, <1>14, <1>15 DEF ClockInv, CycleOf

(* What a new row says of places. *)
PlacedRow(row, branch, batch, i, after) ==
  /\ row.level = batch[i].level /\ row.source = branch
  /\ (row.pre = << >>) <=> (batch[i].slot = 0)
  /\ batch[i].slot = 0 => row.post = after.placed[i]
  /\ batch[i].slot # 0 =>
       /\ branch = "new" \/ branch = "replay"
       /\ batch[i].slot \in Filled /\ plrBuffer[batch[i].slot].level = batch[i].level
       /\ row.post = <<batch[i].slot, plrBuffer[batch[i].slot].gen>> /\ row.pre = row.post

(* The rows of a cycle are such. *)
LEMMA NewRowPlaces ==
  ASSUME LevelBufferAssumption, LevelInv, NEW branch, NEW batch, NEW after, Cycle(branch, batch, after),
         NEW i \in 1..Parallel
  PROVE  PlacedRow(telemetry'[Len(telemetry) + i], branch, batch, i, after)
<1> DEFINE row == telemetry'[Len(telemetry) + i]
<1>1. GroupRow(row, branch, batch, i, after) /\ BatchOK(batch) /\ branch \in {"new", "replay"}
  BY DEF Cycle
<1> HIDE DEF row
<1>2. <<batch[i].slot, plrBuffer[batch[i].slot].gen>> # << >>
  OBVIOUS
<1>3. batch[i].slot # 0 => batch[i].slot \in Filled /\ plrBuffer[batch[i].slot].level = batch[i].level
  BY <1>1 DEF BatchOK
<1>4. /\ row.level = batch[i].level /\ row.source = branch
      /\ batch[i].slot = 0 => row.pre = << >> /\ row.post = after.placed[i]
      /\ batch[i].slot # 0 =>
           row.pre = <<batch[i].slot, plrBuffer[batch[i].slot].gen>> /\ row.post = row.pre
  BY <1>1 DEF GroupRow
<1>5. QED
  BY <1>1, <1>2, <1>3, <1>4 DEF row, PlacedRow

(* The rows that brought a level into a slot are those the scan placed there. *)
LEMMA CameIntoGrows ==
  ASSUME LevelBufferAssumption, LevelInv, NEW branch, NEW batch, NEW after, Cycle(branch, batch, after),
         NEW t
  PROVE  CameInto(t)' = PlacedIn(after, batch, t)
<1> DEFINE n == Len(telemetry)
<1>1. LevelTypeOK /\ BatchOK(batch)
  BY DEF LevelInv, Cycle
<1>2. \A r : r \in PlacedIn(after, batch, t) <=> r \in CameInto(t) \/ FreshIn(after, batch, t, r)
  BY <1>1, PlacedIsFinite
<1>3. /\ \A r \in Rows : r \in Rows' /\ telemetry'[r] = telemetry[r]
      /\ \A i \in 1..Parallel : n + i \in Rows' /\ n + i \notin Rows
      /\ \A r \in Rows' : r \in Rows \/ \E i \in 1..Parallel : r = n + i
  BY RowNumbers
<1>4. \A r : r \in CameInto(t)' <=>
        r \in Rows' /\ telemetry'[r].pre = << >> /\ telemetry'[r].post # << >> /\ telemetry'[r].post[1] = t
  BY DEF CameInto
<1>5. \A r : r \in CameInto(t) <=>
        r \in Rows /\ telemetry[r].pre = << >> /\ telemetry[r].post # << >> /\ telemetry[r].post[1] = t
  BY DEF CameInto
<1>6. ASSUME NEW i \in 1..Parallel
      PROVE  /\ (telemetry'[n + i].pre = << >>) <=> (batch[i].slot = 0)
             /\ batch[i].slot = 0 => telemetry'[n + i].post = after.placed[i]
  <2>1. PlacedRow(telemetry'[n + i], branch, batch, i, after)
    BY NewRowPlaces
  <2>2. QED
    BY <2>1 DEF PlacedRow
<1>7. ASSUME NEW r \in Rows PROVE ~FreshIn(after, batch, t, r)
  BY <1>3 DEF FreshIn
<1>8. ASSUME NEW i \in 1..Parallel PROVE n + i \in CameInto(t)' <=> FreshIn(after, batch, t, n + i)
  <2>1. ASSUME NEW j \in 1..Parallel, n + i = n + j PROVE i = j
    <3>1. n \in Nat
      BY RowNumbers
    <3>2. QED
      BY <2>1, <3>1
  <2>2. FreshIn(after, batch, t, n + i) <=> Fresh(after, batch, i) /\ after.placed[i][1] = t
    BY <2>1 DEF FreshIn
  <2>3. n + i \in CameInto(t)' <=> Fresh(after, batch, i) /\ after.placed[i][1] = t
    <3>1. PICK row : row = telemetry'[n + i]
      OBVIOUS
    <3>2. n + i \in CameInto(t)' <=> row.pre = << >> /\ row.post # << >> /\ row.post[1] = t
      <4> HIDE DEF n
      <4>1. QED
        BY <1>3, <1>4, <3>1
    <3>3. ((row.pre = << >>) <=> (batch[i].slot = 0)) /\ (batch[i].slot = 0 => row.post = after.placed[i])
      BY <1>6, <3>1
    <3>4. QED
      BY <3>2, <3>3 DEF Fresh
  <2>4. QED
    BY <2>2, <2>3
<1> HIDE DEF n
<1>9. ASSUME NEW r \in Rows PROVE r \in CameInto(t)' <=> r \in CameInto(t)
  BY <1>3, <1>4, <1>5
<1>10. ASSUME NEW r, r \notin Rows' PROVE r \notin CameInto(t)' /\ r \notin CameInto(t) /\ ~FreshIn(after, batch, t, r)
  BY <1>3, <1>4, <1>5, <1>10 DEF FreshIn, n
<1>11. \A r : r \in CameInto(t)' <=> r \in CameInto(t) \/ FreshIn(after, batch, t, r)
  <2>1. ASSUME NEW r PROVE r \in CameInto(t)' <=> r \in CameInto(t) \/ FreshIn(after, batch, t, r)
    <3>1. CASE r \in Rows
      BY <1>7, <1>9, <3>1
    <3>2. CASE r \in Rows' /\ r \notin Rows
      BY <1>3, <1>5, <1>8, <3>2
    <3>3. CASE r \notin Rows'
      BY <1>10, <3>3
    <3>4. QED
      BY <3>1, <3>2, <3>3
  <2>2. QED
    BY <2>1
<1>12. QED
  BY <1>2, <1>11

(* A cycle keeps the count of the generations. *)
LEMMA GenerationsKept ==
  ASSUME LevelBufferAssumption, LevelInv, GenerationsCount,
         NEW branch, NEW batch, NEW after, Cycle(branch, batch, after)
  PROVE  GenerationsCount'
<1> DEFINE n == Len(telemetry)
<1>1. PlaceFold(after, batch) /\ plrBuffer' = after.buffer /\ generation' = after.generation
  BY DEF Cycle
<1>2. \A t : CameInto(t)' = PlacedIn(after, batch, t)
  BY CameIntoGrows
<1>3. Filled' = DOMAIN after.buffer
  BY <1>1 DEF Filled
<1>4. /\ \A t \in Slots : generation'[t] = Cardinality(CameInto(t)')
      /\ \A t \in Slots : t \in Filled' <=> generation'[t] # 0
      /\ \A t \in Filled' : plrBuffer'[t].gen = generation'[t] - 1
  BY <1>1, <1>2, <1>3 DEF PlaceFold
<1>5. /\ \A r \in Rows : r \in Rows' /\ telemetry'[r] = telemetry[r]
      /\ \A i \in 1..Parallel : \A r \in Rows : r < n + i
      /\ \A r \in Rows' : r \in Nat /\ (r \in Rows \/ \E i \in 1..Parallel : r = n + i)
  BY RowNumbers
<1>6. ASSUME NEW t \in Slots, NEW r \in PlacedIn(after, batch, t)
      PROVE  telemetry'[r].post[2] = Cardinality({q \in PlacedIn(after, batch, t) : q < r})
  <2>1. LevelTypeOK /\ BatchOK(batch)
    BY DEF LevelInv, Cycle
  <2>2. \A q : q \in PlacedIn(after, batch, t) <=> q \in CameInto(t) \/ FreshIn(after, batch, t, q)
    BY <2>1, PlacedIsFinite
  <2>3. CASE r \in CameInto(t)
    <3>1. r \in Rows
      BY <2>3 DEF CameInto
    <3>2. telemetry'[r] = telemetry[r] /\ telemetry[r].post[2] = Cardinality({q \in CameInto(t) : q < r})
      BY <1>5, <2>3, <3>1 DEF GenerationsCount
    <3>3. ASSUME NEW q, FreshIn(after, batch, t, q), q < r PROVE FALSE
      <4>1. PICK i \in 1..Parallel : q = n + i
        BY <3>3 DEF FreshIn
      <4>2. r < n + i /\ r \in Nat /\ n \in Nat /\ i \in Nat
        BY <1>5, <3>1, RowNumbers
      <4> HIDE DEF n
      <4>3. QED
        BY <3>3, <4>1, <4>2
    <3>4. {q \in PlacedIn(after, batch, t) : q < r} = {q \in CameInto(t) : q < r}
      BY <2>2, <3>3
    <3>5. QED
      BY <3>2, <3>4
  <2>4. CASE FreshIn(after, batch, t, r)
    <3>1. PICK i \in 1..Parallel : r = n + i /\ Fresh(after, batch, i) /\ after.placed[i][1] = t
      BY <2>4 DEF FreshIn
    <3>2. telemetry'[r].post = after.placed[i]
      <4>1. batch[i].slot = 0
        BY <3>1 DEF Fresh
      <4>2. QED
        <5>1. PlacedRow(telemetry'[n + i], branch, batch, i, after)
          BY NewRowPlaces
        <5>2. QED
          BY <3>1, <4>1, <5>1 DEF PlacedRow
    <3>3. after.placed[i][2] = Cardinality({q \in PlacedIn(after, batch, after.placed[i][1]) : q < n + i})
      BY <1>1, <3>1 DEF PlaceFold
    <3>4. after.placed[i][2] = Cardinality({q \in PlacedIn(after, batch, t) : q < r})
      BY <3>1, <3>3
    <3>5. QED
      BY <3>2, <3>4
  <2>5. QED
    BY <2>2, <2>3, <2>4
<1>7. \A t \in Slots : \A r \in CameInto(t)' : telemetry'[r].post[2] = Cardinality({q \in CameInto(t)' : q < r})
  BY <1>2, <1>6
<1>8. QED
  BY <1>4, <1>7 DEF GenerationsCount

(* A place of a new row is a new one, or the one its level has. *)
FreshPlace(p) == p # << >> /\ p[1] \in Slots /\ generation[p[1]] <= p[2] /\ p[2] < generation'[p[1]]
HeldPlace(p, level) ==
  \E t \in Filled : p = <<t, plrBuffer[t].gen>> /\ plrBuffer[t].level = level

(* A cycle places a level where none was, or leaves it where it was. *)
LEMMA PlacesAreNewOrHeld ==
  ASSUME LevelBufferAssumption, LevelInv, NEW branch, NEW batch, NEW after, Cycle(branch, batch, after),
         NEW i \in 1..Parallel
  PROVE  LET row == telemetry'[Len(telemetry) + i]
         IN /\ row.post # << >> /\ row.pre = << >> => FreshPlace(row.post)
            /\ row.pre # << >> => HeldPlace(row.post, row.level)
<1> DEFINE row == telemetry'[Len(telemetry) + i]
<1>1. /\ row.level = batch[i].level
      /\ (row.pre = << >>) <=> (batch[i].slot = 0)
      /\ batch[i].slot = 0 => row.post = after.placed[i]
      /\ batch[i].slot # 0 =>
           /\ batch[i].slot \in Filled /\ plrBuffer[batch[i].slot].level = batch[i].level
           /\ row.post = <<batch[i].slot, plrBuffer[batch[i].slot].gen>>
  <2>1. PlacedRow(row, branch, batch, i, after)
    BY NewRowPlaces
  <2>2. QED
    BY <2>1 DEF PlacedRow
<1>2. FoldInv(after, batch, 1..Parallel) /\ generation' = after.generation
  BY DEF Cycle
<1> HIDE DEF row
<1>3. ASSUME batch[i].slot = 0, after.placed[i] # << >> PROVE FreshPlace(after.placed[i])
  <2>1. after.placed[i] \in Places
    BY <1>2 DEF FoldInv
  <2>2. after.placed[i][1] \in Slots
    BY <1>3, <2>1 DEF Places
  <2>3. /\ generation[after.placed[i][1]] <= after.placed[i][2]
        /\ after.placed[i][2] < after.generation[after.placed[i][1]]
    BY <1>2, <1>3 DEF FoldInv
  <2>4. QED
    BY <1>2, <1>3, <2>2, <2>3 DEF FreshPlace
<1>4. row.post # << >> /\ row.pre = << >> => FreshPlace(row.post)
  <2>1. ASSUME row.post # << >>, row.pre = << >> PROVE FreshPlace(row.post)
    <3>1. batch[i].slot = 0 /\ row.post = after.placed[i]
      BY <1>1, <2>1
    <3>2. FreshPlace(after.placed[i])
      BY <1>3, <2>1, <3>1
    <3>3. QED
      BY <3>1, <3>2 DEF FreshPlace
  <2>2. QED
    BY <2>1
<1>5. row.pre # << >> => HeldPlace(row.post, row.level)
  <2>1. ASSUME row.pre # << >> PROVE HeldPlace(row.post, row.level)
    <3>1. /\ batch[i].slot \in Filled /\ plrBuffer[batch[i].slot].level = row.level
          /\ row.post = <<batch[i].slot, plrBuffer[batch[i].slot].gen>>
      BY <1>1, <2>1
    <3>2. QED
      BY <3>1 DEF HeldPlace
  <2>2. QED
    BY <2>1
<1>6. QED
  BY <1>4, <1>5 DEF row

(* A new place is no one's yet, and levels keep the places they hold. *)
LEMMA PlacesKept ==
  ASSUME LevelBufferAssumption, LevelInv, GenerationsCount, PlacesKnown,
         NEW branch, NEW batch, NEW after, Cycle(branch, batch, after)
  PROVE  PlacesKnown'
<1> DEFINE n == Len(telemetry)
<1>1. LevelTypeOK /\ LevelTypeOK' /\ generation \in [Slots -> Nat] /\ generation' \in [Slots -> Nat]
  BY DEF LevelInv, LevelTypeOK, Cycle
<1>2. /\ FoldInv(after, batch, 1..Parallel) /\ plrBuffer' = after.buffer /\ generation' = after.generation
  BY DEF Cycle
<1>3. \A t \in Slots : generation[t] <= generation'[t]
  BY <1>2 DEF FoldInv
<1>4. /\ \A r \in Rows : r \in Rows' /\ telemetry'[r] = telemetry[r]
      /\ \A i \in 1..Parallel : n + i \in Rows' /\ n + i \notin Rows
      /\ \A r \in Rows' : r \in Rows \/ \E i \in 1..Parallel : r = n + i
  BY RowNumbers
<1>5. \A r \in Rows : telemetry[r].post # << >> => telemetry[r].post[1] \in Slots /\ telemetry[r].post[2] \in Nat
  BY <1>1, RowTypes DEF RowsTyped
<1>6. \A r \in Rows : telemetry[r].post # << >> => telemetry[r].post[2] < generation[telemetry[r].post[1]]
  BY DEF PlacesKnown
<1>7. \A t \in Filled : t \in Slots /\ plrBuffer[t].gen = generation[t] - 1 /\ plrBuffer[t].gen \in Nat
  BY <1>1 DEF GenerationsCount, LevelTypeOK
<1>8. \A r \in Rows : \A t \in Filled :
        telemetry[r].post = <<t, plrBuffer[t].gen>> => telemetry[r].level = plrBuffer[t].level
  BY DEF PlacesKnown
<1>9. ASSUME NEW r \in Rows'
      PROVE  \/ r \in Rows /\ telemetry'[r] = telemetry[r]
             \/ /\ r \notin Rows
                /\ telemetry'[r].post # << >> /\ telemetry'[r].pre = << >> => FreshPlace(telemetry'[r].post)
                /\ telemetry'[r].pre # << >> => HeldPlace(telemetry'[r].post, telemetry'[r].level)
  BY <1>4, PlacesAreNewOrHeld
<1> HIDE DEF n
<1>10. \A p, level : HeldPlace(p, level) =>
         /\ p # << >> /\ p[1] \in Slots /\ p[2] \in Nat /\ p[2] < generation[p[1]] /\ p[1] \in Filled
         /\ p = <<p[1], plrBuffer[p[1]].gen>> /\ plrBuffer[p[1]].level = level
  <2>1. ASSUME NEW p, NEW level, HeldPlace(p, level)
        PROVE  /\ p # << >> /\ p[1] \in Slots /\ p[2] \in Nat /\ p[2] < generation[p[1]] /\ p[1] \in Filled
               /\ p = <<p[1], plrBuffer[p[1]].gen>> /\ plrBuffer[p[1]].level = level
    <3>1. PICK t \in Filled : p = <<t, plrBuffer[t].gen>> /\ plrBuffer[t].level = level
      BY <2>1 DEF HeldPlace
    <3>2. p # << >> /\ p[1] = t /\ p[2] = plrBuffer[t].gen
      BY <3>1
    <3>3. plrBuffer[t].gen < generation[t]
      BY <1>1, <1>7
    <3>4. QED
      BY <1>7, <3>1, <3>2, <3>3
  <2>2. QED
    BY <2>1
<1>11. ASSUME NEW p, FreshPlace(p)
       PROVE  /\ \A level : ~HeldPlace(p, level)
              /\ \A r \in Rows : telemetry[r].post # p
  <2>1. p # << >> /\ p[1] \in Slots /\ generation[p[1]] <= p[2] /\ p[2] < generation'[p[1]]
    BY <1>11 DEF FreshPlace
  <2>2. ASSUME p[2] \in Nat, p[2] < generation[p[1]] PROVE FALSE
    BY <1>1, <2>1, <2>2
  <2>3. QED
    BY <1>5, <1>6, <1>10, <2>1, <2>2
<1>12. ASSUME NEW r \in Rows', telemetry'[r].post # << >>
       PROVE  telemetry'[r].post[2] < generation'[telemetry'[r].post[1]]
  <2> DEFINE p == telemetry'[r].post
  <2>1. p \in Places /\ p # << >> /\ p[1] \in Slots /\ p[2] \in Nat
    <3>1. RowsTyped'
      BY <1>1, RowTypes, PTL
    <3>2. QED
      BY <1>12, <3>1 DEF RowsTyped
  <2>2. p[2] < generation[p[1]] \/ p[2] < generation'[p[1]]
    BY <1>6, <1>9, <1>10, <1>12 DEF FreshPlace
  <2> HIDE DEF p
  <2>3. generation[p[1]] \in Nat /\ generation'[p[1]] \in Nat /\ generation[p[1]] <= generation'[p[1]]
    BY <1>1, <1>3, <2>1
  <2>4. p[2] < generation'[p[1]]
    BY <2>1, <2>2, <2>3
  <2>5. QED
    BY <2>4 DEF p
<1>13. ASSUME NEW r \in Rows', NEW q \in Rows', telemetry'[r].post # << >>,
              telemetry'[q].post = telemetry'[r].post, FreshPlace(telemetry'[r].post)
       PROVE  telemetry'[q].level = telemetry'[r].level
  <2>1. r \notin Rows /\ q \notin Rows
    BY <1>4, <1>11, <1>13
  <2>2. PICK i \in 1..Parallel : r = n + i
    BY <1>4, <2>1
  <2>3. PICK j \in 1..Parallel : q = n + j
    BY <1>4, <2>1
  <2>4. telemetry'[r].pre = << >> /\ telemetry'[q].pre = << >>
    BY <1>9, <1>11, <1>13, <2>1
  <2>5. /\ batch[i].slot = 0 /\ telemetry'[r].post = after.placed[i]
        /\ batch[j].slot = 0 /\ telemetry'[q].post = after.placed[j]
    <3>1. PlacedRow(telemetry'[n + i], branch, batch, i, after) /\ PlacedRow(telemetry'[n + j], branch, batch, j, after)
      BY NewRowPlaces DEF n
    <3>2. QED
      BY <2>2, <2>3, <2>4, <3>1 DEF PlacedRow
  <2>6. i = j
    BY <1>2, <1>13, <2>5 DEF FoldInv
  <2>7. QED
    BY <2>2, <2>3, <2>6
<1>14. ASSUME NEW r \in Rows', NEW q \in Rows', telemetry'[r].post # << >>,
              telemetry'[q].post = telemetry'[r].post
       PROVE  telemetry'[q].level = telemetry'[r].level
  <2> DEFINE p == telemetry'[r].post
  <2>1. CASE FreshPlace(p)
    BY <1>13, <1>14, <2>1
  <2>2. CASE ~FreshPlace(p)
    <3>1. (r \in Rows /\ telemetry'[r] = telemetry[r]) \/ HeldPlace(p, telemetry'[r].level)
      BY <1>9, <1>14, <2>2
    <3>2. (q \in Rows /\ telemetry'[q] = telemetry[q]) \/ HeldPlace(p, telemetry'[q].level)
      BY <1>9, <1>14, <2>2
    <3>3. CASE HeldPlace(p, telemetry'[r].level)
      BY <1>8, <1>10, <1>14, <3>2, <3>3
    <3>4. CASE HeldPlace(p, telemetry'[q].level)
      BY <1>8, <1>10, <1>14, <3>1, <3>4
    <3>5. CASE r \in Rows /\ telemetry'[r] = telemetry[r] /\ q \in Rows /\ telemetry'[q] = telemetry[q]
      BY <1>14, <3>5 DEF PlacesKnown
    <3>6. QED
      BY <3>1, <3>2, <3>3, <3>4, <3>5
  <2>3. QED
    BY <2>1, <2>2
<1>15. ASSUME NEW r \in Rows', NEW t \in Filled', telemetry'[r].post = <<t, plrBuffer'[t].gen>>
       PROVE  telemetry'[r].level = plrBuffer'[t].level
  <2>1. t \in DOMAIN after.buffer /\ plrBuffer'[t] = after.buffer[t]
    BY <1>2 DEF Filled
  <2>2. OldEntry(after, batch, 1..Parallel, t) \/ NewEntry(after, batch, 1..Parallel, t)
    BY <1>2, <2>1 DEF FoldInv
  <2>3. CASE OldEntry(after, batch, 1..Parallel, t)
    <3>1. /\ t \in Filled /\ plrBuffer'[t].level = plrBuffer[t].level
          /\ telemetry'[r].post = <<t, plrBuffer[t].gen>>
      BY <1>15, <2>1, <2>3 DEF OldEntry
    <3>2. HeldPlace(telemetry'[r].post, plrBuffer[t].level)
      BY <3>1 DEF HeldPlace
    <3>3. ~FreshPlace(telemetry'[r].post) /\ telemetry'[r].post # << >>
      BY <1>11, <3>1, <3>2
    <3>4. CASE r \in Rows
      BY <1>8, <1>9, <3>1, <3>4
    <3>5. CASE r \notin Rows
      <4>1. HeldPlace(telemetry'[r].post, telemetry'[r].level)
        BY <1>9, <3>3, <3>5
      <4>2. QED
        BY <1>10, <3>1, <3>2, <4>1
    <3>6. QED
      BY <3>4, <3>5
  <2>4. CASE NewEntry(after, batch, 1..Parallel, t)
    <3>1. PICK i \in 1..Parallel : /\ batch[i].slot = 0 /\ after.placed[i] = <<t, after.buffer[t].gen>>
                                   /\ after.buffer[t].level = batch[i].level
      BY <2>4 DEF NewEntry, Newly
    <3>2. n + i \in Rows' /\ telemetry'[n + i].post = after.placed[i] /\ telemetry'[n + i].level = batch[i].level
      <4>1. PlacedRow(telemetry'[n + i], branch, batch, i, after)
        BY NewRowPlaces DEF n
      <4>2. QED
        BY <1>4, <3>1, <4>1 DEF PlacedRow
    <3>3. telemetry'[n + i].post = telemetry'[r].post /\ telemetry'[r].post # << >>
      BY <1>15, <2>1, <3>1, <3>2
    <3>4. QED
      BY <1>14, <2>1, <3>1, <3>2, <3>3
  <2>5. QED
    BY <2>2, <2>3, <2>4
<1>16. QED
  BY <1>12, <1>14, <1>15 DEF PlacesKnown

(* Every level in the ledger has been new. *)
LEMMA OriginsKept ==
  ASSUME LevelBufferAssumption, LevelInv, PlacesKnown, OriginsKnown,
         NEW branch, NEW batch, NEW after, Cycle(branch, batch, after)
  PROVE  OriginsKnown'
<1> DEFINE n == Len(telemetry)
<1>1. /\ \A r \in Rows : r \in Rows' /\ telemetry'[r] = telemetry[r]
      /\ \A i \in 1..Parallel : n + i \in Rows'
      /\ \A r \in Rows' : r \in Rows \/ \E i \in 1..Parallel : r = n + i
  BY RowNumbers
<1>2. /\ branch \in {"new", "replay"}
      /\ branch = "replay" => \A i \in 1..Parallel : batch[i].slot # 0
  BY DEF Cycle
<1>3. ASSUME NEW i \in 1..Parallel
      PROVE  /\ telemetry'[n + i].level = batch[i].level /\ telemetry'[n + i].source = branch
             /\ (telemetry'[n + i].pre = << >>) <=> (batch[i].slot = 0)
             /\ batch[i].slot # 0 => batch[i].slot \in Filled /\ plrBuffer[batch[i].slot].level = batch[i].level
  <2>1. telemetry'[n + i].level = batch[i].level /\ telemetry'[n + i].source = branch
    BY DEF Cycle, GroupRow
  <2>2. (telemetry'[n + i].pre = << >>) <=> (batch[i].slot = 0)
    <3>1. PlacedRow(telemetry'[n + i], branch, batch, i, after)
      BY NewRowPlaces
    <3>2. QED
      BY <3>1 DEF PlacedRow
  <2>3. batch[i].slot # 0 => batch[i].slot \in Filled /\ plrBuffer[batch[i].slot].level = batch[i].level
    BY DEF Cycle, BatchOK
  <2>4. QED
    BY <2>1, <2>2, <2>3
<1>4. /\ \A r \in Rows : telemetry[r].pre = << >> => telemetry[r].source = "new"
      /\ \A r \in Rows : \E q \in Rows : telemetry[q].source = "new" /\ telemetry[q].level = telemetry[r].level
  BY DEF OriginsKnown, NewRow
<1>5. ASSUME NEW t \in Filled
      PROVE  \E q \in Rows : telemetry[q].source = "new" /\ telemetry[q].level = plrBuffer[t].level
  <2>1. PICK q \in Rows : telemetry[q].pre = << >> /\ telemetry[q].post = <<t, plrBuffer[t].gen>>
    BY DEF LevelInv, InsertionsKnown, CameIn
  <2>2. telemetry[q].level = plrBuffer[t].level
    BY <2>1 DEF PlacesKnown
  <2>3. QED
    BY <1>4, <2>1, <2>2
<1> HIDE DEF n
<1>6. \A r \in Rows' : telemetry'[r].pre = << >> => telemetry'[r].source = "new"
  BY <1>1, <1>2, <1>3, <1>4
<1>7. ASSUME NEW r \in Rows'
      PROVE  \E q \in Rows' : telemetry'[q].source = "new" /\ telemetry'[q].level = telemetry'[r].level
  <2>1. CASE r \in Rows
    <3>1. PICK q \in Rows : telemetry[q].source = "new" /\ telemetry[q].level = telemetry[r].level
      BY <1>4, <2>1
    <3>2. QED
      BY <1>1, <2>1, <3>1
  <2>2. CASE r \notin Rows
    <3>1. PICK i \in 1..Parallel : r = n + i
      BY <1>1, <2>2
    <3>2. CASE branch = "new"
      BY <1>3, <3>1, <3>2
    <3>3. CASE branch = "replay"
      <4>1. batch[i].slot \in Filled /\ plrBuffer[batch[i].slot].level = telemetry'[r].level
        BY <1>2, <1>3, <3>1, <3>3
      <4>2. PICK q \in Rows : telemetry[q].source = "new" /\ telemetry[q].level = telemetry'[r].level
        BY <1>5, <4>1
      <4>3. QED
        BY <1>1, <4>2
    <3>4. QED
      BY <1>2, <3>2, <3>3
  <2>3. QED
    BY <2>1, <2>2
<1>8. QED
  BY <1>6, <1>7 DEF OriginsKnown, NewRow

-----------------------------------------------------------------------------
(* The greatest of a finite set of numbers. *)
LEMMA MaxIs ==
  ASSUME NEW S \in SUBSET Int, NEW m \in S, \A x \in S : x <= m
  PROVE  Max(S) = m
<1>1. \E x \in S : \A y \in S : x >= y
  BY DEF Max
<1>2. Max(S) \in S /\ \A y \in S : Max(S) >= y
  BY <1>1 DEF Max
<1>3. Max(S) >= m /\ Max(S) <= m /\ Max(S) \in Int /\ m \in Int
  BY <1>2
<1>4. QED
  BY <1>3

(* A finite set of integers has a greatest one. *)
LEMMA MaxExists ==
  ASSUME NEW S \in SUBSET Int, IsFiniteSet(S), S # {}
  PROVE  Max(S) \in S /\ \A x \in S : x <= Max(S)
<1>1. S \in SUBSET S
  OBVIOUS
<1>2. \E m \in S : \A x \in S : x <= m
  BY <1>1, GreatestMember
<1>3. PICK m \in S : \A x \in S : x <= m
  BY <1>2
<1>4. Max(S) = m
  BY <1>3, MaxIs
<1>5. QED
  BY <1>3, <1>4

(* A slot is filled once a level came into it, and it holds the last one. *)
LastHolds ==
  \A s \in Slots :
    /\ CameInto(s) \in SUBSET Rows
    /\ s \in Filled <=> CameInto(s) # {}
    /\ s \in Filled => /\ Max(CameInto(s)) \in CameInto(s)
                       /\ telemetry[Max(CameInto(s))].post = <<s, plrBuffer[s].gen>>

(* So it is where the generations count. *)
LEMMA LastOnesHold == LevelTypeOK /\ GenerationsCount => LastHolds
<1> SUFFICES ASSUME LevelTypeOK, GenerationsCount, NEW s \in Slots
             PROVE  /\ CameInto(s) \in SUBSET Rows
                    /\ s \in Filled <=> CameInto(s) # {}
                    /\ s \in Filled => /\ Max(CameInto(s)) \in CameInto(s)
                                       /\ telemetry[Max(CameInto(s))].post = <<s, plrBuffer[s].gen>>
  BY DEF LastHolds
<1> DEFINE S == CameInto(s)
           m == Max(S)
<1>1. S \in SUBSET Rows
  BY DEF CameInto
<1>2. Rows = 1..Len(telemetry) /\ Len(telemetry) \in Nat
  BY DEF LevelTypeOK, Rows
<1>3. IsFiniteSet(S) /\ S \in SUBSET Int
  <2>1. IsFiniteSet(1..Len(telemetry)) /\ 1..Len(telemetry) \in SUBSET Int
    BY <1>2, FS_Interval
  <2> HIDE DEF S
  <2>2. QED
    BY <1>1, <1>2, <2>1, FS_Subset
<1>4. generation[s] = Cardinality(S) /\ (s \in Filled <=> generation[s] # 0)
  BY DEF GenerationsCount
<1>5. s \in Filled <=> S # {}
  <2> HIDE DEF S
  <2>1. Cardinality(S) = 0 <=> S = {}
    BY <1>3, FS_EmptySet
  <2>2. QED
    BY <1>4, <2>1
<1>6. ASSUME s \in Filled PROVE m \in S /\ telemetry[m].post = <<s, plrBuffer[s].gen>>
  <2>1. m \in S /\ \A x \in S : x <= m
    <3> HIDE DEF S
    <3>1. QED
      BY <1>3, <1>5, <1>6, MaxExists
  <2>2. {q \in S : q < m} = S \ {m}
    <3>1. \A q \in S : q < m <=> q # m
      <4> HIDE DEF S, m
      <4>1. QED
        BY <1>3, <2>1
    <3> HIDE DEF S, m
    <3>2. QED
      BY <3>1
  <2>3. telemetry[m].post[2] = Cardinality({q \in S : q < m})
    BY <2>1 DEF GenerationsCount
  <2>4. Cardinality(S \ {m}) = Cardinality(S) - 1
    <3> HIDE DEF S, m
    <3>1. QED
      BY <1>3, <2>1, FS_RemoveElement
  <2>5. telemetry[m].post[2] = plrBuffer[s].gen
    <3>1. plrBuffer[s].gen = generation[s] - 1
      BY <1>6 DEF GenerationsCount
    <3> HIDE DEF S, m
    <3>2. QED
      BY <1>4, <2>2, <2>3, <2>4, <3>1
  <2>6. m \in Rows /\ telemetry[m].post # << >> /\ telemetry[m].post[1] = s
    BY <2>1 DEF CameInto
  <2>7. telemetry[m].post \in Places
    BY <2>6, RowTypes DEF RowsTyped
  <2> HIDE DEF m, S
  <2>8. telemetry[m].post = <<telemetry[m].post[1], telemetry[m].post[2]>>
    BY <2>6, <2>7 DEF Places
  <2>9. QED
    BY <2>1, <2>5, <2>6, <2>8
<1>7. QED
  BY <1>1, <1>5, <1>6

(* Where new rows have no place before, a row holds its slot after all      *)
(* cycles if the buffer has its place.                                      *)
NewRowsHaveNone == \A r \in Rows : NewRow(r) => telemetry[r].pre = << >>
HeldNow(r) ==
  LET p == telemetry[r].post IN p # << >> /\ p[1] \in Filled /\ plrBuffer[p[1]].gen = p[2]
HoldersKnown ==
  \A r \in Rows, k \in Nat : (\A q \in Rows : CycleOf(q) <= k) => (HoldsSlot(r, 0..k) <=> HeldNow(r))

(* So the analyzer knows the holder of a slot from the ledger alone. *)
LEMMA HoldersAreKnown ==
  LevelTypeOK /\ GenerationsCount /\ PlacesKnown /\ OriginsKnown /\ NewRowsHaveNone => HoldersKnown
<1> SUFFICES ASSUME LevelTypeOK, GenerationsCount, PlacesKnown, OriginsKnown, NewRowsHaveNone,
                    NEW r \in Rows, NEW k \in Nat, \A q \in Rows : CycleOf(q) <= k
             PROVE  HoldsSlot(r, 0..k) <=> HeldNow(r)
  BY DEF HoldersKnown
<1> DEFINE p == telemetry[r].post
           t == p[1]
           into == Insertions(t, 0..k)
<1>1. RowsTyped /\ LastHolds
  BY RowTypes, LastOnesHold
<1>2. into = CameInto(t)
  <2>1. \A q \in Rows : CycleOf(q) \in 0..k
    BY <1>1 DEF RowsTyped
  <2>2. QED
    BY <2>1 DEF Insertions, CameInto, NewRowsHaveNone, OriginsKnown
<1>3. HoldsSlot(r, 0..k) <=>
        /\ p # << >> /\ into # {}
        /\ telemetry[Max(into)].post = p /\ telemetry[Max(into)].level = telemetry[r].level
  BY DEF HoldsSlot
<1>4. HeldNow(r) <=> p # << >> /\ t \in Filled /\ plrBuffer[t].gen = p[2]
  BY DEF HeldNow
<1> HIDE DEF into
<1>5. CASE p = << >>
  BY <1>3, <1>4, <1>5
<1>6. CASE p # << >>
  <2>1. t \in Slots /\ p = <<t, p[2]>>
    <3>1. p \in Places
      BY <1>1 DEF RowsTyped
    <3> HIDE DEF p
    <3>2. QED
      BY <1>6, <3>1 DEF Places, t
  <2>2. /\ CameInto(t) \in SUBSET Rows
        /\ t \in Filled <=> CameInto(t) # {}
        /\ t \in Filled => /\ Max(CameInto(t)) \in CameInto(t)
                           /\ telemetry[Max(CameInto(t))].post = <<t, plrBuffer[t].gen>>
    BY <1>1, <2>1 DEF LastHolds
  <2>3. ASSUME HeldNow(r) PROVE HoldsSlot(r, 0..k)
    <3>1. t \in Filled /\ p = <<t, plrBuffer[t].gen>>
      BY <1>4, <2>1, <2>3
    <3> DEFINE m == Max(CameInto(t))
    <3>2. m \in Rows /\ telemetry[m].post = p
      BY <2>2, <3>1
    <3> HIDE DEF m, t
    <3>3. telemetry[m].level = telemetry[r].level
      BY <1>6, <3>2 DEF PlacesKnown
    <3>4. QED
      BY <1>2, <1>3, <1>6, <2>2, <3>1, <3>2, <3>3 DEF m
  <2>4. ASSUME HoldsSlot(r, 0..k) PROVE HeldNow(r)
    <3>1. t \in Filled /\ p = <<t, plrBuffer[t].gen>>
      BY <1>2, <1>3, <2>2, <2>4
    <3>2. p[2] = plrBuffer[t].gen
      <4> HIDE DEF p, t
      <4>1. QED
        BY <3>1
    <3>3. QED
      BY <1>4, <1>6, <3>1, <3>2
  <2>5. QED
    BY <2>3, <2>4
<1>7. QED
  BY <1>5, <1>6

-----------------------------------------------------------------------------
(* The cycle of the new rows is a later one. *)
LEMMA CyclesOfRows ==
  ASSUME LevelBufferAssumption, LevelInv, ClockInv,
         NEW branch, NEW batch, NEW after, Cycle(branch, batch, after)
  PROVE  /\ cycleClock.iters \in Nat
         /\ \A r \in Rows : /\ r \in Rows' /\ telemetry'[r] = telemetry[r]
                            /\ CycleOf(r)' = CycleOf(r) /\ CycleOf(r) \in Nat /\ CycleOf(r) < cycleClock.iters
         /\ \A r \in Rows' : r \notin Rows => CycleOf(r)' = cycleClock.iters
<1>1. RowsTyped /\ cycleClock.iters \in Nat
  BY RowTypes DEF LevelInv, LevelTypeOK
<1>2. /\ \A r \in Rows : r \in Rows' /\ telemetry'[r] = telemetry[r]
      /\ \A r \in Rows' : r \in Rows \/ \E i \in 1..Parallel : r = Len(telemetry) + i
  BY RowNumbers
<1>3. \A i \in 1..Parallel : telemetry'[Len(telemetry) + i].clock = cycleClock
  BY DEF Cycle, GroupRow
<1>4. \A r \in Rows' : r \notin Rows => CycleOf(r)' = cycleClock.iters
  BY <1>2, <1>3 DEF CycleOf
<1>5. \A r \in Rows : CycleOf(r)' = CycleOf(r) /\ CycleOf(r) \in Nat /\ CycleOf(r) < cycleClock.iters
  BY <1>1, <1>2 DEF CycleOf, RowsTyped, ClockInv
<1>6. QED
  BY <1>1, <1>2, <1>4, <1>5

(* What the analyzer makes of an old row does not change. *)
ValidRow(r) == ValidEvent(r) /\ ValidSnapshot(r) /\ ValidChain(r) /\ ValidLifecycle(r)

(* The snapshot of an old row gets no row from a later cycle. *)
LEMMA SiblingsStay ==
  ASSUME LevelBufferAssumption, LevelInv, ClockInv,
         NEW branch, NEW batch, NEW after, Cycle(branch, batch, after), NEW r \in Rows
  PROVE  Siblings(r)' = Siblings(r) /\ Siblings(r) \subseteq Rows
<1>1. /\ cycleClock.iters \in Nat
      /\ \A q \in Rows : /\ q \in Rows' /\ telemetry'[q] = telemetry[q]
                         /\ CycleOf(q)' = CycleOf(q) /\ CycleOf(q) \in Nat /\ CycleOf(q) < cycleClock.iters
      /\ \A q \in Rows' : q \notin Rows => CycleOf(q)' = cycleClock.iters
  BY CyclesOfRows
<1>2. \A q : q \in Siblings(r) <=> q \in Rows /\ CycleOf(q) = CycleOf(r) /\ telemetry[q].level = telemetry[r].level
  BY DEF Siblings
<1>3. \A q : q \in Siblings(r)' <=>
               q \in Rows' /\ CycleOf(q)' = CycleOf(r)' /\ telemetry'[q].level = telemetry'[r].level
  BY DEF Siblings
<1>4. ASSUME NEW q \in Rows', q \notin Rows PROVE CycleOf(q)' # CycleOf(r)'
  <2>1. CycleOf(q)' = cycleClock.iters /\ CycleOf(r)' < cycleClock.iters
    BY <1>1, <1>4
  <2>2. QED
    BY <1>1, <2>1
<1>5. ASSUME NEW q \in Rows PROVE q \in Siblings(r)' <=> q \in Siblings(r)
  BY <1>1, <1>2, <1>3
<1>6. \A q : q \in Siblings(r)' <=> q \in Siblings(r)
  BY <1>2, <1>3, <1>4, <1>5
<1>7. QED
  BY <1>2, <1>6

(* A snapshot that was accepted still is. *)
LEMMA SnapshotStays ==
  ASSUME LevelBufferAssumption, LevelInv, ClockInv,
         NEW branch, NEW batch, NEW after, Cycle(branch, batch, after), PlacesKnown',
         NEW r \in Rows, ValidSnapshot(r)
  PROVE  ValidSnapshot(r)'
<1> DEFINE taken == {q \in Siblings(r) : TookEvidence(q)}
<1>1. \A q \in Rows : q \in Rows' /\ telemetry'[q] = telemetry[q]
  BY CyclesOfRows
<1>2. Siblings(r)' = Siblings(r) /\ Siblings(r) \subseteq Rows
  BY SiblingsStay
<1>3. taken' = taken /\ taken \subseteq Rows
  <2>1. \A q \in Siblings(r) : TookEvidence(q)' <=> TookEvidence(q)
    BY <1>1, <1>2 DEF TookEvidence
  <2>2. \A q : q \in taken' <=> q \in taken
    BY <1>2, <2>1
  <2>3. QED
    BY <1>2, <2>2
<1>4. Evidence(taken)' = Evidence(taken)
  <2>1. \A q \in taken : telemetry'[q].current = telemetry[q].current
    BY <1>1, <1>3
  <2> HIDE DEF taken
  <2>2. /\ [q \in taken |-> telemetry'[q].current[1]] = [q \in taken |-> telemetry[q].current[1]]
        /\ [q \in taken |-> telemetry'[q].current[2]] = [q \in taken |-> telemetry[q].current[2]]
    BY <2>1
  <2>3. Evidence(taken)' = <<SumFunctionOnSet([q \in taken |-> telemetry'[q].current[1]], taken),
                             SumFunctionOnSet([q \in taken |-> telemetry'[q].current[2]], taken)>>
    BY <1>3 DEF Evidence
  <2>4. QED
    BY <2>2, <2>3 DEF Evidence
<1>5. /\ \A q \in Siblings(r) : [telemetry[q] EXCEPT !.current = telemetry[r].current] = telemetry[r]
      /\ NewRow(r) => Siblings(r) = {r}
      /\ telemetry[r].after = Plus(telemetry[r].before, Evidence(taken))
  BY DEF ValidSnapshot
<1>6. telemetry'[r] = telemetry[r] /\ (NewRow(r)' <=> NewRow(r))
  BY <1>1 DEF NewRow
<1>7. telemetry'[r].post # << >> =>
        \A q \in Rows' : telemetry'[q].post = telemetry'[r].post => telemetry'[q].level = telemetry'[r].level
  BY <1>1 DEF PlacesKnown
<1>8. \A q \in Siblings(r)' : [telemetry'[q] EXCEPT !.current = telemetry'[r].current] = telemetry'[r]
  BY <1>1, <1>2, <1>5
<1>9. telemetry'[r].after = Plus(telemetry'[r].before, Evidence(taken)')
  BY <1>4, <1>5, <1>6
<1>10. NewRow(r)' => Siblings(r)' = {r}
  BY <1>2, <1>5, <1>6
<1>11. QED
  BY <1>7, <1>8, <1>9, <1>10 DEF ValidSnapshot

(* So is the chain up to an old row. *)
LEMMA ChainStays ==
  ASSUME LevelBufferAssumption, LevelInv, ClockInv,
         NEW branch, NEW batch, NEW after, Cycle(branch, batch, after), NEW r \in Rows, ValidChain(r)
  PROVE  ValidChain(r)'
<1> DEFINE earlier == {q \in Rows : telemetry[q].level = telemetry[r].level /\ CycleOf(q) < CycleOf(r)}
           m == Max(earlier)
<1>1. /\ cycleClock.iters \in Nat
      /\ \A q \in Rows : /\ q \in Rows' /\ telemetry'[q] = telemetry[q]
                         /\ CycleOf(q)' = CycleOf(q) /\ CycleOf(q) \in Nat /\ CycleOf(q) < cycleClock.iters
      /\ \A q \in Rows' : q \notin Rows => CycleOf(q)' = cycleClock.iters
  BY CyclesOfRows
<1>2. earlier' = earlier
  <2>1. ASSUME NEW q \in Rows', q \notin Rows PROVE ~(CycleOf(q)' < CycleOf(r)')
    <3>1. CycleOf(q)' = cycleClock.iters /\ CycleOf(r)' < cycleClock.iters /\ CycleOf(r)' \in Nat
      BY <1>1, <2>1
    <3>2. QED
      BY <1>1, <3>1
  <2>2. \A q : q \in earlier' <=> q \in earlier
    BY <1>1, <2>1
  <2>3. QED
    BY <2>2
<1>3. telemetry'[r] = telemetry[r] /\ (NewRow(r)' <=> NewRow(r))
  BY <1>1 DEF NewRow
<1>4. earlier # {} => m \in Rows
  <2>1. earlier \in SUBSET Rows /\ Rows = 1..Len(telemetry) /\ Len(telemetry) \in Nat
    BY RowNumbers
  <2>2. IsFiniteSet(1..Len(telemetry)) /\ 1..Len(telemetry) \in SUBSET Int
    BY <2>1, FS_Interval
  <2> HIDE DEF earlier
  <2>3. IsFiniteSet(earlier) /\ earlier \in SUBSET Int
    BY <2>1, <2>2, FS_Subset
  <2>4. QED
    BY <2>1, <2>3, MaxExists
<1>5. ValidChain(r) <=>
        IF earlier = {} THEN NewRow(r) /\ telemetry[r].before = <<0, 0>>
        ELSE /\ telemetry[m].persisted /\ ~NewRow(r)
             /\ telemetry[r].pre = telemetry[m].post /\ telemetry[r].before = telemetry[m].after
  BY DEF ValidChain
<1>6. ValidChain(r)' <=>
        IF earlier' = {} THEN NewRow(r)' /\ telemetry'[r].before = <<0, 0>>
        ELSE /\ telemetry'[m'].persisted /\ ~NewRow(r)'
             /\ telemetry'[r].pre = telemetry'[m'].post /\ telemetry'[r].before = telemetry'[m'].after
  BY DEF ValidChain
<1>7. m' = m
  BY <1>2
<1> HIDE DEF earlier, m
<1>8. CASE earlier = {}
  BY <1>2, <1>3, <1>5, <1>6, <1>8
<1>9. CASE earlier # {}
  <2>1. telemetry'[m] = telemetry[m]
    BY <1>1, <1>4, <1>9
  <2>2. QED
    BY <1>2, <1>3, <1>5, <1>6, <1>7, <1>9, <2>1
<1>10. QED
  BY <1>8, <1>9

(* A slot's insertions among the rows of earlier cycles. *)
LEMMA InsertionsStay ==
  ASSUME LevelBufferAssumption, LevelInv, ClockInv,
         NEW branch, NEW batch, NEW after, Cycle(branch, batch, after),
         NEW s, NEW cycles, cycleClock.iters \notin cycles
  PROVE  Insertions(s, cycles)' = Insertions(s, cycles) /\ Insertions(s, cycles) \subseteq Rows
<1>1. /\ \A q \in Rows : /\ q \in Rows' /\ telemetry'[q] = telemetry[q] /\ CycleOf(q)' = CycleOf(q)
      /\ \A q \in Rows' : q \notin Rows => CycleOf(q)' = cycleClock.iters
  BY CyclesOfRows
<1>2. \A q : q \in Insertions(s, cycles) <=>
        /\ q \in Rows /\ NewRow(q) /\ telemetry[q].post # << >> /\ telemetry[q].post[1] = s
        /\ CycleOf(q) \in cycles
  BY DEF Insertions
<1>3. \A q : q \in Insertions(s, cycles)' <=>
        /\ q \in Rows' /\ NewRow(q)' /\ telemetry'[q].post # << >> /\ telemetry'[q].post[1] = s
        /\ CycleOf(q)' \in cycles
  BY DEF Insertions
<1>4. \A q \in Rows : NewRow(q)' <=> NewRow(q)
  BY <1>1 DEF NewRow
<1>5. \A q : q \in Insertions(s, cycles)' <=> q \in Insertions(s, cycles)
  BY <1>1, <1>2, <1>3, <1>4
<1>6. QED
  BY <1>2, <1>5

(* Which of the old rows holds a slot after earlier cycles stays. *)
LEMMA SlotStays ==
  ASSUME LevelBufferAssumption, LevelInv, ClockInv,
         NEW branch, NEW batch, NEW after, Cycle(branch, batch, after),
         NEW r \in Rows, NEW cycles, cycleClock.iters \notin cycles
  PROVE  HoldsSlot(r, cycles)' <=> HoldsSlot(r, cycles)
<1> DEFINE into == Insertions(telemetry[r].post[1], cycles)
           m == Max(into)
<1>1. \A q \in Rows : q \in Rows' /\ telemetry'[q] = telemetry[q]
  BY CyclesOfRows
<1>2. into' = into /\ into \subseteq Rows
  <2>1. PICK s : s = telemetry[r].post[1]
    OBVIOUS
  <2>2. Insertions(s, cycles)' = Insertions(s, cycles) /\ Insertions(s, cycles) \subseteq Rows
    BY InsertionsStay
  <2>3. telemetry'[r].post[1] = s
    BY <1>1, <2>1
  <2>4. into' = Insertions(s, cycles)'
    BY <2>3 DEF Insertions
  <2>5. into = Insertions(s, cycles)
    BY <2>1
  <2>6. QED
    BY <2>2, <2>4, <2>5
<1>3. into # {} => m \in Rows
  <2>1. Rows = 1..Len(telemetry) /\ Len(telemetry) \in Nat
    BY RowNumbers
  <2>2. IsFiniteSet(1..Len(telemetry)) /\ 1..Len(telemetry) \in SUBSET Int
    BY <2>1, FS_Interval
  <2> HIDE DEF into
  <2>3. IsFiniteSet(into) /\ into \in SUBSET Int
    BY <1>2, <2>1, <2>2, FS_Subset
  <2>4. QED
    BY <1>2, <2>3, MaxExists
<1>4. HoldsSlot(r, cycles) <=>
        /\ telemetry[r].post # << >> /\ into # {}
        /\ telemetry[m].post = telemetry[r].post /\ telemetry[m].level = telemetry[r].level
  BY DEF HoldsSlot
<1>5. HoldsSlot(r, cycles)' <=>
        /\ telemetry'[r].post # << >> /\ into' # {}
        /\ telemetry'[m'].post = telemetry'[r].post /\ telemetry'[m'].level = telemetry'[r].level
  BY DEF HoldsSlot
<1>6. m' = m
  BY <1>2
<1> HIDE DEF into, m
<1>7. QED
  BY <1>1, <1>2, <1>3, <1>4, <1>5, <1>6

(* So the slot of an old row has the life it had. *)
LEMMA LifecycleStays ==
  ASSUME LevelBufferAssumption, LevelInv, ClockInv,
         NEW branch, NEW batch, NEW after, Cycle(branch, batch, after), NEW r \in Rows, ValidLifecycle(r)
  PROVE  ValidLifecycle(r)'
<1>1. /\ cycleClock.iters \in Nat /\ r \in Rows' /\ telemetry'[r] = telemetry[r]
      /\ CycleOf(r)' = CycleOf(r) /\ CycleOf(r) \in Nat /\ CycleOf(r) < cycleClock.iters
  BY CyclesOfRows
<1>2. PICK s : s = telemetry[r].post[1]
  OBVIOUS
<1>3. PICK k : k = CycleOf(r)
  OBVIOUS
<1>4. cycleClock.iters \notin 0..k /\ cycleClock.iters \notin 0..(k - 1)
  <2>1. k \in Nat /\ k < cycleClock.iters /\ cycleClock.iters \in Nat
    BY <1>1, <1>3
  <2>2. QED
    BY <2>1
<1>5. Insertions(s, 0..k)' = Insertions(s, 0..k)
  BY <1>4, InsertionsStay
<1>6. HoldsSlot(r, 0..k)' <=> HoldsSlot(r, 0..k)
  BY <1>4, SlotStays
<1>7. HoldsSlot(r, 0..(k - 1))' <=> HoldsSlot(r, 0..(k - 1))
  BY <1>4, SlotStays
<1>8. ValidLifecycle(r) <=>
        /\ NewRow(r) /\ telemetry[r].post # << >> =>
             telemetry[r].post[2] = Cardinality({q \in Insertions(s, 0..k) : q < r})
        /\ ~NewRow(r) => HoldsSlot(r, 0..(k - 1))
        /\ telemetry[r].persisted <=> HoldsSlot(r, 0..k)
  BY <1>2, <1>3 DEF ValidLifecycle
<1>9. ValidLifecycle(r)' <=>
        /\ NewRow(r)' /\ telemetry'[r].post # << >> =>
             telemetry'[r].post[2] = Cardinality({q \in Insertions(s, 0..k)' : q < r})
        /\ ~NewRow(r)' => HoldsSlot(r, 0..(k - 1))'
        /\ telemetry'[r].persisted <=> HoldsSlot(r, 0..k)'
  <2>1. telemetry'[r].post[1] = s /\ CycleOf(r)' = k
    BY <1>1, <1>2, <1>3
  <2>2. QED
    BY <2>1 DEF ValidLifecycle, HoldsSlot, Insertions
<1>10. NewRow(r)' <=> NewRow(r)
  BY <1>1 DEF NewRow
<1>11. QED
  BY <1>1, <1>5, <1>6, <1>7, <1>8, <1>9, <1>10

(* So what the analyzer accepted of the old rows, it accepts again. *)
LEMMA OldRowsStay ==
  ASSUME LevelBufferAssumption, LevelInv, ClockInv,
         NEW branch, NEW batch, NEW after, Cycle(branch, batch, after), PlacesKnown',
         NEW r \in Rows, ValidRow(r)
  PROVE  ValidRow(r)'
<1>1. ValidEvent(r) /\ ValidSnapshot(r) /\ ValidChain(r) /\ ValidLifecycle(r)
  BY DEF ValidRow
<1>2. ValidEvent(r)'
  <2>1. telemetry'[r] = telemetry[r]
    BY CyclesOfRows
  <2>2. QED
    BY <1>1, <2>1 DEF ValidEvent, NewRow
<1>3. ValidSnapshot(r)'
  BY <1>1, SnapshotStays
<1>4. ValidChain(r)'
  BY <1>1, ChainStays
<1>5. ValidLifecycle(r)'
  BY <1>1, LifecycleStays
<1>6. QED
  BY <1>2, <1>3, <1>4, <1>5 DEF ValidRow

-----------------------------------------------------------------------------
(* What a clean run keeps.  The last row of a level in the buffer says what *)
(* the buffer has of it.                                                    *)
LastRow(m, s) ==
  /\ telemetry[m].level = plrBuffer[s].level
  /\ \A q \in Rows : telemetry[q].level = plrBuffer[s].level => q <= m
  /\ telemetry[m].persisted = TRUE
  /\ telemetry[m].post = <<s, plrBuffer[s].gen>> /\ telemetry[m].after = plrBuffer[s].counts
ChainKnown == \A s \in Filled : \E m \in Rows : LastRow(m, s)

RowsValid == \A r \in Rows : ValidRow(r)
CleanInv == ChainKnown /\ NewRowsHaveNone /\ RowsValid /\ ValidReceipt

(* A run that is clean after a cycle was so before it. *)
LEMMA CleanBefore ==
  ASSUME LevelBufferAssumption, LevelInv, ClockInv,
         NEW branch, NEW batch, NEW after, Cycle(branch, batch, after), CleanRun'
  PROVE  CleanRun
<1>1. \A r \in Rows : r \in Rows' /\ telemetry'[r] = telemetry[r]
  BY CyclesOfRows
<1>2. ASSUME NEW r \in Rows, NEW q \in Rows, r # q, NewRow(r), NewRow(q)
      PROVE  telemetry[r].level # telemetry[q].level
  <2>1. \A p, o \in Rows' : p # o /\ NewRow(p)' /\ NewRow(o)' => telemetry'[p].level # telemetry'[o].level
    BY DEF CleanRun
  <2>2. NewRow(r)' /\ NewRow(q)'
    BY <1>1, <1>2 DEF NewRow
  <2>3. telemetry'[r] = telemetry[r] /\ telemetry'[q] = telemetry[q] /\ r \in Rows' /\ q \in Rows'
    BY <1>1
  <2>4. telemetry'[r].level # telemetry'[q].level
    BY <1>2, <2>1, <2>2, <2>3
  <2>5. QED
    BY <2>3, <2>4
<1>3. ASSUME NEW r \in Rows, NEW q \in Siblings(r)
      PROVE  telemetry[q].current[2] = NEval <=> telemetry[r].current[2] = NEval
  <2>1. q \in Siblings(r)' /\ q \in Rows
    BY SiblingsStay
  <2>2. telemetry'[q].current[2] = NEval <=> telemetry'[r].current[2] = NEval
    BY <1>1, <2>1 DEF CleanRun
  <2>3. QED
    BY <1>1, <2>1, <2>2
<1>4. QED
  BY <1>2, <1>3 DEF CleanRun

(* In a clean run the levels of a cycle of new ones are all new. *)
AllNew(batch) ==
  /\ \A i \in 1..Parallel : batch[i].slot = 0 /\ ~RepeatsNew(batch, i)
  /\ \A i \in 1..Parallel : \A r \in Rows : telemetry[r].level # batch[i].level
  /\ \A i, j \in 1..Parallel : batch[i].level = batch[j].level => i = j
  /\ \A t \in Filled : \A i \in 1..Parallel : plrBuffer[t].level # batch[i].level

(* It would not be clean if one had been in the ledger, or twice in the batch. *)
LEMMA CleanCyclesAreNew ==
  ASSUME LevelBufferAssumption, LevelInv, PlacesKnown, OriginsKnown,
         NEW batch, NEW after, Cycle("new", batch, after), CleanRun'
  PROVE  AllNew(batch)
<1> DEFINE n == Len(telemetry)
<1>1. /\ n \in Nat /\ Parallel \in Nat
      /\ \A r \in Rows : r \in Rows' /\ telemetry'[r] = telemetry[r]
      /\ \A i \in 1..Parallel : n + i \in Rows' /\ n + i \notin Rows
  BY RowNumbers
<1>2. \A p, o \in Rows' : p # o /\ telemetry'[p].source = "new" /\ telemetry'[o].source = "new"
        => telemetry'[p].level # telemetry'[o].level
  BY DEF CleanRun, NewRow
<1>3. \A i \in 1..Parallel : telemetry'[n + i].level = batch[i].level /\ telemetry'[n + i].source = "new"
  BY DEF Cycle, GroupRow
<1>4. ASSUME NEW i \in 1..Parallel, NEW r \in Rows PROVE telemetry[r].level # batch[i].level
  <2>1. PICK q \in Rows : telemetry[q].source = "new" /\ telemetry[q].level = telemetry[r].level
    BY DEF OriginsKnown, NewRow
  <2>2. q \in Rows' /\ n + i \in Rows' /\ q # n + i /\ telemetry'[q] = telemetry[q]
    BY <1>1
  <2> HIDE DEF n
  <2>3. telemetry'[q].level # telemetry'[n + i].level
    BY <1>2, <1>3, <2>1, <2>2
  <2>4. QED
    BY <1>3, <2>1, <2>2, <2>3
<1>5. ASSUME NEW t \in Filled, NEW i \in 1..Parallel PROVE plrBuffer[t].level # batch[i].level
  <2>1. PICK q \in Rows : telemetry[q].post = <<t, plrBuffer[t].gen>>
    BY DEF LevelInv, InsertionsKnown, CameIn
  <2>2. telemetry[q].level = plrBuffer[t].level
    BY <2>1 DEF PlacesKnown
  <2>3. QED
    BY <1>4, <2>2
<1>6. ASSUME NEW i \in 1..Parallel, NEW j \in 1..Parallel, batch[i].level = batch[j].level PROVE i = j
  <2>1. SUFFICES ASSUME i # j PROVE FALSE
    OBVIOUS
  <2>2. n + i # n + j
    BY <1>1, <2>1
  <2>3. n + i \in Rows' /\ n + j \in Rows'
    BY <1>1
  <2> HIDE DEF n
  <2>4. telemetry'[n + i].level # telemetry'[n + j].level
    BY <1>2, <1>3, <2>2, <2>3
  <2>5. QED
    BY <1>3, <1>6, <2>4
<1>7. ASSUME NEW i \in 1..Parallel PROVE batch[i].slot = 0 /\ ~RepeatsNew(batch, i)
  <2>1. batch[i].slot = 0
    <3>1. BatchOK(batch)
      BY DEF Cycle
    <3>2. batch[i].slot # 0 => batch[i].slot \in Filled /\ plrBuffer[batch[i].slot].level = batch[i].level
      BY <3>1 DEF BatchOK
    <3>3. QED
      BY <1>5, <3>2
  <2>2. ASSUME NEW j \in 1..(i - 1), batch[j].level = batch[i].level PROVE FALSE
    <3>1. j \in 1..Parallel /\ j # i
      BY <1>1
    <3>2. QED
      BY <1>6, <2>2, <3>1
  <2>3. QED
    BY <2>1, <2>2 DEF RepeatsNew
<1>8. QED
  BY <1>4, <1>5, <1>6, <1>7 DEF AllNew

(* So the rows of new levels go on having no place before them. *)
LEMMA NoneKept ==
  ASSUME LevelBufferAssumption, LevelInv, PlacesKnown, OriginsKnown, NewRowsHaveNone,
         NEW branch, NEW batch, NEW after, Cycle(branch, batch, after), CleanRun'
  PROVE  NewRowsHaveNone'
<1>1. /\ \A r \in Rows : r \in Rows' /\ telemetry'[r] = telemetry[r]
      /\ \A r \in Rows' : r \in Rows \/ \E i \in 1..Parallel : r = Len(telemetry) + i
  BY RowNumbers
<1>2. ASSUME NEW i \in 1..Parallel, telemetry'[Len(telemetry) + i].source = "new"
      PROVE  telemetry'[Len(telemetry) + i].pre = << >>
  <2>1. branch = "new"
    BY <1>2 DEF Cycle, GroupRow
  <2>2. batch[i].slot = 0
    BY <2>1, CleanCyclesAreNew DEF AllNew
  <2>3. QED
    BY <2>2 DEF Cycle, GroupRow
<1>3. ASSUME NEW r \in Rows', telemetry'[r].source = "new" PROVE telemetry'[r].pre = << >>
  <2>1. CASE r \in Rows
    BY <1>1, <1>3, <2>1 DEF NewRowsHaveNone, NewRow
  <2>2. CASE r \notin Rows
    BY <1>1, <1>2, <1>3, <2>2
  <2>3. QED
    BY <2>1, <2>2
<1>4. QED
  BY <1>3 DEF NewRowsHaveNone, NewRow

(* The sum over two sets apart, in a form that is cited by its name. *)
SumsSplit(f, U) ==
  \A S \in SUBSET U : \A T \in SUBSET U : S \cap T = {} =>
    SumFunctionOnSet(f, S \cup T) = SumFunctionOnSet(f, S) + SumFunctionOnSet(f, T)

(* Sums of integers over a finite set split so. *)
LEMMA SumsOfParts ==
  ASSUME NEW U, IsFiniteSet(U), NEW f, \A i \in U : f[i] \in Int
  PROVE  SumsSplit(f, U)
<1>1. ASSUME NEW S \in SUBSET U, NEW T \in SUBSET U, S \cap T = {}
      PROVE  SumFunctionOnSet(f, S \cup T) = SumFunctionOnSet(f, S) + SumFunctionOnSet(f, T)
  BY <1>1, SumDisjoint
<1>2. QED
  BY <1>1 DEF SumsSplit

(* A level that stays in the buffer gains the counts of its groups. *)
LEMMA CountsAdd ==
  ASSUME LevelBufferAssumption, LevelInv, NEW batch, BatchOK(batch), NEW after, NEW t,
         OldEntry(after, batch, 1..Parallel, t)
  PROVE  /\ after.buffer[t].counts = Plus(plrBuffer[t].counts, Sums(batch, Part(batch, t, 1..Parallel)))
         /\ plrBuffer[t].counts \in Pairs
         /\ (\A i \in 1..Parallel : batch[i].slot # t) => after.buffer[t].counts = plrBuffer[t].counts
<1> DEFINE S == SeenSince(t)
           T == Part(batch, t, 1..Parallel)
           U == 1..Width(batch)
<1>1. /\ t \in Filled /\ after.buffer[t].counts = Sums(batch, S \cup T)
      /\ LevelTypeOK /\ plrBuffer[t].counts = Evidence(S)
  BY DEF OldEntry, LevelInv, EvidenceStaysWithLevel
<1>2. /\ Len(telemetry) \in Nat /\ Parallel \in Nat /\ Rows = 1..Len(telemetry)
      /\ Width(batch) = Len(telemetry) + Parallel
  BY <1>1, ToldIsNat DEF Width
<1>3. S \in SUBSET Rows /\ T \subseteq (Len(telemetry) + 1)..Width(batch)
  BY DEF SeenSince, Part
<1>4. T = {} \/ \E i \in 1..Parallel : batch[i].slot = t
  <2>1. ASSUME NEW r \in T PROVE \E i \in 1..Parallel : batch[i].slot = t
    BY DEF Part
  <2>2. QED
    BY <2>1
<1> HIDE DEF S, T
<1>5. S \in SUBSET U /\ T \in SUBSET U /\ S \cap T = {}
  <2>1. \A r \in S : r \in 1..Len(telemetry)
    BY <1>2, <1>3
  <2>2. \A r \in T : r \in (Len(telemetry) + 1)..Width(batch)
    BY <1>3
  <2>3. /\ 1..Len(telemetry) \subseteq U /\ (Len(telemetry) + 1)..Width(batch) \subseteq U
        /\ (1..Len(telemetry)) \cap ((Len(telemetry) + 1)..Width(batch)) = {}
    BY <1>2
  <2> HIDE DEF U
  <2>4. QED
    BY <2>1, <2>2, <2>3
<1>6. Evidence(S) = Sums(batch, S)
  BY <1>1, <1>3, EvidenceIsSums
<1>7. ASSUME NEW c \in {1, 2}
      PROVE  SumFunctionOnSet(Told(batch, c), S \cup T)
               = SumFunctionOnSet(Told(batch, c), S) + SumFunctionOnSet(Told(batch, c), T)
  <2> DEFINE f == Told(batch, c)
  <2>1. IsFiniteSet(U) /\ \A r \in U : f[r] \in Nat
    BY <1>1, ToldIsNat
  <2> HIDE DEF f, U
  <2>2. \A r \in U : f[r] \in Int
    BY <2>1
  <2>3. SumFunctionOnSet(f, S \cup T) = SumFunctionOnSet(f, S) + SumFunctionOnSet(f, T)
    <3>1. SumsSplit(f, U)
      BY <2>1, <2>2, SumsOfParts
    <3>2. QED
      BY <1>5, <3>1 DEF SumsSplit
  <2>4. QED
    BY <2>3 DEF f
<1>8. Sums(batch, S \cup T) = Plus(Sums(batch, S), Sums(batch, T))
  BY <1>7 DEF Sums, Plus
<1>9. plrBuffer[t].counts \in Pairs /\ after.buffer[t].counts = Plus(plrBuffer[t].counts, Sums(batch, T))
  BY <1>1, <1>6, <1>8 DEF LevelTypeOK
<1>10. ASSUME \A i \in 1..Parallel : batch[i].slot # t PROVE after.buffer[t].counts = plrBuffer[t].counts
  <2> DEFINE c == plrBuffer[t].counts
  <2>1. Sums(batch, {}) = <<0, 0>>
    BY <1>1, SumsArePairs
  <2>2. c[1] \in Nat /\ c[2] \in Nat /\ c = <<c[1], c[2]>>
    BY <1>9 DEF Pairs
  <2> HIDE DEF c
  <2>3. Plus(c, <<0, 0>>) = c
    BY <2>2 DEF Plus
  <2>4. T = {}
    BY <1>4, <1>10
  <2>5. QED
    BY <1>9, <2>1, <2>3, <2>4 DEF c
<1>11. QED
  BY <1>9, <1>10 DEF T

-----------------------------------------------------------------------------
(* With no place before them, the new rows are those that came into a slot. *)
AllInsertions ==
  \A s : \A k \in Nat : (\A q \in Rows : CycleOf(q) <= k) => Insertions(s, 0..k) = CameInto(s)

(* So it is in a ledger whose places are known. *)
LEMMA InsertionsAreAll == LevelTypeOK /\ OriginsKnown /\ NewRowsHaveNone => AllInsertions
<1> SUFFICES ASSUME LevelTypeOK, OriginsKnown, NewRowsHaveNone,
                    NEW s, NEW k \in Nat, \A q \in Rows : CycleOf(q) <= k
             PROVE  Insertions(s, 0..k) = CameInto(s)
  BY DEF AllInsertions
<1>1. \A q \in Rows : CycleOf(q) \in 0..k
  BY RowTypes DEF RowsTyped
<1>2. QED
  BY <1>1 DEF Insertions, CameInto, NewRowsHaveNone, OriginsKnown

(* What the writer says of a level generated for the first time. *)
FreshRow(row, batch, i, after) ==
  /\ row.level = batch[i].level /\ row.source = "new" /\ row.current = batch[i].outcome
  /\ row.clock = cycleClock /\ row.pre = << >> /\ row.post = after.placed[i] /\ row.before = <<0, 0>>
  /\ row.disposition \in {"incomplete_rejected", "valid_not_persisted", "inserted", "inserted_then_evicted"}
  /\ row.persisted <=> row.disposition = "inserted"
  /\ row.persisted <=> Persists(row.post, after)
  /\ row.disposition = "incomplete_rejected" <=> ~WholeGroup(batch[i])
  /\ row.disposition \in Stored <=> row.post # << >>
  /\ row.after = IF row.disposition \in Stored THEN batch[i].outcome ELSE <<0, 0>>

(* The rows of a cycle of such levels are of this kind. *)
LEMMA FreshRows ==
  ASSUME LevelBufferAssumption, LevelInv, GenerationsCount,
         NEW batch, NEW after, Cycle("new", batch, after), AllNew(batch), NEW i \in 1..Parallel
  PROVE  FreshRow(telemetry'[Len(telemetry) + i], batch, i, after)
<1> DEFINE row == telemetry'[Len(telemetry) + i]
<1>1. /\ GroupRow(row, "new", batch, i, after) /\ BatchOK(batch) /\ FoldInv(after, batch, 1..Parallel)
      /\ telemetry'[Len(telemetry) + i] \in EventRow
  <2>1. LedgerGrows(batch, after)
    BY DEF Cycle
  <2>2. Len(telemetry) + i \in Rows'
    BY RowNumbers
  <2>3. row \in EventRow
    <3>1. telemetry' \in Seq(EventRow) /\ Len(telemetry) + i \in DOMAIN telemetry'
      BY <2>1, <2>2 DEF LedgerGrows, Rows
    <3>2. QED
      BY <3>1
  <2>4. QED
    BY <2>3 DEF Cycle
<1>2. batch[i].slot = 0 /\ ~RepeatsNew(batch, i)
  BY DEF AllNew
<1>3. batch[i].outcome \in Nat \X Nat
  BY <1>1 DEF BatchOK, Group, LevelBufferAssumption
<1>4. after.placed[i] # << >> => WholeGroup(batch[i])
  BY <1>1, <1>2 DEF FoldInv, Newly, Counts
<1>5. ASSUME Persists(after.placed[i], after)
      PROVE  after.buffer[after.placed[i][1]].counts = batch[i].outcome
  <2> DEFINE p == after.placed[i]
  <2>1. p # << >> /\ p[1] \in DOMAIN after.buffer /\ after.buffer[p[1]].gen = p[2]
    BY <1>5 DEF Persists
  <2>2. p \in Places /\ generation[p[1]] <= p[2]
    BY <1>1, <1>2, <2>1 DEF FoldInv
  <2>3. p[1] \in Slots /\ p[2] \in Nat /\ p = <<p[1], p[2]>>
    BY <2>1, <2>2 DEF Places
  <2>4. ~OldEntry(after, batch, 1..Parallel, p[1])
    <3>1. ASSUME OldEntry(after, batch, 1..Parallel, p[1]) PROVE FALSE
      <4>1. plrBuffer[p[1]].gen = p[2] /\ plrBuffer[p[1]].gen = generation[p[1]] - 1
        BY <2>1, <3>1 DEF OldEntry, GenerationsCount, LevelInv, LevelTypeOK
      <4>2. generation[p[1]] \in Nat
        BY <2>3 DEF LevelInv, LevelTypeOK
      <4> HIDE DEF p
      <4>3. QED
        BY <2>2, <2>3, <4>1, <4>2
    <3>2. QED
      BY <3>1
  <2> HIDE DEF p
  <2>5. PICK j \in 1..Parallel : /\ Newly(batch, j) /\ after.placed[j] = <<p[1], after.buffer[p[1]].gen>>
                                 /\ after.buffer[p[1]].counts = batch[j].outcome
    BY <1>1, <2>1, <2>4 DEF FoldInv, NewEntry
  <2>6. batch[j].slot = 0 /\ after.placed[j] = after.placed[i]
    BY <2>1, <2>3, <2>5 DEF Newly, p
  <2>7. i = j
    BY <1>1, <1>2, <2>1, <2>6 DEF FoldInv, p
  <2>8. QED
    BY <2>5, <2>7 DEF p
<1>6. /\ row.level = batch[i].level /\ row.source = "new" /\ row.current = batch[i].outcome
      /\ row.clock = cycleClock /\ row.pre = << >> /\ row.post = after.placed[i] /\ row.before = <<0, 0>>
      /\ row.persisted = Persists(row.post, after)
      /\ row.disposition = Disposition(batch, i, row.persisted, after)
      /\ row.after = IF row.persisted THEN after.buffer[row.post[1]].counts
                     ELSE IF row.disposition = "inserted_then_evicted" THEN Plus(row.before, batch[i].outcome)
                     ELSE row.before
  BY <1>1, <1>2 DEF GroupRow
<1>7. row.disposition = IF ~WholeGroup(batch[i]) THEN "incomplete_rejected"
                        ELSE IF row.post = << >> THEN "valid_not_persisted"
                        ELSE IF row.persisted THEN "inserted" ELSE "inserted_then_evicted"
  BY <1>2, <1>6 DEF Disposition
<1>8. Plus(<<0, 0>>, batch[i].outcome) = batch[i].outcome
  <2>1. PICK o \in Nat \X Nat : o = batch[i].outcome
    BY <1>3
  <2>2. <<0 + o[1], 0 + o[2]>> = o
    OBVIOUS
  <2>3. QED
    BY <2>1, <2>2 DEF Plus
<1>9. row.persisted \in BOOLEAN
  BY <1>1 DEF EventRow
<1> HIDE DEF row
<1>10. row.persisted => row.post # << >>
  BY <1>6 DEF Persists
<1>11. /\ row.disposition \in {"incomplete_rejected", "valid_not_persisted", "inserted", "inserted_then_evicted"}
       /\ row.persisted <=> row.disposition = "inserted"
       /\ row.disposition = "incomplete_rejected" <=> ~WholeGroup(batch[i])
       /\ row.disposition \in Stored <=> row.post # << >>
  BY <1>4, <1>6, <1>7, <1>9, <1>10 DEF Stored
<1>12. row.persisted <=> Persists(row.post, after)
  BY <1>6
<1>13. row.after = IF row.disposition \in Stored THEN batch[i].outcome ELSE <<0, 0>>
  <2>1. CASE row.persisted
    BY <1>5, <1>6, <1>11, <2>1 DEF Stored
  <2>2. CASE ~row.persisted
    BY <1>6, <1>8, <1>11, <2>2 DEF Stored
  <2>3. QED
    BY <2>1, <2>2
<1>14. FreshRow(row, batch, i, after)
  BY <1>6, <1>11, <1>12, <1>13 DEF FreshRow
<1>15. QED
  BY <1>14 DEF row

(* A cycle of a run that is clean, the parts of the invariant that do not   *)
(* depend on it being known afterwards too.                                 *)
CleanCycle(branch, batch, after) ==
  /\ LevelInv /\ ClockInv /\ GenerationsCount /\ PlacesKnown /\ OriginsKnown /\ CleanInv
  /\ Cycle(branch, batch, after) /\ CleanRun'
  /\ ClockInv' /\ GenerationsCount' /\ PlacesKnown' /\ OriginsKnown' /\ NewRowsHaveNone'

(* The analyzer accepts what such a row says of itself. *)
LEMMA FreshEvent ==
  ASSUME LevelBufferAssumption, NEW batch, NEW after, CleanCycle("new", batch, after), AllNew(batch),
         NEW i \in 1..Parallel, NEW r, r = Len(telemetry) + i
  PROVE  ValidEvent(r)'
<1> DEFINE e == telemetry'[r]
<1>1. FreshRow(e, batch, i, after)
  BY FreshRows DEF CleanCycle
<1>2. e.persisted \in BOOLEAN
  <2>1. r \in Rows' /\ LevelTypeOK'
    BY RowNumbers DEF CleanCycle, Cycle, LevelInv
  <2>2. RowsTyped'
    BY <2>1, RowTypes, PTL
  <2>3. QED
    BY <2>1, <2>2 DEF RowsTyped
<1>3. ValidEvent(r)' <=>
        /\ (e.current[2] = NEval) <=> (e.disposition # "incomplete_rejected")
        /\ e.persisted <=> \/ e.disposition \in {"inserted", "updated"}
                           \/ e.source = "replay" /\ e.disposition = "incomplete_rejected"
        /\ IF e.source = "new"
           THEN /\ e.pre = << >> /\ e.disposition # "updated"
                /\ (e.post # << >>) <=> (e.disposition \in Stored)
           ELSE /\ e.pre # << >> /\ e.post = e.pre
                /\ e.disposition \in {"updated", "incomplete_rejected"}
  BY DEF ValidEvent, NewRow
<1> HIDE DEF e
<1>4. (e.current[2] = NEval) <=> (e.disposition # "incomplete_rejected")
  BY <1>1 DEF FreshRow, WholeGroup
<1>5. e.persisted <=> \/ e.disposition \in {"inserted", "updated"}
                      \/ e.source = "replay" /\ e.disposition = "incomplete_rejected"
  BY <1>1 DEF FreshRow
<1>6. /\ e.source = "new" /\ e.pre = << >> /\ e.disposition # "updated"
      /\ (e.post # << >>) <=> (e.disposition \in Stored)
  BY <1>1 DEF FreshRow
<1>7. QED
  BY <1>3, <1>4, <1>5, <1>6

(* Its snapshot is the row alone, with the evidence it took. *)
LEMMA FreshSnapshot ==
  ASSUME LevelBufferAssumption, NEW batch, NEW after, CleanCycle("new", batch, after), AllNew(batch),
         NEW i \in 1..Parallel, NEW r, r = Len(telemetry) + i
  PROVE  ValidSnapshot(r)' /\ Siblings(r)' = {r}
<1> DEFINE n == Len(telemetry)
           e == telemetry'[r]
           taken == {q \in Siblings(r) : TookEvidence(q)}
<1>1. /\ LevelInv /\ ClockInv /\ Cycle("new", batch, after) /\ PlacesKnown' /\ LevelInv'
      /\ BatchOK(batch) /\ LedgerGrows(batch, after) /\ GenerationsCount /\ LevelTypeOK
  BY DEF CleanCycle, Cycle, LevelInv
<1>2. FreshRow(e, batch, i, after)
  BY <1>1, FreshRows
<1>3. /\ n \in Nat /\ Parallel \in Nat /\ r \in Rows' /\ r \notin Rows
      /\ \A q \in Rows' : q \in Rows \/ \E j \in 1..Parallel : q = n + j
  BY <1>1, RowNumbers
<1>4. /\ cycleClock.iters \in Nat
      /\ \A q \in Rows : CycleOf(q)' = CycleOf(q) /\ CycleOf(q) \in Nat /\ CycleOf(q) < cycleClock.iters
      /\ \A q \in Rows' : q \notin Rows => CycleOf(q)' = cycleClock.iters
  BY <1>1, CyclesOfRows
<1>5. \A q : q \in Siblings(r)' <=>
               q \in Rows' /\ CycleOf(q)' = CycleOf(r)' /\ telemetry'[q].level = e.level
  BY DEF Siblings
<1>6. Siblings(r)' = {r}
  <2>1. ASSUME NEW q \in Siblings(r)' PROVE q = r
    <3>1. q \in Rows' /\ CycleOf(q)' = cycleClock.iters /\ telemetry'[q].level = batch[i].level
      BY <1>2, <1>3, <1>4, <1>5 DEF FreshRow
    <3>2. q \notin Rows
      BY <1>4, <3>1
    <3>3. PICK j \in 1..Parallel : q = n + j
      BY <1>3, <3>1, <3>2
    <3>4. telemetry'[n + j].level = batch[j].level
      BY <1>1 DEF Cycle, GroupRow
    <3>5. i = j
      BY <3>1, <3>3, <3>4 DEF AllNew
    <3>6. QED
      BY <3>3, <3>5
  <2>2. r \in Siblings(r)'
    BY <1>3, <1>5
  <2>3. QED
    BY <2>1, <2>2
<1>7. taken' = IF e.disposition \in Stored THEN {r} ELSE {}
  <2>1. TookEvidence(r)' <=> (e.disposition \in Stored)
    BY <1>2 DEF TookEvidence, FreshRow, Stored
  <2>2. QED
    BY <1>6, <2>1
<1>8. taken' \in SUBSET (1..Width(batch)) /\ {} \in SUBSET (1..Width(batch))
  BY <1>1, <1>3, <1>7 DEF LedgerGrows
<1>9. Evidence(taken)' = Sums(batch, taken')
  <2>1. PICK T : T = taken'
    OBVIOUS
  <2>2. <<SumFunctionOnSet([q \in T |-> telemetry'[q].current[1]], T),
          SumFunctionOnSet([q \in T |-> telemetry'[q].current[2]], T)>> = Sums(batch, T)
    BY <1>1, <1>8, <2>1, GrownSums
  <2>3. QED
    BY <2>1, <2>2 DEF Evidence
<1>10. e.after = Plus(e.before, Sums(batch, taken'))
  <2>1. Sums(batch, {}) = <<0, 0>>
    BY <1>1, <1>8, SumsArePairs
  <2>2. Sums(batch, {n + i}) = Plus(<<0, 0>>, batch[i].outcome)
    <3>1. Sums(batch, {} \cup {n + i}) = Plus(Sums(batch, {}), batch[i].outcome)
      BY <1>1, <1>8, SumsGrow
    <3>2. {} \cup {n + i} = {n + i}
      OBVIOUS
    <3>3. QED
      BY <2>1, <3>1, <3>2
  <2>3. PICK o \in Nat \X Nat : o = batch[i].outcome
    BY <1>1 DEF BatchOK, Group, LevelBufferAssumption
  <2>4. <<0 + (0 + o[1]), 0 + (0 + o[2])>> = o
    OBVIOUS
  <2>5. Plus(<<0, 0>>, Plus(<<0, 0>>, o)) = o /\ Plus(<<0, 0>>, <<0, 0>>) = <<0, 0>>
    BY <2>4 DEF Plus
  <2> HIDE DEF taken, e
  <2>6. CASE e.disposition \in Stored
    BY <1>2, <1>7, <2>2, <2>3, <2>5, <2>6 DEF FreshRow
  <2>7. CASE e.disposition \notin Stored
    BY <1>2, <1>7, <2>1, <2>5, <2>7 DEF FreshRow
  <2>8. QED
    BY <2>6, <2>7
<1>11. [e EXCEPT !.current = e.current] = e
  <2>1. telemetry' \in Seq(EventRow) /\ r \in DOMAIN telemetry'
    BY <1>1, <1>3 DEF LedgerGrows, Rows
  <2>2. e \in EventRow
    BY <2>1
  <2> HIDE DEF e
  <2>3. QED
    BY <2>2 DEF EventRow
<1>12. e.post # << >> => \A q \in Rows' : telemetry'[q].post = e.post => telemetry'[q].level = e.level
  BY <1>1, <1>3 DEF PlacesKnown
<1>13. ValidSnapshot(r)' <=>
         /\ \A q \in Siblings(r)' : [telemetry'[q] EXCEPT !.current = e.current] = e
         /\ NewRow(r)' => Siblings(r)' = {r}
         /\ e.after = Plus(e.before, Evidence(taken)')
         /\ e.post # << >> => \A q \in Rows' : telemetry'[q].post = e.post => telemetry'[q].level = e.level
  BY DEF ValidSnapshot, Evidence
<1>14. e.after = Plus(e.before, Evidence(taken)')
  BY <1>9, <1>10
<1>15. QED
  BY <1>6, <1>11, <1>12, <1>13, <1>14

(* It is the first row of its level. *)
LEMMA FreshChain ==
  ASSUME LevelBufferAssumption, NEW batch, NEW after, CleanCycle("new", batch, after), AllNew(batch),
         NEW i \in 1..Parallel, NEW r, r = Len(telemetry) + i
  PROVE  ValidChain(r)'
<1> DEFINE e == telemetry'[r]
           earlier == {q \in Rows : telemetry[q].level = telemetry[r].level /\ CycleOf(q) < CycleOf(r)}
<1>1. LevelInv /\ ClockInv /\ GenerationsCount /\ Cycle("new", batch, after)
  BY DEF CleanCycle
<1>2. FreshRow(e, batch, i, after)
  BY <1>1, FreshRows
<1>3. r \in Rows' /\ r \notin Rows
  BY <1>1, RowNumbers
<1>4. /\ cycleClock.iters \in Nat
      /\ \A q \in Rows : telemetry'[q] = telemetry[q]
      /\ \A q \in Rows' : q \notin Rows => CycleOf(q)' = cycleClock.iters
  BY <1>1, CyclesOfRows
<1>5. ASSUME NEW q \in Rows', telemetry'[q].level = e.level, CycleOf(q)' < CycleOf(r)' PROVE FALSE
  <2>1. CASE q \in Rows
    BY <1>2, <1>4, <1>5, <2>1 DEF FreshRow, AllNew
  <2>2. CASE q \notin Rows
    <3>1. CycleOf(q)' = cycleClock.iters /\ CycleOf(r)' = cycleClock.iters
      BY <1>3, <1>4, <2>2
    <3>2. QED
      BY <1>4, <1>5, <3>1
  <2>3. QED
    BY <2>1, <2>2
<1>6. earlier' = {}
  BY <1>5
<1>7. NewRow(r)' /\ telemetry'[r].before = <<0, 0>>
  BY <1>2 DEF FreshRow, NewRow
<1>8. earlier' = {} => (ValidChain(r)' <=> NewRow(r)' /\ telemetry'[r].before = <<0, 0>>)
  BY DEF ValidChain
<1>9. QED
  BY <1>6, <1>7, <1>8

(* Its generation counts the insertions before it, and it persists if the   *)
(* buffer has its place.                                                    *)
LEMMA FreshLifecycle ==
  ASSUME LevelBufferAssumption, NEW batch, NEW after, CleanCycle("new", batch, after), AllNew(batch),
         NEW i \in 1..Parallel, NEW r, r = Len(telemetry) + i
  PROVE  ValidLifecycle(r)'
<1> DEFINE e == telemetry'[r]
<1>1. /\ LevelInv /\ ClockInv /\ GenerationsCount /\ Cycle("new", batch, after) /\ LevelTypeOK'
      /\ GenerationsCount' /\ PlacesKnown' /\ OriginsKnown' /\ NewRowsHaveNone'
      /\ plrBuffer' = after.buffer
  BY DEF CleanCycle, Cycle, LevelInv
<1>2. FreshRow(e, batch, i, after)
  BY <1>1, FreshRows
<1>3. r \in Rows' /\ r \notin Rows
  BY <1>1, RowNumbers
<1>4. PICK k \in Nat :
      /\ cycleClock.iters = k
      /\ \A q \in Rows : CycleOf(q)' = CycleOf(q) /\ CycleOf(q) \in Nat /\ CycleOf(q) < k
      /\ \A q \in Rows' : q \notin Rows => CycleOf(q)' = k
  BY <1>1, CyclesOfRows
<1>5. RowsTyped' /\ AllInsertions' /\ HoldersKnown'
  BY <1>1, RowTypes, InsertionsAreAll, HoldersAreKnown, PTL
<1>6. CycleOf(r)' = k /\ \A q \in Rows' : CycleOf(q)' <= k
  BY <1>3, <1>4
<1>7. HoldsSlot(r, 0..k)' <=> HeldNow(r)'
  BY <1>3, <1>5, <1>6 DEF HoldersKnown
<1>8. e.persisted <=> HeldNow(r)'
  <2>1. e.persisted <=> Persists(e.post, after)
    BY <1>2 DEF FreshRow
  <2>2. HeldNow(r)' <=> e.post # << >> /\ e.post[1] \in DOMAIN plrBuffer' /\ plrBuffer'[e.post[1]].gen = e.post[2]
    BY DEF HeldNow, Filled
  <2> HIDE DEF e
  <2>3. QED
    BY <1>1, <2>1, <2>2 DEF Persists
<1>9. PICK t : t = e.post[1]
  OBVIOUS
<1>10. ASSUME e.post # << >>
       PROVE  e.post[2] = Cardinality({q \in Insertions(t, 0..k)' : q < r})
  <2>1. t \in Slots
    BY <1>3, <1>5, <1>9, <1>10 DEF RowsTyped
  <2>2. r \in CameInto(t)'
    BY <1>2, <1>3, <1>9, <1>10 DEF CameInto, FreshRow
  <2>3. e.post[2] = Cardinality({q \in CameInto(t)' : q < r})
    BY <1>1, <2>1, <2>2 DEF GenerationsCount
  <2>4. Insertions(t, 0..k)' = CameInto(t)'
    BY <1>5, <1>6 DEF AllInsertions
  <2>5. QED
    BY <2>3, <2>4
<1>11. ValidLifecycle(r)' <=>
         /\ NewRow(r)' /\ e.post # << >> =>
              e.post[2] = Cardinality({q \in Insertions(t, 0..k)' : q < r})
         /\ ~NewRow(r)' => HoldsSlot(r, 0..(k - 1))'
         /\ e.persisted <=> HoldsSlot(r, 0..k)'
  BY <1>6, <1>9 DEF ValidLifecycle, HoldsSlot, Insertions
<1>12. NewRow(r)'
  BY <1>2 DEF FreshRow, NewRow
<1>13. QED
  BY <1>7, <1>8, <1>10, <1>11, <1>12

(* The levels of the buffer keep their last rows, and the new ones have one. *)
LEMMA FreshChains ==
  ASSUME LevelBufferAssumption, NEW batch, NEW after, CleanCycle("new", batch, after), AllNew(batch)
  PROVE  ChainKnown'
<1> DEFINE n == Len(telemetry)
<1>1. /\ LevelInv /\ GenerationsCount /\ Cycle("new", batch, after) /\ ChainKnown
      /\ BatchOK(batch) /\ FoldInv(after, batch, 1..Parallel) /\ plrBuffer' = after.buffer
  BY DEF CleanCycle, CleanInv, Cycle
<1>2. /\ n \in Nat /\ Parallel \in Nat
      /\ \A r \in Rows : r \in Rows' /\ r \in Nat /\ telemetry'[r] = telemetry[r]
      /\ \A i \in 1..Parallel : n + i \in Rows' /\ n + i \notin Rows /\ \A r \in Rows : r < n + i
      /\ \A r \in Rows' : r \in Rows \/ \E i \in 1..Parallel : r = n + i
  BY <1>1, RowNumbers
<1>3. \A i \in 1..Parallel : FreshRow(telemetry'[n + i], batch, i, after)
  BY <1>1, FreshRows
<1>4. ASSUME NEW t \in Filled', OldEntry(after, batch, 1..Parallel, t)
      PROVE  \E m \in Rows' : LastRow(m, t)'
  <2>1. /\ t \in Filled /\ plrBuffer'[t].level = plrBuffer[t].level /\ plrBuffer'[t].gen = plrBuffer[t].gen
    BY <1>1, <1>4 DEF OldEntry
  <2>2. plrBuffer'[t].counts = plrBuffer[t].counts
    <3>1. t # 0
      BY <1>1, <2>1 DEF LevelInv, LevelTypeOK, Slots
    <3>2. \A i \in 1..Parallel : batch[i].slot # t
      BY <3>1 DEF AllNew
    <3>3. QED
      BY <1>1, <1>4, <3>2, CountsAdd
  <2>3. PICK m \in Rows : LastRow(m, t)
    BY <1>1, <2>1 DEF ChainKnown
  <2>4. ASSUME NEW q \in Rows', telemetry'[q].level = plrBuffer[t].level PROVE q <= m
    <3>1. CASE q \in Rows
      BY <1>2, <2>3, <2>4, <3>1 DEF LastRow
    <3>2. CASE q \notin Rows
      <4>1. PICK i \in 1..Parallel : q = n + i
        BY <1>2, <3>2
      <4>2. telemetry'[q].level = batch[i].level
        BY <1>3, <4>1 DEF FreshRow
      <4>3. QED
        BY <2>1, <2>4, <4>2 DEF AllNew
    <3>3. QED
      BY <3>1, <3>2
  <2>5. telemetry'[m] = telemetry[m] /\ m \in Rows'
    BY <1>2
  <2>6. LastRow(m, t)'
    BY <2>1, <2>2, <2>3, <2>4, <2>5 DEF LastRow
  <2>7. QED
    BY <2>5, <2>6
<1>5. ASSUME NEW t \in Filled', NewEntry(after, batch, 1..Parallel, t)
      PROVE  \E m \in Rows' : LastRow(m, t)'
  <2>1. PICK i \in 1..Parallel : /\ after.placed[i] = <<t, plrBuffer'[t].gen>>
                                 /\ plrBuffer'[t].level = batch[i].level
                                 /\ plrBuffer'[t].counts = batch[i].outcome
    BY <1>1, <1>5 DEF NewEntry
  <2>2. PICK m : m = n + i
    OBVIOUS
  <2>3. m \in Rows' /\ FreshRow(telemetry'[m], batch, i, after)
    BY <1>2, <1>3, <2>2
  <2>4. ASSUME NEW q \in Rows', telemetry'[q].level = batch[i].level PROVE q <= m
    <3>1. CASE q \in Rows
      BY <1>2, <2>4, <3>1 DEF AllNew
    <3>2. CASE q \notin Rows
      <4>1. PICK j \in 1..Parallel : q = n + j
        BY <1>2, <3>2
      <4>2. telemetry'[q].level = batch[j].level
        BY <1>3, <4>1 DEF FreshRow
      <4>3. i = j
        BY <2>4, <4>2 DEF AllNew
      <4>4. QED
        BY <1>2, <2>2, <4>1, <4>3
    <3>3. QED
      BY <3>1, <3>2
  <2> DEFINE e == telemetry'[m]
  <2>5. /\ e.level = batch[i].level /\ e.post = <<t, plrBuffer'[t].gen>>
        /\ e.persisted <=> Persists(e.post, after)
        /\ e.persisted <=> e.disposition = "inserted"
        /\ e.after = IF e.disposition \in Stored THEN batch[i].outcome ELSE <<0, 0>>
    BY <2>1, <2>3 DEF FreshRow
  <2>6. Persists(e.post, after)
    <3> HIDE DEF e
    <3>1. <<t, plrBuffer'[t].gen>> # << >>
      OBVIOUS
    <3>2. QED
      BY <1>1, <2>5, <3>1 DEF Persists, Filled
  <2>7. e.persisted \in BOOLEAN
    <3>1. LevelTypeOK'
      BY <1>1 DEF Cycle, LevelInv
    <3>2. RowsTyped'
      BY <3>1, RowTypes, PTL
    <3>3. QED
      BY <2>3, <3>2 DEF RowsTyped
  <2>8. e.persisted = TRUE /\ e.after = batch[i].outcome
    <3> HIDE DEF e
    <3>1. e.disposition = "inserted"
      BY <2>5, <2>6
    <3>2. e.disposition \in Stored
      BY <3>1 DEF Stored
    <3>3. e.after = batch[i].outcome
      BY <2>5, <3>2
    <3>4. e.persisted = TRUE
      BY <2>5, <2>6, <2>7, Zenon
    <3>5. QED
      BY <3>3, <3>4
  <2>9. LastRow(m, t)'
    BY <2>1, <2>4, <2>5, <2>8 DEF LastRow
  <2>10. QED
    BY <2>3, <2>9
<1>6. \A t \in Filled' : OldEntry(after, batch, 1..Parallel, t) \/ NewEntry(after, batch, 1..Parallel, t)
  BY <1>1 DEF FoldInv, Filled
<1>7. \A t \in Filled' : \E m \in Rows' : LastRow(m, t)'
  BY <1>4, <1>5, <1>6
<1>8. QED
  BY <1>7 DEF ChainKnown

(* So a cycle of new levels leaves a ledger the analyzer accepts, row by row. *)
LEMMA FreshRowsValid ==
  ASSUME LevelBufferAssumption, NEW batch, NEW after, CleanCycle("new", batch, after), AllNew(batch)
  PROVE  RowsValid' /\ ChainKnown'
<1>1. /\ LevelInv /\ ClockInv /\ Cycle("new", batch, after) /\ PlacesKnown' /\ RowsValid
  BY DEF CleanCycle, CleanInv
<1>2. \A r \in Rows' : r \in Rows \/ \E i \in 1..Parallel : r = Len(telemetry) + i
  BY <1>1, RowNumbers
<1>3. \A r \in Rows : ValidRow(r)'
  BY <1>1, OldRowsStay DEF RowsValid
<1>4. ASSUME NEW r, NEW i \in 1..Parallel, r = Len(telemetry) + i PROVE ValidRow(r)'
  BY <1>4, FreshEvent, FreshSnapshot, FreshChain, FreshLifecycle DEF ValidRow
<1>5. \A r \in Rows' : ValidRow(r)'
  BY <1>2, <1>3, <1>4
<1>6. ChainKnown'
  BY FreshChains
<1>7. QED
  BY <1>5, <1>6 DEF RowsValid

-----------------------------------------------------------------------------
(* A cycle of replays brings no level: the buffer keeps those it has. *)
LEMMA ReplaysStay ==
  ASSUME LevelBufferAssumption, LevelInv, NEW batch, NEW after, Cycle("replay", batch, after)
  PROVE  /\ Filled' = Filled /\ DOMAIN after.buffer = Filled
         /\ \A t \in Filled : OldEntry(after, batch, 1..Parallel, t)
<1>1. /\ FoldInv(after, batch, 1..Parallel) /\ plrBuffer' = after.buffer
      /\ \A i \in 1..Parallel : batch[i].slot # 0
  BY DEF Cycle
<1>2. \A t \in DOMAIN after.buffer : ~NewEntry(after, batch, 1..Parallel, t)
  BY <1>1 DEF NewEntry, Newly
<1>3. \A t \in DOMAIN after.buffer : OldEntry(after, batch, 1..Parallel, t) /\ t \in Filled
  BY <1>1, <1>2 DEF FoldInv, OldEntry
<1>4. Filled \subseteq DOMAIN after.buffer
  BY <1>1 DEF FoldInv
<1>5. QED
  BY <1>1, <1>3, <1>4 DEF Filled

(* What the writer says of a level replayed from slot t. *)
ReplayRow(row, batch, i, t, after) ==
  /\ row.level = plrBuffer[t].level /\ row.source = "replay" /\ row.current = batch[i].outcome
  /\ row.clock = cycleClock /\ row.pre = <<t, plrBuffer[t].gen>> /\ row.post = row.pre
  /\ row.before = plrBuffer[t].counts /\ row.persisted = TRUE /\ row.after = after.buffer[t].counts
  /\ row.disposition = IF WholeGroup(batch[i]) THEN "updated" ELSE "incomplete_rejected"

(* The rows of a replay cycle are of this kind, their levels in the buffer. *)
LEMMA ReplayRows ==
  ASSUME LevelBufferAssumption, LevelInv,
         NEW batch, NEW after, Cycle("replay", batch, after), NEW i \in 1..Parallel
  PROVE  /\ batch[i].slot \in Filled /\ batch[i].level = plrBuffer[batch[i].slot].level
         /\ ReplayRow(telemetry'[Len(telemetry) + i], batch, i, batch[i].slot, after)
<1> DEFINE row == telemetry'[Len(telemetry) + i]
           t == batch[i].slot
<1>1. GroupRow(row, "replay", batch, i, after) /\ BatchOK(batch) /\ t # 0
  BY DEF Cycle
<1>2. t \in Filled /\ batch[i].level = plrBuffer[t].level
  BY <1>1 DEF BatchOK
<1>3. t \in DOMAIN after.buffer /\ after.buffer[t].gen = plrBuffer[t].gen
  <2>1. DOMAIN after.buffer = Filled /\ \A u \in Filled : OldEntry(after, batch, 1..Parallel, u)
    BY ReplaysStay
  <2>2. QED
    BY <1>2, <2>1 DEF OldEntry
<1> HIDE DEF row
<1>4. /\ row.level = batch[i].level /\ row.source = "replay" /\ row.current = batch[i].outcome
      /\ row.clock = cycleClock /\ row.pre = <<t, plrBuffer[t].gen>> /\ row.post = row.pre
      /\ row.before = plrBuffer[t].counts
      /\ row.persisted = Persists(row.post, after)
      /\ row.disposition = Disposition(batch, i, row.persisted, after)
      /\ row.after = IF row.persisted THEN after.buffer[row.post[1]].counts
                     ELSE IF row.disposition = "inserted_then_evicted" THEN Plus(row.before, batch[i].outcome)
                     ELSE row.before
  BY <1>1 DEF GroupRow
<1>5. ~RepeatsNew(batch, i)
  BY <1>1 DEF RepeatsNew
<1> HIDE DEF t
<1>6. row.post # << >> /\ row.post[1] = t /\ row.post[2] = plrBuffer[t].gen
  BY <1>4
<1>7. Persists(row.post, after)
  BY <1>3, <1>6 DEF Persists
<1>8. row.persisted = TRUE
  <2>1. Persists(row.post, after) \in BOOLEAN
    BY DEF Persists
  <2>2. row.persisted = Persists(row.post, after)
    BY <1>4
  <2>3. QED
    BY <1>7, <2>1, <2>2, Zenon
<1>9. row.after = after.buffer[t].counts
  BY <1>4, <1>6, <1>8
<1>10. row.disposition = IF WholeGroup(batch[i]) THEN "updated" ELSE "incomplete_rejected"
  BY <1>1, <1>4, <1>5 DEF Disposition, t
<1>11. ReplayRow(row, batch, i, t, after)
  BY <1>2, <1>4, <1>8, <1>9, <1>10 DEF ReplayRow
<1>12. QED
  BY <1>2, <1>11 DEF row, t

(* The groups of a slot are those of its level. *)
LEMMA SlotsOfLevels ==
  ASSUME LevelBufferAssumption, LevelInv,
         NEW batch, NEW after, Cycle("replay", batch, after), NEW i \in 1..Parallel, NEW j \in 1..Parallel
  PROVE  batch[i].level = batch[j].level <=> batch[i].slot = batch[j].slot
<1>1. /\ batch[i].slot \in Filled /\ batch[i].level = plrBuffer[batch[i].slot].level
      /\ batch[j].slot \in Filled /\ batch[j].level = plrBuffer[batch[j].slot].level
  BY ReplayRows
<1>2. LevelsApart
  BY DEF LevelInv
<1>3. QED
  BY <1>1, <1>2 DEF LevelsApart

(* Rows that differ in their groups' outcomes only. *)
LEMMA RowsAgree ==
  ASSUME NEW x \in EventRow, NEW y \in EventRow,
         x.level = y.level, x.source = y.source, x.pre = y.pre, x.post = y.post, x.before = y.before,
         x.disposition = y.disposition, x.persisted = y.persisted, x.after = y.after,
         x.clock = y.clock, x.clockAfter = y.clockAfter
  PROVE  [x EXCEPT !.current = y.current] = y
  BY DEF EventRow

(* The rows of a snapshot are those of the groups of its slot. *)
LEMMA ReplaySiblings ==
  ASSUME LevelBufferAssumption, LevelInv, ClockInv,
         NEW batch, NEW after, Cycle("replay", batch, after), NEW i \in 1..Parallel,
         NEW r, r = Len(telemetry) + i
  PROVE  \A q : q \in Siblings(r)' <=>
                  \E j \in 1..Parallel : q = Len(telemetry) + j /\ batch[j].slot = batch[i].slot
<1> DEFINE n == Len(telemetry)
<1>1. /\ n \in Nat /\ Parallel \in Nat
      /\ \A j \in 1..Parallel : n + j \in Rows' /\ n + j \notin Rows
      /\ \A q \in Rows' : q \in Rows \/ \E j \in 1..Parallel : q = n + j
  BY RowNumbers
<1>2. /\ cycleClock.iters \in Nat
      /\ \A q \in Rows : CycleOf(q)' = CycleOf(q) /\ CycleOf(q) \in Nat /\ CycleOf(q) < cycleClock.iters
      /\ \A q \in Rows' : q \notin Rows => CycleOf(q)' = cycleClock.iters
  BY CyclesOfRows
<1>3. \A q : q \in Siblings(r)' <=>
               q \in Rows' /\ CycleOf(q)' = CycleOf(r)' /\ telemetry'[q].level = telemetry'[r].level
  BY DEF Siblings
<1>4. \A j \in 1..Parallel : telemetry'[n + j].level = batch[j].level
  BY DEF Cycle, GroupRow
<1>5. r \in Rows' /\ r \notin Rows /\ telemetry'[r].level = batch[i].level
  BY <1>1, <1>4
<1>6. ASSUME NEW q \in Siblings(r)'
      PROVE  \E j \in 1..Parallel : q = n + j /\ batch[j].slot = batch[i].slot
  <2>1. q \in Rows' /\ CycleOf(q)' = cycleClock.iters /\ telemetry'[q].level = batch[i].level
    BY <1>2, <1>3, <1>5
  <2>2. q \notin Rows
    BY <1>2, <2>1
  <2>3. PICK j \in 1..Parallel : q = n + j
    BY <1>1, <2>1, <2>2
  <2>4. batch[j].level = batch[i].level
    BY <1>4, <2>1, <2>3
  <2>5. batch[j].slot = batch[i].slot
    BY <2>4, SlotsOfLevels
  <2>6. QED
    BY <2>3, <2>5
<1>7. ASSUME NEW q, NEW j \in 1..Parallel, q = n + j, batch[j].slot = batch[i].slot PROVE q \in Siblings(r)'
  <2>1. batch[j].level = batch[i].level
    BY <1>7, SlotsOfLevels
  <2>2. q \in Rows' /\ q \notin Rows /\ telemetry'[q].level = batch[i].level
    BY <1>1, <1>4, <1>7, <2>1
  <2>3. CycleOf(q)' = CycleOf(r)'
    BY <1>2, <1>5, <2>2
  <2>4. QED
    BY <1>3, <1>5, <2>2, <2>3
<1>8. QED
  BY <1>6, <1>7

(* The analyzer accepts what a row of a replay says of itself. *)
LEMMA ReplayEvent ==
  ASSUME LevelBufferAssumption, NEW batch, NEW after, CleanCycle("replay", batch, after),
         NEW i \in 1..Parallel, NEW r, r = Len(telemetry) + i
  PROVE  ValidEvent(r)'
<1> DEFINE e == telemetry'[r]
<1>1. PICK t : ReplayRow(e, batch, i, t, after)
  BY ReplayRows DEF CleanCycle
<1>2. ValidEvent(r)' <=>
        /\ (e.current[2] = NEval) <=> (e.disposition # "incomplete_rejected")
        /\ e.persisted <=> \/ e.disposition \in {"inserted", "updated"}
                           \/ e.source = "replay" /\ e.disposition = "incomplete_rejected"
        /\ IF e.source = "new"
           THEN /\ e.pre = << >> /\ e.disposition # "updated"
                /\ (e.post # << >>) <=> (e.disposition \in Stored)
           ELSE /\ e.pre # << >> /\ e.post = e.pre
                /\ e.disposition \in {"updated", "incomplete_rejected"}
  BY DEF ValidEvent, NewRow
<1> HIDE DEF e
<1>3. /\ e.source = "replay" /\ e.persisted = TRUE /\ e.current = batch[i].outcome
      /\ e.disposition = IF WholeGroup(batch[i]) THEN "updated" ELSE "incomplete_rejected"
  BY <1>1 DEF ReplayRow
<1>4. e.pre # << >> /\ e.post = e.pre
  <2>1. <<t, plrBuffer[t].gen>> # << >>
    OBVIOUS
  <2>2. QED
    BY <1>1, <2>1 DEF ReplayRow
<1>5. (e.current[2] = NEval) <=> (e.disposition # "incomplete_rejected")
  BY <1>3 DEF WholeGroup
<1>6. e.disposition \in {"updated", "incomplete_rejected"}
  BY <1>3
<1>7. e.persisted <=> \/ e.disposition \in {"inserted", "updated"}
                      \/ e.source = "replay" /\ e.disposition = "incomplete_rejected"
  BY <1>3, <1>6
<1>8. e.source # "new"
  BY <1>3
<1>9. QED
  BY <1>2, <1>4, <1>5, <1>6, <1>7, <1>8

(* Its snapshot's rows agree, and the buffer has what they took. *)
LEMMA ReplaySnapshot ==
  ASSUME LevelBufferAssumption, NEW batch, NEW after, CleanCycle("replay", batch, after),
         NEW i \in 1..Parallel, NEW r, r = Len(telemetry) + i
  PROVE  ValidSnapshot(r)'
<1> DEFINE n == Len(telemetry)
           e == telemetry'[r]
           t == batch[i].slot
           taken == {q \in Siblings(r) : TookEvidence(q)}
<1>1. /\ LevelInv /\ ClockInv /\ Cycle("replay", batch, after) /\ PlacesKnown' /\ LevelTypeOK
      /\ BatchOK(batch) /\ LedgerGrows(batch, after)
  BY DEF CleanCycle, Cycle, LevelInv
<1>2. /\ n \in Nat /\ Parallel \in Nat /\ r \in Rows'
      /\ \A j \in 1..Parallel : n + j \in Rows'
  BY <1>1, RowNumbers
<1>3. \A q : q \in Siblings(r)' <=> \E j \in 1..Parallel : q = n + j /\ batch[j].slot = t
  BY <1>1, ReplaySiblings
<1>4. \A j \in 1..Parallel : ReplayRow(telemetry'[n + j], batch, j, batch[j].slot, after)
  BY <1>1, ReplayRows
<1>5. ReplayRow(e, batch, i, t, after) /\ t \in Filled
  BY <1>1, ReplayRows
<1>6. ASSUME NEW q \in Siblings(r)' PROVE [telemetry'[q] EXCEPT !.current = e.current] = e
  <2>1. PICK j \in 1..Parallel : q = n + j /\ batch[j].slot = t
    BY <1>3
  <2> DEFINE x == telemetry'[q]
  <2>2. ReplayRow(x, batch, j, t, after)
    BY <1>4, <2>1
  <2>3. x.clockAfter = cycleClock' /\ e.clockAfter = cycleClock'
    BY <1>1, <2>1 DEF Cycle, GroupRow
  <2>4. WholeGroup(batch[j]) <=> WholeGroup(batch[i])
    <3>1. x.current[2] = NEval <=> e.current[2] = NEval
      BY <1>2 DEF CleanCycle, CleanRun
    <3>2. x.current = batch[j].outcome /\ e.current = batch[i].outcome
      BY <1>5, <2>2 DEF ReplayRow
    <3> HIDE DEF x, e
    <3>3. QED
      BY <3>1, <3>2 DEF WholeGroup
  <2>5. x \in EventRow /\ e \in EventRow
    <3>1. telemetry' \in Seq(EventRow) /\ r \in DOMAIN telemetry' /\ q \in DOMAIN telemetry'
      BY <1>1, <1>2, <2>1 DEF LedgerGrows, Rows
    <3>2. QED
      BY <3>1
  <2> HIDE DEF x, e, t
  <2>6. /\ x.level = e.level /\ x.source = e.source /\ x.pre = e.pre /\ x.post = e.post
        /\ x.before = e.before /\ x.disposition = e.disposition /\ x.persisted = e.persisted
        /\ x.after = e.after /\ x.clock = e.clock /\ x.clockAfter = e.clockAfter
    BY <1>5, <2>2, <2>3, <2>4 DEF ReplayRow
  <2>7. [x EXCEPT !.current = e.current] = e
    BY <2>5, <2>6, RowsAgree
  <2>8. QED
    BY <2>7 DEF x
<1>7. taken' = Part(batch, t, 1..Parallel)
  <2>1. \A j \in 1..Parallel : (telemetry'[n + j].disposition \in Stored \cup {"updated"}) <=> WholeGroup(batch[j])
    BY <1>4 DEF ReplayRow, Stored
  <2>2. \A q : q \in taken' <=>
           \E j \in 1..Parallel : q = n + j /\ batch[j].slot = t /\ WholeGroup(batch[j])
    BY <1>3, <2>1 DEF TookEvidence
  <2>3. \A q : q \in Part(batch, t, 1..Parallel) <=>
           \E j \in 1..Parallel : q = n + j /\ batch[j].slot = t /\ WholeGroup(batch[j])
    <3>1. ASSUME NEW q \in Part(batch, t, 1..Parallel)
          PROVE  \E j \in 1..Parallel : q = n + j /\ batch[j].slot = t /\ WholeGroup(batch[j])
      <4>1. /\ q \in (n + 1)..(n + Parallel) /\ q - n \in 1..Parallel
            /\ batch[q - n].slot = t /\ WholeGroup(batch[q - n])
        BY <3>1 DEF Part, Width
      <4>2. q = n + (q - n)
        BY <1>2, <4>1
      <4>3. QED
        BY <4>1, <4>2
    <3>2. ASSUME NEW q, NEW j \in 1..Parallel, q = n + j, batch[j].slot = t, WholeGroup(batch[j])
          PROVE  q \in Part(batch, t, 1..Parallel)
      <4>1. q \in (n + 1)..(n + Parallel) /\ q - n = j
        BY <1>2, <3>2
      <4>2. QED
        BY <3>2, <4>1 DEF Part, Width
    <3>3. QED
      BY <3>1, <3>2
  <2>4. \A q : q \in taken' <=> q \in Part(batch, t, 1..Parallel)
    BY <2>2, <2>3
  <2> HIDE DEF taken
  <2>5. QED
    BY <2>4
<1>8. taken' \in SUBSET (1..Width(batch))
  <2>1. (n + 1)..Width(batch) \subseteq 1..Width(batch)
    BY <1>2 DEF Width
  <2>2. QED
    BY <1>7, <2>1 DEF Part
<1>9. Evidence(taken)' = Sums(batch, taken')
  <2>1. PICK T : T = taken'
    OBVIOUS
  <2>2. <<SumFunctionOnSet([q \in T |-> telemetry'[q].current[1]], T),
          SumFunctionOnSet([q \in T |-> telemetry'[q].current[2]], T)>> = Sums(batch, T)
    BY <1>1, <1>8, <2>1, GrownSums
  <2>3. QED
    BY <2>1, <2>2 DEF Evidence
<1>10. e.after = Plus(e.before, Evidence(taken)')
  <2>1. OldEntry(after, batch, 1..Parallel, t)
    BY <1>1, <1>5, ReplaysStay
  <2>2. after.buffer[t].counts = Plus(plrBuffer[t].counts, Sums(batch, Part(batch, t, 1..Parallel)))
    BY <1>1, <2>1, CountsAdd
  <2>3. QED
    BY <1>5, <1>7, <1>9, <2>2 DEF ReplayRow
<1>11. e.post # << >> => \A q \in Rows' : telemetry'[q].post = e.post => telemetry'[q].level = e.level
  BY <1>1, <1>2 DEF PlacesKnown
<1>12. ~NewRow(r)'
  BY <1>5 DEF NewRow, ReplayRow
<1>13. ValidSnapshot(r)' <=>
         /\ \A q \in Siblings(r)' : [telemetry'[q] EXCEPT !.current = e.current] = e
         /\ NewRow(r)' => Siblings(r)' = {r}
         /\ e.after = Plus(e.before, Evidence(taken)')
         /\ e.post # << >> => \A q \in Rows' : telemetry'[q].post = e.post => telemetry'[q].level = e.level
  BY DEF ValidSnapshot, Evidence
<1>14. QED
  BY <1>6, <1>10, <1>11, <1>12, <1>13

(* It goes on from the last row of its level. *)
LEMMA ReplayChain ==
  ASSUME LevelBufferAssumption, NEW batch, NEW after, CleanCycle("replay", batch, after),
         NEW i \in 1..Parallel, NEW r, r = Len(telemetry) + i
  PROVE  ValidChain(r)'
<1> DEFINE e == telemetry'[r]
           t == batch[i].slot
           earlier == {q \in Rows : telemetry[q].level = telemetry[r].level /\ CycleOf(q) < CycleOf(r)}
<1>1. LevelInv /\ ClockInv /\ Cycle("replay", batch, after) /\ ChainKnown
  BY DEF CleanCycle, CleanInv
<1>2. ReplayRow(e, batch, i, t, after) /\ t \in Filled
  BY <1>1, ReplayRows
<1>3. r \in Rows' /\ r \notin Rows /\ Rows = 1..Len(telemetry)
  BY <1>1, RowNumbers
<1>4. /\ cycleClock.iters \in Nat
      /\ \A q \in Rows : /\ q \in Rows' /\ telemetry'[q] = telemetry[q]
                         /\ CycleOf(q)' = CycleOf(q) /\ CycleOf(q) \in Nat /\ CycleOf(q) < cycleClock.iters
      /\ \A q \in Rows' : q \notin Rows => CycleOf(q)' = cycleClock.iters
  BY <1>1, CyclesOfRows
<1>5. PICK m \in Rows : LastRow(m, t)
  BY <1>1, <1>2 DEF ChainKnown
<1>6. \A q : q \in earlier' <=> q \in Rows /\ telemetry[q].level = plrBuffer[t].level
  <2>1. \A q : q \in earlier' <=> q \in Rows' /\ telemetry'[q].level = plrBuffer[t].level /\ CycleOf(q)' < CycleOf(r)'
    BY <1>2 DEF ReplayRow
  <2>2. CycleOf(r)' = cycleClock.iters
    BY <1>3, <1>4
  <2>3. \A q \in Rows' : CycleOf(q)' < CycleOf(r)' <=> q \in Rows
    BY <1>4, <2>2
  <2>4. QED
    BY <1>4, <2>1, <2>3
<1>7. m \in earlier' /\ \A q \in earlier' : q <= m
  BY <1>5, <1>6 DEF LastRow
<1>8. Max(earlier') = m
  <2>1. earlier' \in SUBSET Int
    BY <1>3, <1>6
  <2> HIDE DEF earlier
  <2>2. QED
    BY <1>7, <2>1, MaxIs
<1>9. ValidChain(r)' <=>
        IF earlier' = {} THEN NewRow(r)' /\ e.before = <<0, 0>>
        ELSE /\ telemetry'[Max(earlier')].persisted /\ ~NewRow(r)'
             /\ e.pre = telemetry'[Max(earlier')].post /\ e.before = telemetry'[Max(earlier')].after
  BY DEF ValidChain
<1>10. ~NewRow(r)'
  BY <1>2 DEF NewRow, ReplayRow
<1> HIDE DEF earlier, e, t
<1>11. /\ telemetry'[m].persisted = TRUE /\ e.pre = telemetry'[m].post /\ e.before = telemetry'[m].after
  BY <1>2, <1>4, <1>5 DEF LastRow, ReplayRow
<1>12. QED
  BY <1>7, <1>8, <1>9, <1>10, <1>11

(* Its slot holds its level, before the cycle and after. *)
LEMMA ReplayLifecycle ==
  ASSUME LevelBufferAssumption, NEW batch, NEW after, CleanCycle("replay", batch, after),
         NEW i \in 1..Parallel, NEW r, r = Len(telemetry) + i
  PROVE  ValidLifecycle(r)'
<1> DEFINE e == telemetry'[r]
<1>1. /\ LevelInv /\ ClockInv /\ GenerationsCount /\ Cycle("replay", batch, after) /\ LevelTypeOK /\ LevelTypeOK'
      /\ PlacesKnown /\ OriginsKnown /\ NewRowsHaveNone
      /\ GenerationsCount' /\ PlacesKnown' /\ OriginsKnown' /\ NewRowsHaveNone'
      /\ plrBuffer' = after.buffer
  BY DEF CleanCycle, CleanInv, Cycle, LevelInv
<1>2. PICK t : t = batch[i].slot
  OBVIOUS
<1>3. ReplayRow(e, batch, i, t, after) /\ t \in Filled /\ t \in Slots
  BY <1>1, <1>2, ReplayRows DEF LevelTypeOK
<1>4. r \in Rows' /\ r \notin Rows /\ \A q \in Rows : q \in Rows' /\ telemetry'[q] = telemetry[q]
  BY <1>1, RowNumbers
<1>5. PICK k \in Nat :
      /\ cycleClock.iters = k
      /\ \A q \in Rows : CycleOf(q)' = CycleOf(q) /\ CycleOf(q) \in Nat /\ CycleOf(q) < k
      /\ \A q \in Rows' : q \notin Rows => CycleOf(q)' = k
  BY <1>1, CyclesOfRows
<1>6. AllInsertions /\ LastHolds /\ HoldersKnown'
  BY <1>1, InsertionsAreAll, LastOnesHold, HoldersAreKnown, PTL
<1>7. CycleOf(r)' = k /\ \A q \in Rows' : CycleOf(q)' <= k
  BY <1>4, <1>5
<1>8. /\ e.level = plrBuffer[t].level /\ e.post = <<t, plrBuffer[t].gen>> /\ e.persisted = TRUE
      /\ e.source = "replay" /\ e.post # << >> /\ e.post[1] = t /\ e.post[2] = plrBuffer[t].gen
  <2>1. e.post = <<t, plrBuffer[t].gen>>
    BY <1>3 DEF ReplayRow
  <2>2. e.post # << >> /\ e.post[1] = t /\ e.post[2] = plrBuffer[t].gen
    BY <2>1
  <2>3. QED
    BY <1>3, <2>1, <2>2 DEF ReplayRow
<1>9. HeldNow(r)'
  <2>1. t \in Filled' /\ plrBuffer'[t].gen = plrBuffer[t].gen
    BY <1>1, <1>3, ReplaysStay DEF OldEntry
  <2>2. QED
    BY <1>8, <2>1 DEF HeldNow
<1>10. HoldsSlot(r, 0..k)'
  BY <1>4, <1>6, <1>7, <1>9 DEF HoldersKnown
<1> DEFINE m == Max(CameInto(t))
<1>11. /\ CameInto(t) # {} /\ m \in Rows /\ telemetry[m].post = <<t, plrBuffer[t].gen>>
       /\ telemetry[m].level = plrBuffer[t].level
  <2>1. CameInto(t) # {} /\ m \in Rows /\ telemetry[m].post = <<t, plrBuffer[t].gen>>
    BY <1>3, <1>6 DEF LastHolds
  <2> HIDE DEF m
  <2>2. telemetry[m].level = plrBuffer[t].level
    BY <1>1, <1>3, <2>1 DEF PlacesKnown
  <2>3. QED
    BY <2>1, <2>2
<1>12. k - 1 \in Nat /\ \A q \in Rows : CycleOf(q) <= k - 1
  <2> HIDE DEF m
  <2>1. CycleOf(m) \in Nat /\ CycleOf(m) < k
    BY <1>5, <1>11
  <2>2. QED
    BY <1>5, <2>1
<1>13. Insertions(t, 0..(k - 1)) = CameInto(t)
  BY <1>6, <1>12 DEF AllInsertions
<1>14. Insertions(t, 0..(k - 1))' = CameInto(t)
  <2>1. cycleClock.iters \notin 0..(k - 1)
    BY <1>5
  <2>2. Insertions(t, 0..(k - 1))' = Insertions(t, 0..(k - 1))
    BY <1>1, <2>1, InsertionsStay
  <2>3. QED
    BY <1>13, <2>2
<1>15. HoldsSlot(r, 0..(k - 1))' <=>
         /\ e.post # << >> /\ Insertions(t, 0..(k - 1))' # {}
         /\ telemetry'[Max(Insertions(t, 0..(k - 1))')].post = e.post
         /\ telemetry'[Max(Insertions(t, 0..(k - 1))')].level = e.level
  BY <1>8 DEF HoldsSlot, Insertions
<1>16. HoldsSlot(r, 0..(k - 1))'
  <2> HIDE DEF e
  <2>1. telemetry'[m].post = e.post /\ telemetry'[m].level = e.level
    BY <1>4, <1>8, <1>11
  <2>2. QED
    BY <1>8, <1>11, <1>14, <1>15, <2>1
<1>17. ValidLifecycle(r)' <=>
         /\ NewRow(r)' /\ e.post # << >> =>
              e.post[2] = Cardinality({q \in Insertions(t, 0..k)' : q < r})
         /\ ~NewRow(r)' => HoldsSlot(r, 0..(k - 1))'
         /\ e.persisted <=> HoldsSlot(r, 0..k)'
  BY <1>7, <1>8 DEF ValidLifecycle, HoldsSlot, Insertions
<1>18. ~NewRow(r)'
  BY <1>8 DEF NewRow
<1>19. e.persisted = TRUE
  BY <1>8
<1> HIDE DEF e
<1>20. QED
  BY <1>10, <1>16, <1>17, <1>18, <1>19, Zenon

(* A replayed level's last row is its last one of the cycle. *)
LEMMA ReplayChains ==
  ASSUME LevelBufferAssumption, NEW batch, NEW after, CleanCycle("replay", batch, after)
  PROVE  ChainKnown'
<1> DEFINE n == Len(telemetry)
<1>1. /\ LevelInv /\ Cycle("replay", batch, after) /\ ChainKnown
      /\ BatchOK(batch) /\ plrBuffer' = after.buffer
  BY DEF CleanCycle, CleanInv, Cycle
<1>2. /\ n \in Nat /\ Parallel \in Nat
      /\ \A r \in Rows : r \in Rows' /\ r \in Nat /\ telemetry'[r] = telemetry[r]
      /\ \A i \in 1..Parallel : n + i \in Rows' /\ n + i \notin Rows /\ \A r \in Rows : r < n + i
      /\ \A r \in Rows' : r \in Rows \/ \E i \in 1..Parallel : r = n + i
  BY <1>1, RowNumbers
<1>3. \A i \in 1..Parallel : ReplayRow(telemetry'[n + i], batch, i, batch[i].slot, after) /\ batch[i].slot \in Filled
  BY <1>1, ReplayRows
<1>4. LevelsApart /\ Filled' = Filled /\ \A t \in Filled : OldEntry(after, batch, 1..Parallel, t)
  BY <1>1, ReplaysStay DEF LevelInv
<1>5. ASSUME NEW t \in Filled PROVE \E m \in Rows' : LastRow(m, t)'
  <2>1. plrBuffer'[t].level = plrBuffer[t].level /\ plrBuffer'[t].gen = plrBuffer[t].gen
    BY <1>1, <1>4 DEF OldEntry
  <2>2. PICK m \in Rows : LastRow(m, t)
    BY <1>1 DEF ChainKnown
  <2> DEFINE I == {i \in 1..Parallel : batch[i].slot = t}
  <2>3. ASSUME NEW q \in Rows', q \notin Rows, telemetry'[q].level = plrBuffer[t].level
        PROVE  \E i \in I : q = n + i
    <3>1. PICK i \in 1..Parallel : q = n + i
      BY <1>2, <2>3
    <3>2. telemetry'[q].level = plrBuffer[batch[i].slot].level /\ batch[i].slot \in Filled
      BY <1>3, <3>1 DEF ReplayRow
    <3>3. batch[i].slot = t
      BY <1>4, <2>3, <3>2 DEF LevelsApart
    <3>4. QED
      BY <3>1, <3>3
  <2>4. CASE I = {}
    <3>1. plrBuffer'[t].counts = plrBuffer[t].counts
      BY <1>1, <1>4, <2>4, CountsAdd
    <3>2. ASSUME NEW q \in Rows', telemetry'[q].level = plrBuffer[t].level PROVE q <= m
      <4>1. q \in Rows
        BY <2>3, <2>4, <3>2
      <4>2. QED
        BY <1>2, <2>2, <3>2, <4>1 DEF LastRow
    <3>3. telemetry'[m] = telemetry[m] /\ m \in Rows'
      BY <1>2
    <3>4. LastRow(m, t)'
      BY <2>1, <2>2, <3>1, <3>2, <3>3 DEF LastRow
    <3>5. QED
      BY <3>3, <3>4
  <2>5. CASE I # {}
    <3>1. PICK i \in I : \A j \in I : j <= i
      <4>1. IsFiniteSet(1..Parallel) /\ I \in SUBSET (1..Parallel) /\ I \in SUBSET Int
        <5>1. Parallel \in Int /\ 1..Parallel \subseteq Int
          BY <1>2
        <5>2. IsFiniteSet(1..Parallel)
          BY <5>1, FS_Interval
        <5>3. QED
          BY <5>1, <5>2
      <4>2. IsFiniteSet(I) /\ I \in SUBSET I
        BY <4>1, FS_Subset
      <4> HIDE DEF I
      <4>3. QED
        BY <2>5, <4>1, <4>2, GreatestMember
    <3>2. PICK o : o = n + i
      OBVIOUS
    <3>3. o \in Rows' /\ ReplayRow(telemetry'[o], batch, i, t, after)
      BY <1>2, <1>3, <3>1, <3>2
    <3>4. ASSUME NEW q \in Rows', telemetry'[q].level = plrBuffer[t].level PROVE q <= o
      <4>1. CASE q \in Rows
        <5>1. q < o /\ q \in Nat
          BY <1>2, <3>2, <4>1
        <5>2. i \in 1..Parallel
          OBVIOUS
        <5> HIDE DEF n
        <5>3. o \in Nat
          BY <1>2, <3>2, <5>2
        <5>4. QED
          BY <5>1, <5>3
      <4>2. CASE q \notin Rows
        <5>1. PICK j \in I : q = n + j
          BY <2>3, <3>4, <4>2
        <5>2. j <= i /\ j \in Nat /\ i \in Nat
          BY <3>1
        <5> HIDE DEF n, I
        <5>3. QED
          BY <1>2, <3>2, <5>1, <5>2
      <4>3. QED
        BY <4>1, <4>2
    <3>5. LastRow(o, t)'
      BY <1>1, <2>1, <3>3, <3>4 DEF LastRow, ReplayRow
    <3>6. QED
      BY <3>3, <3>5
  <2>6. QED
    BY <2>4, <2>5
<1>6. \A t \in Filled' : \E m \in Rows' : LastRow(m, t)'
  BY <1>4, <1>5
<1>7. QED
  BY <1>6 DEF ChainKnown

(* So a cycle of replays leaves a ledger the analyzer accepts, row by row. *)
LEMMA ReplayRowsValid ==
  ASSUME LevelBufferAssumption, NEW batch, NEW after, CleanCycle("replay", batch, after)
  PROVE  RowsValid' /\ ChainKnown'
<1>1. /\ LevelInv /\ ClockInv /\ Cycle("replay", batch, after) /\ PlacesKnown' /\ RowsValid
  BY DEF CleanCycle, CleanInv
<1>2. \A r \in Rows' : r \in Rows \/ \E i \in 1..Parallel : r = Len(telemetry) + i
  BY <1>1, RowNumbers
<1>3. \A r \in Rows : ValidRow(r)'
  BY <1>1, OldRowsStay DEF RowsValid
<1>4. ASSUME NEW r, NEW i \in 1..Parallel, r = Len(telemetry) + i PROVE ValidRow(r)'
  BY <1>4, ReplayEvent, ReplaySnapshot, ReplayChain, ReplayLifecycle DEF ValidRow
<1>5. \A r \in Rows' : ValidRow(r)'
  BY <1>2, <1>3, <1>4
<1>6. ChainKnown'
  BY ReplayChains
<1>7. QED
  BY <1>5, <1>6 DEF RowsValid

-----------------------------------------------------------------------------
(* Two finite sets that a function pairs off are of one size. *)
LEMMA SameSize ==
  ASSUME NEW S, IsFiniteSet(S), NEW T, NEW f \in [S -> T],
         \A x, y \in S : f[x] = f[y] => x = y, \A y \in T : \E x \in S : f[x] = y
  PROVE  IsFiniteSet(T) /\ Cardinality(T) = Cardinality(S)
<1>1. f \in Injection(S, T) /\ f \in Surjection(S, T)
  BY DEF Injection, IsInjective, Surjection
<1>2. QED
  BY <1>1, FS_Surjection

(* The size of a set of rows, and of more rows after them. *)
RowsAfter(C, n, k, A, I) ==
  /\ n \in Nat /\ k \in Nat /\ A \subseteq 1..n /\ I \subseteq 1..k
  /\ \A r : r \in C <=> r \in A \/ \E i \in I : r = n + i

(* There are as many of them as the two parts have. *)
LEMMA MoreRows ==
  ASSUME NEW n, NEW k, NEW A, NEW I, NEW C, RowsAfter(C, n, k, A, I)
  PROVE  /\ Cardinality(C) = Cardinality(A) + Cardinality(I)
         /\ Cardinality(A) \in Nat /\ Cardinality(I) \in Nat
<1> DEFINE B == {r \in Nat : \E i \in I : r = n + i}
           f == [i \in I |-> n + i]
<1>1. n \in Nat /\ k \in Nat /\ A \in SUBSET (1..n) /\ I \in SUBSET (1..k)
  BY DEF RowsAfter
<1>2. IsFiniteSet(1..n) /\ IsFiniteSet(1..k)
  BY <1>1, FS_Interval
<1>3. IsFiniteSet(A) /\ IsFiniteSet(I)
  BY <1>1, <1>2, FS_Subset
<1>4. \A i \in I : i \in Nat /\ n + i \in Nat /\ n + i \notin 1..n
  BY <1>1
<1>5. C = A \cup B
  BY <1>4 DEF RowsAfter
<1>6. A \cap B = {}
  BY <1>1, <1>4
<1>7. f \in [I -> B]
  BY <1>4
<1>8. \A i, j \in I : f[i] = f[j] => i = j
  <2>1. ASSUME NEW i \in I, NEW j \in I, n + i = n + j PROVE i = j
    BY <1>1, <1>4, <2>1
  <2>2. QED
    BY <2>1
<1>9. \A r \in B : \E i \in I : f[i] = r
  OBVIOUS
<1> HIDE DEF B, f
<1>10. IsFiniteSet(B) /\ Cardinality(B) = Cardinality(I)
  BY <1>3, <1>7, <1>8, <1>9, SameSize
<1>11. Cardinality(A) \in Nat /\ Cardinality(I) \in Nat
  BY <1>3, FS_CardinalityType
<1>12. Cardinality(A \cup B) = Cardinality(A) + Cardinality(B) - Cardinality(A \cap B)
  BY <1>3, <1>10, FS_Union
<1>13. Cardinality(A \cap B) = 0
  BY <1>6, FS_EmptySet
<1>14. QED
  BY <1>5, <1>10, <1>11, <1>12, <1>13

(* The positions of a sequence that repeat an earlier one: those that are   *)
(* not the first of their value.                                            *)
Repeating(g, k) == {i \in 1..k : \E j \in 1..k : j < i /\ g[j] = g[i]}
ValuesOf(g, k) == {g[i] : i \in 1..k}

(* There are as many of these as positions beyond the number of values. *)
LEMMA RepeatsCounted ==
  ASSUME NEW k \in Nat, NEW g
  PROVE  /\ Cardinality(Repeating(g, k)) = k - Cardinality(ValuesOf(g, k))
         /\ Cardinality(ValuesOf(g, k)) \in Nat
<1> DEFINE P == 1..k
           J == {i \in P : \E j \in P : j < i /\ g[j] = g[i]}
           F == P \ J
           V == {g[i] : i \in P}
           f == [i \in F |-> g[i]]
<1>1. IsFiniteSet(P) /\ Cardinality(P) = k /\ P \in SUBSET Nat
  BY FS_Interval
<1>2. J \in SUBSET P
  OBVIOUS
<1>3. ASSUME NEW i \in P PROVE \E j \in F : g[j] = g[i]
  <2> DEFINE S == {j \in P : g[j] = g[i]}
  <2>1. S \in SUBSET Nat /\ i \in S
    BY <1>1
  <2>2. PICK j \in S : \A m \in S : j <= m
    <3> HIDE DEF S
    <3>1. QED
      BY <2>1, LeastNat
  <2>3. j \notin J
    <3>1. ASSUME NEW m \in P, m < j, g[m] = g[j] PROVE FALSE
      <4>1. m \in S /\ j <= m /\ m \in Nat /\ j \in Nat
        BY <1>1, <2>2, <3>1
      <4>2. QED
        BY <3>1, <4>1
    <3>2. QED
      BY <3>1
  <2>4. QED
    BY <2>3
<1>4. ASSUME NEW i \in F, NEW j \in F, g[i] = g[j] PROVE i = j
  <2>1. i \in Nat /\ j \in Nat /\ ~(i < j) /\ ~(j < i)
    BY <1>1, <1>4
  <2> HIDE DEF F
  <2>2. QED
    BY <2>1
<1>5. f \in [F -> V] /\ (\A i, j \in F : f[i] = f[j] => i = j) /\ \A v \in V : \E i \in F : f[i] = v
  BY <1>3, <1>4
<1> HIDE DEF P, J, V, f
<1>6. IsFiniteSet(J) /\ IsFiniteSet(F)
  BY <1>1, <1>2, FS_Subset, FS_Difference
<1>7. Cardinality(F) = Cardinality(P) - Cardinality(P \cap J)
  BY <1>1, FS_Difference
<1>8. P \cap J = J
  BY <1>2
<1> HIDE DEF F
<1>9. IsFiniteSet(V) /\ Cardinality(V) = Cardinality(F)
  BY <1>5, <1>6, SameSize
<1>10. Cardinality(J) \in Nat /\ Cardinality(V) \in Nat
  BY <1>6, <1>9, FS_CardinalityType
<1>11. Cardinality(J) = k - Cardinality(V)
  BY <1>1, <1>7, <1>8, <1>9, <1>10
<1>12. QED
  BY <1>10, <1>11 DEF P, J, V, Repeating, ValuesOf

(* The least of a set of numbers. *)
LEMMA MinIs ==
  ASSUME NEW S \in SUBSET Nat, NEW m \in S
  PROVE  /\ Min(S) \in S /\ \A x \in S : Min(S) <= x
         /\ (\A x \in S : m <= x) => Min(S) = m
<1>1. \E x \in S : \A y \in S : x <= y
  BY LeastNat
<1>2. Min(S) \in S /\ \A y \in S : Min(S) <= y
  BY <1>1 DEF Min
<1>3. ASSUME \A x \in S : m <= x PROVE Min(S) = m
  <2>1. Min(S) <= m /\ m <= Min(S) /\ Min(S) \in Nat /\ m \in Nat
    BY <1>2, <1>3
  <2>2. QED
    BY <2>1
<1>4. QED
  BY <1>2, <1>3

-----------------------------------------------------------------------------
(* The rows the counters are about. *)
Incomplete == {r \in Rows : telemetry[r].current[2] # NEval}
Doubles == {r \in Rows : telemetry[r].disposition = "duplicate_new_rejected"}
Again == {r \in Rows : Min(Siblings(r)) # r}

(* The counters are numbers. *)
CountersTyped == plrCounters \in [incomplete : Int, duplicateNew : Int, drawnAgain : Int]

(* A cycle counts its incomplete groups, and they are its rows that are     *)
(* incomplete.                                                              *)
LEMMA IncompleteCounted ==
  ASSUME LevelBufferAssumption, LevelInv, ValidReceipt,
         NEW branch, NEW batch, NEW after, Cycle(branch, batch, after)
  PROVE  plrCounters'.incomplete = Cardinality(Incomplete')
<1> DEFINE n == Len(telemetry)
           I == {i \in DOMAIN batch : ~WholeGroup(batch[i])}
<1>1. /\ n \in Nat /\ Parallel \in Nat /\ Rows = 1..n
      /\ \A r \in Rows : r \in Rows' /\ telemetry'[r] = telemetry[r]
      /\ \A i \in 1..Parallel : n + i \in Rows'
      /\ \A r \in Rows' : r \in Rows \/ \E i \in 1..Parallel : r = n + i
  BY RowNumbers
<1>2. DOMAIN batch = 1..Parallel
  BY DEF Cycle, BatchOK
<1>3. \A i \in 1..Parallel : telemetry'[n + i].current = batch[i].outcome
  BY DEF Cycle, GroupRow
<1>4. \A r : r \in Incomplete' <=> r \in Rows' /\ telemetry'[r].current[2] # NEval
  BY DEF Incomplete
<1>5. Incomplete \in SUBSET (1..n) /\ I \in SUBSET (1..Parallel)
  BY <1>1, <1>2 DEF Incomplete
<1>6. RowsAfter(Incomplete', n, Parallel, Incomplete, I)
  <2>1. ASSUME NEW r \in Rows PROVE r \in Incomplete' <=> r \in Incomplete
    BY <1>1, <1>4 DEF Incomplete
  <2>2. ASSUME NEW r, r \in Incomplete', r \notin Rows PROVE \E i \in I : r = n + i
    <3>1. r \in Rows' /\ telemetry'[r].current[2] # NEval
      BY <1>4, <2>2
    <3>2. PICK i \in 1..Parallel : r = n + i
      BY <1>1, <2>2, <3>1
    <3>3. batch[i].outcome[2] # NEval
      BY <1>3, <3>1, <3>2
    <3>4. QED
      BY <1>2, <3>2, <3>3 DEF WholeGroup
  <2>3. ASSUME NEW r, NEW i \in I, r = n + i PROVE r \in Incomplete'
    BY <1>1, <1>2, <1>3, <1>4, <2>3 DEF WholeGroup
  <2>4. \A r \in Incomplete : r \in Rows
    BY DEF Incomplete
  <2> HIDE DEF n, I
  <2>5. ASSUME NEW r PROVE r \in Incomplete' <=> r \in Incomplete \/ \E i \in I : r = n + i
    BY <2>1, <2>2, <2>3, <2>4
  <2>6. QED
    BY <1>1, <1>5, <2>5 DEF RowsAfter
<1> HIDE DEF n, I
<1>7. Cardinality(Incomplete') = Cardinality(Incomplete) + Cardinality(I)
  BY <1>6, MoreRows
<1>8. plrCounters'.incomplete = plrCounters.incomplete + Cardinality(I)
  BY DEF Cycle, I
<1>9. plrCounters.incomplete = Cardinality(Incomplete)
  BY DEF ValidReceipt, Incomplete
<1>10. QED
  BY <1>7, <1>8, <1>9

(* A clean cycle rejects no group as a repeated one. *)
LEMMA DoublesStay ==
  ASSUME LevelBufferAssumption, LevelInv, ValidReceipt,
         NEW branch, NEW batch, NEW after, Cycle(branch, batch, after),
         \A i \in 1..Parallel : ~RepeatsNew(batch, i),
         \A i \in 1..Parallel : telemetry'[Len(telemetry) + i].disposition # "duplicate_new_rejected"
  PROVE  /\ plrCounters'.duplicateNew = plrCounters.duplicateNew /\ plrCounters.duplicateNew \in Nat
         /\ Doubles' = Doubles /\ plrCounters.duplicateNew = Cardinality(Doubles)
<1>1. /\ Len(telemetry) \in Nat /\ Rows = 1..Len(telemetry)
      /\ \A r \in Rows : r \in Rows' /\ telemetry'[r] = telemetry[r]
      /\ \A r \in Rows' : r \in Rows \/ \E i \in 1..Parallel : r = Len(telemetry) + i
  BY RowNumbers
<1>2. \A r : r \in Doubles' <=> r \in Rows' /\ telemetry'[r].disposition = "duplicate_new_rejected"
  BY DEF Doubles
<1>3. \A r : r \in Doubles <=> r \in Rows /\ telemetry[r].disposition = "duplicate_new_rejected"
  BY DEF Doubles
<1>4. \A r : r \in Doubles' <=> r \in Doubles
  <2>1. ASSUME NEW r \in Rows', r \notin Rows PROVE r \notin Doubles'
    <3>1. PICK i \in 1..Parallel : r = Len(telemetry) + i
      BY <1>1, <2>1
    <3>2. telemetry'[r].disposition # "duplicate_new_rejected"
      BY <3>1
    <3>3. QED
      BY <1>2, <3>2
  <2>2. \A r \in Rows : r \in Doubles' <=> r \in Doubles
    BY <1>1, <1>2, <1>3
  <2>3. QED
    BY <1>2, <1>3, <2>1, <2>2
<1>5. Doubles' = Doubles
  BY <1>4
<1>6. plrCounters.duplicateNew = Cardinality(Doubles)
  BY DEF ValidReceipt, Doubles
<1>7. Cardinality(Doubles) \in Nat
  <2>1. IsFiniteSet(Rows) /\ Doubles \in SUBSET Rows
    BY <1>1, <1>3, FS_Interval
  <2>2. QED
    BY <2>1, FS_Subset, FS_CardinalityType
<1>8. {i \in DOMAIN batch : RepeatsNew(batch, i)} = {}
  BY DEF Cycle, BatchOK
<1>9. plrCounters'.duplicateNew = plrCounters.duplicateNew + 0
  <2>1. plrCounters'.duplicateNew
          = plrCounters.duplicateNew + Cardinality({i \in DOMAIN batch : RepeatsNew(batch, i)})
    BY DEF Cycle
  <2>2. QED
    BY <1>8, <2>1, FS_EmptySet
<1>10. QED
  BY <1>5, <1>6, <1>7, <1>9

(* The least rows of the snapshots of the ledger stay what they are. *)
LEMMA OldAgain ==
  ASSUME LevelBufferAssumption, LevelInv, ClockInv,
         NEW branch, NEW batch, NEW after, Cycle(branch, batch, after)
  PROVE  \A r \in Rows : r \in Again' <=> r \in Again
<1>1. ASSUME NEW r \in Rows PROVE r \in Again' <=> r \in Again
  <2>1. r \in Rows' /\ Siblings(r)' = Siblings(r)
    BY RowNumbers, SiblingsStay
  <2>2. r \in Again' <=> r \in Rows' /\ Min(Siblings(r)') # r
    BY DEF Again
  <2>3. r \in Again <=> Min(Siblings(r)) # r
    BY DEF Again
  <2>4. QED
    BY <2>1, <2>2, <2>3
<1>2. QED
  BY <1>1

(* A cycle of new levels keeps the receipt true. *)
LEMMA FreshReceipt ==
  ASSUME LevelBufferAssumption, CountersTyped,
         NEW batch, NEW after, CleanCycle("new", batch, after), AllNew(batch)
  PROVE  ValidReceipt'
<1>1. /\ LevelInv /\ ClockInv /\ GenerationsCount /\ Cycle("new", batch, after) /\ ValidReceipt
  BY DEF CleanCycle, CleanInv
<1>2. \A i \in 1..Parallel : FreshRow(telemetry'[Len(telemetry) + i], batch, i, after)
  BY <1>1, FreshRows
<1>3. plrCounters'.incomplete = Cardinality(Incomplete')
  BY <1>1, IncompleteCounted
<1>4. /\ plrCounters'.duplicateNew = plrCounters.duplicateNew /\ plrCounters.duplicateNew \in Nat
      /\ Doubles' = Doubles /\ plrCounters.duplicateNew = Cardinality(Doubles)
  <2>1. \A i \in 1..Parallel : telemetry'[Len(telemetry) + i].disposition # "duplicate_new_rejected"
    BY <1>2 DEF FreshRow
  <2>2. \A i \in 1..Parallel : ~RepeatsNew(batch, i)
    BY DEF AllNew
  <2>3. QED
    BY <1>1, <2>1, <2>2, DoublesStay
<1>5. Again' = Again
  <2>1. /\ \A r \in Rows : r \in Rows'
        /\ \A r \in Rows' : r \in Nat /\ (r \in Rows \/ \E i \in 1..Parallel : r = Len(telemetry) + i)
    BY <1>1, RowNumbers
  <2>2. ASSUME NEW r \in Rows', r \notin Rows PROVE r \notin Again'
    <3>1. PICK i \in 1..Parallel : r = Len(telemetry) + i
      BY <2>1, <2>2
    <3>2. Siblings(r)' = {r}
      BY <3>1, FreshSnapshot
    <3>3. {r} \in SUBSET Nat /\ \A x \in {r} : r <= x
      BY <2>1
    <3>4. Min({r}) = r
      BY <3>3, MinIs
    <3>5. QED
      BY <3>2, <3>4 DEF Again
  <2>3. \A r \in Rows : r \in Again' <=> r \in Again
    BY <1>1, OldAgain
  <2>4. \A r : (r \in Again' => r \in Rows') /\ (r \in Again => r \in Rows)
    BY DEF Again
  <2>5. \A r : r \in Again' <=> r \in Again
    BY <2>1, <2>2, <2>3, <2>4
  <2>6. QED
    BY <2>5
<1>6. plrCounters'.drawnAgain = plrCounters.drawnAgain
  <2>1. plrCounters'.drawnAgain = plrCounters.drawnAgain + 0
    BY <1>1 DEF Cycle
  <2>2. QED
    BY <2>1 DEF CountersTyped
<1>7. plrCounters.duplicateNew + plrCounters.drawnAgain = Cardinality(Again)
  BY <1>1 DEF ValidReceipt, Again
<1>8. /\ plrCounters'.duplicateNew = Cardinality(Doubles')
      /\ plrCounters'.duplicateNew + plrCounters'.drawnAgain = Cardinality(Again')
  BY <1>4, <1>5, <1>6, <1>7
<1>9. QED
  BY <1>3, <1>8 DEF ValidReceipt, Incomplete, Doubles, Again

(* And so does a cycle of replays: a level drawn again has a row that is    *)
(* not the least of its snapshot.                                           *)
LEMMA ReplayReceipt ==
  ASSUME LevelBufferAssumption, CountersTyped,
         NEW batch, NEW after, CleanCycle("replay", batch, after)
  PROVE  ValidReceipt'
<1> DEFINE n == Len(telemetry)
           g == [i \in 1..Parallel |-> batch[i].slot]
           J == Repeating(g, Parallel)
           V == ValuesOf(g, Parallel)
<1>1. /\ LevelInv /\ ClockInv /\ Cycle("replay", batch, after) /\ ValidReceipt
      /\ BatchOK(batch) /\ \A i \in 1..Parallel : batch[i].slot # 0
  BY DEF CleanCycle, CleanInv, Cycle
<1>2. \A i \in 1..Parallel : ReplayRow(telemetry'[n + i], batch, i, batch[i].slot, after)
  BY <1>1, ReplayRows
<1>3. plrCounters'.incomplete = Cardinality(Incomplete')
  BY <1>1, IncompleteCounted
<1>4. /\ plrCounters'.duplicateNew = plrCounters.duplicateNew /\ plrCounters.duplicateNew \in Nat
      /\ Doubles' = Doubles /\ plrCounters.duplicateNew = Cardinality(Doubles)
  <2>1. \A i \in 1..Parallel : telemetry'[n + i].disposition # "duplicate_new_rejected"
    BY <1>2 DEF ReplayRow
  <2>2. \A i \in 1..Parallel : ~RepeatsNew(batch, i)
    BY <1>1 DEF RepeatsNew
  <2>3. QED
    BY <1>1, <2>1, <2>2, DoublesStay
<1>5. /\ n \in Nat /\ Parallel \in Nat /\ Rows = 1..n
      /\ \A r \in Rows : r \in Rows'
      /\ \A i \in 1..Parallel : n + i \in Rows' /\ n + i \notin Rows
      /\ \A r \in Rows' : r \in Nat /\ (r \in Rows \/ \E i \in 1..Parallel : r = n + i)
  BY <1>1, RowNumbers
<1>6. ASSUME NEW i \in 1..Parallel, NEW r, r = n + i PROVE r \in Again' <=> i \in J
  <2> DEFINE S == Siblings(r)'
  <2>1. \A q : q \in S <=> \E j \in 1..Parallel : q = n + j /\ g[j] = g[i]
    <3>1. \A q : q \in Siblings(r)' <=> \E j \in 1..Parallel : q = n + j /\ batch[j].slot = batch[i].slot
      BY <1>1, <1>6, ReplaySiblings
    <3>2. QED
      BY <3>1
  <2>2. r \in Again' <=> Min(S) # r
    BY <1>5, <1>6 DEF Again
  <2>3. r \in S
    BY <1>6, <2>1
  <2>4. S \in SUBSET Nat
    <3> HIDE DEF S, g
    <3>1. \A j \in 1..Parallel : n + j \in Nat
      BY <1>5
    <3>2. QED
      BY <2>1, <3>1
  <2> HIDE DEF S, g
  <2>5. Min(S) \in S /\ (\A x \in S : Min(S) <= x) /\ ((\A x \in S : r <= x) => Min(S) = r)
    BY <2>3, <2>4, MinIs
  <2>6. ASSUME i \in J PROVE Min(S) # r
    <3>1. PICK j \in 1..Parallel : j < i /\ g[j] = g[i]
      BY <2>6 DEF Repeating
    <3>2. n + j \in S
      BY <2>1, <3>1
    <3>3. Min(S) <= n + j /\ n + j < r
      BY <1>5, <1>6, <2>5, <3>1, <3>2
    <3>4. ~(r <= n + j)
      BY <1>5, <1>6, <3>3
    <3>5. QED
      BY <3>3, <3>4
  <2>7. ASSUME i \notin J PROVE Min(S) = r
    <3>1. ASSUME NEW x \in S PROVE r <= x
      <4>1. PICK j \in 1..Parallel : x = n + j /\ g[j] = g[i]
        BY <2>1, <3>1
      <4>2. ~(j < i)
        BY <2>7, <4>1 DEF Repeating
      <4>3. QED
        BY <1>5, <1>6, <4>1, <4>2
    <3>2. QED
      BY <2>5, <3>1
  <2>8. QED
    BY <2>2, <2>6, <2>7
<1>7. RowsAfter(Again', n, Parallel, Again, J)
  <2>1. \A r \in Rows : r \in Again' <=> r \in Again
    BY <1>1, OldAgain
  <2>2. \A r : (r \in Again' => r \in Rows') /\ (r \in Again => r \in Rows)
    BY DEF Again
  <2>3. \A i \in J : i \in 1..Parallel
    BY DEF Repeating
  <2> HIDE DEF J, g, n
  <2>4. \A r : r \in Again' <=> r \in Again \/ \E i \in J : r = n + i
    <3>1. ASSUME NEW r, r \in Again', r \notin Rows PROVE \E i \in J : r = n + i
      <4>1. PICK i \in 1..Parallel : r = n + i
        BY <1>5, <2>2, <3>1
      <4>2. QED
        BY <1>6, <3>1, <4>1
    <3>2. ASSUME NEW r, NEW i \in J, r = n + i PROVE r \in Again'
      BY <1>6, <2>3, <3>2
    <3>3. ASSUME NEW r PROVE r \in Again' <=> r \in Again \/ \E i \in J : r = n + i
      BY <2>1, <2>2, <3>1, <3>2
    <3>4. QED
      BY <3>3
  <2>5. QED
    BY <1>5, <2>2, <2>3, <2>4 DEF RowsAfter
<1>8. Cardinality(J) = Parallel - Cardinality(V) /\ Cardinality(V) \in Nat
  <2> HIDE DEF g
  <2>1. QED
    BY <1>5, RepeatsCounted
<1>9. plrCounters'.drawnAgain = plrCounters.drawnAgain + (Parallel - Cardinality(V))
  <2>1. DOMAIN batch = 1..Parallel
    BY <1>1 DEF BatchOK
  <2>2. {batch[i].slot : i \in DOMAIN batch} = V
    BY <2>1 DEF ValuesOf
  <2>3. plrCounters'.drawnAgain
          = plrCounters.drawnAgain + (Parallel - Cardinality({batch[i].slot : i \in DOMAIN batch}))
    BY <1>1 DEF Cycle
  <2>4. QED
    BY <2>2, <2>3
<1>10. plrCounters.duplicateNew + plrCounters.drawnAgain = Cardinality(Again)
  BY <1>1 DEF ValidReceipt, Again
<1> HIDE DEF n, J, V, g
<1>11. Cardinality(Again') = Cardinality(Again) + Cardinality(J)
  BY <1>7, MoreRows
<1>12. plrCounters.drawnAgain \in Int
  BY DEF CountersTyped
<1>13. plrCounters'.duplicateNew + plrCounters'.drawnAgain = Cardinality(Again')
  BY <1>4, <1>5, <1>8, <1>9, <1>10, <1>11, <1>12
<1>14. plrCounters'.duplicateNew = Cardinality(Doubles')
  BY <1>4
<1>15. QED
  BY <1>3, <1>13, <1>14 DEF ValidReceipt, Incomplete, Doubles, Again

-----------------------------------------------------------------------------
(* The counters stay numbers. *)
LEMMA CountersKept ==
  ASSUME LevelBufferAssumption, LevelInv, CountersTyped,
         NEW branch, NEW batch, NEW after, Cycle(branch, batch, after)
  PROVE  CountersTyped'
<1> DEFINE I == {i \in DOMAIN batch : ~WholeGroup(batch[i])}
           J == {i \in DOMAIN batch : RepeatsNew(batch, i)}
           g == [i \in 1..Parallel |-> batch[i].slot]
           V == {batch[i].slot : i \in DOMAIN batch}
<1>1. Parallel \in Nat /\ DOMAIN batch = 1..Parallel
  BY DEF Cycle, BatchOK, LevelBufferAssumption
<1>2. IsFiniteSet(1..Parallel) /\ I \in SUBSET (1..Parallel) /\ J \in SUBSET (1..Parallel)
  <2>1. IsFiniteSet(1..Parallel)
    BY <1>1, FS_Interval
  <2>2. QED
    BY <1>1, <2>1
<1>3. V = ValuesOf(g, Parallel)
  BY <1>1 DEF ValuesOf
<1>4. plrCounters' = [incomplete |-> plrCounters.incomplete + Cardinality(I),
                      duplicateNew |-> plrCounters.duplicateNew + Cardinality(J),
                      drawnAgain |-> plrCounters.drawnAgain
                                       + IF branch = "replay" THEN Parallel - Cardinality(V) ELSE 0]
  BY DEF Cycle
<1> HIDE DEF I, J, g, V
<1>5. Cardinality(I) \in Nat /\ Cardinality(J) \in Nat
  BY <1>2, FS_Subset, FS_CardinalityType
<1>6. Cardinality(V) \in Nat
  BY <1>1, <1>3, RepeatsCounted
<1>7. QED
  BY <1>1, <1>4, <1>5, <1>6 DEF CountersTyped

(* What every state of the replay satisfies. *)
LedgerInv ==
  /\ LevelInv /\ ClockInv /\ GenerationsCount /\ PlacesKnown /\ OriginsKnown /\ CountersTyped
  /\ CleanRun => CleanInv

(* It holds of the empty buffer and ledger. *)
LEMMA LedgerInvInit == ASSUME LevelBufferAssumption, LevelInit PROVE LedgerInv
<1>1. LevelInv
  BY LevelInvInit
<1>2. Filled = {} /\ Rows = {} /\ telemetry = << >>
  BY DEF LevelInit, Filled, Rows
<1>3. Cardinality({}) = 0
  BY FS_EmptySet
<1>4. ClockInv
  BY <1>2 DEF LevelInit, ClockInv, ValidClocks
<1>5. GenerationsCount
  <2>1. \A s : CameInto(s) = {}
    BY <1>2 DEF CameInto
  <2>2. \A s \in Slots : generation[s] = 0
    BY DEF LevelInit
  <2>3. QED
    BY <1>2, <1>3, <2>1, <2>2 DEF GenerationsCount
<1>6. PlacesKnown /\ OriginsKnown
  BY <1>2 DEF PlacesKnown, OriginsKnown
<1>7. CountersTyped
  BY DEF LevelInit, CountersTyped
<1>8. CleanInv
  <2>1. ChainKnown /\ NewRowsHaveNone /\ RowsValid
    BY <1>2 DEF ChainKnown, NewRowsHaveNone, RowsValid
  <2>2. Incomplete = {} /\ Doubles = {} /\ Again = {}
    BY <1>2 DEF Incomplete, Doubles, Again
  <2>3. ValidReceipt
    <3>1. plrCounters.incomplete = 0 /\ plrCounters.duplicateNew = 0 /\ plrCounters.drawnAgain = 0
      BY DEF LevelInit
    <3>2. Cardinality(Incomplete) = 0 /\ Cardinality(Doubles) = 0 /\ Cardinality(Again) = 0
      BY <1>3, <2>2
    <3>3. QED
      BY <3>1, <3>2 DEF ValidReceipt, Incomplete, Doubles, Again
  <2>4. QED
    BY <2>1, <2>3 DEF CleanInv
<1>9. QED
  BY <1>1, <1>4, <1>5, <1>6, <1>7, <1>8 DEF LedgerInv

(* Every cycle keeps it. *)
LEMMA LedgerInvCycle == ASSUME LevelBufferAssumption, LedgerInv, LevelNext PROVE LedgerInv'
<1>1. /\ LevelInv /\ ClockInv /\ GenerationsCount /\ PlacesKnown /\ OriginsKnown /\ CountersTyped
      /\ CleanRun => CleanInv
  BY DEF LedgerInv
<1>2. PICK branch : \E batch : \E after : Cycle(branch, batch, after)
  BY <1>1, CyclesAre DEF SomeCycle
<1>3. PICK batch : \E after : Cycle(branch, batch, after)
  BY <1>2
<1>4. PICK after : Cycle(branch, batch, after)
  BY <1>3
<1>5. LevelInv' /\ branch \in {"new", "replay"}
  BY <1>4 DEF Cycle
<1>6. ClockInv'
  BY <1>1, <1>4, ClocksKept
<1>7. GenerationsCount'
  BY <1>1, <1>4, GenerationsKept
<1>8. PlacesKnown'
  BY <1>1, <1>4, PlacesKept
<1>9. OriginsKnown'
  BY <1>1, <1>4, OriginsKept
<1>10. CountersTyped'
  BY <1>1, <1>4, CountersKept
<1>11. ASSUME CleanRun' PROVE CleanInv'
  <2>1. CleanInv
    BY <1>1, <1>4, <1>11, CleanBefore
  <2>2. NewRowsHaveNone'
    <3>1. NewRowsHaveNone
      BY <2>1 DEF CleanInv
    <3>2. QED
      BY <1>1, <1>4, <1>11, <3>1, NoneKept
  <2>3. CleanCycle(branch, batch, after)
    BY <1>1, <1>4, <1>6, <1>7, <1>8, <1>9, <1>11, <2>1, <2>2 DEF CleanCycle
  <2>4. RowsValid' /\ ChainKnown' /\ ValidReceipt'
    <3>1. CASE branch = "new"
      <4>1. CleanCycle("new", batch, after) /\ Cycle("new", batch, after)
        BY <1>4, <2>3, <3>1
      <4>2. AllNew(batch)
        BY <1>1, <1>11, <4>1, CleanCyclesAreNew
      <4>3. QED
        BY <1>1, <4>1, <4>2, FreshRowsValid, FreshReceipt
    <3>2. CASE branch = "replay"
      <4>1. CleanCycle("replay", batch, after)
        BY <2>3, <3>2
      <4>2. QED
        BY <1>1, <4>1, ReplayRowsValid, ReplayReceipt
    <3>3. QED
      BY <1>5, <3>1, <3>2
  <2>5. QED
    BY <2>2, <2>4 DEF CleanInv
<1>12. QED
  BY <1>5, <1>6, <1>7, <1>8, <1>9, <1>10, <1>11 DEF LedgerInv

(* The rows of a ledger that stays, and the sets of them. *)
LEMMA LedgerStays ==
  ASSUME UNCHANGED levelVars
  PROVE  /\ plrBuffer' = plrBuffer /\ generation' = generation /\ cycleClock' = cycleClock
         /\ plrCounters' = plrCounters /\ telemetry' = telemetry /\ Rows' = Rows /\ Filled' = Filled
         /\ \A r : (CycleOf(r)' = CycleOf(r)) /\ (NewRow(r)' <=> NewRow(r)) /\ (Siblings(r)' = Siblings(r))
         /\ \A s, c : Insertions(s, c)' = Insertions(s, c)
         /\ \A s : CameInto(s)' = CameInto(s)
         /\ \A r, c : HoldsSlot(r, c)' <=> HoldsSlot(r, c)
<1>1. /\ plrBuffer' = plrBuffer /\ generation' = generation /\ cycleClock' = cycleClock
      /\ plrCounters' = plrCounters /\ telemetry' = telemetry
  BY DEF levelVars
<1>2. Rows' = Rows /\ Filled' = Filled
  BY <1>1 DEF Rows, Filled
<1>3. ASSUME NEW r PROVE (CycleOf(r)' = CycleOf(r)) /\ (NewRow(r)' <=> NewRow(r))
  BY <1>1 DEF CycleOf, NewRow
<1>4. ASSUME NEW r PROVE Siblings(r)' = Siblings(r)
  BY <1>1, <1>2, <1>3 DEF Siblings
<1>5. ASSUME NEW s, NEW c PROVE Insertions(s, c)' = Insertions(s, c)
  BY <1>1, <1>2, <1>3 DEF Insertions
<1>6. ASSUME NEW s PROVE CameInto(s)' = CameInto(s)
  BY <1>1, <1>2 DEF CameInto
<1>7. ASSUME NEW r, NEW c PROVE HoldsSlot(r, c)' <=> HoldsSlot(r, c)
  <2> DEFINE s == telemetry[r].post[1]
  <2>1. Insertions(s, c)' = Insertions(s, c) /\ s' = s
    BY <1>1, <1>5
  <2>2. HoldsSlot(r, c) <=> /\ telemetry[r].post # << >> /\ Insertions(s, c) # {}
                            /\ telemetry[Max(Insertions(s, c))].post = telemetry[r].post
                            /\ telemetry[Max(Insertions(s, c))].level = telemetry[r].level
    BY DEF HoldsSlot
  <2>3. HoldsSlot(r, c)' <=>
           /\ telemetry'[r].post # << >> /\ Insertions(s, c)' # {}
           /\ telemetry'[Max(Insertions(s, c)')].post = telemetry'[r].post
           /\ telemetry'[Max(Insertions(s, c)')].level = telemetry'[r].level
    BY DEF HoldsSlot
  <2>4. QED
    BY <1>1, <2>1, <2>2, <2>3
<1>8. QED
  BY <1>1, <1>2, <1>3, <1>4, <1>5, <1>6, <1>7

(* What the analyzer makes of a ledger that stays. *)
LEMMA VerdictsStay ==
  ASSUME UNCHANGED levelVars
  PROVE  /\ RowsValid => RowsValid'
         /\ ValidReceipt => ValidReceipt'
<1>1. /\ plrBuffer' = plrBuffer /\ plrCounters' = plrCounters /\ telemetry' = telemetry /\ Rows' = Rows
      /\ \A r : (CycleOf(r)' = CycleOf(r)) /\ (NewRow(r)' <=> NewRow(r)) /\ (Siblings(r)' = Siblings(r))
      /\ \A s, c : Insertions(s, c)' = Insertions(s, c)
      /\ \A r, c : HoldsSlot(r, c)' <=> HoldsSlot(r, c)
  BY LedgerStays
<1>2. ASSUME NEW r, ValidEvent(r) PROVE ValidEvent(r)'
  BY <1>1, <1>2 DEF ValidEvent
<1>3. ASSUME NEW r, ValidSnapshot(r) PROVE ValidSnapshot(r)'
  <2> DEFINE taken == {q \in Siblings(r) : TookEvidence(q)}
  <2>1. taken' = taken
    BY <1>1 DEF TookEvidence
  <2>2. Evidence(taken)' = Evidence(taken)
    BY <1>1, <2>1 DEF Evidence
  <2>3. QED
    BY <1>1, <1>3, <2>2 DEF ValidSnapshot
<1>4. ASSUME NEW r, ValidChain(r) PROVE ValidChain(r)'
  <2> DEFINE earlier == {q \in Rows : telemetry[q].level = telemetry[r].level /\ CycleOf(q) < CycleOf(r)}
  <2>1. earlier' = earlier
    BY <1>1
  <2>2. telemetry'[Max(earlier')] = telemetry[Max(earlier)]
    BY <1>1, <2>1
  <2>3. QED
    BY <1>1, <1>4, <2>1, <2>2 DEF ValidChain
<1>5. ASSUME NEW r, ValidLifecycle(r) PROVE ValidLifecycle(r)'
  <2> DEFINE before == {q \in Insertions(telemetry[r].post[1], 0..CycleOf(r)) : q < r}
  <2>1. before' = before
    BY <1>1
  <2>2. QED
    BY <1>1, <1>5, <2>1 DEF ValidLifecycle
<1>6. RowsValid => RowsValid'
  BY <1>1, <1>2, <1>3, <1>4, <1>5 DEF RowsValid, ValidRow
<1>7. ValidReceipt => ValidReceipt'
  <2>1. Incomplete' = Incomplete /\ Doubles' = Doubles /\ Again' = Again
    <3>1. \A r : /\ r \in Incomplete' <=> r \in Incomplete
                 /\ r \in Doubles' <=> r \in Doubles
      BY <1>1 DEF Incomplete, Doubles
    <3>2. \A r : r \in Again' <=> r \in Again
      BY <1>1 DEF Again
    <3>3. QED
      BY <3>1, <3>2
  <2>2. QED
    BY <1>1, <2>1 DEF ValidReceipt, Incomplete, Doubles, Again
<1>8. QED
  BY <1>6, <1>7

(* A step that changes nothing keeps the invariant. *)
LEMMA LedgerInvStutters == ASSUME LevelBufferAssumption, LedgerInv, UNCHANGED levelVars PROVE LedgerInv'
<1>1. /\ plrBuffer' = plrBuffer /\ generation' = generation /\ cycleClock' = cycleClock
      /\ plrCounters' = plrCounters /\ telemetry' = telemetry /\ Rows' = Rows /\ Filled' = Filled
      /\ \A r : (CycleOf(r)' = CycleOf(r)) /\ (NewRow(r)' <=> NewRow(r)) /\ (Siblings(r)' = Siblings(r))
      /\ \A s : CameInto(s)' = CameInto(s)
  BY LedgerStays
<1>2. LevelInv'
  BY LevelInvStep DEF LedgerInv
<1>3. ClockInv'
  BY <1>1 DEF LedgerInv, ClockInv, ValidClocks
<1>4. GenerationsCount'
  <2>1. \A r, s : {q \in CameInto(s) : q < r}' = {q \in CameInto(s) : q < r}
    BY <1>1
  <2>2. QED
    BY <1>1, <2>1 DEF LedgerInv, GenerationsCount
<1>5. PlacesKnown' /\ OriginsKnown' /\ CountersTyped'
  BY <1>1 DEF LedgerInv, PlacesKnown, OriginsKnown, CountersTyped
<1>6. CleanRun' => CleanRun
  BY <1>1 DEF CleanRun
<1>7. CleanInv => CleanInv'
  <2>1. ChainKnown => ChainKnown'
    BY <1>1 DEF ChainKnown, LastRow
  <2>2. NewRowsHaveNone => NewRowsHaveNone'
    BY <1>1 DEF NewRowsHaveNone
  <2>3. QED
    BY <2>1, <2>2, VerdictsStay DEF CleanInv
<1>8. QED
  BY <1>2, <1>3, <1>4, <1>5, <1>6, <1>7 DEF LedgerInv

(***************************************************************************)
(* The analyzer accepts the ledger of every clean run: whatever levels its *)
(* cycles bring and draw again, whatever their groups' outcomes, and       *)
(* whatever slots the upstream manager gives up to new levels.             *)
(***************************************************************************)
THEOREM CleanRunValidatesHolds == LevelSpec => []CleanRunValidates
<1>1. LevelInit => LedgerInv
  BY LevelBufferAssumption, LedgerInvInit
<1>2. LedgerInv /\ [LevelNext]_levelVars => LedgerInv'
  BY LevelBufferAssumption, LedgerInvCycle, LedgerInvStutters
<1>3. LedgerInv => CleanRunValidates
  BY DEF LedgerInv, CleanRunValidates, CleanInv, ClockInv, ValidEvents, RowsValid, ValidRow
<1>4. QED
  BY <1>1, <1>2, <1>3, PTL DEF LevelSpec

===============================================================================
