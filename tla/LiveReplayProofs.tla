--------------------------- MODULE LiveReplayProofs ---------------------------
(***************************************************************************)
(* Proofs about LiveReplay, for every schedule, data order, reservoir,     *)
(* tolerance, buffer and number of steps.                                  *)
(***************************************************************************)
EXTENDS LiveReplay, DataTheorems

Books     == [targetAux : Nat, aux : Nat, targetOpt : Nat, opt : Nat]
Doses     == [targetAux : Nat, aux : Nat, targetOpt : Nat, opt : Nat, own : Nat]
Responses == [index : Nat, born : Nat, tokens : Tokens, informative : BOOLEAN]

(* A row of the schedule, and a batch. *)
ScheduleRow(r) ==
  /\ IsFiniteSet(DOMAIN r.tokens) /\ r.accepted \subseteq DOMAIN r.tokens
  /\ \A i \in DOMAIN r.tokens : r.tokens[i] \in Nat
  /\ r.stated \in BOOLEAN
  /\ r.stated = FALSE => r.accepted = {}

Batch(b) ==
  /\ DOMAIN b \subseteq Nat /\ IsFiniteSet(DOMAIN b)
  /\ b \in [DOMAIN b -> Responses]

ReplayTypes ==
  /\ mode \in {"live", "buffered", "reservoir"}
  /\ stage \in {"generate", "replay", "update", "done", "stopped", "valid", "rejected"}
  /\ now \in Nat
  /\ ledger \in Books /\ forecast \in Books /\ trained \in Doses
  /\ buffer \in Seq(Responses)
  /\ ScheduleRow(row)
  /\ Batch(produced) /\ Batch(rows) /\ DOMAIN rows = DOMAIN produced
  /\ parity \in BOOLEAN

-------------------------------------------------------------------------------
(* A row and a batch have token sums, and no tokens are the empty batch.   *)
LEMMA PlannedIsNat ==
  ASSUME NEW r, ScheduleRow(r), NEW S \in SUBSET DOMAIN r.tokens
  PROVE  Planned(r, S) \in Nat
<1> DEFINE t == r.tokens
           U == DOMAIN t
<1>1. IsFiniteSet(U) /\ (\A i \in U : t[i] \in Nat) /\ S \in SUBSET U
  BY DEF ScheduleRow
<1>2. Planned(r, S) = SumFunctionOnSet(t, S)
  BY DEF Planned
<1> HIDE DEF t, U
<1>3. QED
  BY <1>1, <1>2, SumNat

(* The tokens of finitely many groups are a number. *)
LEMMA TotalIsNat ==
  ASSUME NEW b, NEW S, IsFiniteSet(S), \A i \in S : b[i].tokens \in Nat
  PROVE  Total(b, S) \in Nat
<1> DEFINE t == [i \in S |-> b[i].tokens]
<1>1. (\A i \in S : t[i] \in Nat) /\ S \in SUBSET S
  OBVIOUS
<1>2. Total(b, S) = SumFunctionOnSet(t, S)
  BY DEF Total
<1> HIDE DEF t
<1>3. QED
  BY <1>1, <1>2, SumNat

(* Every part of a batch has a total. *)
LEMMA BatchTotals ==
  ASSUME ReplayAssumption, NEW b, Batch(b), NEW S \in SUBSET DOMAIN b
  PROVE  IsFiniteSet(S) /\ Total(b, S) \in Nat
<1>1. IsFiniteSet(S)
  BY FS_Subset DEF Batch
<1>2. \A i \in S : b[i].tokens \in Nat
  BY DEF Batch, Responses, ReplayAssumption
<1>3. QED
  BY <1>1, <1>2, TotalIsNat

(* No batch and no schedule row is one of each. *)
LEMMA NothingIsABatch == Batch(<<>>) /\ ScheduleRow(NoRow) /\ DOMAIN <<>> = {}
<1>1. IsFiniteSet({}) /\ DOMAIN <<>> = {}
  BY FS_EmptySet
<1>2. QED
  BY <1>1 DEF Batch, ScheduleRow, NoRow


(* What the buffer keeps: informative responses as they were generated,    *)
(* the oldest first, and none outside the arm that has a buffer.           *)
OldestFirst(q) ==
  \A j, k \in DOMAIN q :
    j < k => q[j].born < q[k].born \/ (q[j].born = q[k].born /\ q[j].index < q[k].index)

Stored(q) ==
  /\ Len(q) <= Capacity
  /\ \A k \in DOMAIN q : q[k].informative = TRUE /\ q[k].born \in 1..now
  /\ OldestFirst(q)
  /\ mode # "buffered" => Len(q) = 0

Named ==
  /\ \A i \in DOMAIN produced : produced[i].index = i /\ produced[i].born = now
  /\ stage = "replay" => /\ rows = produced /\ now # 0
                         /\ \A k \in DOMAIN buffer : buffer[k].born < now

Written ==
  stage = "update" =>
    /\ row.accepted \subseteq DOMAIN rows
    /\ \A i \in DOMAIN rows \ row.accepted : rows[i] = produced[i]
    /\ \A i \in row.accepted :
         /\ rows[i] # produced[i] /\ rows[i].informative = TRUE
         /\ mode = "live" => rows[i] \in Range(produced)
         /\ mode = "buffered" => rows[i].born \in (now - MaxAge)..now
         /\ mode = "reservoir" => rows[i] \in Reservoir /\ rows[i].index # i

BatchInv == Stored(buffer) /\ Named /\ Written

(* The entries of s at the positions in S, in the order of s. *)
Picked(s, S, T) ==
  /\ Cardinality(S) \in Nat
  /\ Entries(s, S) \in [1..Cardinality(S) -> T]
  /\ \A k \in 1..Cardinality(S) :
       Ascending(S)[k] \in S /\ Entries(s, S)[k] = s[Ascending(S)[k]]
  /\ \A j, k \in 1..Cardinality(S) : j < k => Ascending(S)[j] < Ascending(S)[k]

(* Entries picks them. *)
LEMMA EntriesArePicked ==
  ASSUME NEW S, S \subseteq Int, IsFiniteSet(S), NEW s, NEW T, \A k \in S : s[k] \in T
  PROVE  Picked(s, S, T)
<1>1. S \in SUBSET Int
  OBVIOUS
<1>2. QED
  BY <1>1, EntriesInOrder DEF Picked

(* One sequence behind another. *)
Joined(s, p, q, T) ==
  /\ s \in Seq(T) /\ Len(s) = Len(p) + Len(q)
  /\ \A k \in 1..Len(s) : s[k] = IF k <= Len(p) THEN p[k] ELSE q[k - Len(p)]

(* Concatenation joins two sequences. *)
LEMMA ConcatenationJoins ==
  ASSUME NEW T, NEW p \in Seq(T), NEW q \in Seq(T)
  PROVE  Joined(p \o q, p, q, T)
BY ConcatProperties DEF Joined

(* The entries of the buffer that are young enough. *)
LEMMA RecentAreKept ==
  ASSUME ReplayAssumption, ReplayTypes, Stored(buffer)
  PROVE  /\ Recent \in Seq(Responses) /\ Len(Recent) <= Len(buffer)
         /\ OldestFirst(Recent)
         /\ \A k \in DOMAIN Recent :
              /\ \E j \in DOMAIN buffer : Recent[k] = buffer[j]
              /\ now - Recent[k].born <= MaxAge
<1> DEFINE S == {k \in DOMAIN buffer : now - buffer[k].born <= MaxAge}
           a == Ascending(S)
           n == Cardinality(S)
<1>1. DOMAIN buffer = 1..Len(buffer) /\ Len(buffer) \in Nat
  BY DEF ReplayTypes
<1>2. IsFiniteSet(1..Len(buffer)) /\ Cardinality(1..Len(buffer)) = Len(buffer)
  <2>1. QED
    <3> DEFINE l == Len(buffer)
    <3>1. 1 \in Int /\ l \in Int /\ l \in Nat
      BY <1>1
    <3> HIDE DEF l
    <3>2. IsFiniteSet(1..l) /\ Cardinality(1..l) = IF 1 > l THEN 0 ELSE l - 1 + 1
      BY <3>1, FS_Interval
    <3>3. IsFiniteSet(1..l) /\ Cardinality(1..l) = l
      BY <3>1, <3>2
    <3>4. QED
      BY <3>3 DEF l
<1>3. S \in SUBSET Int /\ IsFiniteSet(S) /\ Cardinality(S) <= Len(buffer)
  <2>1. S \in SUBSET (1..Len(buffer))
    BY <1>1
  <2>2. IsFiniteSet(S) /\ Cardinality(S) <= Len(buffer)
    BY <1>2, <2>1, FS_Subset
  <2>3. QED
    BY <2>1, <2>2
<1>4. \A k \in S : k \in DOMAIN buffer /\ buffer[k] \in Responses /\ now - buffer[k].born <= MaxAge
  BY <1>1 DEF ReplayTypes
<1>5. Recent = Entries(buffer, S)
  BY DEF Recent
<1> HIDE DEF S
<1>6. /\ n \in Nat /\ Recent \in [1..n -> Responses]
      /\ \A k \in 1..n : a[k] \in S /\ Recent[k] = buffer[a[k]]
      /\ \A j, k \in 1..n : j < k => a[j] < a[k]
  <2>1. \A k \in S : buffer[k] \in Responses
    BY <1>4
  <2>2. /\ n \in Nat /\ Entries(buffer, S) \in [1..n -> Responses]
        /\ \A k \in 1..n : a[k] \in S /\ Entries(buffer, S)[k] = buffer[a[k]]
        /\ \A j, k \in 1..n : j < k => a[j] < a[k]
    <3>1. S \subseteq Int /\ IsFiniteSet(S)
      BY <1>3
    <3> HIDE DEF a, n
    <3>2. Picked(buffer, S, Responses)
      BY <2>1, <3>1, EntriesArePicked
    <3>3. QED
      BY <3>2 DEF Picked, a, n
  <2>3. QED
    BY <1>5, <2>2, Zenon
<1> HIDE DEF a, n
<1>7. Recent \in Seq(Responses) /\ Len(Recent) = n /\ DOMAIN Recent = 1..n
  BY <1>6, FunctionIsSequence
<1>8. ASSUME NEW j \in 1..n, NEW k \in 1..n, j < k
      PROVE  \/ Recent[j].born < Recent[k].born
             \/ Recent[j].born = Recent[k].born /\ Recent[j].index < Recent[k].index
  <2>1. a[j] \in DOMAIN buffer /\ a[k] \in DOMAIN buffer /\ a[j] < a[k]
    BY <1>4, <1>6, <1>8
  <2>2. \/ buffer[a[j]].born < buffer[a[k]].born
        \/ buffer[a[j]].born = buffer[a[k]].born /\ buffer[a[j]].index < buffer[a[k]].index
    BY <2>1 DEF Stored, OldestFirst
  <2>3. QED
    BY <1>6, <2>2
<1>9. OldestFirst(Recent)
  BY <1>7, <1>8 DEF OldestFirst
<1>10. QED
  BY <1>3, <1>4, <1>6, <1>7, <1>9 DEF n

(* The sources of a copy are informative responses. *)
LEMMA SourcesAreInformative ==
  ASSUME ReplayAssumption, ReplayTypes, Stored(buffer), Named, stage = "replay",
         NEW g \in Sources
  PROVE  /\ g \in Responses /\ g.informative = TRUE
         /\ mode = "live" => g \in Range(produced)
         /\ mode = "buffered" => g.born \in (now - MaxAge)..now
         /\ mode = "reservoir" => g \in Reservoir /\ g.born = 0
<1>1. CASE mode = "reservoir"
  <2>1. g \in Reservoir
    BY <1>1 DEF Sources
  <2>2. g \in [index : Nat, born : {0}, tokens : Tokens, informative : {TRUE}]
    BY <2>1 DEF ReplayAssumption
  <2>3. g \in Responses /\ g.informative = TRUE /\ g.born = 0
    <3>1. PICK i \in Nat, b \in {0}, t \in Tokens, h \in {TRUE} :
            g = [index |-> i, born |-> b, tokens |-> t, informative |-> h]
      BY <2>2
    <3>2. b \in Nat /\ h \in BOOLEAN
      OBVIOUS
    <3>3. g \in Responses
      BY <3>1, <3>2 DEF Responses
    <3>4. QED
      BY <3>1, <3>3
  <2>4. QED
    BY <1>1, <2>1, <2>3
<1>2. CASE g \in Live /\ mode # "reservoir"
  <2>1. PICK i \in DOMAIN rows : g = rows[i] /\ rows[i].informative
    BY <1>2 DEF Live, Range
  <2>2. g \in Responses /\ g.informative = TRUE /\ g \in Range(produced) /\ g.born = now
    BY <2>1 DEF ReplayTypes, Batch, Responses, Named, Range
  <2>3. now \in (now - MaxAge)..now
    BY DEF ReplayTypes, ReplayAssumption
  <2>4. QED
    BY <1>2, <2>2, <2>3
<1>3. CASE g \in Range(Recent) /\ mode # "reservoir"
  <2>1. PICK k \in DOMAIN Recent : g = Recent[k]
    BY <1>3 DEF Range
  <2>2. /\ Recent \in Seq(Responses) /\ Len(Recent) <= Len(buffer)
        /\ (\E j \in DOMAIN buffer : g = buffer[j]) /\ now - g.born <= MaxAge
    BY <2>1, RecentAreKept
  <2>3. g \in Responses /\ g.informative = TRUE /\ g.born \in 1..now
    <3>1. PICK j \in DOMAIN buffer : g = buffer[j]
      BY <2>2
    <3>2. buffer[j].informative = TRUE /\ buffer[j].born \in 1..now
      BY DEF Stored
    <3>3. buffer[j] \in Responses
      BY DEF ReplayTypes
    <3>4. QED
      BY <3>1, <3>2, <3>3, Zenon
  <2>4. g.born \in (now - MaxAge)..now
    <3>1. now \in Nat /\ g.born \in Nat /\ MaxAge \in Nat
      BY <2>3 DEF ReplayTypes, ReplayAssumption, Responses
    <3>2. QED
      BY <2>2, <2>3, <3>1
  <2>5. mode = "buffered"
    <3>1. Len(buffer) \in Nat /\ Len(buffer) # 0
      BY <2>2 DEF ReplayTypes
    <3>2. QED
      BY <1>3, <3>1 DEF Stored, ReplayTypes
  <2>6. QED
    BY <2>3, <2>4, <2>5
<1>4. QED
  BY <1>1, <1>2, <1>3 DEF Sources

(* The buffer a step leaves is stored as the one it found. *)
LEMMA RebufferedIsStored ==
  ASSUME ReplayAssumption, ReplayTypes, Stored(buffer), Named, stage = "replay"
  PROVE  Rebuffered \in Seq(Responses) /\ Stored(Rebuffered)
<1> DEFINE S == {i \in DOMAIN rows : rows[i].informative}
           a == Ascending(S)
           n == Cardinality(S)
           added == Entries(rows, S)
           all == Recent \o added
           m == Max({1, Len(all) - Capacity + 1})
<1>0. /\ Recent \in Seq(Responses) /\ Len(Recent) \in Nat /\ Len(buffer) \in Nat
      /\ Len(Recent) <= Len(buffer) /\ OldestFirst(Recent)
      /\ DOMAIN Recent = 1..Len(Recent)
      /\ \A k \in DOMAIN Recent : /\ Recent[k].informative = TRUE
                                  /\ Recent[k].born \in 1..now /\ Recent[k].born < now
  <2>1. /\ Recent \in Seq(Responses) /\ Len(Recent) <= Len(buffer) /\ OldestFirst(Recent)
        /\ \A k \in DOMAIN Recent : \E j \in DOMAIN buffer : Recent[k] = buffer[j]
    BY RecentAreKept
  <2>2. buffer \in Seq(Responses)
    BY DEF ReplayTypes
  <2>3. Len(Recent) \in Nat /\ Len(buffer) \in Nat /\ DOMAIN Recent = 1..Len(Recent)
    BY <2>1, <2>2
  <2>4. \A j \in DOMAIN buffer :
          buffer[j].informative = TRUE /\ buffer[j].born \in 1..now /\ buffer[j].born < now
    BY DEF Stored, Named
  <2>5. ASSUME NEW k \in DOMAIN Recent
        PROVE  Recent[k].informative = TRUE /\ Recent[k].born \in 1..now /\ Recent[k].born < now
    <3>1. PICK j \in DOMAIN buffer : Recent[k] = buffer[j]
      BY <2>1
    <3>2. QED
      BY <2>4, <3>1, Zenon
  <2>6. QED
    BY <2>1, <2>3, <2>5
<1>1. CASE mode # "buffered"
  <2>1. Rebuffered = Recent
    BY <1>1 DEF Rebuffered
  <2>2. Len(Recent) = 0
    BY <1>0, <1>1 DEF Stored
  <2>3. 0 <= Capacity
    BY DEF ReplayAssumption
  <2>4. QED
    BY <1>0, <1>1, <2>1, <2>2, <2>3 DEF Stored
<1>2. CASE mode = "buffered"
  <2>1. S \in SUBSET Int /\ IsFiniteSet(S)
    <3>1. S \in SUBSET DOMAIN rows /\ DOMAIN rows \subseteq Nat /\ IsFiniteSet(DOMAIN rows)
      BY DEF ReplayTypes, Batch
    <3>2. IsFiniteSet(S)
      BY <3>1, FS_Subset
    <3>3. QED
      BY <3>1, <3>2
  <2>2. \A i \in S : /\ rows[i] \in Responses /\ rows[i].informative = TRUE
                     /\ rows[i].index = i /\ rows[i].born = now
    BY DEF ReplayTypes, Batch, Responses, Named
  <2> HIDE DEF S
  <2>3. /\ n \in Nat /\ added \in [1..n -> Responses]
        /\ \A k \in 1..n : a[k] \in S /\ added[k] = rows[a[k]]
        /\ \A j, k \in 1..n : j < k => a[j] < a[k]
    <3>1. S \subseteq Int /\ IsFiniteSet(S) /\ \A i \in S : rows[i] \in Responses
      BY <2>1, <2>2
    <3> HIDE DEF a, n, added, all, m
    <3>2. Picked(rows, S, Responses)
      BY <3>1, EntriesArePicked
    <3>3. QED
      BY <3>2 DEF Picked, a, n, added
  <2> HIDE DEF a, n, added
  <2>4. added \in Seq(Responses) /\ Len(added) = n /\ DOMAIN added = 1..n
    BY <2>3, FunctionIsSequence
  <2>5. \A k \in 1..n : added[k].informative = TRUE /\ added[k].born = now /\ added[k].index = a[k]
    BY <2>2, <2>3
  <2>6. /\ all \in Seq(Responses) /\ Len(all) = Len(Recent) + n
        /\ \A k \in 1..Len(all) : all[k] = IF k <= Len(Recent) THEN Recent[k] ELSE added[k - Len(Recent)]
    <3>1. Recent \in Seq(Responses) /\ added \in Seq(Responses)
      BY <1>0, <2>4
    <3> HIDE DEF m
    <3>2. Joined(all, Recent, added, Responses)
      BY <3>1, ConcatenationJoins
    <3> HIDE DEF all
    <3>3. QED
      BY <2>4, <3>2 DEF Joined
  <2> HIDE DEF all
  <2>7. now \in Nat /\ now # 0 /\ Capacity \in Nat /\ Capacity # 0
    BY DEF ReplayTypes, Named, ReplayAssumption
  <2>8. ASSUME NEW k \in 1..Len(all) PROVE all[k].informative = TRUE /\ all[k].born \in 1..now
    <3>1. CASE k <= Len(Recent)
      <4>1. k \in DOMAIN Recent /\ all[k] = Recent[k]
        BY <1>0, <2>6, <3>1
      <4>2. QED
        BY <1>0, <4>1, Zenon
    <3>2. CASE k > Len(Recent)
      <4>1. k - Len(Recent) \in 1..n /\ all[k] = added[k - Len(Recent)]
        BY <1>0, <2>3, <2>6, <3>2
      <4>2. now \in 1..now
        BY <2>7
      <4> DEFINE x == k - Len(Recent)
      <4>3. x \in 1..n /\ all[k] = added[x]
        BY <4>1
      <4> HIDE DEF x
      <4>4. QED
        BY <2>5, <4>2, <4>3, Zenon
    <3>3. k <= Len(Recent) \/ k > Len(Recent)
      BY <1>0
    <3>4. QED
      BY <3>1, <3>2, <3>3, Zenon
  <2>9. ASSUME NEW j \in 1..Len(all), NEW k \in 1..Len(all), j < k
        PROVE  \/ all[j].born < all[k].born
               \/ all[j].born = all[k].born /\ all[j].index < all[k].index
    <3>1. CASE k <= Len(Recent)
      <4>1. j \in DOMAIN Recent /\ k \in DOMAIN Recent /\ all[j] = Recent[j] /\ all[k] = Recent[k]
        BY <1>0, <2>6, <2>9, <3>1
      <4>2. QED
        BY <1>0, <2>9, <4>1 DEF OldestFirst
    <3>2. CASE j <= Len(Recent) /\ Len(Recent) < k
      <4>1. j \in DOMAIN Recent /\ all[j] = Recent[j]
        BY <1>0, <2>6, <3>2
      <4>2. k - Len(Recent) \in 1..n /\ all[k] = added[k - Len(Recent)]
        BY <1>0, <2>3, <2>6, <3>2
      <4>3. QED
        BY <1>0, <2>5, <4>1, <4>2
    <3>3. CASE Len(Recent) < j
      <4>1. j - Len(Recent) \in 1..n /\ all[j] = added[j - Len(Recent)]
        BY <1>0, <2>3, <2>6, <3>3
      <4>2. k - Len(Recent) \in 1..n /\ all[k] = added[k - Len(Recent)] /\ j - Len(Recent) < k - Len(Recent)
        BY <1>0, <2>3, <2>6, <2>9, <3>3
      <4>3. a[j - Len(Recent)] < a[k - Len(Recent)]
        BY <2>3, <4>1, <4>2
      <4>4. QED
        BY <2>5, <4>1, <4>2, <4>3
    <3>4. QED
      BY <1>0, <2>9, <3>1, <3>2, <3>3
  <2>10. m \in Nat /\ m >= 1 /\ m >= Len(all) - Capacity + 1 /\ m <= Len(all) + 1
    <3>1. Len(all) \in Nat
      BY <2>6
    <3>2. PICK b \in {1, Len(all) - Capacity + 1} : \A y \in {1, Len(all) - Capacity + 1} : b >= y
      BY <2>7, <3>1
    <3>3. m \in {1, Len(all) - Capacity + 1} /\ \A y \in {1, Len(all) - Capacity + 1} : m >= y
      BY <3>2 DEF Max
    <3>4. QED
      BY <2>7, <3>1, <3>3
  <2>11. Rebuffered = SubSeq(all, m, Len(all))
    BY <1>2 DEF Rebuffered, all, added, S
  <2> HIDE DEF m
  <2> DEFINE kept == SubSeq(all, m, Len(all))
             l == Len(all)
  <2>12. /\ kept \in Seq(Responses) /\ Len(kept) = (IF m <= l THEN l - m + 1 ELSE 0)
         /\ \A i \in 1..(l - m + 1) : kept[i] = all[m + i - 1]
    <3>1. l \in Nat /\ m \in Int /\ l \in Int
      BY <2>6, <2>10
    <3>2. \A i \in m..l : all[i] \in Responses
      BY <2>6, <2>10, <3>1
    <3>3. QED
      BY <3>1, <3>2, SubSeqProperties
  <2> HIDE DEF kept
  <2>13. l \in Nat /\ Len(kept) <= Capacity /\ DOMAIN kept = 1..Len(kept)
    BY <2>6, <2>7, <2>10, <2>12
  <2>14. ASSUME NEW k \in 1..Len(kept)
         PROVE  kept[k] = all[m + k - 1] /\ m + k - 1 \in 1..l
    BY <2>10, <2>12, <2>13
  <2>15. \A k \in DOMAIN kept : kept[k].informative = TRUE /\ kept[k].born \in 1..now
    BY <2>8, <2>13, <2>14
  <2>16. OldestFirst(kept)
    <3>1. ASSUME NEW j \in 1..Len(kept), NEW k \in 1..Len(kept), j < k
          PROVE  \/ kept[j].born < kept[k].born
                 \/ kept[j].born = kept[k].born /\ kept[j].index < kept[k].index
      <4>1. m + j - 1 < m + k - 1
        BY <2>10, <2>13, <3>1
      <4>2. m + j - 1 \in 1..l /\ m + k - 1 \in 1..l /\ kept[j] = all[m + j - 1] /\ kept[k] = all[m + k - 1]
        BY <2>14
      <4> DEFINE x == m + j - 1
                 y == m + k - 1
      <4>3. x \in 1..l /\ y \in 1..l /\ x < y /\ kept[j] = all[x] /\ kept[k] = all[y]
        BY <4>1, <4>2
      <4> HIDE DEF x, y
      <4>4. QED
        BY <2>9, <4>3
    <3>2. QED
      BY <2>13, <3>1 DEF OldestFirst
  <2>17. QED
    BY <1>2, <2>11, <2>12, <2>13, <2>15, <2>16 DEF Stored, kept
<1>3. QED
  BY <1>1, <1>2

(* What a copy of f leaves. *)
LEMMA CopiedBatch ==
  ASSUME ReplayAssumption, ReplayTypes, Stored(buffer), Named, stage = "replay",
         row.accepted \subseteq DOMAIN rows, NEW f \in [row.accepted -> Sources]
  PROVE  /\ Batch(Copied(f)) /\ DOMAIN Copied(f) = DOMAIN rows
         /\ \A i \in row.accepted : Copied(f)[i] = f[i]
         /\ \A i \in DOMAIN rows \ row.accepted : Copied(f)[i] = rows[i]
<1>1. DOMAIN f = row.accepted
  OBVIOUS
<1>2. \A i \in row.accepted : f[i] \in Responses
  BY SourcesAreInformative
<1>3. \A i \in DOMAIN rows : rows[i] \in Responses
  BY DEF ReplayTypes, Batch
<1>4. Copied(f) \in [DOMAIN rows -> Responses]
  BY <1>1, <1>2, <1>3 DEF Copied
<1>5. QED
  BY <1>1, <1>4 DEF Copied, Batch, ReplayTypes

(* What a row asks for is a number of tokens. *)
LEMMA ExpectedIsNat ==
  ASSUME NEW r, ScheduleRow(r), NEW generated \in Nat
  PROVE  Expected(r, generated) \in Nat
<1>1. Planned(r, DOMAIN r.tokens) \in Nat
  BY PlannedIsNat
<1>2. QED
  BY <1>1 DEF Expected

(* The books stay books. *)
LEMMA BookedIsBooks ==
  ASSUME ReplayAssumption, NEW l \in Books, NEW r, ScheduleRow(r), NEW rest \in Nat,
         NEW S, \A g \in S : g.tokens \in Nat, NEW f \in [r.accepted -> S]
  PROVE  Booked(l, r, rest, f) \in Books
<1>1. Planned(r, r.accepted) \in Nat /\ Expected(r, rest) \in Nat
  BY PlannedIsNat, ExpectedIsNat DEF ScheduleRow
<1>2. IsFiniteSet(DOMAIN f) /\ \A i \in DOMAIN f : f[i].tokens \in Nat
  <2>1. DOMAIN f = r.accepted /\ IsFiniteSet(r.accepted)
    BY FS_Subset DEF ScheduleRow
  <2>2. QED
    BY <2>1
<1>3. Total(f, DOMAIN f) \in Nat
  BY <1>2, TotalIsNat
<1>4. QED
  BY <1>1, <1>3 DEF Booked, Books

(* The forecast of the tokens not replayed is a number. *)
LEMMA RestIsNat ==
  ASSUME NEW t, IsFiniteSet(DOMAIN t), \A i \in DOMAIN t : t[i] \in Nat, NEW S
  PROVE  Rest(t, S) \in Nat
<1> DEFINE U == DOMAIN t
<1>1. U \ S \in SUBSET U
  OBVIOUS
<1>2. IsFiniteSet(U) /\ \A i \in U : t[i] \in Nat
  OBVIOUS
<1>3. Rest(t, S) = SumFunctionOnSet(t, U \ S)
  BY DEF Rest
<1> HIDE DEF U
<1>4. QED
  BY <1>1, <1>2, <1>3, SumNat

(* Every forecast the preflight could hold is a ledger. *)
LEMMA ForecastsAreBooks ==
  ASSUME ReplayAssumption, forecast \in Books, NEW r, ScheduleRow(r)
  PROVE  Forecasts(r) \subseteq Books
<1> DEFINE rest == Rest(r.tokens, r.accepted)
           fs == Selected(forecast, r, rest, Assignments(r.accepted, Reservoir))
<1>1. rest \in Nat
  BY RestIsNat DEF ScheduleRow
<1>2. \A g \in Reservoir : g.tokens \in Nat
  BY DEF ReplayAssumption
<1>3. fs \subseteq [r.accepted -> Reservoir]
  BY DEF Selected, Assignments
<1>4. Forecasts(r) \subseteq {Booked(forecast, r, rest, f) : f \in fs}
  BY DEF Forecasts
<1> HIDE DEF rest, fs
<1>5. \A f \in fs : Booked(forecast, r, rest, f) \in Books
  BY <1>1, <1>2, <1>3, BookedIsBooks
<1>6. QED
  BY <1>4, <1>5

-------------------------------------------------------------------------------
(* The invariant of ReplaysAreOriginals. *)
OriginalsInv == ReplayTypes /\ BatchInv

(* A run starts with an empty buffer and nothing replayed. *)
LEMMA OriginalsInit == ASSUME ReplayAssumption, ReplayInit PROVE OriginalsInv
<1>1. NoTokens \in Books /\ NothingTrained \in Doses
  BY DEF NoTokens, Books, NothingTrained, Doses
<1>2. Batch(<<>>) /\ ScheduleRow(NoRow) /\ DOMAIN <<>> = {}
  BY NothingIsABatch
<1>3. ReplayTypes
  BY <1>1, <1>2 DEF ReplayTypes, ReplayInit
<1>4. Stored(buffer)
  BY DEF ReplayInit, Stored, OldestFirst, ReplayAssumption
<1>5. Named /\ Written
  BY <1>2 DEF Named, Written, ReplayInit
<1>6. QED
  BY <1>3, <1>4, <1>5 DEF OriginalsInv, BatchInv

(* A batch is generated, and nothing of it is in the buffer yet. *)
LEMMA OriginalsGenerate == ASSUME ReplayAssumption, OriginalsInv, Generate PROVE OriginalsInv'
<1> USE DEF OriginalsInv, BatchInv
<1>1. /\ now' = now + 1 /\ now \in Nat /\ stage' = "replay" /\ row' \in Rows
      /\ rows' = produced' /\ UNCHANGED <<mode, buffer, ledger, trained>>
  BY DEF Generate, ReplayTypes
<1>2. ScheduleRow(row')
  BY <1>1 DEF ScheduleRow, ReplayAssumption
<1>3. Batch(produced') /\ \A i \in DOMAIN produced' : produced'[i].index = i /\ produced'[i].born = now'
  <2>1. PICK order \in DataOrders :
          produced' \in [order -> [index : order, born : {now'}, tokens : Tokens,
                                   informative : BOOLEAN]]
    BY DEF Generate
  <2>2. DOMAIN produced' = order /\ order \subseteq Nat /\ IsFiniteSet(order) /\ now' \in Nat
    BY <1>1, <2>1 DEF ReplayAssumption
  <2>3. \A i \in order : produced'[i] \in Responses /\ produced'[i].born = now'
    BY <2>1, <2>2 DEF Responses
  <2>4. produced' \in [order -> Responses]
    BY <2>1, <2>3
  <2>5. \A i \in DOMAIN produced' : produced'[i].index = i
    BY DEF Generate
  <2>6. QED
    BY <2>2, <2>3, <2>4, <2>5 DEF Batch
<1>4. forecast' \in Books
  <2>1. CASE mode = "reservoir"
    <3>1. forecast' \in Forecasts(row') /\ forecast \in Books
      BY <2>1 DEF Generate, ReplayTypes
    <3>2. QED
      BY <1>2, <3>1, ForecastsAreBooks
  <2>2. CASE mode # "reservoir"
    BY <2>2 DEF Generate, NoTokens, Books
  <2>3. QED
    BY <2>1, <2>2
<1>5. ReplayTypes'
  <2>1. parity' \in BOOLEAN
    BY Zenon DEF Generate
  <2>2. QED
    BY <1>1, <1>2, <1>3, <1>4, <2>1 DEF ReplayTypes
<1>6. now' \in Nat /\ now' # 0 /\ now < now'
  BY <1>1
<1>7. \A k \in DOMAIN buffer : buffer[k].informative = TRUE /\ buffer[k].born \in 1..now
  BY DEF Stored
<1>8. \A k \in DOMAIN buffer : buffer[k].born \in 1..now' /\ buffer[k].born < now'
  BY <1>1, <1>7
<1>9. Stored(buffer)'
  BY <1>1, <1>7, <1>8 DEF Stored, OldestFirst
<1>10. Named' /\ Written'
  BY <1>1, <1>3, <1>6, <1>8 DEF Named, Written
<1>11. QED
  BY <1>5, <1>9, <1>10

(* A replay writes copies of its sources, and the buffer takes the batch as generated. *)
LEMMA OriginalsReplay == ASSUME ReplayAssumption, OriginalsInv, Replay PROVE OriginalsInv'
<1> USE DEF OriginalsInv, BatchInv
<1>1. /\ stage = "replay" /\ row.accepted \subseteq DOMAIN rows
      /\ stage' \in {"stopped", "update"} /\ buffer' = Rebuffered
      /\ UNCHANGED <<mode, now, row, produced, forecast, parity, trained>>
  BY DEF Replay
<1>2. PICK f \in Assignments(row.accepted, Sources) :
        /\ rows' = Copied(f)
        /\ ledger' = [targetAux |-> ledger.targetAux + Planned(row, row.accepted),
                      aux       |-> ledger.aux + Total(rows', row.accepted),
                      targetOpt |-> ledger.targetOpt + Expected(row, Total(rows, DOMAIN rows)),
                      opt       |-> ledger.opt + Total(rows', DOMAIN rows')]
  BY DEF Replay, Selected
<1>3. f \in [row.accepted -> Sources] /\ \A i \in row.accepted : Distinct(f[i], i)
  BY DEF Assignments
<1>4. /\ Batch(rows') /\ DOMAIN rows' = DOMAIN rows
      /\ \A i \in row.accepted : rows'[i] = f[i]
      /\ \A i \in DOMAIN rows \ row.accepted : rows'[i] = rows[i]
  BY <1>1, <1>2, <1>3, CopiedBatch
<1>5. ledger' \in Books
  <2>1. Planned(row, row.accepted) \in Nat /\ Expected(row, Total(rows, DOMAIN rows)) \in Nat
    <3>1. ScheduleRow(row) /\ Batch(rows)
      BY DEF ReplayTypes
    <3>2. Total(rows, DOMAIN rows) \in Nat
      BY <3>1, BatchTotals
    <3>3. QED
      BY <3>1, <3>2, PlannedIsNat, ExpectedIsNat DEF ScheduleRow
  <2>2. Total(rows', row.accepted) \in Nat /\ Total(rows', DOMAIN rows') \in Nat
    BY <1>1, <1>4, BatchTotals
  <2>3. ledger \in Books
    BY DEF ReplayTypes
  <2> DEFINE p == Planned(row, row.accepted)
             t == Expected(row, Total(rows, DOMAIN rows))
             x == Total(rows', row.accepted)
             y == Total(rows', DOMAIN rows')
  <2>4. ledger' = [targetAux |-> ledger.targetAux + p, aux |-> ledger.aux + x,
                   targetOpt |-> ledger.targetOpt + t, opt |-> ledger.opt + y]
    BY <1>2
  <2>5. p \in Nat /\ t \in Nat /\ x \in Nat /\ y \in Nat
    BY <2>1, <2>2
  <2> HIDE DEF p, t, x, y
  <2>6. QED
    BY <2>3, <2>4, <2>5 DEF Books
<1>6. Rebuffered \in Seq(Responses) /\ Stored(Rebuffered)
  BY <1>1, RebufferedIsStored
<1>7. ReplayTypes'
  BY <1>1, <1>4, <1>5, <1>6 DEF ReplayTypes
<1>8. Stored(buffer)'
  BY <1>1, <1>6 DEF Stored, OldestFirst
<1>9. Named'
  BY <1>1 DEF Named
<1>10. ASSUME NEW i \in row.accepted
       PROVE  /\ rows'[i] # produced[i] /\ rows'[i].informative = TRUE
              /\ mode = "live" => rows'[i] \in Range(produced)
              /\ mode = "buffered" => rows'[i].born \in (now - MaxAge)..now
              /\ mode = "reservoir" => rows'[i] \in Reservoir /\ rows'[i].index # i
  <2>1. rows'[i] = f[i] /\ f[i] \in Sources
    BY <1>3, <1>4
  <2>2. /\ f[i].informative = TRUE
        /\ mode = "live" => f[i] \in Range(produced)
        /\ mode = "buffered" => f[i].born \in (now - MaxAge)..now
        /\ mode = "reservoir" => f[i] \in Reservoir /\ f[i].born = 0
    BY <1>1, <2>1, SourcesAreInformative
  <2>3. f[i].index # i \/ f[i].born \in 1..(now - 1)
    BY <1>3 DEF Distinct
  <2>4. produced[i].index = i /\ produced[i].born = now /\ now \in Nat
    BY <1>1 DEF Named, ReplayTypes
  <2>5. f[i] # produced[i]
    BY <2>3, <2>4
  <2>6. mode = "reservoir" => f[i].index # i
    BY <2>2, <2>3
  <2>7. QED
    BY <2>1, <2>2, <2>5, <2>6, Zenon
<1>11. Written'
  <2>1. \A i \in DOMAIN rows' \ row'.accepted : rows'[i] = produced'[i]
    BY <1>1, <1>4 DEF Named
  <2>2. row'.accepted \subseteq DOMAIN rows'
    BY <1>1, <1>4
  <2>3. mode' = mode /\ now' = now /\ row' = row /\ produced' = produced
    BY <1>1
  <2>4. QED
    BY <1>10, <2>1, <2>2, <2>3, Zenon DEF Written
<1>12. QED
  BY <1>7, <1>8, <1>9, <1>11

(* The other steps leave the buffer alone, and empty the batch or keep it. *)
LEMMA OriginalsOtherSteps ==
  ASSUME ReplayAssumption, OriginalsInv,
         RefuseReplay \/ UpdatePolicy \/ Validate \/ UNCHANGED replayVars
  PROVE  OriginalsInv'
<1> USE DEF OriginalsInv, BatchInv
<1>1. CASE RefuseReplay \/ UpdatePolicy
  <2>1. /\ stage' \in {"stopped", "done", "generate"} /\ row' = NoRow /\ produced' = <<>> /\ rows' = <<>>
        /\ UNCHANGED <<mode, now, buffer, ledger, forecast, parity>>
    BY <1>1 DEF RefuseReplay, UpdatePolicy
  <2>2. trained' \in Doses
    <3>1. CASE RefuseReplay
      BY <3>1 DEF RefuseReplay, ReplayTypes
    <3>2. CASE UpdatePolicy
      <4> DEFINE S == {i \in DOMAIN rows : rows[i] # produced[i]}
      <4>1. Planned(row, row.accepted) \in Nat /\ Expected(row, 0) \in Nat
        BY PlannedIsNat, ExpectedIsNat DEF ReplayTypes, ScheduleRow
      <4>2. Total(rows, S) \in Nat /\ Total(rows, DOMAIN rows) \in Nat
        <5>1. S \in SUBSET DOMAIN rows /\ DOMAIN rows \in SUBSET DOMAIN rows /\ Batch(rows)
          BY DEF ReplayTypes
        <5> HIDE DEF S
        <5>2. QED
          BY <5>1, BatchTotals
      <4> DEFINE p == Planned(row, row.accepted)
                 t == Expected(row, 0)
                 x == Total(rows, S)
                 y == IF row.stated THEN Total(rows, DOMAIN rows) ELSE 0
                 z == IF row.stated THEN 0 ELSE Total(rows, DOMAIN rows)
      <4>3. trained' = [targetAux |-> trained.targetAux + p, aux |-> trained.aux + x,
                        targetOpt |-> trained.targetOpt + t, opt |-> trained.opt + y,
                        own |-> trained.own + z]
        BY <3>2 DEF UpdatePolicy
      <4>4. p \in Nat /\ t \in Nat /\ x \in Nat /\ y \in Nat /\ z \in Nat
        BY <4>1, <4>2
      <4> HIDE DEF S, p, t, x, y, z
      <4>5. trained \in Doses
        BY DEF ReplayTypes
      <4>6. QED
        BY <4>3, <4>4, <4>5 DEF Doses
    <3>3. QED
      BY <1>1, <3>1, <3>2
  <2>3. Batch(<<>>) /\ ScheduleRow(NoRow) /\ DOMAIN <<>> = {}
    BY NothingIsABatch
  <2>4. ReplayTypes'
    BY <2>1, <2>2, <2>3 DEF ReplayTypes
  <2>5. Stored(buffer)'
    BY <2>1 DEF Stored, OldestFirst
  <2>6. Named' /\ Written'
    BY <2>1, <2>3 DEF Named, Written
  <2>7. QED
    BY <2>4, <2>5, <2>6
<1>2. CASE Validate \/ UNCHANGED replayVars
  <2>1. /\ UNCHANGED <<mode, now, row, produced, rows, buffer, ledger, forecast, parity, trained>>
        /\ stage' = stage \/ stage' \in {"valid", "rejected"}
    BY <1>2 DEF Validate, replayVars
  <2>2. ReplayTypes'
    BY <2>1 DEF ReplayTypes
  <2>3. Stored(buffer)'
    BY <2>1 DEF Stored, OldestFirst
  <2>4. Named' /\ Written'
    BY <2>1 DEF Named, Written
  <2>5. QED
    BY <2>2, <2>3, <2>4
<1>3. QED
  BY <1>1, <1>2

(* What every step trains on are originals, so is what the buffer holds.   *)
THEOREM OriginalsInvHolds == ReplaySpec => []OriginalsInv
<1>1. ReplayInit => OriginalsInv
  BY ReplayAssumption, OriginalsInit
<1>2. OriginalsInv /\ [ReplayNext]_replayVars => OriginalsInv'
  BY ReplayAssumption, OriginalsGenerate, OriginalsReplay, OriginalsOtherSteps DEF ReplayNext
<1>3. QED
  BY <1>1, <1>2, PTL DEF ReplaySpec

(* At every update of replay_batch the slots B2 accepted hold informative  *)
(* groups as they were generated, from the source the arm may draw on and  *)
(* none its own; the other slots are untouched; and the replay buffer is   *)
(* in order, within its capacity, and takes no copy in.                    *)
THEOREM ReplaysAreOriginalsHolds == ReplaySpec => []ReplaysAreOriginals
<1>1. OriginalsInv => ReplaysAreOriginals
  <2> SUFFICES ASSUME OriginalsInv PROVE ReplaysAreOriginals
    OBVIOUS
  <2>1. Stored(buffer) /\ Written /\ mode \in {"live", "buffered", "reservoir"}
    BY DEF OriginalsInv, BatchInv, ReplayTypes
  <2>2. /\ Len(buffer) <= Capacity
        /\ \A k \in DOMAIN buffer : buffer[k].informative /\ buffer[k].born \in 1..now
        /\ \A j, k \in DOMAIN buffer :
             j < k => buffer[j].born < buffer[k].born
                      \/ (buffer[j].born = buffer[k].born /\ buffer[j].index < buffer[k].index)
    BY <2>1 DEF Stored, OldestFirst
  <2>3. ASSUME stage = "update"
        PROVE  /\ \A i \in DOMAIN rows \ row.accepted : rows[i] = produced[i]
               /\ \A i \in row.accepted : rows[i] # produced[i] /\ rows[i].informative
    BY <2>1, <2>3, Zenon DEF Written
  <2>4. ASSUME stage = "update", NEW i \in row.accepted
        PROVE  CASE mode = "live"      -> rows[i] \in Range(produced)
                 [] mode = "buffered"  -> rows[i].born \in (now - MaxAge)..now
                 [] mode = "reservoir" -> rows[i] \in Reservoir /\ rows[i].index # i
    <3>1. CASE mode = "live"
      BY <2>1, <2>4, <3>1 DEF Written
    <3>2. CASE mode = "buffered"
      BY <2>1, <2>4, <3>2 DEF Written
    <3>3. CASE mode = "reservoir"
      BY <2>1, <2>4, <3>3 DEF Written
    <3>4. QED
      BY <2>1, <3>1, <3>2, <3>3
  <2>5. QED
    BY <2>2, <2>3, <2>4 DEF ReplaysAreOriginals
<1>2. QED
  BY <1>1, OriginalsInvHolds, PTL

-------------------------------------------------------------------------------
(* The tokens of a batch depend on the tokens of its groups alone. *)
LEMMA TotalCongruent ==
  ASSUME NEW b, NEW c, NEW S, \A i \in S : b[i].tokens = c[i].tokens
  PROVE  Total(b, S) = Total(c, S)
<1>1. [i \in S |-> b[i].tokens] = [i \in S |-> c[i].tokens]
  OBVIOUS
<1>2. QED
  BY <1>1 DEF Total

(* The invariant of DoseStopsUpdate: the ledger is what was trained on,    *)
(* with the steps that have no total of B2's on both sides; but between a  *)
(* replay and its update it is one step ahead, and within its tolerances.  *)
Trained == [targetAux |-> trained.targetAux, aux |-> trained.aux,
            targetOpt |-> trained.targetOpt + trained.own,
            opt       |-> trained.opt + trained.own]

OneAhead ==
  [targetAux |-> trained.targetAux + Planned(row, row.accepted),
   aux       |-> trained.aux + Total(rows, row.accepted),
   targetOpt |-> trained.targetOpt + trained.own + Expected(row, Total(rows, DOMAIN rows)),
   opt       |-> trained.opt + trained.own + Total(rows, DOMAIN rows)]

DoseInv ==
  /\ stage = "update" => ~Stops(ledger, row.accepted) /\ ledger = OneAhead
  /\ stage \notin {"update", "stopped"} => ledger = Trained
  /\ mode = "reservoir" => row.stated = TRUE
  /\ DoseStopsUpdate

(* The maximum of two numbers. *)
LEMMA MaxOfTwo ==
  ASSUME NEW a \in Int, NEW b \in Int
  PROVE  Max({a, b}) \in Int /\ Max({a, b}) \in {a, b} /\ Max({a, b}) >= a /\ Max({a, b}) >= b
<1>1. PICK m \in {a, b} : \A y \in {a, b} : m >= y
  OBVIOUS
<1>2. Max({a, b}) \in {a, b} /\ \A y \in {a, b} : Max({a, b}) >= y
  BY <1>1 DEF Max
<1>3. QED
  BY <1>2

(* Nothing is trained yet. *)
LEMMA DoseInit == ASSUME ReplayAssumption, ReplayInit PROVE DoseInv
<1>1. /\ stage = "generate" /\ row.stated = TRUE /\ ledger = NoTokens
      /\ trained.aux = 0 /\ trained.targetAux = 0 /\ trained.own = 0
      /\ trained.opt = 0 /\ trained.targetOpt = 0
  BY DEF ReplayInit, NothingTrained, NoRow
<1>2. ledger = Trained
  BY <1>1 DEF Trained, NoTokens
<1>3. ~Exceeds(0, 0)
  <2>1. 0 \in Int /\ 1 \in Int /\ TolNum \in Nat /\ TolDen \in Nat
    BY DEF ReplayAssumption
  <2>2. Max({0, 1}) = 1
    <3>1. Max({0, 1}) \in {0, 1} /\ Max({0, 1}) >= 1
      BY <2>1, MaxOfTwo, Zenon
    <3>2. QED
      BY <3>1
  <2>3. Gap(0, 0) * TolDen = 0 /\ TolNum * Max({0, 1}) = TolNum
    BY <2>1, <2>2 DEF Gap
  <2>4. QED
    BY <2>1, <2>3 DEF Exceeds
<1>4. DoseStopsUpdate
  <2>1. trained.opt + trained.own = 0 /\ trained.targetOpt + trained.own = 0
    BY <1>1
  <2>2. QED
    BY <1>1, <1>3, <2>1 DEF DoseStopsUpdate
<1>5. QED
  BY <1>1, <1>2, <1>4 DEF DoseInv

(* The update trains on the tokens that the ledger has booked. *)
LEMMA DoseUpdates == ASSUME ReplayAssumption, OriginalsInv, DoseInv, UpdatePolicy PROVE DoseInv'
<1> DEFINE S == {i \in DOMAIN rows : rows[i] # produced[i]}
           a == Planned(row, row.accepted)
           g == Total(rows, DOMAIN rows)
           p == Planned(row, DOMAIN row.tokens)
<1>1. /\ stage = "update" /\ stage' \in {"done", "generate"} /\ ledger' = ledger
      /\ row' = NoRow /\ mode' = mode
      /\ trained' = [targetAux |-> trained.targetAux + a,
                     aux       |-> trained.aux + Total(rows, S),
                     targetOpt |-> trained.targetOpt + Expected(row, 0),
                     opt       |-> trained.opt + (IF row.stated THEN g ELSE 0),
                     own       |-> trained.own + (IF row.stated THEN 0 ELSE g)]
  BY DEF UpdatePolicy
<1>2. S = row.accepted
  <2>1. /\ row.accepted \subseteq DOMAIN rows
        /\ \A i \in DOMAIN rows \ row.accepted : rows[i] = produced[i]
        /\ \A i \in row.accepted : rows[i] # produced[i]
    BY <1>1 DEF OriginalsInv, BatchInv, Written
  <2>2. QED
    BY <2>1
<1>3. /\ trained \in Doses /\ row.stated \in BOOLEAN
      /\ a \in Nat /\ p \in Nat /\ g \in Nat
  <2>1. ScheduleRow(row) /\ Batch(rows) /\ trained \in Doses
    BY DEF OriginalsInv, ReplayTypes
  <2>2. a \in Nat /\ p \in Nat
    BY <2>1, PlannedIsNat DEF ScheduleRow
  <2>3. g \in Nat
    BY <2>1, BatchTotals
  <2>4. QED
    BY <2>1, <2>2, <2>3 DEF ScheduleRow
<1>4. ledger = OneAhead /\ ~Stops(ledger, row.accepted)
  BY <1>1 DEF DoseInv
<1>5. ledger = Trained'
  <2>1. /\ Trained' = [targetAux |-> trained'.targetAux, aux |-> trained'.aux,
                       targetOpt |-> trained'.targetOpt + trained'.own,
                       opt       |-> trained'.opt + trained'.own]
        /\ ledger = [targetAux |-> trained.targetAux + a, aux |-> trained.aux + Total(rows, S),
                     targetOpt |-> trained.targetOpt + trained.own + Expected(row, g),
                     opt       |-> trained.opt + trained.own + g]
    BY <1>2, <1>4 DEF Trained, OneAhead
  <2>2. /\ trained.targetOpt \in Nat /\ trained.opt \in Nat /\ trained.own \in Nat
    BY <1>3 DEF Doses
  <2>3. /\ Expected(row, g) = IF row.stated THEN p ELSE g
        /\ Expected(row, 0) = IF row.stated THEN p ELSE 0
    BY DEF Expected
  <2> DEFINE x == Total(rows, S)
  <2> HIDE DEF a, g, p, x, S
  <2>4. CASE row.stated = TRUE
    <3>1. trained' = [targetAux |-> trained.targetAux + a, aux |-> trained.aux + x,
                      targetOpt |-> trained.targetOpt + p, opt |-> trained.opt + g,
                      own |-> trained.own + 0]
      BY <1>1, <2>3, <2>4 DEF x
    <3>2. ledger = [targetAux |-> trained.targetAux + a, aux |-> trained.aux + x,
                    targetOpt |-> trained.targetOpt + trained.own + p,
                    opt       |-> trained.opt + trained.own + g]
      BY <2>1, <2>3, <2>4 DEF x
    <3>3. /\ (trained.targetOpt + p) + (trained.own + 0) = trained.targetOpt + trained.own + p
          /\ (trained.opt + g) + (trained.own + 0) = trained.opt + trained.own + g
      BY <1>3, <2>2
    <3>4. QED
      BY <2>1, <3>1, <3>2, <3>3
  <2>5. CASE row.stated = FALSE
    <3>1. trained' = [targetAux |-> trained.targetAux + a, aux |-> trained.aux + x,
                      targetOpt |-> trained.targetOpt + 0, opt |-> trained.opt + 0,
                      own |-> trained.own + g]
      BY <1>1, <2>3, <2>5 DEF x
    <3>2. ledger = [targetAux |-> trained.targetAux + a, aux |-> trained.aux + x,
                    targetOpt |-> trained.targetOpt + trained.own + g,
                    opt       |-> trained.opt + trained.own + g]
      BY <2>1, <2>3, <2>5 DEF x
    <3>3. /\ (trained.targetOpt + 0) + (trained.own + g) = trained.targetOpt + trained.own + g
          /\ (trained.opt + 0) + (trained.own + g) = trained.opt + trained.own + g
      BY <1>3, <2>2
    <3>4. QED
      BY <2>1, <3>1, <3>2, <3>3
  <2>6. QED
    BY <1>3, <2>4, <2>5
<1>6. /\ ledger.aux = trained'.aux /\ ledger.targetAux = trained'.targetAux
      /\ ledger.opt = trained'.opt + trained'.own
      /\ ledger.targetOpt = trained'.targetOpt + trained'.own
  BY <1>5 DEF Trained
<1>7. ~Exceeds(ledger.opt, ledger.targetOpt)
  BY <1>4 DEF Stops
<1>8. ~Exceeds(ledger.aux, ledger.targetAux)
  <2>1. CASE row.accepted # {}
    BY <1>4, <2>1 DEF Stops
  <2>2. CASE row.accepted = {}
    <3>1. Planned(row, row.accepted) = 0 /\ Total(rows, row.accepted) = 0
      BY <2>2, SumEmpty DEF Planned, Total
    <3>2. trained.aux \in Int /\ trained.targetAux \in Int
      BY <1>3 DEF Doses
    <3>3. ledger.aux = trained.aux /\ ledger.targetAux = trained.targetAux
      <4>1. ledger.aux = trained.aux + 0 /\ ledger.targetAux = trained.targetAux + 0
        BY <1>4, <3>1 DEF OneAhead
      <4>2. QED
        BY <3>2, <4>1
    <3>4. QED
      BY <3>3 DEF DoseInv, DoseStopsUpdate
  <2>3. QED
    BY <2>1, <2>2
<1>9. mode = "reservoir" => trained'.own = 0
  <2> SUFFICES ASSUME mode = "reservoir" PROVE trained'.own = 0
    OBVIOUS
  <2>1. row.stated = TRUE /\ trained.own = 0
    BY DEF DoseInv, DoseStopsUpdate
  <2>2. trained'.own = trained.own + 0
    BY <1>1, <2>1
  <2>3. QED
    BY <2>1, <2>2
<1>10. DoseStopsUpdate'
  BY <1>1, <1>6, <1>7, <1>8, <1>9 DEF DoseStopsUpdate
<1>11. row'.stated = TRUE
  BY <1>1 DEF NoRow
<1>12. QED
  BY <1>1, <1>5, <1>10, <1>11 DEF DoseInv

(* A replay books the tokens of the rows it leaves, and where B2's row has *)
(* no total it replaces none of them.                                      *)
LEMMA DoseReplay == ASSUME ReplayAssumption, OriginalsInv, DoseInv, Replay PROVE DoseInv'
<1>1. /\ stage = "replay" /\ trained' = trained /\ row' = row /\ mode' = mode
      /\ stage' = (IF Stops(ledger', row.accepted) THEN "stopped" ELSE "update")
      /\ ledger' = [targetAux |-> ledger.targetAux + Planned(row, row.accepted),
                    aux       |-> ledger.aux + Total(rows', row.accepted),
                    targetOpt |-> ledger.targetOpt + Expected(row, Total(rows, DOMAIN rows)),
                    opt       |-> ledger.opt + Total(rows', DOMAIN rows')]
  BY DEF Replay
<1>2. ledger = Trained
  BY <1>1 DEF DoseInv
<1>3. Expected(row, Total(rows, DOMAIN rows)) = Expected(row, Total(rows', DOMAIN rows'))
  <2>1. ScheduleRow(row) /\ Stored(buffer) /\ Named /\ ReplayTypes
    BY DEF OriginalsInv, BatchInv, ReplayTypes
  <2>2. CASE row.stated = TRUE
    BY <2>2 DEF Expected
  <2>3. CASE row.stated = FALSE
    <3>1. row.accepted = {} /\ row.accepted \subseteq DOMAIN rows
      BY <2>1, <2>3 DEF ScheduleRow
    <3>2. PICK f \in [row.accepted -> Sources] : rows' = Copied(f)
      BY DEF Replay, Selected, Assignments
    <3>3. DOMAIN rows' = DOMAIN rows /\ \A i \in DOMAIN rows : rows'[i] = rows[i]
      BY <1>1, <2>1, <3>1, <3>2, CopiedBatch
    <3>4. Total(rows, DOMAIN rows) = Total(rows', DOMAIN rows)
      BY <3>3, TotalCongruent
    <3>5. QED
      BY <3>3, <3>4
  <2>4. QED
    BY <2>1, <2>2, <2>3 DEF ScheduleRow
<1>4. ledger' = OneAhead'
  BY <1>1, <1>2, <1>3 DEF Trained, OneAhead
<1>5. DoseStopsUpdate' /\ (mode' = "reservoir" => row'.stated = TRUE)
  BY <1>1 DEF DoseInv, DoseStopsUpdate
<1>6. QED
  BY <1>1, <1>4, <1>5 DEF DoseInv

(* No other step trains, and a row without a total is refused before a run *)
(* on the reservoir.                                                       *)
LEMMA DoseOtherSteps ==
  ASSUME ReplayAssumption, OriginalsInv, DoseInv,
         Generate \/ RefuseReplay \/ Validate \/ UNCHANGED replayVars
  PROVE  DoseInv'
<1>1. trained' = trained /\ ledger' = ledger /\ mode' = mode
  BY DEF Generate, RefuseReplay, Validate, replayVars
<1>2. DoseStopsUpdate' /\ Trained' = Trained
  BY <1>1 DEF DoseInv, DoseStopsUpdate, Trained
<1>3. CASE Generate \/ RefuseReplay \/ Validate
  <2>1. /\ stage \in {"generate", "replay", "done"} /\ stage' \notin {"update"}
    BY <1>3 DEF Generate, RefuseReplay, Validate
  <2>2. mode' = "reservoir" => row'.stated = TRUE
    <3>1. CASE Generate
      <4> SUFFICES ASSUME mode = "reservoir" PROVE row'.stated = TRUE
        BY <1>1
      <4>1. forecast' \in Forecasts(row') /\ row' \in Rows
        BY <3>1 DEF Generate
      <4>2. row'.stated
        BY <4>1 DEF Forecasts
      <4>3. row'.stated \in BOOLEAN
        BY <4>1 DEF ReplayAssumption
      <4>4. QED
        BY <4>2, <4>3, Zenon
    <3>2. CASE RefuseReplay
      BY <3>2 DEF RefuseReplay, NoRow
    <3>3. CASE Validate
      BY <3>3 DEF Validate, DoseInv
    <3>4. QED
      BY <1>3, <3>1, <3>2, <3>3
  <2>3. QED
    BY <1>1, <1>2, <2>1, <2>2 DEF DoseInv
<1>4. CASE UNCHANGED replayVars
  BY <1>2, <1>4 DEF DoseInv, replayVars, OneAhead
<1>5. QED
  BY <1>3, <1>4

(* The tolerance checks of replay_batch hold for the tokens the policy was *)
(* really updated on: no update leaves the replayed tokens out of B2's     *)
(* tolerance, nor all tokens where B2's rows state a total; where they     *)
(* state none the run's own count stands for B2's, and a run on the        *)
(* reservoir never meets such a row.                                       *)
THEOREM DoseStopsUpdateHolds == ReplaySpec => []DoseStopsUpdate
<1>1. ReplayInit => DoseInv
  BY ReplayAssumption, DoseInit
<1>2. OriginalsInv /\ DoseInv /\ [ReplayNext]_replayVars => DoseInv'
  BY ReplayAssumption, DoseUpdates, DoseReplay, DoseOtherSteps DEF ReplayNext
<1>3. DoseInv => DoseStopsUpdate
  BY DEF DoseInv
<1>4. QED
  BY <1>1, <1>2, <1>3, OriginalsInvHolds, PTL DEF ReplaySpec

-------------------------------------------------------------------------------
(* Two choices of _select_sources have the same totals: neither objective  *)
(* is below the other, and the totals are its last component.              *)
LEMMA NeitherIsBefore ==
  ASSUME NEW a \in [1..5 -> Int], NEW b \in [1..5 -> Int], ~Before(a, b), ~Before(b, a)
  PROVE  a[5] = b[5]
<1>1. /\ \A k \in 1..5 : (\A j \in 1..(k - 1) : a[j] = b[j]) => ~(a[k] < b[k])
      /\ \A k \in 1..5 : (\A j \in 1..(k - 1) : b[j] = a[j]) => ~(b[k] < a[k])
  BY DEF Before
<1>2. ASSUME NEW k \in 1..5, \A j \in 1..(k - 1) : a[j] = b[j] PROVE a[k] = b[k]
  <2>1. a[k] \in Int /\ b[k] \in Int
    OBVIOUS
  <2>2. ~(a[k] < b[k]) /\ ~(b[k] < a[k])
    BY <1>1, <1>2
  <2>3. QED
    BY <2>1, <2>2
<1>3. a[1] = b[1]
  BY <1>2
<1>4. a[2] = b[2]
  BY <1>2, <1>3
<1>5. a[3] = b[3]
  BY <1>2, <1>3, <1>4
<1>6. a[4] = b[4]
  BY <1>2, <1>3, <1>4, <1>5
<1>7. QED
  BY <1>2, <1>3, <1>4, <1>5, <1>6

(* The choices from the reservoir are the same at every step.              *)
FrozenChoices(targets) == {f \in [targets -> Reservoir] : \A i \in targets : f[i].index # i}

Fifth(a) == a[5]

(* A choice's objective is five numbers, the last one its tokens. *)
LEMMA ObjectiveComponents ==
  ASSUME ReplayAssumption, NEW l \in Books, NEW r, ScheduleRow(r), NEW rest \in Nat
  PROVE  \A f \in [r.accepted -> Reservoir] :
           /\ Objective(l, r, rest, f) \in [1..5 -> Int]
           /\ Fifth(Objective(l, r, rest, f)) = Total(f, DOMAIN f)
<1> SUFFICES ASSUME NEW f \in [r.accepted -> Reservoir]
             PROVE  /\ Objective(l, r, rest, f) \in [1..5 -> Int]
                    /\ Fifth(Objective(l, r, rest, f)) = Total(f, DOMAIN f)
  OBVIOUS
<1> DEFINE b == Booked(l, r, rest, f)
           t == Total(f, DOMAIN f)
           x == Gap(b.aux, b.targetAux)
           y == Gap(b.opt, b.targetOpt)
           c == Max({b.targetOpt, 1})
           d == Max({b.targetAux, 1})
           p == x * c
           q == y * d
<1>0. \A g \in Reservoir : g.tokens \in Nat
  BY DEF ReplayAssumption
<1>1. b \in Books
  BY <1>0, BookedIsBooks
<1>2. t \in Nat
  <2>1. DOMAIN f = r.accepted /\ IsFiniteSet(r.accepted)
    BY FS_Subset DEF ScheduleRow
  <2>2. IsFiniteSet(DOMAIN f) /\ \A i \in DOMAIN f : f[i].tokens \in Nat
    BY <1>0, <2>1
  <2>3. QED
    BY <2>2, TotalIsNat
<1>3. b.aux = l.aux + t /\ l.aux \in Nat
  BY DEF Booked, Books
<1>4. Objective(l, r, rest, f) = <<Max({p, q}), p + q, x, y, b.aux - l.aux>>
  BY DEF Objective
<1>5. /\ b.aux \in Int /\ b.targetAux \in Int /\ b.opt \in Int /\ b.targetOpt \in Int /\ 1 \in Int
      /\ t \in Int /\ l.aux \in Int
  BY <1>1, <1>2 DEF Books
<1> HIDE DEF b, t
<1>6. x \in Int /\ y \in Int
  BY <1>5 DEF Gap
<1>7. c \in Int /\ d \in Int
  BY <1>5, MaxOfTwo
<1> HIDE DEF x, y, c, d
<1>8. p \in Int /\ q \in Int
  BY <1>6, <1>7
<1> HIDE DEF p, q
<1> DEFINE m == Max({p, q})
           s == p + q
<1>9. m \in Int /\ s \in Int
  <2>1. m \in Int
    BY <1>8, MaxOfTwo, Zenon
  <2>2. QED
    BY <1>8, <2>1
<1>10. b.aux - l.aux = t
  BY <1>3, <1>5
<1>11. Objective(l, r, rest, f) = <<m, s, x, y, t>>
  BY <1>4, <1>10 DEF x, y, c, d, p, q
<1> HIDE DEF m, s
<1>12. <<m, s, x, y, t>> \in [1..5 -> Int] /\ <<m, s, x, y, t>>[5] = t
  BY <1>5, <1>6, <1>9
<1>13. QED
  BY <1>11, <1>12 DEF t, Fifth

(* Two choices that tie leave the same ledger behind. *)
LEMMA SameTotals ==
  ASSUME ReplayAssumption, NEW l \in Books, NEW r, ScheduleRow(r), NEW rest \in Nat
  PROVE  \A f, g \in Selected(l, r, rest, FrozenChoices(r.accepted)) : Booked(l, r, rest, f) = Booked(l, r, rest, g)
<1> SUFFICES ASSUME NEW f \in Selected(l, r, rest, FrozenChoices(r.accepted)), NEW g \in Selected(l, r, rest, FrozenChoices(r.accepted))
             PROVE  Booked(l, r, rest, f) = Booked(l, r, rest, g)
  OBVIOUS
<1>1. /\ f \in FrozenChoices(r.accepted) /\ g \in FrozenChoices(r.accepted)
      /\ ~Before(Objective(l, r, rest, g), Objective(l, r, rest, f))
      /\ ~Before(Objective(l, r, rest, f), Objective(l, r, rest, g))
  BY DEF Selected
<1>2. /\ Objective(l, r, rest, f) \in [1..5 -> Int] /\ Objective(l, r, rest, g) \in [1..5 -> Int]
      /\ Fifth(Objective(l, r, rest, f)) = Total(f, DOMAIN f)
      /\ Fifth(Objective(l, r, rest, g)) = Total(g, DOMAIN g)
  <2>1. f \in [r.accepted -> Reservoir] /\ g \in [r.accepted -> Reservoir]
    BY <1>1 DEF FrozenChoices
  <2>2. \A h \in [r.accepted -> Reservoir] :
          /\ Objective(l, r, rest, h) \in [1..5 -> Int]
          /\ Fifth(Objective(l, r, rest, h)) = Total(h, DOMAIN h)
    BY ObjectiveComponents
  <2>3. QED
    BY <2>1, <2>2, Zenon
<1>3. Total(f, DOMAIN f) = Total(g, DOMAIN g)
  BY <1>1, <1>2, NeitherIsBefore DEF Fifth
<1>4. QED
  BY <1>3 DEF Booked

(* Total is a sum over the tokens of the whole batch. *)
LEMMA TotalIsSum ==
  ASSUME NEW b, NEW D, IsFiniteSet(D), NEW S \in SUBSET D
  PROVE  Total(b, S) = SumFunctionOnSet([i \in D |-> b[i].tokens], S)
<1> DEFINE u == [i \in S |-> b[i].tokens]
           v == [i \in D |-> b[i].tokens]
<1>1. IsFiniteSet(S) /\ \A i \in S : u[i] = v[i]
  BY FS_Subset
<1>2. Total(b, S) = SumFunctionOnSet(u, S)
  BY DEF Total
<1> HIDE DEF u, v
<1>3. SumFunctionOnSet(u, S) = SumFunctionOnSet(v, S)
  BY <1>1, SumCongruent
<1>4. QED
  BY <1>2, <1>3 DEF v

(* The tokens of a batch are those kept and those replaced. *)
LEMMA TotalSplits ==
  ASSUME ReplayAssumption, NEW b, Batch(b), NEW S \in SUBSET DOMAIN b
  PROVE  Total(b, DOMAIN b) = Total(b, DOMAIN b \ S) + Total(b, S)
<1> DEFINE D == DOMAIN b
           v == [i \in D |-> b[i].tokens]
<1>1. IsFiniteSet(D) /\ S \in SUBSET D /\ D \ S \in SUBSET D /\ D \in SUBSET D
  BY DEF Batch
<1>2. \A i \in D : v[i] \in Int
  BY DEF Batch, Responses, ReplayAssumption
<1>3. Total(b, D) = SumFunctionOnSet(v, D) /\ Total(b, S) = SumFunctionOnSet(v, S)
      /\ Total(b, D \ S) = SumFunctionOnSet(v, D \ S)
  <2> HIDE DEF D
  <2>1. QED
    BY <1>1, TotalIsSum
<1> HIDE DEF D, v
<1>4. (D \ S) \cap S = {} /\ (D \ S) \cup S = D
  BY <1>1
<1>5. SumFunctionOnSet(v, (D \ S) \cup S) = SumFunctionOnSet(v, D \ S) + SumFunctionOnSet(v, S)
  BY <1>1, <1>2, <1>4, SumDisjoint
<1>6. QED
  BY <1>3, <1>4, <1>5 DEF D

(* From a frozen reservoir the run may choose what the preflight could. *)
LEMMA ReservoirAssignments ==
  ASSUME ReplayAssumption, now \in Nat, NEW targets
  PROVE  Assignments(targets, Reservoir) = FrozenChoices(targets)
<1>1. \A g \in Reservoir : g.born = 0
  BY DEF ReplayAssumption
<1>2. \A g \in Reservoir, i \in targets : Distinct(g, i) <=> g.index # i
  BY <1>1 DEF Distinct
<1>3. QED
  BY <1>2 DEF Assignments, FrozenChoices

(* The invariant of PreflightIsKept: when a step is replayed, the forecast *)
(* is what some choice will book, and it is within the tolerances.         *)
Promised ==
  /\ row.stated = TRUE
  /\ row.accepted \subseteq DOMAIN rows
  /\ Total(rows, DOMAIN rows \ row.accepted) = Rest(row.tokens, row.accepted)
  /\ ~Stops(forecast, {1})
  /\ \E g \in Selected(ledger, row, Rest(row.tokens, row.accepted), FrozenChoices(row.accepted)) :
       forecast = Booked(ledger, row, Rest(row.tokens, row.accepted), g)

PreflightInv ==
  (mode = "reservoir" /\ parity = TRUE) =>
    /\ stage # "stopped"
    /\ stage # "replay" => ledger = forecast
    /\ stage = "replay" => Promised

(* The preflight's totals for a row move ahead of the ledger as it is generated. *)
LEMMA PreflightGenerate ==
  ASSUME ReplayAssumption, OriginalsInv, PreflightInv, Generate
  PROVE  PreflightInv'
<1> SUFFICES ASSUME mode' = "reservoir", parity' = TRUE
             PROVE  stage' = "replay" /\ Promised'
  BY Zenon DEF PreflightInv, Generate
<1>1. /\ stage = "generate" /\ stage' = "replay" /\ mode = "reservoir" /\ ledger' = ledger
      /\ rows' = produced' /\ now \in Nat
      /\ forecast' \in Forecasts(row')
  BY DEF Generate, OriginalsInv, ReplayTypes
<1>2. /\ parity = TRUE /\ row'.accepted \subseteq DOMAIN produced'
      /\ Total(produced', DOMAIN produced' \ row'.accepted)
           = Planned(row', DOMAIN row'.tokens \ row'.accepted)
  <2>1. parity' = (parity /\ row'.accepted \subseteq DOMAIN produced'
                       /\ Total(produced', DOMAIN produced' \ row'.accepted)
                            = Planned(row', DOMAIN row'.tokens \ row'.accepted))
    BY DEF Generate
  <2>2. parity \in BOOLEAN
    BY DEF OriginalsInv, ReplayTypes
  <2>3. QED
    BY <2>1, <2>2, Zenon
<1>3. ledger = forecast
  BY <1>1, <1>2, Zenon DEF PreflightInv
<1> DEFINE rest == Rest(row'.tokens, row'.accepted)
<1>4. Total(rows', DOMAIN rows' \ row'.accepted) = rest
  BY <1>1, <1>2 DEF Planned, Rest
<1>5. PICK g \in Selected(forecast, row', rest, Assignments(row'.accepted, Reservoir)) :
        /\ forecast' = Booked(forecast, row', rest, g) /\ ~Stops(forecast', {1})
        /\ row'.stated
  BY <1>1 DEF Forecasts
<1>6. Assignments(row'.accepted, Reservoir) = FrozenChoices(row'.accepted)
  BY <1>1, ReservoirAssignments
<1>7. row'.stated = TRUE
  <2>1. row'.stated \in BOOLEAN
    BY DEF Generate, ReplayAssumption
  <2>2. QED
    BY <1>5, <2>1, Zenon
<1>8. QED
  BY <1>1, <1>2, <1>3, <1>4, <1>5, <1>6, <1>7 DEF Promised

(* The replay of a row equals the forecast of it, when tokens and groups are B2's. *)
LEMMA PreflightReplay ==
  ASSUME ReplayAssumption, OriginalsInv, PreflightInv, Replay
  PROVE  PreflightInv'
<1> SUFFICES ASSUME mode' = "reservoir", parity' = TRUE
             PROVE  stage' = "update" /\ ledger' = forecast'
  BY Zenon DEF PreflightInv, Replay
<1> DEFINE rest == Rest(row.tokens, row.accepted)
           own == [i \in DOMAIN rows |-> rows[i].tokens]
<1>1. /\ stage = "replay" /\ mode = "reservoir" /\ parity = TRUE /\ forecast' = forecast
      /\ now \in Nat /\ Batch(rows) /\ ScheduleRow(row) /\ ledger \in Books
      /\ Stored(buffer) /\ Named /\ ReplayTypes
  BY DEF Replay, OriginalsInv, BatchInv, ReplayTypes
<1>2. Promised
  BY <1>1, Zenon DEF PreflightInv
<1>3. /\ Sources = Reservoir
      /\ Assignments(row.accepted, Sources) = FrozenChoices(row.accepted)
  BY <1>1, ReservoirAssignments DEF Sources
<1>4. Rest(own, row.accepted) = rest
  <2> DEFINE D == DOMAIN rows
             R == D \ row.accepted
  <2>1. IsFiniteSet(D) /\ R \in SUBSET D
    BY <1>1 DEF Batch
  <2>2. Total(rows, R) = SumFunctionOnSet([i \in D |-> rows[i].tokens], R)
    <3> HIDE DEF D, R
    <3>1. QED
      BY <2>1, TotalIsSum
  <2>3. Rest(own, row.accepted) = SumFunctionOnSet([i \in D |-> rows[i].tokens], R)
    BY DEF Rest
  <2>4. QED
    BY <1>2, <2>2, <2>3 DEF Promised
<1>5. PICK f \in Selected(ledger, row, Rest(own, row.accepted), Assignments(row.accepted, Sources)) :
        /\ rows' = Copied(f)
        /\ ledger' = [targetAux |-> ledger.targetAux + Planned(row, row.accepted),
                      aux       |-> ledger.aux + Total(rows', row.accepted),
                      targetOpt |-> ledger.targetOpt + Planned(row, DOMAIN row.tokens),
                      opt       |-> ledger.opt + Total(rows', DOMAIN rows')]
  <2>1. \A n : Expected(row, n) = Planned(row, DOMAIN row.tokens)
    BY <1>2 DEF Promised, Expected
  <2>2. QED
    BY <2>1 DEF Replay
<1>6. f \in Selected(ledger, row, rest, FrozenChoices(row.accepted)) /\ f \in [row.accepted -> Reservoir]
  BY <1>3, <1>4, <1>5 DEF Selected, FrozenChoices
<1>7. PICK g \in Selected(ledger, row, rest, FrozenChoices(row.accepted)) :
        forecast = Booked(ledger, row, rest, g)
  BY <1>2 DEF Promised
<1>8. Booked(ledger, row, rest, f) = Booked(ledger, row, rest, g)
  <2>1. rest \in Nat
    BY <1>1, RestIsNat DEF ReplayAssumption, ScheduleRow
  <2> HIDE DEF rest
  <2>2. \A h, k \in Selected(ledger, row, rest, FrozenChoices(row.accepted)) :
          Booked(ledger, row, rest, h) = Booked(ledger, row, rest, k)
    BY <1>1, <2>1, SameTotals
  <2>3. QED
    BY <1>6, <1>7, <2>2, Zenon
<1>9. /\ Batch(rows') /\ DOMAIN rows' = DOMAIN rows
      /\ \A i \in row.accepted : rows'[i] = f[i]
      /\ \A i \in DOMAIN rows \ row.accepted : rows'[i] = rows[i]
  BY <1>1, <1>2, <1>3, <1>5, <1>6, CopiedBatch DEF Promised
<1>10. Total(rows', row.accepted) = Total(f, DOMAIN f)
  <2>1. DOMAIN f = row.accepted
    BY <1>6
  <2>2. \A i \in row.accepted : rows'[i].tokens = f[i].tokens
    BY <1>9
  <2>3. QED
    BY <2>1, <2>2, TotalCongruent
<1>11. Total(rows', DOMAIN rows' \ row.accepted) = rest
  <2>1. \A i \in DOMAIN rows \ row.accepted : rows'[i].tokens = rows[i].tokens
    BY <1>9
  <2>2. Total(rows', DOMAIN rows \ row.accepted) = Total(rows, DOMAIN rows \ row.accepted)
    BY <2>1, TotalCongruent
  <2>3. QED
    BY <1>2, <1>9, <2>2 DEF Promised
<1>12. Total(rows', DOMAIN rows') = rest + Total(f, DOMAIN f)
  <2>1. row.accepted \in SUBSET DOMAIN rows'
    BY <1>2, <1>9 DEF Promised
  <2>2. QED
    BY <1>9, <1>10, <1>11, <2>1, TotalSplits
<1>13. ledger' = forecast
  <2> DEFINE t == Total(f, DOMAIN f)
  <2>1. ledger.opt \in Int /\ rest \in Int /\ t \in Int
    <3>1. IsFiniteSet(DOMAIN f) /\ \A i \in DOMAIN f : f[i].tokens \in Nat
      <4>1. DOMAIN f = row.accepted /\ IsFiniteSet(row.accepted)
        BY <1>1, <1>6, FS_Subset DEF ScheduleRow
      <4>2. \A h \in Reservoir : h.tokens \in Nat
        BY DEF ReplayAssumption
      <4>3. \A i \in row.accepted : f[i] \in Reservoir
        BY <1>6
      <4>4. QED
        BY <4>1, <4>2, <4>3, Zenon
    <3>2. rest \in Nat
      BY <1>1, RestIsNat DEF ReplayAssumption, ScheduleRow
    <3>3. QED
      BY <1>1, <3>1, <3>2, TotalIsNat DEF Books
  <2>2. Booked(ledger, row, rest, f) =
          [targetAux |-> ledger.targetAux + Planned(row, row.accepted),
           aux       |-> ledger.aux + t,
           targetOpt |-> ledger.targetOpt + Planned(row, DOMAIN row.tokens),
           opt       |-> ledger.opt + rest + t]
    BY <1>2 DEF Booked, Promised, Expected
  <2> HIDE DEF t, rest
  <2>3. ledger.opt + (rest + t) = ledger.opt + rest + t
    BY <2>1
  <2>4. ledger' = Booked(ledger, row, rest, f)
    BY <1>5, <1>10, <1>12, <2>2, <2>3 DEF t
  <2>5. QED
    BY <1>7, <1>8, <2>4
<1>14. stage' = "update"
  <2>1. ~Stops(ledger', {1})
    BY <1>2, <1>13 DEF Promised
  <2>2. ~Stops(ledger', row.accepted)
    BY <2>1 DEF Stops
  <2>3. QED
    BY <2>2 DEF Replay
<1>15. QED
  BY <1>1, <1>13, <1>14

(* No other step changes ledger or forecast. *)
LEMMA PreflightOtherSteps ==
  ASSUME ReplayAssumption, OriginalsInv, PreflightInv,
         RefuseReplay \/ UpdatePolicy \/ Validate \/ UNCHANGED replayVars
  PROVE  PreflightInv'
<1>1. CASE RefuseReplay
  <2> SUFFICES ASSUME mode = "reservoir", parity = TRUE PROVE FALSE
    BY <1>1, Zenon DEF PreflightInv, RefuseReplay
  <2>1. Promised /\ now \in Nat
    BY <1>1, Zenon DEF PreflightInv, RefuseReplay, OriginalsInv, ReplayTypes
  <2>2. FrozenChoices(row.accepted) # {}
    BY <2>1 DEF Promised, Selected
  <2>3. Assignments(row.accepted, Sources) = FrozenChoices(row.accepted)
    BY <2>1, ReservoirAssignments DEF Sources
  <2>4. QED
    BY <1>1, <2>1, <2>2, <2>3 DEF RefuseReplay, Promised
<1>2. CASE UpdatePolicy \/ Validate
  <2>1. /\ stage \in {"update", "done"} /\ stage' \in {"generate", "done", "valid", "rejected"}
        /\ UNCHANGED <<mode, parity, ledger, forecast>>
    BY <1>2 DEF UpdatePolicy, Validate
  <2>2. stage # "replay" /\ stage' # "replay" /\ stage' # "stopped"
    BY <2>1
  <2>3. QED
    BY <2>1, <2>2, Zenon DEF PreflightInv
<1>3. CASE UNCHANGED replayVars
  BY <1>3 DEF PreflightInv, Promised, replayVars
<1>4. QED
  BY <1>1, <1>2, <1>3

(* While the tokens that are not replaced are B2's, the reservoir arm      *)
(* books what preflight_e2c.py worked out, whichever of the tied choices   *)
(* the seeded order takes, and so replay_batch never stops it.             *)
THEOREM PreflightIsKeptHolds == ReplaySpec => []PreflightIsKept
<1>1. ReplayInit => PreflightInv
  <2> SUFFICES ASSUME ReplayInit PROVE PreflightInv
    OBVIOUS
  <2>1. stage = "generate" /\ ledger = forecast
    BY DEF ReplayInit
  <2>2. stage # "replay" /\ stage # "stopped"
    BY <2>1
  <2>3. QED
    BY <2>1, <2>2, Zenon DEF PreflightInv
<1>2. OriginalsInv /\ PreflightInv /\ [ReplayNext]_replayVars => PreflightInv'
  BY ReplayAssumption, PreflightGenerate, PreflightReplay, PreflightOtherSteps DEF ReplayNext
<1>3. PreflightInv /\ OriginalsInv => PreflightIsKept
  <2>1. ASSUME OriginalsInv PROVE parity \in BOOLEAN
    BY <2>1 DEF OriginalsInv, ReplayTypes
  <2>2. QED
    BY <2>1, Zenon DEF PreflightInv, PreflightIsKept
<1>4. QED
  BY <1>1, <1>2, <1>3, OriginalsInvHolds, PTL DEF ReplaySpec
===============================================================================
