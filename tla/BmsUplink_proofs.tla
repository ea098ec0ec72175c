-------------------------- MODULE BmsUplink_proofs --------------------------
(***************************************************************************)
(* Proofs about BmsCache and BmsUplink, for every ring size, every set of  *)
(* snapshots and every bound: which slot of the ring a sequence number     *)
(* takes, what push keeps true, what a reader finds between its cursor and *)
(* the newest sample; then what a report finds in the ring, the inductive  *)
(* invariant of the reporter, and the theorems.                            *)
(***************************************************************************)
EXTENDS BmsUplink, FiniteSetTheorems, SequenceTheorems, TLAPS

-----------------------------------------------------------------------------
(* Slots                                                                   *)

(* Division by a positive number, as the solver needs it.                  *)
LEMMA Division ==
  ASSUME NEW a \in Nat, NEW k \in Nat \ {0}
  PROVE  a = k * (a \div k) + (a % k) /\ a % k \in 0..(k - 1) /\ a \div k \in Nat
OBVIOUS

(* Multiples of k less than k apart are equal.                             *)
LEMMA SameMultiple ==
  ASSUME NEW k \in Nat \ {0}, NEW x \in Int, NEW y \in Int,
         k * x - k * y < k, k * y - k * x < k
  PROVE  x = y
OBVIOUS

(* Every sequence number has a slot, and the first CAPACITY ones are in    *)
(* order.                                                                  *)
LEMMA IdxInSlot ==
  ASSUME NEW q \in Nat \ {0}
  PROVE  Idx(q) \in Slot /\ (q <= CAPACITY => Idx(q) = q)
BY CapacityAssumption DEF Idx, Slot

(* Sequence numbers closer than CAPACITY never share a slot.               *)
LEMMA IdxDistinct ==
  ASSUME NEW a \in Nat \ {0}, NEW b \in Nat \ {0}, a < b, b - a < CAPACITY
  PROVE  Idx(a) # Idx(b)
<1> DEFINE x == a - 1
           y == b - 1
           dx == x \div CAPACITY
           dy == y \div CAPACITY
<1>1. SUFFICES ASSUME x % CAPACITY = y % CAPACITY PROVE FALSE
  BY CapacityAssumption DEF Idx
<1>2. /\ x = CAPACITY * dx + (x % CAPACITY) /\ dx \in Nat /\ x % CAPACITY \in Int
      /\ y = CAPACITY * dy + (y % CAPACITY) /\ dy \in Nat
  <2>1. x \in Nat /\ y \in Nat /\ CAPACITY \in Nat \ {0}
    BY CapacityAssumption
  <2> HIDE DEF x, y
  <2>2. QED BY <2>1, Division
<1>3. CAPACITY * dy - CAPACITY * dx = b - a
  <2> HIDE DEF dx, dy
  <2>1. QED BY <1>1, <1>2, CapacityAssumption
<1>4. dx = dy
  <2> HIDE DEF dx, dy
  <2>1. CAPACITY * dy - CAPACITY * dx < CAPACITY /\ CAPACITY * dx - CAPACITY * dy < CAPACITY
    BY <1>2, <1>3, CapacityAssumption
  <2>2. QED BY <1>2, <2>1, SameMultiple, CapacityAssumption
<1>5. QED
  <2> HIDE DEF dx, dy
  <2>1. QED BY <1>2, <1>3, <1>4, CapacityAssumption

(* A slot comes round again after CAPACITY samples.                        *)
LEMMA IdxPeriodic ==
  ASSUME NEW q \in Nat \ {0}
  PROVE  Idx(q + CAPACITY) = Idx(q)
<1> DEFINE x == q - 1
           y == x + CAPACITY
           dx == x \div CAPACITY
           dy == y \div CAPACITY
<1>1. x \in Nat /\ y \in Nat /\ CAPACITY \in Nat \ {0}
  BY CapacityAssumption
<1>2. /\ x = CAPACITY * dx + (x % CAPACITY) /\ dx \in Nat /\ x % CAPACITY \in 0..(CAPACITY - 1)
      /\ y = CAPACITY * dy + (y % CAPACITY) /\ dy \in Nat /\ y % CAPACITY \in 0..(CAPACITY - 1)
  <2> HIDE DEF x, y
  <2>1. QED BY <1>1, Division
<1>3. CAPACITY * (dx + 1) = CAPACITY * dx + CAPACITY
  <2> HIDE DEF dx
  <2>1. QED BY <1>1, <1>2
<1>4. y = x + CAPACITY
  OBVIOUS
<1>5. dy = dx + 1
  <2> HIDE DEF x, y, dx, dy
  <2>1. /\ CAPACITY * dy - CAPACITY * (dx + 1) < CAPACITY
        /\ CAPACITY * (dx + 1) - CAPACITY * dy < CAPACITY
    BY <1>1, <1>2, <1>3, <1>4
  <2>2. QED BY <1>1, <1>2, <2>1, SameMultiple
<1>6. x % CAPACITY = y % CAPACITY
  <2> HIDE DEF x, y, dx, dy
  <2>1. QED BY <1>1, <1>2, <1>3, <1>4, <1>5
<1>7. QED
  BY <1>6, CapacityAssumption DEF Idx

-----------------------------------------------------------------------------
(* The ring                                                                *)

(* The ring's inductive invariant.  A slot never used is one that no       *)
(* sequence number has reached, which is what makes the overwritten count  *)
(* exact.                                                                  *)
CacheInv ==
  /\ slots \in [Slot -> Sample \cup {NoSample}]
  /\ slot_seq \in [Slot -> Nat]
  /\ pushed \in Nat
  /\ count = IF pushed < CAPACITY THEN pushed ELSE CAPACITY
  /\ overwritten = pushed - count
  /\ \A i \in Slot : /\ slot_seq[i] <= pushed
                     /\ slot_seq[i] # 0 => slots[i] \in Sample
                     /\ i > pushed => slot_seq[i] = 0
  /\ \A q \in 1..pushed : q > pushed - count => slot_seq[Idx(q)] = q

LEMMA CacheInvInit == CacheInit => CacheInv
BY CapacityAssumption DEF CacheInit, CacheInv, Slot

(* push keeps the invariant, whatever sample it writes.                    *)
LEMMA PushKeepsCacheInv ==
  ASSUME CacheInv, NEW sample \in Sample, Push(sample)
  PROVE  CacheInv'
<1> DEFINE idx == Idx(pushed + 1)
<1> USE CapacityAssumption
<1>1. /\ pushed \in Nat /\ pushed' = pushed + 1 /\ idx \in Slot
      /\ slots' = [slots EXCEPT ![idx] = sample]
      /\ slot_seq' = [slot_seq EXCEPT ![idx] = pushed + 1]
      /\ slots \in [Slot -> Sample \cup {NoSample}] /\ slot_seq \in [Slot -> Nat]
  BY IdxInSlot DEF CacheInv, Push
<1>2. /\ slots' \in [Slot -> Sample \cup {NoSample}]
      /\ slot_seq' \in [Slot -> Nat]
      /\ pushed' \in Nat
  <2> HIDE DEF idx
  <2>1. QED BY <1>1
<1>3. count' = IF pushed' < CAPACITY THEN pushed' ELSE CAPACITY
  BY DEF CacheInv, Push
<1>4. ASSUME NEW i \in Slot
      PROVE  /\ slot_seq'[i] <= pushed'
             /\ slot_seq'[i] # 0 => slots'[i] \in Sample
             /\ i > pushed' => slot_seq'[i] = 0
  <2>1. CASE i = idx
    <3>1. slot_seq'[i] = pushed + 1 /\ slots'[i] = sample
      <4> HIDE DEF idx
      <4>1. QED BY <1>1, <2>1
    <3>2. ~(i > pushed')
      <4>1. CASE pushed + 1 <= CAPACITY
        BY <1>1, <2>1, <4>1, IdxInSlot
      <4>2. CASE pushed + 1 > CAPACITY
        BY <1>1, <4>2 DEF Slot
      <4>3. QED BY <1>1, <4>1, <4>2
    <3>3. QED BY <1>1, <3>1, <3>2
  <2>2. CASE i # idx
    <3>1. slot_seq'[i] = slot_seq[i] /\ slots'[i] = slots[i]
      <4> HIDE DEF idx
      <4>1. QED BY <1>1, <2>2
    <3>2. QED BY <1>1, <3>1 DEF CacheInv, Slot
  <2>3. QED BY <2>1, <2>2
<1>5. ASSUME NEW q \in 1..pushed', q > pushed' - count'
      PROVE  slot_seq'[Idx(q)] = q
  <2>1. CASE q = pushed + 1
    <3> HIDE DEF idx
    <3>1. Idx(q) = idx
      BY <2>1 DEF idx
    <3>2. QED BY <1>1, <2>1, <3>1
  <2>2. CASE q # pushed + 1
    <3>1. q \in 1..pushed /\ q > pushed - count
      BY <1>1, <1>3, <1>5, <2>2 DEF CacheInv
    <3>2. pushed + 1 - q < CAPACITY
      BY <1>1, <1>3, <1>5
    <3>3. Idx(q) # idx
      BY <1>1, <3>1, <3>2, IdxDistinct
    <3>4. Idx(q) \in Slot
      BY <3>1, IdxInSlot
    <3>5. slot_seq'[Idx(q)] = slot_seq[Idx(q)]
      <4> HIDE DEF idx
      <4>1. QED BY <1>1, <3>3, <3>4
    <3>6. QED BY <3>1, <3>5 DEF CacheInv
  <2>3. QED BY <2>1, <2>2
<1>6. overwritten' = pushed' - count'
  <2>1. CASE pushed < CAPACITY
    <3>1. idx = pushed + 1
      BY <1>1, <2>1, IdxInSlot
    <3>2. slot_seq[idx] = 0
      BY <1>1, <3>1 DEF CacheInv
    <3>3. QED BY <2>1, <3>2 DEF CacheInv, Push
  <2>2. CASE pushed >= CAPACITY
    <3> DEFINE q == pushed + 1 - CAPACITY
    <3>1. q \in 1..pushed /\ q > pushed - count /\ q + CAPACITY = pushed + 1
      BY <1>1, <2>2 DEF CacheInv
    <3>2. idx = Idx(q)
      BY <3>1, IdxPeriodic
    <3>3. slot_seq[idx] # 0
      BY <3>1, <3>2 DEF CacheInv
    <3>4. QED BY <1>1, <2>2, <3>3 DEF CacheInv, Push
  <2>3. QED BY <1>1, <2>1, <2>2
<1>7. QED
  BY <1>2, <1>3, <1>4, <1>5, <1>6 DEF CacheInv

(* The two invariants of the ring that the runs check.                     *)
LEMMA CacheInvImplies == CacheInv => CacheTypeOK /\ RingHoldsNewest
<1> SUFFICES ASSUME CacheInv PROVE CacheTypeOK /\ RingHoldsNewest
  OBVIOUS
<1> USE CapacityAssumption
<1>1. CacheTypeOK
  BY DEF CacheInv, CacheTypeOK
<1>2. ASSUME NEW q \in (pushed - count + 1)..pushed
      PROVE  slot_seq[Idx(q)] = q /\ slots[Idx(q)] # NoSample
  <2>1. q \in 1..pushed /\ q > pushed - count
    BY DEF CacheInv
  <2>2. slot_seq[Idx(q)] = q /\ Idx(q) \in Slot
    BY <2>1, IdxInSlot DEF CacheInv
  <2>3. QED BY <2>1, <2>2 DEF CacheInv
<1>3. overwritten = pushed - count /\ (count < CAPACITY => count = pushed)
  BY DEF CacheInv
<1>4. QED
  BY <1>1, <1>2, <1>3 DEF RingHoldsNewest

-----------------------------------------------------------------------------
(* Readers                                                                 *)

(* What since() answers to a cursor that is not ahead of the ring: exactly *)
(* the samples between the ring's oldest and its newest that the cursor    *)
(* has not passed, the newest number as next cursor, and a loss that makes *)
(* up for the rest.                                                        *)
LEMMA SinceIsExact ==
  ASSUME CacheInv, NEW after \in Nat, after <= pushed
  PROVE  /\ Since(after).seqs = {q \in (after + 1)..pushed : q > pushed - count}
         /\ Since(after).latest = pushed
         /\ Since(after).lost = IF after < pushed - count THEN pushed - count - after ELSE 0
<1> USE CapacityAssumption
<1>1. pushed \in Nat /\ count \in Nat /\ count <= pushed
  BY DEF CacheInv
<1>2. CASE count = 0
  <2>1. pushed = 0
    BY <1>2 DEF CacheInv
  <2>2. QED BY <1>1, <1>2, <2>1 DEF Since
<1>3. CASE count # 0
  <2> DEFINE from == IF after + 1 > OldestSeq THEN after + 1 ELSE OldestSeq
  <2>1. OldestSeq = pushed - count + 1
    BY <1>3 DEF OldestSeq
  <2>2. Since(after) = [seqs |-> Held(from, pushed), latest |-> pushed,
                        lost |-> IF after < OldestSeq - 1 THEN OldestSeq - 1 - after ELSE 0]
    BY <1>1, <1>3 DEF Since
  <2>3. from..pushed = {q \in (after + 1)..pushed : q > pushed - count}
    BY <1>1, <2>1
  <2>4. ASSUME NEW q \in from..pushed PROVE slot_seq[Idx(q)] = q
    BY <1>1, <2>1, <2>3 DEF CacheInv
  <2>5. Held(from, pushed) = from..pushed
    BY <2>4 DEF Held
  <2>6. QED BY <1>1, <2>1, <2>2, <2>3, <2>5
<1>4. QED BY <1>2, <1>3

(* A sample the ring holds is in its slot, and is a sample.                *)
LEMMA HeldIsSample ==
  ASSUME CacheInv, NEW q \in 1..pushed, q > pushed - count
  PROVE  /\ Idx(q) \in Slot
         /\ slot_seq[Idx(q)] = q
         /\ slots[Idx(q)] \in Sample
BY CapacityAssumption, IdxInSlot DEF CacheInv

-----------------------------------------------------------------------------
(* The newest time of a window                                             *)

LEMMA LeastNat ==
  ASSUME NEW T, T \subseteq Nat, T # {}
  PROVE  \E x \in T : \A y \in T : x <= y
<1>1. PICK x \in T : \A y \in T : <<y, x>> \notin OpToRel(<, Nat)
  BY WFMin, NatLessThanWellFounded, Zenon
<1>2. \A y \in T : ~(y < x)
  BY <1>1, Zenon DEF OpToRel
<1>3. QED
  BY <1>2

(* A finite set of natural numbers is bounded: otherwise, of the prefixes  *)
(* of an enumeration, some shortest one is unbounded.                      *)
LEMMA FiniteNatsBounded ==
  ASSUME NEW S, S \subseteq Nat, IsFiniteSet(S)
  PROVE  \E b \in Nat : \A x \in S : x <= b
<1>1. PICK n \in Nat : ExistsSurjection(1..n, S)
  BY FS_NatSurjection
<1>2. PICK f \in [1..n -> S] : \A x \in S : \E i \in 1..n : f[i] = x
  BY <1>1 DEF ExistsSurjection, Surjection
<1> DEFINE Bounded(k) == \E b \in Nat : \A i \in 1..k : f[i] <= b
           Unbounded == {k \in 0..n : ~Bounded(k)}
<1>3. Bounded(0)
  <2>1. \A i \in 1..0 : f[i] <= 0
    OBVIOUS
  <2>2. QED BY <2>1
<1>4. ASSUME NEW k \in 1..n, Bounded(k - 1) PROVE Bounded(k)
  <2>1. PICK b \in Nat : \A i \in 1..(k - 1) : f[i] <= b
    BY <1>4
  <2>2. f[k] \in Nat
    BY <1>2
  <2>3. ASSUME NEW i \in 1..k PROVE f[i] <= b + f[k]
    <3>1. CASE i = k
      BY <2>1, <2>2, <3>1
    <3>2. CASE i # k
      <4>1. i \in 1..(k - 1) /\ i \in 1..n
        BY <1>1, <3>2
      <4>2. f[i] <= b /\ f[i] \in Nat
        BY <1>2, <2>1, <4>1
      <4>3. QED BY <2>2, <4>2
    <3>3. QED BY <3>1, <3>2
  <2>4. b + f[k] \in Nat
    BY <2>1, <2>2
  <2>5. QED BY <2>3, <2>4
<1>5. Bounded(n)
  <2> HIDE DEF Bounded
  <2>1. SUFFICES ASSUME Unbounded # {} PROVE FALSE
    BY <1>1
  <2>2. PICK k \in Unbounded : \A j \in Unbounded : k <= j
    <3>1. Unbounded \subseteq Nat
      BY <1>1
    <3> HIDE DEF Unbounded
    <3>2. QED BY <2>1, <3>1, LeastNat
  <2>3. k \in 1..n
    BY <1>1, <1>3, <2>2
  <2>4. Bounded(k - 1)
    BY <1>1, <2>2, <2>3
  <2>5. QED BY <1>4, <2>2, <2>3, <2>4
<1>6. QED BY <1>2, <1>5

LEMMA MaxOfNats ==
  ASSUME NEW S, S \subseteq Nat, IsFiniteSet(S), S # {}
  PROVE  Max(S) \in S /\ \A x \in S : Max(S) >= x
<1>1. PICK b \in Nat : \A x \in S : x <= b
  BY FiniteNatsBounded
<1> DEFINE Gaps == {d \in Nat : \E x \in S : x + d = b}
<1>2. PICK d \in Gaps : \A e \in Gaps : d <= e
  <2>1. PICK x \in S : TRUE
    OBVIOUS
  <2>2. b - x \in Gaps
    BY <1>1, <2>1
  <2>3. QED BY <2>2, LeastNat
<1>3. PICK m \in S : m + d = b
  BY <1>2
<1>4. \A x \in S : m >= x
  <2>1. SUFFICES ASSUME NEW x \in S PROVE m >= x
    OBVIOUS
  <2>2. b - x \in Gaps
    BY <1>1
  <2>3. QED BY <1>2, <1>3, <2>2
<1>5. QED BY <1>3, <1>4 DEF Max

-----------------------------------------------------------------------------
(* What a report finds                                                     *)

(* The collected samples are numbered without gaps, and the ring holds     *)
(* them under their numbers.                                               *)
RingIsHistory ==
  /\ collected \in Seq(Sample) /\ Len(collected) = pushed
  /\ \A i \in Slot : slot_seq[i] # 0 => slots[i] = collected[slot_seq[i]]

(* Items that say of each sample what was collected under its number.      *)
Faithful(items, cellCount, base) ==
  \A it \in items : /\ it.seq \in 1..pushed
                    /\ collected[it.seq].ts = base - it.off
                    /\ collected[it.seq].cellCount = cellCount

LEMMA SampleType ==
  ASSUME NEW s \in Sample
  PROVE  s.cellCount \in 0..MAX_CELLS /\ s.ts \in Nat
BY UplinkAssumption

LEMMA NormalizeType ==
  ASSUME NEW snap \in Snapshot
  PROVE  Normalize(snap) \in Sample
BY UplinkAssumption DEF Normalize

(* build_batch covers exactly the samples between the cursor and the       *)
(* newest one, keeps items the format can encode, copies them faithfully,  *)
(* and accounts for every sample it does not keep.                         *)
LEMMA BatchIsExact ==
  ASSUME CacheInv, RingIsHistory, last_reported_seq \in Nat, last_reported_seq <= pushed
  PROVE  /\ BatchOf(BuildBatch) \in Batch
         /\ BuildBatch.latest = pushed
         /\ \A it \in BuildBatch.items : it.seq \in (last_reported_seq + 1)..pushed
         /\ Faithful(BuildBatch.items, BuildBatch.cellCount, BuildBatch.base)
         /\ IsFiniteSet(BuildBatch.items)
         /\ BuildBatch.uncounted \in Nat
         /\ Cardinality(BuildBatch.items) + BuildBatch.uncounted = pushed - last_reported_seq
         /\ Cardinality(SeqsOf(BuildBatch.items)) = Cardinality(BuildBatch.items)
         /\ IsFiniteSet(SeqsOf(BuildBatch.items))
<1> DEFINE cur == last_reported_seq
           w == Since(cur)
           win == {q \in (cur + 1)..pushed : q > pushed - count}
           first == pushed - count
           times == {0} \cup {SampleOf(q).ts : q \in win}
           base == Max(times)
           kept == {q \in win : Fits(q, base)}
           item == [q \in kept |-> [seq |-> q, off |-> base - SampleOf(q).ts]]
           items == {[seq |-> q, off |-> base - SampleOf(q).ts] : q \in kept}
           cc == IF count = 0 THEN 0 ELSE Latest.cellCount
<1>1. /\ pushed \in Nat /\ count \in 0..pushed /\ cur \in Nat /\ cur <= pushed
  BY CapacityAssumption DEF CacheInv
<1>2. /\ w.seqs = win /\ w.latest = pushed
      /\ w.lost = IF cur < pushed - count THEN pushed - count - cur ELSE 0
  BY <1>1, SinceIsExact
<1>3. BuildBatch = [items |-> items, cellCount |-> cc, base |-> base, latest |-> pushed,
                    uncounted |-> w.lost + Cardinality(win \ kept)]
  <2>1. ~(pushed < cur)
    BY <1>1
  <2>2. QED BY <1>2, <2>1 DEF BuildBatch
<1>4. ASSUME NEW q \in win
      PROVE  /\ q \in 1..pushed /\ SampleOf(q) \in Sample
             /\ SampleOf(q).ts \in Nat /\ SampleOf(q).cellCount \in 0..MAX_CELLS
             /\ SampleOf(q) = collected[q]
  <2>1. q \in 1..pushed /\ q > pushed - count
    BY <1>1
  <2>2. Idx(q) \in Slot /\ slot_seq[Idx(q)] = q /\ SampleOf(q) \in Sample
    BY <2>1, HeldIsSample DEF SampleOf
  <2>3. SampleOf(q) = collected[q]
    BY <2>1, <2>2 DEF RingIsHistory, SampleOf
  <2>4. QED BY <2>1, <2>2, <2>3, SampleType
<1>5. /\ IsFiniteSet(win) /\ kept \subseteq win /\ IsFiniteSet(kept)
      /\ Cardinality(win) = pushed - (IF cur < first THEN first ELSE cur)
  <2>1. win = (IF cur < first THEN first + 1 ELSE cur + 1)..pushed
    BY <1>1
  <2>2. /\ IsFiniteSet(win)
        /\ Cardinality(win) = pushed - (IF cur < first THEN first ELSE cur)
    <3> HIDE DEF win
    <3>1. CASE cur < first
      <4>1. win = (first + 1)..pushed
        BY <2>1, <3>1
      <4>2. QED
        <5>1. first + 1 \in Int /\ pushed \in Int
          BY <1>1
        <5> HIDE DEF first
        <5>2. /\ IsFiniteSet((first + 1)..pushed)
              /\ Cardinality((first + 1)..pushed) =
                    IF first + 1 > pushed THEN 0 ELSE pushed - (first + 1) + 1
          BY <5>1, FS_Interval
        <5>3. first \in Int /\ first <= pushed
          BY <1>1 DEF first
        <5>4. QED BY <1>1, <3>1, <4>1, <5>2, <5>3
    <3>2. CASE ~(cur < first)
      <4>1. win = (cur + 1)..pushed
        BY <2>1, <3>2
      <4>2. QED
        <5>1. /\ IsFiniteSet((cur + 1)..pushed)
              /\ Cardinality((cur + 1)..pushed) =
                    IF cur + 1 > pushed THEN 0 ELSE pushed - (cur + 1) + 1
          BY <1>1, FS_Interval
        <5>2. QED BY <1>1, <3>2, <4>1, <5>1
    <3>3. QED BY <3>1, <3>2
  <2>3. kept \subseteq win
    OBVIOUS
  <2>4. QED
    <3> HIDE DEF kept, win
    <3>1. QED BY <2>2, <2>3, FS_Subset
<1>6. base \in Nat /\ \A q \in win : base >= SampleOf(q).ts
  <2> DEFINE ts == [q \in win |-> SampleOf(q).ts]
             T == {SampleOf(q).ts : q \in win}
  <2>1. ts \in Surjection(win, T)
    BY DEF Surjection
  <2>2. IsFiniteSet(T) /\ T \subseteq Nat
    <3>1. T \subseteq Nat
      BY <1>4
    <3> HIDE DEF ts, T, win
    <3>2. QED BY <1>5, <2>1, <3>1, FS_Surjection
  <2>3. times = {0} \cup T
    OBVIOUS
  <2>4. IsFiniteSet(times) /\ times \subseteq Nat /\ times # {}
    <3> HIDE DEF T, times
    <3>1. IsFiniteSet({0})
      BY FS_Singleton
    <3>2. IsFiniteSet({0} \cup T)
      BY <2>2, <3>1, FS_Union
    <3>3. QED BY <2>2, <2>3, <3>2
  <2>5. base \in times /\ \A x \in times : base >= x
    <3> HIDE DEF times
    <3>1. QED BY <2>4, MaxOfNats
  <2>6. QED BY <2>4, <2>5
<1>7. cc \in 0..MAX_CELLS /\ (\A q \in kept : SampleOf(q).cellCount = cc)
  <2>1. CASE count = 0
    BY <1>1, <2>1, UplinkAssumption
  <2>2. CASE count # 0
    <3>1. Latest \in Sample
      BY <1>1, <2>2, HeldIsSample DEF Latest
    <3>2. QED BY <2>2, <3>1, SampleType DEF Fits
  <2>3. QED BY <2>1, <2>2
<1>8. ASSUME NEW q \in kept
      PROVE  /\ item[q] = [seq |-> q, off |-> base - SampleOf(q).ts]
             /\ base - SampleOf(q).ts \in 0..MaxOffset
             /\ item[q] \in Item /\ item[q].seq = q
  <2>1. q \in win /\ base - SampleOf(q).ts <= MaxOffset
    BY DEF Fits
  <2>2. SampleOf(q).ts \in Nat /\ base >= SampleOf(q).ts /\ base \in Nat /\ q \in Nat
    BY <1>4, <1>6, <2>1
  <2>3. item[q] = [seq |-> q, off |-> base - SampleOf(q).ts]
    OBVIOUS
  <2> HIDE DEF base, kept, win, item
  <2>4. QED BY <2>1, <2>2, <2>3, UplinkAssumption DEF Item
<1>9. items = {item[q] : q \in kept}
  OBVIOUS
<1>10. /\ SeqsOf(items) = kept
       /\ IsFiniteSet(items) /\ Cardinality(items) = Cardinality(kept)
  <2> HIDE DEF items, item, kept
  <2>1. item \in [kept -> items]
    BY <1>9 DEF item
  <2>2. item \in Bijection(kept, items)
    <3>1. \A a, b \in kept : item[a] = item[b] => a = b
      BY <1>8
    <3>2. \A t \in items : \E q \in kept : item[q] = t
      BY <1>9
    <3>3. DOMAIN item = kept
      BY <2>1
    <3>4. QED BY <2>1, <3>1, <3>2, <3>3 DEF Bijection, Injection, Surjection, IsInjective
  <2>3. IsFiniteSet(items) /\ Cardinality(items) = Cardinality(kept)
    BY <1>5, <2>2, FS_Bijection DEF ExistsBijection
  <2>4. SeqsOf(items) = kept
    BY <1>8, <1>9 DEF SeqsOf
  <2>5. QED BY <2>3, <2>4
<1>11. items \subseteq Item /\ Faithful(items, cc, base)
       /\ \A it \in items : it.seq \in (cur + 1)..pushed
  <2>1. SUFFICES ASSUME NEW q \in kept
                 PROVE  /\ item[q] \in Item /\ item[q].seq \in (cur + 1)..pushed
                        /\ item[q].seq \in 1..pushed
                        /\ collected[item[q].seq].ts = base - item[q].off
                        /\ collected[item[q].seq].cellCount = cc
    <3> HIDE DEF items, item, kept, base, cc
    <3>1. QED BY <1>9 DEF Faithful
  <2>2. q \in win
    BY <1>5
  <2>3. q \in 1..pushed /\ SampleOf(q) = collected[q] /\ SampleOf(q).ts \in Nat
        /\ q \in (cur + 1)..pushed
    BY <1>4, <2>2
  <2>4. SampleOf(q).cellCount = cc
    BY <1>7
  <2>5. item[q].off = base - SampleOf(q).ts /\ item[q].seq = q /\ item[q] \in Item
    BY <1>8
  <2> HIDE DEF item, base, cc, kept, win
  <2>6. QED BY <1>6, <2>3, <2>4, <2>5
<1>12. /\ w.lost + Cardinality(win \ kept) \in Nat
       /\ Cardinality(items) + (w.lost + Cardinality(win \ kept)) = pushed - cur
  <2> HIDE DEF win, kept, items, w
  <2>1. IsFiniteSet(win \ kept) /\ Cardinality(win \ kept) = Cardinality(win) - Cardinality(kept)
    <3>1. win \cap kept = kept
      BY <1>5
    <3>2. /\ IsFiniteSet(win \ kept)
          /\ Cardinality(win \ kept) = Cardinality(win) - Cardinality(win \cap kept)
      BY <1>5, FS_Difference
    <3>3. QED BY <3>1, <3>2
  <2>2. Cardinality(win \ kept) \in Nat /\ Cardinality(kept) \in Nat /\ Cardinality(win) \in Nat
    BY <1>5, <2>1, FS_CardinalityType
  <2>3. QED BY <1>1, <1>2, <1>5, <1>10, <2>1, <2>2
<1>13. QED
  <2> HIDE DEF win, kept, items, w, cc, base, item
  <2>1. /\ BuildBatch.items = items /\ BuildBatch.cellCount = cc /\ BuildBatch.base = base
        /\ BuildBatch.latest = pushed
        /\ BuildBatch.uncounted = w.lost + Cardinality(win \ kept)
    BY <1>3
  <2>2. BatchOf(BuildBatch) \in Batch
    BY <1>1, <1>6, <1>7, <1>11, <2>1 DEF BatchOf, Batch
  <2>3. QED BY <1>5, <1>10, <1>11, <1>12, <2>1, <2>2
-----------------------------------------------------------------------------
(* The inductive invariant                                                 *)

PayloadSet == [items : SUBSET Item, cellCount : 0..MAX_CELLS, base : Nat]

FlagTypes ==
  /\ mqttc \in BOOLEAN /\ mqtt_ready \in BOOLEAN /\ sock_ready \in BOOLEAN
  /\ ntp_ready \in BOOLEAN /\ encoding \in BOOLEAN

ReportTypes ==
  /\ last_reported_seq \in Nat /\ last_reported_seq <= pushed
  /\ lost \in Nat /\ encode_fail \in Nat
  /\ batch \in Batch
  /\ sent \in Seq(PayloadSet)

(* Batch b, with a loss count of l, can be settled: it lies between the    *)
(* cursor and the newest sample, its items are faithful, and items, losses *)
(* and what was sent before make up for everything up to its end.          *)
Covers(b, l) ==
  /\ b.latest \in last_reported_seq..pushed
  /\ \A it \in b.items : it.seq \in (last_reported_seq + 1)..b.latest
  /\ Faithful(b.items, b.cellCount, b.base)
  /\ IsFiniteSet(b.items) /\ IsFiniteSet(SeqsOf(b.items))
  /\ Cardinality(SeqsOf(b.items)) = Cardinality(b.items)
  /\ Cardinality(SentSeqs) + l + Cardinality(b.items) >= b.latest
  /\ encode_fail = 0 => Cardinality(SentSeqs) + l + Cardinality(b.items) = b.latest

(* What was sent is behind the cursor, in order, and faithful.             *)
SentInv ==
  /\ \A i \in DOMAIN sent : /\ Faithful(sent[i].items, sent[i].cellCount, sent[i].base)
                            /\ \A a \in SeqsOf(sent[i].items) : a \in 1..last_reported_seq
  /\ WindowsOrdered

LossInv ==
  /\ IsFiniteSet(SentSeqs)
  /\ Cardinality(SentSeqs) + lost >= last_reported_seq
  /\ encode_fail = 0 /\ ~encoding => Cardinality(SentSeqs) + lost = last_reported_seq

CoreInv ==
  /\ CacheInv /\ RingIsHistory /\ ReportTypes
  /\ IF encoding THEN Covers(batch, lost) ELSE batch = NoBatch
  /\ SentInv /\ LossInv

UplinkInv == CoreInv /\ FlagTypes

(* The invariant reads only the cache, the reporter and the histories.     *)
LEMMA CoreInvUnchanged ==
  ASSUME CoreInv, UNCHANGED <<cacheVars, reportVars, collected>>
  PROVE  CoreInv'
<1>1. /\ slots' = slots /\ slot_seq' = slot_seq /\ pushed' = pushed /\ count' = count
      /\ overwritten' = overwritten /\ collected' = collected
      /\ last_reported_seq' = last_reported_seq /\ lost' = lost /\ encode_fail' = encode_fail
      /\ encoding' = encoding /\ batch' = batch /\ sent' = sent
  BY DEF cacheVars, reportVars
<1>2. CacheInv' /\ RingIsHistory'
  BY <1>1 DEF CoreInv, CacheInv, RingIsHistory, Slot, Idx
<1>3. ReportTypes'
  BY <1>1 DEF CoreInv, ReportTypes, PayloadSet, Batch, Item
<1>4. SentSeqs' = SentSeqs
  BY <1>1 DEF SentSeqs, SeqsOf
<1>5. IF encoding' THEN Covers(batch, lost)' ELSE batch' = NoBatch
  <2>1. CASE encoding
    <3>1. Covers(batch, lost)
      BY <2>1 DEF CoreInv
    <3>2. Covers(batch, lost)'
      BY <1>1, <1>4, <3>1 DEF Covers, Faithful, SeqsOf
    <3>3. QED BY <1>1, <2>1, <3>2
  <2>2. CASE ~encoding
    BY <1>1, <2>2 DEF CoreInv
  <2>3. QED BY <2>1, <2>2
<1>6. SentInv'
  BY <1>1 DEF CoreInv, SentInv, Faithful, SeqsOf, WindowsOrdered
<1>7. LossInv'
  BY <1>1, <1>4 DEF CoreInv, LossInv
<1>8. NoBatch' = NoBatch
  BY DEF NoBatch
<1>9. QED BY <1>2, <1>3, <1>5, <1>6, <1>7, <1>8 DEF CoreInv

LEMMA UplinkInvInit == Init => UplinkInv
<1> SUFFICES ASSUME Init PROVE UplinkInv
  OBVIOUS
<1> USE UplinkAssumption, CapacityAssumption DEF Init
<1>1. CacheInv
  BY CacheInvInit
<1>2. RingIsHistory
  BY DEF RingIsHistory, CacheInit, Slot
<1>3. ReportTypes /\ batch = NoBatch
  <2>1. NoBatch \in Batch
    BY DEF NoBatch, Batch
  <2>2. sent \in Seq(PayloadSet)
    BY EmptySeq
  <2>3. QED BY <2>1, <2>2 DEF ReportTypes, CacheInit
<1>9. ~encoding
  BY Zenon
<1>4. SentInv /\ DOMAIN sent = {}
  BY DEF SentInv, WindowsOrdered
<1>5. SentSeqs = {}
  BY <1>4 DEF SentSeqs
<1>6. LossInv
  BY <1>5, FS_EmptySet DEF LossInv
<1>7. FlagTypes
  BY Zenon DEF FlagTypes
<1>8. QED BY <1>1, <1>2, <1>3, <1>4, <1>6, <1>7, <1>9 DEF UplinkInv, CoreInv

(* A round adds a sample behind everything the reporter has seen.          *)
LEMMA RoundKeepsCoreInv ==
  ASSUME CoreInv, NEW snap \in Snapshot \cup {NoSnapshot}, Round(snap)
  PROVE  CoreInv'
<1> DEFINE smp == Normalize(snap)
<1>1. smp \in Sample /\ Push(smp) /\ collected' = Append(collected, smp)
  BY NormalizeType DEF Round
<1>2. CacheInv'
  BY <1>1, PushKeepsCacheInv DEF CoreInv
<1>3. /\ pushed \in Nat /\ pushed' = pushed + 1
      /\ collected \in Seq(Sample) /\ Len(collected) = pushed
      /\ UNCHANGED <<last_reported_seq, lost, encode_fail, encoding, batch, sent>>
  BY <1>1 DEF CoreInv, CacheInv, RingIsHistory, Push, Round, reportVars
<1>4. /\ collected' \in Seq(Sample) /\ Len(collected') = pushed'
      /\ \A q \in 1..pushed : collected'[q] = collected[q]
      /\ collected'[pushed + 1] = smp
  <2> HIDE DEF smp
  <2>1. QED BY <1>1, <1>3, AppendProperties
<1>5. RingIsHistory'
  <2> DEFINE idx == Idx(pushed + 1)
  <2>1. /\ slots' = [slots EXCEPT ![idx] = smp] /\ slot_seq' = [slot_seq EXCEPT ![idx] = pushed + 1]
        /\ DOMAIN slots = Slot /\ DOMAIN slot_seq = Slot
    BY <1>1 DEF Push, CoreInv, CacheInv
  <2>2. ASSUME NEW i \in Slot, slot_seq'[i] # 0
        PROVE  slots'[i] = collected'[slot_seq'[i]]
    <3> HIDE DEF idx, smp
    <3>1. CASE i = idx
      BY <1>4, <2>1, <3>1
    <3>2. CASE i # idx
      <4>1. slots'[i] = slots[i] /\ slot_seq'[i] = slot_seq[i]
        BY <2>1, <3>2
      <4>2. slot_seq[i] \in 1..pushed /\ slots[i] = collected[slot_seq[i]]
        BY <2>2, <4>1, <1>3 DEF CoreInv, CacheInv, RingIsHistory
      <4>3. QED BY <1>4, <4>1, <4>2
    <3>3. QED BY <3>1, <3>2
  <2>3. QED BY <1>4, <2>2 DEF RingIsHistory, Slot
<1>6. ASSUME NEW items, NEW cc, NEW base, Faithful(items, cc, base)
      PROVE  Faithful(items, cc, base)'
  <2> HIDE DEF smp
  <2>1. QED BY <1>3, <1>4, <1>6 DEF Faithful
<1>7. ReportTypes'
  <2> HIDE DEF smp
  <2>1. QED BY <1>3 DEF CoreInv, ReportTypes, PayloadSet, Batch, Item
<1>8. SentSeqs' = SentSeqs
  BY <1>3 DEF SentSeqs, SeqsOf
<1>9. LossInv' /\ WindowsOrdered'
  BY <1>3, <1>8 DEF CoreInv, LossInv, SentInv, WindowsOrdered, SeqsOf
<1>10. SentInv'
  BY <1>3, <1>6, <1>9 DEF CoreInv, SentInv, SeqsOf
<1>11. (IF encoding THEN Covers(batch, lost) ELSE batch = NoBatch)'
  <2>1. CASE encoding
    <3>1. Covers(batch, lost)
      BY <2>1 DEF CoreInv
    <3>2. Faithful(batch.items, batch.cellCount, batch.base)'
      BY <1>3, <1>6, <3>1 DEF Covers
    <3>3. last_reported_seq \in Nat
      BY DEF CoreInv, ReportTypes
    <3>4. Covers(batch, lost)'
      BY <1>3, <1>8, <3>1, <3>2, <3>3 DEF Covers, SeqsOf
    <3>5. QED BY <1>3, <2>1, <3>4
  <2>2. CASE ~encoding
    BY <1>3, <2>2 DEF CoreInv, NoBatch
  <2>3. QED BY <2>1, <2>2
<1>12. QED
  BY <1>2, <1>5, <1>7, <1>9, <1>10, <1>11 DEF CoreInv
(* Sending a payload adds its samples to the sent ones.                    *)
LEMMA SentAppend ==
  ASSUME sent \in Seq(PayloadSet), NEW p \in PayloadSet, sent' = Append(sent, p)
  PROVE  /\ sent' \in Seq(PayloadSet)
         /\ DOMAIN sent = 1..Len(sent) /\ DOMAIN sent' = 1..(Len(sent) + 1)
         /\ Len(sent) \in Nat
         /\ \A i \in 1..Len(sent) : sent'[i] = sent[i]
         /\ sent'[Len(sent) + 1] = p
         /\ SentSeqs' = SentSeqs \cup SeqsOf(p.items)
<1>1. /\ sent' \in Seq(PayloadSet) /\ Len(sent') = Len(sent) + 1 /\ Len(sent) \in Nat
      /\ \A i \in 1..Len(sent) : sent'[i] = sent[i]
      /\ sent'[Len(sent) + 1] = p
  BY AppendProperties, LenProperties
<1>2. DOMAIN sent = 1..Len(sent) /\ DOMAIN sent' = 1..(Len(sent) + 1)
  BY <1>1, LenProperties
<1>3. SentSeqs' = SentSeqs \cup SeqsOf(p.items)
  <2>1. SentSeqs' = UNION {SeqsOf(sent'[i].items) : i \in 1..(Len(sent) + 1)}
    BY <1>2 DEF SentSeqs, SeqsOf
  <2>2. SentSeqs = UNION {SeqsOf(sent[i].items) : i \in 1..Len(sent)}
    BY <1>2 DEF SentSeqs
  <2>3. 1..(Len(sent) + 1) = 1..Len(sent) \cup {Len(sent) + 1}
    BY <1>1
  <2>4. \A a : a \in SentSeqs' <=> \E i \in 1..(Len(sent) + 1) : a \in SeqsOf(sent'[i].items)
    BY <2>1
  <2>5. \A a : a \in SentSeqs <=> \E i \in 1..Len(sent) : a \in SeqsOf(sent[i].items)
    BY <2>2
  <2>6. \A a : a \in SentSeqs' <=> a \in SentSeqs \/ a \in SeqsOf(p.items)
    BY <1>1, <2>3, <2>4, <2>5
  <2>7. QED BY <2>6
<1>4. QED BY <1>1, <1>2, <1>3

(* Settling a batch that is covered moves the cursor to its end, and what  *)
(* is not sent is counted lost.                                            *)
LEMMA FinishKeepsCoreInv ==
  ASSUME CoreInv, NEW b \in Batch, NEW l \in Nat, Covers(b, l), Finish(b, l),
         UNCHANGED <<cacheVars, encode_fail, collected>>
  PROVE  CoreInv'
<1> DEFINE n == Cardinality(b.items)
           seqs == SeqsOf(b.items)
<1>1. /\ pushed \in Nat /\ last_reported_seq \in Nat /\ b.latest \in last_reported_seq..pushed
      /\ last_reported_seq' = b.latest /\ encoding' = FALSE /\ batch' = NoBatch
      /\ pushed' = pushed /\ collected' = collected /\ encode_fail' = encode_fail
      /\ encode_fail \in Nat
      /\ sent \in Seq(PayloadSet)
  BY DEF CoreInv, CacheInv, ReportTypes, Covers, Finish, cacheVars
<1>2. CacheInv' /\ RingIsHistory'
  BY DEF CoreInv, CacheInv, RingIsHistory, cacheVars, Slot, Idx
<1>3. /\ IsFiniteSet(b.items) /\ n \in Nat
      /\ IsFiniteSet(seqs) /\ Cardinality(seqs) = n
      /\ IsFiniteSet(SentSeqs) /\ Cardinality(SentSeqs) \in Nat
  BY FS_CardinalityType DEF CoreInv, LossInv, Covers
<1>4. \A a \in SentSeqs : a \in 1..last_reported_seq
  BY DEF CoreInv, SentInv, SentSeqs
<1>5. \A a \in seqs : a \in (last_reported_seq + 1)..b.latest
  BY DEF Covers, SeqsOf
<1>7. NoBatch \in Batch
  BY UplinkAssumption DEF NoBatch, Batch
<1>8. CASE CanPublish /\ b.items # {}
  <2>1. sent' = Append(sent, Payload(b)) /\ lost' = l /\ Payload(b) \in PayloadSet
    BY <1>8 DEF Finish, Payload, PayloadSet, Batch
  <2>2. /\ sent' \in Seq(PayloadSet)
        /\ DOMAIN sent = 1..Len(sent) /\ DOMAIN sent' = 1..(Len(sent) + 1)
        /\ Len(sent) \in Nat
        /\ \A i \in 1..Len(sent) : sent'[i] = sent[i]
        /\ sent'[Len(sent) + 1] = Payload(b)
        /\ SentSeqs' = SentSeqs \cup seqs
    BY <1>1, <2>1, SentAppend DEF Payload
  <2>3. ReportTypes'
    <3> HIDE DEF n, seqs
    <3>1. lost' \in Nat /\ encode_fail' \in Nat /\ last_reported_seq' \in Nat
          /\ last_reported_seq' <= pushed'
      BY <1>1, <2>1
    <3>2. batch' \in Batch /\ sent' \in Seq(PayloadSet)
      BY <1>1, <1>7, <2>2
    <3>3. QED BY <3>1, <3>2 DEF ReportTypes, PayloadSet, Batch, Item
  <2>4. IsFiniteSet(SentSeqs') /\ Cardinality(SentSeqs') = Cardinality(SentSeqs) + n
    <3>1. SentSeqs \cap seqs = {}
      BY <1>1, <1>4, <1>5
    <3>2. /\ IsFiniteSet(SentSeqs \cup seqs)
          /\ Cardinality(SentSeqs \cup seqs) =
                Cardinality(SentSeqs) + Cardinality(seqs) - Cardinality(SentSeqs \cap seqs)
      BY <1>3, FS_Union
    <3>3. Cardinality(SentSeqs \cap seqs) = 0
      BY <3>1, FS_EmptySet, Zenon
    <3> HIDE DEF seqs, n
    <3>4. Cardinality(SentSeqs \cup seqs) = Cardinality(SentSeqs) + n
      BY <1>3, <3>2, <3>3
    <3>5. QED BY <2>2, <3>2, <3>4
  <2>5. LossInv'
    <3>1. /\ Cardinality(SentSeqs) + l + n >= b.latest
          /\ encode_fail = 0 => Cardinality(SentSeqs) + l + n = b.latest
      BY DEF Covers
    <3> HIDE DEF n
    <3>2. QED BY <1>1, <1>3, <2>1, <2>4, <3>1 DEF LossInv
  <2>6. ASSUME NEW i \in DOMAIN sent'
        PROVE  /\ Faithful(sent'[i].items, sent'[i].cellCount, sent'[i].base)
               /\ \A a \in SeqsOf(sent'[i].items) : a \in 1..last_reported_seq'
    <3>1. CASE i \in 1..Len(sent)
      <4>1. /\ Faithful(sent[i].items, sent[i].cellCount, sent[i].base)
            /\ \A a \in SeqsOf(sent[i].items) : a \in 1..last_reported_seq
        BY <2>2, <3>1 DEF CoreInv, SentInv
      <4>2. \A a \in SeqsOf(sent[i].items) : a \in 1..last_reported_seq'
        BY <1>1, <4>1
      <4>3. sent'[i] = sent[i]
        BY <2>2, <3>1
      <4>4. QED BY <4>1, <4>2, <4>3
    <3>2. CASE i = Len(sent) + 1
      <4>1. /\ sent'[i].items = b.items /\ sent'[i].cellCount = b.cellCount
            /\ sent'[i].base = b.base
        BY <2>2, <3>2 DEF Payload
      <4>2. \A a \in SeqsOf(b.items) : a \in 1..last_reported_seq'
        BY <1>1, <1>5
      <4>3. Faithful(b.items, b.cellCount, b.base)
        BY DEF Covers
      <4>4. QED BY <4>1, <4>2, <4>3
    <3>3. QED BY <2>2, <3>1, <3>2
  <2>7. WindowsOrdered'
    <3>1. SUFFICES ASSUME NEW i \in DOMAIN sent', NEW j \in DOMAIN sent', i < j,
                          NEW a \in SeqsOf(sent'[i].items), NEW c \in SeqsOf(sent'[j].items)
                   PROVE  a < c
      BY DEF WindowsOrdered, SeqsOf
    <3>2. i \in 1..Len(sent) /\ sent'[i] = sent[i]
      BY <2>2, <3>1
    <3>3. CASE j \in 1..Len(sent)
      BY <2>2, <3>1, <3>2, <3>3 DEF CoreInv, SentInv, WindowsOrdered
    <3>4. CASE j = Len(sent) + 1
      <4>1. a \in 1..last_reported_seq
        BY <2>2, <3>1, <3>2 DEF CoreInv, SentInv
      <4>2. c \in seqs
        BY <2>2, <3>1, <3>4 DEF Payload
      <4>3. QED BY <1>1, <1>5, <4>1, <4>2
    <3>5. QED BY <2>2, <3>3, <3>4
  <2>8. SentInv'
    BY <1>1, <2>6, <2>7 DEF SentInv, SeqsOf, Faithful
  <2>9. QED
    BY <1>1, <1>2, <2>3, <2>5, <2>8 DEF CoreInv, NoBatch
<1>9. CASE ~(CanPublish /\ b.items # {})
  <2>1. sent' = sent /\ SentSeqs' = SentSeqs
    BY <1>9 DEF Finish, SentSeqs, SeqsOf
  <2>2. lost' = l + n
    <3>1. CASE CanPublish
      <4>1. n = 0
        BY <1>9, <3>1, FS_EmptySet
      <4>2. lost' = l
        BY <3>1 DEF Finish
      <4> HIDE DEF n
      <4>3. QED BY <4>1, <4>2
    <3>2. CASE ~CanPublish
      BY <3>2 DEF Finish
    <3>3. QED BY <3>1, <3>2
  <2>3. ReportTypes'
    <3> HIDE DEF n
    <3>1. lost' \in Nat /\ encode_fail' \in Nat /\ last_reported_seq' \in Nat
          /\ last_reported_seq' <= pushed'
      BY <1>1, <1>3, <2>2
    <3>2. batch' \in Batch /\ sent' \in Seq(PayloadSet)
      BY <1>1, <1>7, <2>1
    <3>3. QED BY <3>1, <3>2 DEF ReportTypes, PayloadSet, Batch, Item
  <2>4. LossInv'
    <3>1. /\ Cardinality(SentSeqs) + l + n >= b.latest
          /\ encode_fail = 0 => Cardinality(SentSeqs) + l + n = b.latest
      BY DEF Covers
    <3> HIDE DEF n
    <3>2. QED BY <1>1, <1>3, <2>1, <2>2, <3>1 DEF LossInv
  <2>5. SentInv'
    <3>1. WindowsOrdered'
      BY <2>1 DEF CoreInv, SentInv, WindowsOrdered, SeqsOf
    <3>2. QED BY <1>1, <2>1, <3>1 DEF CoreInv, SentInv, SeqsOf, Faithful
  <2>6. QED
    BY <1>1, <1>2, <2>3, <2>4, <2>5 DEF CoreInv, NoBatch
<1>10. QED BY <1>8, <1>9
(* The window a report builds can be settled, with its losses counted.     *)
LEMMA BatchIsCovered ==
  ASSUME CoreInv, ~encoding
  PROVE  /\ BatchOf(BuildBatch) \in Batch
         /\ lost + BuildBatch.uncounted \in Nat
         /\ Covers(BatchOf(BuildBatch), lost + BuildBatch.uncounted)
<1> DEFINE b == BatchOf(BuildBatch)
           u == BuildBatch.uncounted
           n == Cardinality(BuildBatch.items)
<1>1. /\ b \in Batch /\ b.latest = pushed
      /\ \A it \in b.items : it.seq \in (last_reported_seq + 1)..pushed
      /\ Faithful(b.items, b.cellCount, b.base)
      /\ IsFiniteSet(b.items) /\ IsFiniteSet(SeqsOf(b.items))
      /\ u \in Nat /\ n + u = pushed - last_reported_seq
      /\ Cardinality(SeqsOf(b.items)) = n /\ Cardinality(b.items) = n
  BY BatchIsExact DEF CoreInv, ReportTypes, BatchOf
<1>2. /\ lost \in Nat /\ last_reported_seq \in Nat /\ last_reported_seq <= pushed
      /\ pushed \in Nat /\ n \in Nat /\ Cardinality(SentSeqs) \in Nat
      /\ Cardinality(SentSeqs) + lost >= last_reported_seq
      /\ encode_fail = 0 => Cardinality(SentSeqs) + lost = last_reported_seq
  BY <1>1, FS_CardinalityType DEF CoreInv, ReportTypes, LossInv, CacheInv
<1> HIDE DEF b, u, n
<1>3. /\ Cardinality(SentSeqs) + (lost + u) + n >= pushed
      /\ encode_fail = 0 => Cardinality(SentSeqs) + (lost + u) + n = pushed
  <2> DEFINE c == Cardinality(SentSeqs)
  <2>1. c \in Nat /\ c + lost >= last_reported_seq
        /\ (encode_fail = 0 => c + lost = last_reported_seq)
    BY <1>2
  <2> HIDE DEF c
  <2>2. u \in Nat /\ n + u = pushed - last_reported_seq
    BY <1>1
  <2>3. n \in Nat /\ lost \in Nat /\ last_reported_seq \in Nat /\ pushed \in Nat
    BY <1>2
  <2>4. c + (lost + u) + n >= pushed
    BY <2>1, <2>2, <2>3
  <2>5. encode_fail = 0 => c + (lost + u) + n = pushed
    BY <2>1, <2>2, <2>3
  <2>6. QED BY <2>4, <2>5 DEF c
<1>4. Covers(b, lost + u)
  BY <1>1, <1>2, <1>3 DEF Covers
<1>5. QED BY <1>1, <1>2, <1>4 DEF b, u

(* Starting the encoder keeps the batch for later.                         *)
LEMMA ReportStartKeepsCoreInv ==
  ASSUME CoreInv, ReportStart
  PROVE  CoreInv'
<1> DEFINE b == BatchOf(BuildBatch)
           l == lost + BuildBatch.uncounted
<1>1. b \in Batch /\ l \in Nat /\ Covers(b, l) /\ BuildBatch.uncounted \in Nat
  BY BatchIsCovered, BatchIsExact DEF CoreInv, ReportTypes, ReportStart
<1>2. /\ encoding' = TRUE /\ batch' = b /\ lost' = l
      /\ UNCHANGED <<slots, slot_seq, pushed, count, overwritten, last_reported_seq,
                     encode_fail, collected, sent>>
  BY DEF ReportStart, cacheVars
<1>3. CacheInv' /\ RingIsHistory'
  BY <1>2 DEF CoreInv, CacheInv, RingIsHistory, Slot, Idx
<1>4. SentSeqs' = SentSeqs
  BY <1>2 DEF SentSeqs, SeqsOf
<1>5. lost \in Nat /\ lost <= l /\ Cardinality(SentSeqs) \in Nat
  BY <1>1, FS_CardinalityType DEF CoreInv, ReportTypes, LossInv
<1> HIDE DEF b, l
<1>6. ReportTypes'
  BY <1>1, <1>2 DEF CoreInv, ReportTypes, PayloadSet, Batch, Item
<1>7. Covers(batch, lost)'
  BY <1>1, <1>2, <1>4 DEF Covers, Faithful, SeqsOf
<1>8. SentInv'
  BY <1>2 DEF CoreInv, SentInv, WindowsOrdered, SeqsOf, Faithful
<1>9. LossInv'
  BY <1>1, <1>2, <1>4, <1>5 DEF CoreInv, LossInv, ReportTypes
<1>10. QED
  BY <1>2, <1>3, <1>6, <1>7, <1>8, <1>9 DEF CoreInv

(* A failed encoding forgets the batch; what it had counted stays counted. *)
LEMMA EncodeFailsKeepsCoreInv ==
  ASSUME CoreInv, EncodeFails
  PROVE  CoreInv'
<1>1. /\ encoding' = FALSE /\ batch' = NoBatch /\ encode_fail' = encode_fail + 1
      /\ UNCHANGED <<slots, slot_seq, pushed, count, overwritten, last_reported_seq,
                     lost, collected, sent>>
  BY DEF EncodeFails, cacheVars
<1>2. CacheInv' /\ RingIsHistory'
  BY <1>1 DEF CoreInv, CacheInv, RingIsHistory, Slot, Idx
<1>3. SentSeqs' = SentSeqs
  BY <1>1 DEF SentSeqs, SeqsOf
<1>4. NoBatch \in Batch
  BY UplinkAssumption DEF NoBatch, Batch
<1>5. ReportTypes'
  BY <1>1, <1>4 DEF CoreInv, ReportTypes, PayloadSet, Batch, Item
<1>6. SentInv'
  BY <1>1 DEF CoreInv, SentInv, WindowsOrdered, SeqsOf, Faithful
<1>7. encode_fail' # 0
  BY <1>1 DEF CoreInv, ReportTypes
<1>8. LossInv'
  BY <1>1, <1>3, <1>7 DEF CoreInv, LossInv
<1>9. QED
  BY <1>1, <1>2, <1>5, <1>6, <1>8 DEF CoreInv, NoBatch

(* Every step of the specification keeps the invariant.                    *)
LEMMA UplinkInvStep == UplinkInv /\ [Next]_vars => UplinkInv'
<1> SUFFICES ASSUME UplinkInv, [Next]_vars PROVE UplinkInv'
  OBVIOUS
<1>1. CoreInv
  BY DEF UplinkInv
<1>2. CASE Collect
  <2>1. PICK snap \in Snapshot \cup {NoSnapshot} : Round(snap)
    BY <1>2 DEF Collect
  <2>2. CoreInv'
    BY <1>1, <2>1, RoundKeepsCoreInv
  <2>3. UNCHANGED <<mqttc, mqtt_ready, sock_ready, ntp_ready, encoding>>
    BY <2>1 DEF Round, linkVars, reportVars
  <2>4. QED BY <2>2, <2>3 DEF UplinkInv, FlagTypes
<1>3. CASE CreateClient \/ Conack \/ LinkDown \/ DisconnectOrError \/ ClockReady
  <2>1. UNCHANGED <<cacheVars, reportVars, collected>>
    BY <1>3 DEF CreateClient, Conack, LinkDown, DisconnectOrError, ClockReady
  <2>2. CoreInv'
    BY <1>1, <2>1, CoreInvUnchanged
  <2>3. FlagTypes'
    BY <1>3, Zenon DEF CreateClient, Conack, LinkDown, DisconnectOrError, ClockReady, UplinkInv,
       FlagTypes, linkVars, reportVars
  <2>4. QED BY <2>2, <2>3 DEF UplinkInv
<1>4. CASE ReportEmpty
  <2>1. CoreInv'
    BY <1>1, <1>4, BatchIsCovered, FinishKeepsCoreInv DEF ReportEmpty
  <2>2. FlagTypes'
    BY <1>4, Zenon DEF ReportEmpty, Finish, UplinkInv, FlagTypes, linkVars
  <2>3. QED BY <2>1, <2>2 DEF UplinkInv
<1>5. CASE ReportStart
  <2>1. CoreInv'
    BY <1>1, <1>5, ReportStartKeepsCoreInv
  <2>2. FlagTypes'
    BY <1>5, Zenon DEF ReportStart, UplinkInv, FlagTypes, linkVars
  <2>3. QED BY <2>1, <2>2 DEF UplinkInv
<1>6. CASE ReportFinish
  <2>1. batch \in Batch /\ lost \in Nat /\ Covers(batch, lost)
    BY <1>1, <1>6 DEF CoreInv, ReportTypes, ReportFinish
  <2>2. CoreInv'
    BY <1>1, <1>6, <2>1, FinishKeepsCoreInv DEF ReportFinish
  <2>3. FlagTypes'
    BY <1>6, Zenon DEF ReportFinish, Finish, UplinkInv, FlagTypes, linkVars
  <2>4. QED BY <2>2, <2>3 DEF UplinkInv
<1>7. CASE EncodeFails
  <2>1. CoreInv'
    BY <1>1, <1>7, EncodeFailsKeepsCoreInv
  <2>2. FlagTypes'
    BY <1>7, Zenon DEF EncodeFails, UplinkInv, FlagTypes, linkVars
  <2>3. QED BY <2>1, <2>2 DEF UplinkInv
<1>8. CASE UNCHANGED vars
  <2>1. CoreInv'
    BY <1>1, <1>8, CoreInvUnchanged DEF vars
  <2>2. FlagTypes'
    BY <1>8, Zenon DEF vars, linkVars, reportVars, UplinkInv, FlagTypes
  <2>3. QED BY <2>1, <2>2 DEF UplinkInv
<1>9. QED
  BY <1>2, <1>3, <1>4, <1>5, <1>6, <1>7, <1>8 DEF Next

-----------------------------------------------------------------------------
(* Theorems                                                                *)

THEOREM UplinkInvariant == Spec => []UplinkInv
BY UplinkInvInit, UplinkInvStep, PTL DEF Spec

(* Type correctness.                                                       *)
THEOREM TypeCorrect == Spec => []TypeOK
<1>1. UplinkInv => TypeOK
  <2> SUFFICES ASSUME UplinkInv PROVE TypeOK
    OBVIOUS
  <2>1. CacheTypeOK
    BY CacheInvImplies DEF UplinkInv, CoreInv
  <2>2. /\ last_reported_seq \in Nat /\ lost \in Nat /\ encode_fail \in Nat
        /\ batch \in Batch /\ collected \in Seq(Sample) /\ sent \in Seq(PayloadSet)
    BY DEF UplinkInv, CoreInv, ReportTypes, RingIsHistory
  <2>3. FlagTypes
    BY DEF UplinkInv
  <2>4. QED BY <2>1, <2>2, <2>3, Zenon DEF TypeOK, FlagTypes, PayloadSet
<1>2. QED BY <1>1, UplinkInvariant, PTL

(* The ring always holds exactly the newest samples under their numbers    *)
(* and counts the others as overwritten (bms_cache.push).                  *)
THEOREM RingCorrect == Spec => []RingHoldsNewest
<1>1. UplinkInv => RingHoldsNewest
  BY CacheInvImplies DEF UplinkInv, CoreInv
<1>2. QED BY <1>1, UplinkInvariant, PTL

(* No sample leaves twice, and payloads leave in collection order          *)
(* (bms_uplink.report_once).                                               *)
THEOREM WindowsAreOrdered == Spec => []WindowsOrdered
<1>1. UplinkInv => WindowsOrdered
  BY DEF UplinkInv, CoreInv, SentInv
<1>2. QED BY <1>1, UplinkInvariant, PTL

(* Every payload says of its samples what was collected, whatever the ring *)
(* overwrote while it was encoded (bms_uplink.build_batch).                *)
THEOREM PayloadsAreFaithful == Spec => []PayloadFaithful
<1>1. UplinkInv => PayloadFaithful
  <2> SUFFICES ASSUME UplinkInv PROVE PayloadFaithful
    OBVIOUS
  <2>1. DOMAIN collected = 1..pushed
    BY LenProperties DEF UplinkInv, CoreInv, RingIsHistory
  <2>2. QED
    BY <2>1 DEF UplinkInv, CoreInv, SentInv, PayloadFaithful, Faithful
<1>2. QED BY <1>1, UplinkInvariant, PTL

(* Every sample behind the cursor was sent or is counted in stats.lost,    *)
(* exactly so until an encoding fails (bms_uplink.report_once).            *)
THEOREM NothingLostSilently == Spec => []NoSilentLoss
<1>1. UplinkInv => NoSilentLoss
  BY DEF UplinkInv, CoreInv, LossInv, NoSilentLoss
<1>2. QED BY <1>1, UplinkInvariant, PTL
-----------------------------------------------------------------------------
(* Refinement                                                              *)

(* Settling a covered batch is a Settle of the abstract delivery up to the *)
(* batch's end, or no step when the batch ends at the cursor.              *)
LEMMA FinishSettles ==
  ASSUME CoreInv, NEW b \in Batch, NEW l \in Nat, Covers(b, l), Finish(b, l),
         pushed' = pushed
  PROVE  Delivery!Settle \/ UNCHANGED <<pushed, FateOf>>
<1> DEFINE n == b.latest
           now == {q \in (last_reported_seq + 1)..n : q \in SentSeqs'}
<1>1. /\ pushed \in Nat /\ last_reported_seq \in Nat /\ n \in last_reported_seq..pushed
      /\ last_reported_seq' = n /\ last_reported_seq <= pushed
      /\ sent \in Seq(PayloadSet)
  BY DEF CoreInv, CacheInv, ReportTypes, Covers, Finish
<1>2. \A a \in SeqsOf(b.items) : a \in (last_reported_seq + 1)..n
  BY DEF Covers, SeqsOf
<1>3. /\ \A q \in 1..last_reported_seq : q \in SentSeqs' <=> q \in SentSeqs
      /\ n = last_reported_seq => SentSeqs' = SentSeqs
  <2>1. CASE CanPublish /\ b.items # {}
    <3>1. sent' = Append(sent, Payload(b)) /\ Payload(b) \in PayloadSet /\ Payload(b).items = b.items
      BY <2>1 DEF Finish, Payload, PayloadSet, Batch
    <3>2. SentSeqs' = SentSeqs \cup SeqsOf(b.items)
      BY <1>1, <3>1, SentAppend
    <3>3. QED BY <1>1, <1>2, <3>2
  <2>2. CASE ~(CanPublish /\ b.items # {})
    BY <2>2 DEF Finish, SentSeqs, SeqsOf
  <2>3. QED BY <2>1, <2>2
<1>4. FateOf' = [q \in 1..pushed |-> IF q > n THEN "waiting"
                                     ELSE IF q \in SentSeqs' THEN "sent" ELSE "lost"]
  BY <1>1 DEF FateOf
<1>5. CASE n = last_reported_seq
  BY <1>1, <1>3, <1>4, <1>5 DEF FateOf
<1>6. CASE n # last_reported_seq
  <2>1. n \in 1..pushed /\ FateOf[n] = "waiting"
    BY <1>1, <1>6 DEF FateOf
  <2>2. \A q \in 1..pushed : FateOf[q] = "waiting" <=> q > last_reported_seq
    BY DEF FateOf
  <2>3. now \in SUBSET {q \in 1..n : FateOf[q] = "waiting"}
    BY <1>1, <2>2
  <2>4. FateOf' = [q \in 1..pushed |->
                     IF q <= n /\ FateOf[q] = "waiting"
                     THEN IF q \in now THEN "sent" ELSE "lost"
                     ELSE FateOf[q]]
    <3>1. ASSUME NEW q \in 1..pushed
          PROVE  (IF q > n THEN "waiting" ELSE IF q \in SentSeqs' THEN "sent" ELSE "lost")
                   = (IF q <= n /\ FateOf[q] = "waiting"
                      THEN IF q \in now THEN "sent" ELSE "lost"
                      ELSE FateOf[q])
      <4>1. CASE q > last_reported_seq
        BY <1>1, <2>2, <4>1
      <4>2. CASE q <= last_reported_seq
        <5>1. FateOf[q] = IF q \in SentSeqs THEN "sent" ELSE "lost"
          BY <1>1, <4>2 DEF FateOf
        <5>2. QED BY <1>1, <1>3, <2>2, <4>2, <5>1
      <4>3. QED BY <1>1, <4>1, <4>2
    <3>2. QED BY <1>4, <3>1
  <2> HIDE DEF n, now
  <2>5. Delivery!Settle
    BY <2>1, <2>3, <2>4 DEF Delivery!Settle
  <2>6. QED BY <2>5
<1>7. QED BY <1>5, <1>6

(* A round is a Collect of the abstract delivery.                          *)
LEMMA RoundCollects ==
  ASSUME CoreInv, NEW snap \in Snapshot \cup {NoSnapshot}, Round(snap)
  PROVE  Delivery!Collect
<1>1. /\ pushed \in Nat /\ last_reported_seq \in Nat /\ last_reported_seq <= pushed
      /\ pushed' = pushed + 1 /\ UNCHANGED <<last_reported_seq, sent>>
  BY DEF CoreInv, CacheInv, ReportTypes, Round, Push, reportVars
<1>2. SentSeqs' = SentSeqs
  BY <1>1 DEF SentSeqs, SeqsOf
<1>3. FateOf' = [q \in 1..(pushed + 1) |-> IF q > last_reported_seq THEN "waiting"
                                           ELSE IF q \in SentSeqs THEN "sent" ELSE "lost"]
  BY <1>1, <1>2 DEF FateOf
<1>4. ASSUME NEW q \in 1..(pushed + 1)
      PROVE  (IF q > last_reported_seq THEN "waiting" ELSE IF q \in SentSeqs THEN "sent" ELSE "lost")
               = (IF q <= pushed THEN FateOf[q] ELSE "waiting")
  <2>1. CASE q <= pushed
    BY <1>1, <2>1 DEF FateOf
  <2>2. CASE q > pushed
    BY <1>1, <2>2
  <2>3. QED BY <1>1, <2>1, <2>2
<1>5. FateOf' = [q \in 1..(pushed + 1) |-> IF q <= pushed THEN FateOf[q] ELSE "waiting"]
  BY <1>3, <1>4
<1>6. QED BY <1>1, <1>5 DEF Delivery!Collect

(* The uplink implements the abstract delivery: a settled sample never     *)
(* changes its fate and none is passed over.                               *)
THEOREM UplinkImplementsDelivery == Spec => ImplementsDelivery
<1>1. Init => Delivery!Init
  BY DEF Init, CacheInit, Delivery!Init, FateOf
<1>2. UplinkInv /\ [Next]_vars => [Delivery!Next]_<<pushed, FateOf>>
  <2> SUFFICES ASSUME UplinkInv, [Next]_vars
               PROVE  Delivery!Next \/ UNCHANGED <<pushed, FateOf>>
    OBVIOUS
  <2>1. CoreInv
    BY DEF UplinkInv
  <2>2. CASE Collect
    BY <2>1, <2>2, RoundCollects DEF Collect, Delivery!Next
  <2>3. CASE ReportEmpty
    <3>1. Finish(BatchOf(BuildBatch), lost + BuildBatch.uncounted) /\ ~encoding /\ pushed' = pushed
      BY <2>3 DEF ReportEmpty, cacheVars
    <3>2. QED BY <2>1, <3>1, BatchIsCovered, FinishSettles DEF Delivery!Next
  <2>4. CASE ReportFinish
    <3>1. /\ Finish(batch, lost) /\ Covers(batch, lost) /\ pushed' = pushed
          /\ batch \in Batch /\ lost \in Nat
      BY <2>1, <2>4 DEF ReportFinish, cacheVars, CoreInv, ReportTypes
    <3>2. QED BY <2>1, <3>1, FinishSettles DEF Delivery!Next
  <2>5. CASE UNCHANGED <<pushed, last_reported_seq, sent>>
    BY <2>5 DEF FateOf, SentSeqs, SeqsOf
  <2>6. CASE \/ CreateClient \/ Conack \/ LinkDown \/ DisconnectOrError
             \/ ClockReady \/ ReportStart \/ EncodeFails
    <3>1. UNCHANGED <<pushed, last_reported_seq, sent>>
      BY <2>6 DEF CreateClient, Conack, LinkDown, DisconnectOrError, ClockReady, ReportStart,
         EncodeFails, cacheVars, reportVars
    <3>2. QED BY <2>5, <3>1
  <2>7. CASE UNCHANGED vars
    BY <2>5, <2>7 DEF vars, cacheVars, reportVars
  <2>8. QED
    BY <2>2, <2>3, <2>4, <2>6, <2>7 DEF Next
<1>3. QED
  BY <1>1, <1>2, UplinkInvariant, PTL DEF Spec, ImplementsDelivery, Delivery!Spec
=============================================================================
