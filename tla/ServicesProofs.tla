--------------------------- MODULE ServicesProofs ----------------------------
(***************************************************************************)
(* Retention, repricing, saved scenarios and the advice of the FBA         *)
(* calculator, and the types of all the services, for all values of the    *)
(* constants.                                                              *)
(***************************************************************************)
EXTENDS MCServices, AlertsProofs, FiniteSetTheorems, SequenceTheorems, WellFoundedInduction, TLAPS

----------------------------------------------------------------------------
(* History is kept, for any number of merchants, snapshots and days, and   *)
(* any size of the batches.                                                *)

\* What connects the marks, the ghosts and the trackings: a snapshot is marked
\* only after the URL was not shared, so a covered one never is; and a promise
\* not yet written has its downgrade still to write it.
MarksInv ==
    /\ covered \cap marked = {}
    /\ \A s \in covered : Aged(s) => Shared
    /\ \A s \in marked : Aged(s)
    /\ \A s \in Snapshots \ stored : age[s] = 0 /\ promised[s] = 0
    /\ \A s \in marked : promised[s] <= left[s]
    /\ \A s \in stored \ marked :
          promised[s] > 0 => Aged(s) /\ ~Shared /\ leaving \cap tracks # {}

RetentionInv == RetentionTypeOK /\ MarksInv

LEMMA RetentionStarts == RetentionInit => RetentionInv
<1> USE RetentionAssumption
<1>1. 0 \in 0..(LONG + 1) /\ 0 \in 0..GRACE
  OBVIOUS
<1>2. QED
  BY <1>1 DEF RetentionInit, RetentionInv, RetentionTypeOK, MarksInv

\* Time and the ghosts stay in their ranges.
LEMMA RetentionTypeStep == RetentionTypeOK /\ [RetentionNext]_retentionVars => RetentionTypeOK'
<1> USE RetentionAssumption
<1> SUFFICES ASSUME RetentionTypeOK, [RetentionNext]_retentionVars PROVE RetentionTypeOK'
  OBVIOUS
<1>0. 0 \in 0..(LONG + 1) /\ 0 \in 0..GRACE /\ GRACE \in 0..GRACE
  OBVIOUS
<1>1. ASSUME NEW m \in Merchants, Track(m) \/ Untrack(m) \/ Charged(m) \/ DowngradeCommit(m)
      PROVE  RetentionTypeOK'
  BY <1>0, <1>1 DEF RetentionTypeOK, Track, Untrack, Charged, DowngradeCommit, Cover,
                    OnlyWritten, table
<1>2. ASSUME NEW m \in Merchants, Schedule(m) PROVE RetentionTypeOK'
  BY <1>0, <1>2 DEF RetentionTypeOK, Schedule, Excess
<1>3. ASSUME NEW m \in Merchants, DowngradeDies(m) PROVE RetentionTypeOK'
  BY <1>0, <1>3 DEF RetentionTypeOK, DowngradeDies, OnlyWritten, table
<1>4. ASSUME NEW s \in Snapshots, Scrape(s) PROVE RetentionTypeOK'
  BY <1>4 DEF RetentionTypeOK, Scrape
<1>5. CASE PurgeStart \/ PurgeDies \/ UNCHANGED retentionVars
  BY <1>5 DEF RetentionTypeOK, PurgeStart, PurgeDies, retentionVars, table
<1>6. CASE NextDay
  <2>1. \A n \in 0..GRACE : Less(n) \in 0..GRACE
    BY DEF Less
  <2>2. age' \in [Snapshots -> 0..(LONG + 1)]
    BY <1>6 DEF NextDay, RetentionTypeOK
  <2>3. left' \in [Snapshots -> 0..GRACE] /\ promised' \in [Snapshots -> 0..GRACE]
    BY <1>6, <2>1 DEF NextDay, RetentionTypeOK
  <2>4. QED
    BY <1>6, <2>2, <2>3 DEF NextDay, RetentionTypeOK
<1>7. ASSUME NEW batch \in SUBSET stored, PurgeBatch(batch) PROVE RetentionTypeOK'
  <2>1. pass' \in {"idle", "a", "b", "c"}
    BY <1>7 DEF PurgeBatch, After, RetentionTypeOK
  <2>2. QED
    BY <1>0, <1>7, <2>1 DEF PurgeBatch, RetentionTypeOK
<1>8. QED
  BY <1>1, <1>2, <1>3, <1>4, <1>5, <1>6, <1>7 DEF RetentionNext

\* Changing who tracks the URL, or on which plan, keeps the invariant: the ghosts
\* follow.
LEMMA PlansStep ==
    ASSUME RetentionInv, UNCHANGED <<table, leaving, pass>>, Cover, OnlyWritten
    PROVE  MarksInv'
BY RetentionAssumption DEF RetentionInv, RetentionTypeOK, MarksInv, Cover, OnlyWritten, Aged, Shared, table

LEMMA DowngradeStep ==
    ASSUME RetentionInv, NEW m \in Merchants, DowngradeCommit(m)
    PROVE  MarksInv'
<1> USE RetentionAssumption DEF RetentionInv, RetentionTypeOK, DowngradeCommit, table
<1>1. ~Shared => ~Shared'
  BY DEF Shared
<1>2. covered' = {s \in covered : Aged(s) => Shared'}
  BY DEF Cover
<1>3. \A s \in Snapshots : Aged(s)' <=> Aged(s)
  BY DEF Aged
<1>4. ASSUME NEW s \in covered \ covered' PROVE Aged(s) /\ ~Shared' /\ m \in tracks
  BY <1>2, <1>4 DEF MarksInv, Shared
<1>5. covered \cap marked = {}
  BY DEF MarksInv
<1>6. ASSUME NEW s \in stored \ marked, promised'[s] > 0
      PROVE  Aged(s) /\ ~Shared' /\ leaving' \cap tracks # {}
  <2>1. CASE s \in covered \ covered'
    BY <1>4, <2>1
  <2>2. CASE s \notin covered \ covered'
    <3>1. promised[s] > 0
      BY <1>6, <2>2
    <3>2. QED
      BY <1>1, <3>1 DEF MarksInv
  <2>3. QED
    BY <2>1, <2>2
<1>7. \A s \in marked : promised'[s] = promised[s]
  BY <1>5
<1>8. \A s \in Snapshots \ stored : promised'[s] = promised[s]
  OBVIOUS
<1>9. QED
  BY <1>2, <1>3, <1>5, <1>6, <1>7, <1>8 DEF MarksInv

\* The marking covers every promise the downgrade has made, or leaves it to
\* another downgrade that is still to mark.
LEMMA ScheduleStep ==
    ASSUME RetentionInv, NEW m \in Merchants, Schedule(m)
    PROVE  MarksInv'
<1> USE RetentionAssumption DEF RetentionInv, RetentionTypeOK, Schedule
<1>1. \A s \in Excess(m) : s \in stored \ marked /\ Aged(s) /\ ~Shared
  BY DEF Excess
<1>2. Excess(m) \cap covered = {}
  BY <1>1 DEF MarksInv
<1>3. \A s \in Snapshots : Aged(s)' <=> Aged(s)
  BY DEF Aged
<1>4. Shared' <=> Shared
  BY DEF Shared
<1>5. ASSUME NEW s \in marked' PROVE promised[s] <= left'[s]
  BY <1>1, <1>5 DEF MarksInv
<1>6. ASSUME NEW s \in stored \ marked', promised[s] > 0
      PROVE  Aged(s) /\ ~Shared /\ leaving' \cap tracks # {}
  <2>1. Aged(s) /\ ~Shared /\ leaving \cap tracks # {}
    BY <1>6 DEF MarksInv
  <2>2. m \notin tracks
    BY <1>6, <2>1 DEF Excess
  <2>3. QED
    BY <2>1, <2>2
<1>7. QED
  BY <1>1, <1>2, <1>3, <1>4, <1>5, <1>6 DEF MarksInv

LEMMA PurgeStep ==
    ASSUME RetentionInv, NEW batch \in SUBSET stored, PurgeBatch(batch)
    PROVE  MarksInv'
<1> USE RetentionAssumption DEF RetentionInv, RetentionTypeOK, PurgeBatch
<1>1. \A s \in Snapshots \ batch : (Aged(s)' <=> Aged(s)) /\ promised'[s] = promised[s]
                                   /\ left'[s] = left[s] /\ age'[s] = age[s]
  BY DEF Aged
<1>2. Shared' <=> Shared
  BY DEF Shared
<1>3. QED
  BY <1>1, <1>2 DEF MarksInv

\* No promise is unwritten when a day passes, and the written ones run down with
\* the days they were written with.
LEMMA DayStep ==
    ASSUME RetentionInv, NextDay
    PROVE  MarksInv'
<1> USE RetentionAssumption DEF RetentionInv, RetentionTypeOK, NextDay
<1>1. \A s \in Snapshots : Aged(s) => Aged(s)'
  BY DEF Aged
<1>2. Shared' <=> Shared
  BY DEF Shared
<1>3. \A s \in stored \ marked : promised[s] = 0
  BY DEF MarksInv
<1>4. \A s \in Snapshots : promised[s] = 0 => promised'[s] = 0
  BY DEF Less
<1>5. \A s \in marked : promised'[s] <= left'[s]
  BY DEF MarksInv, Less
<1>6. \A s \in covered' : Aged(s)' => Shared'
  BY <1>2 DEF Aged
<1>7. \A s \in Snapshots \ stored : age'[s] = 0 /\ promised'[s] = 0
  BY <1>4 DEF MarksInv
<1>8. QED
  BY <1>1, <1>3, <1>4, <1>5, <1>6, <1>7 DEF MarksInv

LEMMA RetentionStep == RetentionInv /\ [RetentionNext]_retentionVars => RetentionInv'
<1> USE RetentionAssumption
<1> SUFFICES ASSUME RetentionInv, [RetentionNext]_retentionVars PROVE MarksInv'
  BY RetentionTypeStep DEF RetentionInv
<1>1. ASSUME NEW m \in Merchants, Track(m) \/ Untrack(m) \/ Charged(m) PROVE MarksInv'
  BY <1>1, PlansStep DEF Track, Untrack, Charged
<1>2. ASSUME NEW m \in Merchants, DowngradeDies(m) PROVE MarksInv'
  BY <1>2 DEF DowngradeDies, OnlyWritten, RetentionInv, RetentionTypeOK, MarksInv, Aged, Shared, table
<1>3. ASSUME NEW s \in Snapshots, Scrape(s) PROVE MarksInv'
  BY <1>3 DEF Scrape, RetentionInv, RetentionTypeOK, MarksInv, Aged, Shared
<1>4. CASE PurgeStart \/ PurgeDies \/ UNCHANGED retentionVars
  BY <1>4 DEF RetentionInv, MarksInv, Aged, Shared, PurgeStart, PurgeDies, retentionVars, table
<1>5. QED
  BY <1>1, <1>2, <1>3, <1>4, DowngradeStep, ScheduleStep, PurgeStep, DayStep DEF RetentionNext

\* The invariant holds in every state.
THEOREM MarksHold == RetentionSpec => []RetentionInv
BY RetentionStarts, RetentionStep, PTL DEF RetentionSpec

\* Only a batch of the purge deletes.
LEMMA DeletedByPurge ==
    ASSUME RetentionInv, [RetentionNext]_retentionVars, NEW s \in stored \ stored'
    PROVE  \E batch \in SUBSET stored : PurgeBatch(batch) /\ s \in batch
BY DEF RetentionNext, Track, Untrack, Charged, DowngradeCommit, Schedule, DowngradeDies, Scrape,
       PurgeStart, PurgeDies, NextDay, PurgeBatch, retentionVars, table

LEMMA Deletable ==
    ASSUME RetentionInv, NEW batch \in SUBSET stored, PurgeBatch(batch), NEW s \in batch
    PROVE  \/ s \in marked /\ left[s] = 0
           \/ s \notin marked /\ age[s] > LONG
           \/ s \notin marked /\ Aged(s) /\ ~Shared
BY DEF PurgeBatch, Expired, RetentionInv, RetentionTypeOK

\* For any merchants, batches and days: a snapshot that some 90-day plan tracked at
\* every moment since it passed 30 days is not deleted before 90 days, and none is
\* before 30, however plans and trackings change under the purge.
THEOREM HistoryIsKept == RetentionSpec => HistoryKept
<1>1. RetentionInv /\ [RetentionNext]_retentionVars
        => [\A s \in stored \ stored' :
               \/ age[s] > LONG
               \/ Aged(s) /\ s \notin covered]_retentionVars
  <2> SUFFICES ASSUME RetentionInv, [RetentionNext]_retentionVars, NEW s \in stored \ stored'
               PROVE  age[s] > LONG \/ (Aged(s) /\ s \notin covered)
    OBVIOUS
  <2>1. PICK batch \in SUBSET stored : PurgeBatch(batch) /\ s \in batch
    BY DeletedByPurge
  <2>2. QED
    BY <2>1, Deletable DEF RetentionInv, MarksInv
<1>2. QED
  BY <1>1, MarksHold, PTL DEF RetentionSpec, HistoryKept

\* For any merchants, batches and days: what the last 90-day plan had kept when it
\* downgraded stays for the days of grace, unless a purge falls between the commit
\* of the downgrade and its marking.
THEOREM GraceIsKept == RetentionSpec => GraceKept
<1>1. RetentionInv /\ [RetentionNext]_retentionVars
        => [\A s \in stored \ stored' :
               promised[s] > 0 => s \notin marked /\ leaving # {}]_retentionVars
  <2> SUFFICES ASSUME RetentionInv, [RetentionNext]_retentionVars, NEW s \in stored \ stored',
                      promised[s] > 0
               PROVE  s \notin marked /\ leaving # {}
    OBVIOUS
  <2>1. PICK batch \in SUBSET stored : PurgeBatch(batch) /\ s \in batch
    BY DeletedByPurge
  <2>2. s \notin marked
    BY <2>1, Deletable, RetentionAssumption DEF RetentionInv, RetentionTypeOK, MarksInv
  <2>3. QED
    BY <2>2 DEF RetentionInv, MarksInv
<1>2. QED
  BY <1>1, MarksHold, PTL DEF RetentionSpec, GraceKept

----------------------------------------------------------------------------
(* The engine settles: while all but the rules rest, they move the price at  *)
(* most twice for each cycle that may overlap, for every market, own price,  *)
(* floor and ceiling, and any number of cycles.                              *)

\* An ordered market has a first price, which is not above the median.
LEMMA MedianOfMarket ==
    ASSUME NEW p \in Seq(Nat), p # <<>>
    PROVE  /\ Len(p) \in Nat \ {0} /\ Head(p) = p[1] /\ p[1] \in Nat /\ Median(p) \in Nat
           /\ Ordered(p) => 2 * p[1] <= Median(p)
<1>1. Len(p) \in Nat \ {0} /\ DOMAIN p = 1..Len(p) /\ \A i \in 1..Len(p) : p[i] \in Nat
  BY EmptySeq, LenProperties, ElementOfSeq
<1>2. /\ 1 \in 1..Len(p) /\ (Len(p) + 1) \div 2 \in 1..Len(p)
      /\ Len(p) \div 2 + 1 \in 1..Len(p)
  BY <1>1
<1>3. Head(p) = p[1]
  BY <1>1
<1>4. Median(p) \in Nat
  BY <1>1, <1>2 DEF Median
<1>5. ASSUME Ordered(p) PROVE 2 * p[1] <= Median(p)
  <2>1. p[1] <= p[(Len(p) + 1) \div 2] /\ p[1] <= p[Len(p) \div 2 + 1]
    BY <1>1, <1>2, <1>5 DEF Ordered
  <2>2. QED
    BY <1>1, <1>2, <2>1 DEF Median
<1>6. QED
  BY <1>1, <1>2, <1>3, <1>4, <1>5

\* The cheapest price is never an outlier, so the engine's median is a number, too.
LEMMA MedianOfFiltered ==
    ASSUME NEW p \in Seq(Nat), p # <<>>, Ordered(p)
    PROVE  Median(Filtered(p)) \in Nat
<1> DEFINE kept == {i \in DOMAIN p : 2 * p[i] <= 5 * Median(p)}
<1>1. /\ Len(p) \in Nat \ {0} /\ DOMAIN p = 1..Len(p) /\ \A i \in 1..Len(p) : p[i] \in Nat
      /\ Median(p) \in Nat /\ 2 * p[1] <= Median(p)
  BY MedianOfMarket, LenProperties, ElementOfSeq
<1>2. IsFiniteSet(1..Len(p)) /\ Cardinality(1..Len(p)) = Len(p)
  BY <1>1, FS_Interval
<1>3. IsFiniteSet(kept) /\ Cardinality(kept) \in Nat /\ Cardinality(kept) <= Len(p)
  BY <1>1, <1>2, FS_Subset, FS_CardinalityType
<1>4. 1 \in kept
  BY <1>1
<1>5. Cardinality(kept) # 0
  BY <1>3, <1>4, FS_EmptySet
<1>6. PICK n \in 1..Len(p) : n = Cardinality(kept)
  <2> HIDE DEF kept
  <2>1. Cardinality(kept) \in 1..Len(p)
    BY <1>1, <1>3, <1>5
  <2>2. QED
    BY <2>1
<1>7. \A i \in 1..n : p[i] \in Nat
  BY <1>1, <1>6
<1>8. Filtered(p) \in Seq(Nat) /\ Len(Filtered(p)) = n
  <2>1. Filtered(p) = SubSeq(p, 1, n)
    BY <1>6 DEF Filtered
  <2>2. SubSeq(p, 1, n) \in Seq(Nat) /\ Len(SubSeq(p, 1, n)) = n
    BY <1>6, <1>7, SubSeqProperties
  <2>3. QED
    BY <2>1, <2>2
<1>9. QED
  BY <1>8, MedianOfMarket, EmptySeq

\* The price a signal leads to in this market.
RaisePrice == NewPrice("RAISE")
LowerPrice == NewPrice("LOWER")

\* Where the rules leave the price in this market.  There the engine goes for no other:
\* a raise to it is the last of all, unless it is overpriced even then.
Stop == IF Overpriced(RaisePrice, market) THEN LowerPrice ELSE RaisePrice

\* Cycles that have read before the price came there, and are going to move it away.
Astray == {c \in fresh : cycle[c].price \notin {NoPrice, Stop}}

\* The move that is still due to the price itself.
Due == IF sku.price = Stop THEN 0 ELSE 1

\* A cycle that read at rest goes for what the market says, and nothing changes that.
FreshInv ==
    /\ \A c \in Cycles : cycle[c].at = "price" => cycle[c].price # NoPrice
    /\ \A c \in fresh :
          /\ cycle[c].at # "idle"
          /\ cycle[c].price # NoPrice =>
                market # <<>> /\ cycle[c].price \in {RaisePrice, LowerPrice}

\* Each cycle astray may still move the price away, and it may be moved back once.
\* Once the rules have set the price, no cycle that reads it goes astray.
SettleInv ==
    moves # 0 =>
        /\ market # <<>>
        /\ sku.price \in {RaisePrice, LowerPrice}
        /\ moves + 2 * Cardinality(Astray) + Due <= 2 * Cardinality(Cycles)

RepricingInv == RepricingTypeOK /\ Ordered(market) /\ FreshInv /\ SettleInv

\* The bounds keep two targets in their order.
LEMMA ClampedOrder ==
    ASSUME RepricingTypeOK, NEW a \in Int, NEW b \in Int
    PROVE  Clamped(a) \in Int /\ (a <= b => Clamped(a) <= Clamped(b))
<1>1. /\ sku.floor # NoBound => sku.floor \in Nat
      /\ sku.ceiling # NoBound => sku.ceiling \in Nat
  BY RepricingAssumption DEF RepricingTypeOK
<1>2. CASE sku.floor # NoBound /\ sku.ceiling # NoBound
  BY <1>1, <1>2 DEF Clamped
<1>3. CASE sku.floor # NoBound /\ sku.ceiling = NoBound
  BY <1>1, <1>3 DEF Clamped
<1>4. CASE sku.floor = NoBound /\ sku.ceiling # NoBound
  BY <1>1, <1>4 DEF Clamped
<1>5. CASE sku.floor = NoBound /\ sku.ceiling = NoBound
  BY <1>1, <1>5 DEF Clamped
<1>6. QED
  BY <1>2, <1>3, <1>4, <1>5

\* A raise never leads beyond what a cut would have led to.
LEMMA RaiseBelowLower ==
    ASSUME RepricingTypeOK, Ordered(market), market # <<>>
    PROVE  RaisePrice \in Int /\ LowerPrice \in Int /\ RaisePrice <= LowerPrice
<1>1. market \in Seq(Nat)
  BY RepricingAssumption, SeqMonotonic DEF RepricingTypeOK
<1>2. /\ Target("RAISE", market) \in Int /\ Target("LOWER", market) \in Int
      /\ Target("RAISE", market) <= Target("LOWER", market)
  BY <1>1, MedianOfMarket DEF Target
<1>3. PICK a \in Int, b \in Int : a = Clamped(Target("RAISE", market)) /\ b = Clamped(Target("LOWER", market)) /\ a <= b
  BY <1>2, ClampedOrder
<1>4. RaisePrice = (a + 1) \div 2 /\ LowerPrice = (b + 1) \div 2
  BY <1>3 DEF RaisePrice, LowerPrice, NewPrice
<1>5. QED
  BY <1>3, <1>4

\* What is overpriced stays so at a higher price.
LEMMA OverpricedUpwards ==
    ASSUME RepricingTypeOK, Ordered(market), NEW a \in Int, NEW b \in Int, a <= b,
           Overpriced(a, market)
    PROVE  Overpriced(b, market)
<1>1. market \in Seq(Nat) /\ market # <<>>
  BY RepricingAssumption, SeqMonotonic DEF RepricingTypeOK, Overpriced
<1>2. Median(Filtered(market)) \in Nat
  BY <1>1, MedianOfFiltered
<1>3. QED
  BY <1>2 DEF Overpriced

LEMMA RepricingStarts == RepricingInit => RepricingInv
<1>1. ASSUME RepricingInit PROVE RepricingInv
  <2>1. RepricingTypeOK /\ Ordered(market)
    BY <1>1, RepricingAssumption, EmptySeq
       DEF RepricingInit, RepricingTypeOK, Ordered, SignalTypes
  <2>2. FreshInv
    BY <1>1 DEF RepricingInit, FreshInv, NoCycle
  <2>3. QED
    BY <1>1, <2>1, <2>2 DEF RepricingInit, RepricingInv, SettleInv
<1>2. QED
  BY <1>1

\* What is counted is finite.
LEMMA AstrayCounted ==
    ASSUME fresh \subseteq Cycles
    PROVE  /\ Cardinality(Cycles) \in Nat
           /\ \A S \in SUBSET Cycles :
                 IsFiniteSet(S) /\ Cardinality(S) \in Nat /\ Cardinality(S) <= Cardinality(Cycles)
           /\ Astray \in SUBSET Cycles
<1>1. \A S \in SUBSET Cycles :
         IsFiniteSet(S) /\ Cardinality(S) \in Nat /\ Cardinality(S) <= Cardinality(Cycles)
  BY FS_Subset, FS_CardinalityType, RepricingAssumption
<1>2. QED
  BY <1>1, FS_CardinalityType, RepricingAssumption DEF Astray

\* Where the rules lead depends on the market and the bounds alone.
LEMMA StopStays ==
    ASSUME market' = market, sku'.floor = sku.floor, sku'.ceiling = sku.ceiling
    PROVE  UNCHANGED <<RaisePrice, LowerPrice, Stop>>
<1>1. UNCHANGED <<RaisePrice, LowerPrice>>
  BY DEF RaisePrice, LowerPrice, NewPrice, Clamped
<1>2. QED
  BY <1>1 DEF Stop, Overpriced

\* Cycles that end, or get on, move nothing.
LEMMA CyclesGetOn ==
    ASSUME RepricingInv, RepricingTypeOK', FreshInv', UNCHANGED <<market, sku, moves>>,
           moves # 0 => Astray' \subseteq Astray
    PROVE  RepricingInv'
<1>1. UNCHANGED <<RaisePrice, LowerPrice, Stop>>
  BY StopStays
<1>2. ASSUME moves # 0 PROVE Cardinality(Astray') <= Cardinality(Astray)
  BY <1>2, AstrayCounted, FS_Subset DEF RepricingInv, RepricingTypeOK
<1>3. Astray \in SUBSET Cycles /\ (moves # 0 => Astray' \in SUBSET Cycles)
  BY AstrayCounted DEF RepricingInv, RepricingTypeOK
<1>4. Due' = Due
  BY <1>1 DEF Due
<1>5. SettleInv'
  <2> SUFFICES ASSUME moves # 0
               PROVE  moves + 2 * Cardinality(Astray') + Due <= 2 * Cardinality(Cycles)
    BY <1>1, <1>4 DEF SettleInv, RepricingInv
  <2>1. moves + 2 * Cardinality(Astray) + Due <= 2 * Cardinality(Cycles)
    BY DEF SettleInv, RepricingInv
  <2>2. /\ Cardinality(Astray) \in Nat /\ Cardinality(Astray') \in Nat
        /\ Cardinality(Cycles) \in Nat /\ moves \in Nat /\ Due \in {0, 1}
    BY <1>3, AstrayCounted DEF Due, RepricingInv, RepricingTypeOK
  <2>3. QED
    BY <1>2, <2>1, <2>2
<1>6. QED
  BY <1>5 DEF RepricingInv

\* Once the rules have set the price, whoever reads it goes where it is to stop.
LEMMA ReadsSettle ==
    ASSUME RepricingInv, NEW signal \in SignalTypes, Repriced(signal),
           signal = ComputeSignal(sku.price, market), sku.price \in {RaisePrice, LowerPrice}
    PROVE  NewPrice(signal) = Stop
<1>1. /\ RaisePrice \in Int /\ LowerPrice \in Int /\ RaisePrice <= LowerPrice
      /\ RepricingTypeOK /\ Ordered(market)
  BY RaiseBelowLower DEF RepricingInv, Repriced
<1>2. CASE signal = "LOWER"
  <2>1. Overpriced(sku.price, market) /\ NewPrice(signal) = LowerPrice /\ sku.price # LowerPrice
    BY <1>2 DEF ComputeSignal, LowerPrice, Repriced
  <2>2. QED
    BY <2>1 DEF Stop
<1>3. CASE signal = "RAISE"
  <2>1. ~Overpriced(sku.price, market) /\ NewPrice(signal) = RaisePrice /\ sku.price = LowerPrice
    BY <1>3 DEF ComputeSignal, RaisePrice, Repriced
  <2>2. ~Overpriced(RaisePrice, market)
    BY <1>1, <2>1, OverpricedUpwards
  <2>3. QED
    BY <2>1, <2>2 DEF Stop
<1>4. QED
  BY <1>2, <1>3 DEF Repriced

LEMMA ReadSettles ==
    ASSUME RepricingInv, NEW c \in Cycles, NEW signal \in SignalTypes,
           NEW source \in {"rule", "ai"}, ReadMarket(c, signal, source)
    PROVE  RepricingInv'
<1> DEFINE price == IF Repriced(signal) THEN NewPrice(signal) ELSE NoPrice
<1>1. /\ cycle' = [cycle EXCEPT ![c] = [at |-> "signal", signal |-> signal, price |-> price]]
      /\ UNCHANGED <<market, sku, emitted, moves>> /\ cycle[c] = NoCycle
      /\ fresh' = IF source = "rule" THEN fresh \cup {c} ELSE fresh
      /\ source = "rule" => signal = ComputeSignal(sku.price, market)
  BY DEF ReadMarket
<1>2. RepricingTypeOK /\ Ordered(market) /\ FreshInv /\ c \notin fresh
  BY <1>1 DEF RepricingInv, FreshInv, NoCycle
<1>3. /\ price \in Nat
      /\ price # NoPrice =>
           market # <<>> /\ price \in {RaisePrice, LowerPrice} /\ Repriced(signal)
                         /\ price = NewPrice(signal)
  <2>1. CASE Repriced(signal)
    BY <1>2, <2>1, RaiseBelowLower DEF Repriced, RaisePrice, LowerPrice
  <2>2. CASE ~Repriced(signal)
    BY <2>2 DEF NoPrice
  <2>3. QED
    BY <2>1, <2>2
<1> HIDE DEF price
<1>4. /\ cycle'[c] = [at |-> "signal", signal |-> signal, price |-> price]
      /\ \A d \in Cycles \ {c} : cycle'[d] = cycle[d]
  BY <1>1, <1>2 DEF RepricingTypeOK
<1>5. RepricingTypeOK'
  BY <1>1, <1>2, <1>3 DEF RepricingTypeOK
<1>6. UNCHANGED <<RaisePrice, LowerPrice, Stop>>
  BY <1>1, StopStays
<1>7. FreshInv'
  BY <1>1, <1>2, <1>3, <1>4, <1>6 DEF FreshInv, RepricingTypeOK
<1>8. ASSUME moves # 0 PROVE Astray' \subseteq Astray
  <2>1. source = "rule" /\ price # NoPrice => price = Stop
    BY <1>1, <1>3, <1>8, ReadsSettle DEF RepricingInv, SettleInv
  <2>2. QED
    BY <1>1, <1>2, <1>4, <1>6, <2>1 DEF Astray, RepricingTypeOK
<1>9. QED
  BY <1>1, <1>5, <1>7, <1>8, CyclesGetOn

\* A cycle ends, or takes its signal on to Shopify.
LEMMA CycleGetsOn ==
    ASSUME RepricingInv, NEW c \in Cycles, SetSignal(c) \/ CycleDies(c)
    PROVE  RepricingInv'
<1>1. RepricingTypeOK /\ FreshInv /\ UNCHANGED <<market, sku, moves>> /\ emitted' \subseteq SignalTypes
  <2>1. UNCHANGED <<market, sku, moves>>
    BY DEF SetSignal, CycleDies
  <2>2. emitted' \subseteq SignalTypes
    <3>1. CASE SetSignal(c)
      <4>1. cycle[c] # NoCycle
        BY <3>1 DEF SetSignal, NoCycle
      <4>2. cycle[c].signal \in SignalTypes /\ emitted \subseteq SignalTypes
        BY <4>1 DEF RepricingInv, RepricingTypeOK
      <4>3. QED
        BY <3>1, <4>2 DEF SetSignal
    <3>2. CASE CycleDies(c)
      BY <3>2 DEF CycleDies, RepricingInv, RepricingTypeOK
    <3>3. QED
      BY <3>1, <3>2
  <2>3. QED
    BY <2>1, <2>2 DEF RepricingInv
<1>2. CASE CycleEnds(c) /\ fresh' = fresh \ {c}
  <2>1. cycle' = [cycle EXCEPT ![c] = NoCycle] /\ fresh' = fresh \ {c}
    BY <1>2 DEF CycleEnds
  <2>2. cycle'[c] = NoCycle /\ \A d \in Cycles \ {c} : cycle'[d] = cycle[d]
    BY <1>1, <2>1 DEF RepricingTypeOK
  <2>3. RepricingTypeOK'
    BY <1>1, <2>1 DEF RepricingTypeOK
  <2>4. UNCHANGED <<RaisePrice, LowerPrice, Stop>>
    BY <1>1, StopStays
  <2>5. FreshInv'
    BY <1>1, <2>1, <2>2, <2>4 DEF FreshInv, RepricingTypeOK, NoCycle
  <2>6. Astray' \subseteq Astray
    BY <1>1, <2>1, <2>2, <2>4 DEF Astray, RepricingTypeOK
  <2>7. QED
    BY <1>1, <2>3, <2>5, <2>6, CyclesGetOn
<1>3. CASE /\ cycle[c].at = "signal" /\ cycle[c].price # NoPrice
           /\ cycle' = [cycle EXCEPT ![c].at = "price"] /\ UNCHANGED fresh
  <2>1. cycle[c] \in [at : {"signal", "price"}, signal : SignalTypes, price : Nat]
    BY <1>1, <1>3 DEF RepricingTypeOK, NoCycle
  <2>2. /\ cycle'[c] = [cycle[c] EXCEPT !.at = "price"]
        /\ \A d \in Cycles \ {c} : cycle'[d] = cycle[d]
    BY <1>1, <1>3 DEF RepricingTypeOK
  <2>3. /\ cycle'[c] \in [at : {"signal", "price"}, signal : SignalTypes, price : Nat]
        /\ cycle'[c].at = "price" /\ cycle'[c].price = cycle[c].price
    BY <2>1, <2>2
  <2>4. RepricingTypeOK'
    BY <1>1, <1>3, <2>2, <2>3 DEF RepricingTypeOK
  <2>5. UNCHANGED <<RaisePrice, LowerPrice, Stop>>
    BY <1>1, StopStays
  <2>6. FreshInv'
    BY <1>1, <1>3, <2>2, <2>3, <2>5 DEF FreshInv, RepricingTypeOK
  <2>7. Astray' \subseteq Astray
    BY <1>1, <1>3, <2>2, <2>3, <2>5 DEF Astray, RepricingTypeOK
  <2>8. QED
    BY <1>1, <2>4, <2>6, <2>7, CyclesGetOn
<1>4. QED
  BY <1>2, <1>3 DEF SetSignal, CycleDies

\* A write moves the price away for a cycle astray, or back to where it is to stop.
LEMMA WriteSettles ==
    ASSUME RepricingInv, NEW c \in Cycles, WritePrice(c)
    PROVE  RepricingInv'
<1> DEFINE price == cycle[c].price
<1>1. /\ cycle[c].at = "price" /\ sku' = [sku EXCEPT !.price = price]
      /\ cycle' = [cycle EXCEPT ![c] = NoCycle] /\ UNCHANGED <<market, emitted>>
      /\ \/ /\ c \in fresh /\ fresh' = fresh \ {c}
            /\ moves' = IF sku'.price # sku.price THEN moves + 1 ELSE moves
         \/ fresh' = {} /\ moves' = 0
  BY DEF WritePrice, CycleEnds, RestsAnew
<1>2. RepricingTypeOK /\ Ordered(market) /\ FreshInv /\ SettleInv
  BY DEF RepricingInv
<1>3. price \in Nat \ {0}
  BY <1>1, <1>2 DEF RepricingTypeOK, FreshInv, NoCycle, NoPrice
<1> HIDE DEF price
<1>4. sku'.price = price /\ sku'.floor = sku.floor /\ sku'.ceiling = sku.ceiling
  BY <1>1, <1>2 DEF RepricingTypeOK
<1>5. UNCHANGED <<RaisePrice, LowerPrice, Stop>>
  BY <1>1, <1>4, StopStays
<1>6. cycle'[c] = NoCycle /\ \A d \in Cycles \ {c} : cycle'[d] = cycle[d]
  BY <1>1, <1>2 DEF RepricingTypeOK
<1>7. RepricingTypeOK'
  <2>1. sku' \in [price : Nat \ {0}, floor : Floors \cup {NoBound}, ceiling : Ceilings \cup {NoBound}]
    BY <1>1, <1>2, <1>3 DEF RepricingTypeOK
  <2>2. moves' \in Nat /\ fresh' \subseteq Cycles
    BY <1>1, <1>2 DEF RepricingTypeOK
  <2>3. QED
    BY <1>1, <1>2, <2>1, <2>2 DEF RepricingTypeOK
<1>8. FreshInv'
  BY <1>1, <1>2, <1>5, <1>6 DEF FreshInv, RepricingTypeOK, NoCycle
<1>9. SettleInv'
  <2> SUFFICES ASSUME moves' # 0 PROVE SettleInv'
    BY DEF SettleInv
  <2>1. c \in fresh /\ fresh' = fresh \ {c} /\ moves' = IF price # sku.price THEN moves + 1 ELSE moves
    BY <1>1, <1>4
  <2>2. market # <<>> /\ price \in {RaisePrice, LowerPrice} /\ price # NoPrice
    BY <1>2, <1>3, <2>1 DEF FreshInv, price, NoPrice
  <2>3. Astray' = Astray \ {c}
    BY <1>2, <1>5, <1>6, <2>1 DEF Astray, RepricingTypeOK
  <2>4. c \in Astray <=> price # Stop
    BY <2>1, <2>2 DEF Astray, price
  <2>5. /\ Cardinality(Astray) \in Nat /\ Cardinality(Astray') \in Nat
        /\ Cardinality(Cycles) \in Nat /\ Cardinality(Astray) <= Cardinality(Cycles)
        /\ moves \in Nat /\ IsFiniteSet(Astray)
    <3>1. Astray \in SUBSET Cycles /\ Astray' \in SUBSET Cycles
      BY <1>2, <2>3, AstrayCounted DEF RepricingTypeOK
    <3>2. QED
      BY <1>2, <3>1, AstrayCounted DEF RepricingTypeOK
  <2>6. Stop \in {RaisePrice, LowerPrice}
    BY DEF Stop
  <2>7. Due' = IF price = Stop THEN 0 ELSE 1
    BY <1>4, <1>5 DEF Due
  <2>8. moves' + 2 * Cardinality(Astray') + Due' <= 2 * Cardinality(Cycles)
    <3>1. CASE price = Stop
      <4>1. Astray' = Astray /\ Due' = 0
        BY <2>3, <2>4, <2>7, <3>1
      <4>2. CASE moves # 0
        <5>1. moves + 2 * Cardinality(Astray) + Due <= 2 * Cardinality(Cycles)
          BY <1>2, <4>2 DEF SettleInv
        <5>2. /\ Due \in {0, 1}
              /\ price # sku.price => Due = 1
          BY <3>1 DEF Due
        <5>3. QED
          BY <2>1, <2>5, <4>1, <5>1, <5>2
      <4>3. CASE moves = 0
        <5>1. Astray \in SUBSET (Cycles \ {c})
          BY <1>2, <2>4, <3>1 DEF Astray, RepricingTypeOK
        <5>2. /\ IsFiniteSet(Cycles \ {c})
              /\ Cardinality(Cycles \ {c}) = Cardinality(Cycles) - 1
          BY RepricingAssumption, FS_RemoveElement
        <5>3. Cardinality(Astray) <= Cardinality(Cycles) - 1
          BY <5>1, <5>2, FS_Subset
        <5>4. QED
          BY <2>1, <2>5, <4>1, <4>3, <5>3
      <4>4. QED
        BY <4>2, <4>3
    <3>2. CASE price # Stop
      <4>1. Cardinality(Astray') = Cardinality(Astray) - 1 /\ Due' = 1
        BY <2>3, <2>4, <2>5, <2>7, <3>2, FS_RemoveElement
      <4>2. CASE moves # 0
        <5>1. /\ moves + 2 * Cardinality(Astray) + Due <= 2 * Cardinality(Cycles)
              /\ Due \in {0, 1}
          BY <1>2, <4>2 DEF SettleInv, Due
        <5>2. QED
          BY <2>1, <2>5, <4>1, <5>1
      <4>3. CASE moves = 0
        BY <2>1, <2>5, <4>1, <4>3
      <4>4. QED
        BY <4>2, <4>3
    <3>3. QED
      BY <3>1, <3>2
  <2>9. QED
    BY <1>1, <1>4, <1>5, <2>2, <2>8 DEF SettleInv
<1>10. QED
  BY <1>1, <1>2, <1>7, <1>8, <1>9 DEF RepricingInv

\* One competitor more or less in stock leaves a market.
LEMMA MarketStays ==
    ASSUME NEW m \in Seq(MarketPrices), NEW price \in MarketPrices
    PROVE  /\ \A i \in 1..(Len(m) + 1) : InsertAt(m, i, price) \in Seq(MarketPrices)
           /\ \A i \in DOMAIN m : RemoveAt(m, i) \in Seq(MarketPrices)
<1>1. /\ Len(m) \in Nat /\ DOMAIN m = 1..Len(m) /\ \A i \in 1..Len(m) : m[i] \in MarketPrices
      /\ <<price>> \in Seq(MarketPrices)
  BY LenProperties, ElementOfSeq
<1>2. ASSUME NEW i \in Int, NEW j \in Int, i >= 1, j <= Len(m)
      PROVE  SubSeq(m, i, j) \in Seq(MarketPrices)
  BY <1>1, <1>2, SubSeqProperties
<1>3. ASSUME NEW i \in 1..(Len(m) + 1) PROVE InsertAt(m, i, price) \in Seq(MarketPrices)
  <2>1. /\ SubSeq(m, 1, i - 1) \in Seq(MarketPrices)
        /\ SubSeq(m, i, Len(m)) \in Seq(MarketPrices)
    BY <1>1, <1>2
  <2>2. SubSeq(m, 1, i - 1) \o <<price>> \in Seq(MarketPrices)
    BY <1>1, <2>1, ConcatProperties
  <2>3. QED
    BY <2>1, <2>2, ConcatProperties DEF InsertAt
<1>4. ASSUME NEW i \in DOMAIN m PROVE RemoveAt(m, i) \in Seq(MarketPrices)
  <2>1. /\ SubSeq(m, 1, i - 1) \in Seq(MarketPrices)
        /\ SubSeq(m, i + 1, Len(m)) \in Seq(MarketPrices)
    BY <1>1, <1>2
  <2>2. QED
    BY <2>1, ConcatProperties DEF RemoveAt
<1>5. QED
  BY <1>3, <1>4

LEMMA RepricingStep == RepricingInv /\ [RepricingNext]_repricingVars => RepricingInv'
<1> SUFFICES ASSUME RepricingInv, [RepricingNext]_repricingVars PROVE RepricingInv'
  OBVIOUS
<1>1. ASSUME NEW s, Edited(s), s \in [price : Nat \ {0}, floor : Floors \cup {NoBound},
                                      ceiling : Ceilings \cup {NoBound}]
      PROVE  RepricingInv'
  <2>1. RepricingTypeOK'
    BY <1>1 DEF Edited, RestsAnew, RepricingInv, RepricingTypeOK
  <2>2. QED
    BY <1>1, <2>1 DEF Edited, RestsAnew, RepricingInv, FreshInv, SettleInv
<1>2. /\ sku \in [price : Nat \ {0}, floor : Floors \cup {NoBound}, ceiling : Ceilings \cup {NoBound}]
      /\ OwnPrices \subseteq Nat \ {0}
  BY RepricingAssumption DEF RepricingInv, RepricingTypeOK
<1>3. CASE PatchSku
  <2>1. ASSUME NEW f \in Floors, Edited([sku EXCEPT !.floor = f]) PROVE RepricingInv'
    BY <1>1, <1>2, <2>1
  <2>2. ASSUME NEW c \in Ceilings, Edited([sku EXCEPT !.ceiling = c]) PROVE RepricingInv'
    BY <1>1, <1>2, <2>2
  <2>3. ASSUME NEW price \in OwnPrices, Edited([sku EXCEPT !.price = price]) PROVE RepricingInv'
    BY <1>1, <1>2, <2>3
  <2>4. QED
    BY <1>3, <2>1, <2>2, <2>3 DEF PatchSku
<1>4. CASE UpdateSkuReprice
  <2>1. PICK f \in Floors \cup {sku.floor}, c \in Ceilings \cup {sku.ceiling} :
             Edited([sku EXCEPT !.floor = f, !.ceiling = c])
    BY <1>4 DEF UpdateSkuReprice
  <2>2. [sku EXCEPT !.floor = f, !.ceiling = c] \in
           [price : Nat \ {0}, floor : Floors \cup {NoBound}, ceiling : Ceilings \cup {NoBound}]
    BY <1>2
  <2>3. QED
    BY <1>1, <2>1, <2>2
<1>5. ASSUME NEW price \in OwnPrices, ApplyManualPrice(price) \/ ImportPrice(price)
      PROVE  RepricingInv'
  BY <1>1, <1>2, <1>5 DEF ApplyManualPrice, ImportPrice
<1>6. ASSUME NEW price \in MarketPrices, NewSnapshot(price) PROVE RepricingInv'
  <2>1. market \in Seq(MarketPrices)
    BY DEF RepricingInv, RepricingTypeOK
  <2>2. market' \in Seq(MarketPrices)
    BY <1>6, <2>1, MarketStays DEF NewSnapshot
  <2>3. RepricingTypeOK'
    BY <1>6, <2>2 DEF NewSnapshot, RestsAnew, RepricingInv, RepricingTypeOK
  <2>4. QED
    BY <1>6, <2>3 DEF NewSnapshot, RestsAnew, RepricingInv, FreshInv, SettleInv
<1>7. ASSUME UNCHANGED <<market, sku, cycle, fresh, moves>>, emitted' \subseteq SignalTypes
      PROVE  RepricingInv'
  <2>1. UNCHANGED <<RaisePrice, LowerPrice, Stop>>
    BY <1>7, StopStays
  <2>2. RepricingTypeOK' /\ FreshInv' /\ Astray' = Astray
    BY <1>7, <2>1 DEF RepricingInv, RepricingTypeOK, FreshInv, Astray
  <2>3. QED
    BY <1>7, <2>2, CyclesGetOn
<1>8. ASSUME NEW signal \in SignalTypes, DedupExpires(signal) PROVE RepricingInv'
  BY <1>7, <1>8 DEF DedupExpires, RepricingInv, RepricingTypeOK
<1>9. CASE UNCHANGED repricingVars
  BY <1>7, <1>9 DEF repricingVars, RepricingInv, RepricingTypeOK
<1>10. QED
  BY <1>3, <1>4, <1>5, <1>6, <1>8, <1>9, ReadSettles, CycleGetsOn, WriteSettles DEF RepricingNext

LEMMA RepricingHolds == RepricingSpec => []RepricingInv
BY RepricingStarts, RepricingStep, PTL DEF RepricingSpec

\* compute_signal, compute_reprice, apply_price_change: while the market, the bounds
\* and all but the rules rest, the rules move the price at most twice for each cycle
\* that may overlap, for any prices, bounds and number of competitors and cycles.
THEOREM EngineSettles == RepricingSpec => []RepricingSettles
<1>1. ASSUME RepricingInv PROVE RepricingSettles
  <2>1. /\ Cardinality(Cycles) \in Nat /\ Cardinality(Astray) \in Nat
        /\ moves \in Nat /\ Due \in {0, 1}
    BY <1>1, AstrayCounted DEF RepricingInv, RepricingTypeOK, Due
  <2>2. QED
    BY <1>1, <2>1 DEF RepricingInv, SettleInv, RepricingSettles
<1>2. QED
  BY <1>1, RepricingHolds, PTL

----------------------------------------------------------------------------
(* No saved scenario is lost, for any number of tools, tabs, saves and any *)
(* length of a bucket.                                                     *)

LEMMA ElementsOf ==
    ASSUME NEW S, NEW s \in Seq(S)
    PROVE  /\ Len(s) \in Nat /\ DOMAIN s = 1..Len(s) /\ \A i \in 1..Len(s) : s[i] \in S
           /\ ToSet(s) = {s[i] : i \in 1..Len(s)}
BY LenProperties, ElementOfSeq DEF ToSet

LEMMA ElementsOfPushed ==
    ASSUME NEW S, NEW s \in Seq(S), NEW e \in S
    PROVE  /\ <<e>> \o s \in Seq(S) /\ Len(<<e>> \o s) = Len(s) + 1
           /\ ToSet(<<e>> \o s) = {e} \cup ToSet(s)
<1>1. /\ <<e>> \in Seq(S) /\ Len(<<e>>) = 1 /\ <<e>>[1] = e
  OBVIOUS
<1>2. PICK u : u = <<e>> \o s
  OBVIOUS
<1>3. /\ u \in Seq(S) /\ Len(u) = Len(s) + 1 /\ Len(s) \in Nat
      /\ \A i \in 1..(Len(s) + 1) : u[i] = IF i <= 1 THEN e ELSE s[i - 1]
  <2>1. Len(s) \in Nat
    BY ElementsOf
  <2>2. /\ u \in Seq(S) /\ Len(u) = Len(<<e>>) + Len(s)
        /\ \A i \in 1..(Len(<<e>>) + Len(s)) :
              u[i] = IF i <= Len(<<e>>) THEN <<e>>[i] ELSE s[i - Len(<<e>>)]
    BY <1>1, <1>2, ConcatProperties
  <2>3. QED
    BY <1>1, <2>1, <2>2
<1>4. u[1] = e /\ \A i \in 1..Len(s) : u[i + 1] = s[i]
  BY <1>3
<1>5. /\ ToSet(u) = {u[i] : i \in 1..(Len(s) + 1)}
      /\ ToSet(s) = {s[i] : i \in 1..Len(s)}
  BY <1>3, ElementsOf
<1>6. ToSet(u) \subseteq {e} \cup ToSet(s)
  <2>1. ASSUME NEW i \in 1..(Len(s) + 1) PROVE u[i] \in {e} \cup ToSet(s)
    <3>1. CASE i = 1
      BY <1>4, <3>1
    <3>2. CASE i # 1
      <4>1. i - 1 \in 1..Len(s) /\ u[i] = s[i - 1]
        BY <1>3, <3>2
      <4>2. QED
        BY <1>5, <4>1
    <3>3. QED
      BY <3>1, <3>2
  <2>2. QED
    BY <1>5, <2>1
<1>7. {e} \cup ToSet(s) \subseteq ToSet(u)
  <2>1. e \in ToSet(u)
    BY <1>3, <1>4, <1>5
  <2>2. ASSUME NEW i \in 1..Len(s) PROVE s[i] \in ToSet(u)
    <3>1. i + 1 \in 1..(Len(s) + 1)
      BY <1>3
    <3>2. QED
      BY <1>4, <1>5, <3>1
  <2>3. QED
    BY <1>5, <2>1, <2>2
<1>8. QED
  BY <1>2, <1>3, <1>6, <1>7

LEMMA ElementsOfCut ==
    ASSUME NEW S, NEW s \in Seq(S), NEW m \in Int, NEW n \in Int, 1 <= m, n <= Len(s)
    PROVE  /\ SubSeq(s, m, n) \in Seq(S)
           /\ Len(SubSeq(s, m, n)) = IF m <= n THEN n - m + 1 ELSE 0
           /\ \A i \in 1..(n - m + 1) : SubSeq(s, m, n)[i] = s[m + i - 1]
           /\ ToSet(SubSeq(s, m, n)) = {s[i] : i \in m..n}
<1>1. Len(s) \in Nat /\ \A i \in m..n : s[i] \in S
  BY ElementsOf
<1>2. PICK u : u = SubSeq(s, m, n)
  OBVIOUS
<1>3. /\ u \in Seq(S) /\ Len(u) = IF m <= n THEN n - m + 1 ELSE 0
      /\ \A i \in 1..(n - m + 1) : u[i] = s[m + i - 1]
  BY <1>1, <1>2, SubSeqProperties
<1>4. Len(u) \in Nat /\ ToSet(u) = {u[i] : i \in 1..Len(u)}
  BY <1>3, ElementsOf
<1>5. ASSUME NEW i \in 1..Len(u) PROVE u[i] \in {s[k] : k \in m..n}
  <2>1. i \in 1..(n - m + 1) /\ m + i - 1 \in m..n
    BY <1>3
  <2>2. QED
    BY <1>3, <2>1
<1>6. ASSUME NEW k \in m..n PROVE s[k] \in ToSet(u)
  <2>1. k - m + 1 \in 1..Len(u) /\ k - m + 1 \in 1..(n - m + 1) /\ m + (k - m + 1) - 1 = k
    BY <1>3
  <2>2. u[k - m + 1] = s[k]
    BY <1>3, <2>1
  <2>3. QED
    BY <1>4, <2>1, <2>2
<1>7. QED
  BY <1>2, <1>3, <1>4, <1>5, <1>6

LEMMA ElementsOfRemoved ==
    ASSUME NEW S, NEW s \in Seq(S), NEW i \in 1..Len(s)
    PROVE  /\ RemoveAt(s, i) \in Seq(S) /\ Len(RemoveAt(s, i)) = Len(s) - 1
           /\ ToSet(RemoveAt(s, i)) \subseteq ToSet(s)
           /\ ToSet(s) \subseteq ToSet(RemoveAt(s, i)) \cup {s[i]}
<1>1. PICK a, b : a = SubSeq(s, 1, i - 1) /\ b = SubSeq(s, i + 1, Len(s))
  OBVIOUS
<1>2. Len(s) \in Nat /\ i \in Nat /\ ToSet(s) = {s[k] : k \in 1..Len(s)}
  BY ElementsOf
<1>3. /\ a \in Seq(S) /\ Len(a) = i - 1 /\ ToSet(a) = {s[k] : k \in 1..(i - 1)}
  <2>1. 1 \in Int /\ i - 1 \in Int /\ 1 <= 1 /\ i - 1 <= Len(s)
    BY <1>2
  <2>2. /\ SubSeq(s, 1, i - 1) \in Seq(S)
        /\ Len(SubSeq(s, 1, i - 1)) = IF 1 <= i - 1 THEN (i - 1) - 1 + 1 ELSE 0
        /\ ToSet(SubSeq(s, 1, i - 1)) = {s[k] : k \in 1..(i - 1)}
    BY <2>1, ElementsOfCut
  <2>3. (IF 1 <= i - 1 THEN (i - 1) - 1 + 1 ELSE 0) = i - 1
    BY <1>2
  <2>4. QED
    BY <1>1, <2>2, <2>3
<1>4. /\ b \in Seq(S) /\ Len(b) = Len(s) - i /\ ToSet(b) = {s[k] : k \in (i + 1)..Len(s)}
  <2>1. i + 1 \in Int /\ Len(s) \in Int /\ 1 <= i + 1 /\ Len(s) <= Len(s)
    BY <1>2
  <2>2. /\ SubSeq(s, i + 1, Len(s)) \in Seq(S)
        /\ Len(SubSeq(s, i + 1, Len(s))) = IF i + 1 <= Len(s) THEN Len(s) - (i + 1) + 1 ELSE 0
        /\ ToSet(SubSeq(s, i + 1, Len(s))) = {s[k] : k \in (i + 1)..Len(s)}
    BY <2>1, ElementsOfCut
  <2>3. (IF i + 1 <= Len(s) THEN Len(s) - (i + 1) + 1 ELSE 0) = Len(s) - i
    BY <1>2
  <2>4. QED
    BY <1>1, <2>2, <2>3
<1>5. PICK u : u = a \o b
  OBVIOUS
<1>6. /\ u \in Seq(S) /\ Len(u) = Len(a) + Len(b)
      /\ \A k \in 1..(Len(a) + Len(b)) : u[k] = IF k <= Len(a) THEN a[k] ELSE b[k - Len(a)]
  BY <1>3, <1>4, <1>5, ConcatProperties
<1>7. /\ ToSet(u) = {u[k] : k \in 1..Len(u)} /\ ToSet(a) = {a[k] : k \in 1..Len(a)}
      /\ ToSet(b) = {b[k] : k \in 1..Len(b)} /\ Len(a) \in Nat /\ Len(b) \in Nat
  BY <1>3, <1>4, <1>6, ElementsOf
<1>8. ToSet(u) = ToSet(a) \cup ToSet(b)
  <2>1. ASSUME NEW k \in 1..Len(u) PROVE u[k] \in ToSet(a) \cup ToSet(b)
    <3>1. CASE k <= Len(a)
      <4>1. k \in 1..Len(a) /\ u[k] = a[k]
        BY <1>6, <1>7, <3>1
      <4>2. QED
        BY <1>7, <4>1
    <3>2. CASE ~(k <= Len(a))
      <4>1. k - Len(a) \in 1..Len(b) /\ u[k] = b[k - Len(a)]
        BY <1>6, <1>7, <3>2
      <4>2. QED
        BY <1>7, <4>1
    <3>3. QED
      BY <3>1, <3>2
  <2>2. ASSUME NEW k \in 1..Len(a) PROVE a[k] \in ToSet(u)
    <3>1. k \in 1..Len(u) /\ u[k] = a[k]
      BY <1>6, <1>7
    <3>2. QED
      BY <1>7, <3>1
  <2>3. ASSUME NEW k \in 1..Len(b) PROVE b[k] \in ToSet(u)
    <3>1. k + Len(a) \in 1..Len(u) /\ ~(k + Len(a) <= Len(a)) /\ (k + Len(a)) - Len(a) = k
      BY <1>6, <1>7
    <3>2. u[k + Len(a)] = b[k]
      BY <1>6, <3>1
    <3>3. QED
      BY <1>7, <3>1, <3>2
  <2>4. QED
    BY <1>7, <2>1, <2>2, <2>3
<1>9. ToSet(s) \subseteq ToSet(u) \cup {s[i]} /\ ToSet(u) \subseteq ToSet(s)
  <2>1. ASSUME NEW k \in 1..Len(s) PROVE s[k] \in ToSet(u) \cup {s[i]}
    <3>1. k = i \/ k \in 1..(i - 1) \/ k \in (i + 1)..Len(s)
      BY <1>2
    <3>2. QED
      BY <1>3, <1>4, <1>8, <3>1
  <2>2. 1..(i - 1) \subseteq 1..Len(s) /\ (i + 1)..Len(s) \subseteq 1..Len(s)
    BY <1>2
  <2>3. QED
    BY <1>2, <1>3, <1>4, <1>8, <2>1, <2>2
<1>10. RemoveAt(s, i) = u /\ Len(u) = Len(s) - 1
  <2>1. RemoveAt(s, i) = u
    BY <1>1, <1>5 DEF RemoveAt
  <2>2. Len(u) = Len(s) - 1
    BY <1>2, <1>3, <1>4, <1>6
  <2>3. QED
    BY <2>1, <2>2
<1>11. QED
  BY <1>6, <1>9, <1>10

LEMMA ElementsOfTail ==
    ASSUME NEW S, NEW s \in Seq(S), s # <<>>
    PROVE  /\ Head(s) \in S /\ Tail(s) \in Seq(S) /\ Len(s) >= 1 /\ Len(s) \in Nat
           /\ ToSet(s) = {Head(s)} \cup ToSet(Tail(s))
           /\ Len(s) > 1 => Tail(s) # <<>>
           /\ Len(s) = 1 => ToSet(s) = {Head(s)}
<1>1. /\ Head(s) \in S /\ Tail(s) \in Seq(S) /\ Len(Tail(s)) = Len(s) - 1
      /\ Len(s) \in Nat \ {0} /\ ToSet(s) = {s[i] : i \in 1..Len(s)} /\ Head(s) = s[1]
  BY HeadTailProperties, EmptySeq, ElementsOf
<1>2. Tail(s) = SubSeq(s, 2, Len(s))
  BY TailIsSubSeq
<1>3. ToSet(Tail(s)) = {s[i] : i \in 2..Len(s)}
  <2>1. 2 \in Int /\ Len(s) \in Int /\ 1 <= 2 /\ Len(s) <= Len(s)
    BY <1>1
  <2>2. ToSet(SubSeq(s, 2, Len(s))) = {s[i] : i \in 2..Len(s)}
    BY <2>1, ElementsOfCut
  <2>3. QED
    BY <1>2, <2>2
<1>4. 1..Len(s) = {1} \cup 2..Len(s)
  BY <1>1
<1>5. ToSet(s) = {Head(s)} \cup ToSet(Tail(s))
  BY <1>1, <1>3, <1>4
<1>6. ASSUME Len(s) = 1 PROVE ToSet(s) = {Head(s)}
  <2>1. 2..Len(s) = {}
    BY <1>6
  <2>2. QED
    BY <1>3, <1>5, <2>1
<1>7. Len(s) > 1 => Tail(s) # <<>>
  <2>1. \A n \in Nat : n - 1 = 0 => ~(n > 1)
    OBVIOUS
  <2>2. Len(<<>>) = 0
    BY EmptySeq
  <2>3. Tail(s) = <<>> => Len(s) - 1 = 0
    BY <1>1, <2>2, Zenon
  <2>4. Len(s) \in Nat
    BY <1>1
  <2>5. QED
    BY <2>1, <2>3, <2>4, Zenon
<1>8. QED
  BY <1>1, <1>5, <1>6, <1>7
-----------------------------------------------------------------------------
Bucket == {s \in Seq(ScenarioIds) : Len(s) <= MAX_SCENARIOS}

Migration ==
    [tool : Tools \cup {NoTool}, got : [Tools -> Seq(ScenarioIds)], todo : SUBSET Tools,
     left : Seq(ScenarioIds), allOk : BOOLEAN, imported : SUBSET Tools]

\* What a migration has read is in the account or still to be sent, as far as its
\* saves went through; and nothing but that, and what was saved into a held bucket
\* since, is in the buckets it may remove.
MigrationOK(m) ==
    /\ m.left # <<>>
    /\ \A t \in m.todo \cup m.imported \cup {m.tool} : m.got[t] # <<>>
    /\ m.allOk => ToSet(m.got[m.tool]) \subseteq account \cup ToSet(m.left)
    /\ \A t \in m.imported : ToSet(m.got[t]) \subseteq account
    /\ \A t \in Tools : m.got[t] # <<>> => ToSet(storage[t]) \subseteq ToSet(m.got[t]) \cup raced

ScenarioTypes ==
    /\ storage \in [Tools -> Bucket]
    /\ tab \in [Tabs -> Migration]
    /\ saves \in 0..MaxSaves
    /\ account \cup dropped \cup raced \subseteq ScenarioIds

ScenarioInv ==
    /\ ScenarioTypes
    /\ \A w \in Migrating : MigrationOK(tab[w])
    /\ NothingLost

LEMMA ScenarioStarts == ScenarioInit => ScenarioInv
<1> SUFFICES ASSUME ScenarioInit PROVE ScenarioInv
  OBVIOUS
<1>1. <<>> \in Seq(ScenarioIds) /\ <<>> \in Bucket
  BY EmptySeq, ScenariosAssumption DEF Bucket
<1>2. ScenarioTypes
  BY <1>1, ScenariosAssumption DEF ScenarioInit, ScenarioTypes, Migration, Away
<1>3. Migrating = {}
  BY DEF ScenarioInit, Migrating, Away
<1>4. NothingLost
  BY DEF ScenarioInit, NothingLost
<1>5. QED
  BY <1>2, <1>3, <1>4 DEF ScenarioInv

\* The account and the races only grow, a bucket loses, or gains a race.
LEMMA MigrationGoesOn ==
    ASSUME NEW m, MigrationOK(m), account \subseteq account', raced \subseteq raced',
           \A t \in Tools : m.got[t] # <<>> => ToSet(storage[t])' \subseteq ToSet(storage[t]) \cup raced'
    PROVE  MigrationOK(m)'
BY DEF MigrationOK

\* Steps in which no migration goes on.
LEMMA PageStep ==
    ASSUME ScenarioInv, tab' = tab, account' = account, raced \subseteq raced',
           \A t \in Held : ToSet(storage[t])' \subseteq ToSet(storage[t]) \cup raced'
    PROVE  \A w \in Migrating' : MigrationOK(tab[w])'
<1>1. ASSUME NEW w \in Migrating PROVE MigrationOK(tab[w])'
  <2>1. PICK m : m = tab[w]
    OBVIOUS
  <2>2. \A t \in Tools : m.got[t] # <<>> => t \in Held
    BY <2>1 DEF Held
  <2>3. MigrationOK(m)
    BY <2>1 DEF ScenarioInv
  <2>4. MigrationOK(m)'
    BY <2>2, <2>3, MigrationGoesOn
  <2>5. m = tab'[w]
    BY <2>1
  <2>6. QED
    BY <2>4, <2>5
<1>2. Migrating' = Migrating
  BY DEF Migrating
<1>3. QED
  BY <1>1, <1>2

LEMMA SaveStep ==
    ASSUME ScenarioInv, NEW t \in Tools, SaveScenario(t)
    PROVE  ScenarioInv'
<1> DEFINE new     == saves + 1
           updated == <<new>> \o storage[t]
           kept    == SubSeq(updated, 1, Min({Len(updated), MAX_SCENARIOS}))
<1>1. /\ saves' = new /\ new \in ScenarioIds /\ new \in 0..MaxSaves
      /\ storage' = [storage EXCEPT ![t] = kept]
      /\ dropped' = dropped \cup (ToSet(updated) \ ToSet(kept))
      /\ raced' = IF t \in Held THEN raced \cup {new} ELSE raced
      /\ account' = account /\ tab' = tab
  BY ScenariosAssumption DEF SaveScenario, ScenarioInv, ScenarioTypes, ScenarioIds
<1>2. storage \in [Tools -> Bucket] /\ storage[t] \in Seq(ScenarioIds)
  BY DEF ScenarioInv, ScenarioTypes, Bucket
<1>3. /\ updated \in Seq(ScenarioIds) /\ ToSet(updated) = {new} \cup ToSet(storage[t])
      /\ Len(updated) \in Nat
  BY <1>1, <1>2, ElementsOfPushed, ElementsOf
<1>4. PICK n \in Nat : n = Min({Len(updated), MAX_SCENARIOS}) /\ n <= Len(updated) /\ n <= MAX_SCENARIOS
  <2> HIDE DEF updated
  <2>1. CASE Len(updated) <= MAX_SCENARIOS
    <3>1. Min({Len(updated), MAX_SCENARIOS}) = Len(updated)
      BY <1>3, <2>1, ScenariosAssumption DEF Min
    <3>2. QED
      BY <1>3, <2>1, <3>1
  <2>2. CASE ~(Len(updated) <= MAX_SCENARIOS)
    <3>1. Min({Len(updated), MAX_SCENARIOS}) = MAX_SCENARIOS
      BY <1>3, <2>2, ScenariosAssumption DEF Min
    <3>2. QED
      BY <1>3, <2>2, <3>1, ScenariosAssumption
  <2>3. QED
    BY <2>1, <2>2
<1>5. /\ kept \in Seq(ScenarioIds) /\ Len(kept) <= MAX_SCENARIOS
      /\ ToSet(kept) \subseteq ToSet(updated)
  <2> HIDE DEF updated
  <2>1. kept = SubSeq(updated, 1, n)
    BY <1>4
  <2> HIDE DEF kept
  <2>2. 1 \in Int /\ n \in Int /\ 1 <= 1 /\ n <= Len(updated)
    BY <1>4
  <2>a. /\ SubSeq(updated, 1, n) \in Seq(ScenarioIds)
        /\ Len(SubSeq(updated, 1, n)) = IF 1 <= n THEN n - 1 + 1 ELSE 0
        /\ ToSet(SubSeq(updated, 1, n)) = {updated[i] : i \in 1..n}
    BY <1>3, <2>2, ElementsOfCut
  <2>3. /\ kept \in Seq(ScenarioIds) /\ Len(kept) = IF 1 <= n THEN n - 1 + 1 ELSE 0
        /\ ToSet(kept) = {updated[i] : i \in 1..n}
    BY <2>1, <2>a, Zenon
  <2>4. 1..n \subseteq 1..Len(updated)
    BY <1>3, <1>4
  <2>5. ToSet(updated) = {updated[i] : i \in 1..Len(updated)}
    BY <1>3, ElementsOf
  <2>6. (IF 1 <= n THEN n - 1 + 1 ELSE 0) <= MAX_SCENARIOS
    BY <1>4, ScenariosAssumption
  <2>7. ToSet(kept) \subseteq ToSet(updated)
    BY <2>3, <2>4, <2>5
  <2>8. QED
    BY <2>3, <2>6, <2>7
<1>6. ToSet(updated) \subseteq ScenarioIds
  <2> HIDE DEF updated
  <2>1. QED
    BY <1>3, ElementsOf
<1> HIDE DEF kept, updated
<1>7. kept \in Bucket
  BY <1>5 DEF Bucket
<1>8. ScenarioTypes'
  BY <1>1, <1>2, <1>6, <1>7 DEF ScenarioInv, ScenarioTypes
<1>9. /\ storage'[t] = kept /\ \A u \in Tools \ {t} : storage'[u] = storage[u]
  BY <1>1, <1>2
<1>10. \A w \in Migrating' : MigrationOK(tab[w])'
  <2>1. ASSUME NEW u \in Held PROVE ToSet(storage[u])' \subseteq ToSet(storage[u]) \cup raced'
    <3>1. CASE u = t
      <4>1. ToSet(storage[u])' = ToSet(kept) /\ new \in raced'
        BY <1>1, <1>9, <2>1, <3>1
      <4>2. QED
        BY <1>3, <1>5, <3>1, <4>1
    <3>2. CASE u # t
      <4>1. storage'[u] = storage[u]
        BY <1>9, <3>2 DEF Held
      <4>2. QED
        BY <4>1
    <3>3. QED
      BY <3>1, <3>2
  <2>2. raced \subseteq raced'
    BY <1>1
  <2>3. QED
    BY <1>1, <2>1, <2>2, PageStep
<1>11. NothingLost'
  <2>1. ASSUME NEW s \in (1..saves)' \ (dropped \cup raced)'
        PROVE  s \in account' \/ \E u \in Tools : s \in ToSet(storage[u])'
    <3>1. saves \in Nat /\ (s = new \/ s \in 1..saves) /\ s \notin dropped \cup raced
      BY <1>1, <2>1 DEF ScenarioInv, ScenarioTypes
    <3>2. s \in ToSet(updated) => s \in ToSet(storage[t])'
      BY <1>1, <1>9, <2>1
    <3>3. CASE s = new
      BY <1>3, <3>2, <3>3
    <3>4. CASE s \in 1..saves
      <4>1. s \in account \/ \E u \in Tools : s \in ToSet(storage[u])
        BY <3>1, <3>4 DEF ScenarioInv, NothingLost
      <4>2. ASSUME NEW u \in Tools, s \in ToSet(storage[u])
            PROVE  \E v \in Tools : s \in ToSet(storage[v])'
        <5>1. CASE u = t
          BY <1>3, <3>2, <4>2, <5>1
        <5>2. CASE u # t
          <6>1. ToSet(storage[u])' = ToSet(storage[u])
            BY <1>9, <5>2
          <6>2. QED
            BY <4>2, <6>1
        <5>3. QED
          BY <5>1, <5>2
      <4>3. QED
        BY <1>1, <4>1, <4>2
    <3>5. QED
      BY <3>1, <3>3, <3>4
  <2>2. QED
    BY <2>1 DEF NothingLost
<1>12. QED
  BY <1>8, <1>10, <1>11 DEF ScenarioInv

LEMMA DeleteStep ==
    ASSUME ScenarioInv, NEW t \in Tools, NEW i, DeleteScenario(t, i)
    PROVE  ScenarioInv'
<1>1. /\ storage \in [Tools -> Bucket] /\ storage[t] \in Seq(ScenarioIds)
      /\ Len(storage[t]) <= MAX_SCENARIOS
  BY DEF ScenarioInv, ScenarioTypes, Bucket
<1>2. PICK s : s = storage[t]
  OBVIOUS
<1>3. i \in 1..Len(s) /\ s[i] \in ScenarioIds /\ Len(s) \in Nat
  BY <1>1, <1>2, ElementsOf DEF DeleteScenario
<1>4. /\ storage' = [storage EXCEPT ![t] = RemoveAt(s, i)]
      /\ dropped' = dropped \cup {s[i]}
      /\ UNCHANGED <<account, tab, saves, raced>>
  BY <1>2 DEF DeleteScenario
<1>5. /\ RemoveAt(s, i) \in Seq(ScenarioIds) /\ Len(RemoveAt(s, i)) = Len(s) - 1
      /\ ToSet(RemoveAt(s, i)) \subseteq ToSet(s)
      /\ ToSet(s) \subseteq ToSet(RemoveAt(s, i)) \cup {s[i]}
  BY <1>1, <1>2, <1>3, ElementsOfRemoved
<1>6. RemoveAt(s, i) \in Bucket
  BY <1>1, <1>2, <1>3, <1>5, ScenariosAssumption DEF Bucket
<1>7. ScenarioTypes'
  BY <1>1, <1>3, <1>4, <1>6 DEF ScenarioInv, ScenarioTypes
<1>8. /\ storage'[t] = RemoveAt(s, i) /\ \A u \in Tools \ {t} : storage'[u] = storage[u]
  BY <1>1, <1>4
<1>9. ASSUME NEW u \in Tools
      PROVE  /\ ToSet(storage[u])' \subseteq ToSet(storage[u])
             /\ ToSet(storage[u]) \subseteq ToSet(storage[u])' \cup {s[i]}
  <2>1. CASE u = t
    BY <1>2, <1>5, <1>8, <2>1
  <2>2. CASE u # t
    <3>1. storage'[u] = storage[u]
      BY <1>8, <2>2
    <3>2. QED
      BY <3>1
  <2>3. QED
    BY <2>1, <2>2
<1>10. \A w \in Migrating' : MigrationOK(tab[w])'
  <2>1. \A u \in Held : ToSet(storage[u])' \subseteq ToSet(storage[u]) \cup raced'
    BY <1>9 DEF Held
  <2>2. QED
    BY <1>4, <2>1, PageStep
<1>11. NothingLost'
  <2>1. ASSUME NEW x \in (1..saves) \ (dropped \cup raced), x # s[i]
        PROVE  x \in account \/ \E u \in Tools : x \in ToSet(storage[u])'
    <3>1. x \in account \/ \E u \in Tools : x \in ToSet(storage[u])
      BY DEF ScenarioInv, NothingLost
    <3>2. QED
      BY <1>9, <2>1, <3>1
  <2>2. QED
    BY <1>4, <2>1 DEF NothingLost
<1>12. QED
  BY <1>7, <1>10, <1>11 DEF ScenarioInv

\* A step of one tab: its migration is over or in order, the others see more in the
\* account and less in the buckets.
LEMMA TabStep ==
    ASSUME ScenarioInv, NEW w \in Tabs, NEW m \in Migration, tab' = [tab EXCEPT ![w] = m],
           m.tool # NoTool => MigrationOK(m)', account \subseteq account', raced' = raced,
           \A t \in Tools : ToSet(storage[t])' \subseteq ToSet(storage[t])
    PROVE  tab' \in [Tabs -> Migration] /\ \A v \in Migrating' : MigrationOK(tab[v])'
<1>1. tab \in [Tabs -> Migration]
  BY DEF ScenarioInv, ScenarioTypes
<1>2. ASSUME NEW v \in Tabs, tab'[v].tool # NoTool PROVE MigrationOK(tab[v])'
  <2>1. CASE v = w
    <3>1. tab'[v] = m
      BY <1>1, <2>1
    <3>2. QED
      BY <1>2, <3>1
  <2>2. CASE v # w
    <3>1. PICK o : o = tab[v]
      OBVIOUS
    <3>2. o = tab'[v]
      BY <1>1, <2>2, <3>1
    <3>3. v \in Migrating
      BY <1>2, <3>1, <3>2 DEF Migrating
    <3>4. MigrationOK(o)
      BY <3>1, <3>3 DEF ScenarioInv
    <3>5. MigrationOK(o)'
      BY <3>4, MigrationGoesOn
    <3>6. QED
      BY <3>2, <3>5
  <2>3. QED
    BY <2>1, <2>2
<1>3. QED
  BY <1>1, <1>2 DEF Migrating

\* The buckets stay and the account does not shrink: nothing can be lost.
LEMMA NothingLostInAccount ==
    ASSUME NothingLost, storage' = storage, account \subseteq account',
           UNCHANGED <<saves, dropped, raced>>
    PROVE  NothingLost'
BY DEF NothingLost

LEMMA CollectStep ==
    ASSUME ScenarioInv, NEW w \in Tabs, Collect(w)
    PROVE  ScenarioInv'
<1> DEFINE filled == {t \in Tools : storage[t] # <<>>}
<1>1. PICK t \in filled : tab' = [tab EXCEPT ![w] = Group([Away EXCEPT !.got = storage, !.todo = filled], t)]
  BY DEF Collect
<1>2. /\ UNCHANGED <<storage, account, saves, dropped, raced>>
      /\ storage \in [Tools -> Seq(ScenarioIds)] /\ <<>> \in Seq(ScenarioIds)
  BY EmptySeq DEF Collect, ScenarioInv, ScenarioTypes, Bucket
<1>3. PICK st, f : st = storage /\ f = filled
  OBVIOUS
<1>4. PICK a, m : a = [Away EXCEPT !.got = st, !.todo = f] /\ m = Group(a, t)
  OBVIOUS
<1>5. Group([Away EXCEPT !.got = storage, !.todo = filled], t) = m
  BY <1>3, <1>4
<1>6. m \in Migration /\ m.tool = t /\ m.got = st /\ m.todo = f \ {t} /\ m.left = st[t]
      /\ m.allOk = TRUE /\ m.imported = {}
  <2>1. a \in Migration /\ a.got = st /\ a.todo = f /\ a.imported = {}
    BY <1>2, <1>3, <1>4 DEF Migration, Away
  <2>2. st[t] \in Seq(ScenarioIds) /\ t \in Tools
    BY <1>2, <1>3
  <2>3. QED
    BY <1>4, <2>1, <2>2 DEF Migration, Group
<1>7. MigrationOK(m)'
  BY <1>2, <1>3, <1>6 DEF MigrationOK
<1>8. \A u \in Tools : ToSet(storage[u])' \subseteq ToSet(storage[u])
  BY <1>2
<1>9. tab' \in [Tabs -> Migration] /\ \A v \in Migrating' : MigrationOK(tab[v])'
  BY <1>1, <1>2, <1>5, <1>6, <1>7, <1>8, TabStep
<1>10. NothingLost'
  BY <1>2, NothingLostInAccount DEF ScenarioInv
<1>11. QED
  BY <1>2, <1>9, <1>10 DEF ScenarioInv, ScenarioTypes

LEMMA AwayIsMigration == Away \in Migration /\ Away.tool = NoTool
BY EmptySeq DEF Away, Migration

LEMMA LeaveStep ==
    ASSUME ScenarioInv, NEW w \in Tabs, Leave(w)
    PROVE  ScenarioInv'
<1>1. /\ tab' = [tab EXCEPT ![w] = Away] /\ UNCHANGED <<storage, saves, dropped, raced>>
      /\ account' \in {account, account \cup {Head(tab[w].left)}} /\ w \in Migrating
  BY DEF Leave
<1>2. tab[w] \in Migration /\ tab[w].left # <<>>
  BY <1>1 DEF ScenarioInv, ScenarioTypes, MigrationOK
<1>3. Head(tab[w].left) \in ScenarioIds
  BY <1>2, ElementsOfTail DEF Migration
<1>4. account \subseteq account' /\ account' \subseteq account \cup ScenarioIds
  BY <1>1, <1>3
<1>5. \A u \in Tools : ToSet(storage[u])' \subseteq ToSet(storage[u])
  BY <1>1
<1>6. PICK m \in Migration : m = Away /\ m.tool = NoTool
  BY AwayIsMigration
<1>7. tab' \in [Tabs -> Migration] /\ \A v \in Migrating' : MigrationOK(tab[v])'
  BY <1>1, <1>4, <1>5, <1>6, TabStep
<1>8. NothingLost'
  BY <1>1, <1>4, NothingLostInAccount DEF ScenarioInv
<1>9. QED
  BY <1>1, <1>4, <1>7, <1>8 DEF ScenarioInv, ScenarioTypes

LEMMA AnswerStep ==
    ASSUME ScenarioInv, NEW w \in Tabs, Answer(w)
    PROVE  ScenarioInv'
<1>1. PICK m : m = tab[w]
  OBVIOUS
<1>2. m \in Migration /\ MigrationOK(m) /\ m.tool \in Tools
  <2>1. w \in Migrating /\ m \in Migration
    BY <1>1 DEF Answer, ScenarioInv, ScenarioTypes
  <2>2. QED
    BY <1>1, <2>1 DEF ScenarioInv, Migrating, Migration
<1> DEFINE Ends(done) ==
                \/ /\ Len(m.left) = 1 /\ m.todo # {}
                   /\ \E t \in m.todo :
                         tab' = [tab EXCEPT ![w] = Group([m EXCEPT !.imported = done], t)]
                   /\ UNCHANGED storage
                \/ /\ Len(m.left) = 1 /\ m.todo = {}
                   /\ storage' = [t \in Tools |-> IF t \in done THEN <<>> ELSE storage[t]]
                   /\ tab' = [tab EXCEPT ![w] = Away]
           Sent(ok) ==
                /\ Len(m.left) > 1
                /\ tab' = [tab EXCEPT ![w] = [m EXCEPT !.left = Tail(m.left), !.allOk = ok]]
                /\ UNCHANGED storage
           Through(ok) == IF ok THEN m.imported \cup {m.tool} ELSE m.imported
<1>a. PICK arrived \in BOOLEAN, answered \in BOOLEAN :
          /\ answered => arrived
          /\ account' = IF arrived THEN account \cup {Head(m.left)} ELSE account
          /\ Sent(m.allOk /\ answered) \/ Ends(Through(m.allOk /\ answered))
  BY <1>1 DEF Answer, Outcome
<1>b. PICK ok \in BOOLEAN : ok = (m.allOk /\ answered)
  OBVIOUS
<1>c. PICK done : done = Through(ok)
  OBVIOUS
<1>3. /\ ok = (m.allOk /\ answered)
      /\ done = IF ok THEN m.imported \cup {m.tool} ELSE m.imported
      /\ answered => arrived
      /\ account' = IF arrived THEN account \cup {Head(m.left)} ELSE account
      /\ Sent(ok) \/ Ends(done)
  BY <1>a, <1>b, <1>c
<1>4. UNCHANGED <<saves, dropped, raced>>
  BY DEF Answer
<1>5. /\ Head(m.left) \in ScenarioIds /\ Tail(m.left) \in Seq(ScenarioIds)
      /\ ToSet(m.left) = {Head(m.left)} \cup ToSet(Tail(m.left))
      /\ Len(m.left) > 1 => Tail(m.left) # <<>>
      /\ Len(m.left) = 1 => ToSet(m.left) = {Head(m.left)}
  BY <1>2, ElementsOfTail DEF Migration, MigrationOK
<1>6. account \subseteq account' /\ account' \subseteq account \cup ScenarioIds
  BY <1>3, <1>5
<1>7. \A t \in m.imported : ToSet(m.got[t]) \subseteq account'
  BY <1>2, <1>6 DEF MigrationOK
<1>8. ok => ToSet(m.got[m.tool]) \subseteq account' \cup ToSet(Tail(m.left))
  BY <1>2, <1>3, <1>5 DEF MigrationOK
<1>9. Len(m.left) = 1 => \A t \in done : ToSet(m.got[t]) \subseteq account'
  BY <1>2, <1>3, <1>5, <1>7 DEF MigrationOK
<1>10. done \subseteq Tools /\ \A t \in m.todo \cup done : m.got[t] # <<>>
  BY <1>2, <1>3 DEF Migration, MigrationOK
<1>11. ASSUME NEW t \in Tools PROVE m.got[t] # <<>> => ToSet(storage[t]) \subseteq ToSet(m.got[t]) \cup raced
  BY <1>2 DEF MigrationOK
<1>12. CASE Sent(ok)
  <2>1. PICK n : n = [m EXCEPT !.left = Tail(m.left), !.allOk = ok]
    OBVIOUS
  <2>2. n \in Migration /\ n.left = Tail(m.left) /\ n.allOk = ok /\ n.tool = m.tool /\ n.got = m.got
        /\ n.todo = m.todo /\ n.imported = m.imported
    BY <1>2, <1>5, <2>1 DEF Migration
  <2>3. tab' = [tab EXCEPT ![w] = n]
    BY <1>12, <2>1
  <2>4. MigrationOK(n)'
    BY <1>2, <1>4, <1>5, <1>7, <1>8, <1>11, <1>12, <2>2 DEF MigrationOK
  <2>5. \A u \in Tools : ToSet(storage[u])' \subseteq ToSet(storage[u])
    BY <1>12
  <2>6. tab' \in [Tabs -> Migration] /\ \A v \in Migrating' : MigrationOK(tab[v])'
    BY <1>4, <1>6, <2>2, <2>3, <2>4, <2>5, TabStep
  <2>7. NothingLost'
    BY <1>4, <1>6, <1>12, NothingLostInAccount DEF ScenarioInv
  <2>8. QED
    BY <1>4, <1>6, <1>12, <2>6, <2>7 DEF ScenarioInv, ScenarioTypes
<1>13. ASSUME Len(m.left) = 1, NEW t \in m.todo,
              tab' = [tab EXCEPT ![w] = Group([m EXCEPT !.imported = done], t)], UNCHANGED storage
       PROVE  ScenarioInv'
  <2>1. PICK n : n = Group([m EXCEPT !.imported = done], t)
    OBVIOUS
  <2>2. n \in Migration /\ n.left = m.got[t] /\ n.allOk = TRUE /\ n.tool = t /\ n.got = m.got
        /\ n.todo = m.todo \ {t} /\ n.imported = done
    BY <1>2, <1>10, <1>13, <2>1 DEF Migration, Group
  <2>3. MigrationOK(n)'
    BY <1>4, <1>9, <1>10, <1>11, <1>13, <2>2 DEF MigrationOK
  <2>4. \A u \in Tools : ToSet(storage[u])' \subseteq ToSet(storage[u])
    BY <1>13
  <2>5. tab' \in [Tabs -> Migration] /\ \A v \in Migrating' : MigrationOK(tab[v])'
    BY <1>4, <1>6, <1>13, <2>1, <2>2, <2>3, <2>4, TabStep
  <2>6. NothingLost'
    BY <1>4, <1>6, <1>13, NothingLostInAccount DEF ScenarioInv
  <2>7. QED
    BY <1>4, <1>6, <1>13, <2>5, <2>6 DEF ScenarioInv, ScenarioTypes
<1>14. CASE /\ Len(m.left) = 1
            /\ storage' = [t \in Tools |-> IF t \in done THEN <<>> ELSE storage[t]]
            /\ tab' = [tab EXCEPT ![w] = Away]
  <2>1. storage \in [Tools -> Bucket] /\ <<>> \in Bucket
    BY EmptySeq, ScenariosAssumption DEF ScenarioInv, ScenarioTypes, Bucket
  <2>2. storage' \in [Tools -> Bucket]
    BY <1>14, <2>1
  <2>3. ASSUME NEW u \in Tools PROVE ToSet(storage[u])' \subseteq ToSet(storage[u])
    <3>1. storage'[u] \in {<<>>, storage[u]}
      BY <1>14
    <3>2. ToSet(<<>>) = {}
      BY DEF ToSet
    <3>3. QED
      BY <3>1, <3>2
  <2>4. PICK n \in Migration : n = Away /\ n.tool = NoTool
    BY AwayIsMigration
  <2>5. tab' \in [Tabs -> Migration] /\ \A v \in Migrating' : MigrationOK(tab[v])'
    BY <1>4, <1>6, <1>14, <2>3, <2>4, TabStep
  <2>6. NothingLost'
    <3>1. ASSUME NEW s \in (1..saves) \ (dropped \cup raced)
          PROVE  s \in account' \/ \E t \in Tools : s \in ToSet(storage[t])'
      <4>1. s \in account \/ \E t \in Tools : s \in ToSet(storage[t])
        BY DEF ScenarioInv, NothingLost
      <4>2. ASSUME NEW t \in Tools, s \in ToSet(storage[t])
            PROVE  s \in account' \/ s \in ToSet(storage[t])'
        <5>1. CASE t \in done
          BY <1>9, <1>10, <1>11, <1>14, <3>1, <4>2, <5>1
        <5>2. CASE t \notin done
          <6>1. storage'[t] = storage[t]
            BY <1>14, <5>2
          <6>2. QED
            BY <4>2, <6>1
        <5>3. QED
          BY <5>1, <5>2
      <4>3. QED
        BY <1>6, <4>1, <4>2
    <3>2. QED
      BY <1>4, <3>1 DEF NothingLost
  <2>7. QED
    BY <1>4, <1>6, <2>2, <2>5, <2>6 DEF ScenarioInv, ScenarioTypes
<1>15. QED
  BY <1>3, <1>12, <1>13, <1>14

LEMMA ScenarioStep == ScenarioInv /\ [ScenarioNext]_scenarioVars => ScenarioInv'
<1> SUFFICES ASSUME ScenarioInv, [ScenarioNext]_scenarioVars PROVE ScenarioInv'
  OBVIOUS
<1>1. CASE UNCHANGED scenarioVars
  BY <1>1 DEF scenarioVars, ScenarioInv, ScenarioTypes, Migrating, MigrationOK, NothingLost
<1>2. QED
  BY <1>1, SaveStep, DeleteStep, CollectStep, AnswerStep, LeaveStep DEF ScenarioNext

LEMMA ScenariosHold == ScenarioSpec => []ScenarioInv
BY ScenarioStarts, ScenarioStep, PTL DEF ScenarioSpec

\* use-migrate-scenarios.ts: for any tools, tabs and numbers of saves, a scenario that
\* was neither deleted nor pushed out is in its bucket or in the account, but for one
\* saved while a migration holds its bucket.
THEOREM NoScenarioLost == ScenarioSpec => []NothingLost
<1>1. ScenarioInv => NothingLost
  BY DEF ScenarioInv
<1>2. QED
  BY <1>1, ScenariosHold, PTL

LEMMA ScenarioTypeCorrect == ScenarioSpec => []ScenarioTypeOK
<1>1. ScenarioInv => ScenarioTypeOK
  BY DEF ScenarioInv, ScenarioTypes, ScenarioTypeOK, Migrating, MigrationOK, Migration, Bucket
<1>2. QED
  BY <1>1, ScenariosHold, PTL

----------------------------------------------------------------------------
(* What the calculator advises is what it then shows, for every form and not*)
(* only for those at the bounds of the tables.                             *)

LEMMA ProductOrder ==
    ASSUME NEW a \in Nat, NEW b \in Nat, NEW c \in Nat, a <= b
    PROVE  a * c <= b * c /\ c * a <= c * b /\ a * c \in Nat /\ c * a \in Nat
<1>1. b - a \in Nat /\ (b - a) * c \in Nat
  OBVIOUS
<1>2. b * c = a * c + (b - a) * c
  OBVIOUS
<1>3. a * c <= b * c /\ a * c \in Nat
  BY <1>1, <1>2
<1>4. c * a = a * c /\ c * b = b * c
  OBVIOUS
<1>5. QED
  BY <1>3, <1>4

LEMMA MaxOfTwo ==
    ASSUME NEW a \in Nat, NEW b \in Nat
    PROVE  Max({a, b}) = IF a >= b THEN a ELSE b
BY DEF Max

LEMMA LeastOf ==
    ASSUME NEW S \in SUBSET Nat, S # {}
    PROVE  Min(S) \in S
<1> DEFINE R == OpToRel(<, Nat)
<1>a. \E n \in S : \A m \in S : ~(<<m, n>> \in R)
  <2>1. IsWellFoundedOn(R, Nat)
    BY NatLessThanWellFounded
  <2> HIDE DEF R
  <2>2. QED
    BY <2>1, WFMin
<1>b. \A m, n \in Nat : m < n => <<m, n>> \in R
  BY DEF OpToRel
<1>1. PICK n \in S : \A m \in S : n <= m
  <2>1. PICK n \in S : \A m \in S : ~(<<m, n>> \in R)
    BY <1>a
  <2> HIDE DEF R
  <2>2. ASSUME NEW m \in S PROVE n <= m
    <3>1. m \in Nat /\ n \in Nat /\ ~(m < n)
      BY <1>b, <2>1
    <3>2. QED
      BY <3>1
  <2>3. QED
    BY <2>2
<1>2. QED
  BY <1>1 DEF Min

\* A fee table charges one of its amounts, or what lies beyond.
LEMMA StepsOf ==
    ASSUME NEW w \in Nat, NEW bounds, NEW cents, NEW beyond,
           DOMAIN bounds \subseteq Nat
    PROVE  \/ \E k \in DOMAIN bounds : Steps(w, bounds, cents, beyond) = cents[k] * Cent
           \/ /\ Steps(w, bounds, cents, beyond) = beyond
              /\ \A k \in DOMAIN bounds : ~(w <= bounds[k] * Ounce)
<1> DEFINE taking == {k \in DOMAIN bounds : w <= bounds[k] * Ounce}
<1>1. CASE taking = {}
  BY <1>1 DEF Steps
<1>2. CASE taking # {}
  <2>1. Steps(w, bounds, cents, beyond) = cents[Min(taking)] * Cent
    BY <1>2 DEF Steps
  <2>2. taking \subseteq DOMAIN bounds /\ taking \in SUBSET Nat
    OBVIOUS
  <2>3. Min(taking) \in DOMAIN bounds
    <3> HIDE DEF taking
    <3>1. QED
      BY <1>2, <2>2, LeastOf
  <2>4. QED
    BY <2>1, <2>3
<1>3. QED
  BY <1>1, <1>2

\* The fees of three tables, as far as they have to be told apart.
LEMMA SmallFee ==
    ASSUME NEW w \in Nat
    PROVE  /\ CalcFulfillmentFee("small_standard", w) \in Nat
           /\ CalcFulfillmentFee("small_standard", w) <= 360 * Cent
<1>1. PICK bounds, cents : bounds = <<4, 8, 12>> /\ cents = <<306, 324, 342>>
  OBVIOUS
<1>2. DOMAIN bounds = 1..3 /\ \A k \in 1..3 : cents[k] \in 306..342
  BY <1>1
<1>3. PICK fee, beyond : beyond = 360 * Cent /\ fee = Steps(w, bounds, cents, beyond)
  OBVIOUS
<1>4. fee = beyond \/ \E k \in 1..3 : fee = cents[k] * Cent
  <2>1. DOMAIN bounds \subseteq Nat
    BY <1>2
  <2>2. \/ \E k \in DOMAIN bounds : Steps(w, bounds, cents, beyond) = cents[k] * Cent
        \/ /\ Steps(w, bounds, cents, beyond) = beyond
           /\ \A k \in DOMAIN bounds : ~(w <= bounds[k] * Ounce)
    BY <2>1, StepsOf
  <2>3. QED
    BY <1>2, <1>3, <2>2, Zenon
<1>5. fee \in Nat /\ fee <= 360 * Cent
  BY <1>2, <1>3, <1>4 DEF Cent
<1>6. CalcFulfillmentFee("small_standard", w) = fee
  BY <1>1, <1>3 DEF CalcFulfillmentFee
<1>7. QED
  BY <1>5, <1>6

LEMMA LargeFee ==
    ASSUME NEW w \in Nat
    PROVE  LET fee == CalcFulfillmentFee("large_standard", w)
           IN  /\ fee \in Nat /\ fee >= 368 * Cent
               /\ fee <= 608 * Cent \/ (w > 3 * Pound /\ fee <= 624 * Cent + 32 * (w - 3 * Pound))
<1>1. PICK bounds : bounds = <<4, 8, 12, 16, 24, 32, 40, 48>>
  OBVIOUS
<1>2. PICK cents : cents = <<368, 390, 406, 456, 519, 546, 583, 608>>
  OBVIOUS
<1>3. PICK beyond : beyond = (608 + 16 * (-((3 * Pound - w) \div (Pound \div 2)))) * Cent
  OBVIOUS
<1>4. PICK fee : fee = Steps(w, bounds, cents, beyond)
  OBVIOUS
<1>5. DOMAIN bounds = 1..8 /\ bounds[8] * Ounce = 3 * Pound /\ \A k \in 1..8 : cents[k] \in 368..608
  BY <1>1, <1>2 DEF Ounce, Pound
<1>6. ASSUME w > 3 * Pound
      PROVE  beyond \in Nat /\ beyond >= 368 * Cent /\ beyond <= 624 * Cent + 32 * (w - 3 * Pound)
  <2>1. PICK d \in Int : d = (3 * Pound - w) \div (Pound \div 2)
    BY DEF Pound
  <2>2. 4448 * d <= 26688 - w /\ 26688 - w < 4448 * d + 4448
    BY <2>1 DEF Pound
  <2>3. beyond = (608 + 16 * (-d)) * Cent
    BY <1>3, <2>1
  <2>4. QED
    BY <1>6, <2>2, <2>3 DEF Pound, Cent
<1>7. \/ fee = beyond /\ ~(w <= 3 * Pound)
      \/ \E k \in 1..8 : fee = cents[k] * Cent
  <2>1. DOMAIN bounds \subseteq Nat /\ 8 \in 1..8
    BY <1>5
  <2>2. \/ \E k \in DOMAIN bounds : Steps(w, bounds, cents, beyond) = cents[k] * Cent
        \/ /\ Steps(w, bounds, cents, beyond) = beyond
           /\ \A k \in DOMAIN bounds : ~(w <= bounds[k] * Ounce)
    BY <2>1, StepsOf
  <2>3. QED
    BY <1>4, <1>5, <2>1, <2>2, Zenon
<1>8. CalcFulfillmentFee("large_standard", w) = fee
  BY <1>1, <1>2, <1>3, <1>4 DEF CalcFulfillmentFee
<1>9. /\ fee \in Nat /\ fee >= 368 * Cent
      /\ fee <= 608 * Cent \/ (w > 3 * Pound /\ fee <= 624 * Cent + 32 * (w - 3 * Pound))
  <2>1. CASE \E k \in 1..8 : fee = cents[k] * Cent
    <3>1. PICK c \in 368..608 : fee = c * Cent
      BY <1>5, <2>1
    <3>2. fee \in Nat /\ fee >= 368 * Cent /\ fee <= 608 * Cent
      BY <3>1 DEF Cent
    <3>3. QED
      BY <3>2
  <2>2. CASE fee = beyond /\ ~(w <= 3 * Pound)
    BY <1>6, <2>2 DEF Pound
  <2>3. QED
    BY <1>7, <2>1, <2>2
<1>10. QED
  BY <1>8, <1>9

LEMMA PoundFee ==
    ASSUME NEW w \in Nat, NEW cents \in Nat, NEW rate \in Nat
    PROVE  PerPound(w, cents, 1, rate) = cents * Cent + (IF w >= Pound THEN w - Pound ELSE 0) * rate
<1>1. CASE w >= Pound
  <2>1. Max({0, w - 1 * Pound}) = w - Pound
    BY <1>1, MaxOfTwo DEF Pound
  <2>2. QED
    BY <1>1, <2>1 DEF PerPound
<1>2. CASE ~(w >= Pound)
  <2>1. Max({0, w - 1 * Pound}) = 0
    BY <1>2 DEF Pound, Max
  <2>2. QED
    BY <1>2, <2>1 DEF PerPound
<1>3. QED
  BY <1>1, <1>2

\* A cheaper tier costs at least a cent less for a unit that is no heavier.
LEMMA CheaperTier ==
    ASSUME NEW v \in Nat, NEW w \in Nat, v <= w,
           NEW tier \in {"large_standard", "large_bulky", "extra_large_0_50"}
    PROVE  /\ CalcFulfillmentFee(tier, w) \in Nat
           /\ CalcFulfillmentFee(NextCheaper(tier).tier, v) \in Nat
           /\ CalcFulfillmentFee(NextCheaper(tier).tier, v) + Cent <= CalcFulfillmentFee(tier, w)
<1>1. CASE tier = "large_standard"
  <2>1. NextCheaper(tier).tier = "small_standard"
    BY <1>1 DEF NextCheaper
  <2>2. QED
    BY <1>1, <2>1, SmallFee, LargeFee DEF Cent
<1>2. CASE tier = "large_bulky"
  <2>1. NextCheaper(tier).tier = "large_standard"
    BY <1>2 DEF NextCheaper
  <2>2. CalcFulfillmentFee(tier, w) = 916 * Cent + (IF w >= Pound THEN w - Pound ELSE 0) * 38
    BY <1>2, PoundFee DEF CalcFulfillmentFee
  <2>3. PICK a, b : a = CalcFulfillmentFee(tier, w) /\ b = CalcFulfillmentFee("large_standard", v)
    OBVIOUS
  <2>4. /\ b \in Nat
        /\ b <= 608 * Cent \/ (v > 3 * Pound /\ b <= 624 * Cent + 32 * (v - 3 * Pound))
    BY <2>3, LargeFee
  <2>5. a \in Nat /\ b + Cent <= a
    BY <2>2, <2>3, <2>4 DEF Cent, Pound
  <2>6. QED
    BY <2>1, <2>3, <2>4, <2>5
<1>3. CASE tier = "extra_large_0_50"
  <2>1. NextCheaper(tier).tier = "large_bulky"
    BY <1>3 DEF NextCheaper
  <2>2. CalcFulfillmentFee(tier, w) = 2633 * Cent + (IF w >= Pound THEN w - Pound ELSE 0) * 38
    BY <1>3, PoundFee DEF CalcFulfillmentFee
  <2>3. CalcFulfillmentFee("large_bulky", v) = 916 * Cent + (IF v >= Pound THEN v - Pound ELSE 0) * 38
    BY PoundFee DEF CalcFulfillmentFee
  <2>4. QED
    BY <2>1, <2>2, <2>3 DEF Cent, Pound
<1>4. QED
  BY <1>1, <1>2, <1>3

Forms == [weight_oz : Nat, length_in : Nat, width_in : Nat, height_in : Nat]

\* The first dimension in order is one of the three.
LEMMA LongestOf ==
    ASSUME NEW f \in Forms
    PROVE  Sorted(f)[1] \in {f.length_in, f.width_in, f.height_in}
<1>1. PICK l \in Nat, w \in Nat, h \in Nat : l = f.length_in /\ w = f.width_in /\ h = f.height_in
  BY DEF Forms
<1>2. \E x \in {l, w, h} : \A y \in {l, w, h} : x >= y
  <2>1. CASE l >= w /\ l >= h
    BY <2>1
  <2>2. CASE w >= l /\ w >= h
    BY <2>2
  <2>3. CASE h >= l /\ h >= w
    BY <2>3
  <2>4. QED
    BY <2>1, <2>2, <2>3
<1>3. Max({l, w, h}) \in {l, w, h}
  BY <1>2 DEF Max
<1>4. Sorted(f)[1] = Max({l, w, h})
  BY <1>1 DEF Sorted
<1>5. QED
  BY <1>1, <1>3, <1>4

LEMMA BillableIsNat ==
    ASSUME NEW f \in Forms
    PROVE  Weight(f) \in Nat /\ Volume(f) \in Nat
           /\ Billable(f) = IF Weight(f) >= Volume(f) THEN Weight(f) ELSE Volume(f)
<1>1. PICK l \in Nat, w \in Nat, h \in Nat, oz \in Nat :
         l = f.length_in /\ w = f.width_in /\ h = f.height_in /\ oz = f.weight_oz
  BY DEF Forms
<1>2. l * w \in Nat /\ (l * w) * h \in Nat /\ oz * Ounce \in Nat
  BY ProductOrder DEF Ounce
<1>3. Volume(f) = (l * w) * h /\ Weight(f) = oz * Ounce
  BY <1>1 DEF Volume, Weight
<1>4. QED
  BY <1>2, <1>3, MaxOfTwo DEF Billable

\* Cutting the longest dimension leaves a form, which is no heavier to bill.
LEMMA SuggestedIsLighter ==
    ASSUME NEW f \in Forms, SizeTier(f) \in {"large_standard", "large_bulky", "extra_large_0_50"},
           Sorted(f)[1] > NextCheaper(SizeTier(f)).maxL
    PROVE  Suggested(f) \in Forms /\ Billable(Suggested(f)) <= Billable(f)
<1>1. PICK m \in Nat : m = NextCheaper(SizeTier(f)).maxL
  BY DEF NextCheaper, Inch
<1>2. PICK g : g = Suggested(f)
  OBVIOUS
<1>3. PICK l \in Nat, w \in Nat, h \in Nat :
         l = f.length_in /\ w = f.width_in /\ h = f.height_in
  BY DEF Forms
<1>4. \/ g = [f EXCEPT !.length_in = m] /\ m <= l
      \/ g = [f EXCEPT !.width_in = m] /\ m <= w
      \/ g = [f EXCEPT !.height_in = m] /\ m <= h
  <2>1. CASE f.length_in = Sorted(f)[1]
    <3>1. LongestField(f) = "length_in"
      BY <2>1 DEF LongestField
    <3>2. g = [f EXCEPT !["length_in"] = m]
      BY <1>1, <1>2, <3>1, Zenon DEF Suggested
    <3>3. g = [f EXCEPT !.length_in = m]
      BY <3>2 DEF Forms
    <3>4. m <= l
      BY <1>1, <1>3, <2>1
    <3>5. QED
      BY <3>3, <3>4
  <2>2. CASE f.length_in # Sorted(f)[1] /\ f.width_in = Sorted(f)[1]
    <3>1. LongestField(f) = "width_in"
      BY <2>2 DEF LongestField
    <3>2. g = [f EXCEPT !["width_in"] = m]
      BY <1>1, <1>2, <3>1, Zenon DEF Suggested
    <3>3. g = [f EXCEPT !.width_in = m]
      BY <3>2 DEF Forms
    <3>4. m <= w
      BY <1>1, <1>3, <2>2
    <3>5. QED
      BY <3>3, <3>4
  <2>3. CASE f.length_in # Sorted(f)[1] /\ f.width_in # Sorted(f)[1]
    <3>1. LongestField(f) = "height_in" /\ f.height_in = Sorted(f)[1]
      BY <2>3, LongestOf DEF LongestField
    <3>2. g = [f EXCEPT !["height_in"] = m]
      BY <1>1, <1>2, <3>1, Zenon DEF Suggested
    <3>3. g = [f EXCEPT !.height_in = m]
      BY <3>2 DEF Forms
    <3>4. m <= h
      BY <1>1, <1>3, <3>1
    <3>5. QED
      BY <3>3, <3>4
  <2>4. QED
    BY <2>1, <2>2, <2>3
<1>5. g \in Forms /\ g.weight_oz = f.weight_oz
  BY <1>4 DEF Forms
<1>6. \/ g.length_in = m /\ g.width_in = w /\ g.height_in = h /\ m <= l
      \/ g.length_in = l /\ g.width_in = m /\ g.height_in = h /\ m <= w
      \/ g.length_in = l /\ g.width_in = w /\ g.height_in = m /\ m <= h
  BY <1>3, <1>4 DEF Forms
<1>7. Volume(g) <= Volume(f)
  <2>1. Volume(f) = (l * w) * h /\ l * w \in Nat
    BY <1>3, ProductOrder DEF Volume
  <2>2. CASE g.length_in = m /\ g.width_in = w /\ g.height_in = h /\ m <= l
    <3>1. m * w <= l * w /\ m * w \in Nat
      BY <2>2, ProductOrder
    <3>2. (m * w) * h <= (l * w) * h
      BY <2>1, <3>1, ProductOrder
    <3>3. QED
      BY <2>1, <2>2, <3>2 DEF Volume
  <2>3. CASE g.length_in = l /\ g.width_in = m /\ g.height_in = h /\ m <= w
    <3>1. l * m <= l * w /\ l * m \in Nat
      BY <2>3, ProductOrder
    <3>2. (l * m) * h <= (l * w) * h
      BY <2>1, <3>1, ProductOrder
    <3>3. QED
      BY <2>1, <2>3, <3>2 DEF Volume
  <2>4. CASE g.length_in = l /\ g.width_in = w /\ g.height_in = m /\ m <= h
    <3>1. (l * w) * m <= (l * w) * h
      BY <2>1, <2>4, ProductOrder
    <3>2. QED
      BY <2>1, <2>4, <3>1 DEF Volume
  <2>5. QED
    BY <1>6, <2>2, <2>3, <2>4
<1>8. Weight(g) = Weight(f)
  BY <1>5 DEF Weight
<1>9. QED
  BY <1>2, <1>5, <1>7, <1>8, BillableIsNat

\* Rounding to cents.
LEMMA RoundedFees ==
    ASSUME NEW x \in Nat, NEW y \in Nat, y + Cent <= x
    PROVE  LET shown == Round2(x) - Round2(y)
           IN  shown > 0 /\ shown - Round2(Round2(x) * Cent - y) \in -1..1
<1>1. PICK a \in Int, b \in Int, c \in Int :
         a = Round2(x) /\ b = Round2(y) /\ c = Round2(a * Cent - y)
  BY DEF Round2, Cent
<1>2. 17792 * a <= 2 * x + 8896 /\ 2 * x + 8896 < 17792 * a + 17792
  BY <1>1 DEF Round2, Cent
<1>3. 17792 * b <= 2 * y + 8896 /\ 2 * y + 8896 < 17792 * b + 17792
  BY <1>1 DEF Round2, Cent
<1>4. /\ 17792 * c <= 2 * (a * 8896 - y) + 8896
      /\ 2 * (a * 8896 - y) + 8896 < 17792 * c + 17792
  BY <1>1 DEF Round2, Cent
<1>5. a - b > 0 /\ (a - b) - c \in -1..1
  BY <1>2, <1>3, <1>4 DEF Cent
<1>6. QED
  BY <1>1, <1>5

\* page.tsx: for every form, not only those at the bounds of the tables, the tier
\* and the saving that the calculator announces are those it then shows.
LEMMA AdviceIsRight ==
    ASSUME form \in Forms
    PROVE  AdviceHolds
<1> SUFFICES ASSUME Advised(form) PROVE AdviceHolds
  BY DEF AdviceHolds
<1>a. PICK f \in Forms : f = form
  OBVIOUS
<1>b. PICK g : g = Suggested(f)
  OBVIOUS
<1>1. f = form /\ g = Suggested(f)
  BY <1>a, <1>b
<1>2. PICK tier \in {"large_standard", "large_bulky", "extra_large_0_50"} : tier = SizeTier(f)
  BY <1>1 DEF Advised
<1>3. /\ SizeTier(g) = NextCheaper(tier).tier /\ g \in Forms /\ Billable(g) <= Billable(f)
  BY <1>1, <1>2, SuggestedIsLighter DEF Advised
<1>4. Billable(f) \in Nat /\ Billable(g) \in Nat
  BY <1>3, BillableIsNat
<1>5. PICK x, y : /\ x = CalcFulfillmentFee(tier, Billable(f))
                  /\ y = CalcFulfillmentFee(NextCheaper(tier).tier, Billable(g))
  OBVIOUS
<1>6. x \in Nat /\ y \in Nat /\ y + Cent <= x
  BY <1>3, <1>4, <1>5, CheaperTier
<1>7. FulfillmentFee(f) = Round2(x) /\ FulfillmentFee(g) = Round2(y)
  BY <1>2, <1>3, <1>5 DEF FulfillmentFee
<1>8. Saving(f) = Round2(Round2(x) * Cent - y)
  BY <1>1, <1>2, <1>5, <1>7 DEF Saving
<1>9. /\ Round2(x) - Round2(y) > 0
      /\ (Round2(x) - Round2(y)) - Round2(Round2(x) * Cent - y) \in -1..1
  BY <1>6, RoundedFees
<1>10. QED
  BY <1>1, <1>2, <1>3, <1>7, <1>8, <1>9 DEF AdviceHolds

FormInv == form \in Forms

LEMMA FormStarts == FormInit => FormInv
BY DEF FormInit, FormInv, Forms, Inch

LEMMA FormStep == FormInv /\ [FormNext]_form => FormInv'
<1> SUFFICES ASSUME form \in Forms, [FormNext]_form PROVE form' \in Forms
  BY DEF FormInv
<1>1. ASSUME NEW oz \in Ounces, EnterWeight(oz) PROVE form' \in Forms
  BY <1>1, FormAssumption DEF EnterWeight, Forms
<1>2. ASSUME NEW d \in Fields, NEW l \in Lengths, EnterDimension(d, l) PROVE form' \in Forms
  <2>1. \/ form' = [form EXCEPT !.length_in = l] \/ form' = [form EXCEPT !.width_in = l]
        \/ form' = [form EXCEPT !.height_in = l]
    BY <1>2 DEF EnterDimension, Fields
  <2>2. QED
    BY <2>1, FormAssumption DEF Forms
<1>3. CASE ApplySuggestion
  BY <1>3, SuggestedIsLighter DEF ApplySuggestion, Advised
<1>4. QED
  BY <1>1, <1>2, <1>3 DEF FormNext

LEMMA FormsHold == FormSpec => []FormInv
BY FormStarts, FormStep, PTL DEF FormSpec

LEMMA FormTypeCorrect == FormSpec => []FormTypeOK
<1>1. FormInv => FormTypeOK
  BY DEF FormInv, Forms, FormTypeOK
<1>2. QED
  BY <1>1, FormsHold, PTL

\* findCheaperTierDimensions, page.tsx: whatever the user enters, an advice that is
\* shown holds when it is applied.
THEOREM AdviceIsKept == FormSpec => []AdviceHolds
<1>1. FormInv => AdviceHolds
  BY AdviceIsRight DEF FormInv
<1>2. QED
  BY <1>1, FormsHold, PTL

----------------------------------------------------------------------------
(* The services together, as the run Services has them.                    *)

\* In the run of all five, each takes its own steps only.
LEMMA ServicesCompose ==
    Spec => AlertSpec /\ RetentionSpec /\ RepricingSpec /\ ScenarioSpec /\ FormSpec
<1>1. Init => AlertInit /\ RetentionInit /\ RepricingInit /\ ScenarioInit /\ FormInit
  BY DEF Init
<1>2. ASSUME [Next]_<<alertVars, retentionVars, repricingVars, scenarioVars, form>>
      PROVE  /\ [AlertNext]_alertVars /\ [RetentionNext]_retentionVars
             /\ [RepricingNext]_repricingVars /\ [ScenarioNext]_scenarioVars
             /\ [FormNext]_form
  BY <1>2, Zenon DEF Next, AlertPart, RetentionPart, RepricingPart, ScenarioPart, FormPart
<1> QED
  BY <1>1, <1>2, PTL DEF Spec, AlertSpec, RetentionSpec, RepricingSpec, ScenarioSpec, FormSpec

\* Every variable of the services has its type: of the detection of outages, of
\* the purge, of the repricing engine, of the saved scenarios and of the form.
THEOREM ServicesTypeCorrect == Spec => []ServicesTypeOK
<1>1. RetentionInv => RetentionTypeOK
  BY DEF RetentionInv
<1>2. RepricingInv => RepricingTypeOK
  BY DEF RepricingInv
<1> QED
  BY <1>1, <1>2, ServicesCompose, AlertTypeCorrect, MarksHold, RepricingHolds,
     ScenarioTypeCorrect, FormTypeCorrect, PTL DEF ServicesTypeOK
=============================================================================
