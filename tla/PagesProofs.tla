----------------------------- MODULE PagesProofs -----------------------------
(****************************************************************************)
(* Proofs about FilterCache, Paging and Status: any threads, filters, sizes *)
(* and expiration times of the cache, any number of commits, any page sizes,*)
(* any number of clients and tests.                                         *)
(*                                                                          *)
(* Nothing in the code keeps the calls of two threads to the cache apart:   *)
(* but for the types, the theorems about it are about the behaviours in     *)
(* which no two calls overlap.                                              *)
(****************************************************************************)
EXTENDS FilterCache, Paging, Status, Lemmas

----------------------------------------------------------------------------
(* FilterCache. *)

\* No call overlaps another one, of whichever threads they are.
OneAtATime == \A t, u \in Threads : thread[t].pc # "out" /\ thread[u].pc # "out" => t = u

\* What a call has found out about the cache still holds when it stores its entry.
SlotTracked(t) ==
    LET f == thread[t].filter
        slot == thread[t].slot
    IN
    /\ thread[t].pc # "out" => f \in Filters
    /\ thread[t].pc = "count" /\ slot = 0 => Hits(f) = {} /\ Len(cache) < Size
    /\ thread[t].pc = "count" /\ slot # 0 =>
          /\ slot \in DOMAIN cache /\ Hits(f) \subseteq {slot}
          /\ Hits(f) = {} =>
                Len(cache) = Size /\ \A j \in DOMAIN cache : cache[j].used <= cache[slot].used

CacheInv ==
    /\ TypeOK /\ CacheBounded /\ OneEntryPerFilter /\ OwnFreshCount
    /\ \A t \in Threads : SlotTracked(t)

----------------------------------------------------------------------------
(* Operators.                                                               *)

LEMMA FirstProperties ==
    ASSUME NEW S \in SUBSET Nat, S # {}
    PROVE  First(S) \in S /\ \A j \in S : First(S) <= j
BY LeastNumber DEF First

LEMMA AgedProperties ==
    ASSUME NEW a \in Ages
    PROVE  /\ Aged(a) \in Ages /\ a <= Aged(a) /\ Aged(a) <= a + 1
           /\ \A b \in Ages : a <= b => Aged(a) <= Aged(b)
BY SizeAssumption DEF Ages, Aged

\* Some entry's last use is the longest ago.
LEMMA LeastRecentlyUsedProperties ==
    ASSUME TypeOK, Len(cache) > 0
    PROVE  /\ LeastRecentlyUsed \in DOMAIN cache
           /\ \A j \in DOMAIN cache : cache[j].used <= cache[LeastRecentlyUsed].used
<1> DEFINE Unused == {Expiration + 1 - cache[i].used : i \in DOMAIN cache}
           Oldest == {i \in DOMAIN cache : \A j \in DOMAIN cache : cache[j].used <= cache[i].used}
<1>1. \A i \in DOMAIN cache : cache[i].used \in Ages
  <2>1. \A i \in DOMAIN cache : cache[i] \in CacheEntry
    BY DEF TypeOK
  <2> QED
    BY <2>1 DEF CacheEntry
<1>2. Unused \in SUBSET Nat /\ Unused # {}
  <2>1. 1 \in DOMAIN cache
    BY DEF TypeOK
  <2>2. \A i \in DOMAIN cache : Expiration + 1 - cache[i].used \in Nat
    BY <1>1, SizeAssumption DEF Ages
  <2> QED
    BY <2>1, <2>2
<1>3. PICK m \in Unused : \A k \in Unused : m <= k
  <2> HIDE DEF Unused
  <2> QED
    BY <1>2, LeastNumber
<1>4. PICK i \in DOMAIN cache : m = Expiration + 1 - cache[i].used
  OBVIOUS
<1>5. i \in Oldest
  <2>1. ASSUME NEW j \in DOMAIN cache
        PROVE  cache[j].used <= cache[i].used
    <3>1. m <= Expiration + 1 - cache[j].used
      BY <1>3
    <3>2. cache[i].used \in Int /\ cache[j].used \in Int /\ Expiration \in Int
      BY <1>1, SizeAssumption DEF Ages
    <3> QED
      BY <1>4, <3>1, <3>2
  <2> QED
    BY <2>1
<1>6. Oldest \in SUBSET Nat
  BY DEF TypeOK
<1> HIDE DEF Oldest
<1>7. First(Oldest) \in Oldest
  BY <1>5, <1>6, FirstProperties
<1> QED
  BY <1>7 DEF LeastRecentlyUsed, Oldest

\* What is left of the cache when the expired entries are dropped.
LEMMA DroppedProperties ==
    ASSUME TypeOK, OneEntryPerFilter, NEW left, left = Selected(cache, Unexpired)
    PROVE  /\ left \in Seq(CacheEntry)
           /\ Len(left) <= Len(cache)
           /\ Unexpired # DOMAIN cache => Len(left) < Len(cache)
           /\ \A i \in DOMAIN left : \E k \in Unexpired : left[i] = cache[k]
           /\ \A k \in Unexpired : \E i \in DOMAIN left : left[i] = cache[k]
           /\ \A i, j \in DOMAIN left : left[i].hash = left[j].hash => i = j
<1>1. /\ cache \in Seq(CacheEntry) /\ Unexpired \in SUBSET (DOMAIN cache)
      /\ DOMAIN cache = 1 .. Len(cache) /\ Len(cache) \in Nat
  BY DEF TypeOK, Unexpired
<1>2. /\ left \in Seq(CacheEntry) /\ Len(left) = Cardinality(Unexpired)
      /\ \A n \in 1 .. Cardinality(Unexpired) : left[n] = cache[Nth(Unexpired, n)]
  BY <1>1, SelectedProperties
<1>3. /\ \A n \in 1 .. Cardinality(Unexpired) :
            /\ Nth(Unexpired, n) \in Unexpired
            /\ Cardinality(UpTo(Unexpired, Nth(Unexpired, n))) = n
      /\ \A i \in Unexpired : \E n \in 1 .. Cardinality(Unexpired) : Nth(Unexpired, n) = i
  BY <1>1, NthProperties
<1>4. DOMAIN left = 1 .. Cardinality(Unexpired)
  BY <1>2
<1>5. /\ Cardinality(Unexpired) <= Len(cache)
      /\ Unexpired # DOMAIN cache => Cardinality(Unexpired) # Len(cache)
      /\ Cardinality(Unexpired) \in Nat
  <2>1. IsFiniteSet(1 .. Len(cache)) /\ Cardinality(1 .. Len(cache)) = Len(cache)
    <3>1. Len(cache) \in Int
      BY <1>1
    <3>2. /\ IsFiniteSet(1 .. Len(cache))
          /\ Cardinality(1 .. Len(cache)) = IF 1 > Len(cache) THEN 0 ELSE Len(cache) - 1 + 1
      BY <3>1, FS_Interval
    <3> QED
      BY <1>1, <3>2
  <2> QED
    BY <1>1, <2>1, FS_Subset, FS_CardinalityType
<1>6. ASSUME NEW i \in DOMAIN left, NEW j \in DOMAIN left, left[i].hash = left[j].hash
      PROVE  i = j
  <2>1. Nth(Unexpired, i) = Nth(Unexpired, j)
    BY <1>1, <1>2, <1>3, <1>4, <1>6 DEF OneEntryPerFilter
  <2> QED
    BY <1>3, <1>4, <2>1
<1>7. \A i \in DOMAIN left : \E k \in Unexpired : left[i] = cache[k]
  BY <1>2, <1>3, <1>4
<1>8. \A k \in Unexpired : \E i \in DOMAIN left : left[i] = cache[k]
  BY <1>2, <1>3, <1>4
<1> QED
  BY <1>1, <1>2, <1>5, <1>6, <1>7, <1>8

----------------------------------------------------------------------------
(* The steps.                                                               *)

\* When a call goes on, no other thread is in one.
LEMMA OtherThreadsOut ==
    ASSUME OneAtATime', thread \in [Threads -> Thread], NEW t \in Threads, NEW row,
           thread' = [thread EXCEPT ![t] = row], row.pc # "out"
    PROVE  \A u \in Threads : thread'[u] = row \/ thread'[u].pc = "out"
<1>1. thread'[t] = row
  OBVIOUS
<1> QED
  BY <1>1 DEF OneAtATime

\* A step that changes no hash and no stamp, and no use but those of the entry found.
LEMMA FindFreshStep ==
    ASSUME OneAtATime', CacheInv, NEW t \in Threads, NEW f \in Filters, FindFresh(t, f)
    PROVE  CacheInv' /\ DOMAIN cache' = DOMAIN cache
           /\ \A i \in DOMAIN cache : cache'[i].hash = cache[i].hash
<1> DEFINE i == First(Hits(f))
<1>1. i \in DOMAIN cache /\ cache[i].hash = f /\ ~Expired(cache[i])
  <2>1. Hits(f) \in SUBSET Nat /\ Hits(f) # {}
    BY DEF FindFresh, Hits, CacheInv, TypeOK
  <2> QED
    BY <2>1, FirstProperties DEF FindFresh, Hits
<1>2. /\ cache' = [cache EXCEPT ![i].used = 0]
      /\ thread' = [thread EXCEPT ![t] = [pc |-> "read", filter |-> f, slot |-> i, age |-> 0]]
  BY DEF FindFresh, Read
<1> HIDE DEF i
<1>3. /\ cache \in Seq(CacheEntry) /\ thread \in [Threads -> Thread] /\ Len(cache) \in Nat
      /\ DOMAIN cache = 1 .. Len(cache) /\ Expiration \in Nat
  BY SizeAssumption DEF CacheInv, TypeOK
<1>4. cache[i] \in CacheEntry /\ 0 \in Ages
  BY <1>1, <1>3 DEF Ages
<1>5. [cache[i] EXCEPT !.used = 0] \in CacheEntry
  BY <1>4 DEF CacheEntry
<1>6. cache' \in Seq(CacheEntry) /\ Len(cache') = Len(cache) /\ DOMAIN cache' = DOMAIN cache
  BY <1>1, <1>2, <1>3, <1>5
<1>7. \A j \in DOMAIN cache :
         /\ cache'[j].hash = cache[j].hash /\ cache'[j].stamp = cache[j].stamp
         /\ cache'[j].used = IF j = i THEN 0 ELSE cache[j].used
  BY <1>1, <1>2, <1>3, <1>4 DEF CacheEntry
<1>8. TypeOK'
  <2>1. thread' \in [Threads -> Thread]
    BY <1>1, <1>2, <1>3, <1>4 DEF Thread
  <2>2. \A j \in DOMAIN cache' : cache'[j].used <= cache'[j].stamp
    <3>1. cache[i].stamp \in Nat
      BY <1>4 DEF CacheEntry, Ages
    <3> QED
      BY <1>6, <1>7, <3>1 DEF CacheInv, TypeOK
  <2> QED
    BY <1>6, <2>1, <2>2 DEF TypeOK
<1>9. CacheBounded' /\ OneEntryPerFilter'
  BY <1>6, <1>7 DEF CacheInv, CacheBounded, OneEntryPerFilter
<1>10. \A u \in Threads : \/ thread'[u] = [pc |-> "read", filter |-> f, slot |-> i, age |-> 0]
                          \/ thread'[u].pc = "out"
  BY <1>2, <1>3, OtherThreadsOut
<1>11. OwnFreshCount' /\ \A u \in Threads : SlotTracked(u)'
  <2>1. cache'[i].hash = f /\ cache'[i].stamp <= Expiration + 0
    <3>1. cache[i].stamp \in Int
      BY <1>4 DEF CacheEntry, Ages
    <3> QED
      BY <1>1, <1>3, <1>7, <3>1 DEF Expired
  <2> QED
    BY <1>1, <1>6, <1>10, <2>1 DEF OwnFreshCount, SlotTracked
<1> QED
  BY <1>6, <1>7, <1>8, <1>9, <1>11 DEF CacheInv

\* The cache as it is, and a call that goes on to the constructor.
LEMMA CountStep ==
    ASSUME OneAtATime', CacheInv, NEW t \in Threads, NEW f \in Filters, NEW slot \in Nat,
           Count(t, f, slot), UNCHANGED cache,
           IF slot = 0 THEN Hits(f) = {} /\ Len(cache) < Size
           ELSE /\ slot \in DOMAIN cache /\ Hits(f) \subseteq {slot}
                /\ Hits(f) = {} =>
                      /\ Len(cache) = Size
                      /\ \A j \in DOMAIN cache : cache[j].used <= cache[slot].used
    PROVE  CacheInv'
<1> DEFINE row == [pc |-> "count", filter |-> f, slot |-> slot, age |-> 0]
<1>1. row \in Thread
  BY SizeAssumption DEF Thread, Ages
<1>2. \A u \in Threads : thread'[u] = row \/ thread'[u].pc = "out"
  BY OtherThreadsOut DEF Count, CacheInv, TypeOK
<1>3. TypeOK' /\ CacheBounded' /\ OneEntryPerFilter'
  BY <1>1 DEF CacheInv, TypeOK, CacheBounded, OneEntryPerFilter, Count
<1>4. OwnFreshCount'
  BY <1>2 DEF OwnFreshCount
<1>5. \A u \in Threads : SlotTracked(u)'
  BY <1>2 DEF SlotTracked, Hits
<1> QED
  BY <1>3, <1>4, <1>5 DEF CacheInv

LEMMA FindExpiredStep ==
    ASSUME OneAtATime', CacheInv, NEW t \in Threads, NEW f \in Filters, FindExpired(t, f)
    PROVE  CacheInv' /\ UNCHANGED cache
<1> DEFINE i == First(Hits(f))
<1>1. Hits(f) \in SUBSET Nat /\ Hits(f) # {}
  BY DEF FindExpired, Hits, CacheInv, TypeOK
<1>2. i \in Hits(f)
  BY <1>1, FirstProperties
<1>3. Count(t, f, i) /\ UNCHANGED cache
  BY DEF FindExpired
<1> HIDE DEF i
<1>4. i \in DOMAIN cache /\ Hits(f) \subseteq {i} /\ i \in Nat /\ i # 0
  BY <1>2 DEF Hits, CacheInv, OneEntryPerFilter, TypeOK
<1> QED
  BY <1>1, <1>3, <1>4, CountStep

\* A call that finds nothing keeps every entry that is not expired.
LEMMA FindNothingStep ==
    ASSUME OneAtATime', CacheInv, NEW t \in Threads, NEW f \in Filters, FindNothing(t, f)
    PROVE  CacheInv' /\ \A k \in Unexpired : \E i \in DOMAIN cache' : cache'[i] = cache[k]
<1>0. TypeOK /\ OneEntryPerFilter /\ Size \in Nat \ {0} /\ Len(cache) \in Nat /\ Hits(f) = {}
  BY SizeAssumption DEF CacheInv, TypeOK, FindNothing
<1>1. CASE Full /\ Unexpired = DOMAIN cache
  <2>1. Count(t, f, LeastRecentlyUsed) /\ UNCHANGED cache /\ Len(cache) = Size
    BY <1>1 DEF FindNothing, Full
  <2>2. /\ LeastRecentlyUsed \in DOMAIN cache
        /\ \A j \in DOMAIN cache : cache[j].used <= cache[LeastRecentlyUsed].used
    BY <1>0, <2>1, LeastRecentlyUsedProperties
  <2>3. LeastRecentlyUsed \in Nat /\ LeastRecentlyUsed # 0
    BY <1>0, <2>2 DEF TypeOK
  <2> QED
    BY <1>0, <1>1, <2>1, <2>2, <2>3, CountStep
<1>2. CASE ~Full
  <2>1. Count(t, f, 0) /\ UNCHANGED cache
    BY <1>2 DEF FindNothing
  <2>2. Len(cache) < Size
    BY <1>0, <1>2 DEF Full, CacheInv, CacheBounded
  <2> QED
    BY <1>0, <2>1, <2>2, CountStep DEF Unexpired
<1>3. CASE Full /\ Unexpired # DOMAIN cache
  <2> DEFINE row == [pc |-> "count", filter |-> f, slot |-> 0, age |-> 0]
  <2>1. cache' = Selected(cache, Unexpired) /\ thread' = [thread EXCEPT ![t] = row]
    BY <1>3 DEF FindNothing, Count
  <2>2. /\ cache' \in Seq(CacheEntry)
        /\ Len(cache') < Len(cache)
        /\ \A i \in DOMAIN cache' : \E k \in Unexpired : cache'[i] = cache[k]
        /\ \A k \in Unexpired : \E i \in DOMAIN cache' : cache'[i] = cache[k]
        /\ \A i, j \in DOMAIN cache' : cache'[i].hash = cache'[j].hash => i = j
    BY <1>0, <1>3, <2>1, DroppedProperties
  <2>3. Len(cache') < Size /\ Len(cache') \in Nat
    BY <1>0, <1>3, <2>2 DEF Full
  <2>4. row \in Thread
    BY SizeAssumption DEF Thread, Ages
  <2>5. \A u \in Threads : thread'[u] = row \/ thread'[u].pc = "out"
    BY <1>0, <2>1, OtherThreadsOut DEF TypeOK
  <2>6. TypeOK'
    <3>1. \A i \in DOMAIN cache' : cache'[i].used <= cache'[i].stamp
      BY <1>0, <2>2 DEF TypeOK, Unexpired
    <3>2. thread' \in [Threads -> Thread]
      BY <1>0, <2>1, <2>4 DEF TypeOK
    <3> QED
      BY <2>2, <3>1, <3>2 DEF TypeOK
  <2>7. CacheBounded' /\ OneEntryPerFilter'
    BY <1>0, <2>2, <2>3 DEF CacheBounded, OneEntryPerFilter
  <2>8. OwnFreshCount'
    BY <2>5 DEF OwnFreshCount
  <2>9. \A i \in DOMAIN cache' : cache'[i].hash # f
    BY <1>0, <2>2 DEF Hits, Unexpired
  <2>10. \A u \in Threads : SlotTracked(u)'
    BY <2>3, <2>5, <2>9 DEF SlotTracked, Hits
  <2> QED
    BY <2>2, <2>6, <2>7, <2>8, <2>10 DEF CacheInv
<1> QED
  BY <1>1, <1>2, <1>3

\* Storing an entry replaces another filter's only if the cache is full, and that entry is
\* the one whose last use is the longest ago.
LEMMA StoreStep ==
    ASSUME OneAtATime', CacheInv, NEW t \in Threads, Store(t)
    PROVE  /\ CacheInv'
           /\ \A i \in DOMAIN cache :
                 \/ \E j \in DOMAIN cache' : cache'[j].hash = cache[i].hash
                 \/ Len(cache) = Size /\ \A j \in DOMAIN cache : cache[j].used <= cache[i].used
<1> DEFINE f == thread[t].filter
           age == thread[t].age
           slot == thread[t].slot
           new == [hash |-> f, stamp |-> age, used |-> age]
           row(s) == [pc |-> "read", filter |-> f, slot |-> s, age |-> age]
<1>1. /\ cache \in Seq(CacheEntry) /\ Len(cache) \in Nat /\ DOMAIN cache = 1 .. Len(cache)
      /\ thread \in [Threads -> Thread] /\ Size \in Nat /\ Expiration \in Nat
  BY SizeAssumption DEF CacheInv, TypeOK
<1>2. f \in Filters /\ age \in Ages /\ thread[t].pc = "count" /\ slot \in Nat
  <2>1. thread[t] \in Thread
    BY <1>1
  <2> QED
    BY <2>1 DEF Store, CacheInv, SlotTracked, Thread
<1>3. new \in CacheEntry /\ age \in Int /\ new.hash = f /\ new.stamp = age /\ new.used = age
  BY <1>1, <1>2 DEF CacheEntry, Ages
<1>4. \A s \in Nat : row(s) \in Thread
  BY <1>2 DEF Thread
<1>5. CASE slot = 0
  <2>1. cache' = Append(cache, new) /\ thread' = [thread EXCEPT ![t] = row(LastIndex(cache'))]
    BY <1>5 DEF Store, Read
  <2>2. Hits(f) = {} /\ Len(cache) < Size
    BY <1>2, <1>5 DEF CacheInv, SlotTracked
  <2> HIDE DEF new, f, age, slot
  <2>3. /\ cache' \in Seq(CacheEntry) /\ Len(cache') = Len(cache) + 1
        /\ DOMAIN cache' = 1 .. Len(cache) + 1
        /\ \A i \in DOMAIN cache : i \in DOMAIN cache' /\ cache'[i] = cache[i]
        /\ cache'[Len(cache) + 1] = new
    BY <1>1, <1>3, <2>1
  <2>4. \A u \in Threads : thread'[u] = row(Len(cache) + 1) \/ thread'[u].pc = "out"
    <3>1. thread' = [thread EXCEPT ![t] = row(Len(cache) + 1)] /\ row(Len(cache) + 1).pc # "out"
      BY <2>1, <2>3 DEF LastIndex
    <3> HIDE DEF row
    <3> QED
      BY <1>1, <3>1, OtherThreadsOut
  <2> HIDE DEF row
  <2>5. TypeOK'
    <3>1. \A i \in DOMAIN cache' : cache'[i].used <= cache'[i].stamp
      BY <1>1, <1>3, <2>3 DEF CacheInv, TypeOK
    <3>2. thread' \in [Threads -> Thread]
      BY <1>1, <1>4, <2>1, <2>3 DEF LastIndex
    <3> QED
      BY <2>3, <3>1, <3>2 DEF TypeOK
  <2>6. CacheBounded'
    BY <1>1, <2>2, <2>3 DEF CacheBounded
  <2>7. OneEntryPerFilter'
    BY <1>1, <1>3, <2>2, <2>3 DEF CacheInv, OneEntryPerFilter, Hits
  <2>8. OwnFreshCount' /\ \A u \in Threads : SlotTracked(u)'
    <3>1. age <= Expiration + age
      BY <1>1, <1>3
    <3> QED
      BY <1>1, <1>2, <1>3, <2>3, <2>4, <3>1 DEF OwnFreshCount, SlotTracked, row
  <2> QED
    BY <2>3, <2>5, <2>6, <2>7, <2>8 DEF CacheInv
<1>6. CASE slot # 0
  <2>1. /\ cache' = [cache EXCEPT ![slot] = new] /\ thread' = [thread EXCEPT ![t] = row(slot)]
        /\ slot \in DOMAIN cache
    BY <1>6 DEF Store, Read
  <2>2. /\ Hits(f) \subseteq {slot}
        /\ Hits(f) = {} =>
              Len(cache) = Size /\ \A j \in DOMAIN cache : cache[j].used <= cache[slot].used
    BY <1>2, <1>6 DEF CacheInv, SlotTracked
  <2> HIDE DEF new, f, age, slot
  <2>3. /\ cache' \in Seq(CacheEntry) /\ Len(cache') = Len(cache) /\ DOMAIN cache' = DOMAIN cache
        /\ \A i \in DOMAIN cache : cache'[i] = IF i = slot THEN new ELSE cache[i]
    BY <1>1, <1>3, <2>1
  <2>4. \A u \in Threads : thread'[u] = row(slot) \/ thread'[u].pc = "out"
    <3>1. thread' = [thread EXCEPT ![t] = row(slot)] /\ row(slot).pc # "out"
      BY <2>1
    <3> HIDE DEF row
    <3> QED
      BY <1>1, <3>1, OtherThreadsOut
  <2>5. TypeOK'
    <3>1. \A i \in DOMAIN cache' : cache'[i].used <= cache'[i].stamp
      BY <1>1, <1>3, <2>3 DEF CacheInv, TypeOK
    <3>2. thread' \in [Threads -> Thread]
      BY <1>1, <1>2, <1>4, <2>1
    <3> QED
      BY <2>3, <3>1, <3>2 DEF TypeOK
  <2> HIDE DEF row
  <2>6. CacheBounded'
    BY <2>3 DEF CacheInv, CacheBounded
  <2>7. OneEntryPerFilter'
    BY <1>3, <2>2, <2>3 DEF CacheInv, OneEntryPerFilter, Hits
  <2>8. OwnFreshCount' /\ \A u \in Threads : SlotTracked(u)'
    <3>1. age <= Expiration + age
      BY <1>1, <1>3
    <3>2. slot \in DOMAIN cache' /\ cache'[slot] = new
      BY <2>1, <2>3
    <3>3. OwnFreshCount'
      BY <1>3, <2>4, <3>1, <3>2 DEF OwnFreshCount, row
    <3> QED
      BY <1>2, <2>4, <3>3 DEF SlotTracked, row
  <2>9. ASSUME NEW i \in DOMAIN cache, \A j \in DOMAIN cache' : cache'[j].hash # cache[i].hash
        PROVE  Len(cache) = Size /\ \A j \in DOMAIN cache : cache[j].used <= cache[i].used
    <3>1. i = slot /\ cache[i].hash # f
      BY <1>3, <2>1, <2>3, <2>9
    <3>2. Hits(f) = {}
      BY <2>2, <3>1 DEF Hits
    <3> QED
      BY <2>2, <3>1, <3>2
  <2> QED
    BY <2>5, <2>6, <2>7, <2>8, <2>9 DEF CacheInv
<1> QED
  BY <1>5, <1>6

LEMMA ReturnStep ==
    ASSUME CacheInv, NEW t \in Threads, Return(t)
    PROVE  CacheInv' /\ UNCHANGED cache
<1>1. UNCHANGED cache /\ thread' = [thread EXCEPT ![t] = Out]
  BY DEF Return
<1>2. Out \in Thread
  BY SizeAssumption DEF Out, Thread, Ages
<1>3. TypeOK' /\ CacheBounded' /\ OneEntryPerFilter'
  BY <1>1, <1>2 DEF CacheInv, TypeOK, CacheBounded, OneEntryPerFilter
<1>4. \A u \in Threads : thread'[u] = thread[u] \/ thread'[u].pc = "out"
  BY <1>1 DEF CacheInv, TypeOK, Out
<1>5. OwnFreshCount' /\ \A u \in Threads : SlotTracked(u)'
  BY <1>1, <1>4 DEF CacheInv, OwnFreshCount, SlotTracked, Hits
<1> QED
  BY <1>1, <1>3, <1>5 DEF CacheInv

\* Time passes.
LEMMA TickAges ==
    ASSUME TypeOK, Tick
    PROVE  /\ TypeOK' /\ DOMAIN cache' = DOMAIN cache /\ Len(cache') = Len(cache)
           /\ \A i \in DOMAIN cache :
                 cache'[i] = [hash |-> cache[i].hash, stamp |-> Aged(cache[i].stamp),
                              used |-> Aged(cache[i].used)]
           /\ \A u \in Threads :
                 /\ thread[u].pc = "out" => thread'[u] = Out
                 /\ thread[u].pc # "out" =>
                       /\ thread'[u].pc = thread[u].pc /\ thread'[u].filter = thread[u].filter
                       /\ thread'[u].slot = thread[u].slot /\ thread'[u].age = Aged(thread[u].age)
<1>1. /\ cache \in Seq(CacheEntry) /\ Len(cache) \in Nat /\ DOMAIN cache = 1 .. Len(cache)
      /\ thread \in [Threads -> Thread] /\ Expiration \in Nat
  BY SizeAssumption DEF TypeOK
<1>2. \A i \in DOMAIN cache :
         /\ cache[i] \in CacheEntry /\ cache[i].hash \in Filters
         /\ cache[i].stamp \in Ages /\ cache[i].used \in Ages
  <2>1. \A i \in DOMAIN cache : cache[i] \in CacheEntry
    BY <1>1
  <2> QED
    BY <2>1 DEF CacheEntry
<1>3. cache' = [i \in DOMAIN cache |->
                  [cache[i] EXCEPT !.stamp = Aged(cache[i].stamp), !.used = Aged(cache[i].used)]]
  BY DEF Tick
<1>4. \A i \in DOMAIN cache :
         /\ cache'[i] = [hash |-> cache[i].hash, stamp |-> Aged(cache[i].stamp),
                         used |-> Aged(cache[i].used)]
         /\ cache'[i].used = Aged(cache[i].used)
         /\ cache'[i] \in CacheEntry
  BY <1>2, <1>3, AgedProperties DEF CacheEntry
<1>5. cache' \in Seq(CacheEntry) /\ Len(cache') = Len(cache) /\ DOMAIN cache' = DOMAIN cache
  <2>1. cache' = [i \in 1 .. Len(cache) |-> cache'[i]]
    BY <1>1, <1>3
  <2>2. cache' \in [1 .. Len(cache) -> CacheEntry]
    BY <1>1, <1>4, <2>1
  <2> QED
    BY <1>1, <2>2
<1>6. \A u \in Threads :
         /\ thread[u] \in Thread /\ thread[u].age \in Ages
         /\ thread[u].pc = "out" => thread'[u] = Out
         /\ thread[u].pc # "out" =>
               /\ thread'[u].pc = thread[u].pc /\ thread'[u].filter = thread[u].filter
               /\ thread'[u].slot = thread[u].slot /\ thread'[u].age = Aged(thread[u].age)
  <2>1. \A u \in Threads : thread[u] \in Thread /\ thread[u].age \in Ages
    BY <1>1 DEF Thread
  <2>2. \A u \in Threads : thread[u].pc # "out" =>
                              thread'[u] = [thread[u] EXCEPT !.age = Aged(thread[u].age)]
    BY DEF Tick
  <2> QED
    BY <2>1, <2>2 DEF Tick, Thread
<1>7. TypeOK'
  <2>1. thread' \in [Threads -> Thread]
    <3>1. Out \in Thread
      BY SizeAssumption DEF Out, Thread, Ages
    <3>2. \A u \in Threads : [thread[u] EXCEPT !.age = Aged(thread[u].age)] \in Thread
      BY <1>6, AgedProperties DEF Thread
    <3> QED
      BY <3>1, <3>2 DEF Tick
  <2>2. \A i \in DOMAIN cache' : cache'[i].used <= cache'[i].stamp
    BY <1>2, <1>4, <1>5, AgedProperties DEF TypeOK
  <2> QED
    BY <1>5, <2>1, <2>2 DEF TypeOK
<1> QED
  BY <1>4, <1>5, <1>6, <1>7

LEMMA TickStep ==
    ASSUME CacheInv, Tick
    PROVE  /\ CacheInv' /\ DOMAIN cache' = DOMAIN cache
           /\ \A i \in DOMAIN cache : cache'[i].hash = cache[i].hash
<1>0. TypeOK
  BY DEF CacheInv
<1>1. /\ cache \in Seq(CacheEntry) /\ Len(cache) \in Nat /\ DOMAIN cache = 1 .. Len(cache)
      /\ thread \in [Threads -> Thread] /\ Expiration \in Nat
  BY <1>0, SizeAssumption DEF TypeOK
<1>2. \A i \in DOMAIN cache :
         /\ cache[i] \in CacheEntry /\ cache[i].hash \in Filters
         /\ cache[i].stamp \in Ages /\ cache[i].used \in Ages
  <2>1. \A i \in DOMAIN cache : cache[i] \in CacheEntry
    BY <1>1
  <2> QED
    BY <2>1 DEF CacheEntry
<1>4. \A i \in DOMAIN cache :
         /\ cache'[i] = [hash |-> cache[i].hash, stamp |-> Aged(cache[i].stamp),
                         used |-> Aged(cache[i].used)]
         /\ cache'[i].used = Aged(cache[i].used)
  BY <1>0, TickAges
<1>5. Len(cache') = Len(cache) /\ DOMAIN cache' = DOMAIN cache
  BY <1>0, TickAges
<1>6. \A u \in Threads :
         /\ thread[u] \in Thread /\ thread[u].age \in Ages
         /\ thread[u].pc = "out" => thread'[u] = Out
         /\ thread[u].pc # "out" =>
               /\ thread'[u].pc = thread[u].pc /\ thread'[u].filter = thread[u].filter
               /\ thread'[u].slot = thread[u].slot /\ thread'[u].age = Aged(thread[u].age)
  BY <1>0, <1>1, TickAges DEF Thread
<1>7. TypeOK'
  BY <1>0, TickAges
<1>8. CacheBounded' /\ OneEntryPerFilter'
  BY <1>4, <1>5 DEF CacheInv, CacheBounded, OneEntryPerFilter
<1>9. OwnFreshCount'
  <2> SUFFICES ASSUME NEW u \in Threads, thread'[u].pc = "read"
               PROVE  /\ thread'[u].slot \in DOMAIN cache'
                      /\ cache'[thread'[u].slot].hash = thread'[u].filter
                      /\ cache'[thread'[u].slot].stamp <= Expiration + thread'[u].age
    BY DEF OwnFreshCount
  <2>1. thread[u].pc = "read" /\ thread[u].slot \in DOMAIN cache
    BY <1>6 DEF Out, CacheInv, OwnFreshCount
  <2> DEFINE stamp == cache[thread[u].slot].stamp
             age == thread[u].age
  <2>2. stamp <= Expiration + age /\ cache[thread[u].slot].hash = thread[u].filter
    BY <2>1 DEF CacheInv, OwnFreshCount
  <2>3. stamp \in Ages /\ age \in Ages
    BY <1>2, <1>6, <2>1
  <2> HIDE DEF stamp, age
  <2>4. Aged(stamp) <= Expiration + Aged(age)
    BY <1>1, <2>2, <2>3 DEF Ages, Aged
  <2> QED
    BY <1>4, <1>5, <1>6, <2>1, <2>2, <2>4 DEF stamp, age
<1>10. ASSUME NEW u \in Threads
       PROVE  SlotTracked(u)'
  <2>1. CASE thread[u].pc = "out"
    BY <1>6, <2>1 DEF SlotTracked, Out
  <2>2. CASE thread[u].pc # "out"
    <3>1. SlotTracked(u)
      BY DEF CacheInv
    <3>2. Hits(thread[u].filter)' = Hits(thread[u].filter)
      BY <1>4, <1>5, <1>6, <2>2 DEF Hits
    <3>3. ASSUME NEW i \in DOMAIN cache, NEW j \in DOMAIN cache, cache[j].used <= cache[i].used
          PROVE  cache'[j].used <= cache'[i].used
      <4>1. Aged(cache[j].used) <= Aged(cache[i].used)
        BY <1>2, <3>3, AgedProperties
      <4>2. cache'[j].used = Aged(cache[j].used) /\ cache'[i].used = Aged(cache[i].used)
        BY <1>4
      <4> QED
        BY <4>1, <4>2
    <3> QED
      BY <1>5, <1>6, <2>2, <3>1, <3>2, <3>3 DEF SlotTracked
  <2> QED
    BY <2>1, <2>2
<1> QED
  BY <1>4, <1>5, <1>7, <1>8, <1>9, <1>10 DEF CacheInv

LEMMA CacheStep ==
    ASSUME OneAtATime', CacheInv, [Next]_vars
    PROVE  CacheInv'
<1>1. ASSUME NEW t \in Threads, NEW f \in Filters,
             FindFresh(t, f) \/ FindExpired(t, f) \/ FindNothing(t, f)
      PROVE  CacheInv'
  BY <1>1, FindFreshStep, FindExpiredStep, FindNothingStep
<1>2. ASSUME NEW t \in Threads, Store(t) \/ Return(t)
      PROVE  CacheInv'
  BY <1>2, StoreStep, ReturnStep
<1>3. CASE Tick
  BY <1>3, TickStep
<1>4. CASE UNCHANGED vars
  BY <1>4 DEF vars, CacheInv, TypeOK, CacheBounded, OneEntryPerFilter, OwnFreshCount, SlotTracked,
     Hits
<1> QED
  BY <1>1, <1>2, <1>3, <1>4 DEF Next

LEMMA CacheInvariant == Spec /\ []OneAtATime => []CacheInv
<1>1. Init => CacheInv
  <2> SUFFICES ASSUME Init
               PROVE  CacheInv
    OBVIOUS
  <2>1. cache \in Seq(CacheEntry) /\ Len(cache) = 0 /\ DOMAIN cache = {}
    BY DEF Init
  <2>2. Out \in Thread
    BY SizeAssumption DEF Out, Thread, Ages
  <2>3. \A t \in Threads : thread[t] = Out
    BY DEF Init
  <2>4. TypeOK /\ CacheBounded /\ OneEntryPerFilter
    BY <2>1, <2>2, SizeAssumption DEF Init, TypeOK, CacheBounded, OneEntryPerFilter
  <2> QED
    BY <2>3, <2>4 DEF CacheInv, OwnFreshCount, SlotTracked, Out
<1>2. OneAtATime' /\ CacheInv /\ [Next]_vars => CacheInv'
  BY CacheStep
<1> QED
  BY <1>1, <1>2, PTL DEF Spec

----------------------------------------------------------------------------
(* Theorems about the filter cache.                                         *)

\* A call in progress is about a filter.
CallsTyped == TypeOK /\ \A t \in Threads : thread[t].pc # "out" => thread[t].filter \in Filters

LEMMA CallTyped ==
    ASSUME CallsTyped, NEW t \in Threads, NEW row \in Thread, row.pc # "out" => row.filter \in Filters,
           thread' = [thread EXCEPT ![t] = row],
           cache' \in Seq(CacheEntry), \A i \in DOMAIN cache' : cache'[i].used <= cache'[i].stamp
    PROVE  CallsTyped'
<1>1. thread' \in [Threads -> Thread]
  BY DEF CallsTyped, TypeOK
<1>2. \A u \in Threads : thread'[u] = row \/ thread'[u] = thread[u]
  BY DEF CallsTyped, TypeOK
<1> QED
  BY <1>1, <1>2 DEF CallsTyped, TypeOK

LEMMA FindTyped ==
    ASSUME CallsTyped, NEW t \in Threads, NEW f \in Filters,
           FindFresh(t, f) \/ FindExpired(t, f) \/ FindNothing(t, f)
    PROVE  CallsTyped'
<1>1. /\ cache \in Seq(CacheEntry) /\ Len(cache) \in Nat /\ DOMAIN cache = 1 .. Len(cache)
      /\ \A i \in DOMAIN cache : cache[i] \in CacheEntry /\ cache[i].used <= cache[i].stamp
      /\ 0 \in Ages
  BY SizeAssumption DEF CallsTyped, TypeOK, Ages
<1>2. ASSUME NEW pc \in {"count", "read"}, NEW slot \in Nat,
             thread' = [thread EXCEPT ![t] = [pc |-> pc, filter |-> f, slot |-> slot, age |-> 0]],
             cache' \in Seq(CacheEntry), \A i \in DOMAIN cache' : cache'[i].used <= cache'[i].stamp
      PROVE  CallsTyped'
  <2> DEFINE row == [pc |-> pc, filter |-> f, slot |-> slot, age |-> 0]
  <2>1. row \in Thread /\ row.filter \in Filters
    BY <1>1 DEF Thread
  <2> HIDE DEF row
  <2> QED
    BY <1>2, <2>1, CallTyped DEF row
<1>3. Hits(f) # {} => First(Hits(f)) \in DOMAIN cache
  <2>1. Hits(f) \in SUBSET Nat
    BY <1>1 DEF Hits
  <2> QED
    BY <2>1, FirstProperties DEF Hits
<1>4. CASE FindFresh(t, f)
  <2> DEFINE i == First(Hits(f))
  <2>1. /\ i \in DOMAIN cache /\ cache' = [cache EXCEPT ![i] = [cache[i] EXCEPT !.used = 0]]
        /\ thread' = [thread EXCEPT ![t] = [pc |-> "read", filter |-> f, slot |-> i, age |-> 0]]
    BY <1>3, <1>4 DEF FindFresh, Read
  <2> HIDE DEF i
  <2>2. [cache[i] EXCEPT !.used = 0] \in CacheEntry /\ cache[i].stamp >= 0
    BY <1>1, <2>1 DEF CacheEntry, Ages
  <2>3. cache' \in Seq(CacheEntry) /\ DOMAIN cache' = DOMAIN cache
    BY <1>1, <2>1, <2>2
  <2>4. \A j \in DOMAIN cache' : cache'[j].used <= cache'[j].stamp
    BY <1>1, <2>1, <2>2, <2>3 DEF CacheEntry
  <2>5. i \in Nat
    BY <1>1, <2>1
  <2> QED
    BY <1>2, <2>1, <2>3, <2>4, <2>5
<1>5. CASE FindExpired(t, f)
  <2>1. First(Hits(f)) \in Nat /\ Count(t, f, First(Hits(f))) /\ UNCHANGED cache
    BY <1>1, <1>3, <1>5 DEF FindExpired
  <2> QED
    BY <1>1, <1>2, <2>1 DEF Count
<1>6. CASE FindNothing(t, f)
  <2>1. CASE Full /\ Unexpired = DOMAIN cache
    <3>1. LeastRecentlyUsed \in Nat
      <4>1. TypeOK /\ Len(cache) > 0
        BY <1>1, <2>1, SizeAssumption DEF Full, CallsTyped
      <4> QED
        BY <1>1, <4>1, LeastRecentlyUsedProperties
    <3> QED
      BY <1>1, <1>2, <1>6, <2>1, <3>1 DEF FindNothing, Count
  <2>2. CASE Full /\ Unexpired # DOMAIN cache
    <3>1. cache' = Selected(cache, Unexpired) /\ Unexpired \in SUBSET (DOMAIN cache)
      BY <1>6, <2>2 DEF FindNothing, Unexpired
    <3>2. /\ cache' \in Seq(CacheEntry) /\ DOMAIN cache' = 1 .. Cardinality(Unexpired)
          /\ \A n \in 1 .. Cardinality(Unexpired) : cache'[n] = cache[Nth(Unexpired, n)]
      BY <1>1, <3>1, SelectedProperties
    <3>3. \A n \in 1 .. Cardinality(Unexpired) : Nth(Unexpired, n) \in Unexpired
      BY <1>1, <3>1, NthProperties
    <3>4. \A n \in DOMAIN cache' : cache'[n].used <= cache'[n].stamp
      BY <1>1, <3>1, <3>2, <3>3
    <3> QED
      BY <1>2, <1>6, <2>2, <3>2, <3>4 DEF FindNothing, Count
  <2>3. CASE ~Full
    BY <1>1, <1>2, <1>6, <2>3 DEF FindNothing, Count
  <2> QED
    BY <2>1, <2>2, <2>3
<1> QED
  BY <1>4, <1>5, <1>6

LEMMA StoreTyped ==
    ASSUME CallsTyped, NEW t \in Threads, Store(t)
    PROVE  CallsTyped'
<1> DEFINE new == [hash |-> thread[t].filter, stamp |-> thread[t].age, used |-> thread[t].age]
           row(s) == [pc |-> "read", filter |-> thread[t].filter, slot |-> s, age |-> thread[t].age]
<1>1. /\ cache \in Seq(CacheEntry) /\ Len(cache) \in Nat /\ DOMAIN cache = 1 .. Len(cache)
      /\ \A i \in DOMAIN cache : cache[i].used <= cache[i].stamp
  BY DEF CallsTyped, TypeOK
<1>2. thread[t] \in Thread /\ thread[t].filter \in Filters
  BY DEF CallsTyped, TypeOK, Store
<1>3. /\ new \in CacheEntry /\ new.used <= new.stamp
      /\ \A s \in Nat : row(s) \in Thread /\ row(s).filter \in Filters
  BY <1>2, SizeAssumption DEF CacheEntry, Thread, Ages
<1>4. CASE thread[t].slot = 0
  <2>1. cache' = Append(cache, new) /\ thread' = [thread EXCEPT ![t] = row(LastIndex(cache'))]
    BY <1>4 DEF Store, Read
  <2> HIDE DEF new, row
  <2>2. /\ cache' \in Seq(CacheEntry) /\ Len(cache') \in Nat
        /\ \A i \in DOMAIN cache' : cache'[i] = new \/ (i \in DOMAIN cache /\ cache'[i] = cache[i])
    BY <1>1, <1>3, <2>1
  <2> QED
    BY <1>1, <1>3, <2>1, <2>2, CallTyped DEF LastIndex
<1>5. CASE thread[t].slot # 0
  <2>1. /\ cache' = [cache EXCEPT ![thread[t].slot] = new] /\ thread[t].slot \in DOMAIN cache
        /\ thread' = [thread EXCEPT ![t] = row(thread[t].slot)]
    BY <1>5 DEF Store, Read
  <2> HIDE DEF new, row
  <2>2. /\ cache' \in Seq(CacheEntry)
        /\ \A i \in DOMAIN cache' : cache'[i] = new \/ (i \in DOMAIN cache /\ cache'[i] = cache[i])
    BY <1>1, <1>3, <2>1
  <2>3. /\ row(thread[t].slot) \in Thread /\ row(thread[t].slot).filter \in Filters
        /\ \A i \in DOMAIN cache' : cache'[i].used <= cache'[i].stamp
    BY <1>1, <1>3, <2>1, <2>2
  <2> QED
    BY <2>1, <2>2, <2>3, CallTyped
<1> QED
  BY <1>4, <1>5

\* commitcount and FindInCache keep to the types, for any number of filters and any size
\* and expiration time, even when calls overlap.
THEOREM FilterCacheTypeCorrect == Spec => []TypeOK
<1>1. Out \in Thread /\ Out.pc = "out"
  BY SizeAssumption DEF Out, Thread, Ages
<1>2. Init => CallsTyped
  BY <1>1 DEF Init, CallsTyped, TypeOK
<1>3. ASSUME CallsTyped, [Next]_vars
      PROVE  CallsTyped'
  <2>1. ASSUME NEW t \in Threads, Return(t)
        PROVE  CallsTyped'
    BY <1>1, <1>3, <2>1, CallTyped DEF Return, CallsTyped, TypeOK
  <2>2. CASE Tick
    <3>1. TypeOK'
      BY <1>3, <2>2, TickAges DEF CallsTyped
    <3>2. \A t \in Threads : thread'[t].pc # "out" =>
                                thread[t].pc # "out" /\ thread'[t].filter = thread[t].filter
      BY <1>1, <1>3, <2>2, TickAges DEF CallsTyped
    <3> QED
      BY <1>3, <3>1, <3>2 DEF CallsTyped
  <2>3. CASE UNCHANGED vars
    BY <1>3, <2>3 DEF vars, CallsTyped, TypeOK
  <2> QED
    BY <1>3, <2>1, <2>2, <2>3, FindTyped, StoreTyped DEF Next
<1>4. CallsTyped => TypeOK
  BY DEF CallsTyped
<1> QED
  BY <1>2, <1>3, <1>4, PTL DEF Spec

\* What the comparison with "==" means once two overlapping calls have both added an entry:
\* a cache that holds more than Ini::filter_cache_size entries never gives one up again,
\* not even an expired one, whatever calls follow and however they overlap.
THEOREM OverfullStays == Spec => [][Len(cache) > Size => Len(cache') >= Len(cache)]_vars
<1>1. ASSUME TypeOK, [Next]_vars, Len(cache) > Size
      PROVE  Len(cache') >= Len(cache)
  <2>1. /\ cache \in Seq(CacheEntry) /\ Len(cache) \in Nat /\ Size \in Nat /\ ~Full
        /\ DOMAIN cache = 1 .. Len(cache)
    BY <1>1, SizeAssumption DEF TypeOK, Full
  <2>2. ASSUME NEW i, NEW e, cache' = [cache EXCEPT ![i] = e]
        PROVE  Len(cache') = Len(cache)
    BY <2>1, <2>2
  <2>3. ASSUME NEW t \in Threads, NEW f \in Filters, FindFresh(t, f)
        PROVE  Len(cache') = Len(cache)
    <3> DEFINE i == First(Hits(f))
    <3>1. cache' = [cache EXCEPT ![i] = [cache[i] EXCEPT !.used = 0]]
      BY <2>3 DEF FindFresh
    <3> HIDE DEF i
    <3> QED
      BY <2>2, <3>1
  <2>4. ASSUME NEW t \in Threads, NEW f \in Filters, FindExpired(t, f) \/ FindNothing(t, f)
        PROVE  cache' = cache
    BY <2>1, <2>4 DEF FindExpired, FindNothing
  <2>5. ASSUME NEW t \in Threads, Store(t)
        PROVE  Len(cache') >= Len(cache)
    <3> DEFINE new == [hash |-> thread[t].filter, stamp |-> thread[t].age, used |-> thread[t].age]
    <3>1. cache' = Append(cache, new) \/ cache' = [cache EXCEPT ![thread[t].slot] = new]
      BY <2>5 DEF Store
    <3> HIDE DEF new
    <3>2. CASE cache' = Append(cache, new)
      BY <2>1, <3>2
    <3>3. CASE cache' = [cache EXCEPT ![thread[t].slot] = new]
      BY <2>1, <2>2, <3>3
    <3> QED
      BY <3>1, <3>2, <3>3
  <2>6. ASSUME NEW t \in Threads, Return(t)
        PROVE  cache' = cache
    BY <2>6 DEF Return
  <2>7. CASE Tick
    BY <1>1, <2>1, <2>7, TickAges
  <2>8. CASE UNCHANGED vars
    BY <2>1, <2>8 DEF vars
  <2> QED
    BY <1>1, <2>1, <2>3, <2>4, <2>5, <2>6, <2>7, <2>8 DEF Next
<1> QED
  BY <1>1, FilterCacheTypeCorrect, PTL DEF Spec

\* FindInCache never stores more entries than Ini::filter_cache_size, although it compares
\* with "==".
THEOREM FilterCacheBounded == Spec /\ []OneAtATime => []CacheBounded
<1>1. CacheInv => CacheBounded
  BY DEF CacheInv
<1> QED
  BY <1>1, CacheInvariant, PTL

\* FindInCache never adds an entry for a filter that has one.
THEOREM NoSecondEntry == Spec /\ []OneAtATime => []OneEntryPerFilter
<1>1. CacheInv => OneEntryPerFilter
  BY DEF CacheInv
<1> QED
  BY <1>1, CacheInvariant, PTL

\* The index that FindInCache returns is that of the asked filter's entry, which was not
\* expired when the call began, or was counted during it.
THEOREM CountsAreOwn == Spec /\ []OneAtATime => []OwnFreshCount
<1>1. CacheInv => OwnFreshCount
  BY DEF CacheInv
<1> QED
  BY <1>1, CacheInvariant, PTL

\* The entry that FindInCache chose as "oldest" is still the one to give up when its
\* constructor has counted the commits, however long that takes.
THEOREM LeastRecentlyUsedGoes == Spec /\ []OneAtATime => EvictsLeastRecentlyUsed
<1> DEFINE Keeps ==
      \A i \in DOMAIN cache :
          (~Expired(cache[i]) /\ \A j \in DOMAIN cache' : cache'[j].hash # cache[i].hash) =>
              Len(cache) = Size /\ \A j \in DOMAIN cache : cache[j].used <= cache[i].used
<1>1. ASSUME OneAtATime', CacheInv, [Next]_vars
      PROVE  [Keeps]_vars
  <2>1. CASE \E t \in Threads, f \in Filters : FindFresh(t, f)
    BY <1>1, <2>1, FindFreshStep
  <2>2. CASE \E t \in Threads, f \in Filters : FindExpired(t, f)
    BY <1>1, <2>2, FindExpiredStep
  <2>3. CASE \E t \in Threads, f \in Filters : FindNothing(t, f)
    <3>1. \A k \in Unexpired : \E i \in DOMAIN cache' : cache'[i] = cache[k]
      BY <1>1, <2>3, FindNothingStep
    <3> QED
      BY <3>1 DEF Unexpired
  <2>4. CASE \E t \in Threads : Store(t)
    BY <1>1, <2>4, StoreStep
  <2>5. CASE \E t \in Threads : Return(t)
    BY <1>1, <2>5, ReturnStep
  <2>6. CASE Tick
    BY <1>1, <2>6, TickStep
  <2>7. CASE UNCHANGED vars
    BY <2>7
  <2> QED
    BY <1>1, <2>1, <2>2, <2>3, <2>4, <2>5, <2>6, <2>7 DEF Next
<1>2. OneAtATime' /\ CacheInv /\ [Next]_vars => [Keeps]_vars
  BY <1>1
<1> QED
  BY <1>2, CacheInvariant, PTL DEF Spec, EvictsLeastRecentlyUsed

----------------------------------------------------------------------------
(* Paging. *)

\* The places, counted from the oldest, that a SELECT with LIMIT size and OFFSET offset
\* takes from a list of t commits.
RowsOf(t, size, offset) ==
    LET skipped == IF offset < 0 THEN 0 ELSE offset IN
    {n \in 1 .. t : t - n \in skipped .. skipped + size - 1}

Place(C, k) == Cardinality(UpTo(C, k))

\* How many commits of C are newer than k.
Newer(C, k) == Cardinality(C) - Place(C, k)

\* What a visitor sees was so when the promised commits matched.
ShownTracked ==
    promised # {} =>
        shown.commits = Rows(promised, shown.size, Offset(shown.size, shown.hi, shown.current))

PagingInv == PagingTypeOK /\ ShownTracked

----------------------------------------------------------------------------
(* Pages.                                                                   *)

LEMMA HighestProperties ==
    ASSUME NEW t \in Nat, NEW size \in Nat \ {0}
    PROVE  /\ Highest(t, size) \in Nat /\ Highest(t, size) <= t
           /\ size * Highest(t, size) <= t /\ t < size * Highest(t, size) + size
BY DivisionByPositive DEF Highest

LEMMA HighestTyped ==
    ASSUME NEW t \in 0 .. MaxTotal, NEW size \in 1 .. MaxSize
    PROVE  Highest(t, size) \in 0 .. MaxTotal
<1>1. t \in Nat /\ t <= MaxTotal /\ MaxTotal \in Int /\ size \in Nat \ {0}
  BY PagingAssumption
<1>2. Highest(t, size) \in Nat /\ Highest(t, size) <= t
  BY <1>1, HighestProperties
<1> QED
  BY <1>1, <1>2

LEMMA OffsetProperties ==
    ASSUME NEW size \in Nat \ {0}, NEW hi \in Nat, NEW p \in 0 .. hi
    PROVE  /\ Offset(size, hi, p) \in Nat /\ Offset(size, hi, p) <= size * hi
           /\ p > 0 => Offset(size, hi, p) + size <= size * hi
<1>1. size * (hi - p) \in Nat
  OBVIOUS
<1>2. size * (hi - p) <= size * hi
  <2>1. CASE p = 0
    BY <2>1
  <2>2. CASE p > 0
    <3>1. size * (hi - p) + size <= size * hi
      BY <2>2, MultiplesApart
    <3> QED
      BY <3>1, <1>1
  <2> QED
    BY <2>1, <2>2
<1>3. p > 0 => size * (hi - p) + size <= size * hi
  BY MultiplesApart
<1> QED
  BY <1>1, <1>2, <1>3 DEF Offset

\* Every commit is on the page its position among the newest says.
LEMMA OnSomePage ==
    ASSUME NEW t \in Nat, NEW size \in Nat \ {0}, NEW k \in 1 .. t
    PROVE  \E p \in 0 .. Highest(t, size) :
              k \in RowsOf(t, size, Offset(size, Highest(t, size), p))
<1> DEFINE hi == Highest(t, size)
           q == (t - k) \div size
<1>1. /\ q \in Nat /\ (t - k) % size \in 0 .. (size - 1)
      /\ t - k = size * q + ((t - k) % size)
  <2>1. t - k \in Nat
    OBVIOUS
  <2> QED
    BY <2>1, DivisionByPositive
<1>2. hi \in Nat /\ size * hi <= t /\ t < size * hi + size
  BY HighestProperties
<1> HIDE DEF hi, q
<1>3. q <= hi
  <2>1. hi < q => size * hi + size <= size * q
    BY <1>1, <1>2, MultiplesApart
  <2>2. size * q <= t - k
    BY <1>1
  <2>3. size * q \in Int /\ size * hi \in Int
    BY <1>1, <1>2
  <2> QED
    BY <1>1, <1>2, <2>1, <2>2, <2>3
<1>4. hi - q \in 0 .. hi
  BY <1>1, <1>2, <1>3
<1>5. Offset(size, hi, hi - q) = size * q
  BY <1>1, <1>2 DEF Offset
<1>6. size * q \in Nat
  BY <1>1
<1>7. k \in RowsOf(t, size, size * q)
  <2>1. t - k >= size * q /\ t - k <= size * q + size - 1
    BY <1>1, <1>6
  <2> QED
    BY <1>6, <2>1 DEF RowsOf
<1> QED
  BY <1>4, <1>5, <1>7 DEF hi

\* Two pages share no commit.
LEMMA OnOnePage ==
    ASSUME NEW t \in Nat, NEW size \in Nat \ {0}, NEW hi \in Nat,
           NEW p \in 0 .. hi, NEW q \in 0 .. hi, p < q
    PROVE  RowsOf(t, size, Offset(size, hi, p)) \cap RowsOf(t, size, Offset(size, hi, q)) = {}
<1> DEFINE a == Offset(size, hi, p)
           b == Offset(size, hi, q)
<1>1. a \in Nat /\ b \in Nat
  BY OffsetProperties
<1>2. b + size <= a
  <2>1. hi - q < hi - p
    OBVIOUS
  <2> QED
    BY <2>1, MultiplesApart DEF Offset
<1> HIDE DEF a, b
<1> QED
  BY <1>1, <1>2 DEF RowsOf, a, b

\* Every page but the oldest is full.
LEMMA PageFull ==
    ASSUME NEW t \in Nat, NEW size \in Nat \ {0}, NEW p \in 1 .. Highest(t, size)
    PROVE  Cardinality(RowsOf(t, size, Offset(size, Highest(t, size), p))) = size
<1> DEFINE hi == Highest(t, size)
           a == Offset(size, hi, p)
<1>1. hi \in Nat /\ size * hi <= t /\ p \in 0 .. hi
  BY HighestProperties
<1>2. a \in Nat /\ a + size <= size * hi
  BY <1>1, OffsetProperties
<1>3. a + size <= t
  <2>1. size * hi \in Int
    BY <1>1
  <2> HIDE DEF hi, a
  <2> QED
    BY <1>1, <1>2, <2>1
<1> HIDE DEF hi, a
<1>4. RowsOf(t, size, a) = t - a - size + 1 .. t - a
  BY <1>2, <1>3 DEF RowsOf
<1>5. /\ t - a - size + 1 \in Int /\ t - a \in Int /\ ~ (t - a - size + 1 > t - a)
      /\ t - a - (t - a - size + 1) + 1 = size
  BY <1>2
<1>6. Cardinality(t - a - size + 1 .. t - a) = size
  BY <1>5, FS_Interval
<1> QED
  BY <1>4, <1>6 DEF a, hi

\* Next to a page are the two it is linked to, also above the highest.
LEMMA LinksProperties ==
    ASSUME NEW hi \in Nat, NEW current \in Nat, NEW last \in Nat,
           last = IF current > hi THEN current ELSE hi
    PROVE  /\ Links(hi, current) \subseteq (0 .. last) \ {current}
           /\ {current - 1, current + 1} \cap (0 .. last) \subseteq Links(hi, current)
BY DEF Links, LINKS

\* No page but the oldest is empty, and none above the highest.
LEMMA PageNotEmpty ==
    ASSUME NEW t \in Nat \ {0}, NEW size \in Nat \ {0}, NEW p \in Nat \ {0}
    PROVE  RowsOf(t, size, Offset(size, Highest(t, size), p)) # {}
<1> DEFINE hi == Highest(t, size)
           a == Offset(size, hi, p)
<1>1. hi \in Nat /\ size * hi \in Int /\ size * hi <= t
  BY HighestProperties
<1>2. CASE p <= hi
  <2>1. a \in Nat /\ a + size <= size * hi
    BY <1>1, <1>2, OffsetProperties
  <2> HIDE DEF a, hi
  <2>2. t - a \in RowsOf(t, size, a)
    BY <1>1, <2>1 DEF RowsOf
  <2> QED
    BY <2>2 DEF a, hi
<1>3. CASE p > hi
  <2>1. a \in Int /\ a <= 0
    <3>1. hi - p < 0
      BY <1>1, <1>3
    <3>2. size * (hi - p) + size <= size * 0
      BY <1>1, <3>1, MultiplesApart
    <3> QED
      BY <1>1, <3>2 DEF Offset
  <2> HIDE DEF a, hi
  <2>2. t \in RowsOf(t, size, a)
    BY <2>1 DEF RowsOf
  <2> QED
    BY <2>2 DEF a, hi
<1> QED
  BY <1>1, <1>2, <1>3

----------------------------------------------------------------------------
(* The commits at some places of a list.                                    *)

LEMMA PlaceProperties ==
    ASSUME NEW C \in SUBSET (1 .. MaxTotal)
    PROVE  /\ IsFiniteSet(C) /\ Cardinality(C) \in 0 .. MaxTotal
           /\ \A k \in C : Place(C, k) \in 1 .. Cardinality(C)
           /\ \A n \in 1 .. Cardinality(C) : \E k \in C : Place(C, k) = n
<1>1. MaxTotal \in Nat
  BY PagingAssumption
<1>2. IsFiniteSet(C) /\ Cardinality(C) \in Nat /\ Cardinality(C) <= MaxTotal
  BY <1>1, UpToFinite
<1>3. ASSUME NEW k \in C
      PROVE  Place(C, k) \in 1 .. Cardinality(C)
  <2>1. PICK n \in 1 .. Cardinality(C) : Nth(C, n) = k
    BY <1>1, NthProperties
  <2>2. Cardinality(UpTo(C, Nth(C, n))) = n
    BY <1>1, NthProperties
  <2> QED
    BY <2>1, <2>2 DEF Place
<1>4. ASSUME NEW n \in 1 .. Cardinality(C)
      PROVE  \E k \in C : Place(C, k) = n
  BY <1>1, NthProperties DEF Place
<1> QED
  BY <1>1, <1>2, <1>3, <1>4

LEMMA RowsByPlace ==
    ASSUME NEW C \in SUBSET (1 .. MaxTotal), NEW size, NEW offset
    PROVE  Rows(C, size, offset) = {k \in C : Place(C, k) \in RowsOf(Cardinality(C), size, offset)}
BY PlaceProperties DEF Rows, RowsOf, Place, UpTo

\* As many commits as places.
LEMMA PlacesCount ==
    ASSUME NEW C \in SUBSET (1 .. MaxTotal), NEW I \in SUBSET (1 .. Cardinality(C))
    PROVE  Cardinality({k \in C : Place(C, k) \in I}) = Cardinality(I)
<1> DEFINE T == {k \in C : Place(C, k) \in I}
           f == [n \in I |-> Nth(C, n)]
<1>0. MaxTotal \in Nat /\ Cardinality(C) \in Nat
  BY PagingAssumption, PlaceProperties
<1>1. \A n \in I : Nth(C, n) \in C /\ Place(C, Nth(C, n)) = n
  BY <1>0, NthProperties DEF Place
<1>2. \A k \in C : Nth(C, Place(C, k)) = k
  BY <1>0, NthUnique DEF Place
<1>3. f \in [I -> T]
  BY <1>1
<1>4. \A m, n \in I : f[m] = f[n] => m = n
  BY <1>1
<1>5. \A k \in T : \E n \in I : f[n] = k
  BY <1>2
<1> HIDE DEF f, T
<1>6. f \in Bijection(I, T)
  BY <1>3, <1>4, <1>5 DEF Bijection, Injection, Surjection, IsInjective
<1>7. IsFiniteSet(1 .. Cardinality(C))
  BY <1>0, IntervalCardinality
<1>8. IsFiniteSet(I)
  BY <1>7, FS_Subset
<1>9. Cardinality(T) = Cardinality(I)
  BY <1>6, <1>8, FS_Bijection DEF ExistsBijection
<1> QED
  BY <1>9 DEF T

\* Added commits put none closer to the top of the list, and an older commit is not above
\* a newer one.
LEMMA NewerGrows ==
    ASSUME NEW D \in SUBSET (1 .. MaxTotal), NEW C \in SUBSET D, NEW j \in Int, NEW k \in Int, j <= k
    PROVE  Newer(C, k) \in Int /\ Newer(D, j) \in Int /\ Newer(C, k) <= Newer(D, j)
<1>0. MaxTotal \in Nat /\ C \in SUBSET (1 .. MaxTotal)
  BY PagingAssumption
<1>1. ASSUME NEW E \in SUBSET (1 .. MaxTotal), NEW i \in Int
      PROVE  /\ IsFiniteSet(E \ UpTo(E, i)) /\ Newer(E, i) \in Int
             /\ Newer(E, i) = Cardinality(E \ UpTo(E, i))
  <2>1. IsFiniteSet(E) /\ Cardinality(E) \in Nat /\ Cardinality(UpTo(E, i)) \in Nat
    BY <1>0, UpToFinite
  <2>2. E \cap UpTo(E, i) = UpTo(E, i)
    BY DEF UpTo
  <2>3. /\ IsFiniteSet(E \ UpTo(E, i))
        /\ Cardinality(E \ UpTo(E, i)) = Cardinality(E) - Cardinality(E \cap UpTo(E, i))
    BY <2>1, FS_Difference
  <2> QED
    BY <2>1, <2>2, <2>3 DEF Newer, Place
<1>2. C \ UpTo(C, k) \in SUBSET (D \ UpTo(D, j))
  <2>1. ASSUME NEW i \in C, ~(i <= k)
        PROVE  i \in D /\ ~(i <= j)
    <3>1. i \in Int
      BY <1>0
    <3> QED
      BY <2>1, <3>1
  <2> QED
    BY <2>1 DEF UpTo
<1>3. IsFiniteSet(D \ UpTo(D, j))
  BY <1>1
<1>4. Cardinality(C \ UpTo(C, k)) <= Cardinality(D \ UpTo(D, j))
  BY <1>2, <1>3, FS_Subset
<1> QED
  BY <1>0, <1>1, <1>4

----------------------------------------------------------------------------
(* The steps.                                                               *)

LEMMA ShowStep ==
    ASSUME PagingTypeOK, NEW size \in 1 .. MaxSize, NEW current \in 0 .. MaxTotal,
           Show(size, current)
    PROVE  PagingInv'
<1>1. Highest(counted, size) \in 0 .. MaxTotal
  BY HighestTyped DEF PagingTypeOK
<1> DEFINE hi == Highest(counted, size)
           offset == Offset(size, hi, current)
<1>2. /\ shown' = [size |-> size, hi |-> hi, current |-> current,
                   commits |-> Rows(matching, size, offset)]
      /\ promised' = matching /\ UNCHANGED <<matching, counted>>
  BY DEF Show
<1>3. Rows(matching, size, offset) \subseteq 1 .. MaxTotal
  BY DEF Rows, PagingTypeOK
<1> HIDE DEF hi
<1>4. PagingTypeOK'
  BY <1>1, <1>2, <1>3 DEF PagingTypeOK, Page, hi
<1>5. ShownTracked'
  BY <1>2 DEF ShownTracked
<1> QED
  BY <1>4, <1>5 DEF PagingInv

\* The steps that show a page, and what they show.
ShowsPage ==
    \E size \in 1 .. MaxSize, current \in 0 .. MaxTotal : Show(size, current)

LEMMA RequestsShow ==
    ASSUME PagingTypeOK,
           \/ \E size \in 1 .. MaxSize : ShowNewest(size) \/ ChangeSize(size)
           \/ \E page \in 0 .. MaxTotal : GoTo(page)
           \/ FollowLink \/ FollowNewest
    PROVE  ShowsPage
<1>0. /\ shown.size \in 1 .. MaxSize /\ shown.hi \in 0 .. MaxTotal
      /\ shown.current \in 0 .. MaxTotal
  BY DEF PagingTypeOK, Page
<1>1. ASSUME NEW size \in 1 .. MaxSize, ShowNewest(size)
      PROVE  ShowsPage
  BY <1>1, HighestTyped DEF PagingTypeOK, ShowNewest, ShowsPage
<1>2. ASSUME NEW size \in 1 .. MaxSize, ChangeSize(size)
      PROVE  ShowsPage
  BY <1>0, <1>2 DEF ChangeSize, ShowsPage
<1>3. ASSUME NEW page \in 0 .. MaxTotal, GoTo(page)
      PROVE  ShowsPage
  BY <1>0, <1>3 DEF GoTo, ShowsPage
<1>4. CASE FollowLink
  <2>1. PICK page \in Links(shown.hi, shown.current) : Show(shown.size, page)
    BY <1>4 DEF FollowLink
  <2>2. page \in 0 .. MaxTotal
    BY <1>0, <2>1, PagingAssumption DEF Links, LINKS
  <2> QED
    BY <1>0, <2>1, <2>2 DEF ShowsPage
<1>5. CASE FollowNewest
  BY <1>0, <1>1, <1>5 DEF FollowNewest, ShowsPage
<1> QED
  BY <1>1, <1>2, <1>3, <1>4, <1>5

LEMMA PagingStep ==
    ASSUME PagingInv, [PagingNext]_pagingVars
    PROVE  PagingInv'
<1>0. PagingTypeOK /\ MaxTotal \in Nat
  BY PagingAssumption DEF PagingInv
<1>1. CASE ShowsPage
  BY <1>0, <1>1, ShowStep DEF ShowsPage
<1>2. ASSUME NEW k \in 1 .. MaxTotal, AddCommit(k)
      PROVE  PagingInv'
  BY <1>2 DEF AddCommit, PagingInv, PagingTypeOK, ShownTracked
<1>3. ASSUME NEW K \in SUBSET matching, RemoveCommits(K)
      PROVE  PagingInv'
  BY <1>3 DEF RemoveCommits, PagingInv, PagingTypeOK, ShownTracked
<1>4. CASE Recount
  <2>1. Cardinality(matching) \in 0 .. MaxTotal
    BY <1>0, PlaceProperties DEF PagingTypeOK
  <2> QED
    BY <1>4, <2>1 DEF Recount, PagingInv, PagingTypeOK, ShownTracked
<1>5. CASE UNCHANGED pagingVars
  BY <1>5 DEF pagingVars, PagingInv, PagingTypeOK, ShownTracked
<1> QED
  BY <1>0, <1>1, <1>2, <1>3, <1>4, <1>5, RequestsShow DEF PagingNext

LEMMA PagingInvariant == PagingSpec => []PagingInv
<1>1. PagingInit => PagingInv
  <2> SUFFICES ASSUME PagingInit
               PROVE  PagingInv
    OBVIOUS
  <2>1. PICK size \in 1 .. MaxSize :
          shown = [size |-> size, hi |-> Highest(counted, size),
                   current |-> Highest(counted, size), commits |-> Rows(matching, size, 0)]
    BY DEF PagingInit
  <2>2. /\ matching \in SUBSET (1 .. MaxTotal) /\ promised = matching
        /\ counted \in 0 .. MaxTotal /\ size \in Nat \ {0}
    BY PagingAssumption, PlaceProperties DEF PagingInit
  <2> DEFINE hi == Highest(counted, size)
  <2>3. hi \in 0 .. MaxTotal
    BY <2>2, HighestTyped
  <2>4. Offset(size, hi, hi) = 0
    BY <2>2, <2>3 DEF Offset
  <2>5. Rows(matching, size, 0) \subseteq 1 .. MaxTotal
    BY <2>2 DEF Rows
  <2> HIDE DEF hi
  <2>6. PagingTypeOK
    BY <2>1, <2>2, <2>3, <2>5 DEF PagingTypeOK, Page, hi
  <2>7. ShownTracked
    BY <2>1, <2>2, <2>4 DEF ShownTracked, hi
  <2> QED
    BY <2>6, <2>7 DEF PagingInv
<1>2. PagingInv /\ [PagingNext]_pagingVars => PagingInv'
  BY PagingStep
<1> QED
  BY <1>1, <1>2, PTL DEF PagingSpec

----------------------------------------------------------------------------
(* Theorems about the pages.                                                *)

\* Whatever page is asked for, the pages are within their types.
THEOREM PagingTypeCorrect == PagingSpec => []PagingTypeOK
<1>1. PagingInv => PagingTypeOK
  BY DEF PagingInv
<1> QED
  BY <1>1, PagingInvariant, PTL

\* The LIMIT and OFFSET of CommitFilter divide any number of commits into pages of any
\* size so that none is missing, none is twice and only the oldest page is not full.
THEOREM PagesPartition == PagingSpec => []EachCommitOnOnePage
<1>1. PagingInv => EachCommitOnOnePage
  <2> SUFFICES ASSUME PagingTypeOK, counted = Cardinality(matching), NEW size \in 1 .. MaxSize
               PROVE  LET hi == Highest(counted, size)
                          on(page) == Rows(matching, size, Offset(size, hi, page))
                      IN /\ \A k \in matching : \E page \in 0 .. hi : k \in on(page)
                         /\ \A p, q \in 0 .. hi : p # q => on(p) \cap on(q) = {}
                         /\ \A page \in 1 .. hi : Cardinality(on(page)) = size
    BY DEF PagingInv, EachCommitOnOnePage
  <2> DEFINE hi == Highest(counted, size)
             on(page) == Rows(matching, size, Offset(size, hi, page))
             places(page) == RowsOf(counted, size, Offset(size, hi, page))
  <2>1. counted \in Nat /\ size \in Nat \ {0} /\ matching \in SUBSET (1 .. MaxTotal)
    BY PagingAssumption DEF PagingTypeOK
  <2>2. hi \in Nat
    BY <2>1, HighestProperties
  <2>3. ASSUME NEW page
        PROVE  /\ on(page) = {k \in matching : Place(matching, k) \in places(page)}
               /\ places(page) \in SUBSET (1 .. counted)
    <3>1. on(page) = {k \in matching : Place(matching, k) \in places(page)}
      BY <2>1, RowsByPlace
    <3> QED
      BY <3>1 DEF RowsOf
  <2>4. ASSUME NEW k \in matching
        PROVE  \E page \in 0 .. hi : k \in on(page)
    <3>1. Place(matching, k) \in 1 .. counted
      BY <2>1, PlaceProperties
    <3>2. \E page \in 0 .. hi : Place(matching, k) \in places(page)
      BY <2>1, <3>1, OnSomePage
    <3> HIDE DEF on, places
    <3> QED
      BY <2>3, <3>2
  <2>5. ASSUME NEW p \in 0 .. hi, NEW q \in 0 .. hi, p # q
        PROVE  on(p) \cap on(q) = {}
    <3>1. places(p) \cap places(q) = {}
      <4>1. p < q => places(p) \cap places(q) = {}
        BY <2>1, <2>2, OnOnePage
      <4>2. q < p => places(q) \cap places(p) = {}
        BY <2>1, <2>2, OnOnePage
      <4>3. p < q \/ q < p
        BY <2>2, <2>5
      <4> QED
        BY <4>1, <4>2, <4>3
    <3> HIDE DEF on, places
    <3> QED
      BY <2>3, <3>1
  <2>6. ASSUME NEW page \in 1 .. hi
        PROVE  Cardinality(on(page)) = size
    <3>1. Cardinality(places(page)) = size
      BY <2>1, PageFull
    <3> HIDE DEF on, places
    <3> QED
      BY <2>1, <2>3, <3>1, PlacesCount
  <2> QED
    BY <2>4, <2>5, <2>6
<1> QED
  BY <1>1, PagingInvariant, PTL

\* The links that CommitFilter puts on a page, be it above the highest, lead to other
\* pages, the next ones among them, and to no empty list but that of page 0.
THEOREM LinksLeadSomewhere == PagingSpec => []LinksLead
<1>1. PagingInv => LinksLead
  <2> SUFFICES ASSUME PagingInv
               PROVE  LinksLead
    OBVIOUS
  <2> DEFINE links == Links(shown.hi, shown.current)
             last == IF shown.current > shown.hi THEN shown.current ELSE shown.hi
  <2>1. /\ shown.hi \in Nat /\ shown.current \in Nat /\ shown.size \in Nat \ {0} /\ last \in Nat
        /\ matching \in SUBSET (1 .. MaxTotal)
    BY PagingAssumption DEF PagingInv, PagingTypeOK, Page
  <2>2. /\ links \subseteq (0 .. last) \ {shown.current}
        /\ {shown.current - 1, shown.current + 1} \cap (0 .. last) \subseteq links
    <3>1. last = IF shown.current > shown.hi THEN shown.current ELSE shown.hi
      OBVIOUS
    <3> DEFINE hi == shown.hi
               current == shown.current
    <3>2. /\ hi \in Nat /\ current \in Nat /\ last \in Nat
          /\ last = IF current > hi THEN current ELSE hi
      BY <2>1, <3>1
    <3> HIDE DEF last, hi, current
    <3>3. /\ Links(hi, current) \subseteq (0 .. last) \ {current}
          /\ {current - 1, current + 1} \cap (0 .. last) \subseteq Links(hi, current)
      BY <3>2, LinksProperties
    <3> QED
      BY <3>3 DEF hi, current
  <2>3. ASSUME counted = Cardinality(matching), matching # {}, NEW page \in links \ {0}
        PROVE  Rows(matching, shown.size, Offset(shown.size, Highest(counted, shown.size), page)) # {}
    <3> DEFINE offset == Offset(shown.size, Highest(counted, shown.size), page)
    <3>1. page \in Nat \ {0}
      BY <2>1, <2>2, <2>3
    <3>2. counted \in Nat \ {0}
      <4>1. PICK k \in matching : Place(matching, k) \in 1 .. Cardinality(matching)
        BY <2>1, <2>3, PlaceProperties
      <4> QED
        BY <2>1, <2>3, <4>1, PlaceProperties
    <3>3. PICK n \in RowsOf(counted, shown.size, offset) : TRUE
      BY <2>1, <3>1, <3>2, PageNotEmpty
    <3> HIDE DEF offset
    <3>4. n \in 1 .. Cardinality(matching)
      BY <2>3, <3>3 DEF RowsOf
    <3>5. \E k \in matching : Place(matching, k) = n
      BY <2>1, <3>4, PlaceProperties
    <3>6. Rows(matching, shown.size, offset)
            = {k \in matching : Place(matching, k) \in RowsOf(Cardinality(matching), shown.size, offset)}
      BY <2>1, RowsByPlace
    <3> QED
      BY <2>3, <3>3, <3>5, <3>6 DEF offset
  <2> HIDE DEF links
  <2> QED
    BY <2>2, <2>3 DEF LinksLead, links
<1> QED
  BY <1>1, PagingInvariant, PTL

\* Going on to the next older page skips no commit that was there when the first was shown,
\* wherever others are added meanwhile, for any number of commits and any page size.
THEOREM NextPageSkipsNothing == PagingSpec => NothingSkipped
<1> DEFINE Follows ==
      shown'.current = shown.current - 1 /\ shown'.hi = shown.hi /\ shown'.size = shown.size
      => \A newer \in shown.commits, older \in shown'.commits :
             promised \cap (older .. newer) \subseteq shown.commits \cup shown'.commits
<1>1. ASSUME PagingInv, [PagingNext]_pagingVars
      PROVE  Follows
  <2> SUFFICES ASSUME shown'.current = shown.current - 1, shown'.hi = shown.hi,
                      shown'.size = shown.size,
                      NEW newer \in shown.commits, NEW older \in shown'.commits,
                      NEW k \in promised, k \in older .. newer, k \notin shown.commits
               PROVE  k \in shown'.commits
    OBVIOUS
  <2> DEFINE size == shown.size
             a == Offset(shown.size, shown.hi, shown.current)
             b == Offset(shown'.size, shown'.hi, shown'.current)
             Skipped(offset) == IF offset < 0 THEN 0 ELSE offset
  <2>1. /\ PagingTypeOK /\ shown.size \in Nat \ {0}
        /\ shown.hi \in Nat /\ shown.current \in Nat
        /\ matching \in SUBSET (1 .. MaxTotal) /\ promised \in SUBSET matching
        /\ shown.commits \in SUBSET (1 .. MaxTotal)
    BY <1>1, PagingAssumption DEF PagingInv, PagingTypeOK, Page
  <2>2. ShowsPage
    <3>1. shown'.current # shown.current
      BY <2>1
    <3> QED
      BY <1>1, <2>1, <3>1, RequestsShow
      DEF PagingNext, AddCommit, RemoveCommits, Recount, pagingVars
  <2>3. shown'.commits = Rows(matching, shown'.size, b)
    BY <2>2 DEF ShowsPage, Show
  <2>4. shown.commits = Rows(promised, size, a)
    BY <1>1 DEF PagingInv, ShownTracked
  <2>5. a \in Int /\ b = a + size /\ Skipped(a) \in Nat /\ Skipped(b) \in Nat /\ Skipped(b) <= Skipped(a) + size
    <3>1. a = size * (shown.hi - shown.current) /\ b = size * (shown.hi - (shown.current - 1))
      BY <2>1 DEF Offset
    <3>2. size \in Nat \ {0} /\ shown.hi - shown.current \in Int
      BY <2>1
    <3>3. size * (shown.hi - (shown.current - 1)) = size * (shown.hi - shown.current) + size
      BY <2>1, <3>2
    <3>4. size * (shown.hi - shown.current) \in Int
      BY <3>2
    <3> HIDE DEF a, b, size
    <3> QED
      BY <3>1, <3>2, <3>3, <3>4
  <2>6. ASSUME NEW C, NEW c \in C, NEW offset
        PROVE  c \in Rows(C, size, offset) <=>
                  Newer(C, c) \in Skipped(offset) .. Skipped(offset) + size - 1
    BY DEF Rows, Newer, Place, UpTo
  <2>7. newer \in promised /\ older \in matching /\ k \in matching
    BY <2>1, <2>3, <2>4 DEF Rows
  <2>8. k \in Int /\ newer \in Int /\ older \in Int /\ older <= k /\ k <= newer
    BY <2>1, <2>7
  <2>9. /\ Newer(promised, newer) <= Newer(promised, k)
        /\ Newer(promised, k) <= Newer(matching, k)
        /\ Newer(matching, k) <= Newer(matching, older)
        /\ Newer(promised, newer) \in Int /\ Newer(promised, k) \in Int
        /\ Newer(matching, k) \in Int /\ Newer(matching, older) \in Int
    BY <2>1, <2>8, NewerGrows
  <2>10. /\ Newer(promised, newer) \in Skipped(a) .. Skipped(a) + size - 1
         /\ Newer(promised, k) \notin Skipped(a) .. Skipped(a) + size - 1
         /\ Newer(matching, older) \in Skipped(b) .. Skipped(b) + size - 1
    BY <2>3, <2>4, <2>6, <2>7
  <2> HIDE DEF size, a, b, Skipped
  <2>11. Newer(matching, k) \in Skipped(b) .. Skipped(b) + size - 1
    BY <2>1, <2>5, <2>9, <2>10 DEF size
  <2> QED
    BY <2>3, <2>6, <2>7, <2>11 DEF size
<1>2. PagingInv /\ [PagingNext]_pagingVars => [Follows]_pagingVars
  BY <1>1
<1> QED
  BY <1>2, PagingInvariant, PTL DEF PagingSpec, NothingSkipped

----------------------------------------------------------------------------
(* Status. *)

Sums == [ok : Nat, fail : Nat, err : Nat]
Plus(r, t) == [ok |-> t.ok + r.row.count.ok, fail |-> t.fail + r.row.count.fail,
               err |-> t.err + r.row.count.err]

\* The sum over s, by its values h at the smaller sets.
SumStep(h, s) == IF s = {} THEN Zero
                 ELSE Plus(CHOOSE x \in s : TRUE, h[s \ {CHOOSE x \in s : TRUE}])

LEMMA ProperSubset ==
    ASSUME NEW rs, IsFiniteSet(rs), NEW s \in SUBSET rs
    PROVE  /\ IsFiniteSet(s) /\ Cardinality(s) \in Nat
           /\ Cardinality(s) = 0 <=> s = {}
           /\ s # {} => /\ (CHOOSE x \in s : TRUE) \in s
                        /\ s \ {CHOOSE x \in s : TRUE} \in SUBSET rs
                        /\ Cardinality(s \ {CHOOSE x \in s : TRUE}) = Cardinality(s) - 1
<1>1. IsFiniteSet(s) /\ Cardinality(s) \in Nat /\ (Cardinality(s) = 0 <=> s = {})
  BY FS_Subset, FS_CardinalityType, FS_EmptySet
<1>2. ASSUME s # {}
      PROVE  /\ (CHOOSE x \in s : TRUE) \in s
             /\ Cardinality(s \ {CHOOSE x \in s : TRUE}) = Cardinality(s) - 1
  BY <1>1, <1>2, FS_RemoveElement
<1> QED
  BY <1>1, <1>2

\* The sums over sets of at most n rows exist, for each n: so the function Total chooses does.
LEMMA SumsExist ==
    ASSUME NEW rs, IsFiniteSet(rs)
    PROVE  \E h : h = [s \in SUBSET rs |-> SumStep(h, s)]
<1> DEFINE UpToSize(h, n) == \A s \in SUBSET rs : Cardinality(s) <= n => h[s] = SumStep(h, s)
           G == {n \in Nat : \E h : UpToSize(h, n)}
<1>1. 0 \in G
  <2> DEFINE h == [s \in SUBSET rs |-> Zero]
  <2>1. \A s \in SUBSET rs : Cardinality(s) <= 0 => s = {}
    <3>1. \A s \in SUBSET rs : Cardinality(s) \in Nat /\ (Cardinality(s) = 0 <=> s = {})
      BY ProperSubset
    <3> QED
      BY <3>1
  <2>2. UpToSize(h, 0)
    BY <2>1 DEF SumStep
  <2> QED
    BY <2>2
<1>2. ASSUME NEW n \in Nat, n \in G
      PROVE  n + 1 \in G
  <2>1. PICK h : UpToSize(h, n)
    BY <1>2
  <2> DEFINE k == [s \in SUBSET rs |-> IF Cardinality(s) <= n THEN h[s] ELSE SumStep(h, s)]
  <2>2. ASSUME NEW s \in SUBSET rs, Cardinality(s) <= n + 1
        PROVE  k[s] = SumStep(k, s)
    <3>1. k[s] = SumStep(h, s)
      BY <2>1
    <3>2. CASE s = {}
      BY <3>1, <3>2 DEF SumStep
    <3>3. CASE s # {}
      <4> DEFINE smaller == s \ {CHOOSE x \in s : TRUE}
      <4>1. smaller \in SUBSET rs /\ Cardinality(smaller) <= n
        <5>1. Cardinality(s) \in Nat /\ Cardinality(smaller) = Cardinality(s) - 1
          BY <3>3, ProperSubset
        <5> QED
          BY <2>2, <3>3, <5>1, ProperSubset
      <4> HIDE DEF smaller
      <4>2. k[smaller] = h[smaller]
        BY <4>1
      <4> QED
        BY <3>1, <3>3, <4>2 DEF SumStep, smaller
    <3> QED
      BY <3>2, <3>3
  <2> HIDE DEF k
  <2>3. UpToSize(k, n + 1)
    BY <2>2
  <2> QED
    BY <2>3
<1>3. Nat \subseteq G
  <2> HIDE DEF G
  <2> QED
    BY <1>1, <1>2, Induction
<1>4. PICK h : UpToSize(h, Cardinality(rs))
  <2>1. Cardinality(rs) \in Nat
    BY ProperSubset
  <2> QED
    BY <1>3, <2>1
<1> DEFINE k == [s \in SUBSET rs |-> h[s]]
<1>5. ASSUME NEW s \in SUBSET rs
      PROVE  k[s] = SumStep(k, s)
  <2>1. Cardinality(s) <= Cardinality(rs)
    BY FS_Subset
  <2>2. h[s] = SumStep(h, s)
    BY <1>4, <2>1
  <2>3. SumStep(k, s) = SumStep(h, s)
    <3>1. s # {} => s \ {CHOOSE x \in s : TRUE} \in SUBSET rs
      BY ProperSubset
    <3> QED
      BY <3>1 DEF SumStep
  <2> QED
    BY <2>2, <2>3
<1>6. k = [s \in SUBSET rs |-> SumStep(k, s)]
  BY <1>5
<1> QED
  BY <1>6

LEMMA TotalIsSum ==
    ASSUME NEW rs, IsFiniteSet(rs)
    PROVE  \E h : h = [s \in SUBSET rs |-> SumStep(h, s)] /\ Total(rs) = h[rs]
<1> DEFINE P(h) == h = [s \in SUBSET rs |-> SumStep(h, s)]
           iter == CHOOSE h : P(h)
<1>1. P(iter)
  <2>1. \E h : P(h)
    BY SumsExist
  <2> HIDE DEF P
  <2> QED
    BY <2>1
<1>2. Total(rs) = iter[rs]
  BY DEF Total, FoldSet, MapThenFoldSet, SumStep, Plus
<1> QED
  BY <1>1, <1>2

Countable(rs) == \A r \in rs : r.row.count \in CountRecord

\* A sum is at least each of its parts, and 0 only if they all are.
SumOf(t, s) ==
    /\ t \in Sums
    /\ \A r \in s : /\ r.row.count.ok <= t.ok /\ r.row.count.fail <= t.fail
                    /\ r.row.count.err <= t.err
    /\ (\A r \in s : r.row.count.ok = 0) => t.ok = 0
    /\ (\A r \in s : r.row.count.fail = 0) => t.fail = 0
    /\ (\A r \in s : r.row.count.err = 0) => t.err = 0

LEMMA TotalProperties ==
    ASSUME NEW rs, IsFiniteSet(rs), Countable(rs)
    PROVE  SumOf(Total(rs), rs)
<1>1. PICK h : h = [s \in SUBSET rs |-> SumStep(h, s)] /\ Total(rs) = h[rs]
  BY TotalIsSum
<1>2. \A s \in SUBSET rs : h[s] = SumStep(h, s)
  BY <1>1
<1> DEFINE B == {Cardinality(s) : s \in {u \in SUBSET rs : ~ SumOf(h[u], u)}}
<1>3. B \in SUBSET Nat
  <2>1. \A s \in SUBSET rs : Cardinality(s) \in Nat
    BY ProperSubset
  <2> QED
    BY <2>1
<1>4. SUFFICES ASSUME B # {} PROVE FALSE
  BY <1>1
<1>5. PICK b \in B : \A n \in B : b <= n
  <2> HIDE DEF B
  <2> QED
    BY <1>3, <1>4, LeastNumber
<1>6. PICK s \in SUBSET rs : ~ SumOf(h[s], s) /\ Cardinality(s) = b
  BY <1>5
<1>7. CASE s = {}
  BY <1>2, <1>6, <1>7 DEF SumStep, SumOf, Sums, Zero
<1>8. CASE s # {}
  <2> DEFINE x == CHOOSE y \in s : TRUE
             v == s \ {x}
  <2>1. x \in s /\ v \in SUBSET rs /\ Cardinality(v) < b /\ s = v \cup {x}
    BY <1>6, <1>8, ProperSubset
  <2>2. h[s] = Plus(x, h[v])
    BY <1>2, <1>8 DEF SumStep
  <2> HIDE DEF x, v
  <2>3. SumOf(h[v], v)
    <3>1. Cardinality(v) \notin B
      BY <1>3, <1>5, <2>1
    <3> QED
      BY <2>1, <3>1
  <2> HIDE DEF B
  <2>4. /\ x.row.count.ok \in Nat /\ x.row.count.fail \in Nat /\ x.row.count.err \in Nat
        /\ \A r \in v : r.row.count.ok \in Nat /\ r.row.count.fail \in Nat
                        /\ r.row.count.err \in Nat
    BY <2>1, TestAssumption DEF Countable, CountRecord
  <2>5. /\ h[v].ok \in Nat /\ h[v].fail \in Nat /\ h[v].err \in Nat
        /\ h[s].ok = h[v].ok + x.row.count.ok /\ h[s].fail = h[v].fail + x.row.count.fail
        /\ h[s].err = h[v].err + x.row.count.err /\ h[s] \in Sums
    BY <2>2, <2>3, <2>4 DEF Plus, SumOf, Sums
  <2>6. \A r \in s : /\ r.row.count.ok <= h[s].ok /\ r.row.count.fail <= h[s].fail
                     /\ r.row.count.err <= h[s].err
    <3>1. \A r \in v : /\ r.row.count.ok <= h[s].ok /\ r.row.count.fail <= h[s].fail
                       /\ r.row.count.err <= h[s].err
      BY <2>3, <2>4, <2>5 DEF SumOf
    <3>2. /\ x.row.count.ok <= h[s].ok /\ x.row.count.fail <= h[s].fail
          /\ x.row.count.err <= h[s].err
      BY <2>4, <2>5
    <3> QED
      BY <2>1, <3>1, <3>2
  <2>7. /\ (\A r \in s : r.row.count.ok = 0) => h[s].ok = 0
        /\ (\A r \in s : r.row.count.fail = 0) => h[s].fail = 0
        /\ (\A r \in s : r.row.count.err = 0) => h[s].err = 0
    BY <2>1, <2>3, <2>4, <2>5 DEF SumOf
  <2> QED
    BY <1>6, <2>5, <2>6, <2>7 DEF SumOf
<1> QED
  BY <1>7, <1>8

----------------------------------------------------------------------------
(* What is shown of a set of rows.                                          *)

LEMMA QuotientBounds ==
    ASSUME NEW k \in Nat, NEW n \in Nat \ {0}, NEW b \in Nat
    PROVE  /\ k \div n \in Nat
           /\ b <= k \div n => n * b <= k
           /\ k < n * (b + 1) => k \div n <= b
           /\ n * b <= k => b <= k \div n
<1> DEFINE q == k \div n
<1>1. q \in Nat /\ k % n \in 0 .. (n - 1) /\ k = n * q + (k % n)
  BY DivisionByPositive
<1>2. n * q \in Int /\ n * b \in Int /\ n * (b + 1) \in Int /\ k % n \in Int
  BY <1>1
<1> HIDE DEF q
<1>3. n * q <= k /\ k < n * q + n
  BY <1>1, <1>2
<1>4. (q < b => n * q + n <= n * b) /\ (b < q => n * b + n <= n * q)
  BY <1>1, MultiplesApart
<1>5. n * (b + 1) = n * b + n
  OBVIOUS
<1>6. b <= q => n * b <= k
  <2>1. CASE b = q
    BY <1>1, <1>3, <2>1
  <2>2. CASE b < q
    BY <1>1, <1>2, <1>3, <1>4, <2>2
  <2> QED
    BY <1>1, <2>1, <2>2
<1>7. k < n * (b + 1) => q <= b
  BY <1>1, <1>2, <1>3, <1>4, <1>5
<1>8. n * b <= k => b <= q
  BY <1>1, <1>2, <1>3, <1>4
<1> QED
  BY <1>1, <1>6, <1>7, <1>8 DEF q

\* The rate is 100 % if all tests are ok, and if it is 100 %, nearly all are.
LEMMA RateProperties ==
    ASSUME NEW c \in Sums, NEW status
    PROVE  /\ SuccessRate(status, c) \in Rates
           /\ (status = "done" /\ c.ok > 0 /\ c.fail = 0 /\ c.err = 0) =>
                 SuccessRate(status, c) = 10000
           /\ SuccessRate(status, c) = 10000 => 19999 * (c.fail + c.err) <= c.ok
<1> DEFINE all == c.ok + c.fail + c.err
           k == 20000 * c.ok + all
<1>1. c.ok \in Nat /\ c.fail \in Nat /\ c.err \in Nat
  BY DEF Sums
<1>2. CASE status # "done" \/ all = 0
  <2>1. SuccessRate(status, c) = 0 - 1
    BY <1>2 DEF SuccessRate
  <2>2. ~ (status = "done" /\ c.ok > 0)
    BY <1>1, <1>2
  <2> QED
    BY <2>1, <2>2 DEF Rates
<1>3. CASE ~ (status # "done" \/ all = 0)
  <2>1. SuccessRate(status, c) = k \div (2 * all)
    BY <1>3 DEF SuccessRate
  <2>2. all \in Nat \ {0} /\ k \in Nat /\ 2 * all \in Nat \ {0}
    BY <1>1, <1>3
  <2> DEFINE q == k \div (2 * all)
  <2>3. /\ q \in Nat
        /\ 10000 <= q => 2 * all * 10000 <= k
        /\ k < 2 * all * (10000 + 1) => q <= 10000
        /\ 2 * all * 10000 <= k => 10000 <= q
    BY <2>2, QuotientBounds
  <2> HIDE DEF q
  <2>4. k < 2 * all * (10000 + 1)
    BY <1>1, <2>2
  <2>5. c.fail = 0 /\ c.err = 0 => 2 * all * 10000 <= k
    BY <1>1
  <2>6. 2 * all * 10000 <= k => 19999 * (c.fail + c.err) <= c.ok
    BY <1>1
  <2> HIDE DEF k, all
  <2>7. /\ q <= 10000 /\ q \in 0 .. 10000
        /\ c.fail = 0 /\ c.err = 0 => q = 10000
        /\ q = 10000 => 19999 * (c.fail + c.err) <= c.ok
    BY <2>3, <2>4, <2>5, <2>6
  <2>8. SuccessRate(status, c) = q
    BY <2>1 DEF q
  <2> QED
    BY <2>7, <2>8 DEF Rates
<1> QED
  BY <1>2, <1>3

\* The page shows what SetComputedAttributes computes from rows of the table and from the
\* STATUS of one of them, or from the fixed one of a branch.
Shows(v, rs, status) ==
    /\ v = [of |-> rs, status |-> status, rate |-> SuccessRate(status, Total(rs)),
            text |-> ComputeStatus(status, Total(rs))]
    /\ IsFiniteSet(rs) /\ Countable(rs)
    /\ status \in {"inprogress", "done", "none"}
    /\ status = "inprogress" => \E r \in rs : r.row.status = "inprogress"
    /\ status = "none" => rs = {}

StatusInv ==
    /\ results \in [Builders -> ResultRow \cup {NoResult}]
    /\ view # NoResult => \E rs, status : Shows(view, rs, status)

LEMMA ExistingFinite ==
    ASSUME results \in [Builders -> ResultRow \cup {NoResult}]
    PROVE  /\ IsFiniteSet(Existing) /\ Countable(Existing)
           /\ \A r \in Existing : r.row.status \in {"inprogress", "done"}
<1> DEFINE D == {b \in Builders : results[b] # NoResult}
           f == [b \in D |-> [by |-> b, row |-> results[b]]]
<1>1. IsFiniteSet(D)
  BY TestAssumption, FS_Subset
<1>2. f \in Surjection(D, Existing)
  BY DEF Surjection, Existing
<1>3. IsFiniteSet(Existing)
  BY <1>1, <1>2, FS_Surjection
<1>4. \A r \in Existing : r.row \in ResultRow
  BY DEF Existing
<1> QED
  BY <1>3, <1>4 DEF Countable, ResultRow

LEMMA StatusInvariant == StatusSpec => []StatusInv
<1>1. StatusInit => StatusInv
  BY DEF StatusInit, StatusInv
<1>2. StatusInv /\ [StatusNext]_statusVars => StatusInv'
  <2> SUFFICES ASSUME StatusInv, [StatusNext]_statusVars
               PROVE  StatusInv'
    OBVIOUS
  <2>0. /\ IsFiniteSet(Existing) /\ Countable(Existing)
        /\ \A r \in Existing : r.row.status \in {"inprogress", "done"}
    BY ExistingFinite DEF StatusInv
  <2>1. CASE ShowResult
    <3>1. PICK r \in Existing : SetComputedAttributes({r}, r.row.status)
      BY <2>1 DEF ShowResult
    <3>2. IsFiniteSet({r}) /\ Countable({r})
      BY <2>0, FS_Singleton DEF Countable
    <3>3. Shows(view', {r}, r.row.status)
      BY <2>0, <3>1, <3>2 DEF Shows, SetComputedAttributes
    <3> QED
      BY <2>1, <3>3 DEF ShowResult, StatusInv
  <2>2. CASE ShowCommit
    <3>1. CASE \E r \in Existing : SetComputedAttributes(Existing, r.row.status)
      <4>1. PICK r \in Existing : SetComputedAttributes(Existing, r.row.status)
        BY <3>1
      <4>2. Shows(view', Existing, r.row.status)
        BY <2>0, <4>1 DEF Shows, SetComputedAttributes
      <4> QED
        BY <2>2, <4>2 DEF ShowCommit, StatusInv
    <3>2. CASE Existing = {} /\ SetComputedAttributes({}, "none")
      <4>1. Shows(view', {}, "none")
        BY <2>0, <3>2 DEF Shows, SetComputedAttributes
      <4> QED
        BY <2>2, <4>1 DEF ShowCommit, StatusInv
    <3> QED
      BY <2>2, <3>1, <3>2 DEF ShowCommit
  <2>3. CASE ShowBranch
    <3>1. Shows(view', Existing, "done")
      BY <2>0, <2>3 DEF ShowBranch, Shows, SetComputedAttributes
    <3> QED
      BY <2>3, <3>1 DEF ShowBranch, StatusInv
  <2>4. CASE \E b \in Builders : Build(b)
    BY <2>4 DEF Build, StatusInv
  <2>5. CASE UNCHANGED statusVars
    BY <2>5 DEF statusVars, StatusInv
  <2> QED
    BY <2>1, <2>2, <2>3, <2>4, <2>5 DEF StatusNext
<1> QED
  BY <1>1, <1>2, PTL DEF StatusSpec

----------------------------------------------------------------------------

\* The rows have their types, and SuccessRate is between 0 and 100 %, or none.
THEOREM StatusTypeCorrect == StatusSpec => []StatusTypeOK
<1>1. ASSUME StatusInv
      PROVE  StatusTypeOK
  <2>1. ASSUME view # NoResult
        PROVE  view.rate \in Rates
    <3>1. PICK rs, status : Shows(view, rs, status)
      BY <1>1, <2>1 DEF StatusInv
    <3>2. Total(rs) \in Sums
      BY <3>1, TotalProperties DEF Shows, SumOf
    <3>3. view.rate = SuccessRate(status, Total(rs))
      BY <3>1 DEF Shows
    <3>4. SuccessRate(status, Total(rs)) \in Rates
      BY <3>2, RateProperties
    <3> QED
      BY <3>3, <3>4
  <2>2. results \in [Builders -> ResultRow \cup {NoResult}]
    BY <1>1 DEF StatusInv
  <2> QED
    BY <2>1, <2>2 DEF StatusTypeOK
<1> QED
  BY <1>1, StatusInvariant, PTL

\* Whatever row the database picks for the ungrouped STATUS column, and however many rows
\* are summed: "OK" is shown beside rows with a test and without failure or error only,
\* with 100 %; and 100 % beside a sum that is ok but for one test in 20000.
THEOREM OKIsTrue == StatusSpec => []NoFalseOK
<1>1. ASSUME StatusInv
      PROVE  NoFalseOK
  <2> SUFFICES ASSUME view # NoResult
               PROVE  /\ view.text[1] = "OK" =>
                            /\ \E r \in view.of : r.row.count.ok > 0
                            /\ \A r \in view.of : r.row.count.fail = 0 /\ r.row.count.err = 0
                            /\ view.rate = 10000
                      /\ view.rate = 10000 =>
                            LET t == Total(view.of) IN 19999 * (t.fail + t.err) <= t.ok
    BY DEF NoFalseOK
  <2>1. PICK rs, status : Shows(view, rs, status)
    BY <1>1 DEF StatusInv
  <2> DEFINE t == Total(rs)
  <2>2. SumOf(t, rs)
    BY <2>1, TotalProperties DEF Shows
  <2>3. /\ view.of = rs /\ view.rate = SuccessRate(status, t)
        /\ view.text = ComputeStatus(status, t) /\ Countable(rs)
    BY <2>1 DEF Shows
  <2> HIDE DEF t
  <2>4. t \in Sums /\ t.ok \in Nat /\ t.fail \in Nat /\ t.err \in Nat
    BY <2>2 DEF SumOf, Sums
  <2>5. \A r \in rs : /\ r.row.count.ok \in Nat /\ r.row.count.fail \in Nat
                       /\ r.row.count.err \in Nat
    BY <2>3, TestAssumption DEF Countable, CountRecord
  <2>6. ASSUME view.text[1] = "OK"
        PROVE  status = "done" /\ t.ok > 0 /\ t.fail = 0 /\ t.err = 0
    <3>1. CASE status = "inprogress"
      <4>1. view.text = <<"In_progress", 0, 0>>
        BY <2>3, <3>1 DEF ComputeStatus
      <4> QED
        BY <2>6, <4>1
    <3>2. CASE status # "inprogress" /\ t.ok + t.err + t.fail = 0
      <4>1. view.text = <<"No_results", 0, 0>>
        BY <2>3, <3>2 DEF ComputeStatus
      <4> QED
        BY <2>6, <4>1
    <3>3. CASE t.ok + t.err + t.fail # 0 /\ status # "inprogress" /\ status # "done"
      <4>1. view.text = <<"empty", 0, 0>>
        BY <2>3, <3>3 DEF ComputeStatus
      <4> QED
        BY <2>6, <4>1
    <3>4. CASE /\ t.ok + t.err + t.fail # 0 /\ status = "done"
               /\ t.err > 0 \/ t.fail > 0
      <4>1. view.text = <<"counts", t.err, t.fail>>
        BY <2>3, <3>4 DEF ComputeStatus
      <4> QED
        BY <2>6, <4>1
    <3>5. CASE /\ t.ok + t.err + t.fail # 0 /\ status = "done"
               /\ ~ (t.err > 0 \/ t.fail > 0)
      BY <2>4, <3>5
    <3> QED
      BY <3>1, <3>2, <3>3, <3>4, <3>5
  <2>7. t.ok > 0 => \E r \in rs : r.row.count.ok > 0
    BY <2>2, <2>4, <2>5 DEF SumOf
  <2>8. t.fail = 0 /\ t.err = 0 => \A r \in rs : r.row.count.fail = 0 /\ r.row.count.err = 0
    BY <2>2, <2>4, <2>5 DEF SumOf
  <2> QED
    BY <2>3, <2>4, <2>6, <2>7, <2>8, RateProperties DEF t
<1> QED
  BY <1>1, StatusInvariant, PTL

\* No failure or error of a row is lost in the sum or in the text, unless a build of the
\* commit is in progress and the database picked its STATUS.
THEOREM FailuresShow == StatusSpec => []NothingHidden
<1>1. ASSUME StatusInv
      PROVE  NothingHidden
  <2> SUFFICES ASSUME view # NoResult, NEW r \in view.of,
                      r.row.count.fail > 0 \/ r.row.count.err > 0
               PROVE  \/ view.text[1] = "counts" /\ view.text[2] + view.text[3] > 0
                      \/ /\ view.text[1] = "In_progress"
                         /\ \E q \in view.of : q.row.status = "inprogress"
    BY DEF NothingHidden
  <2>1. PICK rs, status : Shows(view, rs, status)
    BY <1>1 DEF StatusInv
  <2> DEFINE t == Total(rs)
  <2>2. SumOf(t, rs)
    BY <2>1, TotalProperties DEF Shows
  <2>3. /\ view.of = rs /\ view.text = ComputeStatus(status, t) /\ Countable(rs)
        /\ status \in {"inprogress", "done", "none"}
        /\ status = "inprogress" => \E q \in rs : q.row.status = "inprogress"
        /\ status = "none" => rs = {}
    BY <2>1 DEF Shows
  <2> HIDE DEF t
  <2>4. t.ok \in Nat /\ t.fail \in Nat /\ t.err \in Nat
    BY <2>2 DEF SumOf, Sums
  <2>5. /\ r.row.count.fail \in Nat /\ r.row.count.err \in Nat
        /\ r.row.count.fail <= t.fail /\ r.row.count.err <= t.err
    BY <2>2, <2>3, TestAssumption DEF Countable, CountRecord, SumOf
  <2>6. t.fail > 0 \/ t.err > 0
    BY <2>4, <2>5
  <2>7. t.ok + t.err + t.fail # 0 /\ t.err + t.fail > 0
    BY <2>4, <2>6
  <2>8. CASE status = "inprogress"
    <3>1. view.text = <<"In_progress", 0, 0>>
      BY <2>3, <2>8 DEF ComputeStatus
    <3> QED
      BY <2>3, <2>8, <3>1
  <2>9. CASE status = "done"
    <3>1. view.text = <<"counts", t.err, t.fail>>
      BY <2>3, <2>6, <2>7, <2>9 DEF ComputeStatus
    <3> QED
      BY <2>7, <3>1
  <2> QED
    BY <2>3, <2>8, <2>9
<1> QED
  BY <1>1, StatusInvariant, PTL

=============================================================================
