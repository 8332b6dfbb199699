---------------------------- MODULE FilterCache ----------------------------
(***************************************************************************)
(* CommitFilter::cache, the counts of the commits that match a filter,     *)
(* which paging needs on every page: FindInCache and commitcount of        *)
(* src/src/Watchdog/Server/Util.cpp.                                       *)
(*                                                                         *)
(* The cache is one static Vector for all worker threads.  A call searches *)
(* it, counts in the database if it has to, stores the entry and reads it  *)
(* back by its index; nothing keeps other threads out between these steps, *)
(* each of which is taken to be atomic here.                               *)
(*                                                                         *)
(* STAMP and USED are kept as ages, counted up to one past Expiration.     *)
(***************************************************************************)
EXTENDS Integers, Sequences, Selection

CONSTANTS
    Threads,
    Filters,     \* values of GetHash
    NoFilter,
    Size,        \* Ini::filter_cache_size
    Expiration,  \* Ini::filter_cache_expiration
    MaxCache     \* bound on the length of the cache

ASSUME SizeAssumption == Size \in Nat \ {0} /\ Expiration \in Nat /\ MaxCache \in Nat
ASSUME FilterAssumption == NoFilter \notin Filters

VARIABLES cache, thread

vars == <<cache, thread>>

Ages == 0 .. (Expiration + 1)

\* count is that of filter hash at the time of stamp, so it needs no field of its own.
CacheEntry == [hash : Filters, stamp : Ages, used : Ages]

\* pc: outside FindInCache, in the constructor of the new entry, or at cache[p].count.
\* slot is the index to store to or to read, 0 to add an entry; age is that of the call.
Thread == [pc     : {"out", "count", "read"},
           filter : Filters \cup {NoFilter},
           slot   : Nat,
           age    : Ages]

Out == [pc |-> "out", filter |-> NoFilter, slot |-> 0, age |-> 0]

----------------------------------------------------------------------------
(* Faulty variants of operators defined below, kept to show that the        *)
(* properties notice such a fault.                                          *)

FullLater == Len(cache) > Size

HitsUnexpired(f) == {i \in DOMAIN cache : cache[i].hash = f /\ cache[i].stamp <= Expiration}

ExpiredLater(e) == e.stamp > Expiration + 1

MostRecentlyUsed == CHOOSE i \in DOMAIN cache : \A j \in DOMAIN cache : cache[i].used <= cache[j].used

IndexBefore(s) == Len(s) - 1

----------------------------------------------------------------------------

Expired(e) == e.stamp > Expiration

\* The only entry the search can find: it stops at the first one.
Hits(f) == {i \in DOMAIN cache : cache[i].hash = f}

First(S) == CHOOSE i \in S : \A j \in S : i <= j

Full == Len(cache) = Size

\* The first of the entries whose last use is the longest ago.
LeastRecentlyUsed ==
    First({i \in DOMAIN cache : \A j \in DOMAIN cache : cache[j].used <= cache[i].used})

Unexpired == {i \in DOMAIN cache : ~Expired(cache[i])}

\* Go on to the constructor of an entry that will be stored at slot, or added.
Count(t, f, slot) ==
    thread' = [thread EXCEPT ![t] = [pc |-> "count", filter |-> f, slot |-> slot, age |-> 0]]

Read(t, f, slot, age) ==
    thread' = [thread EXCEPT ![t] = [pc |-> "read", filter |-> f, slot |-> slot, age |-> age]]

\* FindInCache, the entry is there and fresh.
FindFresh(t, f) ==
    LET i == First(Hits(f)) IN
    /\ thread[t].pc = "out"
    /\ Hits(f) # {}
    /\ ~Expired(cache[i])
    /\ cache' = [cache EXCEPT ![i].used = 0]
    /\ Read(t, f, i, 0)

\* It is there, but expired.
FindExpired(t, f) ==
    LET i == First(Hits(f)) IN
    /\ thread[t].pc = "out"
    /\ Hits(f) # {}
    /\ Expired(cache[i])
    /\ Count(t, f, i)
    /\ UNCHANGED cache

\* It is not there: make room if the cache is full, first by dropping what expired.
FindNothing(t, f) ==
    /\ thread[t].pc = "out"
    /\ Hits(f) = {}
    /\ IF Full /\ Unexpired = DOMAIN cache
       THEN Count(t, f, LeastRecentlyUsed) /\ UNCHANGED cache
       ELSE Count(t, f, 0) /\ cache' = IF Full THEN Selected(cache, Unexpired) ELSE cache

\* Where Vector::Add put the entry: GetCount()-1.
LastIndex(s) == Len(s)

\* The entry is counted and stored.
Store(t) ==
    LET new == [hash |-> thread[t].filter, stamp |-> thread[t].age, used |-> thread[t].age]
        slot == thread[t].slot
    IN
    /\ thread[t].pc = "count"
    /\ IF slot = 0
       THEN /\ Len(cache) < MaxCache
            /\ cache' = Append(cache, new)
            /\ Read(t, thread[t].filter, LastIndex(cache'), thread[t].age)
       ELSE /\ slot \in DOMAIN cache
            /\ cache' = [cache EXCEPT ![slot] = new]
            /\ Read(t, thread[t].filter, slot, thread[t].age)

\* commitcount returns cache[p].count.
Return(t) ==
    /\ thread[t].pc = "read"
    /\ thread' = [thread EXCEPT ![t] = Out]
    /\ UNCHANGED cache

Aged(age) == IF age > Expiration THEN age ELSE age + 1

Tick ==
    /\ cache' = [i \in DOMAIN cache |-> [cache[i] EXCEPT !.stamp = Aged(@), !.used = Aged(@)]]
    /\ thread' = [t \in Threads |->
                     IF thread[t].pc = "out" THEN Out ELSE [thread[t] EXCEPT !.age = Aged(@)]]

Init ==
    /\ cache = <<>>
    /\ thread = [t \in Threads |-> Out]

Next ==
    \/ \E t \in Threads, f \in Filters : FindFresh(t, f) \/ FindExpired(t, f) \/ FindNothing(t, f)
    \/ \E t \in Threads : Store(t) \/ Return(t)
    \/ Tick

Spec == Init /\ [][Next]_vars

----------------------------------------------------------------------------
(* Properties.                                                              *)

\* Every variable has its type, and no entry was last used before it was counted.
TypeOK ==
    /\ cache \in Seq(CacheEntry)
    /\ \A i \in DOMAIN cache : cache[i].used <= cache[i].stamp
    /\ thread \in [Threads -> Thread]

\* The cache keeps to its size ("Maximum number of items in filter/pagination cache").
CacheBounded == Len(cache) <= Size

\* No filter has two entries, of which one would be refreshed and the other found.
OneEntryPerFilter == \A i, j \in DOMAIN cache : cache[i].hash = cache[j].hash => i = j

\* The count that is returned is the asked filter's, and was right at some time in the
\* Expiration seconds before the call or during it.
OwnFreshCount ==
    \A t \in Threads :
        thread[t].pc = "read" =>
            /\ thread[t].slot \in DOMAIN cache
            /\ cache[thread[t].slot].hash = thread[t].filter
            /\ cache[thread[t].slot].stamp <= Expiration + thread[t].age

\* An entry that is not expired is only given up for another filter when there is no room
\* left and no entry was used longer ago.
EvictsLeastRecentlyUsed ==
    [][\A i \in DOMAIN cache :
          (~Expired(cache[i]) /\ \A j \in DOMAIN cache' : cache'[j].hash # cache[i].hash) =>
              Len(cache) = Size /\ \A j \in DOMAIN cache : cache[j].used <= cache[i].used]_vars

=============================================================================
