---------------------------- MODULE RegexpCache ----------------------------
(***************************************************************************)
(* sqlite_regexp of src/src/Watchdog/Server/SqliteCompat.cpp, which        *)
(* evaluates "a regexp b" for SQLite: a cache of compiled expressions,     *)
(* kept in the order of their last use.  SQLite calls it for every row it  *)
(* looks at, and every filter, client and branch is a regular expression.  *)
(*                                                                         *)
(* The cache is a Single for the connections of all worker threads.  What  *)
(* a call does is split where it calls out: the search with the move to    *)
(* the front, pcre_compile, the insertion, and pcre_exec.                  *)
(***************************************************************************)
EXTENDS Integers, Sequences, SequencesExt

CONSTANTS
    Callers,     \* threads that call sqlite_regexp
    Regexps,
    NoRegexp,
    Malformed,   \* those pcre_compile refuses
    Handles,     \* what pcre_compile returns
    NoHandle,
    CACHE_SIZE

ASSUME CacheSizeAssumption == CACHE_SIZE \in Nat \ {0}
ASSUME RegexpAssumption ==
    Malformed \subseteq Regexps /\ NoRegexp \notin Regexps /\ NoHandle \notin Handles

VARIABLES
    compiled,  \* the entries in use, cache[0] first
    heap,      \* the expression each allocated handle was compiled from
    call,      \* the call each thread is in
    recent     \* history: all expressions used, the last one first

regexpVars == <<compiled, heap, call, recent>>

cache_entry == [s : Regexps, p : Handles]

Call == [pc : {"out", "compile", "insert", "exec"}, re : Regexps \cup {NoRegexp},
         p : Handles \cup {NoHandle}]

NoCall == [pc |-> "out", re |-> NoRegexp, p |-> NoHandle]

----------------------------------------------------------------------------
(* Faulty variants of operators defined below, kept to show that the        *)
(* properties notice such a fault.                                          *)

SwappedToFront(i) == [compiled EXCEPT ![1] = compiled[i], ![i] = compiled[1]]

MovedNowhere(i) == compiled

EvictedUnfreed == heap

PutFirstGrowing(entry) == <<entry>> \o compiled

----------------------------------------------------------------------------

Found(re) == {i \in DOMAIN compiled : compiled[i].s = re}

\* memmove and the store to cache[0].
MovedToFront(i) == <<compiled[i]>> \o RemoveAt(compiled, i)

Used(re) == <<re>> \o RemoveFirst(recent, re)

\* The expression is in the cache.
Hit(t, re) ==
    /\ call[t].pc = "out"
    /\ \E i \in Found(re) :
          /\ \A j \in Found(re) : i <= j
          /\ compiled' = MovedToFront(i)
    /\ call' = [call EXCEPT ![t] = [pc |-> "exec", re |-> re, p |-> compiled'[1].p]]
    /\ recent' = Used(re)
    /\ UNCHANGED heap

Miss(t, re) ==
    /\ call[t].pc = "out"
    /\ Found(re) = {}
    /\ call' = [call EXCEPT ![t] = [pc |-> "compile", re |-> re, p |-> NoHandle]]
    /\ UNCHANGED <<compiled, heap, recent>>

\* pcre_compile, or its error, which ends the call.
Compile(t) ==
    /\ call[t].pc = "compile"
    /\ \/ /\ call[t].re \in Malformed
          /\ call' = [call EXCEPT ![t] = NoCall]
          /\ UNCHANGED heap
       \/ /\ call[t].re \notin Malformed
          /\ \E h \in Handles :
                /\ heap[h] = NoRegexp
                /\ heap' = [heap EXCEPT ![h] = call[t].re]
                /\ call' = [call EXCEPT ![t].pc = "insert", ![t].p = h]
    /\ UNCHANGED <<compiled, recent>>

\* pcre_free of the last entry, if it is in use.
Evicted ==
    IF Len(compiled) = CACHE_SIZE THEN [heap EXCEPT ![Last(compiled).p] = NoRegexp] ELSE heap

\* memmove over the last entry, and the store to cache[0].
PutFirst(entry) ==
    <<entry>> \o (IF Len(compiled) = CACHE_SIZE THEN Front(compiled) ELSE compiled)

Insert(t) ==
    /\ call[t].pc = "insert"
    /\ heap' = Evicted
    /\ compiled' = PutFirst([s |-> call[t].re, p |-> call[t].p])
    /\ call' = [call EXCEPT ![t].pc = "exec", ![t].p = compiled'[1].p]
    /\ recent' = Used(call[t].re)

\* pcre_exec, and the end of the call.
Exec(t) ==
    /\ call[t].pc = "exec"
    /\ call' = [call EXCEPT ![t] = NoCall]
    /\ UNCHANGED <<compiled, heap, recent>>

RegexpInit ==
    /\ compiled = <<>>
    /\ heap = [h \in Handles |-> NoRegexp]
    /\ call = [t \in Callers |-> NoCall]
    /\ recent = <<>>

RegexpNext ==
    \/ \E t \in Callers, re \in Regexps : Hit(t, re) \/ Miss(t, re)
    \/ \E t \in Callers : Compile(t) \/ Insert(t) \/ Exec(t)

RegexpSpec == RegexpInit /\ [][RegexpNext]_regexpVars

----------------------------------------------------------------------------
(* Properties.  The last two hold as long as calls do not overlap.          *)

\* Every variable has its type, and the entries fit into the buffer.
RegexpTypeOK ==
    /\ compiled \in Seq(cache_entry) /\ Len(compiled) <= CACHE_SIZE
    /\ heap \in [Handles -> Regexps \cup {NoRegexp}]
    /\ call \in [Callers -> Call]
    /\ recent \in Seq(Regexps)

\* Every compiled expression is in exactly one entry, or about to be, and every entry's is
\* still allocated: none is leaked, freed twice or used after it was freed.
HandlesAccounted ==
    \A h \in Handles :
        LET entries == {i \in DOMAIN compiled : compiled[i].p = h}
            holders == {t \in Callers : call[t].pc = "insert" /\ call[t].p = h}
        IN
        /\ heap[h] # NoRegexp <=> entries \cup holders # {}
        /\ \A i, j \in entries : i = j /\ holders = {}

\* What is executed is the compiled form of the expression the caller asked for.
RightExpression == \A t \in Callers : call[t].pc = "exec" => heap[call[t].p] = call[t].re

\* The cache holds the expressions that were used last, in that order, as many as fit.
MostRecentKept ==
    /\ Len(compiled) = IF Len(recent) < CACHE_SIZE THEN Len(recent) ELSE CACHE_SIZE
    /\ \A i \in DOMAIN compiled : compiled[i].s = recent[i]

=============================================================================
