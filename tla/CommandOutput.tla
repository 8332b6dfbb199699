---------------------------- MODULE CommandOutput ----------------------------
(***************************************************************************)
(* How Run takes the counts off the output of the build command, before it *)
(* submits the rest (Client.cpp, the loop over "\n@").                     *)
(*                                                                         *)
(* A line that mentions a counter is "@id=n", "@id=" or only "@id"; the    *)
(* loop sees it only behind a newline, so never on the first line.         *)
(***************************************************************************)
EXTENDS Naturals, Sequences, FiniteSetsExt, Selection

CONSTANTS
    Counters,  \* "ok", "errors", "failures", "skipped"
    Values,    \* the numbers a line may hold
    MaxLines   \* bounds the output

ASSUME CounterAssumption == "" \notin Counters /\ MaxLines \in Nat

NoValue == 0   \* ScanInt finds no number and returns Null, and max(Null, 0) is 0
Blank == 888   \* nothing but white space, which ScanInt skips

\* n: what is behind the id of a mention, and what other text, with the id "", begins with.
Lines == [id : Counters \cup {"unknown", ""}, n : Values \cup {NoValue, Blank}]

VARIABLES
    output,    \* the lines of the command, and whether a newline ends the last one
    rest,      \* the lines that are left
    from,      \* the line the search goes on at
    counts,    \* WatchdogClient's counters
    parsed     \* "no", "yes", or "broken": Remove was called with a negative length

outputVars == <<output, rest, from, counts, parsed>>

NotCounted == 999   \* Null

----------------------------------------------------------------------------
(* A faulty variant of an operator defined below, kept to show that the     *)
(* property notices such a fault.                                           *)

GoOnBehind(k) == k + 1

----------------------------------------------------------------------------

\* output.Find("\n@", ...): the mentions that are not behind the search yet.
MentionsLeft == {k \in DOMAIN rest : k >= Max({from, 2}) /\ rest[k].id # ""}

\* The lines behind the k-th on which there is something.
Behind(k) == {j \in DOMAIN rest : j > k /\ (rest[j].id # "" \/ rest[j].n # Blank)}

\* What ScanInt(++c) reads: behind "@id" and "@id=" the first line that is not blank.
ScanInt(k) ==
    IF rest[k].n # Blank THEN rest[k].n
    ELSE IF Behind(k) # {} /\ rest[Min(Behind(k))].id = "" THEN rest[Min(Behind(k))].n
    ELSE NoValue

\* A line was removed: the next one is at its place.
GoOn(k) == k

EndParsing ==
    /\ parsed = "no" /\ MentionsLeft = {}
    /\ parsed' = "yes"
    /\ UNCHANGED <<output, rest, from, counts>>

\* "continue" behind an id that is no counter.
SkipUnknown ==
    /\ parsed = "no" /\ MentionsLeft # {}
    /\ rest[Min(MentionsLeft)].id \notin Counters
    /\ from' = Min(MentionsLeft) + 1
    /\ UNCHANGED <<output, rest, counts, parsed>>

TakeCount ==
    /\ parsed = "no" /\ MentionsLeft # {}
    /\ LET k == Min(MentionsLeft) IN
       /\ rest[k].id \in Counters
       /\ counts' = [counts EXCEPT ![rest[k].id] = ScanInt(k)]
       /\ IF k = Len(rest) /\ ~output.ended
          THEN parsed' = "broken" /\ UNCHANGED <<rest, from>>
          ELSE /\ rest' = SubSeq(rest, 1, k - 1) \o SubSeq(rest, k + 1, Len(rest))
               /\ from' = GoOn(k)
               /\ UNCHANGED parsed
    /\ UNCHANGED output

OutputInit ==
    /\ output \in [lines : UNION {[1 .. n -> Lines] : n \in 1 .. MaxLines}, ended : BOOLEAN]
    /\ rest = output.lines /\ from = 2
    /\ counts = [c \in Counters |-> NotCounted]
    /\ parsed = "no"

OutputNext == EndParsing \/ SkipUnknown \/ TakeCount

OutputSpec == OutputInit /\ [][OutputNext]_outputVars

----------------------------------------------------------------------------
(* Properties.                                                              *)

\* Every variable has its type.
OutputTypeOK ==
    /\ output.lines \in Seq(Lines) /\ rest \in Seq(Lines) /\ from \in Nat
    /\ counts \in [Counters -> Values \cup {NoValue, NotCounted}]
    /\ parsed \in {"no", "yes", "broken"}

\* Each counter has the value of its last mention behind the first line, and what is
\* submitted is the output without these lines: none is missed where several follow each
\* other, and no other line is lost.  A mention with nothing behind the id is not asked about
\* its value, since it may take one from a later line.  The removal goes wrong for no output
\* but one that ends in a mention without a newline.
CountsExact ==
    LET given == output.lines
        counted == {k \in DOMAIN given : k > 1 /\ given[k].id \in Counters}
        of(c) == {k \in counted : given[k].id = c} IN
    /\ parsed = "yes" =>
          /\ rest = Selected(given, DOMAIN given \ counted)
          /\ \A c \in Counters :
                IF of(c) = {} THEN counts[c] = NotCounted
                ELSE given[Max(of(c))].n # Blank => counts[c] = given[Max(of(c))].n
    /\ parsed = "broken" <=> parsed # "no" /\ Len(given) \in counted /\ ~output.ended

=============================================================================
