------------------------------- MODULE Paging -------------------------------
(***************************************************************************)
(* The pages of a list of commits: the constructor of CommitFilter         *)
(* (src/src/Watchdog/Server/Util.cpp) and the SELECT of Commit::LoadPage   *)
(* and its likes.                                                          *)
(*                                                                         *)
(* Pages are numbered from the oldest, 0, to the newest, total/pagesize,   *)
(* where total is taken from the filter cache and may be out of date.  A   *)
(* visitor follows the links of the page shown last, while commits are     *)
(* pushed, of any age, and branches deleted.                               *)
(*                                                                         *)
(* Commits are numbered in the order of DT, 1 being the oldest; those of   *)
(* the same DT are taken to come in the same order in every SELECT.        *)
(***************************************************************************)
EXTENDS Integers, FiniteSets

CONSTANTS
    MaxTotal,  \* bound on the number of commits, pushed and to come
    MaxSize    \* largest page size, 100

ASSUME PagingAssumption == MaxTotal \in Nat /\ MaxSize \in Nat \ {0}

VARIABLES
    matching,  \* the commits in the table that match the filter
    counted,   \* their number as the filter cache has it
    shown,     \* the page shown last
    promised   \* history: the commits that matched then, unless some were removed since

pagingVars == <<matching, counted, shown, promised>>

\* count in the code: how many pages to either side get a link.
LINKS == 3

Page == [size : 1 .. MaxSize, hi : 0 .. MaxTotal, current : 0 .. MaxTotal, commits : SUBSET (1 .. MaxTotal)]

----------------------------------------------------------------------------
(* Faulty variants of operators defined below, kept to show that the        *)
(* properties notice such a fault.                                          *)

HighestRounded(count, size) == (count + size - 1) \div size

LinksWithSelf(hi, current) == (current - LINKS .. current + LINKS) \cap (0 .. hi)

OffsetFromOldest(size, hi, current) == size * current

----------------------------------------------------------------------------

Highest(count, size) == count \div size

Offset(size, hi, current) == size * (hi - current)

\* The rows of a SELECT ... ORDER BY DT DESC LIMIT size OFFSET offset from a list of
\* commits; SQLite reads a negative offset as none.
Rows(commits, size, offset) ==
    LET skipped == IF offset < 0 THEN 0 ELSE offset
        newer(k) == Cardinality(commits) - Cardinality({j \in commits : j <= k})
    IN {k \in commits : newer(k) \in skipped .. skipped + size - 1}

\* The page numbers that are linked beside "<< Newest", which has none.
Links(hi, current) ==
    LET lower(a, b) == IF a < b THEN a ELSE b
        newer == current + 1 .. lower(current + LINKS, hi)
        older == {i \in 1 .. current - 1 : i > current - (LINKS + 1)}
    IN newer \cup older
       \cup (IF current < hi THEN {current + 1} ELSE {})
       \cup (IF current > 0 THEN {current - 1} ELSE {})
       \cup (IF current # 0 THEN {0} ELSE {})

\* A request with the page size cnt and a page number.
Show(size, current) ==
    LET hi == Highest(counted, size) IN
    /\ shown' = [size |-> size, hi |-> hi, current |-> current,
                 commits |-> Rows(matching, size, Offset(size, hi, current))]
    /\ promised' = matching
    /\ UNCHANGED <<matching, counted>>

ShowNewest(size) == Show(size, Highest(counted, size))

\* The page size is kept in the session.
FollowLink == \E page \in Links(shown.hi, shown.current) : Show(shown.size, page)

\* "<< Newest" is given no page number.  paging.witz then asks if the missing number is
\* >= 0: by the template engine's answer the link has an empty page parameter, or is
\* empty and leads back to the same page.
FollowNewest ==
    /\ shown.current # shown.hi
    /\ ShowNewest(shown.size) \/ Show(shown.size, shown.current)

\* The number is typed in.
GoTo(page) == Show(shown.size, page)

\* set_cnt leaves the page number as it is.
ChangeSize(size) == size # shown.size /\ Show(size, shown.current)

\* Update stores a commit, which may be older than others; or one that is known begins
\* to match the filter by what is stored now.
AddCommit(k) ==
    /\ k \notin matching
    /\ matching' = matching \cup {k}
    /\ UNCHANGED <<counted, shown, promised>>

\* deletebranch removes any number of commits; or one no longer matches by what Update
\* stores.  (One that is stored again with another DT goes and comes back.)
RemoveCommits(K) ==
    /\ K # {}
    /\ matching' = matching \ K
    /\ promised' = {}
    /\ UNCHANGED <<counted, shown>>

\* The entry of the filter cache expires.
Recount ==
    /\ counted # Cardinality(matching)
    /\ counted' = Cardinality(matching)
    /\ UNCHANGED <<matching, shown, promised>>

PagingInit ==
    /\ matching \in SUBSET (1 .. MaxTotal)
    /\ counted = Cardinality(matching)
    /\ promised = matching
    /\ \E size \in 1 .. MaxSize :
          shown = [size |-> size, hi |-> Highest(counted, size), current |-> Highest(counted, size),
                   commits |-> Rows(matching, size, 0)]

PagingNext ==
    \/ \E size \in 1 .. MaxSize : ShowNewest(size) \/ ChangeSize(size)
    \/ \E page \in 0 .. MaxTotal : GoTo(page)
    \/ FollowLink \/ FollowNewest
    \/ \E k \in 1 .. MaxTotal : AddCommit(k)
    \/ \E K \in SUBSET matching : RemoveCommits(K)
    \/ Recount

PagingSpec == PagingInit /\ [][PagingNext]_pagingVars

----------------------------------------------------------------------------
(* Properties.                                                              *)

PagingTypeOK ==
    /\ matching \subseteq 1 .. MaxTotal /\ counted \in 0 .. MaxTotal
    /\ shown \in Page
    /\ promised \subseteq matching

\* When the count is right, every commit is on exactly one page, and no page but the
\* oldest, which takes what is left, is smaller than the others.
EachCommitOnOnePage ==
    counted = Cardinality(matching) =>
        \A size \in 1 .. MaxSize :
            LET hi == Highest(counted, size)
                on(page) == Rows(matching, size, Offset(size, hi, page))
            IN /\ \A k \in matching : \E page \in 0 .. hi : k \in on(page)
               /\ \A p, q \in 0 .. hi : p # q => on(p) \cap on(q) = {}
               /\ \A page \in 1 .. hi : Cardinality(on(page)) = size

\* Any page shown, one above the highest included, links to other pages, to the next
\* older and newer one among them, and to none above both itself and the highest.  While
\* the count is right, no page number that is linked shows an empty list, whatever was
\* removed since the link was made, but 0: the oldest page is empty when the others take
\* all commits.  (A page above the highest shows the newest commits.)
LinksLead ==
    LET links == Links(shown.hi, shown.current)
        last == IF shown.current > shown.hi THEN shown.current ELSE shown.hi
        hi == Highest(counted, shown.size)
    IN /\ links \subseteq (0 .. last) \ {shown.current}
       /\ {shown.current - 1, shown.current + 1} \cap (0 .. last) \subseteq links
       /\ counted = Cardinality(matching) /\ matching # {} =>
             \A page \in links \ {0} : Rows(matching, shown.size, Offset(shown.size, hi, page)) # {}

\* Whoever goes on to the next older page misses none of the commits in between that
\* were there when the first page was shown, wherever others were added since, as long
\* as the highest page is the same and none were removed: commits may only be shown
\* twice.  (A commit pushed meanwhile may be missed, if its DT puts it on the page that
\* was already shown.)
NothingSkipped ==
    [][shown'.current = shown.current - 1 /\ shown'.hi = shown.hi /\ shown'.size = shown.size
       => \A newer \in shown.commits, older \in shown'.commits :
              promised \cap (older .. newer) \subseteq shown.commits \cup shown'.commits]_pagingVars

=============================================================================
