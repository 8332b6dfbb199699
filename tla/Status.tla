------------------------------- MODULE Status -------------------------------
(***************************************************************************)
(* The status the pages show of one result, of a commit and of a branch:   *)
(* ComputeStatus, SuccessRate and SetComputedAttributes of Util.cpp and    *)
(* the SELECTs of Entity.cpp whose rows they are computed from.            *)
(*                                                                         *)
(* A commit's page sums the counts of its results and takes the STATUS of  *)
(* one of them, whichever the database picks, for a column that is neither *)
(* aggregated nor grouped by.  A branch is always shown as done.           *)
(***************************************************************************)
EXTENDS Naturals, Sequences, FiniteSetsExt

CONSTANTS
    Builders,   \* clients
    Tests,      \* the numbers of tests that may be ok, failed or in error
    NoResult    \* SQL NULL: there is no row

CountRecord == [ok : Tests, fail : Tests, err : Tests]
ResultRow == [status : {"inprogress", "done"}, count : CountRecord]

ASSUME TestAssumption ==
    /\ Tests \subseteq Nat /\ 0 \in Tests /\ NoResult \notin ResultRow
    /\ IsFiniteSet(Builders)

VARIABLES
    results,   \* the rows of RESULT for one commit, by client
    view       \* the page that is shown, or NoResult

statusVars == <<results, view>>

Zero == [ok |-> 0, fail |-> 0, err |-> 0]

----------------------------------------------------------------------------
(* Faulty variants of operators defined below, kept to show that the        *)
(* properties notice such a fault.                                          *)

TotalOfDone(rs) ==
    LET done == {r \in rs : r.row.status = "done"}
        add(r, t) == [ok |-> t.ok + r.row.count.ok, fail |-> t.fail + r.row.count.fail,
                      err |-> t.err + r.row.count.err] IN
    FoldSet(add, Zero, done)

ComputeStatusDoneFirst(status, c) ==
    IF status = "done" /\ c.fail = 0 THEN <<"OK", 0, 0>>
    ELSE IF status = "inprogress" THEN <<"In_progress", 0, 0>>
    ELSE <<"counts", c.err, c.fail>>

----------------------------------------------------------------------------

\* sum(OK), sum(FAIL) and sum(ERR), NULL read as 0.
Total(rs) ==
    LET add(r, t) == [ok |-> t.ok + r.row.count.ok, fail |-> t.fail + r.row.count.fail,
                      err |-> t.err + r.row.count.err] IN
    FoldSet(add, Zero, rs)

\* The text of the status, with the numbers of errors and failures it names.
ComputeStatus(status, c) ==
    IF status = "inprogress" THEN <<"In_progress", 0, 0>>
    ELSE IF c.ok + c.err + c.fail = 0 THEN <<"No_results", 0, 0>>
    ELSE IF status # "done" THEN <<"empty", 0, 0>>
    ELSE IF c.err > 0 \/ c.fail > 0 THEN <<"counts", c.err, c.fail>>
    ELSE <<"OK", 0, 0>>

\* In hundredths of a percent, rounded; -1 for none.
SuccessRate(status, c) ==
    LET all == c.ok + c.fail + c.err IN
    IF status # "done" \/ all = 0 THEN 0 - 1 ELSE (20000 * c.ok + all) \div (2 * all)

SetComputedAttributes(rs, status) ==
    view' = [of |-> rs, status |-> status, rate |-> SuccessRate(status, Total(rs)),
             text |-> ComputeStatus(status, Total(rs))]

Existing == {[by |-> c, row |-> results[c]] : c \in {b \in Builders : results[b] # NoResult}}

----------------------------------------------------------------------------

\* Result::Load, the row of one client.
ShowResult ==
    /\ \E r \in Existing : SetComputedAttributes({r}, r.row.status)
    /\ UNCHANGED results

\* Commit::LoadPage.
ShowCommit ==
    /\ \/ \E r \in Existing : SetComputedAttributes(Existing, r.row.status)
       \/ Existing = {} /\ SetComputedAttributes({}, "none")
    /\ UNCHANGED results

\* Branch::LoadAll, for a branch of one commit.
ShowBranch == SetComputedAttributes(Existing, "done") /\ UNCHANGED results

\* A build begins, ends, or is forgotten.  One in progress may have counts: those of the
\* build it repeats, or what wdc --multirun kept.
Build(b) ==
    /\ \E row \in ResultRow \cup {NoResult} : results' = [results EXCEPT ![b] = row]
    /\ view' = NoResult

StatusInit == results = [b \in Builders |-> NoResult] /\ view = NoResult

StatusNext == ShowResult \/ ShowCommit \/ ShowBranch \/ \E b \in Builders : Build(b)

StatusSpec == StatusInit /\ [][StatusNext]_statusVars

----------------------------------------------------------------------------
(* Properties.                                                              *)

\* Hundredths of a percent, or none.
Rates == 0 .. 10000 \cup {0 - 1}

\* Every variable has its type.
StatusTypeOK ==
    /\ results \in [Builders -> ResultRow \cup {NoResult}]
    /\ view # NoResult => view.rate \in Rates

\* "OK" is only shown if some build has reported tests and no build among those the page
\* sums up has reported a failure or an error, whichever row the STATUS was taken from.
\* The rate beside it may be rounded to 100 % if one test in 20000 or fewer is not ok.
NoFalseOK ==
    view # NoResult =>
        /\ view.text[1] = "OK" =>
              /\ \E r \in view.of : r.row.count.ok > 0
              /\ \A r \in view.of : r.row.count.fail = 0 /\ r.row.count.err = 0
              /\ view.rate = 10000
        /\ view.rate = 10000 =>
              LET t == Total(view.of) IN 19999 * (t.fail + t.err) <= t.ok

\* A failure or an error shows, unless the text says that a build is under way.
NothingHidden ==
    view # NoResult =>
        ((\E r \in view.of : r.row.count.fail > 0 \/ r.row.count.err > 0) =>
            \/ view.text[1] = "counts" /\ view.text[2] + view.text[3] > 0
            \/ view.text[1] = "In_progress" /\ \E r \in view.of : r.row.status = "inprogress")

=============================================================================
