------------------------------ MODULE Builder ------------------------------
(***************************************************************************)
(* wdc on one build machine: several processes that share client_id,       *)
(* cookie_file and lock_file, working against the server's job board.      *)
(* src/src/Watchdog/Client/Client.cpp, from Execute to the end of Run.     *)
(*                                                                         *)
(* A process runs --run, --multirun, or is the script that calls --get,    *)
(* --accept and --submit in turn, with its own build in between.  Commits  *)
(* are numbered in the order of DT.  The server is the abstract board that *)
(* WorkApi implements; each exchange with it may fail, and a request whose *)
(* answer the client gave up on may still be carried out, later.           *)
(***************************************************************************)
EXTENDS Naturals, FiniteSets

CONSTANTS
    Procs,
    Commits,    \* numbers, later commits larger
    Me,         \* Ini::client_id
    NoCommit,
    MaxLate,    \* bound on the requests delayed at a time
    Modes,      \* subset of {"run", "multirun", "script"}
    Locking,    \* values of the flag "lock": TRUE unless --nolock
    Given,      \* a count that came with --ok, --errors, --failures or --skipped
    Options     \* the sets of counts that --run and --multirun may be given so

ASSUME CommitAssumption == Commits \subseteq Nat /\ NoCommit \notin Commits
ASSUME LateAssumption == MaxLate \in Nat
ASSUME ModeAssumption == Modes \subseteq {"run", "multirun", "script"} /\ Locking \subseteq BOOLEAN
ASSUME OptionAssumption ==
    /\ Given \notin Commits \cup {NoCommit}
    /\ Options \subseteq SUBSET {"ok", "errors"}

VARIABLES
    proc,      \* the members of each process's WatchdogClient, and where it is
    lockfile,  \* lock_file exists
    leftover,  \* history: a process ended without removing the lock file it wrote
    orphans,   \* history: commits a builder gave up on, or a delayed accept or partial
               \* result was carried out for
    late,      \* requests the client gave up on that the server may yet carry out
    members, board

server == <<late, members, board>>
history == <<leftover, orphans>>
vars == <<proc, lockfile, history, server>>

Server == INSTANCE JobBoard WITH Clients <- {Me}

\* ok stands for ok, failures and skipped, which the client treats alike.  A count is
\* kept as what set it: the commit whose build named it, or Given for an option of the
\* command line, or NoCommit for Null.
Fields == {"ok", "errors"}
NoCounts == [f \in Fields |-> NoCommit]

\* locking is the member "lock"; killed, that the command was killed at test_timeout.
Process == [pc      : {"out", "getwork", "checklock", "writelock", "accept", "build", "report",
                       "unlock", "unlockfail"},
            mode    : {"none"} \cup Modes,
            locking : BOOLEAN,
            commit  : Commits \cup {NoCommit},
            counts  : [Fields -> Commits \cup {NoCommit, Given}],
            killed  : BOOLEAN]

NoProcess == [pc |-> "out", mode |-> "none", locking |-> FALSE, commit |-> NoCommit,
              counts |-> NoCounts, killed |-> FALSE]

At(p, label) == proc[p].pc = label
Goto(p, label) == proc' = [proc EXCEPT ![p].pc = label]

\* Where a process that locks has passed the lock, and not yet removed it.
Holding(p) ==
    proc[p].locking /\ proc[p].pc \in {"accept", "build", "report", "unlock", "unlockfail"}

\* The commit a process may have put in progress and not reported.
Unreported(p) ==
    IF proc[p].pc \in {"accept", "build", "report", "unlockfail"} THEN {proc[p].commit} ELSE {}

----------------------------------------------------------------------------
(* Faulty variants of operators defined below, kept to show that the        *)
(* properties notice such a fault.                                          *)

RemoveLockOnSuccess(p) == lockfile' = (lockfile /\ ~(proc[p].locking /\ At(p, "unlock")))

KilledCountsAsParsed(own, c) == own

FinalStatusPartial == "inprogress"

ExitKeepsMembers(p) ==
    /\ Goto(p, "out")
    /\ leftover' = (leftover \/ (Holding(p) /\ lockfile))
    /\ orphans' = orphans \cup Unreported(p)

TimedOutNever(p) == FALSE

----------------------------------------------------------------------------

\* The process ends without touching the lock file.
Exit(p) ==
    /\ proc' = [proc EXCEPT ![p] = NoProcess]
    /\ leftover' = (leftover \/ (Holding(p) /\ lockfile))
    /\ orphans' = orphans \cup Unreported(p)

\* A POST about commit r: carried out, refused or lost, or carried out after the
\* client stopped waiting.  Only one that was carried out can be answered with 200.
Post(r, status, answered) ==
    \/ (Server!Report(<<r, Me>>, status) /\ UNCHANGED late)
    \/ ~answered /\ UNCHANGED server
    \/ /\ ~answered
       /\ Cardinality(late) < MaxLate
       /\ late' = late \cup {<<r, status>>}
       /\ UNCHANGED <<members, board>>

\* Execute: a new process, all of its members fresh but those ParseArgument sets, the
\* counts among them, whatever the action is.  (A script gives
\* its counts to --submit, with the output of its build: Finish.)
Start(p, mode, locking, options) ==
    /\ At(p, "out")
    /\ mode = "script" => options = {}
    /\ proc' = [proc EXCEPT ![p] =
                   [NoProcess EXCEPT !.pc = "getwork", !.mode = mode, !.locking = locking,
                                     !.counts = [f \in Fields |->
                                         IF f \in options THEN Given ELSE NoCommit]]]
    /\ UNCHANGED <<lockfile, history, server>>

\* todo.Top(), the newest commit offered; a script may take any.
Selectable(p) ==
    LET todo == Server!Open(Me) IN
    IF proc[p].mode = "script" THEN todo ELSE {r \in todo : \A s \in todo : s <= r}

GetWork(p) ==
    /\ At(p, "getwork")
    /\ \E r \in Selectable(p) :
          proc' = [proc EXCEPT ![p].commit = r,
                               ![p].pc = IF proc[p].locking THEN "checklock" ELSE "accept"]
    /\ UNCHANGED <<lockfile, history, server>>

\* The request failed, or there is nothing to do.
NoWork(p) ==
    /\ At(p, "getwork")
    /\ Exit(p)
    /\ UNCHANGED <<lockfile, server>>

\* AcceptWork: if(FileExists(lock_file)) return false ...
CheckLock(p) ==
    /\ At(p, "checklock")
    /\ IF lockfile THEN Exit(p) ELSE Goto(p, "writelock") /\ UNCHANGED history
    /\ UNCHANGED <<lockfile, server>>

\* ... else SaveFile(lock_file), which does not notice that another process was faster.
WriteLock(p) ==
    /\ At(p, "writelock")
    /\ lockfile' = TRUE
    /\ Goto(p, "accept")
    /\ UNCHANGED <<history, server>>

AcceptWork(p) ==
    /\ At(p, "accept")
    /\ Post(proc[p].commit, "inprogress", TRUE)
    /\ Goto(p, "build")
    /\ UNCHANGED <<lockfile, history>>

\* Auth or the POST failed; the lock file stays.
AcceptFails(p) ==
    /\ At(p, "accept")
    /\ Post(proc[p].commit, "inprogress", FALSE)
    /\ Exit(p)
    /\ UNCHANGED lockfile

\* A partial result every upload_interval; how it ends makes no difference to Run.
Upload(p) ==
    /\ At(p, "build")
    /\ proc[p].mode # "script"
    /\ Post(proc[p].commit, "inprogress", FALSE)
    /\ UNCHANGED <<proc, lockfile, history>>

\* Run sets the fields named in the command's output and leaves the others as they are.
Parsed(p, named) == [f \in Fields |-> IF f \in named THEN proc[p].commit ELSE proc[p].counts[f]]

\* A killed command that leaves every field Null counts as one error.
KilledCounts(own, c) == IF own = NoCounts THEN [own EXCEPT !["errors"] = c] ELSE own

\* The command ends, or could not be started; a script names the counts itself.
Finish(p) ==
    /\ At(p, "build")
    /\ \E named \in SUBSET Fields :
          proc' = [proc EXCEPT ![p].pc = "report", ![p].counts = Parsed(p, named),
                               ![p].killed = FALSE]
    /\ UNCHANGED <<lockfile, history, server>>

\* More than test_timeout has passed since the commit was selected.
TimedOut(p) == proc[p].mode # "script"

Kill(p) ==
    /\ At(p, "build")
    /\ TimedOut(p)
    /\ \E named \in SUBSET Fields :
          proc' = [proc EXCEPT ![p].pc = "report", ![p].killed = TRUE,
                               ![p].counts = KilledCounts(Parsed(p, named), proc[p].commit)]
    /\ UNCHANGED <<lockfile, history, server>>

\* SubmitWork of the final result: Auth fails, and the lock file stays.
ReportDenied(p) ==
    /\ At(p, "report")
    /\ Exit(p)
    /\ UNCHANGED <<lockfile, server>>

\* partial is not posted with the final result.
FinalStatus == "done"

Report(p) ==
    /\ At(p, "report")
    /\ \E answered \in BOOLEAN :
          /\ Post(proc[p].commit, FinalStatus, answered)
          /\ Goto(p, IF answered THEN "unlock" ELSE "unlockfail")
    /\ UNCHANGED <<lockfile, history>>

\* DeleteFile(lock_file), before the answer is looked at, whoever wrote the file.
RemoveLock(p) == lockfile' = (lockfile /\ ~proc[p].locking)

\* The end of SubmitWork and of Run; --multirun goes on after a success.
Unlock(p) ==
    /\ proc[p].pc \in {"unlock", "unlockfail"}
    /\ RemoveLock(p)
    /\ leftover' = (leftover /\ lockfile')
    /\ orphans' = orphans \cup Unreported(p)
    /\ IF At(p, "unlock") /\ proc[p].mode = "multirun"
       THEN Goto(p, "getwork")
       ELSE proc' = [proc EXCEPT ![p] = NoProcess]
    /\ UNCHANGED server

\* The process is killed, or its machine restarts.
Crash(p) ==
    /\ ~At(p, "out")
    /\ Exit(p)
    /\ UNCHANGED <<lockfile, server>>

----------------------------------------------------------------------------
(* The server's side.                                                       *)

Arrive ==
    /\ \E m \in late :
          /\ Server!Report(<<m[1], Me>>, m[2])
          /\ late' = late \ {m}
          /\ orphans' = IF m[2] = "inprogress" THEN orphans \cup {m[1]} ELSE orphans
    /\ UNCHANGED <<proc, lockfile, leftover>>

\* The administrator's clean job forgets builds, somebody removes a result or a branch,
\* or the client itself, whose id is not given out again.  (ServedAsBuilderAssumes says
\* that the server does nothing else.)
Administer ==
    /\ \/ \E S \in SUBSET Server!Keys : Server!Forget(S) \/ Server!Withdraw(S)
       \/ Server!Leave(Me)
    /\ UNCHANGED <<proc, lockfile, history, late>>

Init ==
    /\ proc = [p \in Procs |-> NoProcess]
    /\ lockfile = FALSE
    /\ leftover = FALSE
    /\ orphans = {}
    /\ late = {}
    /\ members = {Me}
    /\ board = [k \in Server!Keys |-> "none"]

Next ==
    \/ \E p \in Procs :
          \/ \E mode \in Modes, locking \in Locking, options \in Options \cup {{}} :
                Start(p, mode, locking, options)
          \/ GetWork(p) \/ NoWork(p) \/ CheckLock(p) \/ WriteLock(p)
          \/ AcceptWork(p) \/ AcceptFails(p) \/ Upload(p) \/ Finish(p) \/ Kill(p)
          \/ ReportDenied(p) \/ Report(p) \/ Unlock(p) \/ Crash(p)
    \/ Arrive
    \/ Administer

Spec == Init /\ [][Next]_vars

\* A running process goes on: its requests time out, and so does its command.  A
\* command need not end by itself.
Fairness ==
    \A p \in Procs :
        /\ WF_vars(Kill(p))
        /\ WF_vars(ReportDenied(p) \/ Report(p))
        /\ WF_vars(Unlock(p))

FairSpec == Spec /\ Fairness

----------------------------------------------------------------------------
(* Properties.                                                              *)

\* Every variable has its type, and nothing of a process outlives it.
TypeOK ==
    /\ proc \in [Procs -> Process]
    /\ \A p \in Procs : At(p, "out") => proc[p] = NoProcess
    /\ orphans \subseteq Commits
    /\ lockfile \in BOOLEAN /\ leftover \in BOOLEAN
    /\ late \subseteq Commits \X {"inprogress", "done"}
    /\ members \subseteq {Me}
    /\ board \in [Server!Keys -> Server!Statuses]

\* The lock file exists only while a process works under it, or because one ended
\* before its final SubmitWork got as far as posting: a final submission that was
\* posted removes it, however it was answered.
LockAccounted == lockfile => leftover \/ \E p \in Procs : Holding(p)

\* A commit in progress is being built, unless its builder died or failed to report, or
\* a request the builder no longer waited for overtook its later ones: only in these
\* cases does it take a Clean request to free the commit.
InProgressAccounted ==
    \A r \in Commits :
        board[<<r, Me>>] = "inprogress" =>
            r \in orphans \/ \E p \in Procs : r \in Unreported(p)

\* A build killed at test_timeout never goes out without a count of its own, which the
\* server would store as a result with nothing wrong, unless the process was started
\* with a count that takes its place: the help reserves these options for --submit, but
\* --run takes them, and a killed build then counts no error.  (In --multirun the counts
\* of an earlier build do the same: see CountsOfThisBuild.)
KilledReported ==
    \A p \in Procs :
        At(p, "report") /\ proc[p].killed /\ proc[p].mode # "multirun" =>
            \E f \in Fields : proc[p].counts[f] \in {proc[p].commit, Given}

\* The counts submitted with a commit's final result come from that commit's build.
CountsOfThisBuild ==
    \A p \in Procs, f \in Fields :
        At(p, "report") => proc[p].counts[f] \in {NoCommit, proc[p].commit}

\* No two processes that lock are between the lock and its removal together.
LockExclusive == \A p, q \in Procs : Holding(p) /\ Holding(q) => p = q

\* A build does not go on for ever, even if its command does: it is reported, or its
\* process is gone.
BuildEnds ==
    \A p \in Procs :
        At(p, "build") /\ proc[p].mode # "script" ~> At(p, "out") \/ At(p, "getwork")

=============================================================================
