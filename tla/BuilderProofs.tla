---------------------------- MODULE BuilderProofs ----------------------------
(***************************************************************************)
(* Proofs about Builder, for any number of processes and commits.          *)
(***************************************************************************)
EXTENDS Builder, TLAPS

----------------------------------------------------------------------------
(* The invariant.                                                           *)

\* Where the counts of a process may come from but its present build: an option of the
\* command line, and in --multirun the builds before.
Sources(x) ==
    {NoCommit} \cup (IF UNION Options = {} THEN {} ELSE {Given})
               \cup (IF x.mode = "multirun" THEN Commits ELSE {})

\* What holds of each process, whatever the others do: past GetWork it has a commit, only
\* one that locks looks at the lock file, and only at the end of a build are there counts
\* from it.
Good(x) ==
    /\ x \in Process
    /\ x.pc = "out" => x = NoProcess
    /\ x.pc \notin {"out", "getwork"} => x.commit \in Commits
    /\ x.pc \in {"checklock", "writelock"} => x.locking
    /\ x.pc \notin {"report", "unlock", "unlockfail"} => \A f \in Fields : x.counts[f] \in Sources(x)
    /\ \A f \in Fields : x.counts[f] \in Sources(x) \cup {x.commit}
    /\ x.pc = "report" /\ x.mode # "multirun" /\ x.killed =>
          \E f \in Fields : x.counts[f] \in {x.commit, Given}

\* Holding and Unreported, of the record of a process.
Locks(x) == x.locking /\ x.pc \in {"accept", "build", "report", "unlock", "unlockfail"}
Owes(x) == IF x.pc \in {"accept", "build", "report", "unlockfail"} THEN {x.commit} ELSE {}

ProcessesGood == proc \in [Procs -> Process] /\ \A p \in Procs : Good(proc[p])

RestTyped ==
    /\ orphans \subseteq Commits
    /\ lockfile \in BOOLEAN /\ leftover \in BOOLEAN
    /\ late \subseteq Commits \X {"inprogress", "done"}
    /\ members \subseteq {Me}
    /\ board \in [Server!Keys -> Server!Statuses]

IInv ==
    /\ ProcessesGood
    /\ RestTyped
    /\ LockAccounted
    /\ InProgressAccounted

----------------------------------------------------------------------------
(* What a step of one process has to show.                                  *)

\* Its lock file and its commit pass to its next state x, or are left behind and counted
\* as such; what others account for it does not touch.
LEMMA ProcessStep ==
    ASSUME IInv, RestTyped', NEW p \in Procs, NEW x, Good(x), proc' = [proc EXCEPT ![p] = x],
           orphans \subseteq orphans',
           lockfile' => \/ leftover' \/ Locks(x)
                        \/ lockfile /\ ~Locks(proc[p]) /\ (leftover => leftover'),
           \A r \in Commits :
              board'[<<r, Me>>] = "inprogress" =>
                 \/ r \in orphans' \/ r \in Owes(x)
                 \/ board[<<r, Me>>] = "inprogress" /\ r \notin Owes(proc[p])
    PROVE  IInv'
<1>1. /\ proc' \in [Procs -> Process] /\ proc'[p] = x
      /\ \A q \in Procs : q # p => proc'[q] = proc[q]
  BY DEF IInv, ProcessesGood, Good
<1>2. ProcessesGood'
  BY <1>1 DEF IInv, ProcessesGood, Good
<1>3. LockAccounted'
  BY <1>1 DEF IInv, LockAccounted, Holding, Locks
<1>4. InProgressAccounted'
  BY <1>1 DEF IInv, InProgressAccounted, Unreported, Owes
<1> QED
  BY <1>2, <1>3, <1>4 DEF IInv

\* A process that ends leaves its lock file and its commit accounted for.
LEMMA ExitStep ==
    ASSUME IInv, NEW p \in Procs, Exit(p), UNCHANGED <<lockfile, members>>,
           late' \subseteq Commits \X {"inprogress", "done"},
           board' \in [Server!Keys -> Server!Statuses],
           \A r \in Commits : board'[<<r, Me>>] \in {board[<<r, Me>>], "done"} \/ r \in Owes(proc[p])
    PROVE  IInv'
<1>1. /\ proc' = [proc EXCEPT ![p] = NoProcess]
      /\ leftover' = (leftover \/ (Locks(proc[p]) /\ lockfile))
      /\ orphans' = orphans \cup Owes(proc[p])
  BY DEF Exit, Holding, Unreported, Locks, Owes
<1>2. Good(NoProcess)
  BY DEF Good, NoProcess, Process, NoCounts, Sources
<1>3. Owes(proc[p]) \subseteq Commits
  BY DEF IInv, ProcessesGood, Good, Owes
<1>4. RestTyped'
  BY <1>1, <1>3 DEF IInv, RestTyped
<1>5. lockfile' => \/ leftover' \/ Locks(NoProcess)
                   \/ lockfile /\ ~Locks(proc[p]) /\ (leftover => leftover')
  <2>1. leftover' <=> leftover \/ (Locks(proc[p]) /\ lockfile)
    BY <1>1, Zenon
  <2>2. lockfile' <=> lockfile
    OBVIOUS
  <2> QED
    BY <2>1, <2>2, Zenon
<1>6. ASSUME NEW r \in Commits, board'[<<r, Me>>] = "inprogress"
      PROVE  \/ r \in orphans'
             \/ board[<<r, Me>>] = "inprogress" /\ r \notin Owes(proc[p])
  BY <1>1, <1>6
<1> QED
  BY <1>1, <1>2, <1>4, <1>5, <1>6, ProcessStep

\* A POST changes the board at most at its commit, to what it says, and has done so if it
\* was answered.
LEMMA Posted ==
    ASSUME RestTyped, NEW r \in Commits, NEW status \in {"inprogress", "done"},
           NEW answered \in BOOLEAN, Post(r, status, answered)
    PROVE  /\ UNCHANGED members
           /\ late' \subseteq Commits \X {"inprogress", "done"}
           /\ board' \in [Server!Keys -> Server!Statuses]
           /\ \A s \in Commits : s # r => board'[<<s, Me>>] = board[<<s, Me>>]
           /\ board'[<<r, Me>>] \in {board[<<r, Me>>], status}
           /\ answered => board'[<<r, Me>>] = status
<1>1. CASE Server!Report(<<r, Me>>, status) /\ UNCHANGED late
  <2>1. board' = [board EXCEPT ![<<r, Me>>] = status] /\ UNCHANGED <<members, late>>
    BY <1>1 DEF Server!Report
  <2>2. \A s \in Commits : <<s, Me>> \in Server!Keys
    BY DEF Server!Keys
  <2>3. status \in Server!Statuses
    BY DEF Server!Statuses
  <2> QED
    BY <2>1, <2>2, <2>3 DEF RestTyped
<1>2. CASE ~answered /\ UNCHANGED server
  BY <1>2 DEF server, RestTyped
<1>3. CASE ~answered /\ late' = late \cup {<<r, status>>} /\ UNCHANGED <<members, board>>
  BY <1>3 DEF RestTyped
<1> QED
  BY <1>1, <1>2, <1>3 DEF Post

\* A process goes on with the same commit, and the server is not asked.
LEMMA QuietStep ==
    ASSUME IInv, NEW p \in Procs, NEW x, Good(x), proc' = [proc EXCEPT ![p] = x],
           UNCHANGED <<history, server>>, lockfile' \in BOOLEAN, lockfile' => lockfile \/ Locks(x),
           Locks(proc[p]) => Locks(x), Owes(proc[p]) \subseteq Owes(x)
    PROVE  IInv'
<1>1. RestTyped'
  BY DEF IInv, RestTyped, history, server
<1>2. /\ lockfile' => \/ leftover' \/ Locks(x)
                      \/ lockfile /\ ~Locks(proc[p]) /\ (leftover => leftover')
      /\ \A r \in Commits :
            board'[<<r, Me>>] = "inprogress" =>
               \/ r \in orphans' \/ r \in Owes(x)
               \/ board[<<r, Me>>] = "inprogress" /\ r \notin Owes(proc[p])
      /\ orphans \subseteq orphans'
  BY DEF history, server
<1> QED
  BY <1>1, <1>2, ProcessStep

----------------------------------------------------------------------------

LEMMA InvStep == IInv /\ [Next]_vars => IInv'
<1> SUFFICES ASSUME IInv, [Next]_vars
             PROVE  IInv'
  OBVIOUS
<1>1. \A p \in Procs : Good(proc[p]) /\ proc[p] \in Process
  BY DEF IInv, ProcessesGood, Good
<1>2. RestTyped
  BY DEF IInv
<1>3. ASSUME NEW p \in Procs, NEW mode \in Modes, NEW locking \in Locking,
             NEW options \in Options \cup {{}}, Start(p, mode, locking, options)
      PROVE  IInv'
  <2> DEFINE given == [f \in Fields |-> IF f \in options THEN Given ELSE NoCommit]
             x == [NoProcess EXCEPT !.pc = "getwork", !.mode = mode, !.locking = locking,
                                    !.counts = given]
  <2>0. given \in [Fields -> {NoCommit} \cup (IF UNION Options = {} THEN {} ELSE {Given})]
    OBVIOUS
  <2> HIDE DEF given
  <2>1. Good(x)
    BY <2>0, ModeAssumption DEF Good, NoProcess, Process, NoCounts, Sources
  <2>2. proc' = [proc EXCEPT ![p] = x] /\ UNCHANGED <<lockfile, history, server>>
    BY <1>3 DEF Start, given
  <2>3. ~Locks(proc[p]) /\ Owes(proc[p]) = {}
    BY <1>3 DEF Start, At, Locks, Owes
  <2> HIDE DEF x
  <2> QED
    BY <1>2, <2>1, <2>2, <2>3, QuietStep DEF RestTyped
<1>4. ASSUME NEW p \in Procs, GetWork(p)
      PROVE  IInv'
  <2>1. PICK r \in Commits :
          proc' = [proc EXCEPT ![p] = [proc[p] EXCEPT
                      !.commit = r, !.pc = IF proc[p].locking THEN "checklock" ELSE "accept"]]
    BY <1>4 DEF GetWork, Selectable, Server!Open
  <2> DEFINE x == [proc[p] EXCEPT
                      !.commit = r, !.pc = IF proc[p].locking THEN "checklock" ELSE "accept"]
  <2>a. x.mode = proc[p].mode /\ Sources(x) = Sources(proc[p])
    BY <1>1 DEF Process, Sources
  <2>b. /\ x \in Process /\ x.pc \in {"checklock", "accept"} /\ (x.pc = "checklock" => x.locking)
         /\ x.commit \in Commits /\ x.counts = proc[p].counts
    BY <1>1 DEF Process
  <2>c. \A f \in Fields : proc[p].counts[f] \in Sources(proc[p])
    BY <1>1, <1>4 DEF GetWork, At, Good
  <2>2. Good(x)
    <3> HIDE DEF x
    <3> QED
      BY <2>a, <2>b, <2>c DEF Good
  <2>3. ~Locks(proc[p]) /\ Owes(proc[p]) = {}
    BY <1>4 DEF GetWork, At, Locks, Owes
  <2> HIDE DEF x
  <2> QED
    BY <1>2, <1>4, <2>1, <2>2, <2>3, QuietStep DEF GetWork, RestTyped, x
<1>5. ASSUME NEW p \in Procs, NoWork(p) \/ ReportDenied(p) \/ Crash(p)
      PROVE  IInv'
  <2>1. Exit(p) /\ UNCHANGED <<lockfile, server>>
    BY <1>5 DEF NoWork, ReportDenied, Crash
  <2> QED
    BY <1>2, <2>1, ExitStep DEF server, RestTyped
<1>6. ASSUME NEW p \in Procs, CheckLock(p)
      PROVE  IInv'
  <2>1. CASE Exit(p) /\ UNCHANGED <<lockfile, server>>
    BY <1>2, <2>1, ExitStep DEF server, RestTyped
  <2>2. CASE Goto(p, "writelock") /\ UNCHANGED <<lockfile, history, server>>
    <3> DEFINE x == [proc[p] EXCEPT !.pc = "writelock"]
    <3>0. x.mode = proc[p].mode /\ Sources(x) = Sources(proc[p])
      BY <1>1 DEF Process, Sources
    <3>1. Good(x)
      BY <1>1, <1>6, <3>0 DEF CheckLock, At, Good, Process
    <3>2. proc' = [proc EXCEPT ![p] = x]
      BY <2>2 DEF Goto
    <3>3. ~Locks(proc[p]) /\ Owes(proc[p]) = {}
      BY <1>6 DEF CheckLock, At, Locks, Owes
    <3> HIDE DEF x
    <3> QED
      BY <1>2, <2>2, <3>1, <3>2, <3>3, QuietStep DEF RestTyped
  <2> QED
    BY <1>6, <2>1, <2>2 DEF CheckLock
<1>7. ASSUME NEW p \in Procs, WriteLock(p)
      PROVE  IInv'
  <2> DEFINE x == [proc[p] EXCEPT !.pc = "accept"]
  <2>0. x.mode = proc[p].mode /\ Sources(x) = Sources(proc[p])
    BY <1>1 DEF Process, Sources
  <2>1. Good(x) /\ Locks(x)
    BY <1>1, <1>7, <2>0 DEF WriteLock, At, Good, Process, Locks
  <2>2. proc' = [proc EXCEPT ![p] = x] /\ lockfile' \in BOOLEAN
    BY <1>7 DEF WriteLock, Goto
  <2>3. Owes(proc[p]) = {}
    BY <1>7 DEF WriteLock, At, Owes
  <2> HIDE DEF x
  <2> QED
    BY <1>7, <2>1, <2>2, <2>3, QuietStep DEF WriteLock
<1>8. ASSUME NEW p \in Procs, AcceptWork(p)
      PROVE  IInv'
  <2> DEFINE x == [proc[p] EXCEPT !.pc = "build"]
             r == proc[p].commit
  <2>0. x.mode = proc[p].mode /\ Sources(x) = Sources(proc[p])
    BY <1>1 DEF Process, Sources
  <2>1. Good(x) /\ r \in Commits /\ r \in Owes(x) /\ Owes(proc[p]) = {r}
    BY <1>1, <1>8, <2>0 DEF AcceptWork, At, Good, Process, Owes
  <2>2. Locks(proc[p]) => Locks(x)
    BY <1>1, <1>8 DEF AcceptWork, At, Process, Locks
  <2>3. proc' = [proc EXCEPT ![p] = x] /\ UNCHANGED <<lockfile, history>>
    BY <1>8 DEF AcceptWork, Goto
  <2>4. \A s \in Commits : s # r => board'[<<s, Me>>] = board[<<s, Me>>]
    BY <1>2, <1>8, <2>1, Posted DEF AcceptWork
  <2>5. RestTyped'
    BY <1>2, <1>8, <2>1, <2>3, Posted DEF AcceptWork, RestTyped, history
  <2> HIDE DEF x, r
  <2> QED
    BY <2>1, <2>2, <2>3, <2>4, <2>5, ProcessStep DEF history
<1>9. ASSUME NEW p \in Procs, AcceptFails(p)
      PROVE  IInv'
  <2> DEFINE r == proc[p].commit
  <2>1. r \in Commits /\ r \in Owes(proc[p])
    BY <1>1, <1>9 DEF AcceptFails, At, Good, Owes
  <2>2. /\ UNCHANGED members
        /\ late' \subseteq Commits \X {"inprogress", "done"}
        /\ board' \in [Server!Keys -> Server!Statuses]
        /\ \A s \in Commits : s # r => board'[<<s, Me>>] = board[<<s, Me>>]
    BY <1>2, <1>9, <2>1, Posted DEF AcceptFails
  <2> QED
    BY <1>9, <2>1, <2>2, ExitStep DEF AcceptFails
<1>10. ASSUME NEW p \in Procs, Upload(p)
      PROVE  IInv'
  <2> DEFINE r == proc[p].commit
  <2>1. r \in Commits /\ r \in Owes(proc[p])
    BY <1>1, <1>10 DEF Upload, At, Good, Owes
  <2>2. RestTyped' /\ \A s \in Commits : s # r => board'[<<s, Me>>] = board[<<s, Me>>]
    BY <1>2, <1>10, <2>1, Posted DEF Upload, RestTyped, history
  <2> QED
    BY <1>10, <2>1, <2>2 DEF Upload, IInv, ProcessesGood, LockAccounted, Holding,
       InProgressAccounted, Unreported, Owes, history
<1>11. ASSUME NEW p \in Procs, Finish(p) \/ Kill(p)
      PROVE  IInv'
  <2> DEFINE Own(counts) == \A f \in Fields : counts[f] \in Sources(proc[p]) \cup {proc[p].commit}
  <2>0. /\ proc[p].pc = "build" /\ proc[p].commit \in Commits
        /\ UNCHANGED <<lockfile, history, server>>
        /\ \A f \in Fields : proc[p].counts[f] \in Sources(proc[p])
        /\ proc[p].counts \in [Fields -> Commits \cup {NoCommit, Given}]
    BY <1>1, <1>11 DEF Finish, Kill, At, Good, Process
  <2>1. PICK counts \in [Fields -> Commits \cup {NoCommit, Given}], killed \in BOOLEAN :
          /\ proc' = [proc EXCEPT ![p] =
                         [proc[p] EXCEPT !.pc = "report", !.counts = counts, !.killed = killed]]
          /\ Own(counts)
          /\ proc[p].mode # "multirun" /\ killed =>
                \E f \in Fields : counts[f] \in {proc[p].commit, Given}
    <3>0. ASSUME NEW named \in SUBSET Fields
          PROVE  /\ Parsed(p, named) \in [Fields -> Commits \cup {NoCommit, Given}]
                 /\ Own(Parsed(p, named))
      BY <2>0 DEF Parsed
    <3>1. CASE Finish(p)
      <4>1. PICK named \in SUBSET Fields :
              proc' = [proc EXCEPT ![p] = [proc[p] EXCEPT
                         !.pc = "report", !.counts = Parsed(p, named), !.killed = FALSE]]
        BY <3>1 DEF Finish
      <4> QED
        BY <3>0, <4>1
    <3>2. CASE Kill(p)
      <4>1. PICK named \in SUBSET Fields :
              proc' = [proc EXCEPT ![p] = [proc[p] EXCEPT
                         !.pc = "report", !.killed = TRUE,
                         !.counts = KilledCounts(Parsed(p, named), proc[p].commit)]]
        BY <3>2 DEF Kill
      <4> DEFINE own == Parsed(p, named)
                 counts == KilledCounts(own, proc[p].commit)
      <4>2. own \in [Fields -> Commits \cup {NoCommit, Given}] /\ "errors" \in Fields /\ Own(own)
        BY <3>0 DEF Fields
      <4> HIDE DEF own
      <4>3. counts \in [Fields -> Commits \cup {NoCommit, Given}] /\ Own(counts)
        BY <2>0, <4>2 DEF KilledCounts
      <4>4. ASSUME proc[p].mode # "multirun"
            PROVE  \E f \in Fields : counts[f] \in {proc[p].commit, Given}
        <5>1. CASE own = NoCounts
          <6>1. counts["errors"] = proc[p].commit
            BY <4>2, <5>1 DEF KilledCounts
          <6> QED
            BY <4>2, <6>1
        <5>2. CASE own # NoCounts
          <6>1. PICK f \in Fields : own[f] # NoCommit
            BY <4>2, <5>2 DEF NoCounts
          <6>2. counts[f] = own[f]
            BY <5>2 DEF KilledCounts
          <6> QED
            BY <4>2, <4>4, <6>1, <6>2 DEF Sources
        <5> QED
          BY <5>1, <5>2
      <4> HIDE DEF counts
      <4> QED
        BY <4>1, <4>3, <4>4 DEF own, counts
    <3> QED
      BY <1>11, <3>1, <3>2
  <2> DEFINE x == [proc[p] EXCEPT !.pc = "report", !.counts = counts, !.killed = killed]
  <2>b. x.mode = proc[p].mode /\ Sources(x) = Sources(proc[p])
    BY <1>1 DEF Process, Sources
  <2>c. /\ x \in Process /\ x.pc = "report" /\ x.commit = proc[p].commit
         /\ x.counts = counts /\ x.killed = killed
    BY <1>1, <2>1 DEF Process
  <2>3. Good(x)
    <3> HIDE DEF x
    <3> QED
      BY <2>0, <2>1, <2>b, <2>c DEF Good
  <2>4. (Locks(proc[p]) => Locks(x)) /\ Owes(proc[p]) = Owes(x)
    BY <1>1, <2>0 DEF Process, Locks, Owes
  <2> HIDE DEF x
  <2> QED
    BY <1>2, <2>0, <2>1, <2>3, <2>4, QuietStep DEF RestTyped, x
<1>12. ASSUME NEW p \in Procs, Report(p)
      PROVE  IInv'
  <2>1. PICK answered \in BOOLEAN :
          /\ Post(proc[p].commit, "done", answered)
          /\ Goto(p, IF answered THEN "unlock" ELSE "unlockfail")
    BY <1>12 DEF Report, FinalStatus
  <2> DEFINE x == [proc[p] EXCEPT !.pc = IF answered THEN "unlock" ELSE "unlockfail"]
             r == proc[p].commit
  <2>a. x.mode = proc[p].mode /\ Sources(x) = Sources(proc[p])
    BY <1>1 DEF Process, Sources
  <2>2. Good(x) /\ r \in Commits /\ Owes(proc[p]) = {r} /\ (~answered => r \in Owes(x))
    BY <1>1, <1>12, <2>a DEF Report, At, Good, Process, Owes
  <2>3. Locks(proc[p]) => Locks(x)
    BY <1>1, <1>12 DEF Report, At, Process, Locks
  <2>4. proc' = [proc EXCEPT ![p] = x] /\ UNCHANGED <<lockfile, history>>
    BY <1>12, <2>1 DEF Report, Goto
  <2>5. /\ \A s \in Commits : s # r => board'[<<s, Me>>] = board[<<s, Me>>]
        /\ answered => board'[<<r, Me>>] = "done"
    BY <1>2, <2>1, <2>2, Posted
  <2>6. RestTyped'
    BY <1>2, <2>1, <2>2, <2>4, Posted DEF RestTyped, history
  <2> HIDE DEF x, r
  <2> QED
    BY <2>2, <2>3, <2>4, <2>5, <2>6, ProcessStep DEF history
<1>13. ASSUME NEW p \in Procs, Unlock(p)
      PROVE  IInv'
  <2> DEFINE x == IF At(p, "unlock") /\ proc[p].mode = "multirun"
                  THEN [proc[p] EXCEPT !.pc = "getwork"] ELSE NoProcess
  <2>1. proc' = [proc EXCEPT ![p] = x]
    BY <1>13 DEF Unlock, Goto
  <2>2. Good(x)
    BY <1>1 DEF At, Good, Process, NoProcess, NoCounts, Sources
  <2>3. Owes(proc[p]) \subseteq Commits /\ orphans' = orphans \cup Owes(proc[p]) /\ UNCHANGED server
    BY <1>1, <1>13 DEF Unlock, Good, Owes, Unreported
  <2>4. /\ lockfile' \in BOOLEAN /\ leftover' \in BOOLEAN
        /\ lockfile' => lockfile /\ ~proc[p].locking
        /\ lockfile' /\ leftover => leftover'
    BY <1>13, Zenon DEF Unlock, RemoveLock
  <2>5. RestTyped'
    BY <1>2, <2>3, <2>4 DEF RestTyped, server
  <2> HIDE DEF x
  <2> QED
    BY <2>1, <2>2, <2>3, <2>4, <2>5, ProcessStep DEF server, Locks
<1>14. CASE Arrive
  <2>1. PICK m \in late :
          /\ Server!Report(<<m[1], Me>>, m[2])
          /\ late' = late \ {m}
          /\ orphans' = IF m[2] = "inprogress" THEN orphans \cup {m[1]} ELSE orphans
    BY <1>14 DEF Arrive
  <2>2. /\ m[1] \in Commits /\ m[2] \in {"inprogress", "done"}
        /\ \A s \in Commits : <<s, Me>> \in Server!Keys
    BY <1>2 DEF RestTyped, Server!Keys
  <2>3. board' = [board EXCEPT ![<<m[1], Me>>] = m[2]] /\ UNCHANGED <<members, proc, lockfile, leftover>>
    BY <1>14, <2>1 DEF Arrive, Server!Report
  <2>4. \A s \in Commits : board'[<<s, Me>>] = IF s = m[1] THEN m[2] ELSE board[<<s, Me>>]
    BY <1>2, <2>2, <2>3 DEF RestTyped
  <2>5. RestTyped'
    BY <1>2, <2>1, <2>2, <2>3 DEF RestTyped, Server!Statuses
  <2> QED
    BY <2>1, <2>3, <2>4, <2>5 DEF IInv, ProcessesGood, LockAccounted, Holding, InProgressAccounted, Unreported
<1>15. CASE Administer
  <2>1. /\ UNCHANGED <<proc, lockfile, history, late>>
        /\ members' \subseteq {Me}
        /\ board' \in [Server!Keys -> Server!Statuses]
        /\ \A k \in Server!Keys : board'[k] \in {board[k], "none"}
    BY <1>2, <1>15 DEF Administer, Server!Forget, Server!Withdraw, Server!Leave, Server!Without,
        Server!Statuses, RestTyped
  <2>2. \A r \in Commits : <<r, Me>> \in Server!Keys
    BY DEF Server!Keys
  <2> QED
    BY <2>1, <2>2 DEF IInv, RestTyped, ProcessesGood, LockAccounted, Holding, InProgressAccounted, Unreported, history
<1>16. CASE UNCHANGED vars
  BY <1>16 DEF vars, history, server, IInv, ProcessesGood, RestTyped, LockAccounted, Holding,
     InProgressAccounted, Unreported
<1> QED
  BY <1>3, <1>4, <1>5, <1>6, <1>7, <1>8, <1>9, <1>10, <1>11, <1>12, <1>13, <1>14, <1>15, <1>16 DEF Next

----------------------------------------------------------------------------
(* Theorems.                                                                *)

LEMMA Invariant == Spec => []IInv
<1>1. Init => IInv
  <2> SUFFICES ASSUME Init
               PROVE  IInv
    OBVIOUS
  <2>1. ProcessesGood
    BY DEF Init, ProcessesGood, Good, NoProcess, Process, NoCounts, Sources
  <2>2. RestTyped
    BY DEF Init, RestTyped, Server!Statuses
  <2>3. LockAccounted
    BY DEF Init, LockAccounted
  <2>4. InProgressAccounted
    <3>1. \A r \in Commits : <<r, Me>> \in Server!Keys
      BY DEF Server!Keys
    <3> QED
      BY <3>1 DEF Init, InProgressAccounted
  <2> QED
    BY <2>1, <2>2, <2>3, <2>4 DEF IInv
<1> QED
  BY <1>1, InvStep, PTL DEF Spec

\* Every variable has its type, and nothing of a process outlives it.
THEOREM TypeCorrect == Spec => []TypeOK
<1>1. IInv => TypeOK
  BY DEF IInv, ProcessesGood, RestTyped, Good, At, TypeOK
<1> QED
  BY <1>1, Invariant, PTL

\* A lock file that no process works under is one that a process left behind, for any number
\* of processes on the machine.
THEOREM LocksAccounted == Spec => []LockAccounted
<1>1. IInv => LockAccounted
  BY DEF IInv
<1> QED
  BY <1>1, Invariant, PTL

\* A commit that is in progress and that nobody builds is one that a builder gave up on, or
\* whose requests overtook each other.
THEOREM BuildsAccounted == Spec => []InProgressAccounted
<1>1. IInv => InProgressAccounted
  BY DEF IInv
<1> QED
  BY <1>1, Invariant, PTL

\* A count that goes out with a commit's final result and is not from that commit's build
\* is one of an earlier build of the same --multirun, or came with an option.
CountsAccounted ==
    \A p \in Procs, f \in Fields :
        At(p, "report") =>
            \/ proc[p].counts[f] \in {NoCommit, proc[p].commit}
            \/ proc[p].counts[f] \in Commits /\ proc[p].mode = "multirun"
            \/ proc[p].counts[f] = Given /\ UNION Options # {}

\* Run sends a commit's final result with the counts of its build, but for two causes: the
\* counts that --multirun keeps of the builds before, and the ones that --run and
\* --multirun take from the command line.  A process that has neither sends only its own.
THEOREM CountsOfOneBuild ==
    /\ Spec => []CountsAccounted
    /\ "multirun" \notin Modes /\ UNION Options = {} => (Spec => []CountsOfThisBuild)
<1>1. IInv => CountsAccounted
  BY DEF IInv, ProcessesGood, Good, Sources, CountsAccounted, At
<1>2. ASSUME "multirun" \notin Modes, UNION Options = {}
      PROVE  IInv => CountsOfThisBuild
  <2> SUFFICES ASSUME IInv, NEW p \in Procs, At(p, "report")
               PROVE  \A f \in Fields : proc[p].counts[f] \in {NoCommit, proc[p].commit}
    BY DEF CountsOfThisBuild
  <2>1. proc[p].mode # "multirun"
    BY <1>2, ModeAssumption DEF IInv, ProcessesGood, Process
  <2> QED
    BY <1>2, <2>1 DEF IInv, ProcessesGood, Good, Sources
<1>3. Spec => []CountsAccounted
  BY <1>1, Invariant, PTL
<1>4. ASSUME "multirun" \notin Modes, UNION Options = {}
      PROVE  Spec => []CountsOfThisBuild
  <2>1. IInv => CountsOfThisBuild
    BY <1>2, <1>4
  <2> QED
    BY <2>1, Invariant, PTL
<1> QED
  BY <1>3, <1>4

\* A build killed at test_timeout is reported with a count of its own, or with one its
\* process was started with.
THEOREM KilledBuildsReported == Spec => []KilledReported
<1>1. IInv => KilledReported
  BY DEF IInv, ProcessesGood, Good, KilledReported, At
<1> QED
  BY <1>1, Invariant, PTL

----------------------------------------------------------------------------
(* The board.                                                               *)

\* A POST is a report on the board, or leaves it alone.
LEMMA PostOnBoard ==
    ASSUME NEW r \in Commits, NEW status \in {"inprogress", "done"}, NEW answered, Post(r, status, answered)
    PROVE  Server!Next \/ UNCHANGED Server!boardVars
<1>1. CASE Server!Report(<<r, Me>>, status)
  BY <1>1 DEF Server!Next, Server!Keys
<1>2. CASE UNCHANGED <<members, board>>
  BY <1>2 DEF Server!boardVars
<1> QED
  BY <1>1, <1>2 DEF Post, server

\* The processes of a machine, and what Builder takes the server to do beside them, do
\* nothing to the board that JobBoard does not allow: no step but a report in the name of
\* this client, a clean-up, a withdrawal or the end of the client.
THEOREM StaysOnBoard == Spec => [][Server!Next]_(Server!boardVars)
<1>1. ASSUME IInv, [Next]_vars
      PROVE  Server!Next \/ UNCHANGED Server!boardVars
  <2>1. \A p \in Procs : proc[p].pc \notin {"out", "getwork"} => proc[p].commit \in Commits
    BY <1>1 DEF IInv, ProcessesGood, Good
  <2>2. ASSUME NEW p \in Procs, AcceptWork(p) \/ AcceptFails(p) \/ Upload(p)
        PROVE  Server!Next \/ UNCHANGED Server!boardVars
    <3>1. \E answered \in BOOLEAN : Post(proc[p].commit, "inprogress", answered)
      BY <2>2 DEF AcceptWork, AcceptFails, Upload
    <3>2. proc[p].commit \in Commits
      BY <2>1, <2>2 DEF AcceptWork, AcceptFails, Upload, At
    <3> QED
      BY <3>1, <3>2, PostOnBoard
  <2>3. ASSUME NEW p \in Procs, Report(p)
        PROVE  Server!Next \/ UNCHANGED Server!boardVars
    BY <2>1, <2>3, PostOnBoard DEF Report, FinalStatus, At
  <2>4. CASE Arrive
    <3>1. PICK m \in late : Server!Report(<<m[1], Me>>, m[2])
      BY <2>4 DEF Arrive
    <3>2. m[1] \in Commits /\ m[2] \in {"inprogress", "done"}
      BY <1>1 DEF IInv, RestTyped
    <3> QED
      BY <3>1, <3>2 DEF Server!Next, Server!Keys
  <2>5. CASE Administer
    <3>1. ASSUME NEW S \in SUBSET Server!Keys, Server!Withdraw(S)
          PROVE  Server!Next
      <4> DEFINE R == {r \in Commits : <<r, Me>> \in S}
      <4>1. R \X {Me} = S
        BY DEF Server!Keys
      <4>2. R \in SUBSET Commits
        OBVIOUS
      <4> HIDE DEF R
      <4> QED
        BY <3>1, <4>1, <4>2 DEF Server!Next
    <3> QED
      BY <2>5, <3>1 DEF Administer, Server!Next
  <2>6. CASE UNCHANGED server
    BY <2>6 DEF server, Server!boardVars
  <2> QED
    BY <1>1, <2>2, <2>3, <2>4, <2>5, <2>6
    DEF Next, Start, GetWork, NoWork, CheckLock, WriteLock, Finish, Kill, ReportDenied, Unlock, Crash,
        vars
<1>2. IInv /\ [Next]_vars => [Server!Next]_(Server!boardVars)
  BY <1>1
<1> QED
  BY <1>2, Invariant, PTL DEF Spec

----------------------------------------------------------------------------
(* The lock file, but for the gap between looking for it and writing it.    *)

\* The gap is not hit: no two processes find the file missing before one has written it.
OneWriter == \A p, q \in Procs : At(p, "writelock") /\ At(q, "writelock") => p = q

Within(p) == Holding(p) \/ At(p, "writelock")

\* Whoever is past the look is alone there, and whoever is past the write has its file.
LockTaken ==
    /\ \A p, q \in Procs : Within(p) /\ Within(q) => p = q
    /\ \A p \in Procs : Holding(p) => lockfile

\* A process that moves from where it was to where the file is its own, or out of the way.
LEMMA LockMove ==
    ASSUME IInv, LockTaken, NEW p \in Procs, NEW x, x \in Process, proc' = [proc EXCEPT ![p] = x],
           Locks(x) \/ x.pc = "writelock" => Within(p),
           Locks(x) => lockfile',
           lockfile => lockfile' \/ Holding(p)
    PROVE  LockTaken'
<1>1. /\ proc \in [Procs -> Process] /\ proc'[p] = x
      /\ \A q \in Procs : q # p => proc'[q] = proc[q]
  BY DEF IInv, ProcessesGood
<1>2. \A q \in Procs : q # p => (Within(q)' <=> Within(q)) /\ (Holding(q)' <=> Holding(q))
  BY <1>1 DEF Within, Holding, At
<1>3. Within(p)' => Within(p)
  BY <1>1 DEF Within, Holding, At, Locks
<1>4. \A q, s \in Procs : Within(q)' /\ Within(s)' => q = s
  BY <1>2, <1>3 DEF LockTaken
<1>5. ASSUME NEW q \in Procs, Holding(q)'
      PROVE  lockfile'
  <2>1. CASE q = p
    BY <1>1, <1>5, <2>1 DEF Holding, Locks
  <2>2. CASE q # p
    BY <1>2, <1>5, <2>2 DEF LockTaken, Within
  <2> QED
    BY <2>1, <2>2
<1> QED
  BY <1>4, <1>5 DEF LockTaken

LEMMA LockTakenStep == IInv /\ LockTaken /\ OneWriter' /\ [Next]_vars => LockTaken'
<1> SUFFICES ASSUME IInv, LockTaken, OneWriter', [Next]_vars
             PROVE  LockTaken'
  OBVIOUS
<1>1. \A p \in Procs : Good(proc[p]) /\ proc[p] \in Process
  BY DEF IInv, ProcessesGood, Good
<1>2. ASSUME NEW p \in Procs, Exit(p), UNCHANGED lockfile
      PROVE  LockTaken'
  <2>1. NoProcess \in Process /\ ~Locks(NoProcess) /\ NoProcess.pc # "writelock"
    BY DEF NoProcess, Process, NoCounts, Locks
  <2> QED
    BY <1>2, <2>1, LockMove DEF Exit
<1>3. ASSUME NEW p \in Procs, NEW mode \in Modes, NEW locking \in Locking,
             NEW options \in Options \cup {{}}, Start(p, mode, locking, options)
      PROVE  LockTaken'
  <2> DEFINE x == [NoProcess EXCEPT !.pc = "getwork", !.mode = mode, !.locking = locking,
                                    !.counts = [f \in Fields |->
                                        IF f \in options THEN Given ELSE NoCommit]]
  <2>1. x \in Process /\ ~Locks(x) /\ x.pc # "writelock"
    BY ModeAssumption DEF NoProcess, Process, NoCounts, Locks
  <2>2. proc' = [proc EXCEPT ![p] = x] /\ UNCHANGED lockfile
    BY <1>3 DEF Start
  <2> HIDE DEF x
  <2> QED
    BY <2>1, <2>2, LockMove
<1>4. ASSUME NEW p \in Procs, GetWork(p)
      PROVE  LockTaken'
  <2>1. PICK r \in Commits :
          proc' = [proc EXCEPT ![p] = [proc[p] EXCEPT
                      !.commit = r, !.pc = IF proc[p].locking THEN "checklock" ELSE "accept"]]
    BY <1>4 DEF GetWork, Selectable, Server!Open
  <2> DEFINE x == [proc[p] EXCEPT
                      !.commit = r, !.pc = IF proc[p].locking THEN "checklock" ELSE "accept"]
  <2>2. x \in Process /\ ~Locks(x) /\ x.pc # "writelock"
    BY <1>1 DEF Process, Locks
  <2> HIDE DEF x
  <2> QED
    BY <1>4, <2>1, <2>2, LockMove DEF GetWork, x
<1>5. ASSUME NEW p \in Procs, CheckLock(p), ~lockfile
      PROVE  LockTaken'
  <2>1. /\ \A q \in Procs : q # p => proc'[q] = proc[q]
        /\ At(p, "writelock")'
        /\ UNCHANGED lockfile
    <3>1. Goto(p, "writelock") /\ UNCHANGED lockfile
      BY <1>5, Zenon DEF CheckLock
    <3> QED
      BY <1>1, <3>1 DEF Goto, At, Process, IInv, ProcessesGood
  <2>2. \A q \in Procs : ~Holding(q)
    BY <1>5 DEF LockTaken
  <2>3. \A q \in Procs : ~Holding(q)'
    BY <2>1, <2>2 DEF Holding, At
  <2>4. \A q \in Procs : Within(q)' => At(q, "writelock")'
    BY <2>3 DEF Within
  <2> QED
    BY <2>3, <2>4 DEF LockTaken, OneWriter
<1>6. ASSUME NEW p \in Procs, WriteLock(p)
      PROVE  LockTaken'
  <2> DEFINE x == [proc[p] EXCEPT !.pc = "accept"]
  <2>1. x \in Process /\ Within(p)
    BY <1>1, <1>6 DEF WriteLock, Process, Within
  <2>2. proc' = [proc EXCEPT ![p] = x] /\ lockfile'
    BY <1>6 DEF WriteLock, Goto
  <2> HIDE DEF x
  <2> QED
    BY <2>1, <2>2, LockMove
<1>7. ASSUME NEW p \in Procs, NEW x, x \in Process, proc' = [proc EXCEPT ![p] = x], UNCHANGED lockfile,
             x.locking = proc[p].locking, x.pc \in {"build", "report", "unlock", "unlockfail"},
             proc[p].pc \in {"accept", "build", "report"}
      PROVE  LockTaken'
  <2>1. Locks(x) => Holding(p)
    BY <1>7 DEF Locks, Holding
  <2> QED
    BY <1>7, <2>1, LockMove DEF LockTaken, Within
<1>8. ASSUME NEW p \in Procs, AcceptWork(p)
      PROVE  LockTaken'
  <2> DEFINE x == [proc[p] EXCEPT !.pc = "build"]
  <2>1. x \in Process /\ x.locking = proc[p].locking /\ x.pc = "build"
    BY <1>1 DEF Process
  <2> HIDE DEF x
  <2> QED
    BY <1>7, <1>8, <2>1 DEF AcceptWork, Goto, At, x
<1>9. ASSUME NEW p \in Procs, Finish(p) \/ Kill(p)
      PROVE  LockTaken'
  <2>1. PICK x \in Process : /\ proc' = [proc EXCEPT ![p] = x]
                             /\ x.locking = proc[p].locking /\ x.pc = "report"
    <3>1. proc'[p] \in Process
      BY InvStep DEF IInv, ProcessesGood
    <3>2. CASE Finish(p)
      <4>1. PICK named \in SUBSET Fields :
              proc' = [proc EXCEPT ![p] = [proc[p] EXCEPT
                         !.pc = "report", !.counts = Parsed(p, named), !.killed = FALSE]]
        BY <3>2 DEF Finish
      <4> QED
        BY <1>1, <3>1, <4>1 DEF Process, IInv, ProcessesGood
    <3>3. CASE Kill(p)
      <4>1. PICK named \in SUBSET Fields :
              proc' = [proc EXCEPT ![p] = [proc[p] EXCEPT
                         !.pc = "report", !.killed = TRUE,
                         !.counts = KilledCounts(Parsed(p, named), proc[p].commit)]]
        BY <3>3 DEF Kill
      <4> QED
        BY <1>1, <3>1, <4>1 DEF Process, IInv, ProcessesGood
    <3> QED
      BY <1>9, <3>2, <3>3
  <2> QED
    BY <1>7, <1>9, <2>1 DEF Finish, Kill, At
<1>10. ASSUME NEW p \in Procs, Report(p)
      PROVE  LockTaken'
  <2>1. PICK answered \in BOOLEAN : Goto(p, IF answered THEN "unlock" ELSE "unlockfail")
    BY <1>10 DEF Report
  <2> DEFINE x == [proc[p] EXCEPT !.pc = IF answered THEN "unlock" ELSE "unlockfail"]
  <2>2. x \in Process /\ x.locking = proc[p].locking /\ x.pc \in {"unlock", "unlockfail"}
    BY <1>1 DEF Process
  <2> HIDE DEF x
  <2> QED
    BY <1>7, <1>10, <2>1, <2>2 DEF Report, Goto, At, x
<1>11. ASSUME NEW p \in Procs, Unlock(p)
      PROVE  LockTaken'
  <2> DEFINE x == IF At(p, "unlock") /\ proc[p].mode = "multirun"
                  THEN [proc[p] EXCEPT !.pc = "getwork"] ELSE NoProcess
  <2>1. x \in Process /\ ~Locks(x) /\ x.pc # "writelock"
    BY <1>1 DEF NoProcess, Process, NoCounts, Locks
  <2>2. proc' = [proc EXCEPT ![p] = x] /\ (lockfile => lockfile' \/ Holding(p))
    <3>1. lockfile' <=> lockfile /\ ~proc[p].locking
      BY <1>11, Zenon DEF Unlock, RemoveLock
    <3>2. proc[p].locking => Holding(p)
      BY <1>11 DEF Unlock, Holding
    <3> QED
      BY <1>11, <3>1, <3>2 DEF Unlock, Goto
  <2> HIDE DEF x
  <2> QED
    BY <2>1, <2>2, LockMove
<1>12. CASE UNCHANGED <<proc, lockfile>>
  BY <1>12 DEF LockTaken, Within, Holding, At
<1> QED
  BY <1>2, <1>3, <1>4, <1>5, <1>6, <1>8, <1>9, <1>10, <1>11, <1>12
  DEF Next, NoWork, CheckLock, AcceptFails, Upload, ReportDenied, Crash, Arrive, Administer,
      vars, history, server

\* The lock keeps the locking processes of a machine apart in every behaviour in which the
\* gap between FileExists and SaveFile is not hit: the gap is the only way LockExclusive
\* is refuted, however many processes there are, with or without --nolock, crashes and
\* lost requests.
THEOREM LockExclusiveButForTheGap == Spec /\ []OneWriter => []LockExclusive
<1>1. Init => LockTaken
  BY DEF Init, LockTaken, Within, Holding, At, NoProcess
<1>2. LockTaken => LockExclusive
  BY DEF LockTaken, LockExclusive, Within
<1> QED
  BY <1>1, <1>2, LockTakenStep, Invariant, PTL DEF Spec

=============================================================================
