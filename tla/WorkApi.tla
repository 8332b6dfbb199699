------------------------------ MODULE WorkApi ------------------------------
(***************************************************************************)
(* The work-distribution core of the Watchdog server: the tables COMMITS,  *)
(* CLIENT, RESULT and AUTH, the output files beside them, and the request  *)
(* handlers of src/src/Watchdog/Server that change them.                   *)
(*                                                                         *)
(* Every handler that changes these tables first calls CheckAuth, whose    *)
(* DELETE takes the write lock of the SQLite database, and Skylark commits *)
(* the transaction when the handler returns.  So a handler that only       *)
(* writes the database is one step; a handler that also writes or deletes  *)
(* output files, which no transaction covers, is several steps of the one  *)
(* open transaction tx, and may be aborted between them: the worker dies   *)
(* or SQL throws, the database rolls back, the files do not.               *)
(*                                                                         *)
(* A point in time is kept as its age, counted up to one past the limit it *)
(* is compared with, so time itself needs no bound.                        *)
(***************************************************************************)
EXTENDS Naturals

CONSTANTS
    Clients,      \* ids that CLIENT rows may get; the administrator, id 0, is not one
    Commits,      \* commit UIDs
    Branches,
    BranchOf,     \* BRANCH of each commit
    Nonces,       \* UUIDs handed out by Auth, each also the name of the request that uses it
    NoNonce,
    NoTime,       \* SQL NULL in a TIME column
    MaxTestTime,  \* Ini::max_test_time
    NonceLife     \* the 600 seconds of CleanAuth

ASSUME LimitAssumption == MaxTestTime \in Nat /\ NonceLife \in Nat
ASSUME NullAssumption == NoNonce \notin Nonces /\ NoTime \notin Nat
ASSUME BranchAssumption == BranchOf \in [Commits -> Branches]

VARIABLES
    commits,   \* UIDs with a row in COMMITS
    clients,   \* AUTO_INCREMENT never reuses an id: "new", "registered" or "removed"
    result,    \* RESULT, by its unique key
    log,       \* <output_dir>/<commit>/<client>.log: the submission whose output it holds
    auth,      \* AUTH: the age of each stored nonce, NoTime for one that is not stored
    tx,        \* the open transaction of a handler that also touches output files
    cleaning,  \* the work an answered Clean request has yet to do
    torn       \* history: keys whose handler was aborted after it touched the file

vars == <<commits, clients, result, log, auth, tx, cleaning, torn>>

----------------------------------------------------------------------------

Keys == Commits \X Clients

StartAges == 0 .. (MaxTestTime + 1)
NonceAges == 0 .. (NonceLife + 1)

\* A row of RESULT.  "by" is the submission that wrote OK, ERR, FAIL and SKIP.
Row == [status   : {"none", "inprogress", "done"},
        start    : StartAges \cup {NoTime},
        finished : BOOLEAN,
        by       : Nonces \cup {NoNonce}]

\* The absent row, which carries the column defaults: an INSERT of some columns
\* and an UPDATE of them are then the same change (Upsert).
NoRow == [status |-> "none", start |-> NoTime, finished |-> FALSE, by |-> NoNonce]

\* rows are the RESULT rows to write or delete at commit, files the output files
\* still to be deleted, drop the CLIENT rows to delete.
Tx == [op      : {"idle", "submit", "remove"},
       nonce   : Nonces \cup {NoNonce},
       rows    : SUBSET Keys,
       files   : SUBSET Keys,
       drop    : SUBSET Clients,
       partial : BOOLEAN,
       given   : BOOLEAN]

Idle == [op |-> "idle", nonce |-> NoNonce, rows |-> {}, files |-> {}, drop |-> {},
         partial |-> FALSE, given |-> FALSE]

Registered(c) == clients[c] = "registered"
Exists(k) == result[k].status # "none"
InProgress(k) == result[k].status = "inprogress"
Done(k) == result[k].status = "done"

\* SQL's  t < now - limit : never true of NULL.
OlderThan(age, limit) == age # NoTime /\ age > limit

----------------------------------------------------------------------------
(* Faulty variants of operators defined below, kept to show that the        *)
(* properties notice such a fault.                                          *)

SpendForgotten(n) == UNCHANGED auth

AuthorisedWithoutClient(n, c) == tx = Idle /\ auth[n] # NoTime

EndTransactionOpOnly == tx' = [tx EXCEPT !.op = "idle"]

SaveOutputOnce(k, n) == log' = [log EXCEPT ![k] = IF @ = NoNonce THEN n ELSE @]

CleanableAnyStatus(k) == Exists(k) /\ OlderThan(result[k].start, MaxTestTime)

CleanableOffByOne(k) == InProgress(k) /\ OlderThan(result[k].start, MaxTestTime + 1)

ExpiredOffByOne(n) == OlderThan(auth[n], NonceLife + 1)

----------------------------------------------------------------------------
(* What the handlers share.                                                 *)

\* A nonce Uuid::Create may return: none that is stored or that named a request.
Unused(n) == auth[n] = NoTime /\ \A k \in Keys : log[k] # n /\ result[k].by # n

\* CheckAuth deletes the nonce before it compares passwords.
Spend(n) == auth' = [auth EXCEPT ![n] = NoTime]

\* CheckAuth succeeds for client c: the nonce is stored and c still has a PASSWORD.
\* (It would also accept the administrator in c's place; wdc always names the same
\* client in the path and in client_id.)  Waiting for the write lock is waiting for tx
\* to be idle.
Authorised(n, c) == tx = Idle /\ auth[n] # NoTime /\ Registered(c)

\* CheckAuth succeeds for the administrator.
AuthorisedAdmin(n) == tx = Idle /\ auth[n] # NoTime

\* The transaction of a handler with file operations ends, committed or not.
EndTransaction == tx' = Idle

\* Auth (GET /auth/...) stores a new nonce.
IssueNonce(n) ==
    /\ tx = Idle
    /\ Unused(n)
    /\ auth' = [auth EXCEPT ![n] = 0]
    /\ UNCHANGED <<commits, clients, result, log, tx, cleaning, torn>>

\* A request in the name of a removed client: its nonce is spent, and no more.
Denied(n, c) ==
    /\ tx = Idle
    /\ auth[n] # NoTime
    /\ clients[c] = "removed"
    /\ Spend(n)
    /\ UNCHANGED <<commits, clients, result, log, tx, cleaning, torn>>

----------------------------------------------------------------------------
(* The client API.                                                          *)

\* The columns AcceptWork writes, into any row there is, whatever its STATUS.
Accepted(old, age) == [old EXCEPT !.status = "inprogress", !.start = age]

\* AcceptWork: START is what the client posted, or now (age 0) when it posted none.
AcceptWork(n, c, r, age) ==
    /\ Authorised(n, c)
    /\ result' = [result EXCEPT ![<<r, c>>] = Accepted(@, age)]
    /\ Spend(n)
    /\ UNCHANGED <<commits, clients, log, tx, cleaning, torn>>

SaveOutput(k, n) == log' = [log EXCEPT ![k] = n]

\* SubmitWork up to SaveFile; given says whether "start" was posted.  Only wdc's Run
\* sends partial results, and it always posts the start it recorded.
SubmitWork(n, c, r, partial, given) ==
    /\ partial => given
    /\ Authorised(n, c)
    /\ SaveOutput(<<r, c>>, n)
    /\ tx' = [op |-> "submit", nonce |-> n, rows |-> {<<r, c>>}, files |-> {}, drop |-> {},
              partial |-> partial, given |-> given]
    /\ UNCHANGED <<commits, clients, result, auth, cleaning, torn>>

\* The columns SubmitWork writes.  START is written when none was posted, as NULL;
\* FINISHED when the submission is final.
Submitted(old) ==
    [status   |-> IF tx.partial THEN "inprogress" ELSE "done",
     start    |-> IF tx.given THEN old.start ELSE NoTime,
     finished |-> old.finished \/ ~tx.partial,
     by       |-> tx.nonce]

\* SubmitWork from result.Save() to the commit.
SubmitCommit ==
    /\ tx.op = "submit"
    /\ result' = [k \in Keys |-> IF k \in tx.rows THEN Submitted(result[k]) ELSE result[k]]
    /\ Spend(tx.nonce)
    /\ torn' = torn \ tx.rows
    /\ EndTransaction
    /\ UNCHANGED <<commits, clients, log, cleaning>>

----------------------------------------------------------------------------
(* The administrator and the web pages.                                     *)

\* Update, for one line of the posted data (Upsert of the commit); see CommitUpdate.
Update(n, r) ==
    /\ AuthorisedAdmin(n)
    /\ commits' = commits \cup {r}
    /\ Spend(n)
    /\ UNCHANGED <<clients, result, log, tx, cleaning, torn>>

\* Branch::Delete: the results of the branch's commits, then the commits; no file.
DeleteBranch(n, b) ==
    LET gone == {r \in commits : BranchOf[r] = b} IN
    /\ AuthorisedAdmin(n)
    /\ result' = [k \in Keys |-> IF k[1] \in gone THEN NoRow ELSE result[k]]
    /\ commits' = commits \ gone
    /\ Spend(n)
    /\ UNCHANGED <<clients, log, tx, cleaning, torn>>

\* SaveClient of a new client, or of one that is registered already.  (Of one that was
\* removed the administrator makes a new one.)
SaveClient(n, c) ==
    /\ AuthorisedAdmin(n)
    /\ clients[c] # "removed"
    /\ clients' = [clients EXCEPT ![c] = "registered"]
    /\ Spend(n)
    /\ UNCHANGED <<commits, result, log, tx, cleaning, torn>>

\* Result::Delete starts: the rows are deleted in the transaction, then file by file.
Delete(n, rows, drop) ==
    /\ AuthorisedAdmin(n)
    /\ tx' = [op |-> "remove", nonce |-> n, rows |-> rows, files |-> rows, drop |-> drop,
              partial |-> FALSE, given |-> FALSE]
    /\ UNCHANGED <<commits, clients, result, log, auth, cleaning, torn>>

\* Remove: one result.
Remove(n, k) == Delete(n, {k}, {})

\* RemoveClient: every result of the client, then the client.
RemoveClient(n, c) == Registered(c) /\ Delete(n, {k \in Keys : k[2] = c}, {c})

\* DeleteFile, once per file.
DeleteLog(k) ==
    /\ tx.op = "remove"
    /\ k \in tx.files
    /\ log' = [log EXCEPT ![k] = NoNonce]
    /\ tx' = [tx EXCEPT !.files = @ \ {k}]
    /\ UNCHANGED <<commits, clients, result, auth, cleaning, torn>>

RemoveCommit ==
    /\ tx.op = "remove"
    /\ tx.files = {}
    /\ result' = [k \in Keys |-> IF k \in tx.rows THEN NoRow ELSE result[k]]
    /\ clients' = [c \in Clients |-> IF c \in tx.drop THEN "removed" ELSE clients[c]]
    /\ Spend(tx.nonce)
    /\ torn' = torn \ tx.rows
    /\ EndTransaction
    /\ UNCHANGED <<commits, log, cleaning>>

\* The handler of tx fails: the database rolls back, its nonce included.
Abort ==
    /\ tx # Idle
    /\ torn' = torn \cup (tx.rows \ tx.files)
    /\ EndTransaction
    /\ UNCHANGED <<commits, clients, result, log, auth, cleaning>>

----------------------------------------------------------------------------
(* Cleaning.                                                                *)

\* Clean answers, and only then cleans.
Clean(n) ==
    /\ AuthorisedAdmin(n)
    /\ cleaning = "no"
    /\ cleaning' = "results"
    /\ Spend(n)
    /\ UNCHANGED <<commits, clients, result, log, tx, torn>>

\* The condition of CleanResults.
Cleanable(k) == InProgress(k) /\ OlderThan(result[k].start, MaxTestTime)

CleanResults ==
    /\ tx = Idle
    /\ cleaning = "results"
    /\ result' = [k \in Keys |-> IF Cleanable(k) THEN NoRow ELSE result[k]]
    /\ cleaning' = "auth"
    /\ UNCHANGED <<commits, clients, log, auth, tx, torn>>

\* The condition of CleanAuth.
Expired(n) == OlderThan(auth[n], NonceLife)

CleanAuth ==
    /\ tx = Idle
    /\ cleaning = "auth"
    /\ auth' = [n \in Nonces |-> IF Expired(n) THEN NoTime ELSE auth[n]]
    /\ cleaning' = "no"
    /\ UNCHANGED <<commits, clients, result, log, tx, torn>>

\* The worker dies after it answered the Clean request.
CleanLost ==
    /\ cleaning # "no"
    /\ cleaning' = "no"
    /\ UNCHANGED <<commits, clients, result, log, auth, tx, torn>>

----------------------------------------------------------------------------

Aged(t, limit) == IF t = NoTime \/ t > limit THEN t ELSE t + 1

Tick ==
    /\ result' = [k \in Keys |-> [result[k] EXCEPT !.start = Aged(@, MaxTestTime)]]
    /\ auth' = [n \in Nonces |-> Aged(auth[n], NonceLife)]
    /\ UNCHANGED <<commits, clients, log, tx, cleaning, torn>>

Init ==
    /\ commits = {}
    /\ clients = [c \in Clients |-> "new"]
    /\ result = [k \in Keys |-> NoRow]
    /\ log = [k \in Keys |-> NoNonce]
    /\ auth = [n \in Nonces |-> NoTime]
    /\ tx = Idle
    /\ cleaning = "no"
    /\ torn = {}

Authenticated(n) ==
    \/ \E c \in Clients, r \in Commits, age \in StartAges : AcceptWork(n, c, r, age)
    \/ \E c \in Clients, r \in Commits, partial, given \in BOOLEAN :
          SubmitWork(n, c, r, partial, given)
    \/ \E r \in Commits : Update(n, r)
    \/ \E b \in Branches : DeleteBranch(n, b)
    \/ \E c \in Clients : SaveClient(n, c) \/ RemoveClient(n, c) \/ Denied(n, c)
    \/ \E k \in Keys : Remove(n, k)
    \/ Clean(n)

Next ==
    \/ \E n \in Nonces : IssueNonce(n) \/ Authenticated(n)
    \/ SubmitCommit
    \/ \E k \in Keys : DeleteLog(k)
    \/ RemoveCommit
    \/ Abort
    \/ CleanResults
    \/ CleanAuth
    \/ CleanLost
    \/ Tick

Spec == Init /\ [][Next]_vars

\* Time passes; a nonce is handed out when one is asked for; the administrator's
\* clean job keeps asking, and not every one of its attempts is lost; an open
\* transaction ends.
Fairness ==
    /\ WF_vars(Tick)
    /\ WF_vars(\E n \in Nonces : IssueNonce(n))
    /\ SF_vars(\E n \in Nonces : Clean(n))
    /\ SF_vars(CleanResults)
    /\ SF_vars(CleanAuth)
    /\ WF_vars(SubmitCommit)
    /\ WF_vars(\E k \in Keys : DeleteLog(k))
    /\ WF_vars(RemoveCommit)

FairSpec == Spec /\ Fairness

----------------------------------------------------------------------------
(* Properties.                                                              *)

\* Every variable has its type, and nothing of a transaction outlives it.
TypeOK ==
    /\ commits \subseteq Commits
    /\ clients \in [Clients -> {"new", "registered", "removed"}]
    /\ result \in [Keys -> Row]
    /\ log \in [Keys -> Nonces \cup {NoNonce}]
    /\ auth \in [Nonces -> NonceAges \cup {NoTime}]
    /\ tx \in Tx
    /\ tx.op = "idle" => tx = Idle
    /\ tx.op # "idle" => tx.nonce \in Nonces
    /\ cleaning \in {"no", "results", "auth"}
    /\ torn \subseteq Keys

\* A client that is not registered has no result and no output file: nothing a
\* client posts late, or that was being stored while RemoveClient ran, survives
\* or follows its removal.
OnlyRegisteredHaveResults ==
    \A k \in Keys : ~Registered(k[2]) => ~Exists(k) /\ log[k] = NoNonce

\* The output file shows the submission whose counts the row shows, unless a handler
\* is at work on the two or one was aborted between them and no later one has
\* completed (the file is written before the row, Api.icpp SubmitWork).
OutputMatchesResult ==
    \A k \in Keys \ (torn \cup tx.rows) :
        result[k].by # NoNonce => log[k] = result[k].by

\* A request that was carried out can't be carried out again: the nonce of a stored
\* submission is no longer in AUTH, though an aborted one gave its nonce back.
StoredOnce ==
    \A k \in Keys : result[k].by # NoNonce => auth[result[k].by] = NoTime

\* A final result is given up only for a removal somebody asked for or a new accept or
\* partial submission for the same commit and client; CleanResults never takes it.
FinalKept ==
    [][\A k \in Keys : Done(k) /\ ~Done(k)' =>
          InProgress(k)' \/ k \in tx.rows \/ k[1] \notin commits']_vars

\* START, once stored, stays as long as the row does: a submission that posts no start
\* leaves the accept request's one in place (wdc's help for --start and --end).
StartKept ==
    [][\A k \in Keys : result[k].start # NoTime /\ Exists(k)' => (result[k].start # NoTime)']_vars

\* The server implements the abstract board.
Board == INSTANCE JobBoard WITH
    members <- {c \in Clients : Registered(c)},
    board <- [k \in Keys |-> result[k].status]

\* Every step of the handlers is one of the board's steps, or none of its concern: in
\* particular nothing is reported for a client that is not registered, no submission
\* touches more than its own row, and only builds in progress are cleaned in bulk.
ImplementsBoard == Board!Spec

Posted(k) ==
    \/ \E n \in Nonces, age \in StartAges : AcceptWork(n, k[2], k[1], age)
    \/ SubmitCommit /\ k \in tx.rows

\* A build with a known START whose client has gone silent does not stay in progress.
StaleStartedForgotten ==
    \A k \in Keys :
        []<>(~(InProgress(k) /\ result[k].start # NoTime)) \/ []<><<Posted(k)>>_vars

\* Every build whose client has gone silent does not stay in progress: the documented
\* effect of the Clean request.
StaleForgotten ==
    \A k \in Keys : []<>(~InProgress(k)) \/ []<><<Posted(k)>>_vars

\* A nonce nobody uses does not stay in AUTH.
NonceForgotten == \A n \in Nonces : auth[n] # NoTime ~> auth[n] = NoTime

=============================================================================
