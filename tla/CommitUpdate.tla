----------------------------- MODULE CommitUpdate -----------------------------
(***************************************************************************)
(* The batches in which Update (Api.icpp) stores the commits that          *)
(* wda --update posts, beside other Updates and the deletion of branches.  *)
(*                                                                         *)
(* A handler has the write lock of the SQLite database from CheckAuth to   *)
(* its end, as in WorkApi, but Update commits after every Batch commits    *)
(* and so gives the lock away until it saves the next one.  A request that *)
(* fails leaves what it has committed; the script may send it again.  No   *)
(* script posts a UID twice in one request.                                *)
(***************************************************************************)
EXTENDS Naturals, Sequences

CONSTANTS
    Uids,      \* UID of commits
    Updates,   \* runs of wda --update; a row names the run whose data it holds
    NoUpdate,
    Batch,     \* commits per transaction, 100 in the code
    MaxPosted  \* bound: commits per request

ASSUME BatchAssumption == Batch \in Nat \ {0} /\ MaxPosted \in Nat /\ NoUpdate \notin Updates

VARIABLES
    stored,    \* COMMITS as committed: the run that saved each commit last, or NoUpdate
    unsaved,   \* COMMITS as the open transaction sees it, if there is one
    writer,    \* the run whose request has the write lock, or NoUpdate
    posts,     \* the data each run posts, the next commit in it, and what became of it
    overtaken  \* history: commits that others changed since the request committed them

updateVars == <<stored, unsaved, writer, posts, overtaken>>

Data == {d \in UNION {[1 .. n -> Uids] : n \in 0 .. MaxPosted} :
            \A j, k \in DOMAIN d : d[j] = d[k] => j = k}

Table == [Uids -> Updates \cup {NoUpdate}]
Post == [data : Data, next : 1 .. (MaxPosted + 1), state : {"none", "saving", "answered", "failed"}]

NoPost == [data |-> <<>>, next |-> 1, state |-> "none"]

----------------------------------------------------------------------------
(* Faulty variants of operators defined below, kept to show that the        *)
(* properties notice such a fault.                                          *)

InsertIgnore(uid, u) == IF unsaved[uid] = NoUpdate THEN u ELSE unsaved[uid]

----------------------------------------------------------------------------

Saving(u) == posts[u].state = "saving"

\* The commits of the last request of u that are in batches it has committed.
Committed(u) ==
    LET p == posts[u]
        n == IF p.state = "answered" THEN Len(p.data) ELSE Batch * ((p.next - 1) \div Batch)
    IN  {p.data[j] : j \in 1 .. n}

\* History: the rows of changed are no longer what another run than u committed.
Overtake(u, changed) ==
    overtaken' = [p \in Updates |->
                     IF p = u THEN overtaken[p] ELSE overtaken[p] \cup (changed \cap Committed(p))]

\* wda posts its commits, and CheckAuth takes the write lock.
UpdateBegins(u) ==
    /\ ~Saving(u) /\ writer = NoUpdate
    /\ \E data \in Data : posts' = [posts EXCEPT ![u] = [data |-> data, next |-> 1, state |-> "saving"]]
    /\ writer' = u
    /\ overtaken' = [overtaken EXCEPT ![u] = {}]
    /\ UNCHANGED <<stored, unsaved>>

\* What Commit::Save leaves in the row of uid: INSERT OR IGNORE, and UPDATE if it was there.
Upsert(uid, u) == u

\* Commit::Save of the next commit, with the lock or, behind a commit, after waiting for it.
Save(u) ==
    /\ Saving(u) /\ posts[u].next <= Len(posts[u].data)
    /\ writer \in {u, NoUpdate}
    /\ LET uid == posts[u].data[posts[u].next]
       IN  unsaved' = [unsaved EXCEPT ![uid] = Upsert(uid, u)]
    /\ posts' = [posts EXCEPT ![u].next = @ + 1]

Commit(u) ==
    /\ stored' = unsaved' /\ writer' = NoUpdate
    /\ Overtake(u, {uid \in Uids : unsaved'[uid] # stored[uid]})

SaveCommit(u) ==
    /\ Save(u)
    /\ posts[u].next % Batch # 0
    /\ writer' = u
    /\ UNCHANGED <<stored, overtaken>>

SaveLastOfBatch(u) ==
    /\ Save(u)
    /\ posts[u].next % Batch = 0
    /\ Commit(u)

\* The handler answers OK and returns; what is not committed yet is committed then.
UpdateAnswered(u) ==
    /\ Saving(u) /\ posts[u].next > Len(posts[u].data)
    /\ posts' = [posts EXCEPT ![u].state = "answered"]
    /\ \/ writer = u /\ UNCHANGED unsaved /\ Commit(u)
       \/ writer # u /\ UNCHANGED <<stored, unsaved, writer, overtaken>>

\* It fails, and the database rolls back to the last commit.
UpdateFails(u) ==
    /\ Saving(u)
    /\ posts' = [posts EXCEPT ![u].state = "failed"]
    /\ \/ writer = u /\ writer' = NoUpdate /\ unsaved' = stored
       \/ writer # u /\ UNCHANGED <<writer, unsaved>>
    /\ UNCHANGED <<stored, overtaken>>

\* The commits of some branches are deleted.
DeleteBranches ==
    /\ writer = NoUpdate
    /\ \E gone \in SUBSET Uids :
          /\ stored' = [uid \in Uids |-> IF uid \in gone THEN NoUpdate ELSE stored[uid]]
          /\ unsaved' = stored'
          /\ Overtake(NoUpdate, gone)
    /\ UNCHANGED <<writer, posts>>

UpdateInit ==
    /\ stored = [uid \in Uids |-> NoUpdate] /\ unsaved = stored
    /\ writer = NoUpdate
    /\ posts = [u \in Updates |-> NoPost]
    /\ overtaken = [u \in Updates |-> {}]

UpdateNext ==
    \/ \E u \in Updates : \/ UpdateBegins(u) \/ SaveCommit(u) \/ SaveLastOfBatch(u)
                          \/ UpdateAnswered(u) \/ UpdateFails(u)
    \/ DeleteBranches

UpdateSpec == UpdateInit /\ [][UpdateNext]_updateVars

----------------------------------------------------------------------------
(* Properties.                                                              *)

\* Every variable has its type.
UpdateTypeOK ==
    /\ stored \in Table /\ unsaved \in Table
    /\ writer \in Updates \cup {NoUpdate}
    /\ writer # NoUpdate => Saving(writer)
    /\ writer = NoUpdate => unsaved = stored
    /\ posts \in [Updates -> Post]
    /\ overtaken \in [Updates -> SUBSET Uids]

\* What a request was answered for is stored, as posted, and so are the batches of one that
\* failed, unless another request or a deletion came after: an Update that is sent again
\* after a failure, or that overlaps another one, ends with all of its commits.
CommitsKept ==
    \A u \in Updates :
        \A uid \in Committed(u) : stored[uid] = u \/ uid \in overtaken[u]

=============================================================================
