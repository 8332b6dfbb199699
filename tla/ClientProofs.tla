----------------------------- MODULE ClientProofs -----------------------------
(****************************************************************************)
(* Proofs about what the clients do on their own: the cookies they share,   *)
(* the batches wda posts, the counts wdc finds in the output of a test, and *)
(* the command lines of both.                                               *)
(****************************************************************************)
EXTENDS CookieFile, CommitUpdate, CommandOutput, Arguments, Lemmas

----------------------------------------------------------------------------
(* CookieFile. *)

\* Behind Auth the cookie of the session it opened is the last one.
OwnLast(p) ==
    place[p] = "answered" =>
        cookies[p] # <<>> /\ cookies[p][Len(cookies[p])] = own[p]

\* A process that reads the file each time has written its cookies there, or is about to,
\* unless another one wrote since.
OwnStored(p) ==
    place[p] = "answered" /\ always[p] /\ ~disturbed[p] =>
        CASE writing[p] = "open" -> TRUE
          [] writing[p] = "data" -> file = Unreadable
          [] writing[p] = "no" -> file = cookies[p]

CookieInv ==
    /\ CookieTypeOK
    /\ \A p \in Users : OwnLast(p) /\ OwnStored(p)
    /\ OwnSession

----------------------------------------------------------------------------

LEMMA HeldTyped ==
    ASSUME CookieTypeOK, NEW p \in Users
    PROVE  /\ Held(p) \in Seq(Sessions)
           /\ Attached(Held(p)) \in Sessions \cup {NoSession}
BY SessionAssumption DEF CookieTypeOK, Held, Load, Attached

\* What a response adds ends up last.
LEMMA ReceivedLast ==
    ASSUME NEW held \in Seq(Sessions), NEW s \in Sessions
    PROVE  /\ held \o <<s>> \in Seq(Sessions) /\ held \o <<s>> # <<>>
           /\ (held \o <<s>>)[Len(held \o <<s>>)] = s
OBVIOUS

LEMMA CookieTypeStep == CookieTypeOK /\ [CookieNext]_cookieVars => CookieTypeOK'
<1> SUFFICES ASSUME CookieTypeOK, [CookieNext]_cookieVars
             PROVE  CookieTypeOK'
  OBVIOUS
<1> USE DEF CookieTypeOK, Places, Move, StoreIf
<1>1. ASSUME NEW p \in Users, Open(p)
      PROVE  CookieTypeOK'
  BY <1>1 DEF Open
<1>2. ASSUME NEW p \in Users, GetWorkSent(p) \/ AuthSent(p) \/ AuthReturns(p)
      PROVE  CookieTypeOK'
  <2>1. /\ cookies' = [cookies EXCEPT ![p] = Held(p)]
        /\ attached' = [attached EXCEPT ![p] = Attached(Held(p))]
        /\ writing' = [writing EXCEPT ![p] = IF always[p] THEN "open" ELSE "no"]
        /\ UNCHANGED <<file, always, own, issued, disturbed>>
    BY <1>2 DEF GetWorkSent, AuthSent, AuthReturns, LoadCookies
  <2>2. place' \in [Users -> Places]
    BY <1>2 DEF GetWorkSent, AuthSent, AuthReturns
  <2>3. cookies' \in [Users -> Seq(Sessions)] /\ attached' \in [Users -> Sessions \cup {NoSession}]
    BY <2>1, HeldTyped
  <2> QED
    BY <2>1, <2>2, <2>3
<1>3. ASSUME NEW p \in Users, GetWorkAnswered(p)
      PROVE  CookieTypeOK'
  <2>1. CASE StoreCookies(p, <<>>) /\ UNCHANGED issued
    <3>1. Held(p) \o <<>> \in Seq(Sessions)
      BY HeldTyped
    <3> QED
      BY <1>3, <2>1, <3>1 DEF GetWorkAnswered, StoreCookies
  <2>2. ASSUME NEW s \in Sessions, StoreCookies(p, <<s>>), issued' = issued \cup {s}
        PROVE  CookieTypeOK'
    <3>1. Held(p) \o <<s>> \in Seq(Sessions)
      BY HeldTyped, ReceivedLast
    <3> QED
      BY <1>3, <2>2, <3>1 DEF GetWorkAnswered, StoreCookies
  <2> QED
    BY <1>3, <2>1, <2>2 DEF GetWorkAnswered
<1>4. ASSUME NEW p \in Users, AuthAnswered(p)
      PROVE  CookieTypeOK'
  <2>1. PICK s \in Sessions :
          /\ StoreCookies(p, <<s>>)
          /\ own' = [own EXCEPT ![p] = s]
          /\ issued' = issued \cup {s}
    BY <1>4 DEF AuthAnswered
  <2>2. Held(p) \o <<s>> \in Seq(Sessions)
    BY HeldTyped, ReceivedLast
  <2> QED
    BY <1>4, <2>1, <2>2 DEF AuthAnswered, StoreCookies
<1>5. ASSUME NEW p \in Users, PostAnswered(p)
      PROVE  CookieTypeOK'
  <2>1. Held(p) \o <<>> \in Seq(Sessions)
    BY HeldTyped
  <2> QED
    BY <1>5, <2>1 DEF PostAnswered, StoreCookies
<1>6. ASSUME NEW p \in Users, StoreFile(p)
      PROVE  CookieTypeOK'
  <2>1. file' \in Seq(Sessions) \cup {Unreadable}
    BY <1>6 DEF StoreFile
  <2>2. disturbed' \in [Users -> BOOLEAN]
    BY <1>6 DEF StoreFile
  <2>3. writing' \in [Users -> {"no", "open", "data"}]
    BY <1>6 DEF StoreFile
  <2> QED
    BY <1>6, <2>1, <2>2, <2>3 DEF StoreFile
<1>7. ASSUME NEW p \in Users, Refused(p) \/ Leave(p)
      PROVE  CookieTypeOK'
  BY <1>7 DEF Refused, Leave
<1>8. ASSUME NEW p \in Users, Left(p) \/ Killed(p)
      PROVE  CookieTypeOK'
  <2>1. Gone(p)
    BY <1>8 DEF Left, Killed
  <2>2. <<>> \in Seq(Sessions)
    OBVIOUS
  <2>3. /\ cookies' \in [Users -> Seq(Sessions)] /\ place' \in [Users -> Places]
        /\ attached' \in [Users -> Sessions \cup {NoSession}]
        /\ own' \in [Users -> Sessions \cup {NoSession}]
        /\ UNCHANGED <<file, issued>>
    BY <2>1, <2>2 DEF Gone
  <2>4. always' \in [Users -> BOOLEAN] /\ disturbed' \in [Users -> BOOLEAN]
    BY <2>1 DEF Gone
  <2>5. writing' \in [Users -> {"no", "open", "data"}]
    BY <1>8 DEF Left, Killed
  <2> QED
    BY <2>3, <2>4, <2>5
<1>9. CASE UNCHANGED cookieVars
  BY <1>9 DEF cookieVars
<1> QED
  BY <1>1, <1>2, <1>3, <1>4, <1>5, <1>6, <1>7, <1>8, <1>9 DEF CookieNext

LEMMA CookieInvStep == CookieInv /\ [CookieNext]_cookieVars => CookieInv'
<1> SUFFICES ASSUME CookieInv, [CookieNext]_cookieVars
             PROVE  CookieInv'
  OBVIOUS
<1>0. CookieTypeOK /\ CookieTypeOK'
  BY CookieTypeStep DEF CookieInv
<1> DEFINE Sent(p) == place[p] = "post" /\ ~(always[p] /\ disturbed[p]) => attached[p] = own[p]
           Rest(p) == OwnLast(p) /\ OwnStored(p) /\ Sent(p)
\* A step of p that leaves the file alone leaves the others theirs.
<1>1. ASSUME NEW p \in Users, Rest(p)', UNCHANGED file,
             \A q \in Users : q # p =>
                /\ place'[q] = place[q] /\ cookies'[q] = cookies[q] /\ always'[q] = always[q]
                /\ writing'[q] = writing[q] /\ attached'[q] = attached[q] /\ own'[q] = own[q]
                /\ disturbed'[q] = disturbed[q]
      PROVE  CookieInv'
  <2>1. \A q \in Users : q # p => Rest(q)'
    BY <1>1 DEF CookieInv, OwnLast, OwnStored, OwnSession
  <2> QED
    BY <1>0, <1>1, <2>1 DEF CookieInv, OwnSession
<1> HIDE DEF Rest
<1>2. ASSUME NEW p \in Users, Open(p) \/ GetWorkSent(p) \/ AuthSent(p) \/ GetWorkAnswered(p)
                              \/ PostAnswered(p) \/ Refused(p) \/ Leave(p) \/ Left(p)
                              \/ Killed(p)
      PROVE  CookieInv'
  <2>1. place'[p] \notin {"answered", "post"} /\ UNCHANGED file
    BY <1>0, <1>2 DEF CookieTypeOK, Open, GetWorkSent, AuthSent, GetWorkAnswered, PostAnswered,
       Refused, Leave, Left, Killed, Gone, Move
  <2>2. Rest(p)'
    BY <2>1 DEF Rest, OwnLast, OwnStored
  <2>3. \A q \in Users : q # p =>
                /\ place'[q] = place[q] /\ cookies'[q] = cookies[q] /\ always'[q] = always[q]
                /\ writing'[q] = writing[q] /\ attached'[q] = attached[q] /\ own'[q] = own[q]
                /\ disturbed'[q] = disturbed[q]
    BY <1>0, <1>2 DEF CookieTypeOK, Open, GetWorkSent, AuthSent, GetWorkAnswered, PostAnswered,
       Refused, Leave, Left, Killed, Gone, Move, LoadCookies, StoreCookies, StoreIf
  <2> QED
    BY <1>1, <2>1, <2>2, <2>3
<1>3. ASSUME NEW p \in Users, AuthAnswered(p)
      PROVE  CookieInv'
  <2>1. PICK s \in Sessions :
          /\ cookies' = [cookies EXCEPT ![p] = Held(p) \o <<s>>]
          /\ writing' = [writing EXCEPT ![p] = IF always[p] THEN "open" ELSE "no"]
          /\ own' = [own EXCEPT ![p] = s]
    BY <1>3 DEF AuthAnswered, StoreCookies, StoreIf
  <2>2. /\ cookies'[p] # <<>> /\ cookies'[p][Len(cookies'[p])] = own'[p]
        /\ always[p] => writing'[p] = "open"
    BY <1>0, <2>1, HeldTyped, ReceivedLast DEF CookieTypeOK
  <2>3. place'[p] = "answered" /\ UNCHANGED <<file, always, attached>>
    BY <1>0, <1>3 DEF AuthAnswered, Move, CookieTypeOK
  <2>4. Rest(p)'
    BY <2>2, <2>3 DEF Rest, OwnLast, OwnStored
  <2>5. \A q \in Users : q # p =>
                /\ place'[q] = place[q] /\ cookies'[q] = cookies[q] /\ always'[q] = always[q]
                /\ writing'[q] = writing[q] /\ attached'[q] = attached[q] /\ own'[q] = own[q]
                /\ disturbed'[q] = disturbed[q]
    BY <1>0, <1>3, <2>1 DEF AuthAnswered, Move, CookieTypeOK
  <2> QED
    BY <1>1, <2>3, <2>4, <2>5
<1>4. ASSUME NEW p \in Users, AuthReturns(p)
      PROVE  CookieInv'
  <2>1. /\ place[p] = "answered" /\ writing[p] = "no" /\ place'[p] = "post"
        /\ attached'[p] = Attached(Held(p)) /\ UNCHANGED <<file, always, own, disturbed>>
    BY <1>0, <1>4 DEF AuthReturns, Move, LoadCookies, CookieTypeOK
  <2>2. ~(always[p] /\ disturbed[p]) => Held(p) = cookies[p]
    BY <2>1 DEF CookieInv, OwnStored, Held, Load
  <2>3. cookies[p] # <<>> /\ cookies[p][Len(cookies[p])] = own[p]
    BY <2>1 DEF CookieInv, OwnLast
  <2>4. ~(always[p] /\ disturbed[p]) => attached'[p] = own[p]
    BY <2>1, <2>2, <2>3 DEF Attached
  <2>5. Rest(p)'
    BY <2>1, <2>4 DEF Rest, OwnLast, OwnStored
  <2>6. \A q \in Users : q # p =>
                /\ place'[q] = place[q] /\ cookies'[q] = cookies[q] /\ always'[q] = always[q]
                /\ writing'[q] = writing[q] /\ attached'[q] = attached[q] /\ own'[q] = own[q]
                /\ disturbed'[q] = disturbed[q]
    BY <1>0, <1>4 DEF AuthReturns, Move, LoadCookies, StoreIf, CookieTypeOK
  <2> QED
    BY <1>1, <2>1, <2>5, <2>6
<1>5. ASSUME NEW p \in Users, StoreFile(p)
      PROVE  CookieInv'
  <2>1. UNCHANGED <<cookies, always, place, attached, own>>
    BY <1>5 DEF StoreFile
  <2>2. /\ \A q \in Users : q # p => disturbed'[q] = TRUE
        /\ disturbed'[p] = disturbed[p]
    BY <1>0, <1>5 DEF StoreFile, CookieTypeOK
  <2>3. \A q \in Users : OwnLast(q)'
    BY <2>1 DEF CookieInv, OwnLast
  <2>4. \A q \in Users : OwnStored(q)'
    <3>1. \/ writing'[p] = "data" /\ file' = Unreadable
          \/ writing'[p] = "no" /\ file' = cookies[p]
      BY <1>0, <1>5 DEF StoreFile, CookieTypeOK
    <3> QED
      BY <2>1, <2>2, <3>1 DEF OwnStored
  <2>5. OwnSession'
    BY <2>1, <2>2 DEF CookieInv, OwnSession
  <2> QED
    BY <1>0, <2>3, <2>4, <2>5 DEF CookieInv
<1>6. CASE UNCHANGED cookieVars
  BY <1>6 DEF cookieVars, CookieInv, CookieTypeOK, OwnLast, OwnStored, OwnSession
<1> QED
  BY <1>2, <1>3, <1>4, <1>5, <1>6 DEF CookieNext

----------------------------------------------------------------------------
(* Theorems.                                                                *)

LEMMA CookieInvariant == CookieSpec => []CookieInv
<1>1. CookieInit => CookieInv
  <2> SUFFICES ASSUME CookieInit
               PROVE  CookieInv
    OBVIOUS
  <2>1. CookieTypeOK
    BY DEF CookieInit, CookieTypeOK, Places
  <2> QED
    BY <2>1 DEF CookieInit, CookieInv, OwnLast, OwnStored, OwnSession
<1> QED
  BY <1>1, CookieInvStep, PTL DEF CookieSpec

\* Every variable of the processes that share the cookie file keeps its type
\* (CookieFile.cpp:3-46).
THEOREM CookieTypeCorrect == CookieSpec => []CookieTypeOK
<1>1. CookieInv => CookieTypeOK
  BY DEF CookieInv
<1> QED
  BY <1>1, CookieInvariant, PTL

\* The request that follows an Auth is sent in its session, for any number of processes that
\* share the file, however they interleave and wherever they are killed.
THEOREM RequestInOwnSession == CookieSpec => []OwnSession
<1>1. CookieInv => OwnSession
  BY DEF CookieInv
<1> QED
  BY <1>1, CookieInvariant, PTL

----------------------------------------------------------------------------
(* CommitUpdate. *)

\* How many of the commits that u posted are committed: Committed(u) are the first ones.
SavedCount(u) ==
    IF posts[u].state = "answered" THEN Len(posts[u].data)
    ELSE Batch * ((posts[u].next - 1) \div Batch)

\* How far a request is; between two batches, everything that it saved is committed.
PostsTracked ==
    \A u \in Updates :
        /\ posts[u].next <= Len(posts[u].data) + 1
        /\ posts[u].state = "answered" => posts[u].next = Len(posts[u].data) + 1
        /\ Saving(u) /\ writer # u => SavedCount(u) = posts[u].next - 1

\* The open transaction has changed rows to its writer's only, and holds all it saved.
UnsavedTracked ==
    writer # NoUpdate =>
        /\ \A uid \in Uids : unsaved[uid] \in {stored[uid], writer}
        /\ \A j \in 1 .. (posts[writer].next - 1) :
              LET uid == posts[writer].data[j]
              IN  unsaved[uid] = writer \/ uid \in overtaken[writer]

UpdateInv == UpdateTypeOK /\ PostsTracked /\ UnsavedTracked /\ CommitsKept

----------------------------------------------------------------------------
(* Batches.                                                                 *)

LEMMA Division ==
    ASSUME NEW k \in Nat
    PROVE  /\ k \div Batch \in Nat /\ k % Batch \in 0 .. (Batch - 1)
           /\ k = Batch * (k \div Batch) + (k % Batch)
BY BatchAssumption

LEMMA SameQuotient ==
    ASSUME NEW a \in Nat, NEW b \in Nat, NEW r \in 0 .. (Batch - 1), NEW s \in 0 .. (Batch - 1),
           Batch * a + r + 1 = Batch * b + s, s # 0
    PROVE  a = b
<1>1. Batch * (b - a) = r + 1 - s
  BY BatchAssumption
<1>2. b - a >= 1 => Batch * (b - a) >= Batch
  BY BatchAssumption
<1>3. b - a <= 0 - 1 => Batch * (b - a) <= 0 - Batch
  BY BatchAssumption
<1> QED
  BY <1>1, <1>2, <1>3, BatchAssumption

\* The whole batches among the first k commits, and among one more.
LEMMA WholeBatches ==
    ASSUME NEW k \in Nat
    PROVE  /\ Batch * (k \div Batch) \in 0 .. k
           /\ (k + 1) % Batch # 0 => Batch * ((k + 1) \div Batch) = Batch * (k \div Batch)
           /\ (k + 1) % Batch = 0 => Batch * ((k + 1) \div Batch) = k + 1
<1>1. Batch * (k \div Batch) \in 0 .. k
  BY Division, BatchAssumption
<1>2. ASSUME (k + 1) % Batch # 0
      PROVE  Batch * ((k + 1) \div Batch) = Batch * (k \div Batch)
  <2> DEFINE a == k \div Batch
             b == (k + 1) \div Batch
             r == k % Batch
             s == (k + 1) % Batch
  <2>1. a \in Nat /\ r \in 0 .. (Batch - 1) /\ k = Batch * a + r
    BY Division
  <2>2. b \in Nat /\ s \in 0 .. (Batch - 1) /\ k + 1 = Batch * b + s
    BY Division
  <2>3. s # 0
    BY <1>2
  <2> HIDE DEF a, b, r, s
  <2>4. Batch * a + r + 1 = Batch * b + s
    BY <2>1, <2>2
  <2>5. a = b
    BY <2>1, <2>2, <2>3, <2>4, SameQuotient
  <2> QED
    BY <2>5 DEF a, b
<1>3. ASSUME (k + 1) % Batch = 0
      PROVE  Batch * ((k + 1) \div Batch) = k + 1
  BY <1>3, Division, BatchAssumption
<1> QED
  BY <1>1, <1>2, <1>3

LEMMA DataSequences ==
    ASSUME NEW d \in Data
    PROVE  d \in Seq(Uids) /\ Len(d) \in 0 .. MaxPosted /\ \A j \in 1 .. Len(d) : d[j] \in Uids
<1>1. PICK n \in 0 .. MaxPosted : d \in [1 .. n -> Uids]
  BY BatchAssumption DEF Data
<1>2. n \in Nat
  BY <1>1, BatchAssumption
<1>3. d \in Seq(Uids) /\ Len(d) = n
  BY <1>1, <1>2, SeqDef
<1> QED
  BY <1>1, <1>3

----------------------------------------------------------------------------
(* What the requests say.                                                   *)

LEMMA PostTyped ==
    ASSUME UpdateTypeOK, PostsTracked, NEW u \in Updates
    PROVE  /\ posts[u].data \in Data /\ Len(posts[u].data) \in 0 .. MaxPosted
           /\ posts[u].next \in Nat \ {0}
           /\ \A j \in 1 .. Len(posts[u].data) : posts[u].data[j] \in Uids
           /\ SavedCount(u) \in 0 .. (posts[u].next - 1)
<1>1. /\ posts[u].data \in Data /\ posts[u].next \in Nat \ {0}
      /\ Len(posts[u].data) \in 0 .. MaxPosted
      /\ \A j \in 1 .. Len(posts[u].data) : posts[u].data[j] \in Uids
  BY DataSequences, BatchAssumption DEF UpdateTypeOK, Post
<1>2. CASE posts[u].state = "answered"
  BY <1>1, <1>2, BatchAssumption DEF PostsTracked, SavedCount
<1>3. CASE posts[u].state # "answered"
  <2>1. posts[u].next - 1 \in Nat
    BY <1>1
  <2>2. SavedCount(u) = Batch * ((posts[u].next - 1) \div Batch)
    BY <1>3 DEF SavedCount
  <2> QED
    BY <1>1, <2>1, <2>2, WholeBatches
<1> QED
  BY <1>1, <1>2, <1>3

LEMMA CommittedFirst ==
    ASSUME NEW u \in Updates
    PROVE  Committed(u) = {posts[u].data[j] : j \in 1 .. SavedCount(u)}
BY DEF Committed, SavedCount

LEMMA CommittedTyped ==
    ASSUME UpdateTypeOK, PostsTracked, NEW u \in Updates
    PROVE  Committed(u) \subseteq Uids
<1>1. SavedCount(u) <= Len(posts[u].data) /\ SavedCount(u) \in Nat
  BY PostTyped DEF PostsTracked
<1> QED
  BY <1>1, PostTyped, CommittedFirst

LEMMA UpdateTypeStep ==
    ASSUME UpdateTypeOK, PostsTracked, [UpdateNext]_updateVars
    PROVE  UpdateTypeOK'
<1> USE BatchAssumption DEF UpdateTypeOK, Table, Saving
<1>1. \A u \in Updates \cup {NoUpdate}, changed \in SUBSET Uids :
         Overtake(u, changed) => overtaken' \in [Updates -> SUBSET Uids]
  BY CommittedTyped DEF Overtake
<1>2. ASSUME NEW u \in Updates, UpdateBegins(u)
      PROVE  UpdateTypeOK'
  <2>1. PICK data \in Data :
           posts' = [posts EXCEPT ![u] = [data |-> data, next |-> 1, state |-> "saving"]]
    BY <1>2 DEF UpdateBegins
  <2>2. posts' \in [Updates -> Post]
    BY <2>1 DEF Post
  <2> QED
    BY <1>2, <2>1, <2>2 DEF UpdateBegins
<1>3. ASSUME NEW u \in Updates, Save(u)
      PROVE  /\ unsaved' \in Table /\ posts' \in [Updates -> Post]
             /\ \A p \in Updates : posts'[p].state = posts[p].state
  <2>1. posts[u].next + 1 \in 1 .. (MaxPosted + 1)
    BY <1>3, PostTyped DEF Save
  <2>2. posts[u].data[posts[u].next] \in Uids
    BY <1>3, PostTyped DEF Save
  <2> QED
    BY <1>3, <2>1, <2>2 DEF Save, Upsert, Post
<1>4. ASSUME NEW u \in Updates, Commit(u), unsaved' \in Table, posts' \in [Updates -> Post]
      PROVE  UpdateTypeOK'
  BY <1>1, <1>4 DEF Commit
<1>5. ASSUME NEW u \in Updates, SaveCommit(u)
      PROVE  UpdateTypeOK'
  BY <1>3, <1>5 DEF SaveCommit, Save
<1>6. ASSUME NEW u \in Updates, SaveLastOfBatch(u)
      PROVE  UpdateTypeOK'
  BY <1>3, <1>4, <1>6 DEF SaveLastOfBatch
<1>7. ASSUME NEW u \in Updates, UpdateAnswered(u)
      PROVE  UpdateTypeOK'
  <2>1. posts' \in [Updates -> Post]
    BY <1>7 DEF UpdateAnswered, Post
  <2>2. CASE writer = u
    BY <1>4, <1>7, <2>1, <2>2 DEF UpdateAnswered
  <2>3. CASE writer # u
    BY <1>7, <2>1, <2>3 DEF UpdateAnswered
  <2> QED
    BY <2>2, <2>3
<1>8. ASSUME NEW u \in Updates, UpdateFails(u)
      PROVE  UpdateTypeOK'
  <2>1. posts' \in [Updates -> Post]
    BY <1>8 DEF UpdateFails, Post
  <2> QED
    BY <1>8, <2>1 DEF UpdateFails
<1>9. CASE DeleteBranches
  <2>1. PICK gone \in SUBSET Uids :
           /\ stored' = [uid \in Uids |-> IF uid \in gone THEN NoUpdate ELSE stored[uid]]
           /\ unsaved' = stored' /\ Overtake(NoUpdate, gone)
    BY <1>9 DEF DeleteBranches
  <2> QED
    BY <1>1, <1>9, <2>1 DEF DeleteBranches
<1>10. CASE UNCHANGED updateVars
  BY <1>10 DEF updateVars
<1> QED
  BY <1>2, <1>5, <1>6, <1>7, <1>8, <1>9, <1>10 DEF UpdateNext

----------------------------------------------------------------------------
(* The steps.                                                               *)

\* A commit of u keeps what the others committed, or counts it as overtaken.
LEMMA CommitStep ==
    ASSUME UpdateInv, UpdateTypeOK', NEW u \in Updates, Commit(u),
           \A p \in Updates \ {u} : posts'[p] = posts[p],
           \A uid \in Committed(u)' : unsaved'[uid] = u \/ uid \in overtaken[u]
    PROVE  CommitsKept' /\ UnsavedTracked'
<1>1. stored' = unsaved' /\ writer' = NoUpdate /\ overtaken'[u] = overtaken[u]
  BY DEF Commit, Overtake
<1>2. ASSUME NEW p \in Updates, p # u, NEW uid \in Committed(p)'
      PROVE  stored'[uid] = p \/ uid \in overtaken'[p]
  <2>1. Committed(p)' = Committed(p)
    BY <1>2 DEF Committed
  <2>2. uid \in Uids /\ uid \in Committed(p)
    BY <1>2, <2>1, CommittedTyped DEF UpdateInv
  <2>3. overtaken'[p] =
           overtaken[p] \cup ({x \in Uids : unsaved'[x] # stored[x]} \cap Committed(p))
    BY <1>2 DEF Commit, Overtake
  <2>4. stored[uid] = p \/ uid \in overtaken[p]
    BY <2>2 DEF UpdateInv, CommitsKept
  <2> QED
    BY <1>1, <2>2, <2>3, <2>4
<1>3. CommitsKept'
  BY <1>1, <1>2 DEF CommitsKept
<1> QED
  BY <1>1, <1>3 DEF UnsavedTracked

\* Behind Save the open transaction holds what u saved, with the last commit.
LEMMA SaveStep ==
    ASSUME UpdateInv, UpdateTypeOK', NEW u \in Updates, Save(u)
    PROVE  /\ posts'[u].next = posts[u].next + 1 /\ posts'[u].data = posts[u].data
           /\ posts'[u].state = "saving" /\ \A p \in Updates \ {u} : posts'[p] = posts[p]
           /\ \A uid \in Uids : unsaved'[uid] \in {stored[uid], u}
           /\ \A j \in 1 .. posts[u].next :
                 LET uid == posts[u].data[j]
                 IN  unsaved'[uid] = u \/ uid \in overtaken[u]
<1> USE DEF UpdateInv, UpdateTypeOK
<1>1. /\ posts' = [posts EXCEPT ![u].next = @ + 1]
      /\ unsaved' = [unsaved EXCEPT ![posts[u].data[posts[u].next]] = u]
      /\ writer \in {u, NoUpdate} /\ posts[u].state = "saving"
      /\ posts[u].next <= Len(posts[u].data)
  BY DEF Save, Upsert, Saving
<1>2. /\ posts[u].next \in Nat \ {0} /\ Len(posts[u].data) \in Nat
      /\ \A j \in 1 .. Len(posts[u].data) : posts[u].data[j] \in Uids
      /\ SavedCount(u) \in 0 .. (posts[u].next - 1)
  BY PostTyped
<1>3. \A uid \in Uids : unsaved[uid] \in {stored[uid], u}
  BY <1>1 DEF UnsavedTracked
<1>4. ASSUME NEW j \in 1 .. (posts[u].next - 1)
      PROVE  unsaved[posts[u].data[j]] = u \/ posts[u].data[j] \in overtaken[u]
  <2>1. CASE writer = u
    BY <1>4, <2>1, BatchAssumption DEF UnsavedTracked
  <2>2. CASE writer # u
    <3>1. SavedCount(u) = posts[u].next - 1 /\ unsaved = stored
      BY <1>1, <2>2 DEF PostsTracked, Saving
    <3>2. posts[u].data[j] \in Committed(u)
      BY <1>4, <3>1, CommittedFirst
    <3> QED
      BY <3>1, <3>2 DEF CommitsKept
  <2> QED
    BY <2>1, <2>2
<1>5. \A uid \in Uids :
         unsaved'[uid] = IF uid = posts[u].data[posts[u].next] THEN u ELSE unsaved[uid]
  BY <1>1, <1>2 DEF Table
<1>6. ASSUME NEW j \in 1 .. posts[u].next
      PROVE  unsaved'[posts[u].data[j]] = u \/ posts[u].data[j] \in overtaken[u]
  <2>1. posts[u].data[j] \in Uids
    BY <1>1, <1>2, <1>6
  <2>2. j = posts[u].next \/ j \in 1 .. (posts[u].next - 1)
    BY <1>2, <1>6
  <2> QED
    BY <1>4, <1>5, <2>1, <2>2
<1>7. /\ posts'[u] = [posts[u] EXCEPT !.next = posts[u].next + 1]
      /\ \A p \in Updates \ {u} : posts'[p] = posts[p]
  BY <1>1
<1>8. posts'[u].next = posts[u].next + 1 /\ posts'[u].data = posts[u].data
      /\ posts'[u].state = "saving"
  BY <1>1, <1>7 DEF Post
<1> QED
  BY <1>3, <1>5, <1>6, <1>7, <1>8

LEMMA BeginStep ==
    ASSUME UpdateInv, UpdateTypeOK', NEW u \in Updates, UpdateBegins(u)
    PROVE  UpdateInv'
<1> USE DEF UpdateInv, UpdateTypeOK
<1>1. PICK data \in Data :
         posts' = [posts EXCEPT ![u] = [data |-> data, next |-> 1, state |-> "saving"]]
  BY DEF UpdateBegins
<1>2. /\ posts'[u] = [data |-> data, next |-> 1, state |-> "saving"]
      /\ \A p \in Updates \ {u} : posts'[p] = posts[p] /\ overtaken'[p] = overtaken[p]
      /\ writer = NoUpdate /\ writer' = u /\ unsaved' = stored /\ stored' = stored
  BY <1>1 DEF UpdateBegins
<1>3. Len(data) \in Nat
  BY DataSequences, BatchAssumption
<1>4. \A p \in Updates \ {u} : SavedCount(p)' = SavedCount(p) /\ Committed(p)' = Committed(p)
  BY <1>2 DEF SavedCount, Committed
<1>5. Committed(u)' = {}
  <2>1. SavedCount(u)' = 0
    <3>1. SavedCount(u)' = Batch * (0 \div Batch)
      BY <1>2 DEF SavedCount
    <3> QED
      BY <3>1, WholeBatches
  <2>2. Committed(u)' = {posts'[u].data[j] : j \in 1 .. SavedCount(u)'}
    BY DEF Committed, SavedCount
  <2> QED
    BY <2>1, <2>2
<1>6. PostsTracked'
  BY <1>2, <1>3, <1>4, BatchAssumption DEF PostsTracked, Saving
<1>7. UnsavedTracked'
  BY <1>2 DEF UnsavedTracked
<1>8. CommitsKept'
  BY <1>2, <1>4, <1>5 DEF CommitsKept
<1> QED
  BY <1>6, <1>7, <1>8

\* The places of all requests behind a Save.
LEMMA SavedTracked ==
    ASSUME UpdateInv, UpdateTypeOK', NEW u \in Updates, Save(u), writer' \in {u, NoUpdate},
           writer' # u => SavedCount(u)' = posts[u].next
    PROVE  PostsTracked'
<1>1. \A p \in Updates \ {u} : SavedCount(p)' = SavedCount(p) /\ Saving(p)' = Saving(p)
  BY SaveStep DEF SavedCount, Saving
<1>2. posts[u].next \in Nat /\ posts[u].next <= Len(posts[u].data) /\ writer \in {u, NoUpdate}
  BY PostTyped DEF UpdateInv, Save
<1>3. Len(posts[u].data) \in Nat
  BY PostTyped, BatchAssumption DEF UpdateInv
<1> QED
  BY <1>1, <1>2, <1>3, SaveStep, BatchAssumption DEF UpdateInv, PostsTracked, Saving

LEMMA SaveCommitStep ==
    ASSUME UpdateInv, UpdateTypeOK', NEW u \in Updates, SaveCommit(u)
    PROVE  UpdateInv'
<1>1. /\ Save(u) /\ posts[u].next % Batch # 0 /\ writer' = u
      /\ UNCHANGED <<stored, overtaken>>
  BY DEF SaveCommit
<1>2. posts[u].next - 1 \in Nat /\ posts[u].state = "saving" /\ posts[u].next \in Nat
  BY <1>1, PostTyped DEF UpdateInv, Save, Saving
<1>3. SavedCount(u)' = SavedCount(u)
  <2>1. Batch * ((posts[u].next - 1 + 1) \div Batch) = Batch * ((posts[u].next - 1) \div Batch)
    <3>1. (posts[u].next - 1 + 1) % Batch # 0
      BY <1>1, <1>2
    <3> QED
      BY <1>2, <3>1, WholeBatches
  <2>2. posts'[u].next - 1 = posts[u].next - 1 + 1 /\ posts'[u].state = "saving"
    BY <1>1, <1>2, SaveStep
  <2> QED
    BY <1>2, <2>1, <2>2 DEF SavedCount
<1>4. \A p \in Updates : Committed(p)' = Committed(p)
  <2>1. \A p \in Updates : posts'[p].data = posts[p].data
    BY <1>1, SaveStep
  <2>2. \A p \in Updates : SavedCount(p)' = SavedCount(p)
    BY <1>1, <1>3, SaveStep DEF SavedCount
  <2>3. ASSUME NEW p \in Updates
        PROVE  Committed(p)' = Committed(p)
    <3>1. Committed(p)' = {posts'[p].data[j] : j \in 1 .. SavedCount(p)'}
      BY DEF Committed, SavedCount
    <3> QED
      BY <2>1, <2>2, <3>1, CommittedFirst
  <2> QED
    BY <2>3
<1>5. PostsTracked'
  BY <1>1, SavedTracked
<1>6. UnsavedTracked'
  <2>1. posts'[u].next - 1 = posts[u].next
    BY <1>1, <1>2, SaveStep
  <2> QED
    BY <1>1, <2>1, SaveStep DEF UnsavedTracked
<1>7. CommitsKept'
  BY <1>1, <1>4 DEF UpdateInv, CommitsKept
<1> QED
  BY <1>5, <1>6, <1>7 DEF UpdateInv

LEMMA SaveLastStep ==
    ASSUME UpdateInv, UpdateTypeOK', NEW u \in Updates, SaveLastOfBatch(u)
    PROVE  UpdateInv'
<1>1. Save(u) /\ posts[u].next % Batch = 0 /\ Commit(u) /\ writer' = NoUpdate
  BY DEF SaveLastOfBatch, Commit
<1>2. posts[u].next - 1 \in Nat /\ posts[u].next \in Nat
  BY PostTyped DEF UpdateInv
<1>3. SavedCount(u)' = posts[u].next
  <2>1. Batch * ((posts[u].next - 1 + 1) \div Batch) = posts[u].next
    <3>1. (posts[u].next - 1 + 1) % Batch = 0
      BY <1>1, <1>2
    <3>2. Batch * ((posts[u].next - 1 + 1) \div Batch) = posts[u].next - 1 + 1
      BY <1>2, <3>1, WholeBatches
    <3> QED
      BY <1>2, <3>2
  <2>2. posts'[u].next - 1 = posts[u].next - 1 + 1 /\ posts'[u].state = "saving"
    BY <1>1, <1>2, SaveStep
  <2> QED
    BY <2>1, <2>2 DEF SavedCount
<1>4. PostsTracked'
  BY <1>1, <1>3, SavedTracked
<1>5. \A uid \in Committed(u)' : unsaved'[uid] = u \/ uid \in overtaken[u]
  <2>1. Committed(u)' = {posts'[u].data[j] : j \in 1 .. SavedCount(u)'}
    BY DEF Committed, SavedCount
  <2> QED
    BY <1>1, <1>3, <2>1, SaveStep
<1>6. CommitsKept' /\ UnsavedTracked'
  <2>1. \A p \in Updates \ {u} : posts'[p] = posts[p]
    BY <1>1, SaveStep
  <2> QED
    BY <1>1, <1>5, <2>1, CommitStep
<1> QED
  BY <1>4, <1>6 DEF UpdateInv

LEMMA AnswerStep ==
    ASSUME UpdateInv, UpdateTypeOK', NEW u \in Updates, UpdateAnswered(u)
    PROVE  UpdateInv'
<1> USE DEF UpdateInv, UpdateTypeOK
<1>1. /\ posts[u].state = "saving" /\ posts[u].next = Len(posts[u].data) + 1
      /\ Len(posts[u].data) \in Nat
      /\ \A p \in Updates \ {u} : posts'[p] = posts[p]
      /\ posts'[u] = [posts[u] EXCEPT !.state = "answered"]
  BY PostTyped, BatchAssumption DEF UpdateAnswered, Saving, PostsTracked
<1>2. /\ posts'[u].state = "answered" /\ posts'[u].data = posts[u].data
      /\ posts'[u].next = posts[u].next
  BY <1>1 DEF Post
<1>3. \A p \in Updates \ {u} : SavedCount(p)' = SavedCount(p) /\ Committed(p)' = Committed(p)
  BY <1>1 DEF SavedCount, Committed
<1>4. writer' = writer \/ (writer = u /\ writer' = NoUpdate)
  BY DEF UpdateAnswered, Commit
<1>5. PostsTracked'
  BY <1>1, <1>2, <1>3, <1>4 DEF PostsTracked, Saving
<1>6. Committed(u)' = {posts[u].data[j] : j \in 1 .. (posts[u].next - 1)}
  BY <1>1, <1>2 DEF Committed
<1>7. CASE writer = u
  <2>1. \A uid \in Committed(u)' : unsaved'[uid] = u \/ uid \in overtaken[u]
    BY <1>6, <1>7, BatchAssumption DEF UpdateAnswered, UnsavedTracked
  <2>2. Commit(u)
    BY <1>7 DEF UpdateAnswered
  <2> QED
    BY <1>1, <1>5, <2>1, <2>2, CommitStep
<1>8. CASE writer # u
  <2>1. SavedCount(u) = posts[u].next - 1
    BY <1>1, <1>8 DEF PostsTracked, Saving
  <2>2. Committed(u)' = Committed(u)
    BY <1>6, <2>1, CommittedFirst
  <2>3. UNCHANGED <<stored, unsaved, writer, overtaken>>
    BY <1>8 DEF UpdateAnswered
  <2>4. UnsavedTracked'
    BY <1>1, <1>8, <2>3 DEF UnsavedTracked
  <2>5. CommitsKept'
    BY <1>3, <2>2, <2>3 DEF CommitsKept
  <2> QED
    BY <1>5, <2>4, <2>5
<1> QED
  BY <1>7, <1>8

LEMMA FailStep ==
    ASSUME UpdateInv, UpdateTypeOK', NEW u \in Updates, UpdateFails(u)
    PROVE  UpdateInv'
<1> USE DEF UpdateInv, UpdateTypeOK
<1>1. /\ posts[u].state = "saving"
      /\ \A p \in Updates \ {u} : posts'[p] = posts[p]
      /\ posts'[u] = [posts[u] EXCEPT !.state = "failed"]
  BY DEF UpdateFails, Saving
<1>2. /\ posts'[u].state = "failed" /\ posts'[u].data = posts[u].data
      /\ posts'[u].next = posts[u].next
  BY <1>1 DEF Post
<1>3. ASSUME NEW p \in Updates
      PROVE  SavedCount(p)' = SavedCount(p) /\ Committed(p)' = Committed(p)
  <2>1. SavedCount(p)' = SavedCount(p) /\ posts'[p].data = posts[p].data
    BY <1>1, <1>2 DEF SavedCount
  <2>2. Committed(p)' = {posts'[p].data[j] : j \in 1 .. SavedCount(p)'}
    BY DEF Committed, SavedCount
  <2> QED
    BY <2>1, <2>2, CommittedFirst
<1>4. /\ writer' = IF writer = u THEN NoUpdate ELSE writer
      /\ UNCHANGED <<stored, overtaken>>
  BY DEF UpdateFails
<1>5. PostsTracked'
  BY <1>1, <1>2, <1>3, <1>4 DEF PostsTracked, Saving
<1>6. UnsavedTracked'
  BY <1>1, <1>4 DEF UpdateFails, UnsavedTracked
<1>7. CommitsKept'
  BY <1>3, <1>4 DEF CommitsKept
<1> QED
  BY <1>5, <1>6, <1>7

LEMMA DeleteStep ==
    ASSUME UpdateInv, UpdateTypeOK', DeleteBranches
    PROVE  UpdateInv'
<1> USE DEF UpdateInv, UpdateTypeOK
<1>1. PICK gone \in SUBSET Uids :
         /\ stored' = [uid \in Uids |-> IF uid \in gone THEN NoUpdate ELSE stored[uid]]
         /\ Overtake(NoUpdate, gone)
  BY DEF DeleteBranches
<1>2. posts' = posts /\ writer = NoUpdate /\ writer' = NoUpdate
  BY DEF DeleteBranches
<1>3. \A p \in Updates : SavedCount(p)' = SavedCount(p) /\ Committed(p)' = Committed(p)
  BY <1>2 DEF SavedCount, Committed
<1>4. PostsTracked' /\ UnsavedTracked'
  BY <1>2, <1>3 DEF PostsTracked, Saving, UnsavedTracked
<1>5. ASSUME NEW p \in Updates, NEW uid \in Committed(p)'
      PROVE  stored'[uid] = p \/ uid \in overtaken'[p]
  <2>1. overtaken'[p] = overtaken[p] \cup (gone \cap Committed(p))
    BY <1>1, BatchAssumption DEF Overtake
  <2>2. uid \in Committed(p) /\ uid \in Uids
    BY <1>3, <1>5, CommittedTyped
  <2>3. stored[uid] = p \/ uid \in overtaken[p]
    BY <2>2 DEF CommitsKept
  <2> QED
    BY <1>1, <2>1, <2>2, <2>3
<1>6. CommitsKept'
  BY <1>5 DEF CommitsKept
<1> QED
  BY <1>4, <1>6

LEMMA UpdateInvariant == UpdateSpec => []UpdateInv
<1>1. UpdateInit => UpdateInv
  <2> SUFFICES ASSUME UpdateInit
               PROVE  UpdateInv
    OBVIOUS
  <2> USE BatchAssumption DEF UpdateInit, NoPost
  <2>1. <<>> \in Data /\ Len(<<>>) = 0
    <3>1. <<>> \in Seq(Uids) /\ Len(<<>>) = 0
      OBVIOUS
    <3>2. PICK n \in Nat : <<>> \in [1 .. n -> Uids]
      BY <3>1, SeqDef
    <3>3. n = 0
      BY <3>1, <3>2
    <3> QED
      BY <3>1, <3>2, <3>3 DEF Data
  <2>2. UpdateTypeOK
    BY <2>1 DEF UpdateTypeOK, Table, Post
  <2>3. \A u \in Updates : SavedCount(u) = 0 /\ Committed(u) = {}
    <3>1. Batch * (0 \div Batch) = 0
      BY WholeBatches
    <3>2. \A u \in Updates : SavedCount(u) = 0
      BY <3>1 DEF SavedCount
    <3> QED
      BY <3>2, CommittedFirst
  <2>4. PostsTracked /\ UnsavedTracked /\ CommitsKept
    BY <2>1, <2>3 DEF PostsTracked, Saving, UnsavedTracked, CommitsKept
  <2> QED
    BY <2>2, <2>4 DEF UpdateInv
<1>2. UpdateInv /\ [UpdateNext]_updateVars => UpdateInv'
  <2> SUFFICES ASSUME UpdateInv, [UpdateNext]_updateVars
               PROVE  UpdateInv'
    OBVIOUS
  <2>1. UpdateTypeOK'
    BY UpdateTypeStep DEF UpdateInv
  <2>2. CASE UNCHANGED updateVars
    BY <2>2 DEF updateVars, UpdateInv, UpdateTypeOK, PostsTracked, UnsavedTracked, CommitsKept,
                Saving, SavedCount, Committed
  <2> QED
    BY <2>1, <2>2, BeginStep, SaveCommitStep, SaveLastStep, AnswerStep, FailStep, DeleteStep
    DEF UpdateNext
<1> QED
  BY <1>1, <1>2, PTL DEF UpdateSpec

----------------------------------------------------------------------------

\* Every variable has its type, for requests of any length.
THEOREM UpdateTypeCorrect == UpdateSpec => []UpdateTypeOK
<1>1. UpdateInv => UpdateTypeOK
  BY DEF UpdateInv
<1> QED
  BY <1>1, UpdateInvariant, PTL

\* Whatever Update has committed stays until another request or a deletion changes it, for
\* batches of any size: a failure, or what runs between two batches, loses none of them.
THEOREM CommittedStays == UpdateSpec => []CommitsKept
<1>1. UpdateInv => CommitsKept
  BY DEF UpdateInv
<1> QED
  BY <1>1, UpdateInvariant, PTL

----------------------------------------------------------------------------
(* CommandOutput.  The lines of the output before some place p have been    *)
(* searched: what is left of the output lacks the mentions before p, and    *)
(* the search goes on where p has moved to.                                 *)

Given == output.lines
Counted == {k \in DOMAIN Given : k > 1 /\ Given[k].id \in Counters}
Before(p) == {k \in Counted : k < p}

\* The counters have the values of their last mentions before p.
CountsBefore(p) ==
    \A c \in Counters :
        /\ (\A k \in Before(p) : Given[k].id # c) => counts[c] = NotCounted
        /\ \A k \in Before(p) :
              (/\ Given[k].id = c /\ Given[k].n # Blank
               /\ \A j \in Before(p) : Given[j].id = c => j <= k) => counts[c] = Given[k].n

Searched(p) ==
    /\ p \in 2 .. Len(Given) + 1
    /\ from >= 2 /\ from + Cardinality(Before(p)) = p
    /\ rest = Selected(Given, DOMAIN Given \ Before(p))
    /\ CountsBefore(p)
    /\ Len(Given) \in Before(p) => output.ended

OutputInv ==
    /\ OutputTypeOK /\ Len(Given) > 0
    /\ parsed = "no" => \E p \in 2 .. Len(Given) + 1 : Searched(p)
    /\ parsed = "yes" => \E p \in 2 .. Len(Given) + 1 : Searched(p) /\ Before(p) = Counted
    /\ parsed = "broken" => Len(Given) \in Counted /\ ~output.ended

\* Behind the search the output is untouched.
LEMMA Untouched ==
    ASSUME OutputTypeOK, NEW p \in 2 .. Len(Given) + 1, Searched(p)
    PROVE  LET d == Cardinality(Before(p))
               kept == DOMAIN Given \ Before(p)
           IN
           /\ Given \in Seq(Lines) /\ Len(Given) \in Nat /\ DOMAIN Given = 1 .. Len(Given)
           /\ d \in Nat /\ from \in Nat /\ p \in Int /\ 2 <= p /\ p <= Len(Given) + 1
           /\ Len(rest) = Len(Given) - d /\ Cardinality(kept) = Len(rest)
           /\ DOMAIN rest = 1 .. Len(rest)
           /\ \A k \in DOMAIN rest : k >= from =>
                 /\ k + d \in p .. Len(Given) /\ k \in Nat /\ k \in 1 .. Cardinality(kept)
                 /\ Nth(kept, k) = k + d /\ rest[k] = Given[k + d]
           /\ \A j \in p .. Len(Given) : j - d \in DOMAIN rest /\ j - d >= from
<1> DEFINE D == Before(p)
           d == Cardinality(D)
           kept == DOMAIN Given \ D
           m == Len(Given)
<1>1. /\ Given \in Seq(Lines) /\ m \in Nat /\ DOMAIN Given = 1 .. m
      /\ p \in Int /\ 2 <= p /\ p <= m + 1 /\ from \in Nat /\ from + d = p
      /\ rest \in Seq(Lines) /\ DOMAIN rest = 1 .. Len(rest) /\ Len(rest) \in Nat
      /\ rest = Selected(Given, kept)
  BY DEF OutputTypeOK, Given, Searched
<1>2. D \in SUBSET (1 .. m) /\ kept \in SUBSET (1 .. m) /\ \A k \in D : k < p
  BY <1>1 DEF Before, Counted
<1>3. d \in Nat /\ IsFiniteSet(D)
  BY <1>1, <1>2, UpToFinite
<1> HIDE DEF d, D, m
<1>4. \A n \in Nat : IsFiniteSet(1 .. n) /\ Cardinality(1 .. n) = n
  BY IntervalCardinality
<1>5. ASSUME NEW n \in Nat, D \subseteq 1 .. n
      PROVE  Cardinality((1 .. n) \ D) = n - d
  <2>1. (1 .. n) \cap D = D
    BY <1>5
  <2>2. Cardinality((1 .. n) \ D) = Cardinality(1 .. n) - Cardinality((1 .. n) \cap D)
    BY <1>4, FS_Difference
  <2> QED
    BY <1>4, <2>1, <2>2 DEF d
<1>6. Cardinality(kept) = m - d
  BY <1>1, <1>2, <1>5
<1>7. Len(rest) = Cardinality(kept) /\ \A n \in 1 .. Cardinality(kept) : rest[n] = Given[Nth(kept, n)]
  BY <1>1, <1>2, SelectedProperties
<1>8. ASSUME NEW k \in DOMAIN rest, k >= from
      PROVE  /\ k + d \in p .. m /\ k \in Nat /\ k \in 1 .. Cardinality(kept)
             /\ Nth(kept, k) = k + d /\ rest[k] = Given[k + d]
  <2> DEFINE h == k + d
  <2>1. k \in Nat /\ k \in 1 .. Cardinality(kept) /\ k <= m - d /\ h \in Nat /\ p <= h /\ h <= m
    BY <1>1, <1>3, <1>6, <1>7, <1>8
  <2>2. \A j \in D : j \in Int /\ 1 <= j /\ j <= h /\ j # h
    BY <1>1, <1>2, <2>1
  <2>3. h \in kept /\ UpTo(kept, h) = (1 .. h) \ D
    <3> HIDE DEF h
    <3>1. h \in 1 .. m /\ h \notin D
      BY <1>1, <2>1, <2>2
    <3>2. \A j : j \in 1 .. m /\ j <= h <=> j \in 1 .. h
      BY <1>1, <2>1
    <3> QED
      BY <1>1, <3>1, <3>2 DEF UpTo
  <2>4. Cardinality(UpTo(kept, h)) = k
    <3>1. D \subseteq 1 .. h
      BY <2>1, <2>2
    <3>2. Cardinality((1 .. h) \ D) = h - d
      BY <1>5, <2>1, <3>1
    <3>3. h - d = k
      BY <1>3, <2>1
    <3> HIDE DEF h, kept
    <3> QED
      BY <2>3, <3>2, <3>3
  <2>5. Nth(kept, k) = h
    <3> HIDE DEF h, kept
    <3>1. Nth(kept, Cardinality(UpTo(kept, h))) = h
      BY <1>1, <1>2, <2>3, NthUnique
    <3> QED
      BY <2>4, <3>1
  <2>6. h \in p .. m
    BY <1>1, <2>1
  <2> HIDE DEF h, kept
  <2>7. rest[k] = Given[h]
    BY <1>7, <2>1, <2>5
  <2> QED
    BY <2>1, <2>5, <2>6, <2>7 DEF h
<1>9. ASSUME NEW j \in p .. m
      PROVE  j - d \in DOMAIN rest /\ j - d >= from
  <2>1. j \in Int /\ p <= j /\ j <= m
    BY <1>1
  <2>2. Len(rest) = m - d
    BY <1>6, <1>7
  <2> HIDE DEF kept
  <2>3. j - d \in Int /\ j - d >= from /\ j - d >= 1 /\ j - d <= Len(rest)
    <3>1. from >= 2
      BY DEF Searched
    <3> QED
      BY <1>1, <1>3, <2>1, <2>2, <3>1
  <2> QED
    BY <1>1, <2>3
<1> QED
  BY <1>1, <1>3, <1>6, <1>7, <1>8, <1>9 DEF d, D, m

\* Every counter mentioned behind p is still to be found.
LEMMA MentionsAhead ==
    ASSUME OutputTypeOK, NEW p \in 2 .. Len(Given) + 1, Searched(p)
    PROVE  /\ \A n \in DOMAIN rest : n >= Max({from, 2}) <=> n >= from /\ n >= 2
           /\ \A j \in Counted : j >= p => j - Cardinality(Before(p)) \in MentionsLeft
<1> DEFINE d == Cardinality(Before(p))
<1>1. /\ Len(Given) \in Nat /\ DOMAIN Given = 1 .. Len(Given)
      /\ d \in Nat /\ from \in Nat /\ p \in Int /\ DOMAIN rest = 1 .. Len(rest)
  BY Untouched
<1>2. \A n \in DOMAIN rest : n >= from => rest[n] = Given[n + d]
  BY Untouched
<1>3. \A j \in p .. Len(Given) : j - d \in DOMAIN rest /\ j - d >= from
  BY Untouched
<1>4. \A n \in DOMAIN rest : n >= Max({from, 2}) <=> n >= from /\ n >= 2
  <2>1. Max({from, 2}) = IF from >= 2 THEN from ELSE 2
    BY <1>1 DEF Max
  <2> QED
    BY <1>1, <2>1
<1>5. ASSUME NEW j \in Counted, j >= p
      PROVE  j - d \in MentionsLeft
  <2>0. j \in DOMAIN Given /\ Given[j].id \in Counters /\ j \in Int
    BY <1>1 DEF Counted
  <2>1. j \in p .. Len(Given)
    BY <1>1, <1>5, <2>0
  <2>2. j - d \in DOMAIN rest /\ j - d >= from /\ j - d + d = j
    BY <1>1, <1>3, <2>0, <2>1
  <2>3. rest[j - d] = Given[j]
    BY <1>2, <2>2
  <2>4. Given[j].id # ""
    BY <2>0, CounterAssumption
  <2>5. j - d >= 2
    BY <1>1, <2>2 DEF Searched
  <2> QED
    BY <1>4, <2>2, <2>3, <2>4, <2>5 DEF MentionsLeft
<1> QED
  BY <1>4, <1>5

\* What has been searched when the mention at k is done with.
LEMMA NextMention ==
    ASSUME OutputTypeOK, NEW p \in 2 .. Len(Given) + 1, Searched(p), MentionsLeft # {}
    PROVE  LET k == Min(MentionsLeft)
               h == k + Cardinality(Before(p))
           IN
           /\ k \in DOMAIN rest /\ k >= from /\ k \in Nat
           /\ h \in p .. Len(Given) /\ h + 1 \in 2 .. Len(Given) + 1 /\ h \in Nat /\ h > 1
           /\ rest[k] = Given[h]
           /\ Given[h].id \in Counters => Before(h + 1) = Before(p) \cup {h} /\ h \notin Before(p)
           /\ Given[h].id \notin Counters => Before(h + 1) = Before(p)
<1> DEFINE k == Min(MentionsLeft)
           d == Cardinality(Before(p))
           h == k + d
<1>1. /\ Len(Given) \in Nat /\ DOMAIN Given = 1 .. Len(Given)
      /\ d \in Nat /\ from \in Nat /\ p \in Int /\ 2 <= p /\ p <= Len(Given) + 1
      /\ DOMAIN rest = 1 .. Len(rest)
  BY Untouched
<1>2. \A n \in DOMAIN rest : n >= from =>
          n + d \in p .. Len(Given) /\ n \in Nat /\ rest[n] = Given[n + d]
  BY Untouched
<1>3. \A j \in Counted : j >= p => j - d \in MentionsLeft
  BY MentionsAhead
<1>4. \A n \in DOMAIN rest : n >= Max({from, 2}) <=> n >= from /\ n >= 2
  BY MentionsAhead
<1>5. MentionsLeft \in SUBSET Nat
  <2>1. DOMAIN rest \subseteq Nat
    BY <1>1, Untouched DEF OutputTypeOK
  <2> QED
    BY <2>1 DEF MentionsLeft
<1>6. k \in MentionsLeft /\ \A n \in MentionsLeft : k <= n
  BY <1>5, SmallestNumber
<1>7. k \in DOMAIN rest /\ k >= from /\ k \in Nat /\ rest[k] = Given[h] /\ h \in p .. Len(Given)
  BY <1>2, <1>4, <1>5, <1>6 DEF MentionsLeft
<1>8. h \in Nat /\ h >= p /\ h > 1 /\ h <= Len(Given)
  BY <1>1, <1>7
\* Between the place where the search went on and the mention it found there is none.
<1>9. ASSUME NEW j \in Counted, j >= p, j < h
      PROVE  FALSE
  <2>1. j - d \in MentionsLeft /\ j \in Int
    BY <1>1, <1>3, <1>9 DEF Counted
  <2>2. k <= j - d
    BY <1>6, <2>1
  <2> QED
    BY <1>1, <1>7, <1>9, <2>1, <2>2
<1>10. h + 1 \in 2 .. Len(Given) + 1
  BY <1>1, <1>8
<1> HIDE DEF h
<1>11. \A j \in Counted : j < h + 1 <=> j < p \/ j = h
  <2>1. \A j \in Counted : j \in Int
    BY <1>1 DEF Counted
  <2> QED
    BY <1>1, <1>8, <1>9, <2>1
<1>12. Given[h].id \in Counters <=> h \in Counted
  BY <1>1, <1>8 DEF Counted
<1>13. Before(h + 1) = {j \in Counted : j < p \/ j = h}
  BY <1>11 DEF Before
<1>14. ~ (h < p)
  BY <1>1, <1>8
<1>15. /\ Given[h].id \in Counters => Before(h + 1) = Before(p) \cup {h} /\ h \notin Before(p)
       /\ Given[h].id \notin Counters => Before(h + 1) = Before(p)
  BY <1>12, <1>13, <1>14 DEF Before
<1>16. h = k + d
  BY DEF h
<1> HIDE DEF k, d
<1>17. /\ k \in DOMAIN rest /\ k >= from /\ k \in Nat
       /\ h \in p .. Len(Given) /\ h + 1 \in 2 .. Len(Given) + 1 /\ h \in Nat /\ h > 1
       /\ rest[k] = Given[h]
  BY <1>7, <1>8, <1>10
<1> QED
  BY <1>15, <1>17 DEF h, k, d

----------------------------------------------------------------------------

LEMMA EndStep ==
    ASSUME OutputInv, EndParsing
    PROVE  OutputInv'
<1>1. PICK p \in 2 .. Len(Given) + 1 : Searched(p)
  BY DEF OutputInv, EndParsing
<1>2. UNCHANGED <<output, rest, from, counts>> /\ parsed' = "yes" /\ MentionsLeft = {}
  BY DEF EndParsing
<1>3. OutputTypeOK /\ OutputTypeOK' /\ (Len(Given) > 0)'
  BY <1>2 DEF OutputInv, OutputTypeOK, Given
<1>4. Before(p) = Counted
  <2>1. \A j \in Counted : ~ (j >= p)
    BY <1>1, <1>2, <1>3, MentionsAhead
  <2>2. \A j \in Counted : j \in Int /\ p \in Int
    BY <1>1, <1>3, Untouched DEF Counted
  <2> QED
    BY <2>1, <2>2 DEF Before
<1>5. Given' = Given /\ Counted' = Counted /\ \A q : Before(q)' = Before(q)
  BY <1>2 DEF Given, Counted, Before
<1>6. Searched(p)'
  BY <1>1, <1>2, <1>5 DEF Searched, CountsBefore
<1> QED
  BY <1>1, <1>2, <1>3, <1>4, <1>5, <1>6 DEF OutputInv

LEMMA SkipStep ==
    ASSUME OutputInv, SkipUnknown
    PROVE  OutputInv'
<1>1. PICK p \in 2 .. Len(Given) + 1 : Searched(p)
  BY DEF OutputInv, SkipUnknown
<1> DEFINE k == Min(MentionsLeft)
           d == Cardinality(Before(p))
<1>2. /\ UNCHANGED <<output, rest, counts, parsed>> /\ from' = k + 1 /\ MentionsLeft # {}
      /\ rest[k].id \notin Counters /\ parsed = "no" /\ OutputTypeOK
  BY DEF SkipUnknown, OutputInv
<1>3. PICK h :
         /\ h = k + d /\ k >= from /\ k \in Nat /\ h + 1 \in 2 .. Len(Given) + 1
         /\ Before(h + 1) = Before(p) /\ d \in Nat /\ from >= 2 /\ from \in Nat
  BY <1>1, <1>2, NextMention, Untouched DEF Searched
<1>4. Given' = Given /\ Counted' = Counted /\ \A q : Before(q)' = Before(q)
  BY <1>2 DEF Given, Counted, Before
<1>5. Cardinality(Before(h + 1)) = d
  BY <1>3
<1> HIDE DEF k, d
<1>6. from' >= 2 /\ from' + Cardinality(Before(h + 1)) = h + 1
  BY <1>2, <1>3, <1>5
<1>7. Searched(h + 1)'
  <2>1. (h + 1 \in 2 .. Len(Given) + 1)' /\ (from >= 2 /\ from + Cardinality(Before(h + 1)) = h + 1)'
    BY <1>3, <1>4, <1>6
  <2>2. (rest = Selected(Given, DOMAIN Given \ Before(h + 1)))'
    BY <1>1, <1>2, <1>3, <1>4 DEF Searched
  <2>3. CountsBefore(h + 1)' /\ (Len(Given) \in Before(h + 1) => output.ended)'
    BY <1>1, <1>2, <1>3, <1>4 DEF Searched, CountsBefore
  <2> QED
    BY <2>1, <2>2, <2>3 DEF Searched
<1>8. OutputTypeOK' /\ (Len(Given) > 0)'
  BY <1>2, <1>3 DEF OutputInv, OutputTypeOK, Given
<1> QED
  BY <1>2, <1>3, <1>4, <1>7, <1>8 DEF OutputInv

LEMMA TakeStep ==
    ASSUME OutputInv, TakeCount
    PROVE  OutputInv'
<1>1. PICK p \in 2 .. Len(Given) + 1 : Searched(p)
  BY DEF OutputInv, TakeCount
<1> DEFINE k == Min(MentionsLeft)
           d == Cardinality(Before(p))
           kept == DOMAIN Given \ Before(p)
<1>2. /\ UNCHANGED output /\ MentionsLeft # {} /\ rest[k].id \in Counters
      /\ counts' = [counts EXCEPT ![rest[k].id] = ScanInt(k)]
      /\ IF k = Len(rest) /\ ~output.ended
         THEN parsed' = "broken" /\ UNCHANGED <<rest, from>>
         ELSE /\ rest' = SubSeq(rest, 1, k - 1) \o SubSeq(rest, k + 1, Len(rest))
              /\ from' = k
              /\ UNCHANGED parsed
      /\ parsed = "no" /\ OutputTypeOK
  BY DEF TakeCount, OutputInv, GoOn
<1>3. PICK h :
         /\ h = k + d /\ k \in DOMAIN rest /\ k >= from /\ k \in Nat
         /\ h \in p .. Len(Given) /\ h + 1 \in 2 .. Len(Given) + 1 /\ h \in Nat /\ h > 1
         /\ rest[k] = Given[h]
         /\ Given[h].id \in Counters => Before(h + 1) = Before(p) \cup {h} /\ h \notin Before(p)
  BY <1>1, <1>2, NextMention
<1>4. /\ Len(Given) \in Nat /\ DOMAIN Given = 1 .. Len(Given) /\ Given \in Seq(Lines)
      /\ d \in Nat /\ from \in Nat /\ from >= 2
      /\ Len(rest) = Len(Given) - d /\ Nth(kept, k) = h /\ k \in 1 .. Cardinality(kept)
      /\ kept \in SUBSET (DOMAIN Given)
      /\ rest = Selected(Given, kept) /\ CountsBefore(p)
  BY <1>1, <1>2, <1>3, Untouched DEF Searched
<1>5. Before(h + 1) = Before(p) \cup {h} /\ h \notin Before(p)
  BY <1>2, <1>3
<1>6. Given' = Given /\ Counted' = Counted /\ \A q : Before(q)' = Before(q)
  BY <1>2 DEF Given, Counted, Before
<1>7. ScanInt(k) \in Values \cup {NoValue}
  <2>1. rest \in Seq(Lines) /\ DOMAIN rest \subseteq Nat
    BY <1>2 DEF OutputTypeOK
  <2>2. \A j \in DOMAIN rest : rest[j].n \in Values \cup {NoValue, Blank}
    <3>1. \A j \in DOMAIN rest : rest[j] \in Lines
      BY <2>1
    <3> QED
      BY <3>1 DEF Lines
  <2>3. ASSUME Behind(k) # {}, rest[Min(Behind(k))].id = ""
        PROVE  rest[Min(Behind(k))].n \in Values \cup {NoValue}
    <3>1. Behind(k) \in SUBSET Nat
      BY <2>1 DEF Behind
    <3>2. Min(Behind(k)) \in Behind(k)
      BY <2>3, <3>1, SmallestNumber
    <3> QED
      BY <2>2, <2>3, <3>2 DEF Behind
  <2> QED
    BY <1>3, <2>2, <2>3 DEF ScanInt
<1>8. counts' \in [Counters -> Values \cup {NoValue, NotCounted}]
  BY <1>2, <1>7 DEF OutputTypeOK
<1>9. CASE k = Len(rest) /\ ~output.ended
  <2>1. h = Len(Given) /\ h \in Counted
    <3> HIDE DEF k, d, kept
    <3>1. h = Len(Given)
      <4>1. Len(Given) \in Nat /\ d \in Nat /\ Len(rest) = Len(Given) - d
        BY <1>4
      <4>2. h = k + d /\ k = Len(rest)
        BY <1>3, <1>9
      <4> QED
        BY <4>1, <4>2
    <3>2. Given[h].id \in Counters /\ h \in DOMAIN Given
      BY <1>2, <1>3, <1>4, <3>1
    <3> QED
      BY <1>3, <3>1, <3>2 DEF Counted
  <2>2. parsed' = "broken" /\ UNCHANGED <<rest, from>>
    BY <1>2, <1>9
  <2>3. OutputTypeOK' /\ (Len(Given) > 0)'
    BY <1>2, <1>6, <1>8, <2>2 DEF OutputInv, OutputTypeOK
  <2> QED
    BY <1>2, <1>6, <1>9, <2>1, <2>2, <2>3 DEF OutputInv
<1>10. CASE ~ (k = Len(rest) /\ ~output.ended)
  <2>1. rest' = RemoveAt(rest, k) /\ from' = k /\ parsed' = "no"
    BY <1>2, <1>10 DEF RemoveAt
  <2> HIDE DEF k, d, kept
  <2>2. rest' = Selected(Given, kept \ {h})
    BY <1>4, <2>1, RemovedFromSelection
  <2>3. kept \ {h} = DOMAIN Given \ Before(h + 1)
    BY <1>5 DEF kept
  <2>4. Cardinality(Before(h + 1)) = d + 1
    <3>1. IsFiniteSet(Before(p))
      <4>1. Before(p) \in SUBSET (1 .. Len(Given))
        BY <1>4 DEF Before, Counted
      <4> QED
        BY <1>4, <4>1, UpToFinite
    <3> QED
      BY <1>4, <1>5, <3>1, FS_AddElement DEF d
  <2>5. from' >= 2 /\ from' + Cardinality(Before(h + 1)) = h + 1
    BY <1>3, <1>4, <2>1, <2>4
  <2>6. Len(Given) \in Before(h + 1) => output.ended
    <3>1. Len(Given) \in Before(p) => output.ended
      BY <1>1 DEF Searched
    <3>2. Len(Given) = h => k = Len(rest)
      BY <1>3, <1>4
    <3> QED
      BY <1>5, <1>10, <3>1, <3>2
  <2>7. CountsBefore(h + 1)'
    <3> DEFINE id == Given[h].id
    <3>1. /\ id \in Counters
          /\ \A c \in Counters : counts'[c] = IF c = id THEN ScanInt(k) ELSE counts[c]
      BY <1>2, <1>3 DEF OutputTypeOK
    <3>2. Given[h].n # Blank => ScanInt(k) = Given[h].n
      BY <1>3 DEF ScanInt
    <3>3. \A q \in Before(h + 1) : q \in Int /\ q < h + 1
      BY <1>4 DEF Before, Counted
    <3>4. ASSUME NEW c \in Counters
          PROVE  /\ (\A q \in Before(h + 1) : Given[q].id # c) => counts'[c] = NotCounted
                 /\ \A q \in Before(h + 1) :
                       (/\ Given[q].id = c /\ Given[q].n # Blank
                        /\ \A j \in Before(h + 1) : Given[j].id = c => j <= q)
                       => counts'[c] = Given[q].n
      <4>1. CASE c = id
        <5>1. h \in Before(h + 1) /\ Given[h].id = c
          BY <1>5, <4>1
        <5>2. ASSUME NEW q \in Before(h + 1), h <= q
              PROVE  q = h
          BY <1>3, <3>3, <5>2
        <5> QED
          BY <3>1, <3>2, <4>1, <5>1, <5>2
      <4>2. CASE c # id
        <5>1. \A q \in Before(h + 1) : Given[q].id = c => q \in Before(p)
          BY <1>5, <4>2
        <5>2. Before(p) \subseteq Before(h + 1)
          BY <1>5
        <5>3. counts'[c] = counts[c]
          BY <3>1, <4>2
        <5> QED
          BY <1>4, <5>1, <5>2, <5>3 DEF CountsBefore
      <4> QED
        BY <4>1, <4>2
    <3> QED
      BY <1>6, <3>4 DEF CountsBefore
  <2>8. Searched(h + 1)'
    <3> QED
      BY <1>2, <1>3, <1>6, <2>2, <2>3, <2>5, <2>6, <2>7 DEF Searched
  <2>9. rest' \in Seq(Lines)
    <3>1. kept \ {h} \in SUBSET (DOMAIN Given)
      BY <1>4
    <3> QED
      BY <1>4, <2>2, <3>1, SelectedProperties
  <2>10. OutputTypeOK' /\ (Len(Given) > 0)'
    BY <1>2, <1>3, <1>6, <1>8, <2>1, <2>9 DEF OutputInv, OutputTypeOK
  <2> QED
    BY <1>3, <1>6, <2>1, <2>8, <2>10 DEF OutputInv
<1> QED
  BY <1>9, <1>10

LEMMA OutputInvariant == OutputSpec => []OutputInv
<1>1. OutputInit => OutputInv
  <2> SUFFICES ASSUME OutputInit PROVE OutputInv
    OBVIOUS
  <2>1. PICK n \in 1 .. MaxLines : output.lines \in [1 .. n -> Lines]
    BY DEF OutputInit
  <2>2. n \in Nat /\ n > 0
    <3>1. MaxLines \in Nat
      BY CounterAssumption
    <3> QED
      BY <3>1
  <2>3. /\ Given \in Seq(Lines) /\ Len(Given) = n /\ Len(Given) \in Nat /\ Len(Given) > 0
        /\ DOMAIN Given = 1 .. Len(Given)
    BY <2>1, <2>2 DEF Given
  <2>4. OutputTypeOK /\ parsed = "no" /\ from = 2 /\ rest = Given
    BY <2>3 DEF OutputInit, OutputTypeOK, Given
  <2>5. Before(2) = {}
    <3>1. \A k \in Counted : k \in Int /\ k > 1
      BY <2>3 DEF Counted
    <3>2. \A k \in Counted : ~ (k < 2)
      BY <3>1
    <3> QED
      BY <3>2 DEF Before
  <2>6. Selected(Given, DOMAIN Given) = Given
    <3>1. IsFiniteSet(1 .. Len(Given)) /\ Cardinality(1 .. Len(Given)) = Len(Given)
      BY <2>3, IntervalCardinality
    <3>2. /\ Selected(Given, DOMAIN Given) \in Seq(Lines)
          /\ Len(Selected(Given, DOMAIN Given)) = Len(Given)
          /\ \A q \in 1 .. Len(Given) :
                Selected(Given, DOMAIN Given)[q] = Given[Nth(DOMAIN Given, q)]
      BY <2>3, <3>1, SelectedProperties
    <3>3. ASSUME NEW q \in 1 .. Len(Given)
          PROVE  Nth(DOMAIN Given, q) = q
      <4>1. UpTo(1 .. Len(Given), q) = 1 .. q
        BY <2>3 DEF UpTo
      <4>2. Cardinality(1 .. q) = q
        BY <2>3, IntervalCardinality
      <4>3. Nth(1 .. Len(Given), Cardinality(UpTo(1 .. Len(Given), q))) = q
        BY <2>3, NthUnique
      <4> QED
        BY <2>3, <4>1, <4>2, <4>3
    <3> QED
      BY <2>3, <3>2, <3>3, SeqEqual
  <2>7. CountsBefore(2)
    BY <2>5 DEF OutputInit, CountsBefore
  <2>8. Searched(2) /\ 2 \in 2 .. Len(Given) + 1
    <3>1. 2 \in 2 .. Len(Given) + 1 /\ from + Cardinality(Before(2)) = 2 /\ from >= 2
      BY <2>3, <2>4, <2>5, FS_EmptySet
    <3>2. rest = Selected(Given, DOMAIN Given \ Before(2))
      <4>1. DOMAIN Given \ Before(2) = DOMAIN Given
        BY <2>5
      <4> QED
        BY <2>4, <2>6, <4>1
    <3> QED
      BY <2>5, <2>7, <3>1, <3>2 DEF Searched
  <2> QED
    BY <2>3, <2>4, <2>8 DEF OutputInv
<1>2. OutputInv /\ [OutputNext]_outputVars => OutputInv'
  <2> SUFFICES ASSUME OutputInv, [OutputNext]_outputVars
               PROVE  OutputInv'
    OBVIOUS
  <2>1. CASE UNCHANGED outputVars
    <3>1. Given' = Given /\ Counted' = Counted /\ \A q : Before(q)' = Before(q)
      BY <2>1 DEF outputVars, Given, Counted, Before
    <3>2. ASSUME NEW p
          PROVE  Searched(p)' <=> Searched(p)
      <4>1. CountsBefore(p)' <=> CountsBefore(p)
        BY <2>1, <3>1 DEF outputVars, CountsBefore
      <4> QED
        BY <2>1, <3>1, <4>1 DEF outputVars, Searched
    <3> QED
      BY <2>1, <3>1, <3>2 DEF outputVars, OutputInv, OutputTypeOK
  <2> QED
    BY <2>1, EndStep, SkipStep, TakeStep DEF OutputNext
<1> QED
  BY <1>1, <1>2, PTL DEF OutputSpec

----------------------------------------------------------------------------

\* What Run holds while it takes the counts off the output has its types.
THEOREM OutputTypeCorrect == OutputSpec => []OutputTypeOK
<1>1. OutputInv => OutputTypeOK
  BY DEF OutputInv
<1> QED
  BY <1>1, OutputInvariant, PTL

\* For every output, Run ends with each counter at its last mention, and submits exactly
\* the lines that mention none; Remove gets a negative length only where the output ends
\* in a mention.
THEOREM CountsTakenOff == OutputSpec => []CountsExact
<1>1. ASSUME OutputInv
      PROVE  CountsExact
  <2> DEFINE of(c) == {k \in Counted : Given[k].id = c}
  <2>1. Len(Given) \in Nat /\ DOMAIN Given = 1 .. Len(Given)
    BY <1>1 DEF OutputInv, OutputTypeOK, Given
  <2>2. ASSUME parsed = "yes"
        PROVE  /\ rest = Selected(Given, DOMAIN Given \ Counted)
               /\ \A c \in Counters :
                     IF of(c) = {} THEN counts[c] = NotCounted
                     ELSE Given[Max(of(c))].n # Blank => counts[c] = Given[Max(of(c))].n
               /\ Len(Given) \in Counted => output.ended
    <3>1. PICK p \in 2 .. Len(Given) + 1 : Searched(p) /\ Before(p) = Counted
      BY <1>1, <2>2 DEF OutputInv
    <3>2. ASSUME NEW c \in Counters, of(c) # {}
          PROVE  Given[Max(of(c))].n # Blank => counts[c] = Given[Max(of(c))].n
      <4>1. of(c) \in SUBSET (1 .. Len(Given))
        BY <2>1 DEF Counted
      <4>2. Max(of(c)) \in of(c) /\ \A k \in of(c) : k <= Max(of(c))
        BY <2>1, <3>2, <4>1, LargestNumber
      <4> QED
        BY <3>1, <4>2 DEF Searched, CountsBefore
    <3>3. ASSUME NEW c \in Counters, of(c) = {}
          PROVE  counts[c] = NotCounted
      BY <3>1, <3>3 DEF Searched, CountsBefore
    <3> QED
      BY <3>1, <3>2, <3>3 DEF Searched
  <2>3. parsed = "broken" => Len(Given) \in Counted /\ ~output.ended
    BY <1>1 DEF OutputInv
  <2>4. parsed \in {"no", "yes", "broken"}
    BY <1>1 DEF OutputInv, OutputTypeOK
  <2> QED
    BY <2>2, <2>3, <2>4 DEF CountsExact, Given, Counted
<1> QED
  BY <1>1, OutputInvariant, PTL

----------------------------------------------------------------------------
(* Arguments.  Options is computed by a recursive function, of which this   *)
(* is one turn.                                                             *)

After(k) == IF k > Len(line) \/ line[k] \notin DOMAIN Arity THEN k ELSE k + 1 + Arity[line[k]]

LEMMA ArityTyped ==
    /\ \A w \in DOMAIN Arity : Arity[w] \in Nat /\ Arity[w] <= 2
    /\ DOMAIN Letters \subseteq DOMAIN Arity /\ TimeOptions \subseteq DOMAIN Arity
    /\ Arity["delete"] = 1 /\ "utc" \in DOMAIN Arity
    /\ "utc" \notin DOMAIN Letters \cup TimeOptions /\ TimeOptions \cap DOMAIN Letters = {}
    /\ \A w \in TimeOptions : Arity[w] = 1
BY DEF Arity, Letters, TimeOptions

\* The letters that SetAction picks tell the actions apart, and stand for what is meant.
LEMMA LetterMeans ==
    ASSUME NEW w \in DOMAIN Letters
    PROVE  /\ Letter(w) \in DOMAIN Operation /\ Letter(w) # NoLetter
           /\ Operation[Letter(w)] =
                 [get |-> "GetWork", accept |-> "AcceptWork", submit |-> "SubmitWork",
                  run |-> "Run", multirun |-> "RunUntilDone", clean |-> "Clean",
                  email_report |-> "DailyReport", update |-> "Update",
                  state |-> "GetState", delete |-> "Delete"][w]
<1>1. w \in {"get", "accept", "submit", "run", "multirun", "clean", "email_report", "update",
             "state", "delete"}
  BY DEF Letters
<1>2. Letters[w] = CASE w = "get" -> <<"g", "e">> [] w = "accept" -> <<"a", "c">>
                     [] w = "submit" -> <<"s", "u">> [] w = "run" -> <<"r", "u">>
                     [] w = "multirun" -> <<"m", "u">> [] w = "clean" -> <<"c", "l">>
                     [] w = "email_report" -> <<"e", "m">> [] w = "update" -> <<"u", "p">>
                     [] w = "state" -> <<"s", "t">> [] w = "delete" -> <<"d", "e">>
  BY <1>1 DEF Letters
<1>3. Letter(w) = CASE w = "get" -> "g" [] w = "accept" -> "a" [] w = "submit" -> "s"
                    [] w = "run" -> "r" [] w = "multirun" -> "m" [] w = "clean" -> "c"
                    [] w = "email_report" -> "e" [] w = "update" -> "u" [] w = "state" -> "t"
                    [] w = "delete" -> "d"
  BY <1>1, <1>2 DEF Letter
<1>4. /\ Letter(w) \in {"g", "a", "s", "r", "m", "u", "c", "e", "t", "d"}
      /\ DOMAIN Operation = {"g", "a", "s", "r", "m", "u", "c", "e", "t", "d"}
      /\ Letter(w) # NoLetter
  BY <1>1, <1>3 DEF Operation, NoLetter
<1> DEFINE meant == [get |-> "GetWork", accept |-> "AcceptWork", submit |-> "SubmitWork",
                     run |-> "Run", multirun |-> "RunUntilDone", clean |-> "Clean",
                     email_report |-> "DailyReport", update |-> "Update",
                     state |-> "GetState", delete |-> "Delete"]
<1>5. CASE w = "get"
  BY <1>3, <1>4, <1>5 DEF Operation
<1>6. CASE w = "accept"
  BY <1>3, <1>4, <1>6 DEF Operation
<1>7. CASE w = "submit"
  BY <1>3, <1>4, <1>7 DEF Operation
<1>8. CASE w = "run"
  BY <1>3, <1>4, <1>8 DEF Operation
<1>9. CASE w = "multirun"
  BY <1>3, <1>4, <1>9 DEF Operation
<1>10. CASE w = "clean"
  BY <1>3, <1>4, <1>10 DEF Operation
<1>11. CASE w = "email_report"
  BY <1>3, <1>4, <1>11 DEF Operation
<1>12. CASE w = "update"
  BY <1>3, <1>4, <1>12 DEF Operation
<1>13. CASE w = "state"
  BY <1>3, <1>4, <1>13 DEF Operation
<1>14. CASE w = "delete"
  BY <1>3, <1>4, <1>14 DEF Operation
<1> QED
  BY <1>1, <1>5, <1>6, <1>7, <1>8, <1>9, <1>10, <1>11, <1>12, <1>13, <1>14

\* The recursive function is defined.
LEMMA TurnsExist ==
    ASSUME line \in Seq(Words)
    PROVE  \E f : /\ f \in [0 .. Len(line) -> Nat]
                  /\ f[0] = 1
                  /\ \A n \in 1 .. Len(line) : f[n] = After(f[n - 1])
                  /\ Options = {k \in {f[n] : n \in 0 .. Len(line)} : k <= Len(line)}
<1> DEFINE Turns(f, m) == f = [n \in 0 .. m |-> IF n = 0 THEN 1 ELSE After(f[n - 1])]
           S == {m \in Nat : \E f : Turns(f, m)}
<1>1. 0 \in S
  <2>1. Turns([n \in 0 .. 0 |-> 1], 0)
    OBVIOUS
  <2> QED
    BY <2>1
<1>2. ASSUME NEW m \in S
      PROVE  m + 1 \in S
  <2>1. PICK f : Turns(f, m)
    BY <1>2
  <2> DEFINE g == [n \in 0 .. m + 1 |-> IF n <= m THEN f[n] ELSE After(f[m])]
  <2>2. \A n \in 0 .. m + 1 : g[n] = IF n = 0 THEN 1 ELSE After(g[n - 1])
    <3>1. \A n \in 0 .. m : f[n] = IF n = 0 THEN 1 ELSE After(f[n - 1])
      BY <2>1
    <3>2. \A n \in 0 .. m + 1 : n # 0 => n - 1 \in 0 .. m /\ g[n - 1] = f[n - 1]
      OBVIOUS
    <3> HIDE DEF g
    <3>3. \A n \in 0 .. m + 1 : g[n] = IF n <= m THEN f[n] ELSE After(f[m])
      BY DEF g
    <3>4. ASSUME NEW n \in 0 .. m + 1
          PROVE  g[n] = IF n = 0 THEN 1 ELSE After(g[n - 1])
      <4>1. CASE n <= m
        BY <3>1, <3>2, <3>3, <4>1
      <4>2. CASE n = m + 1
        <5>1. n # 0 /\ ~ (n <= m) /\ n - 1 = m
          BY <4>2
        <5> QED
          BY <3>2, <3>3, <5>1
      <4> QED
        BY <4>1, <4>2
    <3> QED
      BY <3>4
  <2>3. Turns(g, m + 1)
    <3>1. g = [n \in 0 .. m + 1 |-> g[n]]
      OBVIOUS
    <3> HIDE DEF g
    <3> QED
      BY <2>2, <3>1
  <2> QED
    BY <2>3
<1>3. Len(line) \in S
  <2> HIDE DEF S
  <2>1. \A m \in S : m + 1 \in S
    BY <1>2
  <2>2. S \subseteq Nat
    BY DEF S
  <2> QED
    BY <1>1, <2>1, <2>2, Induction
<1> DEFINE f == CHOOSE f : Turns(f, Len(line))
<1>4. Turns(f, Len(line))
  BY <1>3
<1>5. Options = {k \in {f[n] : n \in 0 .. Len(line)} : k <= Len(line)}
  BY DEF Options, After
<1> HIDE DEF f
<1>6. f[0] = 1 /\ \A n \in 1 .. Len(line) : f[n] = After(f[n - 1])
  BY <1>4
<1>7. \A n \in 0 .. Len(line) : f[n] \in Nat
  <2> DEFINE N == {n \in Nat : n <= Len(line) => f[n] \in Nat}
  <2>1. 0 \in N
    BY <1>6
  <2>2. ASSUME NEW n \in N
        PROVE  n + 1 \in N
    <3>1. CASE n + 1 <= Len(line)
      <4>1. n + 1 \in 1 .. Len(line) /\ n + 1 - 1 = n /\ f[n] \in Nat
        BY <2>2, <3>1
      <4>2. f[n + 1] = After(f[n])
        BY <1>6, <4>1
      <4> QED
        BY <4>1, <4>2, ArityTyped DEF After
    <3> QED
      BY <3>1
  <2> HIDE DEF N
  <2>3. Nat \subseteq N
    <3>1. \A n \in N : n + 1 \in N
      BY <2>2
    <3> QED
      BY <2>1, <3>1, Induction
  <2> QED
    BY <2>3 DEF N
<1>8. f \in [0 .. Len(line) -> Nat]
  BY <1>4, <1>7
<1> QED
  BY <1>5, <1>6, <1>8

\* Options holds the first word, and with an option the word behind its parameters and
\* none before that.
LEMMA OptionsWalk ==
    ASSUME line \in Seq(Words)
    PROVE  /\ Options \subseteq 1 .. Len(line)
           /\ line # <<>> => 1 \in Options
           /\ \A k \in Options : line[k] \in DOMAIN Arity =>
                 /\ k + 1 + Arity[line[k]] \in Options \/ k + 1 + Arity[line[k]] > Len(line)
                 /\ \A j \in Options : j <= k \/ j >= k + 1 + Arity[line[k]]
<1>1. PICK f : /\ f \in [0 .. Len(line) -> Nat]
               /\ f[0] = 1
               /\ \A n \in 1 .. Len(line) : f[n] = After(f[n - 1])
               /\ Options = {k \in {f[n] : n \in 0 .. Len(line)} : k <= Len(line)}
  BY TurnsExist
<1> DEFINE Moves(k) == k <= Len(line) /\ line[k] \in DOMAIN Arity
<1>2. ASSUME NEW n \in Nat, n + 1 <= Len(line)
      PROVE  /\ f[n] \in Nat /\ f[n + 1] \in Nat
             /\ Moves(f[n]) => f[n + 1] = f[n] + 1 + Arity[line[f[n]]] /\ f[n + 1] > f[n]
             /\ ~Moves(f[n]) => f[n + 1] = f[n]
  <2>1. n \in 0 .. Len(line) /\ n + 1 \in 1 .. Len(line) /\ n + 1 - 1 = n
    BY <1>2
  <2>2. f[n + 1] = After(f[n]) /\ f[n] \in Nat
    BY <1>1, <2>1
  <2>3. CASE Moves(f[n])
    <3>1. Arity[line[f[n]]] \in Nat
      BY <2>3, ArityTyped
    <3>2. f[n + 1] = f[n] + 1 + Arity[line[f[n]]]
      BY <2>2, <2>3 DEF After
    <3> QED
      BY <2>2, <2>3, <3>1, <3>2
  <2>4. CASE ~Moves(f[n])
    <3>1. f[n + 1] = f[n]
      BY <2>2, <2>4 DEF After
    <3> QED
      BY <2>2, <2>4, <3>1
  <2> QED
    BY <2>3, <2>4
\* It does not go back.
<1>3. ASSUME NEW n \in 0 .. Len(line)
      PROVE  \A m \in 0 .. Len(line) : n <= m => f[n] <= f[m]
  <2> DEFINE S == {m \in Nat : m <= Len(line) /\ n <= m => f[n] <= f[m]}
  <2>1. 0 \in S
    <3>1. n <= 0 => n = 0
      OBVIOUS
    <3> QED
      BY <1>1, <3>1
  <2>2. ASSUME NEW m \in Nat, m \in S
        PROVE  m + 1 \in S
    <3>1. CASE m + 1 <= Len(line) /\ n <= m
      <4>1. f[m] <= f[m + 1] /\ f[m] \in Nat /\ f[m + 1] \in Nat
        <5>1. f[m] \in Nat /\ f[m + 1] \in Nat /\ (f[m + 1] > f[m] \/ f[m + 1] = f[m])
          <6> HIDE DEF Moves
          <6> QED
            BY <1>2, <3>1
        <5> QED
          BY <5>1
      <4>2. f[n] <= f[m] /\ f[n] \in Nat
        BY <1>1, <2>2, <3>1
      <4>3. f[n] <= f[m + 1]
        BY <4>1, <4>2
      <4> QED
        BY <4>3
    <3>2. CASE m + 1 <= Len(line) /\ n = m + 1
      <4>1. f[n] <= f[m + 1]
        BY <1>1, <3>2
      <4> QED
        BY <4>1
    <3>3. CASE ~ (m + 1 <= Len(line) /\ n <= m + 1)
      BY <3>3
    <3> QED
      BY <3>1, <3>2, <3>3
  <2> HIDE DEF S
  <2>3. Nat \subseteq S
    BY <2>1, <2>2, Induction
  <2> QED
    BY <2>3 DEF S
\* Until it stops it moves at least one word at a time, so that it has turns enough.
<1>4. \A n \in 0 .. Len(line) : Moves(f[n]) => f[n] >= n + 1
  <2> DEFINE S == {n \in Nat : n <= Len(line) /\ Moves(f[n]) => f[n] >= n + 1}
  <2>1. 0 \in S
    BY <1>1
  <2>2. ASSUME NEW n \in Nat, n \in S
        PROVE  n + 1 \in S
    <3>1. CASE n + 1 <= Len(line) /\ Moves(f[n + 1])
      <4>1. Moves(f[n])
        BY <1>2, <3>1
      <4>2. f[n] >= n + 1
        BY <2>2, <3>1, <4>1
      <4>3. f[n + 1] > f[n] /\ f[n] \in Nat /\ f[n + 1] \in Nat
        BY <1>2, <3>1, <4>1
      <4> HIDE DEF Moves
      <4>4. f[n + 1] >= n + 1 + 1
        BY <4>2, <4>3
      <4> QED
        BY <4>4
    <3>2. CASE ~ (n + 1 <= Len(line) /\ Moves(f[n + 1]))
      BY <3>2
    <3> QED
      BY <3>1, <3>2
  <2> HIDE DEF S
  <2>3. Nat \subseteq S
    BY <2>1, <2>2, Induction
  <2> QED
    BY <2>3 DEF S
<1>5. Options \subseteq 1 .. Len(line)
  <2>1. ASSUME NEW n \in 0 .. Len(line)
        PROVE  f[n] \in Nat /\ f[n] >= 1
    <3>1. f[0] <= f[n]
      BY <1>3
    <3> QED
      BY <1>1, <3>1
  <2> QED
    BY <1>1, <2>1
<1>6. line # <<>> => 1 \in Options
  <2>1. line # <<>> => 1 <= Len(line)
    OBVIOUS
  <2>2. 0 \in 0 .. Len(line)
    OBVIOUS
  <2> QED
    BY <1>1, <2>1, <2>2
<1>7. ASSUME NEW k \in Options, line[k] \in DOMAIN Arity
      PROVE  LET q == k + 1 + Arity[line[k]] IN
             /\ q \in Options \/ q > Len(line)
             /\ \A j \in Options : j <= k \/ j >= q
  <2> DEFINE q == k + 1 + Arity[line[k]]
  <2>1. PICK n \in 0 .. Len(line) : k = f[n]
    BY <1>1
  <2>2. Moves(f[n]) /\ k \in Nat /\ k <= Len(line)
    BY <1>1, <1>7, <2>1
  <2>3. k >= n + 1
    BY <1>4, <2>1, <2>2
  <2>4. n \in Nat /\ n + 1 \in 0 .. Len(line) /\ n + 1 <= Len(line)
    BY <2>2, <2>3
  <2>5. f[n + 1] = q
    BY <1>2, <2>1, <2>2, <2>4
  <2>6. q \in Options \/ q > Len(line)
    <3>1. q \in Nat
      BY <1>1, <2>4, <2>5
    <3> HIDE DEF q
    <3> QED
      BY <1>1, <2>4, <2>5, <3>1
  <2>7. ASSUME NEW j \in Options
        PROVE  j <= k \/ j >= q
    <3>1. PICK m \in 0 .. Len(line) : j = f[m]
      BY <1>1
    <3>2. m <= n \/ n + 1 <= m
      BY <2>4
    <3>3. m <= n => j <= k
      BY <1>3, <2>1, <3>1
    <3> HIDE DEF q
    <3>4. n + 1 <= m => f[n + 1] <= j
      BY <1>3, <2>4, <3>1
    <3>5. f[n + 1] \in Nat /\ j \in Nat
      BY <1>1, <2>4, <3>1
    <3> QED
      BY <2>5, <3>2, <3>3, <3>4, <3>5
  <2> QED
    BY <2>6, <2>7
<1> QED
  BY <1>5, <1>6, <1>7

----------------------------------------------------------------------------
(* What has been read is a beginning of Options, and everything that the    *)
(* words have set is what these options say.                                *)

ReadSoFar == {k \in Options : k < i}

NextIsOption == i \in Options \/ i > Len(line)

\* The action is that of the only action read, whose parameters are still the last ones.
ActionRead ==
    \/ action = NoLetter /\ \A k \in ReadSoFar : line[k] \notin Actions
    \/ \E k \in ReadSoFar :
          /\ {j \in ReadSoFar : line[j] \in Actions} = {k}
          /\ action = Letter(line[k])
          /\ \/ line[k] = "delete" /\ k = Len(line)
             \/ taken[line[k]] = SubSeq(line, k + 1, k + Arity[line[k]])

\* Whether some --utc was read, and only behind a time that was not UTC the offset is set.
FlagsRead ==
    /\ utc <=> \E u \in ReadSoFar : line[u] = "utc"
    /\ offsetSet => \E k \in ReadSoFar : line[k] \in TimeOptions

\* A time is the last that was read, as UTC if --utc was before it, and as local time if
\* it was not and no other time was.
TimesRead ==
    \A w \in TimeOptions, k \in ReadSoFar :
        line[k] = w /\ (\A j \in ReadSoFar : line[j] = w => j <= k) =>
            \E how \in {"utc", "local", "random"} :
                /\ times[w] = <<line[k + 1], how>>
                /\ (\E u \in ReadSoFar : line[u] = "utc" /\ u < k) => how = "utc"
                /\ (\A u \in ReadSoFar : line[u] = "utc" => u > k)
                      /\ (\A j \in ReadSoFar : line[j] \in TimeOptions => j >= k)
                   => how = "local"

ArgumentsInv ==
    /\ ArgumentsTypeOK
    /\ DOMAIN taken = DOMAIN Arity
    /\ outcome \in {"parsing"} \cup Operations =>
          NextIsOption /\ ActionRead /\ FlagsRead /\ TimesRead
    /\ outcome \in Operations =>
          i > Len(line) /\ action # NoLetter /\ outcome = Operation[action]

LEMMA AdvanceLine ==
    ASSUME ArgumentsTypeOK, NextIsOption, i <= Len(line), line[i] \in DOMAIN Arity,
           line' = line, i' = i + 1 + Arity[line[i]]
    PROVE  /\ i \in Options /\ NextIsOption'
           /\ ReadSoFar' = ReadSoFar \cup {i}
           /\ i \in Nat /\ \A k \in ReadSoFar : k \in Nat /\ k < i
<1>1. line \in Seq(Words) /\ i \in Nat
  BY DEF ArgumentsTypeOK
<1>2. i \in Options /\ Options' = Options
  BY <1>1 DEF NextIsOption, Options
<1>3. Arity[line[i]] \in Nat
  BY ArityTyped
<1>4. \A k \in Options : k \in Nat
  BY <1>1, OptionsWalk
<1>5. i' \in Options \/ i' > Len(line)
  BY <1>1, <1>2, OptionsWalk
<1>6. \A j \in Options : j <= i \/ j >= i'
  BY <1>1, <1>2, OptionsWalk
<1>7. i' \in Nat /\ i' > i
  BY <1>1, <1>3
<1>8. ReadSoFar' = {k \in Options : k < i'}
  BY <1>2 DEF ReadSoFar
<1>9. {k \in Options : k < i'} = {k \in Options : k < i} \cup {i}
  <2>1. ASSUME NEW k \in Options
        PROVE  k < i' <=> k < i \/ k = i
    <3>1. k \in Nat /\ (k <= i \/ k >= i')
      BY <1>4, <1>6
    <3> QED
      BY <1>1, <1>7, <3>1
  <2> QED
    BY <1>2, <2>1
<1> QED
  BY <1>1, <1>2, <1>4, <1>5, <1>8, <1>9 DEF NextIsOption, ReadSoFar

LEMMA ActionKept ==
    ASSUME ArgumentsInv, outcome = "parsing", i <= Len(line), line[i] \in DOMAIN Arity,
           line[i] \notin Actions, NEW p,
           i' = i + 1 + Arity[line[i]], taken' = [taken EXCEPT ![line[i]] = p],
           UNCHANGED <<program, line, action>>
    PROVE  ActionRead'
<1>1. /\ ReadSoFar' = ReadSoFar \cup {i}
      /\ Actions' = Actions
  BY AdvanceLine DEF ArgumentsInv, Actions
<1>2. CASE action = NoLetter /\ \A k \in ReadSoFar : line[k] \notin Actions
  BY <1>1, <1>2 DEF ActionRead
<1>3. ASSUME NEW k \in ReadSoFar,
             {j \in ReadSoFar : line[j] \in Actions} = {k},
             action = Letter(line[k]),
             \/ line[k] = "delete" /\ k = Len(line)
             \/ taken[line[k]] = SubSeq(line, k + 1, k + Arity[line[k]])
      PROVE  ActionRead'
  <2>1. {j \in ReadSoFar' : line'[j] \in Actions'} = {k}
    BY <1>1, <1>3
  <2>2. line[k] # line[i] /\ line[k] \in Actions
    BY <1>3
  <2>3. taken'[line[k]] = taken[line[k]]
    <3>1. line[k] \in DOMAIN taken
      BY <2>2, ArityTyped DEF ArgumentsInv, Actions
    <3> QED
      BY <2>2, <3>1
  <2>4. k \in ReadSoFar' /\ action' = Letter(line'[k])
    BY <1>1, <1>3 DEF Letter
  <2>5. \/ line'[k] = "delete" /\ k = Len(line')
        \/ taken'[line'[k]] = SubSeq(line', k + 1, k + Arity[line'[k]])
    BY <1>3, <2>3
  <2> QED
    BY <2>1, <2>4, <2>5 DEF ActionRead
<1> QED
  BY <1>2, <1>3 DEF ArgumentsInv, ActionRead

LEMMA TimesKept ==
    ASSUME ArgumentsInv, outcome = "parsing", i <= Len(line), line[i] \in DOMAIN Arity,
           line[i] \notin TimeOptions, i' = i + 1 + Arity[line[i]],
           utc' = (utc \/ line[i] = "utc"), UNCHANGED <<line, times, offsetSet>>
    PROVE  FlagsRead' /\ TimesRead'
<1>1. /\ ReadSoFar' = ReadSoFar \cup {i}
      /\ i \in Nat /\ \A k \in ReadSoFar : k \in Nat /\ k < i
  BY AdvanceLine DEF ArgumentsInv
<1>2. FlagsRead'
  BY <1>1 DEF ArgumentsInv, FlagsRead
<1>3. ASSUME NEW w \in TimeOptions, NEW k \in ReadSoFar', line[k] = w,
             \A j \in ReadSoFar' : line[j] = w => j <= k
      PROVE  \E how \in {"utc", "local", "random"} :
                /\ times[w] = <<line[k + 1], how>>
                /\ (\E u \in ReadSoFar' : line[u] = "utc" /\ u < k) => how = "utc"
                /\ (\A u \in ReadSoFar' : line[u] = "utc" => u > k)
                      /\ (\A j \in ReadSoFar' : line[j] \in TimeOptions => j >= k)
                   => how = "local"
  <2>1. k \in ReadSoFar /\ k < i /\ k \in Nat
    BY <1>1, <1>3
  <2>2. PICK how \in {"utc", "local", "random"} :
              /\ times[w] = <<line[k + 1], how>>
              /\ (\E u \in ReadSoFar : line[u] = "utc" /\ u < k) => how = "utc"
              /\ (\A u \in ReadSoFar : line[u] = "utc" => u > k)
                    /\ (\A j \in ReadSoFar : line[j] \in TimeOptions => j >= k)
                 => how = "local"
    BY <1>1, <1>3, <2>1 DEF ArgumentsInv, TimesRead
  <2>3. (\E u \in ReadSoFar' : line[u] = "utc" /\ u < k) => \E u \in ReadSoFar : line[u] = "utc" /\ u < k
    <3>1. ~ (i < k)
      BY <1>1, <2>1
    <3> QED
      BY <1>1, <3>1
  <2> QED
    BY <1>1, <2>2, <2>3
<1>4. TimesRead'
  BY <1>3 DEF TimesRead
<1> QED
  BY <1>2, <1>4

\* A time is scanned as UTC or as local time by what was read before it.
LEMMA TimeTaken ==
    ASSUME ArgumentsInv, outcome = "parsing", i <= Len(line), line[i] \in TimeOptions,
           i' = i + 1 + Arity[line[i]], NEW how \in Scan,
           times' = [times EXCEPT ![line[i]] = <<line[i + 1], how>>],
           offsetSet' = (offsetSet \/ ~utc), UNCHANGED <<line, utc>>
    PROVE  FlagsRead' /\ TimesRead'
<1>0. line[i] \in DOMAIN Arity /\ line[i] # "utc"
  BY ArityTyped
<1>1. /\ ReadSoFar' = ReadSoFar \cup {i}
      /\ i \in Nat /\ \A k \in ReadSoFar : k \in Nat /\ k < i
  BY <1>0, AdvanceLine DEF ArgumentsInv
<1>2. FlagsRead /\ TimesRead
  BY DEF ArgumentsInv
<1>3. FlagsRead'
  BY <1>0, <1>1, <1>2 DEF FlagsRead
<1>4. how \in {"utc", "local", "random"} /\ (utc => how = "utc") /\ (~utc /\ ~offsetSet => how = "local")
  BY DEF Scan
<1>5. \A w \in TimeOptions : times'[w] = IF w = line[i] THEN <<line[i + 1], how>> ELSE times[w]
  BY DEF ArgumentsInv, ArgumentsTypeOK
<1>6. ASSUME NEW w \in TimeOptions, NEW k \in ReadSoFar', line[k] = w,
             \A j \in ReadSoFar' : line[j] = w => j <= k
      PROVE  \E h \in {"utc", "local", "random"} :
                /\ times'[w] = <<line[k + 1], h>>
                /\ (\E u \in ReadSoFar' : line[u] = "utc" /\ u < k) => h = "utc"
                /\ (\A u \in ReadSoFar' : line[u] = "utc" => u > k)
                      /\ (\A j \in ReadSoFar' : line[j] \in TimeOptions => j >= k)
                   => h = "local"
  <2>1. CASE w = line[i]
    <3>1. k = i
      <4>1. i <= k /\ k \in Nat /\ (k = i \/ k < i)
        BY <1>1, <1>6, <2>1
      <4> QED
        BY <1>1, <4>1
    <3>2. times'[w] = <<line[k + 1], how>>
      BY <1>5, <2>1, <3>1
    <3>3. (\E u \in ReadSoFar' : line[u] = "utc" /\ u < k) => how = "utc"
      BY <1>0, <1>1, <1>2, <1>4 DEF FlagsRead
    <3>4. (\A u \in ReadSoFar' : line[u] = "utc" => u > k)
             /\ (\A j \in ReadSoFar' : line[j] \in TimeOptions => j >= k)
          => how = "local"
      <4>1. \A u \in ReadSoFar : u \in ReadSoFar' /\ ~ (u > k) /\ ~ (u >= k)
        BY <1>1, <3>1
      <4> QED
        BY <1>2, <1>4, <4>1 DEF FlagsRead
    <3> QED
      BY <1>4, <3>2, <3>3, <3>4
  <2>2. CASE w # line[i]
    <3>1. k \in ReadSoFar /\ k < i /\ k \in Nat
      BY <1>1, <1>6, <2>2
    <3>2. PICK h \in {"utc", "local", "random"} :
              /\ times[w] = <<line[k + 1], h>>
              /\ (\E u \in ReadSoFar : line[u] = "utc" /\ u < k) => h = "utc"
              /\ (\A u \in ReadSoFar : line[u] = "utc" => u > k)
                    /\ (\A j \in ReadSoFar : line[j] \in TimeOptions => j >= k)
                 => h = "local"
      BY <1>1, <1>2, <1>6, <3>1 DEF TimesRead
    <3>3. (\E u \in ReadSoFar' : line[u] = "utc" /\ u < k)
          => \E u \in ReadSoFar : line[u] = "utc" /\ u < k
      BY <1>0, <1>1
    <3>4. times'[w] = times[w]
      BY <1>5, <2>2
    <3> QED
      BY <1>1, <3>2, <3>3, <3>4
  <2> QED
    BY <2>1, <2>2
<1>7. TimesRead'
  BY <1>6 DEF TimesRead
<1> QED
  BY <1>3, <1>7

LEMMA ArgumentsInvariant == ArgumentsSpec => []ArgumentsInv
<1>1. ArgumentsInit => ArgumentsInv
  <2> SUFFICES ASSUME ArgumentsInit PROVE ArgumentsInv
    OBVIOUS
  <2>1. line \in Seq(Words)
    <3>1. line \in UNION {[1 .. m -> Words] : m \in 0 .. MaxWords}
      BY DEF ArgumentsInit, BoundedSeq, SeqOf
    <3>2. PICK m \in 0 .. MaxWords : line \in [1 .. m -> Words]
      BY <3>1
    <3> QED
      BY <3>2, WordsAssumption
  <2>2. \A w \in DOMAIN taken : Len(taken[w]) \in {0, Arity[w]}
    BY DEF ArgumentsInit, NotGiven
  <2>3. ArgumentsTypeOK
    <3>1. i \in 1 .. Len(line) + 2
      BY <2>1 DEF ArgumentsInit
    <3>2. times \in [TimeOptions -> {NotGiven} \cup (Words \X {"utc", "local", "random"})]
      BY DEF ArgumentsInit
    <3> QED
      BY <2>1, <2>2, <3>1, <3>2 DEF ArgumentsInit, ArgumentsTypeOK
  <2>4. ReadSoFar = {}
    BY <2>1, OptionsWalk DEF ArgumentsInit, ReadSoFar
  <2>5. NextIsOption
    BY <2>1, OptionsWalk DEF ArgumentsInit, NextIsOption
  <2>6. outcome \notin Operations
    BY DEF ArgumentsInit, Operations, Operation
  <2> QED
    BY <2>3, <2>4, <2>5, <2>6
       DEF ArgumentsInit, ArgumentsInv, ActionRead, FlagsRead, TimesRead
<1>2. ArgumentsInv /\ [ArgumentsNext]_argVars => ArgumentsInv'
  <2> SUFFICES ASSUME ArgumentsInv, [ArgumentsNext]_argVars PROVE ArgumentsInv'
    OBVIOUS
  <2> USE DEF ArgumentsInv
  <2>0. /\ "parsing" \notin Operations
        /\ \A o \in {"exit0", "exit1", "exit2", "exit3", "exit4", "exit65", "crashed"} :
              o \notin {"parsing"} \cup Operations
    BY DEF Operations, Operation
  <2>1. ASSUME NEW o \in {"exit0", "exit1", "exit2", "exit3", "exit4", "exit65", "crashed"}, Stop(o)
        PROVE  ArgumentsInv'
    BY <2>0, <2>1 DEF Stop, ArgumentsTypeOK
  \* A word that is taken with its parameters, of which there are as many as it needs.
  <2>2. ASSUME NEW w \in DOMAIN Arity, NEW p, Reading(w), Take(w, p), Len(p) = Arity[w],
               i' = i + 1 + Arity[w], i' \in 1 .. Len(line) + 2,
               action' \in DOMAIN Operation \cup {NoLetter}, utc' \in BOOLEAN,
               offsetSet' \in BOOLEAN,
               times' \in [TimeOptions -> {NotGiven} \cup (Words \X {"utc", "local", "random"})],
               ActionRead', FlagsRead', TimesRead'
        PROVE  ArgumentsInv'
    <3>1. outcome = "parsing" /\ i <= Len(line) /\ line[i] = w
      BY <2>2 DEF Reading
    <3>2. NextIsOption'
      BY <2>2, <3>1, AdvanceLine DEF Take
    <3>3. taken' = [taken EXCEPT ![w] = p] /\ UNCHANGED <<program, line, outcome>>
      BY <2>2 DEF Take
    <3>4. \A v \in DOMAIN taken' : Len(taken'[v]) \in {0, Arity[v]}
      BY <2>2, <3>3 DEF ArgumentsTypeOK
    <3>5. ArgumentsTypeOK'
      BY <2>2, <3>3, <3>4 DEF ArgumentsTypeOK
    <3> QED
      BY <2>0, <2>2, <3>1, <3>2, <3>3, <3>5
  <2>3. ASSUME NEW w \in DOMAIN Arity, Reading(w), CheckParamCount(Arity[w])
        PROVE  /\ Len(Parameters(Arity[w])) = Arity[w]
               /\ i + 1 + Arity[w] \in 1 .. Len(line) + 2
               /\ Parameters(Arity[w]) = SubSeq(line, i + 1, i + Arity[w])
    <3>1. Arity[w] \in Nat /\ i \in Nat /\ i >= 1 /\ line \in Seq(Words) /\ Len(line) \in Nat
      BY ArityTyped DEF ArgumentsTypeOK
    <3>2. i + Arity[w] <= Len(line)
      BY <2>3 DEF CheckParamCount
    <3> QED
      BY <3>1, <3>2 DEF Parameters
  <2>4. CASE Help
    BY <2>1, <2>4 DEF Help
  <2>5. CASE Unknown
    BY <2>1, <2>5 DEF Unknown
  <2>6. CASE SecondAction
    BY <2>1, <2>6 DEF SecondAction
  <2>7. CASE ParametersMissing
    BY <2>1, <2>7 DEF ParametersMissing
  \* The first action of the line.
  <2>8. ASSUME NEW w \in Actions, NEW p, Reading(w), action = NoLetter, action' = Letter(w),
               Take(w, p), i' = i + 1 + Arity[w],
               \/ w = "delete" /\ i = Len(line)
               \/ p = SubSeq(line, i + 1, i + Arity[w])
        PROVE  ActionRead' /\ action' \in DOMAIN Operation
    <3>1. w \in DOMAIN Letters /\ w \in DOMAIN Arity
      BY ArityTyped DEF Actions
    <3>2. outcome = "parsing" /\ i <= Len(line) /\ line[i] = w
      BY <2>8 DEF Reading
    <3>3. taken' = [taken EXCEPT ![w] = p] /\ UNCHANGED <<program, line, outcome>>
      BY <2>8 DEF Take
    <3>4. ReadSoFar' = ReadSoFar \cup {i} /\ Actions' = Actions
      BY <2>8, <3>1, <3>2, <3>3, AdvanceLine DEF Actions
    <3>5. \A k \in ReadSoFar : line[k] \notin Actions
      <4>1. \A v \in DOMAIN Letters : Letter(v) # NoLetter
        BY LetterMeans
      <4>2. \A k : line[k] \in Actions => line[k] \in DOMAIN Letters
        BY DEF Actions
      <4> QED
        BY <2>8, <3>2, <4>1, <4>2 DEF ActionRead
    <3>6. {j \in ReadSoFar' : line'[j] \in Actions'} = {i}
      BY <3>2, <3>3, <3>4, <3>5, <2>8
    <3>7. taken'[w] = p
      BY <3>1, <3>3
    <3>8. action' = Letter(line'[i]) /\ i \in ReadSoFar'
      BY <2>8, <3>2, <3>3, <3>4 DEF Letter
    <3>9. \/ line'[i] = "delete" /\ i = Len(line')
          \/ taken'[line'[i]] = SubSeq(line', i + 1, i + Arity[line'[i]])
      BY <2>8, <3>2, <3>3, <3>7
    <3> QED
      BY <2>8, <3>1, <3>6, <3>8, <3>9, LetterMeans DEF ActionRead
  <2>9. CASE TakeAction
    <3>1. PICK w \in Actions :
             /\ Reading(w) /\ action = NoLetter /\ CheckParamCount(Arity[w])
             /\ action' = Letter(w) /\ Take(w, Parameters(Arity[w]))
             /\ UNCHANGED <<utc, times, offsetSet>>
      BY <2>9 DEF TakeAction
    <3>2. w \in DOMAIN Arity /\ w \notin TimeOptions /\ w # "utc"
      BY ArityTyped DEF Actions
    <3>3. i' = i + 1 + Arity[w] /\ UNCHANGED line
      BY <2>3, <3>1, <3>2 DEF Take
    <3>4. utc' = (utc \/ w = "utc")
      BY <3>1, <3>2 DEF ArgumentsTypeOK
    <3>5. ActionRead' /\ action' \in DOMAIN Operation
      BY <2>3, <2>8, <3>1, <3>2, <3>3
    <3>6. FlagsRead' /\ TimesRead'
      BY <3>1, <3>2, <3>3, <3>4, TimesKept DEF Reading
    <3> QED
      BY <2>2, <2>3, <3>1, <3>2, <3>3, <3>5, <3>6 DEF ArgumentsTypeOK
  <2>10. CASE DeleteBeyond
    <3>1. CASE Stop("crashed")
      BY <2>1, <3>1
    <3>2. CASE action' = Letter("delete") /\ Take("delete", <<Beyond>>) /\ UNCHANGED <<utc, times, offsetSet>>
      <4>1. /\ "delete" \in Actions /\ Reading("delete") /\ action = NoLetter
            /\ ~CheckParamCount(1)
        BY <2>10 DEF DeleteBeyond
      <4>2. /\ "delete" \in DOMAIN Arity /\ Arity["delete"] = 1
            /\ "delete" \notin TimeOptions
        <5>1. "delete" \in DOMAIN Letters
          BY DEF Letters
        <5> QED
          BY <5>1, ArityTyped
      <4>3. utc' = (utc \/ "delete" = "utc")
        BY <3>2 DEF ArgumentsTypeOK
      <4>4. i' = i + 1 + Arity["delete"] /\ UNCHANGED line
        BY <3>2, <4>2 DEF Take
      <4>5. i = Len(line) /\ i' \in 1 .. Len(line) + 2
        BY <4>1, <4>2, <4>4 DEF Reading, CheckParamCount, ArgumentsTypeOK
      <4>6. ActionRead' /\ action' \in DOMAIN Operation
        BY <2>8, <3>2, <4>1, <4>4, <4>5
      <4>7. FlagsRead' /\ TimesRead'
        BY <3>2, <4>1, <4>2, <4>4, <4>3, TimesKept DEF Reading
      <4>8. Len(<<Beyond>>) = Arity["delete"]
        BY <4>2
      <4> QED
        BY <2>2, <3>2, <4>1, <4>2, <4>4, <4>5, <4>6, <4>7, <4>8 DEF ArgumentsTypeOK
    <3> QED
      BY <2>10, <3>1, <3>2 DEF DeleteBeyond
  <2>11. CASE TakeOption
    <3>1. PICK w \in Known \ (Actions \cup TimeOptions) :
             /\ Reading(w) /\ CheckParamCount(Arity[w])
             /\ utc' = (utc \/ w = "utc")
             /\ Take(w, Parameters(Arity[w]))
             /\ UNCHANGED <<action, times, offsetSet>>
      BY <2>11 DEF TakeOption
    <3>2. w \in DOMAIN Arity /\ w \notin TimeOptions /\ w \notin Actions
      BY DEF Known
    <3>3. i' = i + 1 + Arity[w] /\ UNCHANGED <<program, line>>
      BY <2>3, <3>1, <3>2 DEF Take
    <3>4. ActionRead'
      BY <3>1, <3>2, <3>3, ActionKept DEF Reading, Take
    <3>5. FlagsRead' /\ TimesRead'
      BY <3>1, <3>2, <3>3, TimesKept DEF Reading
    <3>6. utc' \in BOOLEAN
      BY <3>1 DEF ArgumentsTypeOK
    <3> QED
      BY <2>2, <2>3, <3>1, <3>2, <3>3, <3>4, <3>5, <3>6 DEF ArgumentsTypeOK
  <2>12. CASE TakeTime
    <3>1. PICK w \in TimeOptions, how \in Scan :
             /\ Reading(w) /\ CheckParamCount(1)
             /\ times' = [times EXCEPT ![w] = <<line[i + 1], how>>]
             /\ offsetSet' = (offsetSet \/ ~utc)
             /\ Take(w, Parameters(1))
             /\ UNCHANGED <<action, utc>>
      BY <2>12 DEF TakeTime
    <3>2. w \in DOMAIN Arity /\ Arity[w] = 1 /\ w \notin Actions
      BY ArityTyped DEF Actions
    <3>3. i' = i + 1 + Arity[w] /\ UNCHANGED <<program, line>>
      BY <2>3, <3>1, <3>2 DEF Take
    <3>4. ActionRead'
      BY <3>1, <3>2, <3>3, ActionKept DEF Reading, Take
    <3>5. FlagsRead' /\ TimesRead'
      BY <3>1, <3>2, <3>3, TimeTaken DEF Reading
    <3>6. offsetSet' \in BOOLEAN
      BY <3>1 DEF ArgumentsTypeOK
    <3>7. times' \in [TimeOptions -> {NotGiven} \cup (Words \X {"utc", "local", "random"})]
      <4>1. line[i + 1] \in Words
        <5>1. i + 1 \in 1 .. Len(line)
          BY <3>1 DEF CheckParamCount, ArgumentsTypeOK
        <5> QED
          BY <5>1 DEF ArgumentsTypeOK
      <4>2. how \in {"utc", "local", "random"}
        BY DEF Scan
      <4> QED
        BY <3>1, <4>1, <4>2 DEF ArgumentsTypeOK
    <3> QED
      BY <2>2, <2>3, <3>1, <3>2, <3>3, <3>4, <3>5, <3>6, <3>7 DEF ArgumentsTypeOK
  <2>13. CASE ProcessAction
    <3>1. CASE action = NoLetter
      BY <2>1, <2>13, <3>1 DEF ProcessAction
    <3>2. CASE action # NoLetter
      <4>1. outcome = "parsing" /\ i > Len(line) /\ Stop(Operation[action])
        BY <2>13, <3>2 DEF ProcessAction
      <4>2. Operation[action] \in Operations
        BY <3>2 DEF ArgumentsTypeOK, Operations
      <4>3. UNCHANGED <<program, line, i, action, utc, taken, times, offsetSet>>
            /\ outcome' = Operation[action]
        BY <4>1 DEF Stop
      <4>4. ReadSoFar' = ReadSoFar /\ Options' = Options /\ Actions' = Actions
        BY <4>3 DEF ReadSoFar, Options, Actions
      <4>5. ArgumentsTypeOK'
        BY <4>2, <4>3 DEF ArgumentsTypeOK
      <4>6. NextIsOption' /\ FlagsRead' /\ TimesRead'
        BY <4>1, <4>3, <4>4 DEF NextIsOption, FlagsRead, TimesRead
      <4>7. ActionRead'
        BY <4>1, <4>3, <4>4 DEF ActionRead, Letter
      <4> QED
        BY <2>0, <3>2, <4>1, <4>2, <4>3, <4>5, <4>6, <4>7
    <3> QED
      BY <3>1, <3>2
  <2>14. CASE Empty
    BY <2>1, <2>14 DEF Empty
  <2>15. CASE UNCHANGED argVars
    <3>1. UNCHANGED <<program, line, i, action, utc, taken, times, offsetSet, outcome>>
      BY <2>15 DEF argVars
    <3>2. ReadSoFar' = ReadSoFar /\ Options' = Options /\ Actions' = Actions
      BY <3>1 DEF ReadSoFar, Options, Actions
    <3>3. ArgumentsTypeOK'
      BY <3>1 DEF ArgumentsTypeOK
    <3>4. NextIsOption' = NextIsOption /\ FlagsRead' = FlagsRead /\ TimesRead' = TimesRead
      BY <3>1, <3>2 DEF NextIsOption, FlagsRead, TimesRead
    <3>5. ActionRead' = ActionRead
      BY <3>1, <3>2 DEF ActionRead, Letter
    <3> QED
      BY <3>1, <3>3, <3>4, <3>5
  <2> QED
    BY <2>4, <2>5, <2>6, <2>7, <2>9, <2>10, <2>11, <2>12, <2>13, <2>14, <2>15 DEF ArgumentsNext
<1> QED
  BY <1>1, <1>2, PTL DEF ArgumentsSpec

\* Every variable of a command line that is read has its type (Client.cpp:377-399).
THEOREM ArgumentsTypeCorrect == ArgumentsSpec => []ArgumentsTypeOK
<1>1. ArgumentsInv => ArgumentsTypeOK
  BY DEF ArgumentsInv
<1> QED
  BY <1>1, ArgumentsInvariant, PTL

LEMMA AllRead ==
    ASSUME ArgumentsInv, outcome \in Operations
    PROVE  ReadSoFar = Options /\ \A k \in Options : k \in Nat
<1>1. line \in Seq(Words) /\ i \in Nat /\ i > Len(line)
  BY DEF ArgumentsInv, ArgumentsTypeOK
<1>2. \A k \in Options : k \in Nat /\ k <= Len(line)
  BY <1>1, OptionsWalk
<1>3. \A k \in Options : k < i
  BY <1>1, <1>2
<1> QED
  BY <1>2, <1>3 DEF ReadSoFar

\* What is begun is what the only action on the line says, with its own parameters, however
\* long the line is (SetAction and ProcessAction, Client.cpp:262-373, Admin.cpp:104-138).
THEOREM BeginsWhatIsMeant == ArgumentsSpec => []ActionMeant
<1>1. ArgumentsInv => ActionMeant
  <2> SUFFICES ASSUME ArgumentsInv, outcome \in Operations PROVE ActionMeant
    BY DEF ActionMeant
  <2>1. action # NoLetter /\ outcome = Operation[action] /\ ActionRead
    BY DEF ArgumentsInv
  <2>2. PICK k \in ReadSoFar :
           /\ {j \in ReadSoFar : line[j] \in Actions} = {k}
           /\ action = Letter(line[k])
           /\ \/ line[k] = "delete" /\ k = Len(line)
              \/ taken[line[k]] = SubSeq(line, k + 1, k + Arity[line[k]])
    BY <2>1 DEF ActionRead
  <2>3. k \in Options /\ {j \in Options : line[j] \in Actions} = {k}
    BY <2>2, AllRead
  <2>4. line[k] \in DOMAIN Letters
    BY <2>2 DEF Actions
  <2> QED
    BY <2>1, <2>2, <2>3, <2>4, LetterMeans DEF ActionMeant
<1> QED
  BY <1>1, ArgumentsInvariant, PTL

\* The times of --start and --end are UTC if --utc stands before them, and local time if
\* there is no --utc and one of them only (ScanTimeToUtc, Client.cpp:16-25, 309-320).
THEOREM TimesAsMeant == ArgumentsSpec => []TimesMeant
<1>1. ArgumentsInv => TimesMeant
  <2> DEFINE given == At("start") \cup At("end")
             asUtc == At("utc") # {}
  <2> SUFFICES ASSUME ArgumentsInv, outcome \in Operations,
                      asUtc => \A k \in given : \E u \in At("utc") : u < k,
                      asUtc \/ \A j, k \in given : j = k,
                      NEW w \in TimeOptions, NEW k \in At(w), \A j \in At(w) : j <= k
               PROVE  times[w] = <<line[k + 1], IF asUtc THEN "utc" ELSE "local">>
    BY DEF TimesMeant
  <2>1. /\ At(w) = {j \in ReadSoFar : line[j] = w}
        /\ At("utc") = {j \in ReadSoFar : line[j] = "utc"}
        /\ given = {j \in ReadSoFar : line[j] \in TimeOptions}
    BY AllRead DEF At, TimeOptions
  <2>2. k \in ReadSoFar /\ line[k] = w /\ k \in given /\ k \in Nat
    BY <2>1, AllRead
  <2> HIDE DEF given
  <2>3. PICK how \in {"utc", "local", "random"} :
           /\ times[w] = <<line[k + 1], how>>
           /\ (\E u \in ReadSoFar : line[u] = "utc" /\ u < k) => how = "utc"
           /\ (\A u \in ReadSoFar : line[u] = "utc" => u > k)
                 /\ (\A j \in ReadSoFar : line[j] \in TimeOptions => j >= k)
              => how = "local"
    BY <2>1, <2>2 DEF ArgumentsInv, TimesRead
  <2>4. CASE asUtc
    BY <2>1, <2>2, <2>3, <2>4
  <2>5. CASE ~asUtc
    <3>1. \A j \in ReadSoFar : line[j] \in TimeOptions => j = k
      BY <2>1, <2>2, <2>5
    <3> QED
      BY <2>1, <2>2, <2>3, <2>5, <3>1
  <2> QED
    BY <2>4, <2>5
<1> QED
  BY <1>1, ArgumentsInvariant, PTL

=============================================================================
