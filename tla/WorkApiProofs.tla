---------------------------- MODULE WorkApiProofs ----------------------------
(****************************************************************************)
(* Proofs about WorkApi, for every set of clients, commits, branches and    *)
(* nonces and every limit: its invariants, and that its handlers implement  *)
(* the abstract JobBoard (safety only, both specifications state no         *)
(* fairness).                                                               *)
(****************************************************************************)
EXTENDS WorkApi, TLAPS

USE LimitAssumption, NullAssumption

LEMMA IdleType == Idle \in Tx
BY DEF Idle, Tx

LEMMA NoRowType == NoRow \in Row
BY DEF NoRow, Row

\* Ageing keeps an age within its saturating range.
LEMMA AgedType ==
    ASSUME NEW limit \in Nat, NEW t \in (0 .. (limit + 1)) \cup {NoTime}
    PROVE  Aged(t, limit) \in (0 .. (limit + 1)) \cup {NoTime}
BY DEF Aged

LEMMA SpendType ==
    ASSUME NEW n, auth \in [Nonces -> NonceAges \cup {NoTime}], Spend(n)
    PROVE  auth' \in [Nonces -> NonceAges \cup {NoTime}]
BY DEF Spend

\* The row SubmitWork writes is a row.
LEMMA SubmittedType ==
    ASSUME NEW old \in Row, tx \in Tx
    PROVE  Submitted(old) \in Row
BY DEF Submitted, Row, Tx

\* So is the one AcceptWork writes.
LEMMA AcceptedType ==
    ASSUME NEW old \in Row, NEW age \in StartAges
    PROVE  Accepted(old, age) \in Row
BY DEF Accepted, Row

----------------------------------------------------------------------------

\* Every handler leaves every table, file and transaction well formed.
THEOREM TypeCorrect == Spec => []TypeOK
<1>1. Init => TypeOK
  BY IdleType, NoRowType DEF Init, TypeOK, Idle
<1>2. TypeOK /\ [Next]_vars => TypeOK'
  <2> SUFFICES ASSUME TypeOK, [Next]_vars
               PROVE  TypeOK'
    OBVIOUS
  <2> USE DEF TypeOK
  <2>1. ASSUME NEW n \in Nonces, IssueNonce(n)
        PROVE  TypeOK'
    BY <2>1 DEF IssueNonce, NonceAges
  <2>2. ASSUME NEW n \in Nonces, NEW c \in Clients, Denied(n, c)
        PROVE  TypeOK'
    BY <2>2, SpendType DEF Denied
  <2>3. ASSUME NEW n \in Nonces, NEW c \in Clients, NEW r \in Commits, NEW age \in StartAges,
               AcceptWork(n, c, r, age)
        PROVE  TypeOK'
    <3>1. result' \in [Keys -> Row]
      BY <2>3, AcceptedType DEF AcceptWork, Keys
    <3>2. QED
      BY <2>3, <3>1, SpendType DEF AcceptWork
  <2>4. ASSUME NEW n \in Nonces, NEW c \in Clients, NEW r \in Commits,
               NEW partial \in BOOLEAN, NEW given \in BOOLEAN,
               SubmitWork(n, c, r, partial, given)
        PROVE  TypeOK'
    <3>1. <<r, c>> \in Keys
      BY DEF Keys
    <3>2. tx' \in Tx /\ tx'.op = "submit" /\ tx'.nonce \in Nonces
      BY <2>4, <3>1 DEF SubmitWork, Tx
    <3>3. QED
      BY <2>4, <3>1, <3>2 DEF SubmitWork, SaveOutput
  <2>5. CASE SubmitCommit
    <3>1. result' \in [Keys -> Row]
      BY <2>5, SubmittedType DEF SubmitCommit
    <3>2. QED
      BY <2>5, <3>1, SpendType, IdleType DEF SubmitCommit, EndTransaction, Idle
  <2>6. ASSUME NEW n \in Nonces, NEW r \in Commits, Update(n, r)
        PROVE  TypeOK'
    BY <2>6, SpendType DEF Update
  <2>7. ASSUME NEW n \in Nonces, NEW b \in Branches, DeleteBranch(n, b)
        PROVE  TypeOK'
    BY <2>7, SpendType, NoRowType DEF DeleteBranch
  <2>8. ASSUME NEW n \in Nonces, NEW c \in Clients, SaveClient(n, c)
        PROVE  TypeOK'
    BY <2>8, SpendType DEF SaveClient
  <2>9. ASSUME NEW n \in Nonces, NEW rows \in SUBSET Keys, NEW drop \in SUBSET Clients,
               Delete(n, rows, drop)
        PROVE  TypeOK'
    <3>1. tx' \in Tx /\ tx'.op = "remove" /\ tx'.nonce \in Nonces
      BY <2>9 DEF Delete, Tx
    <3>2. QED
      BY <2>9, <3>1 DEF Delete
  <2>10. ASSUME NEW n \in Nonces, Clean(n)
         PROVE  TypeOK'
    BY <2>10, SpendType DEF Clean
  <2>11. ASSUME NEW k \in Keys, DeleteLog(k)
         PROVE  TypeOK'
    <3>1. tx' \in Tx /\ tx'.op = "remove" /\ tx'.nonce \in Nonces
      BY <2>11 DEF DeleteLog, Tx
    <3>2. QED
      BY <2>11, <3>1 DEF DeleteLog
  <2>12. CASE RemoveCommit
    BY <2>12, SpendType, NoRowType, IdleType DEF RemoveCommit, EndTransaction, Idle
  <2>13. CASE Abort
    BY <2>13, IdleType DEF Abort, EndTransaction, Idle, Tx
  <2>14. CASE CleanResults
    BY <2>14, NoRowType DEF CleanResults
  <2>15. CASE CleanAuth
    BY <2>15 DEF CleanAuth
  <2>16. CASE CleanLost
    BY <2>16 DEF CleanLost
  <2>17. CASE Tick
    <3>1. ASSUME NEW k \in Keys
          PROVE  [result[k] EXCEPT !.start = Aged(@, MaxTestTime)] \in Row
      <4>1. Aged(result[k].start, MaxTestTime) \in StartAges \cup {NoTime}
        BY AgedType DEF Row, StartAges
      <4>2. QED
        BY <4>1 DEF Row
    <3>2. auth' \in [Nonces -> NonceAges \cup {NoTime}]
      BY <2>17, AgedType DEF Tick, NonceAges
    <3>3. QED
      BY <2>17, <3>1, <3>2 DEF Tick
  <2>18. CASE UNCHANGED vars
    BY <2>18 DEF vars
  <2>19. ASSUME NEW n \in Nonces, Authenticated(n)
         PROVE  TypeOK'
    <3>1. ASSUME NEW k \in Keys, Remove(n, k)
          PROVE  TypeOK'
      <4>1. Delete(n, {k}, {})
        BY <3>1 DEF Remove
      <4>2. {k} \in SUBSET Keys /\ {} \in SUBSET Clients
        OBVIOUS
      <4>3. QED
        BY ONLY <4>1, <4>2, <2>9
    <3>2. ASSUME NEW c \in Clients, RemoveClient(n, c)
          PROVE  TypeOK'
      <4> DEFINE rows == {k \in Keys : k[2] = c}
      <4>1. Delete(n, rows, {c})
        BY <3>2 DEF RemoveClient
      <4>2. rows \in SUBSET Keys /\ {c} \in SUBSET Clients
        OBVIOUS
      <4> HIDE DEF rows
      <4>3. QED
        BY ONLY <4>1, <4>2, <2>9
    <3>3. QED
      BY <2>19, <2>2, <2>3, <2>4, <2>6, <2>7, <2>8, <2>10, <3>1, <3>2 DEF Authenticated
  <2>20. QED
    BY <2>1, <2>5, <2>11, <2>12, <2>13, <2>14, <2>15, <2>16, <2>17, <2>18, <2>19 DEF Next
<1>3. QED
  BY <1>1, <1>2, PTL DEF Spec

----------------------------------------------------------------------------
(* The inductive invariant.  A transaction holds the write lock, so what its *)
(* handler established before touching files still holds at its commit.      *)

\* A submission about to be stored: its output is in place, its client registered.
SubmitPending ==
    tx.op = "submit" =>
        /\ tx.files = {}
        /\ tx.drop = {}
        /\ \A k \in tx.rows : log[k] = tx.nonce /\ Registered(k[2])

\* A removal about to be stored: the files no longer to be deleted are gone, and a
\* client goes only with all its results.
RemovePending ==
    tx.op = "remove" =>
        /\ tx.files \subseteq tx.rows
        /\ \A k \in tx.rows \ tx.files : log[k] = NoNonce
        /\ \A k \in Keys : k[2] \in tx.drop => k \in tx.rows

\* OutputMatchesResult, also for the keys a removal has yet to reach.
OutputMatchesUntouched ==
    \A k \in Keys \ (torn \cup (tx.rows \ tx.files)) :
        result[k].by # NoNonce => log[k] = result[k].by

IInv ==
    /\ SubmitPending
    /\ RemovePending
    /\ OutputMatchesUntouched
    /\ OnlyRegisteredHaveResults
    /\ StoredOnce

LEMMA InitIInv == Init => IInv
BY DEF Init, IInv, Idle, NoRow, SubmitPending, RemovePending, OutputMatchesUntouched,
       OnlyRegisteredHaveResults, StoredOnce, Exists, Registered

\* A handler that changes one row, by the rules of Accepted, and spends its nonce.
LEMMA AcceptIInv ==
    ASSUME TypeOK, IInv, NEW n \in Nonces, NEW c \in Clients, NEW r \in Commits,
           NEW age \in StartAges, AcceptWork(n, c, r, age)
    PROVE  IInv'
<1> USE DEF IInv, TypeOK, AcceptWork
<1>1. \A k \in Keys : result'[k].by = result[k].by
  BY DEF Accepted, Row
<1>2. \A k \in Keys : Exists(k)' => Exists(k) \/ k = <<r, c>>
  BY DEF Exists
<1>3. SubmitPending' /\ RemovePending'
  BY DEF SubmitPending, RemovePending, Registered
<1>4. OutputMatchesUntouched'
  BY <1>1 DEF OutputMatchesUntouched
<1>5. OnlyRegisteredHaveResults'
  BY <1>2 DEF OnlyRegisteredHaveResults, Registered, Authorised, Exists, Keys
<1>6. StoredOnce'
  BY <1>1 DEF StoredOnce, Spend, Row
<1>7. QED
  BY <1>3, <1>4, <1>5, <1>6

\* The nonce of a submission was unused when Auth created it.
LEMMA IssueIInv ==
    ASSUME TypeOK, IInv, NEW n \in Nonces, IssueNonce(n)
    PROVE  IInv'
BY DEF IInv, TypeOK, IssueNonce, Unused, SubmitPending, RemovePending, OutputMatchesUntouched,
       OnlyRegisteredHaveResults, StoredOnce, Exists, Registered, Row

\* Steps that only take nonces out of AUTH, and rows out of RESULT.
LEMMA FewerIInv ==
    ASSUME TypeOK, IInv,
           UNCHANGED <<clients, log, tx, torn>>,
           \A k \in Keys : result'[k] = result[k] \/ result'[k] = NoRow,
           \A n \in Nonces : auth'[n] = auth[n] \/ auth'[n] = NoTime
    PROVE  IInv'
<1> USE DEF IInv, TypeOK
<1>1. SubmitPending' /\ RemovePending'
  BY DEF SubmitPending, RemovePending, Registered
<1>2. \A k \in Keys : result'[k].by = result[k].by \/ result'[k].by = NoNonce
  BY DEF NoRow
<1>3. \A k \in Keys : Exists(k)' => Exists(k)
  BY DEF Exists, NoRow
<1>4. OutputMatchesUntouched'
  BY <1>2 DEF OutputMatchesUntouched
<1>5. OnlyRegisteredHaveResults'
  BY <1>3 DEF OnlyRegisteredHaveResults, Registered
<1>6. StoredOnce'
  BY <1>2 DEF StoredOnce, Row
<1>7. QED
  BY <1>1, <1>4, <1>5, <1>6

\* SubmitWork touches the file of the row its transaction is to write.
LEMMA SubmitIInv ==
    ASSUME TypeOK, IInv, NEW n \in Nonces, NEW c \in Clients, NEW r \in Commits,
           NEW partial \in BOOLEAN, NEW given \in BOOLEAN,
           SubmitWork(n, c, r, partial, given)
    PROVE  IInv'
<1> USE DEF IInv, TypeOK, SubmitWork, SaveOutput
<1>1. <<r, c>> \in Keys /\ <<r, c>>[2] = c
  BY DEF Keys
<1>2. SubmitPending'
  BY <1>1 DEF SubmitPending, Authorised, Registered
<1>3. RemovePending'
  BY DEF RemovePending
<1>4. OutputMatchesUntouched'
  BY <1>1 DEF OutputMatchesUntouched, Authorised, Idle
<1>5. OnlyRegisteredHaveResults'
  BY <1>1 DEF OnlyRegisteredHaveResults, Registered, Authorised, Exists
<1>6. StoredOnce'
  BY DEF StoredOnce
<1>7. QED
  BY <1>2, <1>3, <1>4, <1>5, <1>6

LEMMA SubmitCommitIInv ==
    ASSUME TypeOK, IInv, SubmitCommit
    PROVE  IInv'
<1> USE DEF IInv, TypeOK, SubmitCommit, EndTransaction
<1>1. tx' = Idle /\ tx.files = {} /\ tx.nonce \in Nonces
  BY DEF SubmitPending
<1>2. SubmitPending' /\ RemovePending'
  BY <1>1 DEF SubmitPending, RemovePending, Idle
<1>3. \A k \in Keys : k \in tx.rows => result'[k].by = tx.nonce /\ log[k] = tx.nonce
                                       /\ Registered(k[2])
  BY DEF SubmitPending, Submitted
<1>4. \A k \in Keys : k \notin tx.rows => result'[k] = result[k]
  OBVIOUS
<1>5. OutputMatchesUntouched'
  BY <1>1, <1>3, <1>4 DEF OutputMatchesUntouched, Idle
<1>6. OnlyRegisteredHaveResults'
  BY <1>3, <1>4 DEF OnlyRegisteredHaveResults, Registered, Exists
<1>7. StoredOnce'
  BY <1>1, <1>3, <1>4 DEF StoredOnce, Spend, Row
<1>8. QED
  BY <1>2, <1>5, <1>6, <1>7

LEMMA SaveClientIInv ==
    ASSUME TypeOK, IInv, NEW n \in Nonces, NEW c \in Clients, SaveClient(n, c)
    PROVE  IInv'
<1> USE DEF IInv, TypeOK, SaveClient
<1>1. SubmitPending' /\ RemovePending'
  BY DEF SubmitPending, RemovePending, AuthorisedAdmin, Idle
<1>2. OutputMatchesUntouched'
  BY DEF OutputMatchesUntouched
<1>3. OnlyRegisteredHaveResults'
  BY DEF OnlyRegisteredHaveResults, Registered, Exists
<1>4. StoredOnce'
  BY DEF StoredOnce, Spend, Row
<1>5. QED
  BY <1>1, <1>2, <1>3, <1>4

\* A removal starts with every file still to be deleted.
LEMMA DeleteIInv ==
    ASSUME TypeOK, IInv, NEW n \in Nonces, NEW rows \in SUBSET Keys,
           NEW drop \in SUBSET Clients, Delete(n, rows, drop),
           \A k \in Keys : k[2] \in drop => k \in rows
    PROVE  IInv'
<1> USE DEF IInv, TypeOK, Delete
<1>1. SubmitPending' /\ RemovePending'
  BY DEF SubmitPending, RemovePending
<1>2. OutputMatchesUntouched'
  BY DEF OutputMatchesUntouched, AuthorisedAdmin, Idle
<1>3. OnlyRegisteredHaveResults' /\ StoredOnce'
  BY DEF OnlyRegisteredHaveResults, Registered, Exists, StoredOnce
<1>4. QED
  BY <1>1, <1>2, <1>3

LEMMA DeleteLogIInv ==
    ASSUME TypeOK, IInv, NEW k \in Keys, DeleteLog(k)
    PROVE  IInv'
<1> USE DEF IInv, TypeOK, DeleteLog
<1>1. tx' = [tx EXCEPT !.files = tx.files \ {k}]
  OBVIOUS
<1>2. /\ tx'.op = "remove" /\ tx'.rows = tx.rows /\ tx'.drop = tx.drop
      /\ tx'.files = tx.files \ {k}
  BY <1>1 DEF Tx
<1>3. SubmitPending' /\ RemovePending'
  BY <1>2 DEF SubmitPending, RemovePending
<1>4. OutputMatchesUntouched'
  BY <1>2 DEF OutputMatchesUntouched, RemovePending
<1>5. OnlyRegisteredHaveResults' /\ StoredOnce'
  BY DEF OnlyRegisteredHaveResults, Registered, Exists, StoredOnce
<1>6. QED
  BY <1>3, <1>4, <1>5

LEMMA RemoveCommitIInv ==
    ASSUME TypeOK, IInv, RemoveCommit
    PROVE  IInv'
<1> USE DEF IInv, TypeOK, RemoveCommit, EndTransaction
<1>1. SubmitPending' /\ RemovePending'
  BY DEF SubmitPending, RemovePending, Idle
<1>2. \A k \in Keys : k \in tx.rows => result'[k] = NoRow /\ log[k] = NoNonce
  BY DEF RemovePending
<1>3. \A k \in Keys : k \notin tx.rows => result'[k] = result[k]
  OBVIOUS
<1>4. \A k \in Keys : k \notin tx.rows => clients'[k[2]] = clients[k[2]]
  BY DEF RemovePending, Keys
<1>5. OutputMatchesUntouched'
  BY <1>2, <1>3 DEF OutputMatchesUntouched, NoRow, Idle
<1>6. OnlyRegisteredHaveResults'
  BY <1>2, <1>3, <1>4 DEF OnlyRegisteredHaveResults, Registered, Exists, NoRow
<1>7. StoredOnce'
  BY <1>2, <1>3 DEF StoredOnce, Spend, Row, NoRow
<1>8. QED
  BY <1>1, <1>5, <1>6, <1>7

\* An aborted handler leaves its files, and the keys it touched are torn.
LEMMA AbortIInv ==
    ASSUME TypeOK, IInv, Abort
    PROVE  IInv'
<1> USE DEF IInv, TypeOK, Abort, EndTransaction
<1>1. SubmitPending' /\ RemovePending'
  BY DEF SubmitPending, RemovePending, Idle
<1>2. OutputMatchesUntouched'
  BY DEF OutputMatchesUntouched, Idle
<1>3. OnlyRegisteredHaveResults' /\ StoredOnce'
  BY DEF OnlyRegisteredHaveResults, Registered, Exists, StoredOnce
<1>4. QED
  BY <1>1, <1>2, <1>3

LEMMA TickIInv ==
    ASSUME TypeOK, IInv, Tick
    PROVE  IInv'
<1> USE DEF IInv, TypeOK, Tick
<1>1. \A k \in Keys : result'[k].by = result[k].by /\ result'[k].status = result[k].status
  BY DEF Row
<1>2. \A n \in Nonces : auth[n] = NoTime => auth'[n] = NoTime
  BY DEF Aged
<1>3. SubmitPending' /\ RemovePending'
  BY DEF SubmitPending, RemovePending, Registered
<1>4. OutputMatchesUntouched'
  BY <1>1 DEF OutputMatchesUntouched
<1>5. OnlyRegisteredHaveResults'
  BY <1>1 DEF OnlyRegisteredHaveResults, Registered, Exists
<1>6. StoredOnce'
  BY <1>1, <1>2 DEF StoredOnce, Row
<1>7. QED
  BY <1>3, <1>4, <1>5, <1>6

LEMMA InductiveInvariant == Spec => []IInv
<1>1. TypeOK /\ IInv /\ [Next]_vars => IInv'
  <2> SUFFICES ASSUME TypeOK, IInv, [Next]_vars
               PROVE  IInv'
    OBVIOUS
  <2>1. ASSUME NEW n \in Nonces, Authenticated(n)
        PROVE  IInv'
    <3>1. CASE \E c \in Clients, r \in Commits, age \in StartAges : AcceptWork(n, c, r, age)
      BY <3>1, AcceptIInv
    <3>2. CASE \E c \in Clients, r \in Commits, partial, given \in BOOLEAN :
                  SubmitWork(n, c, r, partial, given)
      BY <3>2, SubmitIInv
    <3>3. CASE \E r \in Commits : Update(n, r)
      BY <3>3, FewerIInv DEF Update, Spend, TypeOK
    <3>4. CASE \E b \in Branches : DeleteBranch(n, b)
      BY <3>4, FewerIInv DEF DeleteBranch, Spend, TypeOK
    <3>5. CASE \E c \in Clients : SaveClient(n, c)
      BY <3>5, SaveClientIInv
    <3>6. ASSUME NEW c \in Clients, RemoveClient(n, c)
          PROVE  IInv'
      <4> DEFINE rows == {k \in Keys : k[2] = c}
      <4>1. Delete(n, rows, {c})
        BY <3>6 DEF RemoveClient
      <4>2. rows \in SUBSET Keys /\ {c} \in SUBSET Clients
        OBVIOUS
      <4>3. \A k \in Keys : k[2] \in {c} => k \in rows
        OBVIOUS
      <4> HIDE DEF rows
      <4>4. QED
        BY <4>1, <4>2, <4>3, DeleteIInv
    <3>7. CASE \E c \in Clients : Denied(n, c)
      BY <3>7, FewerIInv DEF Denied, Spend, TypeOK
    <3>8. ASSUME NEW k \in Keys, Remove(n, k)
          PROVE  IInv'
      <4>1. Delete(n, {k}, {}) /\ {k} \in SUBSET Keys /\ {} \in SUBSET Clients
        BY <3>8 DEF Remove
      <4>2. QED
        BY <4>1, DeleteIInv
    <3>9. CASE Clean(n)
      BY <3>9, FewerIInv DEF Clean, Spend, TypeOK
    <3>10. QED
      BY <2>1, <3>1, <3>2, <3>3, <3>4, <3>5, <3>6, <3>7, <3>8, <3>9 DEF Authenticated
  <2>2. CASE \E n \in Nonces : IssueNonce(n)
    BY <2>2, IssueIInv
  <2>3. CASE SubmitCommit
    BY <2>3, SubmitCommitIInv
  <2>4. CASE \E k \in Keys : DeleteLog(k)
    BY <2>4, DeleteLogIInv
  <2>5. CASE RemoveCommit
    BY <2>5, RemoveCommitIInv
  <2>6. CASE Abort
    BY <2>6, AbortIInv
  <2>7. CASE CleanResults
    BY <2>7, FewerIInv DEF CleanResults
  <2>8. CASE CleanAuth
    BY <2>8, FewerIInv DEF CleanAuth
  <2>9. CASE CleanLost
    BY <2>9, FewerIInv DEF CleanLost
  <2>10. CASE Tick
    BY <2>10, TickIInv
  <2>11. CASE UNCHANGED vars
    BY <2>11, FewerIInv DEF vars
  <2>12. QED
    BY <2>1, <2>2, <2>3, <2>4, <2>5, <2>6, <2>7, <2>8, <2>9, <2>10, <2>11 DEF Next
<1>2. QED
  BY <1>1, InitIInv, TypeCorrect, PTL DEF Spec

----------------------------------------------------------------------------

\* No result or output file belongs to a client that is not registered, however its
\* late requests interleave with RemoveClient.
THEOREM NoResultsWithoutClient == Spec => []OnlyRegisteredHaveResults
<1>1. IInv => OnlyRegisteredHaveResults
  BY DEF IInv
<1>2. QED
  BY <1>1, InductiveInvariant, PTL

\* Short of an aborted handler, the output file of a result shows the submission that
\* its counts come from.
THEOREM OutputOfSameSubmission == Spec => []OutputMatchesResult
<1>1. IInv => OutputMatchesResult
  BY DEF IInv, OutputMatchesUntouched, OutputMatchesResult
<1>2. QED
  BY <1>1, InductiveInvariant, PTL

\* The nonce of a stored submission is gone from AUTH for good: the request cannot be
\* carried out twice.
THEOREM NoReplay == Spec => []StoredOnce
<1>1. IInv => StoredOnce
  BY DEF IInv
<1>2. QED
  BY <1>1, InductiveInvariant, PTL

----------------------------------------------------------------------------

\* A step that gives up a final result is a removal of it, or takes it up again.
LEMMA FinalKeptStep ==
    ASSUME TypeOK, [Next]_vars, NEW k \in Keys, Done(k), ~Done(k)'
    PROVE  InProgress(k)' \/ k \in tx.rows \/ k[1] \notin commits'
<1> USE DEF TypeOK, Done, InProgress
<1>1. result'[k] # result[k]
  OBVIOUS
<1>2. ASSUME NEW n \in Nonces, Authenticated(n)
      PROVE  InProgress(k)' \/ k \in tx.rows \/ k[1] \notin commits'
  <2>1. ASSUME NEW c \in Clients, NEW r \in Commits, NEW age \in StartAges,
               AcceptWork(n, c, r, age)
        PROVE  InProgress(k)'
    BY <1>1, <2>1 DEF AcceptWork, Accepted, Row, Keys
  <2>2. ASSUME NEW b \in Branches, DeleteBranch(n, b)
        PROVE  k[1] \notin commits'
    BY <1>1, <2>2 DEF DeleteBranch
  <2>3. QED
    BY <1>1, <1>2, <2>1, <2>2
    DEF Authenticated, SubmitWork, Update, SaveClient, RemoveClient, Remove, Delete, Denied, Clean
<1>3. CASE CleanResults
  BY <1>1, <1>3 DEF CleanResults, Cleanable
<1>4. CASE Tick
  <2>1. result'[k].status = result[k].status
    BY <1>4 DEF Tick, Row
  <2>2. QED
    BY <2>1
<1>5. CASE \/ SubmitCommit
           \/ RemoveCommit
  BY <1>1, <1>5 DEF SubmitCommit, RemoveCommit
<1>6. QED
  BY <1>1, <1>2, <1>3, <1>4, <1>5
  DEF Next, IssueNonce, DeleteLog, Abort, CleanAuth, CleanLost, vars

\* Final results are only lost to a removal or a new accept or partial submission.
THEOREM FinalResultsKept == Spec => FinalKept
<1>1. TypeOK /\ [Next]_vars =>
        [\A k \in Keys : Done(k) /\ ~Done(k)' =>
            InProgress(k)' \/ k \in tx.rows \/ k[1] \notin commits']_vars
  BY FinalKeptStep
<1>2. QED
  BY <1>1, TypeCorrect, PTL DEF Spec, FinalKept

----------------------------------------------------------------------------
(* Ages.                                                                    *)

\* Time only adds to an age.
LEMMA AgedGrows ==
    ASSUME NEW limit \in Nat, NEW t \in 0 .. (limit + 1)
    PROVE  Aged(t, limit) \in 0 .. (limit + 1) /\ Aged(t, limit) >= t
  BY NullAssumption DEF Aged

\* What a step may do to a row, and which step.
LEMMA RowChange ==
    ASSUME TypeOK, [Next]_vars, NEW k \in Keys
    PROVE  \/ result'[k] = result[k]
           \/ /\ result'[k] = NoRow
              /\ (RemoveCommit /\ k \in tx.rows) \/ k[1] \notin commits' \/ Cleanable(k)
           \/ \E n \in Nonces, age \in StartAges :
                 AcceptWork(n, k[2], k[1], age) /\ result'[k] = Accepted(result[k], age)
           \/ SubmitCommit /\ k \in tx.rows /\ result'[k] = Submitted(result[k])
           \/ result'[k] = [result[k] EXCEPT !.start = Aged(result[k].start, MaxTestTime)]
<1>1. ASSUME NEW n \in Nonces, NEW c \in Clients, NEW r \in Commits, NEW age \in StartAges,
             AcceptWork(n, c, r, age)
      PROVE  \/ result'[k] = result[k]
             \/ AcceptWork(n, k[2], k[1], age) /\ result'[k] = Accepted(result[k], age)
  <2>1. CASE k = <<r, c>>
    BY <1>1, <2>1 DEF AcceptWork, TypeOK
  <2>2. CASE k # <<r, c>>
    BY <1>1, <2>2 DEF AcceptWork, TypeOK
  <2> QED
    BY <2>1, <2>2
<1>2. ASSUME NEW n \in Nonces, NEW b \in Branches, DeleteBranch(n, b)
      PROVE  result'[k] = result[k] \/ (result'[k] = NoRow /\ k[1] \notin commits')
  BY <1>2 DEF DeleteBranch
<1>3. CASE SubmitCommit
  BY <1>3 DEF SubmitCommit
<1>4. CASE RemoveCommit
  BY <1>4 DEF RemoveCommit
<1>5. CASE CleanResults
  BY <1>5 DEF CleanResults
<1>6. CASE Tick
  BY <1>6 DEF Tick
<1>7. CASE UNCHANGED result
  BY <1>7
<1> QED
  BY <1>1, <1>2, <1>3, <1>4, <1>5, <1>6, <1>7
  DEF Next, Authenticated, IssueNonce, Denied, Update, SaveClient, Remove, RemoveClient, Delete,
      SubmitWork, DeleteLog, Abort, Clean, CleanAuth, CleanLost, vars

\* A row with a START that nobody accepts or submits for only grows older, until it is gone.
LEMMA RowAges ==
    ASSUME TypeOK, [Next]_vars, NEW k \in Keys, ~Posted(k),
           result[k].start # NoTime
    PROVE  \/ ~Exists(k)'
           \/ /\ result'[k].status = result[k].status
              /\ result'[k].start \in StartAges /\ result'[k].start >= result[k].start
<1>1. result[k] \in Row /\ result[k].start \in StartAges
  BY DEF TypeOK, Row
<1>2. CASE result'[k] \in {result[k], NoRow}
  BY <1>1, <1>2, LimitAssumption DEF Exists, NoRow, StartAges
<1>3. CASE result'[k] = [result[k] EXCEPT !.start = Aged(result[k].start, MaxTestTime)]
  BY <1>1, <1>3, LimitAssumption, AgedGrows DEF Row, StartAges
<1> QED
  BY <1>2, <1>3, RowChange DEF Posted

\* The submission that is being stored posted its start.
StartPosted == tx.op = "submit" => tx.given

\* A stored START stays as long as its row if every submission posts its start: nothing but
\* a submission without one takes it away (StartKept is refuted by one).
THEOREM StartKeptIfPosted == Spec /\ []StartPosted => StartKept
<1>1. ASSUME TypeOK, StartPosted, [Next]_vars,
             NEW k \in Keys, result[k].start # NoTime, Exists(k)'
      PROVE  result'[k].start # NoTime
  <2>1. ASSUME NEW n \in Nonces, NEW age \in StartAges, AcceptWork(n, k[2], k[1], age)
        PROVE  result'[k].start # NoTime
    <3>1. result'[k] = [result[k] EXCEPT !.status = "inprogress", !.start = age]
      <4>1. k = <<k[1], k[2]>>
        BY DEF Keys
      <4> QED
        BY <1>1, <2>1, <4>1 DEF AcceptWork, Accepted, TypeOK
    <3>2. result[k] \in Row
      BY <1>1 DEF TypeOK
    <3> QED
      BY <3>1, <3>2, NullAssumption, LimitAssumption DEF Row, StartAges
  <2>2. CASE SubmitCommit /\ k \in tx.rows
    <3>1. tx.given /\ result'[k].start = IF tx.given THEN result[k].start ELSE NoTime
      BY <1>1, <2>2 DEF SubmitCommit, Submitted, StartPosted
    <3> QED
      BY <1>1, <3>1
  <2>3. CASE ~Posted(k)
    <3>1. result'[k].start \in StartAges
      BY <1>1, <2>3, RowAges
    <3> QED
      BY <3>1, NullAssumption, LimitAssumption DEF StartAges
  <2> QED
    BY <2>1, <2>2, <2>3 DEF Posted
<1>2. TypeOK /\ StartPosted /\ [Next]_vars =>
         \A k \in Keys : result[k].start # NoTime /\ Exists(k)' => (result[k].start # NoTime)'
  BY <1>1
<1> QED
  BY <1>2, TypeCorrect, PTL DEF Spec, StartKept

\* A build in progress whose start is known waits to be forgotten: unless somebody posts for
\* it, it only grows older until it is gone, and once Clean may take it Clean may always take
\* it.  (That it is gone in the end takes the fairness of StaleStartedForgotten.)
WaitsForClean ==
    [][\A k \in Keys : InProgress(k) /\ result[k].start # NoTime =>
          \/ Posted(k) \/ ~Exists(k)'
          \/ /\ InProgress(k)'
             /\ result'[k].start >= result[k].start
             /\ Cleanable(k) => Cleanable(k)']_vars

\* No accept, submission, removal or clean-up of another row makes such a build younger.
THEOREM StaleStartedWaits == Spec => WaitsForClean
<1>1. ASSUME TypeOK, [Next]_vars, NEW k \in Keys, InProgress(k), result[k].start # NoTime,
             ~Posted(k), Exists(k)'
      PROVE  /\ InProgress(k)'
             /\ result'[k].start >= result[k].start
             /\ Cleanable(k) => Cleanable(k)'
  <2>1. /\ result'[k].status = result[k].status
        /\ result'[k].start \in StartAges /\ result'[k].start >= result[k].start
    BY <1>1, RowAges
  <2>2. result[k].start \in StartAges
    BY <1>1 DEF TypeOK, Row
  <2> QED
    BY <1>1, <2>1, <2>2, NullAssumption, LimitAssumption DEF InProgress, Cleanable, OlderThan, StartAges
<1>2. TypeOK /\ [Next]_vars =>
         \A k \in Keys : InProgress(k) /\ result[k].start # NoTime =>
            \/ Posted(k) \/ ~Exists(k)'
            \/ /\ InProgress(k)'
               /\ result'[k].start >= result[k].start
               /\ Cleanable(k) => Cleanable(k)'
  BY <1>1
<1> QED
  BY <1>2, TypeCorrect, PTL DEF Spec, WaitsForClean

\* A build in progress whose START is NULL is never cleaned: unless somebody posts for it,
\* its row stays as it is, however much time passes, until an administrator removes it, its
\* client or its branch (StaleForgotten is refuted by one).
UnstartedStays ==
    [][\A k \in Keys : InProgress(k) /\ result[k].start = NoTime =>
          \/ Posted(k)
          \/ result'[k] = result[k]
          \/ (RemoveCommit /\ k \in tx.rows) \/ k[1] \notin commits']_vars

\* The comparison with START in CleanResults never holds of NULL.
THEOREM UnstartedNeverCleaned == Spec => UnstartedStays
<1>1. ASSUME TypeOK, [Next]_vars, NEW k \in Keys, InProgress(k), result[k].start = NoTime, ~Posted(k)
      PROVE  \/ result'[k] = result[k]
             \/ (RemoveCommit /\ k \in tx.rows) \/ k[1] \notin commits'
  <2>1. ~Cleanable(k)
    BY <1>1 DEF Cleanable, OlderThan
  <2>2. [result[k] EXCEPT !.start = Aged(result[k].start, MaxTestTime)] = result[k]
    BY <1>1 DEF Aged, TypeOK, Row
  <2> QED
    BY <1>1, <2>1, <2>2, RowChange DEF Posted
<1>2. TypeOK /\ [Next]_vars =>
         \A k \in Keys : InProgress(k) /\ result[k].start = NoTime =>
            \/ Posted(k)
            \/ result'[k] = result[k]
            \/ (RemoveCommit /\ k \in tx.rows) \/ k[1] \notin commits'
  BY <1>1
<1> QED
  BY <1>2, TypeCorrect, PTL DEF Spec, UnstartedStays

\* The counts of a stored submission are only given up for those of another one for the same
\* commit and client, as long as the row is there: a builder that accepts a commit from a
\* list that is out of date puts a finished result back in progress, but keeps its counts.
CountsKept ==
    [][\A k \in Keys :
          Exists(k)' => result'[k].by = result[k].by \/ (SubmitCommit /\ k \in tx.rows)]_vars

\* AcceptWork saves STATUS, START and BUILDER only: the other columns stay as they are.
THEOREM AcceptKeepsCounts == Spec => CountsKept
<1>1. ASSUME TypeOK, [Next]_vars, NEW k \in Keys, Exists(k)', ~(SubmitCommit /\ k \in tx.rows)
      PROVE  result'[k].by = result[k].by
  <2>1. result[k] \in Row
    BY <1>1 DEF TypeOK
  <2>2. \A age : Accepted(result[k], age).by = result[k].by
    BY <2>1 DEF Accepted, Row
  <2>3. result'[k] # NoRow
    BY <1>1 DEF Exists, NoRow
  <2>4. \A start : [result[k] EXCEPT !.start = start].by = result[k].by
    BY <2>1 DEF Row
  <2>5. \/ result'[k] = result[k]
        \/ \E age \in StartAges : result'[k] = Accepted(result[k], age)
        \/ result'[k] = [result[k] EXCEPT !.start = Aged(result[k].start, MaxTestTime)]
    BY <1>1, <2>3, RowChange
  <2> QED
    BY <2>2, <2>4, <2>5
<1>2. TypeOK /\ [Next]_vars =>
         \A k \in Keys :
            Exists(k)' => result'[k].by = result[k].by \/ (SubmitCommit /\ k \in tx.rows)
  BY <1>1
<1> QED
  BY <1>2, TypeCorrect, PTL DEF Spec, CountsKept

\* The life of a nonce is never extended: as long as it is stored it only grows older, and
\* an expired one stays expired until CleanAuth or its use takes it.  (That CleanAuth does in
\* the end takes the fairness of NonceForgotten.)
NonceOnlyAges ==
    [][\A n \in Nonces : auth[n] # NoTime =>
          \/ auth'[n] = NoTime
          \/ auth'[n] >= auth[n] /\ (Expired(n) => Expired(n)')]_vars

\* No Auth gives out a nonce that is stored, and none is stored anew by CheckAuth.
THEOREM NonceLifeNotExtended == Spec => NonceOnlyAges
<1>1. ASSUME TypeOK, [Next]_vars, NEW n \in Nonces, auth[n] # NoTime
      PROVE  \/ auth'[n] = NoTime
             \/ auth'[n] >= auth[n] /\ (Expired(n) => Expired(n)')
  <2>1. auth[n] \in NonceAges /\ auth[n] >= auth[n] /\ auth[n] >= 0
    BY <1>1, LimitAssumption DEF TypeOK, NonceAges
  <2>2. CASE auth'[n] \in {auth[n], NoTime}
    BY <2>1, <2>2 DEF Expired
  <2>3. CASE Tick
    <3>1. auth'[n] = Aged(auth[n], NonceLife)
      BY <2>3 DEF Tick
    <3>2. auth'[n] \in NonceAges /\ auth'[n] >= auth[n]
      BY <2>1, <3>1, LimitAssumption, AgedGrows DEF NonceAges
    <3> QED
      BY <2>1, <3>2, LimitAssumption, NullAssumption DEF Expired, OlderThan, NonceAges
  <2>4. ASSUME NEW m \in Nonces, IssueNonce(m)
        PROVE  auth'[n] = auth[n]
    <3>1. auth[m] = NoTime
      BY <2>4 DEF IssueNonce, Unused
    <3> QED
      BY <1>1, <2>4, <3>1 DEF IssueNonce, TypeOK
  <2>5. ASSUME NEW m \in Nonces, auth' = [auth EXCEPT ![m] = NoTime]
        PROVE  auth'[n] \in {auth[n], NoTime}
    BY <1>1, <2>5 DEF TypeOK
  <2>6. ASSUME NEW m \in Nonces, Authenticated(m)
        PROVE  auth'[n] \in {auth[n], NoTime}
    <3>1. Spend(m) \/ UNCHANGED auth
      BY <2>6 DEF Authenticated, AcceptWork, SubmitWork, Update, DeleteBranch, SaveClient, Remove,
         RemoveClient, Delete, Denied, Clean
    <3> QED
      BY <2>5, <3>1 DEF Spend
  <2>7. CASE SubmitCommit \/ RemoveCommit
    <3>1. tx.nonce \in Nonces
      BY <1>1, <2>7 DEF TypeOK, SubmitCommit, RemoveCommit
    <3> QED
      BY <2>2, <2>5, <2>7, <3>1 DEF SubmitCommit, RemoveCommit, Spend
  <2>8. CASE CleanAuth
    BY <2>2, <2>8 DEF CleanAuth
  <2>9. CASE UNCHANGED auth
    BY <2>2, <2>9
  <2> QED
    BY <1>1, <2>2, <2>3, <2>4, <2>6, <2>7, <2>8, <2>9
    DEF Next, DeleteLog, Abort, CleanResults, CleanLost, vars
<1>2. TypeOK /\ [Next]_vars =>
         \A n \in Nonces : auth[n] # NoTime =>
            \/ auth'[n] = NoTime
            \/ auth'[n] >= auth[n] /\ (Expired(n) => Expired(n)')
  BY <1>1
<1> QED
  BY <1>2, TypeCorrect, PTL DEF Spec, NonceOnlyAges

----------------------------------------------------------------------------
(* WorkApi implements JobBoard. *)

\* The abstract state.
members == {c \in Clients : Registered(c)}
board == [k \in Keys |-> result[k].status]

\* What a transaction is about to write: one row, or one client and all its rows.
TxShape ==
    /\ tx.op = "submit" => \E k \in Keys : tx.rows = {k}
    /\ tx.op = "remove" =>
          \/ tx.drop = {} /\ \E k \in Keys : tx.rows = {k}
          \/ \E c \in Clients : tx.drop = {c} /\ tx.rows = {k \in Keys : k[2] = c}

LEMMA TxShaped == Spec => []TxShape
<1>1. Init => TxShape
  BY DEF Init, TxShape, Idle
<1>2. TypeOK /\ TxShape /\ [Next]_vars => TxShape'
  <2> SUFFICES ASSUME TypeOK, TxShape, [Next]_vars
               PROVE  TxShape'
    OBVIOUS
  <2>1. CASE UNCHANGED tx
    BY <2>1 DEF TxShape
  <2>2. CASE tx' = Idle
    BY <2>2 DEF TxShape, Idle
  <2>3. ASSUME NEW n \in Nonces, NEW c \in Clients, NEW r \in Commits,
               NEW partial \in BOOLEAN, NEW given \in BOOLEAN,
               SubmitWork(n, c, r, partial, given)
        PROVE  TxShape'
    BY <2>3 DEF SubmitWork, TxShape, Keys
  <2>4. ASSUME NEW n \in Nonces, NEW k \in Keys, Remove(n, k)
        PROVE  TxShape'
    BY <2>4 DEF Remove, Delete, TxShape
  <2>5. ASSUME NEW n \in Nonces, NEW c \in Clients, RemoveClient(n, c)
        PROVE  TxShape'
    BY <2>5 DEF RemoveClient, Delete, TxShape
  <2>6. ASSUME NEW k \in Keys, DeleteLog(k)
        PROVE  TxShape'
    <3>1. tx' = [tx EXCEPT !.files = tx.files \ {k}]
      BY <2>6 DEF DeleteLog
    <3>2. tx'.op = tx.op /\ tx'.rows = tx.rows /\ tx'.drop = tx.drop
      BY <3>1 DEF TypeOK, Tx
    <3>3. QED
      BY <3>2 DEF TxShape
  <2>7. QED
    BY <2>1, <2>2, <2>3, <2>4, <2>5, <2>6
    DEF Next, Authenticated, IssueNonce, Denied, AcceptWork, Update, DeleteBranch, SaveClient,
        Clean, SubmitCommit, RemoveCommit, Abort, EndTransaction, CleanResults, CleanAuth,
        CleanLost, Tick, vars
<1>3. QED
  BY <1>1, <1>2, TypeCorrect, PTL DEF Spec

----------------------------------------------------------------------------

LEMMA BoardUnchanged ==
    ASSUME UNCHANGED clients, \A k \in Keys : result'[k].status = result[k].status
    PROVE  UNCHANGED Board!boardVars
<1>1. UNCHANGED members /\ UNCHANGED board
  BY DEF members, board, Registered
<1>2. QED
  BY <1>1 DEF members, board, Board!boardVars

LEMMA AcceptReports ==
    ASSUME TypeOK, NEW n \in Nonces, NEW c \in Clients, NEW r \in Commits,
           NEW age \in StartAges, AcceptWork(n, c, r, age)
    PROVE  Board!Next
<1>1. <<r, c>> \in Keys /\ <<r, c>>[2] = c
  BY DEF Keys
<1>2. \A k \in Keys : result'[k].status = IF k = <<r, c>> THEN "inprogress" ELSE result[k].status
  BY <1>1 DEF AcceptWork, Accepted, TypeOK, Row
<1>3. board' = [board EXCEPT ![<<r, c>>] = "inprogress"]
  BY <1>1, <1>2 DEF board
<1>4. Board!Report(<<r, c>>, "inprogress")
  BY <1>1, <1>3 DEF Board!Report, AcceptWork, Authorised, Registered, board
<1>5. QED
  BY <1>1, <1>4 DEF Board!Next, Board!Keys, Keys

LEMMA SubmitReports ==
    ASSUME TypeOK, IInv, TxShape, SubmitCommit
    PROVE  Board!Next
<1>1. PICK k \in Keys : tx.rows = {k}
  BY DEF SubmitCommit, TxShape
<1>2. Registered(k[2]) /\ k[2] \in Clients
  BY <1>1 DEF SubmitCommit, IInv, SubmitPending, Keys
<1>3. board' = [board EXCEPT ![k] = IF tx.partial THEN "inprogress" ELSE "done"]
  BY <1>1 DEF SubmitCommit, Submitted, board
<1>4. UNCHANGED members
  BY DEF SubmitCommit, members, Registered
<1>5. CASE tx.partial
  <2>1. Board!Report(k, "inprogress")
    BY <1>2, <1>3, <1>4, <1>5 DEF Board!Report, board, members
  <2>2. QED
    BY <2>1 DEF Board!Next, Board!Keys, Keys
<1>6. CASE ~tx.partial
  <2>1. Board!Report(k, "done")
    BY <1>2, <1>3, <1>4, <1>6 DEF Board!Report, board, members
  <2>2. QED
    BY <2>1 DEF Board!Next, Board!Keys, Keys
<1>7. QED
  BY <1>5, <1>6

LEMMA RemoveWithdraws ==
    ASSUME TypeOK, TxShape, RemoveCommit
    PROVE  Board!Next
<1>1. board' = [k \in Keys |-> IF k \in tx.rows THEN "none" ELSE board[k]]
  BY DEF RemoveCommit, board, NoRow
<1>2. CASE tx.drop = {} /\ \E k \in Keys : tx.rows = {k}
  <2>1. PICK k \in Keys : tx.rows = {k}
    BY <1>2
  <2>2. UNCHANGED members
    BY <1>2 DEF RemoveCommit, members, Registered, TypeOK
  <2>3. Board!Withdraw({k})
    BY <1>1, <2>1, <2>2 DEF Board!Withdraw, Board!Without, Board!Keys, Keys, board, members
  <2>4. QED
    BY <2>3 DEF Board!Next, Board!Keys, Keys
<1>3. CASE \E c \in Clients : tx.drop = {c} /\ tx.rows = {k \in Keys : k[2] = c}
  <2>1. PICK c \in Clients : tx.drop = {c} /\ tx.rows = {k \in Keys : k[2] = c}
    BY <1>3
  <2>2. members' = members \ {c}
    BY <2>1 DEF RemoveCommit, members, Registered, TypeOK
  <2>3. board' = [k \in Keys |-> IF k \in {x \in Keys : x[2] = c} THEN "none" ELSE board[k]]
    BY <1>1, <2>1
  <2>4. Board!Leave(c)
    BY <2>2, <2>3 DEF Board!Leave, Board!Without, Board!Keys, Keys, board, members
  <2>5. QED
    BY <2>4 DEF Board!Next
<1>4. QED
  BY <1>2, <1>3 DEF RemoveCommit, TxShape

LEMMA DeleteBranchWithdraws ==
    ASSUME NEW n \in Nonces, NEW b \in Branches, DeleteBranch(n, b)
    PROVE  Board!Next
<1> DEFINE gone == {r \in Commits : r \in commits /\ BranchOf[r] = b}
<1>1. \A k \in Keys : k[1] \in Commits /\ k[2] \in Clients /\ (k \in gone \X Clients <=> k[1] \in gone)
  BY DEF Keys
<1>2. board' = [k \in Keys |-> IF k \in gone \X Clients THEN "none" ELSE board[k]]
  BY <1>1 DEF DeleteBranch, board, NoRow
<1>3. UNCHANGED members
  BY DEF DeleteBranch, members, Registered
<1>4. gone \in SUBSET Commits
  OBVIOUS
<1>5. Board!Withdraw(gone \X Clients)
  BY <1>2, <1>3 DEF Board!Withdraw, Board!Without, Board!Keys, Keys, board, members
<1> HIDE DEF gone
<1>6. \E R \in SUBSET Commits : Board!Withdraw(R \X Clients)
  BY <1>4, <1>5 DEF Board!Withdraw
<1>7. QED
  BY <1>6 DEF Board!Next

LEMMA SaveClientJoins ==
    ASSUME TypeOK, NEW n \in Nonces, NEW c \in Clients, SaveClient(n, c)
    PROVE  Board!Next
<1>1. members' = members \cup {c} /\ UNCHANGED board
  BY DEF SaveClient, members, board, Registered, TypeOK
<1>2. Board!Join(c)
  BY <1>1 DEF Board!Join, members, board
<1>3. QED
  BY <1>2 DEF Board!Next

LEMMA CleanForgets ==
    ASSUME CleanResults
    PROVE  Board!Next
<1> DEFINE S == {k \in Keys : Cleanable(k)}
<1>1. \A k \in S : board[k] = "inprogress"
  BY DEF Cleanable, InProgress, board
<1>2. board' = [k \in Keys |-> IF k \in S THEN "none" ELSE board[k]]
  BY DEF CleanResults, board, NoRow
<1>3. UNCHANGED members
  BY DEF CleanResults, members, Registered
<1>4. S \in SUBSET Keys
  OBVIOUS
<1> HIDE DEF S
<1>5. Board!Forget(S)
  BY <1>1, <1>2, <1>3 DEF Board!Forget, Board!Without, Board!Keys, Keys, board, members
<1>6. \E T \in SUBSET Board!Keys : Board!Forget(T)
  BY <1>4, <1>5 DEF Board!Keys, Keys, Board!Forget
<1>7. QED
  BY <1>6 DEF Board!Next

\* Every step of the server is a step of the board or leaves the board alone.
LEMMA BoardStep ==
    ASSUME TypeOK, IInv, TxShape, [Next]_vars
    PROVE  Board!Next \/ UNCHANGED Board!boardVars
<1>1. ASSUME NEW n \in Nonces, Authenticated(n)
      PROVE  Board!Next \/ UNCHANGED Board!boardVars
  <2>1. CASE UNCHANGED <<clients, result>>
    BY <2>1, BoardUnchanged
  <2>2. QED
    BY <1>1, <2>1, AcceptReports, DeleteBranchWithdraws, SaveClientJoins
    DEF Authenticated, SubmitWork, Update, RemoveClient, Remove, Delete, Denied, Clean
<1>2. CASE Tick
  <2>1. \A k \in Keys : result'[k].status = result[k].status
    BY <1>2 DEF Tick, TypeOK, Row
  <2>2. QED
    BY <1>2, <2>1, BoardUnchanged DEF Tick
<1>3. CASE UNCHANGED <<clients, result>>
  BY <1>3, BoardUnchanged
<1>4. QED
  BY <1>1, <1>2, <1>3, SubmitReports, RemoveWithdraws, CleanForgets
  DEF Next, IssueNonce, DeleteLog, Abort, CleanAuth, CleanLost, vars

\* The server implements the abstract board.
THEOREM ServerImplementsBoard == Spec => ImplementsBoard
<1>1. Init => Board!Init
  BY DEF Init, Board!Init, Board!Keys, Keys, NoRow, Registered
<1>2. TypeOK /\ IInv /\ TxShape /\ [Next]_vars => [Board!Next]_(Board!boardVars)
  BY BoardStep
<1>3. QED
  BY <1>1, <1>2, TypeCorrect, InductiveInvariant, TxShaped, PTL
  DEF Spec, ImplementsBoard, Board!Spec

----------------------------------------------------------------------------
(* The server as one client sees it: what Builder takes it to be.           *)

\* The board of client c alone.
Seen(c) == INSTANCE JobBoard WITH
    Clients <- {c},
    members <- {x \in {c} : Registered(x)},
    board   <- [k \in Commits \X {c} |-> result[k].status]

\* A request in c's name is carried out (Post and Arrive of Builder), or builds of c are
\* forgotten or withdrawn, or c is removed (Administer of Builder).
Served(c) ==
    \/ \E r \in Commits, status \in {"inprogress", "done"} : Seen(c)!Report(<<r, c>>, status)
    \/ \E S \in SUBSET Seen(c)!Keys : Seen(c)!Forget(S) \/ Seen(c)!Withdraw(S)
    \/ Seen(c)!Leave(c)

StartsEmpty == \A k \in Keys : clients[k[2]] = "new" => result[k].status = "none"

\* A removed client is not registered again.
LEMMA RemovedForGood ==
    ASSUME TypeOK, NEW c \in Clients, clients[c] # "new", [Next]_vars
    PROVE  Registered(c)' => Registered(c)
  BY DEF Next, Authenticated, IssueNonce, Denied, AcceptWork, Update, DeleteBranch, SaveClient,
     Remove, RemoveClient, Delete, SubmitWork, DeleteLog, Clean, SubmitCommit, RemoveCommit, Abort,
     CleanResults, CleanAuth, CleanLost, Tick, vars, Registered, TypeOK

\* Of a step of the whole board, client c sees one of its own or none.
LEMMA BoardOfOne ==
    ASSUME NEW c \in Clients, Board!Next, Registered(c)' => Registered(c)
    PROVE  Served(c) \/ UNCHANGED Seen(c)!boardVars
<1>1. \A k \in Commits \X {c} : k \in Keys /\ k[1] \in Commits /\ k[2] = c /\ k = <<k[1], c>>
  BY DEF Keys
<1>2. c \in members <=> Registered(c)
  BY DEF members
<1>3. (c \in members)' <=> Registered(c)'
  BY DEF members
<1>4. ASSUME Registered(c)' <=> Registered(c), \A k \in Commits \X {c} : board'[k] = board[k]
      PROVE  UNCHANGED Seen(c)!boardVars
  <2>1. \A k \in Commits \X {c} : result'[k].status = result[k].status
    BY <1>1, <1>4 DEF board
  <2> QED
    BY <1>4, <2>1 DEF Seen!boardVars
<1>5. ASSUME NEW S \in SUBSET Keys, Board!Withdraw(S)
      PROVE  Seen(c)!Withdraw(S \cap (Commits \X {c}))
  <2>1. \A k \in Commits \X {c} :
           result'[k].status = IF k \in S THEN "none" ELSE result[k].status
    BY <1>1, <1>5 DEF board, Board!Withdraw, Board!Without, Board!Keys, Keys
  <2>2. Registered(c)' <=> Registered(c)
    BY <1>2, <1>3, <1>5 DEF Board!Withdraw, members
  <2> QED
    BY <1>1, <2>1, <2>2 DEF Seen!Withdraw, Seen!Without, Seen!Keys
<1>6. ASSUME NEW S \in SUBSET Keys, Board!Withdraw(S)
      PROVE  Served(c)
  <2>1. S \cap (Commits \X {c}) \in SUBSET Seen(c)!Keys
    BY DEF Seen!Keys
  <2> QED
    BY <1>5, <1>6, <2>1 DEF Served
<1>7. ASSUME NEW x \in Clients, Board!Join(x)
      PROVE  UNCHANGED Seen(c)!boardVars
  <2>1. members \subseteq members' /\ UNCHANGED board
    BY <1>7 DEF Board!Join, members, board
  <2>2. Registered(c)' <=> Registered(c)
    BY <1>2, <1>3, <2>1
  <2> QED
    BY <1>4, <2>1, <2>2
<1>8. ASSUME NEW x \in Clients, Board!Leave(x)
      PROVE  Served(c) \/ UNCHANGED Seen(c)!boardVars
  <2>1. /\ members' = members \ {x}
        /\ \A k \in Keys : board'[k] = IF k[2] = x THEN "none" ELSE board[k]
    BY <1>8 DEF Board!Leave, Board!Without, Board!Keys, Keys, members, board
  <2>2. CASE x = c
    <3>1. ~Registered(c)'
      BY <1>3, <2>1, <2>2
    <3>2. \A k \in Commits \X {c} : result'[k].status = "none"
      BY <1>1, <2>1, <2>2 DEF board
    <3>3. Seen(c)!Leave(c)
      BY <1>1, <3>1, <3>2 DEF Seen!Leave, Seen!Without, Seen!Keys
    <3> QED
      BY <3>3 DEF Served
  <2>3. CASE x # c
    BY <1>1, <1>2, <1>3, <1>4, <2>1, <2>3
  <2> QED
    BY <2>2, <2>3
<1>9. ASSUME NEW k \in Keys, NEW status \in {"inprogress", "done"}, Board!Report(k, status)
      PROVE  Served(c) \/ UNCHANGED Seen(c)!boardVars
  <2>1. /\ k[2] \in members /\ UNCHANGED members
        /\ board' = [board EXCEPT ![k] = status]
    BY <1>9 DEF Board!Report, members, board
  <2>2. Registered(c)' <=> Registered(c)
    BY <1>2, <1>3, <2>1
  <2>3. CASE k[2] = c
    <3>1. PICK r \in Commits : k = <<r, c>>
      BY <2>3 DEF Keys
    <3>2. \A l \in Commits \X {c} : result'[l].status = IF l = k THEN status ELSE result[l].status
      BY <1>1, <2>1 DEF board
    <3>3. Seen(c)!Report(<<r, c>>, status)
      BY <1>2, <2>1, <2>2, <2>3, <3>1, <3>2 DEF Seen!Report
    <3> QED
      BY <3>3 DEF Served
  <2>4. CASE k[2] # c
    BY <1>1, <1>4, <2>1, <2>2, <2>4 DEF board
  <2> QED
    BY <2>3, <2>4
<1>10. \A S \in SUBSET Keys : Board!Forget(S) => Board!Withdraw(S)
  BY DEF Board!Forget, Board!Withdraw
<1>11. \A R \in SUBSET Commits : R \X Clients \in SUBSET Keys
  BY DEF Keys
<1> QED
  BY <1>6, <1>7, <1>8, <1>9, <1>10, <1>11 DEF Board!Next, Board!Keys, Keys

\* A client's share of the board is empty when it is registered, and from then on changes
\* only as Builder lets it change, whatever the other clients and the administrator do: what
\* is proved of the processes of one machine holds of them beside the modelled server.
THEOREM ServedAsBuilderAssumes ==
    Spec => /\ []StartsEmpty
            /\ [][\A c \in Clients :
                     clients[c] # "new" => Served(c) \/ UNCHANGED Seen(c)!boardVars]_vars
<1>1. TypeOK /\ OnlyRegisteredHaveResults => StartsEmpty
  BY DEF OnlyRegisteredHaveResults, StartsEmpty, Registered, Exists
<1>2. ASSUME TypeOK, IInv, TxShape, [Next]_vars, NEW c \in Clients, clients[c] # "new"
      PROVE  Served(c) \/ UNCHANGED Seen(c)!boardVars
  <2>1. CASE Board!Next
    BY <1>2, <2>1, RemovedForGood, BoardOfOne
  <2>2. CASE UNCHANGED Board!boardVars
    <3>1. UNCHANGED <<members, board>>
      BY <2>2 DEF Board!boardVars, members, board
    <3>2. Registered(c)' <=> Registered(c)
      BY <3>1 DEF members
    <3>3. \A k \in Commits \X {c} : result'[k].status = result[k].status
      BY <3>1 DEF board, Keys
    <3> QED
      BY <3>2, <3>3 DEF Seen!boardVars
  <2> QED
    BY <1>2, <2>1, <2>2, BoardStep
<1>3. TypeOK /\ IInv /\ TxShape /\ [Next]_vars =>
         \A c \in Clients : clients[c] # "new" => Served(c) \/ UNCHANGED Seen(c)!boardVars
  BY <1>2
<1> QED
  BY <1>1, <1>3, TypeCorrect, InductiveInvariant, TxShaped, NoResultsWithoutClient, PTL DEF Spec

=============================================================================
