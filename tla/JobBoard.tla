------------------------------ MODULE JobBoard ------------------------------
(***************************************************************************)
(* What the server promises the build clients, without nonces, files,      *)
(* transactions or time: a board with one entry per commit and client.     *)
(* Members report on their own entries, one entry at a time; only a build  *)
(* in progress may be forgotten without anybody asking for it; a client    *)
(* that leaves takes all of its entries along.                             *)
(***************************************************************************)
CONSTANTS Clients, Commits

VARIABLES
    members,  \* registered clients
    board     \* commit and client -> state of the build

boardVars == <<members, board>>

Keys == Commits \X Clients
Statuses == {"none", "inprogress", "done"}

\* The board with the entries in S gone.
Without(S) == [k \in Keys |-> IF k \in S THEN "none" ELSE board[k]]

\* The commits GetWork offers to client c: it is a member and has reported nothing on
\* them.  (Its SRC, BRANCHES and MAX_AGE are taken to accept every commit.)
Open(c) == {r \in Commits : c \in members /\ board[<<r, c>>] = "none"}

Join(c) ==
    /\ members' = members \cup {c}
    /\ UNCHANGED board

Leave(c) ==
    /\ members' = members \ {c}
    /\ board' = Without({k \in Keys : k[2] = c})

\* An accept ("inprogress"), a partial result ("inprogress") or a final one ("done").
Report(k, status) ==
    /\ k[2] \in members
    /\ board' = [board EXCEPT ![k] = status]
    /\ UNCHANGED members

\* Builds that seem abandoned.
Forget(S) ==
    /\ \A k \in S : board[k] = "inprogress"
    /\ board' = Without(S)
    /\ UNCHANGED members

\* Results somebody deletes, for all clients or for one.
Withdraw(S) ==
    /\ board' = Without(S)
    /\ UNCHANGED members

Init ==
    /\ members = {}
    /\ board = [k \in Keys |-> "none"]

\* A withdrawal is of one entry, or of all clients' entries for some commits.
Next ==
    \/ \E c \in Clients : Join(c) \/ Leave(c)
    \/ \E k \in Keys : Report(k, "inprogress") \/ Report(k, "done") \/ Withdraw({k})
    \/ \E S \in SUBSET Keys : Forget(S)
    \/ \E R \in SUBSET Commits : Withdraw(R \X Clients)

Spec == Init /\ [][Next]_boardVars

=============================================================================
