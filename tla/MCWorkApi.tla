----------------------------- MODULE MCWorkApi -----------------------------
(* WorkApi on instances small enough for TLC. *)
EXTENDS WorkApi, TLC

\* All commits lie on one branch.
MCOneBranch == [r \in Commits |-> CHOOSE b \in Branches : TRUE]

MCSymmetry == Permutations(Nonces) \cup Permutations(Commits)

=============================================================================
