----------------------------- MODULE MCBuilder -----------------------------
(* Builder on instances small enough for TLC. *)
EXTENDS Builder, TLC

MCSymmetry == Permutations(Procs)

=============================================================================
