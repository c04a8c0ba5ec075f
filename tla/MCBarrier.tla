----------------------------- MODULE MCBarrier ------------------------------
(* Barrier with a few threads for TLC. *)
EXTENDS Barrier, TLC

Symmetry == Permutations(Thread)

=============================================================================
