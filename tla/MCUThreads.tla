----------------------------- MODULE MCUThreads -----------------------------
(* UThreads with small sets of cells for TLC. *)
EXTENDS UThreads

\* The cells other than that of the main thread are interchangeable.
Symmetry == Permutations(Thread \ {Main})

\* Every point, as the code has it, and those left if the mask stays closed
\* from the block() of uthread_spawn to its last unblock().
EveryPoint  == {"user", "call", "push", "setjmp", "spawn", "quantums"}
SpawnMasked == {"user", "call", "spawn", "quantums"}

=============================================================================
