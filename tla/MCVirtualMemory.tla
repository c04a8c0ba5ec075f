-------------------------- MODULE MCVirtualMemory ---------------------------
(* VirtualMemory with tiny widths for TLC. *)
EXTENDS VirtualMemory

\* A word of each of four pages of eight, two of them in one table and two at the
\* ends of the memory, and an address that does not exist.
FourPages == {0, 2, 6, 14, 16}

=============================================================================
