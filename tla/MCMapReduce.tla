---------------------------- MODULE MCMapReduce -----------------------------
(* MapReduce with a few workers, small inputs and simple clients for TLC. *)
EXTENDS MapReduce

Workers2 == 0 .. 1
Workers3 == 0 .. 2

\* Inputs by the keys that their maps emit: a key in two inputs, several in one,
\* an input that emits nothing, fewer inputs than threads.
Mixed  == {<<<<2, 1>>, <<1>>>>, <<<<>>, <<1, 1>>>>}
Tiny   == {<<<<1>>>>}
Silent == {<<<<>>, <<>>>>, <<>>}

Once(k) == 1

=============================================================================
