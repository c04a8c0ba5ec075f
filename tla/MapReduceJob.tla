---------------------------- MODULE MapReduceJob ----------------------------
(***************************************************************************)
(* What a MapReduce job promises its caller, whoever does the work: every   *)
(* pair of the input is mapped, nothing is reduced before everything is     *)
(* mapped, each key is reduced once with all its pairs, and nobody is told  *)
(* that the job is over before all its output is there.                     *)
(***************************************************************************)
EXTENDS Sequences, FiniteSets, SequencesExt

CONSTANTS
  PairsOf(_),     \* the pairs that the maps of an input emit
  OutputsOf(_)    \* the results of its reductions

VARIABLES
  input,    \* the input of the job
  emitted,  \* the intermediate pairs so far
  output,   \* the results so far, in the order of their arrival
  over      \* has waitForJob returned?

Init ==
  /\ emitted = {}
  /\ output = <<>>
  /\ over = FALSE

Map ==
  /\ \E p \in PairsOf(input) \ emitted : emitted' = emitted \union {p}
  /\ UNCHANGED <<input, output, over>>

Reduce ==
  /\ emitted = PairsOf(input)
  /\ \E o \in OutputsOf(input) \ ToSet(output) : output' = Append(output, o)
  /\ UNCHANGED <<input, emitted, over>>

Return ==
  /\ ToSet(output) = OutputsOf(input)
  /\ over' = TRUE
  /\ UNCHANGED <<input, emitted, output>>

Next == Map \/ Reduce \/ Return

Spec == Init /\ [][Next]_<<input, emitted, output, over>>

=============================================================================
