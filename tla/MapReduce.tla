----------------------------- MODULE MapReduce ------------------------------
(***************************************************************************)
(* MapReduce_Framework/MapReduceFramework.cpp: the worker threads of a job  *)
(* (job_ToDo), the barrier they share (module Barrier), and the threads of  *)
(* the program that call getJobState, waitForJob and closeJobHandle.        *)
(*                                                                         *)
(* A step is what a thread does between two accesses to what others see: a  *)
(* counter, the stage, a vector behind its mutex.                           *)
(***************************************************************************)
EXTENDS Barrier, Sequences, SequencesExt

CONSTANTS
  Client,    \* the threads of the program that call the framework
  NoClient,
  Inputs,    \* the inputs to try: for each input pair, the keys its map emits
  Emits(_)   \* how many times the reduce of a key calls emit3

ASSUME MapReduceAssumption ==
  /\ Thread = 0 .. numThreads - 1
  /\ numThreads > 0
  /\ NoClient \notin Client
  /\ Inputs \subseteq Seq(Seq(Int))

VARIABLES
  pc,       \* what each worker does
  work,     \* what its call of map or reduce has still to emit
  stage,    \* state->stage
  inputVec, threads_vec, to_shuffle, shuffled_vec, outputVec,
  atomic_map_counter, atomic_red_counter, atomic_shuffle_counter,
  atomic_emit3_counter, atomic_pairs_counter,
  cl,       \* what each client does
  seen,     \* the stage it has read in getJobState
  report,   \* the JobState it was last given
  joined,   \* the workers joined so far, `i` of the client that holds WAIT_FOR_JOB
  wait,     \* the `wait` flag of the job
  closing,  \* the client that calls closeJobHandle
  freed     \* is the JobContext deleted?

dataVars  == <<threads_vec, to_shuffle, shuffled_vec, outputVec>>
counters  == <<atomic_map_counter, atomic_red_counter, atomic_shuffle_counter,
               atomic_emit3_counter, atomic_pairs_counter>>
callVars  == <<cl, seen, report, joined, wait, closing, freed>>
vars == <<barrierVars, pc, work, stage, inputVec, dataVars, counters, callVars>>

UNDEFINED_STAGE == 0
MAP_STAGE       == 1
SHUFFLE_STAGE   == 2
REDUCE_STAGE    == 3

-----------------------------------------------------------------------------
(* The data.  An intermediate pair is a key and, for its value, the place   *)
(* it comes from: the n-th emit2 of the map of input pair i.                 *)

PairsAt(in, i) == {[key |-> in[i][n], of |-> <<i, n>>] : n \in DOMAIN in[i]}
PairsOf(in)    == UNION {PairsAt(in, i) : i \in DOMAIN in}
KeysOf(in)     == {p.key : p \in PairsOf(in)}

\* A reduce emits a number of results, and ends.
ASSUME EmitsAssumption == \A in \in Inputs : \A k \in KeysOf(in) : Emits(k) \in Nat

PairSeqs       == Seq(UNION {PairsOf(in) : in \in Inputs})

\* MapReduceClient::map and reduce, as any client may write them: the pairs
\* that a map emits, and the results of a reduce, which tell what it was given.
MapWork(i)     == [n \in DOMAIN inputVec[i] |-> [key |-> inputVec[i][n], of |-> <<i, n>>]]
ReduceWork(g)  == [n \in 1 .. Emits(g[1].key) |-> [key |-> g[1].key, of |-> ToSet(g), n |-> n]]
OutputsOf(in)  ==
  UNION {{[key |-> k, of |-> {p \in PairsOf(in) : p.key = k}, n |-> n] :
             n \in 1 .. Emits(k)} : k \in KeysOf(in)}

\* The order of the comparator, and what std::sort may make of a vector: equal
\* keys end in any order.
KeyAtMost(p, q) == p.key <= q.key
Sortings(v)     == {s \in SetToSeqs(ToSet(v)) : IsSorted(s, KeyAtMost)}

\* std::merge of pair_merging_helper.  A round of its loop takes the first element
\* that is left of a or of b, of equal keys that of a.  Mutant: the rest of the
\* second vector is lost.
TakesFirst(a, b, m) ==
  m.i < Len(a) /\ (m.j < Len(b) => a[m.i + 1].key <= b[m.j + 1].key)
MutantMergeRound(a, b, m) ==
  IF TakesFirst(a, b, m) THEN [i |-> m.i + 1, j |-> m.j, out |-> Append(m.out, a[m.i + 1])]
  ELSE IF m.i = Len(a) THEN m
  ELSE [i |-> m.i, j |-> m.j + 1, out |-> Append(m.out, b[m.j + 1])]
MergeRound(a, b, m) ==
  IF TakesFirst(a, b, m) THEN [i |-> m.i + 1, j |-> m.j, out |-> Append(m.out, a[m.i + 1])]
  ELSE [i |-> m.i, j |-> m.j + 1, out |-> Append(m.out, b[m.j + 1])]
Merge(a, b) ==
  LET after[k \in 0 .. Len(a) + Len(b)] ==
        IF k = 0 THEN [i |-> 0, j |-> 0, out |-> <<>>] ELSE MergeRound(a, b, after[k - 1])
  IN after[Len(a) + Len(b)].out

\* A call of merge_vectors, with the vectors of the threads to_merge: it merges
\* neighbours into the first of the two and goes on with vec_set, every other
\* thread.  The last of an odd number is passed on as it is.
VecSet(to_merge) == [n \in 1 .. (Len(to_merge) + 1) \div 2 |-> to_merge[2 * n - 1]]
Neighbour(to_merge, t) ==
  {to_merge[2 * n] : n \in {n \in 1 .. Len(to_merge) \div 2 : to_merge[2 * n - 1] = t}}
MergeNeighbours(to_merge, vecs) ==
  [t \in Thread |-> IF Neighbour(to_merge, t) = {} THEN vecs[t]
                    ELSE Merge(vecs[t], vecs[CHOOSE u \in Neighbour(to_merge, t) : TRUE])]
MergeCall(c) == [to_merge |-> VecSet(c.to_merge), vecs |-> MergeNeighbours(c.to_merge, c.vecs)]

\* The vectors after all its calls: one more changes nothing when one is left.
merge_vectors(vecs) ==
  LET call[r \in 0 .. numThreads] ==
        IF r = 0 THEN [to_merge |-> [n \in 1 .. numThreads |-> n - 1], vecs |-> vecs]
        ELSE MergeCall(call[r - 1])
  IN call[numThreads].vecs

\* Mutant: the pair is compared with the last group only, and taken to be of its
\* key.
MutantGrouped(groups, p) ==
  IF groups = <<>> THEN <<<<p>>>>
  ELSE [groups EXCEPT ![Len(groups)] = Append(@, p)]

\* One round of the loop of shuffle_stage: the pair joins the first group with
\* its key, or starts one.
GroupsWithKey(groups, p) == {g \in DOMAIN groups : groups[g][1].key = p.key}
Grouped(groups, p) ==
  LET same == GroupsWithKey(groups, p)
  IN IF same = {} THEN Append(groups, <<p>>)
     ELSE LET g == CHOOSE g \in same : \A h \in same : g <= h
          IN [groups EXCEPT ![g] = Append(@, p)]

-----------------------------------------------------------------------------
(* The workers.                                                            *)

WorkerPlace == {"unborn", "start", "map", "sort", "barrier", "set_shuffle", "merge",
                "shuffle", "set_reduce", "reduce", "counting", "done"}

Go(t, place) == pc' = [pc EXCEPT ![t] = place]

\* startMapReduceJob, up to the threads.
MapReduceInit ==
  /\ BarrierInit
  /\ inputVec \in Inputs
  /\ pc = [t \in Thread |-> "unborn"]
  /\ work = [t \in Thread |-> <<>>]
  /\ stage = UNDEFINED_STAGE
  /\ threads_vec = [t \in Thread |-> <<>>]
  /\ to_shuffle = <<>> /\ shuffled_vec = <<>> /\ outputVec = <<>>
  /\ atomic_map_counter = 0 /\ atomic_red_counter = 0 /\ atomic_shuffle_counter = 0
  /\ atomic_emit3_counter = 0 /\ atomic_pairs_counter = 0
  /\ cl = [c \in Client |-> "away"]
  /\ seen = [c \in Client |-> UNDEFINED_STAGE]
  /\ report = [c \in Client |-> [stage |-> UNDEFINED_STAGE, percentage |-> [part |-> 0, whole |-> 1]]]
  /\ joined = 0 /\ wait = FALSE /\ closing = NoClient /\ freed = FALSE

\* Its loop of pthread_create: the threads it has made already run.
Create(t) ==
  /\ pc[t] = "unborn"
  /\ \A u \in 0 .. t - 1 : pc[u] # "unborn"
  /\ Go(t, "start")
  /\ UNCHANGED <<barrierVars, work, stage, inputVec, dataVars, counters, callVars>>

\* map_stage, with MAP_MUT: every thread sets the stage.
SetMap(t) ==
  /\ pc[t] = "start"
  /\ stage' = MAP_STAGE
  /\ Go(t, "map")
  /\ UNCHANGED <<barrierVars, work, inputVec, dataVars, counters, callVars>>

\* Mutant: a stale read of the counter, so that two threads map the same input.
MutantClaimInput(t) ==
  /\ pc[t] = "map" /\ work[t] = <<>>
  /\ \E c \in {atomic_map_counter, atomic_map_counter - 1} \intersect Nat :
       IF c < Len(inputVec)
       THEN work' = [work EXCEPT ![t] = MapWork(c + 1)] /\ UNCHANGED pc
       ELSE Go(t, "sort") /\ UNCHANGED work
  /\ atomic_map_counter' = atomic_map_counter + 1
  /\ UNCHANGED <<barrierVars, stage, inputVec, dataVars, atomic_red_counter,
        atomic_shuffle_counter, atomic_emit3_counter, atomic_pairs_counter, callVars>>

ClaimInput(t) ==
  /\ pc[t] = "map" /\ work[t] = <<>>
  /\ IF atomic_map_counter < Len(inputVec)
     THEN work' = [work EXCEPT ![t] = MapWork(atomic_map_counter + 1)] /\ UNCHANGED pc
     ELSE Go(t, "sort") /\ UNCHANGED work
  /\ atomic_map_counter' = atomic_map_counter + 1
  /\ UNCHANGED <<barrierVars, stage, inputVec, dataVars, atomic_red_counter,
        atomic_shuffle_counter, atomic_emit3_counter, atomic_pairs_counter, callVars>>

\* emit2, with EMIT2_MUT.
Emit2(t) ==
  /\ pc[t] = "map" /\ work[t] # <<>>
  /\ threads_vec' = [threads_vec EXCEPT ![t] = Append(@, Head(work[t]))]
  /\ atomic_pairs_counter' = atomic_pairs_counter + 1
  /\ work' = [work EXCEPT ![t] = Tail(@)]
  /\ UNCHANGED <<barrierVars, pc, stage, inputVec, to_shuffle, shuffled_vec, outputVec,
        atomic_map_counter, atomic_red_counter, atomic_shuffle_counter,
        atomic_emit3_counter, callVars>>

\* sort_stage, with SORT_MUT.
Sort(t) ==
  /\ pc[t] = "sort"
  /\ \E s \in Sortings(threads_vec[t]) : threads_vec' = [threads_vec EXCEPT ![t] = s]
  /\ Go(t, "barrier")
  /\ UNCHANGED <<barrierVars, work, stage, inputVec, to_shuffle, shuffled_vec, outputVec,
        counters, callVars>>

\* Mutant: the other threads skip the second barrier.
MutantAfterBarrier(t) ==
  IF t = 0 /\ round[t] = 0 THEN "set_shuffle" ELSE "set_reduce"

\* Where job_ToDo goes on after its first and its second call of barrier().
AfterBarrier(t) ==
  IF round[t] = 1 THEN "set_reduce" ELSE IF t = 0 THEN "set_shuffle" ELSE "barrier"

BarrierStep(t) ==
  /\ pc[t] = "barrier"
  /\ Lock(t) \/ Inside(t)
  /\ Go(t, IF round'[t] # round[t] THEN AfterBarrier(t) ELSE "barrier")
  /\ UNCHANGED <<work, stage, inputVec, dataVars, counters, callVars>>

SetShuffle(t) ==
  /\ pc[t] = "set_shuffle"
  /\ stage' = SHUFFLE_STAGE
  /\ Go(t, "merge")
  /\ UNCHANGED <<barrierVars, work, inputVec, dataVars, counters, callVars>>

\* shuffle_stage, with SHUFFLE and MERGING, up to its loop.
MergeAll(t) ==
  /\ pc[t] = "merge"
  /\ threads_vec' = merge_vectors(threads_vec)
  /\ to_shuffle' = threads_vec'[0]
  /\ Go(t, "shuffle")
  /\ UNCHANGED <<barrierVars, work, stage, inputVec, shuffled_vec, outputVec, counters,
        callVars>>

Shuffle(t) ==
  /\ pc[t] = "shuffle" /\ to_shuffle # <<>>
  /\ shuffled_vec' = Grouped(shuffled_vec, Head(to_shuffle))
  /\ to_shuffle' = Tail(to_shuffle)
  /\ atomic_shuffle_counter' = atomic_shuffle_counter + 1
  /\ UNCHANGED <<barrierVars, pc, work, stage, inputVec, threads_vec, outputVec,
        atomic_map_counter, atomic_red_counter, atomic_emit3_counter,
        atomic_pairs_counter, callVars>>

EndShuffle(t) ==
  /\ pc[t] = "shuffle" /\ to_shuffle = <<>>
  /\ Go(t, "barrier")
  /\ UNCHANGED <<barrierVars, work, stage, inputVec, dataVars, counters, callVars>>

\* With RED_MUT, unless another thread has done it.
SetReduce(t) ==
  /\ pc[t] = "set_reduce"
  /\ stage' = REDUCE_STAGE
  /\ Go(t, "reduce")
  /\ UNCHANGED <<barrierVars, work, inputVec, dataVars, counters, callVars>>

ClaimGroup(t) ==
  /\ pc[t] = "reduce" /\ work[t] = <<>>
  /\ IF atomic_red_counter < Len(shuffled_vec)
     THEN work' = [work EXCEPT ![t] = ReduceWork(shuffled_vec[atomic_red_counter + 1])]
          /\ UNCHANGED pc
     ELSE Go(t, "done") /\ UNCHANGED work
  /\ atomic_red_counter' = atomic_red_counter + 1
  /\ UNCHANGED <<barrierVars, stage, inputVec, dataVars, atomic_map_counter,
        atomic_shuffle_counter, atomic_emit3_counter, atomic_pairs_counter, callVars>>

\* emit3, with EMIT3_MUT: first the result, then its count.
Emit3Push(t) ==
  /\ pc[t] = "reduce" /\ work[t] # <<>>
  /\ \A u \in Thread : pc[u] # "counting"
  /\ outputVec' = Append(outputVec, Head(work[t]))
  /\ work' = [work EXCEPT ![t] = Tail(@)]
  /\ Go(t, "counting")
  /\ UNCHANGED <<barrierVars, stage, inputVec, threads_vec, to_shuffle, shuffled_vec,
        counters, callVars>>

Emit3Count(t) ==
  /\ pc[t] = "counting"
  /\ atomic_emit3_counter' = atomic_emit3_counter + 1
  /\ Go(t, "reduce")
  /\ UNCHANGED <<barrierVars, work, stage, inputVec, dataVars, atomic_map_counter,
        atomic_red_counter, atomic_shuffle_counter, atomic_pairs_counter, callVars>>

Worker(t) ==
  \/ SetMap(t) \/ ClaimInput(t) \/ Emit2(t) \/ Sort(t)
  \/ BarrierStep(t)
  \/ SetShuffle(t) \/ MergeAll(t) \/ Shuffle(t) \/ EndShuffle(t)
  \/ SetReduce(t) \/ ClaimGroup(t) \/ Emit3Push(t) \/ Emit3Count(t)

-----------------------------------------------------------------------------
(* The threads of the program.  They have the handle of the job when all its *)
(* threads are made.  As the handle is a bare pointer, nobody uses it once   *)
(* closeJobHandle is called, nor calls that before the other calls are over. *)

Started == \A t \in Thread : pc[t] # "unborn"

\* getJobState takes GET_STATE and reads the stage ...
ReadStage(c) ==
  /\ Started
  /\ cl[c] = "away" /\ closing = NoClient
  /\ \A d \in Client : cl[d] # "reading"
  /\ seen' = [seen EXCEPT ![c] = stage]
  /\ cl' = [cl EXCEPT ![c] = "reading"]
  /\ UNCHANGED <<barrierVars, pc, work, stage, inputVec, dataVars, counters, report,
        joined, wait, closing, freed>>

\* ... and then computes the percentage, part of the whole, from counters that
\* have moved on.  Of UNDEFINED_STAGE it leaves the caller's value.
Fraction(part, whole) == [part |-> part, whole |-> whole]

\* Mutant: groups that are claimed count as reduced.
MutantPercentage(c) ==
  CASE seen[c] = MAP_STAGE -> Fraction(1, 1)
    [] seen[c] = SHUFFLE_STAGE -> Fraction(atomic_shuffle_counter, atomic_pairs_counter)
    [] seen[c] = REDUCE_STAGE  -> Fraction(atomic_red_counter, Len(shuffled_vec))
    [] OTHER -> report[c].percentage

Percentage(c) ==
  CASE seen[c] = MAP_STAGE ->
         IF atomic_map_counter <= Len(inputVec)
         THEN Fraction(atomic_map_counter, Len(inputVec)) ELSE Fraction(1, 1)
    [] seen[c] = SHUFFLE_STAGE -> Fraction(atomic_shuffle_counter, atomic_pairs_counter)
    [] seen[c] = REDUCE_STAGE  -> Fraction(atomic_emit3_counter, Len(shuffled_vec))
    [] OTHER -> report[c].percentage

\* Mutant: the stage is read again for the caller.
MutantReadCounters(c) ==
  /\ cl[c] = "reading"
  /\ report' = [report EXCEPT ![c] = [stage |-> stage, percentage |-> Percentage(c)]]
  /\ cl' = [cl EXCEPT ![c] = "away"]
  /\ UNCHANGED <<barrierVars, pc, work, stage, inputVec, dataVars, counters, seen,
        joined, wait, closing, freed>>

ReadCounters(c) ==
  /\ cl[c] = "reading"
  /\ report' = [report EXCEPT ![c] = [stage |-> seen[c], percentage |-> Percentage(c)]]
  /\ cl' = [cl EXCEPT ![c] = "away"]
  /\ UNCHANGED <<barrierVars, pc, work, stage, inputVec, dataVars, counters, seen,
        joined, wait, closing, freed>>

\* waitForJob: its caller waits for WAIT_FOR_JOB, like any other that has called it
\* meanwhile or before.
WaitForJob(c) ==
  /\ Started
  /\ cl[c] = "away" /\ closing = NoClient
  /\ cl' = [cl EXCEPT ![c] = "waiting"]
  /\ UNCHANGED <<barrierVars, pc, work, stage, inputVec, dataVars, counters, seen, report,
        joined, wait, closing, freed>>

\* A caller is alone behind WAIT_FOR_JOB: nobody else holds it.
Acquires(c) == cl[c] = "waiting" /\ \A d \in Client : cl[d] # "joining"

\* waitForJob is over, for closeJobHandle or for the caller.
Returned(c) == [cl EXCEPT ![c] = IF closing = c THEN "closing" ELSE "away"]

\* It finds the flag clear, and joins the workers; the first is next, as nobody has
\* joined one yet.
BeginJoins(c) ==
  /\ Acquires(c) /\ ~wait
  /\ cl' = [cl EXCEPT ![c] = "joining"]
  /\ UNCHANGED <<barrierVars, pc, work, stage, inputVec, dataVars, counters, seen, report,
        joined, wait, closing, freed>>

\* Mutant: the caller does not wait behind the one that joins.
MutantFindJoined(c) ==
  /\ cl[c] = "waiting" /\ (wait \/ \E d \in Client : cl[d] = "joining")
  /\ cl' = Returned(c)
  /\ UNCHANGED <<barrierVars, pc, work, stage, inputVec, dataVars, counters, seen, report,
        joined, wait, closing, freed>>

\* It finds the flag set, and releases the mutex.
FindJoined(c) ==
  /\ Acquires(c) /\ wait
  /\ cl' = Returned(c)
  /\ UNCHANGED <<barrierVars, pc, work, stage, inputVec, dataVars, counters, seen, report,
        joined, wait, closing, freed>>

\* Mutant: the flag is set when the last join begins, not when it returns.
MutantJoin(c) ==
  /\ cl[c] = "joining"
  /\ joined + 1 = numThreads \/ pc[joined] = "done"
  /\ joined' = joined + 1
  /\ IF joined' = numThreads THEN wait' = TRUE /\ cl' = Returned(c)
     ELSE UNCHANGED <<wait, cl>>
  /\ UNCHANGED <<barrierVars, pc, work, stage, inputVec, dataVars, counters, seen, report,
        closing, freed>>

\* Mutant: the flag is not set after the joins.
MutantJoinNoFlag(c) ==
  /\ cl[c] = "joining"
  /\ joined < numThreads /\ pc[joined] = "done"
  /\ joined' = joined + 1
  /\ cl' = IF joined' = numThreads THEN Returned(c) ELSE cl
  /\ UNCHANGED <<barrierVars, pc, work, stage, inputVec, dataVars, counters, seen, report,
        wait, closing, freed>>

\* pthread_join of the next worker, which it waits for; after the last one the flag
\* is set and the mutex released.  A worker is joined once: what a second join of it
\* does is undefined, and here it never returns.
Join(c) ==
  /\ cl[c] = "joining"
  /\ joined < numThreads /\ pc[joined] = "done"
  /\ joined' = joined + 1
  /\ IF joined' = numThreads THEN wait' = TRUE /\ cl' = Returned(c)
     ELSE UNCHANGED <<wait, cl>>
  /\ UNCHANGED <<barrierVars, pc, work, stage, inputVec, dataVars, counters, seen, report,
        closing, freed>>

\* closeJobHandle begins with a call of waitForJob.
CloseJobHandle(c) ==
  /\ Started
  /\ closing = NoClient
  /\ \A d \in Client : cl[d] = "away"
  /\ closing' = c
  /\ cl' = [cl EXCEPT ![c] = "waiting"]
  /\ UNCHANGED <<barrierVars, pc, work, stage, inputVec, dataVars, counters, seen, report,
        joined, wait, freed>>

\* Its deletions, after that call.
Free(c) ==
  /\ cl[c] = "closing"
  /\ freed' = TRUE
  /\ cl' = [cl EXCEPT ![c] = "away"]
  /\ UNCHANGED <<barrierVars, pc, work, stage, inputVec, dataVars, counters, seen, report,
        joined, wait, closing>>

\* What a client does in a call it has begun.
Called(c) == ReadCounters(c) \/ BeginJoins(c) \/ FindJoined(c) \/ Join(c) \/ Free(c)

Over == freed /\ UNCHANGED vars

MapReduceNext ==
  \/ \E t \in Thread : Create(t) \/ Worker(t)
  \/ \E c \in Client : ReadStage(c) \/ WaitForJob(c) \/ CloseJobHandle(c) \/ Called(c)
  \/ Over

MapReduceSpec == MapReduceInit /\ [][MapReduceNext]_vars

\* The operating system runs every thread that can go on.  Weak fairness is enough
\* for the mutexes: GET_STATE is never waited for in this model, and WAIT_FOR_JOB is
\* free for good once the one client that joins is done.
MapReduceFairness ==
  /\ \A t \in Thread : WF_vars(Create(t)) /\ WF_vars(Worker(t))
  /\ \A c \in Client : WF_vars(Called(c))

FairMapReduceSpec == MapReduceSpec /\ MapReduceFairness

-----------------------------------------------------------------------------
(* Properties.                                                             *)

MapReduceTypeOK ==
  /\ BarrierTypeOK
  /\ pc \in [Thread -> WorkerPlace]
  /\ stage \in UNDEFINED_STAGE .. REDUCE_STAGE
  /\ threads_vec \in [Thread -> PairSeqs]
  /\ to_shuffle \in PairSeqs
  /\ shuffled_vec \in Seq(PairSeqs)
  /\ ToSet(outputVec) \subseteq OutputsOf(inputVec)
  /\ {atomic_map_counter, atomic_red_counter, atomic_shuffle_counter,
      atomic_emit3_counter, atomic_pairs_counter} \subseteq Nat
  /\ cl \in [Client -> {"away", "reading", "waiting", "joining", "closing"}]
  /\ joined \in 0 .. numThreads

\* Each input pair is mapped exactly once, and all are before the shuffle: the
\* first barrier is really behind everybody when thread 0 reads the vectors of
\* the others without EMIT2_MUT.
EverythingMapped ==
  stage > MAP_STAGE =>
    /\ \A t \in Thread : pc[t] \notin {"unborn", "start", "map", "sort"}
    /\ UNION {ToSet(threads_vec[t]) : t \in Thread} = PairsOf(inputVec)
    /\ atomic_pairs_counter = Cardinality(PairsOf(inputVec))

\* While groups are claimed, the vector of groups is complete and still: one
\* group per key, in the order of the keys, with each pair of that key once.
GroupsExact ==
  stage = REDUCE_STAGE =>
    /\ {shuffled_vec[g][1].key : g \in DOMAIN shuffled_vec} = KeysOf(inputVec)
    /\ \A g \in DOMAIN shuffled_vec :
         /\ ToSet(shuffled_vec[g]) = {p \in PairsOf(inputVec) : p.key = shuffled_vec[g][1].key}
         /\ Len(shuffled_vec[g]) = Cardinality(ToSet(shuffled_vec[g]))
    /\ \A g, h \in DOMAIN shuffled_vec :
         g < h => shuffled_vec[g][1].key < shuffled_vec[h][1].key

\* A caller that is told "stage 3, 100%", as SampleClient waits to be, has all
\* the output (of a client whose reduce emits once).
Full(r) == r.percentage.whole > 0 /\ r.percentage.part = r.percentage.whole
ReportedFullIsComplete ==
  \A c \in Client :
    report[c].stage = REDUCE_STAGE /\ Full(report[c]) =>
      ToSet(outputVec) = OutputsOf(inputVec)

\* The stage only advances, although every worker writes it: no late thread
\* sets MAP_STAGE again, or REDUCE_STAGE while thread 0 still shuffles.
StageNeverBack == [][stage' \in {stage, stage + 1}]_vars

\* The progress that a caller is told never goes back, although the stage and
\* the counters are read at different moments.
AtLeast(r, s) ==
  \/ r.stage > s.stage
  \/ /\ r.stage = s.stage
     /\ r.percentage.part * s.percentage.whole >= s.percentage.part * r.percentage.whole
ProgressNeverBack == [][\A c \in Client : AtLeast(report'[c], report[c])]_vars

\* The job keeps the promise of MapReduceJob.
Job == INSTANCE MapReduceJob WITH
  input <- inputVec,
  emitted <- UNION {ToSet(threads_vec[t]) : t \in Thread},
  output <- outputVec,
  over <- wait
KeepsJobPromise == Job!Spec

\* Every worker ends: nobody is left behind at either of the two barriers.
WorkersEnd == <>(\A t \in Thread : pc[t] = "done")

\* Every call of waitForJob returns, closeJobHandle's too: that of the client which
\* joins the workers, and that of one which waits for the mutex meanwhile, or comes
\* later, and must find the flag set and not join them again.
InWait(c) == cl[c] \in {"waiting", "joining"}
WaitReturns == \A c \in Client : InWait(c) ~> ~InWait(c)

\* None returns before every worker has ended, the ones that join nothing included,
\* and closeJobHandle deletes nothing that a worker still uses.
WaitOutlastsWorkers ==
  [][(freed' # freed \/ \E c \in Client : InWait(c) /\ ~InWait(c)')
       => \A t \in Thread : pc[t] = "done"]_vars

\* SampleClient.cpp waits for "stage 3, 100%": a caller who asks when every worker
\* has ended is told so.
EndIsReported ==
  [][\A c \in Client :
       ReadCounters(c) /\ seen[c] = REDUCE_STAGE /\ (\A t \in Thread : pc[t] = "done") =>
         Full(report'[c])]_vars

=============================================================================
