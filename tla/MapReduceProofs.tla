--------------------------- MODULE MapReduceProofs ---------------------------
(***************************************************************************)
(* What a job does with the data, for any number of workers and clients, any *)
(* input and any client code, if pthread_cond_wait does not return unasked:  *)
(* everything is mapped before it is shuffled, the groups are complete when  *)
(* they are reduced, what a caller is told is true, and the job keeps the    *)
(* promise of MapReduceJob.                                                *)
(***************************************************************************)
EXTENDS MapReduceLemmas, MapReduceStages

Pairs   == PairsOf(inputVec)
Outputs == OutputsOf(inputVec)
Emitted == UNION {ToSet(threads_vec[t]) : t \in Thread}

\* What the workers have still to emit, of the maps and of the reductions that
\* they have claimed.
MapWorkOf(t)    == IF pc[t] = "map" THEN ToSet(work[t]) ELSE {}
ReduceWorkOf(t) == IF pc[t] \in {"reduce", "counting"} THEN ToSet(work[t]) ELSE {}

\* Until thread 0 has merged the vectors.
Unmerged == pc[0] \in Mapping \union {"set_shuffle", "merge"}
            \/ (pc[0] = "barrier" /\ round[0] = 0)

\* Each pair of a claimed input is emitted or about to be, once.
MapInv ==
  /\ inputVec \in Inputs
  /\ threads_vec \in [Thread -> Seq(Pairs)]
  /\ work = [t \in Thread |-> work[t]]
  /\ atomic_map_counter \in Nat
  /\ IsFiniteSet(Emitted) /\ atomic_pairs_counter = Cardinality(Emitted)
  /\ \A t \in Thread : pc[t] = "map" => work[t] \in Seq(Pairs) /\ Distinct(work[t])
  /\ \A t \in Thread : pc[t] \notin {"map", "reduce", "counting"} => work[t] = <<>>
  /\ \A t, u \in Thread : t # u => MapWorkOf(t) \intersect MapWorkOf(u) = {}
  /\ \A t \in Thread : MapWorkOf(t) \intersect Emitted = {}
  /\ \A p \in Pairs : p.of[1] <= atomic_map_counter
                        <=> (p \in Emitted \/ \E t \in Thread : p \in MapWorkOf(t))
  /\ \A t \in Thread : pc[t] \notin {"unborn", "start", "map"} =>
       Len(inputVec) <= atomic_map_counter
  /\ Unmerged =>
       /\ \A t \in Thread : /\ Distinct(threads_vec[t])
                            /\ pc[t] \notin Mapping => Ordered(threads_vec[t])
       /\ \A t, u \in Thread : t # u => ToSet(threads_vec[t]) \intersect ToSet(threads_vec[u]) = {}

\* Each pair is to be shuffled, after those that are, or in the group of its key.
ShuffleInv ==
  /\ to_shuffle \in Seq(Pairs) /\ Ordered(to_shuffle) /\ Distinct(to_shuffle)
  /\ shuffled_vec \in Seq(Seq(Pairs)) /\ GroupsInv(shuffled_vec)
  /\ atomic_shuffle_counter \in Nat
  /\ Unmerged => to_shuffle = <<>> /\ shuffled_vec = <<>>
  /\ ~ Unmerged => ToSet(to_shuffle) \union InGroups(shuffled_vec) = Pairs
  /\ pc[0] # "shuffle" => to_shuffle = <<>>
  /\ \A p \in ToSet(to_shuffle), q \in InGroups(shuffled_vec) : p # q /\ q.key <= p.key

\* Each result of a claimed group is emitted or about to be, once, and counted
\* unless its worker is just about to.
ReduceInv ==
  /\ outputVec \in Seq(Outputs) /\ Distinct(outputVec)
  /\ atomic_red_counter \in Nat /\ atomic_emit3_counter \in Nat
  /\ stage # REDUCE_STAGE => /\ outputVec = <<>>
                             /\ atomic_red_counter = 0 /\ atomic_emit3_counter = 0
  /\ \A t \in Thread : pc[t] \in {"reduce", "counting"} =>
       work[t] \in Seq(Outputs) /\ Distinct(work[t])
  /\ \A t, u \in Thread : t # u => ReduceWorkOf(t) \intersect ReduceWorkOf(u) = {}
  /\ \A t \in Thread : ReduceWorkOf(t) \intersect ToSet(outputVec) = {}
  /\ \A o \in Outputs :
       (\E g \in 1 .. Len(shuffled_vec) :
          g <= atomic_red_counter /\ o \in ToSet(ReduceWork(shuffled_vec[g])))
         <=> (o \in ToSet(outputVec) \/ \E t \in Thread : o \in ReduceWorkOf(t))
  /\ \A t \in Thread : pc[t] = "done" => Len(shuffled_vec) <= atomic_red_counter
  /\ \A t, u \in Thread : pc[t] = "counting" /\ pc[u] = "counting" => t = u
  /\ (\E t \in Thread : pc[t] = "counting") => Len(outputVec) = atomic_emit3_counter + 1
  /\ (\A t \in Thread : pc[t] # "counting") => Len(outputVec) = atomic_emit3_counter

\* What a caller was told of its stage, against the counters now.
Told(r) ==
  LET part == r.percentage.part
      whole == r.percentage.whole
  IN /\ part \in Nat /\ whole \in Nat
     /\ r.stage = MAP_STAGE => \/ /\ whole = Len(inputVec)
                                  /\ part <= whole /\ part <= atomic_map_counter
                               \/ /\ part = 1 /\ whole = 1
                                  /\ Len(inputVec) < atomic_map_counter
     /\ r.stage = SHUFFLE_STAGE => /\ whole = Cardinality(Pairs)
                                   /\ part <= atomic_shuffle_counter
     /\ r.stage = REDUCE_STAGE => /\ whole = Len(shuffled_vec)
                                  /\ part <= atomic_emit3_counter
ReportInv ==
  /\ seen \in [Client -> UNDEFINED_STAGE .. REDUCE_STAGE]
  /\ report \in [Client -> [stage : UNDEFINED_STAGE .. REDUCE_STAGE,
                            percentage : [part : Nat, whole : Nat]]]
  /\ \A c \in Client : /\ report[c].stage <= seen[c] /\ seen[c] <= stage
                       /\ Told(report[c])

DataInv == PhaseInv /\ MapInv /\ ShuffleInv /\ ReduceInv

-----------------------------------------------------------------------------
(* The map stage.                                                          *)

LEMMA PairsLemma ==
  ASSUME inputVec \in Inputs
  PROVE  /\ Keyed(Pairs) /\ Len(inputVec) \in Nat
         /\ \A p \in Pairs : p.of[1] \in 1 .. Len(inputVec)
         /\ \A i \in 1 .. Len(inputVec) :
              /\ MapWork(i) \in Seq(Pairs) /\ Distinct(MapWork(i))
              /\ \A p : p \in ToSet(MapWork(i)) <=> p \in Pairs /\ p.of[1] = i
<1>1. inputVec \in Seq(Seq(Int)) BY MapReduceAssumption
<1>2. /\ Len(inputVec) \in Nat /\ DOMAIN inputVec = 1 .. Len(inputVec)
      /\ \A i \in 1 .. Len(inputVec) : inputVec[i] \in Seq(Int)
  BY <1>1, SeqElements
<1>3. ASSUME NEW i \in 1 .. Len(inputVec)
      PROVE  /\ Len(inputVec[i]) \in Nat /\ DOMAIN inputVec[i] = 1 .. Len(inputVec[i])
             /\ \A n \in 1 .. Len(inputVec[i]) : inputVec[i][n] \in Int
  BY <1>2, SeqElements
<1>4. \A p : p \in Pairs <=>
        \E i \in 1 .. Len(inputVec) : \E n \in 1 .. Len(inputVec[i]) :
          p = [key |-> inputVec[i][n], of |-> <<i, n>>]
  BY <1>2, <1>3 DEF Pairs, PairsOf, PairsAt
<1>5. Keyed(Pairs) BY <1>3, <1>4 DEF Keyed
<1>6. \A p \in Pairs : p.of[1] \in 1 .. Len(inputVec) BY <1>4
<1>7. ASSUME NEW i \in 1 .. Len(inputVec)
      PROVE  /\ MapWork(i) \in Seq(Pairs) /\ Distinct(MapWork(i))
             /\ \A p : p \in ToSet(MapWork(i)) <=> p \in Pairs /\ p.of[1] = i
  <2> DEFINE n == Len(inputVec[i])
             w == MapWork(i)
  <2>1. n \in Nat /\ w = [m \in 1 .. n |-> [key |-> inputVec[i][m], of |-> <<i, m>>]]
    BY <1>3 DEF MapWork
  <2>2. \A m \in 1 .. n : [key |-> inputVec[i][m], of |-> <<i, m>>] \in Pairs BY <1>4
  <2>3. \A p \in Pairs : p.of[1] = i =>
          \E m \in 1 .. n : p = [key |-> inputVec[i][m], of |-> <<i, m>>]
    BY <1>4
  <2> HIDE DEF n, w
  <2>4. w \in Seq(Pairs) /\ Len(w) = n
    <3>1. w \in [1 .. n -> Pairs] BY <2>1, <2>2
    <3>2. QED BY <2>1, <3>1
  <2>5. \A m \in 1 .. n : w[m].of = <<i, m>> BY <2>1
  <2>6. Distinct(w)
    <3>1. ASSUME NEW j \in 1 .. n, NEW k \in 1 .. n, w[j] = w[k] PROVE j = k
      <4>1. <<i, j>> = <<i, k>> BY <2>5, <3>1
      <4>2. QED BY <4>1
    <3>2. QED BY <2>4, <3>1 DEF Distinct
  <2>7. \A p : p \in ToSet(w) <=> \E m \in 1 .. n : p = w[m] BY <2>4, SeqElements
  <2>8. ASSUME NEW p PROVE p \in ToSet(w) <=> p \in Pairs /\ p.of[1] = i
    <3>1. p \in ToSet(w) => p \in Pairs /\ p.of[1] = i
      <4>1. \A m \in 1 .. n : w[m] \in Pairs /\ w[m].of[1] = i BY <2>1, <2>2, <2>5
      <4>2. QED BY <2>7, <4>1
    <3>2. p \in Pairs /\ p.of[1] = i => p \in ToSet(w) BY <2>1, <2>3, <2>7
    <3>3. QED BY <3>1, <3>2
  <2>9. QED BY <2>4, <2>6, <2>8 DEF w
<1>8. QED BY <1>2, <1>5, <1>6, <1>7

\* When every worker is past its maps, every pair is emitted.
LEMMA AllMapped ==
  ASSUME MapInv, \A t \in Thread : pc[t] \notin Mapping
  PROVE  Emitted = Pairs
<1>1. 0 \in Thread BY ZeroIsAThread
<1>2. Len(inputVec) <= atomic_map_counter /\ atomic_map_counter \in Nat
  BY <1>1 DEF MapInv, Mapping
<1>3. \A t \in Thread : MapWorkOf(t) = {} BY DEF MapWorkOf, Mapping
<1>4. ASSUME NEW p \in Pairs PROVE p \in Emitted
  <2>1. p.of[1] \in 1 .. Len(inputVec) /\ Len(inputVec) \in Nat BY PairsLemma DEF MapInv
  <2>2. p.of[1] <= atomic_map_counter BY <1>2, <2>1
  <2>3. QED BY <1>3, <2>2 DEF MapInv
<1>5. ASSUME NEW t \in Thread PROVE ToSet(threads_vec[t]) \subseteq Pairs
  BY SeqElements DEF MapInv
<1>6. QED BY <1>4, <1>5 DEF Emitted

LEMMA MapInit == MapReduceInit => MapInv
<1> SUFFICES ASSUME MapReduceInit PROVE MapInv
  OBVIOUS
<1>1. /\ inputVec \in Inputs /\ pc = [t \in Thread |-> "unborn"]
      /\ work = [t \in Thread |-> <<>>] /\ threads_vec = [t \in Thread |-> <<>>]
      /\ atomic_map_counter = 0 /\ atomic_pairs_counter = 0
  BY DEF MapReduceInit
<1>2. \A t \in Thread : ToSet(threads_vec[t]) = {} /\ MapWorkOf(t) = {}
  BY <1>1, EmptySeqElements DEF MapWorkOf
<1>3. Emitted = {} BY <1>2 DEF Emitted
<1>4. IsFiniteSet(Emitted) /\ atomic_pairs_counter = Cardinality(Emitted)
  BY <1>1, <1>3, FS_EmptySet
<1>5. \A p \in Pairs : p.of[1] \in Nat /\ p.of[1] > 0 BY <1>1, PairsLemma
<1>6. \A p \in Pairs : ~ p.of[1] <= atomic_map_counter BY <1>1, <1>5
<1>7. threads_vec \in [Thread -> Seq(Pairs)] BY <1>1
<1>8. \A t \in Thread : Distinct(threads_vec[t]) BY <1>1, EmptySeqElements
<1>9. \A t \in Thread : pc[t] \in Mapping BY <1>1 DEF Mapping
<1>10. QED BY <1>1, <1>2, <1>3, <1>4, <1>6, <1>7, <1>8, <1>9 DEF MapInv

\* The steps that neither claim an input nor emit or move a pair.
LEMMA MapStay ==
  ASSUME MapInv, UNCHANGED <<inputVec, threads_vec, atomic_map_counter, atomic_pairs_counter>>,
         work' = [t \in Thread |-> work'[t]],
         \A t \in Thread :
           /\ pc'[t] = "map" => pc[t] \in {"start", "map"} /\ work'[t] = work[t]
           /\ pc[t] = "map" => pc'[t] = "map"
           /\ pc'[t] \notin {"map", "reduce", "counting"} => work'[t] = <<>>
           /\ pc[t] \in {"unborn", "start", "map"} => pc'[t] \in {"unborn", "start", "map"}
           /\ pc[t] \in Mapping <=> pc'[t] \in Mapping,
         Unmerged' => Unmerged
  PROVE  MapInv'
<1>1. /\ inputVec' = inputVec /\ threads_vec' = threads_vec
      /\ atomic_map_counter' = atomic_map_counter
      /\ atomic_pairs_counter' = atomic_pairs_counter
      /\ Emitted' = Emitted /\ Pairs' = Pairs
  BY DEF Emitted, Pairs
<1>2. ASSUME NEW t \in Thread PROVE MapWorkOf(t)' = MapWorkOf(t)
  <2>1. CASE pc[t] = "start" /\ pc'[t] = "map"
    <3>1. work[t] = <<>> /\ work'[t] = <<>> BY <2>1 DEF MapInv
    <3>2. QED BY <2>1, <3>1, EmptySeqElements DEF MapWorkOf
  <2>2. CASE pc[t] = "map" BY <2>2 DEF MapWorkOf
  <2>3. CASE pc[t] # "map" /\ pc'[t] # "map" BY <2>3 DEF MapWorkOf
  <2>4. QED BY <2>1, <2>2, <2>3
<1>3. ASSUME NEW t \in Thread, pc'[t] = "map"
      PROVE  work'[t] \in Seq(Pairs) /\ Distinct(work'[t])
  <2>1. CASE pc[t] = "map" BY <2>1, <1>3 DEF MapInv
  <2>2. CASE pc[t] = "start"
    <3>1. work'[t] = <<>> BY <2>2, <1>3 DEF MapInv
    <3>2. QED BY <3>1, EmptySeqElements
  <2>3. QED BY <1>3, <2>1, <2>2
<1>4. \A t \in Thread : pc'[t] \notin {"unborn", "start", "map"} =>
        pc[t] \notin {"unborn", "start", "map"}
  OBVIOUS
<1>5. QED BY <1>1, <1>2, <1>3, <1>4 DEF MapInv

\* What a step of worker t may do to the places: its own changes, and thread 0
\* does not go back before the merge.
LEMMA PlacesKept ==
  ASSUME PhaseInv, MapInv, NEW t \in Thread, NEW place, Go(t, place),
         UNCHANGED <<inputVec, threads_vec, atomic_map_counter, atomic_pairs_counter>>,
         work' = [u \in Thread |-> work'[u]],
         \A u \in Thread \ {t} : work'[u] = work[u],
         place = "map" => pc[t] = "start" /\ work'[t] = work[t],
         place \notin {"map", "reduce", "counting"} => work'[t] = <<>>,
         pc[t] # "map",
         pc[t] \in {"unborn", "start"} => place \in {"start", "map"},
         pc[t] \in Mapping <=> place \in Mapping,
         t = 0 => (Unmerged' => Unmerged),
         \A u \in Thread \ {t} : round'[u] = round[u]
  PROVE  MapInv'
<1>1. /\ pc' = [pc EXCEPT ![t] = place] /\ pc'[t] = place /\ 0 \in Thread
      /\ \A u \in Thread \ {t} : pc'[u] = pc[u]
  BY ZeroIsAThread DEF Go, PhaseInv
<1>2. t # 0 => (Unmerged' => Unmerged) BY <1>1 DEF Unmerged
<1>3. ASSUME NEW u \in Thread
      PROVE  /\ pc'[u] = "map" => pc[u] \in {"start", "map"} /\ work'[u] = work[u]
             /\ pc[u] = "map" => pc'[u] = "map"
             /\ pc'[u] \notin {"map", "reduce", "counting"} => work'[u] = <<>>
             /\ pc[u] \in {"unborn", "start", "map"} => pc'[u] \in {"unborn", "start", "map"}
             /\ pc[u] \in Mapping <=> pc'[u] \in Mapping
  <2>1. CASE u = t BY <2>1, <1>1
  <2>2. CASE u # t BY <2>2, <1>1 DEF MapInv
  <2>3. QED BY <2>1, <2>2
<1>4. QED BY <1>2, <1>3, MapStay

LEMMA ClaimInputStep ==
  ASSUME PhaseInv, MapInv, NEW t \in Thread, ClaimInput(t) PROVE MapInv'
<1>1. /\ pc[t] = "map" /\ work[t] = <<>> /\ atomic_map_counter' = atomic_map_counter + 1
      /\ UNCHANGED <<inputVec, threads_vec, atomic_pairs_counter, round>>
      /\ pc \in [Thread -> WorkerPlace] /\ 0 \in Thread
  BY ZeroIsAThread DEF ClaimInput, barrierVars, dataVars, PhaseInv
<1>2. Emitted' = Emitted /\ Pairs' = Pairs BY <1>1 DEF Emitted, Pairs
<1>3. atomic_map_counter \in Nat /\ Len(inputVec) \in Nat /\ MapWorkOf(t) = {}
  BY <1>1, PairsLemma, EmptySeqElements DEF MapInv, MapWorkOf
<1>4. CASE atomic_map_counter < Len(inputVec)
  <2> DEFINE i == atomic_map_counter + 1
             w == MapWork(i)
  <2>1. work' = [work EXCEPT ![t] = w] /\ pc' = pc BY <1>4 DEF ClaimInput
  <2>2. /\ w \in Seq(Pairs) /\ Distinct(w)
        /\ \A p : p \in ToSet(w) <=> p \in Pairs /\ p.of[1] = i
    <3>1. i \in 1 .. Len(inputVec) BY <1>3, <1>4
    <3>2. QED BY <3>1, PairsLemma DEF MapInv
  <2> HIDE DEF w
  <2>3. work'[t] = w /\ \A u \in Thread \ {t} : work'[u] = work[u] BY <2>1 DEF MapInv
  <2>4. /\ MapWorkOf(t)' = ToSet(w)
        /\ \A u \in Thread \ {t} : MapWorkOf(u)' = MapWorkOf(u)
    BY <1>1, <2>1, <2>3 DEF MapWorkOf
  <2>5. \A p \in Pairs : p.of[1] \in Nat BY PairsLemma DEF MapInv
  <2>6. \A p \in ToSet(w) : ~ p.of[1] <= atomic_map_counter BY <1>3, <2>2
  <2>7. \A p \in ToSet(w) : p \notin Emitted /\ \A u \in Thread : p \notin MapWorkOf(u)
    BY <2>2, <2>6 DEF MapInv
  <2>8. ASSUME NEW p \in Pairs
        PROVE  p.of[1] <= atomic_map_counter'
                 <=> (p \in Emitted \/ \E u \in Thread : p \in MapWorkOf(u)')
    <3>1. p.of[1] <= atomic_map_counter' <=> p.of[1] <= atomic_map_counter \/ p.of[1] = i
      BY <1>1, <1>3, <2>5
    <3>2. (\E u \in Thread : p \in MapWorkOf(u)')
            <=> (p \in ToSet(w) \/ \E u \in Thread : p \in MapWorkOf(u))
      BY <2>4, <1>3
    <3>3. QED BY <3>1, <3>2, <2>2 DEF MapInv
  <2>9. Unmerged' <=> Unmerged BY <1>1, <2>1 DEF Unmerged
  <2>10. \A u \in Thread : pc'[u] \notin {"unborn", "start", "map"} =>
           Len(inputVec) <= atomic_map_counter'
    BY <1>1, <1>3, <2>1 DEF MapInv
  <2>11. work' = [u \in Thread |-> work'[u]] BY <2>1 DEF MapInv
  <2>12. \A u, v \in Thread : u # v => MapWorkOf(u)' \intersect MapWorkOf(v)' = {}
    BY <2>4, <2>7 DEF MapInv
  <2>13. \A u \in Thread : MapWorkOf(u)' \intersect Emitted = {} BY <2>4, <2>7 DEF MapInv
  <2>14. \A u \in Thread : /\ pc'[u] = "map" => work'[u] \in Seq(Pairs) /\ Distinct(work'[u])
                           /\ pc'[u] \notin {"map", "reduce", "counting"} => work'[u] = <<>>
    BY <1>1, <2>1, <2>2, <2>3 DEF MapInv
  <2>15. QED
    BY <1>1, <1>2, <1>3, <2>1, <2>8, <2>9, <2>10, <2>11, <2>12, <2>13, <2>14 DEF MapInv
<1>5. CASE ~ atomic_map_counter < Len(inputVec)
  <2>1. work' = work /\ pc' = [pc EXCEPT ![t] = "sort"] BY <1>5 DEF ClaimInput, Go
  <2>2. /\ pc'[t] = "sort" /\ \A u \in Thread \ {t} : pc'[u] = pc[u] BY <1>1, <2>1
  <2>3. \A u \in Thread : MapWorkOf(u)' = MapWorkOf(u)
    BY <1>1, <1>3, <2>1, <2>2 DEF MapWorkOf
  <2>4. \A p \in Pairs : p.of[1] <= atomic_map_counter /\ p.of[1] <= atomic_map_counter'
    BY <1>1, <1>3, <1>5, PairsLemma DEF MapInv
  <2>5. Unmerged' <=> Unmerged BY <1>1, <2>1, <2>2 DEF Unmerged, Mapping
  <2>6. Len(inputVec) <= atomic_map_counter' BY <1>1, <1>3, <1>5
  <2>7. \A u \in Thread : pc'[u] \notin Mapping => pc[u] \notin Mapping
    BY <1>1, <2>2 DEF Mapping
  <2>8. \A u \in Thread : /\ pc'[u] = "map" => pc[u] = "map"
                          /\ pc'[u] \notin {"map", "reduce", "counting"} => work'[u] = <<>>
    BY <1>1, <2>1, <2>2 DEF MapInv
  <2>9. /\ \A u, v \in Thread : u # v => MapWorkOf(u)' \intersect MapWorkOf(v)' = {}
        /\ \A u \in Thread : MapWorkOf(u)' \intersect Emitted' = {}
    BY <1>2, <2>3 DEF MapInv
  <2>10. \A p \in Pairs : p.of[1] <= atomic_map_counter'
           <=> (p \in Emitted' \/ \E u \in Thread : p \in MapWorkOf(u)')
    BY <1>2, <2>3, <2>4 DEF MapInv
  <2>11. /\ work' = [u \in Thread |-> work'[u]] /\ atomic_map_counter' \in Nat
         /\ IsFiniteSet(Emitted') /\ atomic_pairs_counter' = Cardinality(Emitted')
         /\ \A u \in Thread : pc'[u] = "map" => work'[u] \in Seq(Pairs) /\ Distinct(work'[u])
    BY <1>1, <1>2, <1>3, <2>1, <2>8 DEF MapInv
  <2>12. QED
    BY <1>1, <1>2, <2>5, <2>6, <2>7, <2>8, <2>9, <2>10, <2>11 DEF MapInv
<1>6. QED BY <1>4, <1>5

\* The pair is new, and goes to the vector of its worker.
LEMMA Emit2Step ==
  ASSUME PhaseInv, MapInv, NEW t \in Thread, Emit2(t)
  PROVE  /\ MapInv'
         /\ \E p \in Pairs \ Emitted : Emitted' = Emitted \union {p}
<1> DEFINE w == work[t]
           p == Head(w)
<1>1. /\ pc[t] = "map" /\ w # <<>>
      /\ threads_vec' = [threads_vec EXCEPT ![t] = Append(@, p)]
      /\ atomic_pairs_counter' = atomic_pairs_counter + 1
      /\ work' = [work EXCEPT ![t] = Tail(@)]
      /\ UNCHANGED <<inputVec, pc, atomic_map_counter, round>>
      /\ 0 \in Thread
  BY ZeroIsAThread DEF Emit2, barrierVars
<1>2. w \in Seq(Pairs) /\ Distinct(w) BY <1>1 DEF MapInv
<1> HIDE DEF w
<1>3. /\ p \in Pairs /\ Tail(w) \in Seq(Pairs) /\ ToSet(w) = {p} \union ToSet(Tail(w))
      /\ Distinct(Tail(w)) /\ p \notin ToSet(Tail(w))
  BY <1>1, <1>2, TailElements
<1> HIDE DEF p
<1>4. /\ work'[t] = Tail(w) /\ \A u \in Thread \ {t} : work'[u] = work[u]
      /\ work' = [u \in Thread |-> work'[u]]
  BY <1>1 DEF MapInv, w
<1>5. /\ MapWorkOf(t) = ToSet(w) /\ MapWorkOf(t)' = ToSet(Tail(w))
      /\ \A u \in Thread \ {t} : MapWorkOf(u)' = MapWorkOf(u)
  BY <1>1, <1>4 DEF MapWorkOf, w
<1>6. p \notin Emitted BY <1>3, <1>5 DEF MapInv
<1>7. \A u \in Thread : p \notin ToSet(threads_vec[u]) BY <1>6 DEF Emitted
<1>8. /\ threads_vec'[t] = Append(threads_vec[t], p)
      /\ \A u \in Thread \ {t} : threads_vec'[u] = threads_vec[u]
      /\ threads_vec[t] \in Seq(Pairs)
  BY <1>1 DEF MapInv
<1>9. /\ threads_vec'[t] \in Seq(Pairs)
      /\ ToSet(threads_vec'[t]) = ToSet(threads_vec[t]) \union {p}
      /\ Distinct(threads_vec[t]) => Distinct(threads_vec'[t])
  BY <1>3, <1>7, <1>8, AppendElements
<1>10. threads_vec' \in [Thread -> Seq(Pairs)] BY <1>1, <1>3, <1>9 DEF MapInv
<1>11. Emitted' = Emitted \union {p}
  <2>1. \A q : q \in Emitted' <=> \E u \in Thread : q \in ToSet(threads_vec'[u])
    BY DEF Emitted
  <2>2. \A q : q \in Emitted <=> \E u \in Thread : q \in ToSet(threads_vec[u])
    BY DEF Emitted
  <2>3. \A q : q \in Emitted' <=> q \in Emitted \union {p}
    BY <1>8, <1>9, <2>1, <2>2
  <2>4. QED BY <2>3
<1>12. IsFiniteSet(Emitted') /\ atomic_pairs_counter' = Cardinality(Emitted')
  <2>1. IsFiniteSet(Emitted) /\ atomic_pairs_counter = Cardinality(Emitted) BY DEF MapInv
  <2>2. QED BY <1>1, <1>6, <1>11, <2>1, FS_AddElement
<1>13. Pairs' = Pairs BY <1>1 DEF Pairs
<1>14. ASSUME NEW q \in Pairs
       PROVE  q.of[1] <= atomic_map_counter
                <=> (q \in Emitted' \/ \E u \in Thread : q \in MapWorkOf(u)')
  <2>1. (q \in Emitted \/ \E u \in Thread : q \in MapWorkOf(u))
          <=> (q \in Emitted' \/ \E u \in Thread : q \in MapWorkOf(u)')
    BY <1>3, <1>5, <1>11
  <2>2. QED BY <2>1 DEF MapInv
<1>15. \A u \in Thread : MapWorkOf(u)' \intersect Emitted' = {}
  <2>1. \A u \in Thread \ {t} : p \notin MapWorkOf(u) BY <1>3, <1>5 DEF MapInv
  <2>2. QED BY <2>1, <1>3, <1>5, <1>11 DEF MapInv
<1>16. \A u, v \in Thread : u # v => MapWorkOf(u)' \intersect MapWorkOf(v)' = {}
  <2>1. \A u \in Thread : MapWorkOf(u)' \subseteq MapWorkOf(u) BY <1>3, <1>5
  <2>2. \A u, v \in Thread : u # v => MapWorkOf(u) \intersect MapWorkOf(v) = {}
    BY DEF MapInv
  <2>3. QED BY <2>1, <2>2
<1>17. /\ Unmerged' <=> Unmerged
       /\ Unmerged => \A u \in Thread : Distinct(threads_vec'[u])
       /\ Unmerged => \A u, v \in Thread : u # v =>
            ToSet(threads_vec'[u]) \intersect ToSet(threads_vec'[v]) = {}
  BY <1>1, <1>7, <1>8, <1>9 DEF Unmerged, MapInv
<1>18. \A u \in Thread : Unmerged /\ pc[u] \notin Mapping => Ordered(threads_vec'[u])
  BY <1>1, <1>8 DEF MapInv, Mapping
<1>19. \A u \in Thread : /\ pc[u] = "map" => work'[u] \in Seq(Pairs) /\ Distinct(work'[u])
                         /\ pc[u] \notin {"map", "reduce", "counting"} => work'[u] = <<>>
  BY <1>1, <1>3, <1>4 DEF MapInv
<1>20. MapInv'
  BY <1>1, <1>4, <1>10, <1>12, <1>13, <1>14, <1>15, <1>16, <1>17, <1>18, <1>19 DEF MapInv
<1>21. QED BY <1>3, <1>6, <1>11, <1>20

LEMMA SortStep ==
  ASSUME PhaseInv, MapInv, NEW t \in Thread, Sort(t)
  PROVE  MapInv' /\ Emitted' = Emitted
<1>1. PICK s \in Sortings(threads_vec[t]) : threads_vec' = [threads_vec EXCEPT ![t] = s]
  BY DEF Sort
<1>2. /\ pc[t] = "sort" /\ pc' = [pc EXCEPT ![t] = "barrier"]
      /\ UNCHANGED <<inputVec, work, atomic_map_counter, atomic_pairs_counter, round>>
      /\ pc \in [Thread -> WorkerPlace] /\ 0 \in Thread /\ InPhase(t)
  BY ZeroIsAThread DEF Sort, Go, PhaseInv, barrierVars, counters
<1>3. /\ pc'[t] = "barrier" /\ \A u \in Thread \ {t} : pc'[u] = pc[u] BY <1>2
<1>4. Unmerged /\ Unmerged'
  <2>1. \A u \in Thread : pc[u] \in Mapping \/ pc[u] = "barrier" BY <1>2, InStep DEF Mapping
  <2>2. Turn(0) = 0 /\ round[0] \in Nat BY <1>2, InStep DEF Mapping
  <2>3. round[0] = 0 BY <2>2 DEF Turn
  <2>4. QED BY <1>2, <1>3, <2>1, <2>3 DEF Unmerged
<1>5. /\ threads_vec[t] \in Seq(Pairs) /\ Distinct(threads_vec[t]) /\ Keyed(Pairs)
  BY <1>4, PairsLemma DEF MapInv
<1>6. s \in Seq(Pairs) /\ ToSet(s) = ToSet(threads_vec[t]) /\ Distinct(s) /\ Ordered(s)
  BY <1>5, SortLemma
<1>7. /\ threads_vec'[t] = s /\ \A u \in Thread \ {t} : threads_vec'[u] = threads_vec[u]
      /\ threads_vec' \in [Thread -> Seq(Pairs)]
  BY <1>1, <1>6 DEF MapInv
<1>8. \A u \in Thread : ToSet(threads_vec'[u]) = ToSet(threads_vec[u]) BY <1>6, <1>7
<1>9. Emitted' = Emitted BY <1>8 DEF Emitted
<1>10. Pairs' = Pairs BY <1>2 DEF Pairs
<1>11. \A u \in Thread : MapWorkOf(u)' = MapWorkOf(u) BY <1>2, <1>3 DEF MapWorkOf
<1>12. \A u \in Thread : /\ Distinct(threads_vec'[u])
                         /\ pc'[u] \notin Mapping => Ordered(threads_vec'[u])
  BY <1>3, <1>4, <1>6, <1>7 DEF MapInv
<1>13. \A u \in Thread : /\ pc'[u] = "map" => pc[u] = "map"
                         /\ pc'[u] \notin {"map", "reduce", "counting"} => work[u] = <<>>
                         /\ pc'[u] \notin {"unborn", "start", "map"} =>
                              pc[u] \notin {"unborn", "start", "map"}
  BY <1>2, <1>3 DEF MapInv
<1>14. MapInv'
  <2>1. /\ IsFiniteSet(Emitted') /\ atomic_pairs_counter' = Cardinality(Emitted')
        /\ work' = [u \in Thread |-> work'[u]] /\ atomic_map_counter' \in Nat
        /\ inputVec' \in Inputs
    BY <1>2, <1>9 DEF MapInv
  <2>2. \A p \in Pairs : p.of[1] <= atomic_map_counter'
          <=> (p \in Emitted' \/ \E u \in Thread : p \in MapWorkOf(u)')
    BY <1>2, <1>9, <1>11 DEF MapInv
  <2>3. /\ \A u, v \in Thread : u # v => MapWorkOf(u)' \intersect MapWorkOf(v)' = {}
        /\ \A u \in Thread : MapWorkOf(u)' \intersect Emitted' = {}
    BY <1>9, <1>11 DEF MapInv
  <2>4. \A u \in Thread : /\ pc'[u] = "map" => work'[u] \in Seq(Pairs) /\ Distinct(work'[u])
                          /\ pc'[u] \notin {"unborn", "start", "map"} =>
                               Len(inputVec') <= atomic_map_counter'
    BY <1>2, <1>13 DEF MapInv
  <2>5. \A u, v \in Thread :
          u # v => ToSet(threads_vec'[u]) \intersect ToSet(threads_vec'[v]) = {}
    BY <1>4, <1>8 DEF MapInv
  <2>6. QED
    BY <1>2, <1>7, <1>10, <1>12, <1>13, <2>1, <2>2, <2>3, <2>4, <2>5 DEF MapInv
<1>15. QED BY <1>9, <1>14

\* When thread 0 merges the vectors of the others, everybody has mapped and
\* sorted, and is at the barrier.
LEMMA MergeTime ==
  ASSUME PhaseInv, MapInv, NEW t \in Thread, pc[t] \in Shuffling
  PROVE  /\ t = 0 /\ \A u \in Thread : u # 0 => pc[u] = "barrier"
         /\ Emitted = Pairs /\ round[0] = 1 /\ Len(inputVec) <= atomic_map_counter
<1>1. t = 0 /\ \A u \in Thread : u # 0 => pc[u] = "barrier" BY InStep
<1>2. \A u \in Thread : pc[u] \notin Mapping BY <1>1 DEF Mapping, Shuffling
<1>3. round[0] = 1 BY <1>1 DEF PhaseInv, InPhase
<1>4. Len(inputVec) <= atomic_map_counter BY <1>2 DEF MapInv, Mapping
<1>5. QED BY <1>1, <1>2, <1>3, <1>4, AllMapped

LEMMA MergeAllStep ==
  ASSUME PhaseInv, MapInv, NEW t \in Thread, MergeAll(t)
  PROVE  /\ MapInv' /\ Emitted' = Emitted /\ ~ Unmerged'
         /\ to_shuffle' \in Seq(Pairs) /\ ToSet(to_shuffle') = Pairs
         /\ Ordered(to_shuffle') /\ Distinct(to_shuffle')
<1>1. /\ pc[t] = "merge" /\ pc' = [pc EXCEPT ![t] = "shuffle"]
      /\ threads_vec' = merge_vectors(threads_vec) /\ to_shuffle' = threads_vec'[0]
      /\ UNCHANGED <<inputVec, work, round>>
      /\ UNCHANGED <<atomic_map_counter, atomic_pairs_counter>>
      /\ pc \in [Thread -> WorkerPlace]
  BY DEF MergeAll, Go, PhaseInv, barrierVars, counters
<1>2. /\ t = 0 /\ Emitted = Pairs
      /\ \A u \in Thread : u # 0 => pc[u] = "barrier"
      /\ Len(inputVec) <= atomic_map_counter
  BY <1>1, MergeTime DEF Shuffling
<1>3. pc'[0] = "shuffle" /\ \A u \in Thread : u # 0 => pc'[u] = "barrier"
  BY <1>1, <1>2
<1>4. Unmerged /\ ~ Unmerged' BY <1>1, <1>2, <1>3 DEF Unmerged, Mapping
<1>5. /\ Keyed(Pairs) /\ threads_vec \in [Thread -> Seq(Pairs)]
      /\ \A u \in Thread : Ordered(threads_vec[u]) /\ Distinct(threads_vec[u])
      /\ \A u, v \in Thread : u # v => ToSet(threads_vec[u]) \intersect ToSet(threads_vec[v]) = {}
      /\ \A p \in Pairs : \E u \in Thread : p \in ToSet(threads_vec[u])
  <2>1. \A p \in Pairs : p \in Emitted BY <1>2
  <2>2. \A p \in Emitted : \E u \in Thread : p \in ToSet(threads_vec[u]) BY DEF Emitted
  <2>3. \A u \in Thread : pc[u] \notin Mapping BY <1>1, <1>2 DEF Mapping
  <2>4. QED BY <1>4, <2>1, <2>2, <2>3, PairsLemma DEF MapInv
<1>6. /\ threads_vec' \in [Thread -> Seq(Pairs)] /\ ToSet(threads_vec'[0]) = Pairs
      /\ Ordered(threads_vec'[0]) /\ Distinct(threads_vec'[0])
  <2> DEFINE U == Pairs
  <2> HIDE DEF U
  <2>1. /\ merge_vectors(threads_vec) \in [Thread -> Seq(U)]
        /\ ToSet(merge_vectors(threads_vec)[0]) = U
        /\ Ordered(merge_vectors(threads_vec)[0]) /\ Distinct(merge_vectors(threads_vec)[0])
    BY <1>5, MergeVectorsLemma DEF U
  <2>2. QED BY <2>1, <1>1 DEF U
<1>7. 0 \in Thread BY ZeroIsAThread
<1>8. Emitted' = Pairs
  <2>1. \A u \in Thread : ToSet(threads_vec'[u]) \subseteq Pairs BY <1>6, SeqElements
  <2>2. \A q : q \in Emitted' <=> \E u \in Thread : q \in ToSet(threads_vec'[u])
    BY DEF Emitted
  <2>3. QED BY <1>6, <1>7, <2>1, <2>2
<1>9. Pairs' = Pairs BY <1>1 DEF Pairs
<1>10. \A u \in Thread : MapWorkOf(u)' = {} /\ MapWorkOf(u) = {} /\ pc'[u] # "map"
  BY <1>1, <1>2, <1>3 DEF MapWorkOf
<1>11. MapInv'
  <2>1. /\ IsFiniteSet(Emitted') /\ atomic_pairs_counter' = Cardinality(Emitted')
        /\ work' = [u \in Thread |-> work'[u]] /\ atomic_map_counter' \in Nat
        /\ inputVec' \in Inputs
    BY <1>1, <1>2, <1>8 DEF MapInv
  <2>2. \A p \in Pairs : p.of[1] <= atomic_map_counter'
          <=> (p \in Emitted' \/ \E u \in Thread : p \in MapWorkOf(u)')
    BY <1>1, <1>2, <1>8, <1>10 DEF MapInv
  <2>3. \A u \in Thread : work'[u] = <<>> BY <1>1, <1>2 DEF MapInv
  <2>4. Len(inputVec') <= atomic_map_counter' BY <1>1, <1>2
  <2>5. QED BY <1>4, <1>6, <1>9, <1>10, <2>1, <2>2, <2>3, <2>4 DEF MapInv
<1>12. QED BY <1>1, <1>2, <1>4, <1>6, <1>8, <1>11

\* The steps that only move a worker on, outside of its map.
LEMMA MoveStep ==
  ASSUME PhaseInv, MapInv, NEW t \in Thread, NEW place, Go(t, place), UNCHANGED <<work, round>>,
         UNCHANGED <<inputVec, threads_vec, atomic_map_counter, atomic_pairs_counter>>,
         <<pc[t], place>> \in {<<"unborn", "start">>, <<"start", "map">>, <<"set_shuffle", "merge">>,
           <<"shuffle", "barrier">>, <<"set_reduce", "reduce">>}
  PROVE  MapInv'
<1>1. InPhase(t) /\ pc'[t] = place BY DEF PhaseInv, Go
<1>2. t = 0 => (Unmerged' => Unmerged) BY <1>1 DEF Unmerged, InPhase, Mapping, Shuffling
<1>3. work' = [u \in Thread |-> work'[u]] BY DEF MapInv
<1>4. place \notin {"map", "reduce", "counting"} => work'[t] = <<>> BY DEF MapInv
<1>5. QED BY <1>2, <1>3, <1>4, PlacesKept DEF Mapping

LEMMA BarrierStepMap ==
  ASSUME SpuriousWakeups = FALSE, PhaseInv, MapInv, NEW t \in Thread, BarrierStep(t)
  PROVE  MapInv' /\ (Unmerged' <=> Unmerged)
<1> DEFINE place == IF round'[t] # round[t] THEN AfterBarrier(t) ELSE "barrier"
<1>1. /\ pc[t] = "barrier" /\ Go(t, place) /\ pc'[t] = place /\ work[t] = <<>>
      /\ UNCHANGED <<work, inputVec, threads_vec, atomic_map_counter, atomic_pairs_counter>>
      /\ BarrierInv /\ 0 \in Thread
      /\ \A u \in Thread \ {t} : pc'[u] = pc[u]
  BY ZeroIsAThread DEF BarrierStep, Go, PhaseInv, MapInv, dataVars, counters
<1>2. /\ \A u \in Thread \ {t} : round'[u] = round[u]
      /\ round'[t] = round[t] \/ round'[t] = round[t] + 1
  BY <1>1, BarrierMove DEF BarrierStep
<1>3. round[t] \in {0, 1} BY <1>1 DEF PhaseInv, InPhase
<1>4. place \in {"barrier", "set_shuffle", "set_reduce"} BY DEF AfterBarrier
<1>5. t = 0 => (Unmerged' <=> Unmerged)
  <2>1. CASE round'[t] = round[t] BY <2>1, <1>1 DEF Unmerged
  <2>2. CASE t = 0 /\ round'[t] # round[t] /\ round[t] = 0
    <3>1. place = "set_shuffle" BY <2>2 DEF AfterBarrier
    <3>2. QED BY <2>2, <3>1, <1>1 DEF Unmerged
  <2>3. CASE t = 0 /\ round'[t] # round[t] /\ round[t] = 1
    <3>1. place = "set_reduce" BY <2>3 DEF AfterBarrier
    <3>2. QED BY <2>3, <3>1, <1>1 DEF Unmerged, Mapping
  <2>4. QED BY <1>3, <2>1, <2>2, <2>3
<1>6. t # 0 => (Unmerged' <=> Unmerged) BY <1>1, <1>2 DEF Unmerged
<1>7. work' = [u \in Thread |-> work'[u]] BY <1>1 DEF MapInv
<1> HIDE DEF place
<1>8. MapInv'
  BY <1>1, <1>2, <1>4, <1>5, <1>7, PlacesKept DEF Mapping
<1>9. QED BY <1>5, <1>6, <1>8

LEMMA ReducingStepMap ==
  ASSUME PhaseInv, MapInv, NEW t \in Thread, ClaimGroup(t) \/ Emit3Push(t) \/ Emit3Count(t)
  PROVE  MapInv' /\ UNCHANGED <<inputVec, threads_vec>>
<1>1. /\ pc[t] \in {"reduce", "counting"}
      /\ UNCHANGED <<round, inputVec, threads_vec, atomic_map_counter, atomic_pairs_counter>>
      /\ pc \in [Thread -> WorkerPlace]
  BY DEF counters, ClaimGroup, Emit3Push, Emit3Count, barrierVars, dataVars, PhaseInv
<1>2. /\ work' = work \/ \E w : work' = [work EXCEPT ![t] = w]
      /\ work = [u \in Thread |-> work[u]]
  BY DEF ClaimGroup, Emit3Push, Emit3Count, MapInv
<1>3. /\ work' = [u \in Thread |-> work'[u]]
      /\ \A u \in Thread \ {t} : work'[u] = work[u]
  BY <1>2
<1>4. \E place \in {"reduce", "counting", "done"} :
        Go(t, place) /\ (place = "done" => work'[t] = work[t])
  <2>1. CASE ClaimGroup(t)
    <3>1. CASE Go(t, "done") /\ work' = work BY <3>1
    <3>2. CASE pc' = pc
      <4>1. pc[t] = "reduce" /\ pc' = [pc EXCEPT ![t] = "reduce"]
        BY <1>1, <2>1, <3>2 DEF ClaimGroup
      <4>2. Go(t, "reduce") BY <4>1 DEF Go
      <4>3. QED BY <4>2
    <3>3. QED BY <2>1, <3>1, <3>2 DEF ClaimGroup
  <2>2. CASE Emit3Push(t) \/ Emit3Count(t) BY <2>2 DEF Emit3Push, Emit3Count
  <2>3. QED BY <2>1, <2>2
<1>5. PICK place \in {"reduce", "counting", "done"} :
        Go(t, place) /\ (place = "done" => work'[t] = work[t])
  BY <1>4
<1>6. pc'[t] = place BY <1>1, <1>5 DEF Go
<1>7. t = 0 => ~ Unmerged'
  BY <1>6 DEF Unmerged, Mapping
<1>8. place = "done" => work'[t] = <<>>
  <2>1. ASSUME place = "done" PROVE ClaimGroup(t) /\ work[t] = <<>>
    BY <2>1, <1>1, <1>5, <1>6 DEF Emit3Push, Emit3Count, ClaimGroup, Go
  <2>2. QED BY <2>1, <1>5
<1>9. MapInv' BY <1>1, <1>3, <1>5, <1>7, <1>8, PlacesKept DEF Mapping
<1>10. QED BY <1>1, <1>9

\* Steps that leave the map alone.
LEMMA MapSame ==
  ASSUME MapInv, UNCHANGED <<inputVec, threads_vec, work, pc, round>>,
         UNCHANGED <<atomic_map_counter, atomic_pairs_counter>>
  PROVE  MapInv'
<1>1. Unmerged' <=> Unmerged BY DEF Unmerged
<1>2. work' = [u \in Thread |-> work'[u]] BY DEF MapInv
<1>3. \A u \in Thread : pc[u] \notin {"map", "reduce", "counting"} => work[u] = <<>>
  BY DEF MapInv
<1>4. QED BY <1>1, <1>2, <1>3, MapStay

LEMMA ClientFrame ==
  ASSUME NEW c \in Client,
         ReadStage(c) \/ WaitForJob(c) \/ CloseJobHandle(c) \/ Called(c)
  PROVE  UNCHANGED <<barrierVars, pc, work, stage, inputVec, dataVars, counters>>
BY DEF ReadStage, WaitForJob, CloseJobHandle, Called, ReadCounters, BeginJoins, FindJoined,
       Join, Free

LEMMA MapNext ==
  ASSUME SpuriousWakeups = FALSE, PhaseInv, MapInv, [MapReduceNext]_vars
  PROVE  MapInv' /\ inputVec' = inputVec
<1>1. ASSUME NEW t \in Thread, Create(t) PROVE MapInv' /\ inputVec' = inputVec
  BY <1>1, MoveStep DEF Create, barrierVars, dataVars, counters
<1>2. ASSUME NEW t \in Thread, Worker(t) PROVE MapInv' /\ inputVec' = inputVec
  <2>1. CASE SetMap(t) BY <2>1, MoveStep DEF SetMap, barrierVars, dataVars, counters
  <2>2. CASE ClaimInput(t) BY <2>2, ClaimInputStep DEF ClaimInput
  <2>3. CASE Emit2(t) BY <2>3, Emit2Step DEF Emit2
  <2>4. CASE Sort(t) BY <2>4, SortStep DEF Sort
  <2>5. CASE BarrierStep(t) BY <2>5, BarrierStepMap DEF BarrierStep
  <2>6. CASE SetShuffle(t) BY <2>6, MoveStep DEF SetShuffle, barrierVars, dataVars, counters
  <2>7. CASE MergeAll(t) BY <2>7, MergeAllStep DEF MergeAll
  <2>8. CASE Shuffle(t) BY <2>8, MapSame DEF Shuffle, barrierVars
  <2>9. CASE EndShuffle(t) BY <2>9, MoveStep DEF EndShuffle, barrierVars, dataVars, counters
  <2>10. CASE SetReduce(t) BY <2>10, MoveStep DEF SetReduce, barrierVars, dataVars, counters
  <2>11. CASE ClaimGroup(t) \/ Emit3Push(t) \/ Emit3Count(t) BY <2>11, ReducingStepMap
  <2>12. QED
    BY <1>2, <2>1, <2>2, <2>3, <2>4, <2>5, <2>6, <2>7, <2>8, <2>9, <2>10, <2>11 DEF Worker
<1>3. ASSUME NEW c \in Client,
             ReadStage(c) \/ WaitForJob(c) \/ CloseJobHandle(c) \/ Called(c)
      PROVE  MapInv' /\ inputVec' = inputVec
  BY <1>3, ClientFrame, MapSame DEF barrierVars, dataVars, counters
<1>4. CASE UNCHANGED vars BY <1>4, MapSame DEF vars, barrierVars, dataVars, counters
<1>5. QED BY <1>1, <1>2, <1>3, <1>4 DEF MapReduceNext, Over

\* For any number of workers and any input: when the stage is past MAP_STAGE, each
\* pair that the maps emit is in the vectors, counted once, and no worker is in its
\* map any more, so thread 0 reads the vectors of the others alone.
THEOREM MappedBeforeShuffle ==
  ASSUME SpuriousWakeups = FALSE PROVE MapReduceSpec => []EverythingMapped
<1>1. PhaseInv /\ MapInv /\ [MapReduceNext]_vars => MapInv' BY MapNext, Zenon
<1>2. PhaseInv /\ MapInv => EverythingMapped
  <2> SUFFICES ASSUME PhaseInv, MapInv, stage > MAP_STAGE PROVE EverythingMapped!2
    BY DEF EverythingMapped
  <2>1. Turn(0) # 0 BY DEF PhaseInv, StageInv, UNDEFINED_STAGE, REDUCE_STAGE, MAP_STAGE
  <2>2. \A t \in Thread : pc[t] \notin Mapping BY <2>1, InStep
  <2>3. Emitted = Pairs BY <2>2, AllMapped
  <2>4. atomic_pairs_counter = Cardinality(Emitted) BY DEF MapInv
  <2>5. QED BY <2>2, <2>3, <2>4 DEF Mapping, Emitted, Pairs
<1>3. QED BY MapInit, JobInPhase, <1>1, <1>2, PTL DEF MapReduceSpec

-----------------------------------------------------------------------------
(* The shuffle.                                                            *)

\* The steps that do not touch what is to be shuffled.
LEMMA ShuffleSame ==
  ASSUME ShuffleInv, UNCHANGED <<inputVec, to_shuffle, shuffled_vec, atomic_shuffle_counter>>,
         Unmerged' <=> Unmerged, pc[0] = "shuffle" => pc'[0] = "shuffle" \/ to_shuffle = <<>>
  PROVE  ShuffleInv'
<1>1. Pairs' = Pairs BY DEF Pairs
<1>2. pc'[0] # "shuffle" => to_shuffle = <<>> BY DEF ShuffleInv
<1>3. QED BY <1>1, <1>2 DEF ShuffleInv

LEMMA QuietStep ==
  ASSUME SpuriousWakeups = FALSE, PhaseInv, MapInv, NEW t \in Thread, Create(t) \/ Worker(t),
         ~ MergeAll(t), ~ Shuffle(t)
  PROVE  /\ UNCHANGED <<to_shuffle, shuffled_vec, atomic_shuffle_counter>>
         /\ Unmerged' <=> Unmerged
         /\ pc[0] = "shuffle" => pc'[0] = "shuffle" \/ to_shuffle = <<>>
<1>1. /\ pc \in [Thread -> WorkerPlace] /\ 0 \in Thread /\ InPhase(t)
  BY ZeroIsAThread DEF PhaseInv
<1>2. CASE BarrierStep(t)
  <2>1. Unmerged' <=> Unmerged BY <1>2, BarrierStepMap
  <2>2. pc[0] = "shuffle" => pc'[0] = "shuffle" BY <1>1, <1>2 DEF BarrierStep, Go
  <2>3. QED BY <1>2, <2>1, <2>2 DEF BarrierStep, dataVars, counters
<1>3. CASE Emit2(t)
  <2>1. UNCHANGED <<pc, round, to_shuffle, shuffled_vec, atomic_shuffle_counter>>
    BY <1>3 DEF Emit2, barrierVars
  <2>2. QED BY <2>1 DEF Unmerged
<1>4. ASSUME NEW place, pc' = pc \/ Go(t, place), round' = round,
             <<pc[t], place>> \in {<<"unborn", "start">>, <<"start", "map">>, <<"map", "sort">>,
                <<"sort", "barrier">>, <<"set_shuffle", "merge">>, <<"shuffle", "barrier">>}
      PROVE  Unmerged' <=> Unmerged
  <2>1. CASE pc' = pc BY <1>4, <2>1 DEF Unmerged
  <2>2. CASE Go(t, place)
    <3>1. pc'[t] = place /\ \A u \in Thread \ {t} : pc'[u] = pc[u] BY <1>1, <2>2 DEF Go
    <3>2. CASE t # 0 BY <3>1, <3>2, <1>1, <1>4 DEF Unmerged
    <3>3. CASE t = 0 BY <3>1, <3>3, <1>1, <1>4 DEF Unmerged, InPhase, Mapping, Shuffling
    <3>4. QED BY <3>2, <3>3
  <2>3. QED BY <1>4, <2>1, <2>2
<1>5. CASE Create(t) \/ SetMap(t) \/ ClaimInput(t) \/ Sort(t) \/ SetShuffle(t)
  <2>1. UNCHANGED <<round, to_shuffle, shuffled_vec, atomic_shuffle_counter>>
    BY <1>5 DEF Create, SetMap, ClaimInput, Sort, SetShuffle, barrierVars, dataVars, counters
  <2>2. \E place :
          /\ pc' = pc \/ Go(t, place)
          /\ <<pc[t], place>> \in {<<"unborn", "start">>, <<"start", "map">>, <<"map", "sort">>,
               <<"sort", "barrier">>, <<"set_shuffle", "merge">>}
    <3>1. CASE Create(t) BY <3>1 DEF Create
    <3>2. CASE SetMap(t) BY <3>2 DEF SetMap
    <3>3. CASE ClaimInput(t) BY <3>3 DEF ClaimInput
    <3>4. CASE Sort(t) BY <3>4 DEF Sort
    <3>5. CASE SetShuffle(t) BY <3>5 DEF SetShuffle
    <3>6. QED BY <1>5, <3>1, <3>2, <3>3, <3>4, <3>5
  <2>3. Unmerged' <=> Unmerged BY <1>4, <2>1, <2>2
  <2>4. pc[0] = "shuffle" => pc'[0] = "shuffle" BY <2>2, <1>1 DEF Go
  <2>5. QED BY <2>1, <2>3, <2>4
<1>6. CASE EndShuffle(t)
  <2>1. /\ UNCHANGED <<round, to_shuffle, shuffled_vec, atomic_shuffle_counter>>
        /\ pc[t] = "shuffle" /\ to_shuffle = <<>> /\ Go(t, "barrier")
    BY <1>6 DEF EndShuffle, barrierVars, dataVars, counters
  <2>2. QED BY <1>4, <2>1
<1>7. CASE SetReduce(t) \/ ClaimGroup(t) \/ Emit3Push(t) \/ Emit3Count(t)
  <2>1. /\ UNCHANGED <<round, to_shuffle, shuffled_vec, atomic_shuffle_counter>>
        /\ pc[t] \in Reducing
    BY <1>7
    DEF SetReduce, ClaimGroup, Emit3Push, Emit3Count, barrierVars, dataVars, counters, Reducing
  <2>2. pc' = pc \/ \E place \in Reducing : Go(t, place)
    BY <1>7 DEF SetReduce, ClaimGroup, Emit3Push, Emit3Count, Reducing
  <2>3. pc'[t] \in Reducing /\ \A u \in Thread \ {t} : pc'[u] = pc[u]
    BY <1>1, <2>1, <2>2 DEF Go
  <2>4. Unmerged' <=> Unmerged
    <3>1. CASE t # 0 BY <3>1, <2>1, <2>3, <1>1 DEF Unmerged
    <3>2. CASE t = 0 BY <3>2, <2>1, <2>3 DEF Unmerged, Mapping, Reducing
    <3>3. QED BY <3>1, <3>2
  <2>5. pc[0] = "shuffle" => pc'[0] = "shuffle" BY <1>1, <2>1, <2>3 DEF Reducing
  <2>6. QED BY <2>1, <2>4, <2>5
<1>8. QED BY <1>2, <1>3, <1>5, <1>6, <1>7 DEF Worker

LEMMA ShuffleInit == MapReduceInit => ShuffleInv
<1> SUFFICES ASSUME MapReduceInit PROVE ShuffleInv
  OBVIOUS
<1>1. /\ to_shuffle = <<>> /\ shuffled_vec = <<>> /\ atomic_shuffle_counter = 0
      /\ pc[0] = "unborn"
  BY ZeroIsAThread DEF MapReduceInit
<1>2. /\ Ordered(<<>>) /\ Distinct(<<>>) /\ ToSet(<<>>) = {}
      /\ \A U : <<>> \in Seq(U)
  BY EmptySeqElements
<1>3. GroupsInv(<<>>) BY DEF GroupsInv
<1>4. Unmerged BY <1>1 DEF Unmerged, Mapping
<1>5. QED BY <1>1, <1>2, <1>3, <1>4 DEF ShuffleInv

\* All the pairs, in the order of their keys.
LEMMA MergeAllShuffle ==
  ASSUME PhaseInv, MapInv, ShuffleInv, NEW t \in Thread, MergeAll(t)
  PROVE  ShuffleInv'
<1>1. /\ ~ Unmerged' /\ to_shuffle' \in Seq(Pairs) /\ ToSet(to_shuffle') = Pairs
      /\ Ordered(to_shuffle') /\ Distinct(to_shuffle')
  BY MergeAllStep
<1>2. /\ UNCHANGED <<inputVec, shuffled_vec, atomic_shuffle_counter>>
      /\ pc[t] = "merge" /\ pc' = [pc EXCEPT ![t] = "shuffle"]
      /\ pc \in [Thread -> WorkerPlace] /\ t = 0
  BY MergeTime DEF MergeAll, Go, PhaseInv, counters, Shuffling
<1>3. Unmerged /\ pc'[0] = "shuffle" BY <1>2 DEF Unmerged
<1>4. shuffled_vec = <<>> /\ shuffled_vec' = <<>> BY <1>2, <1>3 DEF ShuffleInv
<1>5. InGroups(shuffled_vec') = {} BY <1>4 DEF InGroups
<1>6. Pairs' = Pairs BY <1>2 DEF Pairs
<1>7. GroupsInv(shuffled_vec') BY <1>4 DEF GroupsInv
<1>8. shuffled_vec' \in Seq(Seq(Pairs)) /\ atomic_shuffle_counter' \in Nat
  BY <1>2 DEF ShuffleInv
<1>9. QED BY <1>1, <1>3, <1>5, <1>6, <1>7, <1>8 DEF ShuffleInv

\* The first pair that is left joins the group of its key, or starts the last.
LEMMA ShuffleStep ==
  ASSUME PhaseInv, MapInv, ShuffleInv, NEW t \in Thread, Shuffle(t)
  PROVE  ShuffleInv' /\ ~ Unmerged /\ Len(shuffled_vec') >= Len(shuffled_vec)
<1> DEFINE p == Head(to_shuffle)
           rest == Tail(to_shuffle)
           groups == Grouped(shuffled_vec, p)
<1>1. /\ pc[t] = "shuffle" /\ to_shuffle # <<>> /\ to_shuffle' = rest
      /\ shuffled_vec' = groups /\ UNCHANGED <<pc, inputVec, round>>
      /\ atomic_shuffle_counter' = atomic_shuffle_counter + 1
  BY DEF Shuffle, barrierVars
<1>2. t = 0 /\ pc[0] = "shuffle" BY <1>1, MergeTime DEF Shuffling
<1>3. ~ Unmerged /\ ~ Unmerged' BY <1>1, <1>2 DEF Unmerged, Mapping
<1>4. /\ to_shuffle \in Seq(Pairs) /\ Ordered(to_shuffle) /\ Distinct(to_shuffle)
      /\ shuffled_vec \in Seq(Seq(Pairs)) /\ GroupsInv(shuffled_vec)
      /\ ToSet(to_shuffle) \union InGroups(shuffled_vec) = Pairs
      /\ \A q \in ToSet(to_shuffle), r \in InGroups(shuffled_vec) : q # r /\ r.key <= q.key
  BY <1>3 DEF ShuffleInv
<1>5. /\ p \in Pairs /\ rest \in Seq(Pairs) /\ ToSet(to_shuffle) = {p} \union ToSet(rest)
      /\ Distinct(rest) /\ p \notin ToSet(rest) /\ Ordered(rest)
      /\ \A q \in ToSet(to_shuffle) : p.key <= q.key
  BY <1>1, <1>4, TailElements
<1> HIDE DEF p, rest
<1>6. Keyed(Pairs) BY PairsLemma DEF MapInv
<1>7. p \notin InGroups(shuffled_vec) /\ \A r \in InGroups(shuffled_vec) : r.key <= p.key
  BY <1>4, <1>5
<1>8. /\ groups \in Seq(Seq(Pairs)) /\ GroupsInv(groups)
      /\ InGroups(groups) = InGroups(shuffled_vec) \union {p}
      /\ Len(groups) >= Len(shuffled_vec)
  <2> DEFINE U == Pairs
  <2> HIDE DEF U
  <2>1. /\ Keyed(U) /\ shuffled_vec \in Seq(Seq(U)) /\ p \in U BY <1>4, <1>5, <1>6 DEF U
  <2>2. /\ groups \in Seq(Seq(U)) /\ GroupsInv(groups)
        /\ InGroups(groups) = InGroups(shuffled_vec) \union {p}
        /\ Len(groups) >= Len(shuffled_vec)
    BY <2>1, <1>4, <1>7, GroupedLemma
  <2>3. QED BY <2>2 DEF U
<1> HIDE DEF groups
<1>9. Pairs' = Pairs BY <1>1 DEF Pairs
<1>10. ToSet(rest) \union InGroups(groups) = Pairs BY <1>4, <1>5, <1>8
<1>11. \A q \in ToSet(rest), r \in InGroups(groups) : q # r /\ r.key <= q.key
  BY <1>4, <1>5, <1>8
<1>12. atomic_shuffle_counter' \in Nat BY <1>1 DEF ShuffleInv
<1>13. ShuffleInv'
  BY <1>1, <1>2, <1>3, <1>5, <1>8, <1>9, <1>10, <1>11, <1>12 DEF ShuffleInv
<1>14. QED BY <1>1, <1>3, <1>8, <1>13

LEMMA ShuffleNext ==
  ASSUME SpuriousWakeups = FALSE, PhaseInv, MapInv, ShuffleInv, [MapReduceNext]_vars
  PROVE  ShuffleInv'
<1>1. inputVec' = inputVec BY MapNext, Zenon
<1>2. ASSUME NEW t \in Thread, Create(t) \/ Worker(t) PROVE ShuffleInv'
  <2>1. CASE MergeAll(t) BY <2>1, MergeAllShuffle
  <2>2. CASE Shuffle(t) BY <2>2, ShuffleStep
  <2>3. CASE ~ MergeAll(t) /\ ~ Shuffle(t)
    <3>1. /\ UNCHANGED <<to_shuffle, shuffled_vec, atomic_shuffle_counter>>
          /\ Unmerged' <=> Unmerged
          /\ pc[0] = "shuffle" => pc'[0] = "shuffle" \/ to_shuffle = <<>>
      BY <1>2, <2>3, QuietStep
    <3>2. QED BY <1>1, <3>1, ShuffleSame
  <2>4. QED BY <2>1, <2>2, <2>3
<1>3. ASSUME UNCHANGED <<barrierVars, pc, work, stage, inputVec, dataVars, counters>>
      PROVE  ShuffleInv'
  <2>1. /\ UNCHANGED <<inputVec, to_shuffle, shuffled_vec, atomic_shuffle_counter>>
        /\ UNCHANGED <<pc, round>>
    BY <1>3 DEF barrierVars, dataVars, counters
  <2>2. Unmerged' <=> Unmerged BY <2>1 DEF Unmerged
  <2>3. QED BY <2>1, <2>2, ShuffleSame
<1>4. QED BY <1>2, <1>3, ClientFrame DEF MapReduceNext, Over, vars

\* What the groups are when they are reduced.
LEMMA GroupsComplete ==
  ASSUME PhaseInv, MapInv, ShuffleInv, stage = REDUCE_STAGE
  PROVE  /\ ~ Unmerged /\ InGroups(shuffled_vec) = Pairs /\ pc[0] # "shuffle"
         /\ Emitted = Pairs /\ \A t \in Thread : pc[t] \notin Mapping
<1>1. 0 \in Thread /\ InPhase(0) /\ StageInv BY ZeroIsAThread DEF PhaseInv
<1>2. Turn(0) = 2 /\ round[0] \in Nat
  <2>1. Turn(0) # 0 /\ Turn(0) # 1
    BY <1>1 DEF StageInv, UNDEFINED_STAGE, REDUCE_STAGE, SHUFFLE_STAGE, MAP_STAGE
  <2>2. round[0] \in Nat /\ Turn(0) \in Nat BY <1>1, InStep DEF Turn
  <2>3. pc[0] \in Mapping \union Shuffling \union Reducing => Turn(0) = 2
    BY <1>1, <2>1, InStep
  <2>4. pc[0] = "barrier" => Turn(0) = 2
    <3>1. pc[0] = "barrier" => round[0] \in {0, 1} BY <1>1 DEF InPhase
    <3>2. QED BY <3>1, <2>1 DEF Turn
  <2>5. QED BY <2>2, <2>3, <2>4, <1>1, InStep
<1>3. pc[0] \notin Mapping /\ pc[0] \notin Shuffling BY <1>1, <1>2, InStep
<1>4. pc[0] = "barrier" => round[0] # 0 BY <1>2 DEF Turn
<1>5. ~ Unmerged /\ pc[0] # "shuffle" BY <1>3, <1>4 DEF Unmerged, Shuffling
<1>6. to_shuffle = <<>> BY <1>5 DEF ShuffleInv
<1>7. InGroups(shuffled_vec) = Pairs BY <1>5, <1>6, EmptySeqElements DEF ShuffleInv
<1>8. \A t \in Thread : pc[t] \notin Mapping BY <1>2, <1>1, InStep
<1>9. QED BY <1>5, <1>7, <1>8, AllMapped

LEMMA GroupsAreExact == PhaseInv /\ MapInv /\ ShuffleInv => GroupsExact
<1> SUFFICES ASSUME PhaseInv, MapInv, ShuffleInv, stage = REDUCE_STAGE PROVE GroupsExact!2
  BY DEF GroupsExact
<1> DEFINE G == 1 .. Len(shuffled_vec)
<1>1. /\ InGroups(shuffled_vec) = Pairs /\ GroupsInv(shuffled_vec)
      /\ shuffled_vec \in Seq(Seq(Pairs))
  BY GroupsComplete DEF ShuffleInv
<1>2. /\ DOMAIN shuffled_vec = G
      /\ \A g \in G : shuffled_vec[g] \in Seq(Pairs)
  BY <1>1, SeqElements
<1>3. /\ \A g \in G : /\ Len(shuffled_vec[g]) > 0 /\ Distinct(shuffled_vec[g])
                      /\ \A p \in ToSet(shuffled_vec[g]) : p.key = shuffled_vec[g][1].key
      /\ \A g, h \in G : g < h => shuffled_vec[g][1].key < shuffled_vec[h][1].key
  BY <1>1 DEF GroupsInv
<1>4. \A p : p \in Pairs <=> \E g \in G : p \in ToSet(shuffled_vec[g])
  BY <1>1 DEF InGroups
<1>5. \A g \in G : shuffled_vec[g][1] \in ToSet(shuffled_vec[g])
  <2>1. ASSUME NEW g \in G PROVE shuffled_vec[g][1] \in ToSet(shuffled_vec[g])
    <3>1. 1 \in 1 .. Len(shuffled_vec[g]) BY <1>2, <1>3, SeqElements
    <3>2. QED BY <1>2, <3>1, SeqElements
  <2>2. QED BY <2>1
<1>6. \A g, h \in G : shuffled_vec[g][1].key = shuffled_vec[h][1].key => g = h
  <2>1. \A g \in G : shuffled_vec[g][1].key \in Int
    BY <1>4, <1>5, PairsLemma DEF Keyed, MapInv
  <2>2. ASSUME NEW g \in G, NEW h \in G, shuffled_vec[g][1].key = shuffled_vec[h][1].key
        PROVE  g = h
    <3>1. g \in Nat /\ h \in Nat BY <1>1, SeqElements
    <3>2. ~ g < h /\ ~ h < g BY <2>1, <2>2, <1>3
    <3>3. QED BY <3>1, <3>2
  <2>3. QED BY <2>2
<1>7. {shuffled_vec[g][1].key : g \in DOMAIN shuffled_vec} = KeysOf(inputVec)
  <2>1. \A k : k \in KeysOf(inputVec) <=> \E p \in Pairs : k = p.key BY DEF KeysOf, Pairs
  <2>2. \A g \in G : \E p \in Pairs : shuffled_vec[g][1].key = p.key BY <1>4, <1>5
  <2>3. \A p \in Pairs : \E g \in G : p.key = shuffled_vec[g][1].key BY <1>3, <1>4
  <2>4. \A k : k \in KeysOf(inputVec) <=> \E g \in G : k = shuffled_vec[g][1].key
    BY <2>1, <2>2, <2>3
  <2>5. QED BY <2>4, <1>2
<1>8. ASSUME NEW g \in DOMAIN shuffled_vec
      PROVE  /\ ToSet(shuffled_vec[g])
                  = {p \in PairsOf(inputVec) : p.key = shuffled_vec[g][1].key}
             /\ Len(shuffled_vec[g]) = Cardinality(ToSet(shuffled_vec[g]))
  <2>1. g \in G BY <1>2
  <2>2. Len(shuffled_vec[g]) = Cardinality(ToSet(shuffled_vec[g]))
    BY <2>1, <1>2, <1>3, ElementsFinite
  <2>3. ASSUME NEW p \in Pairs, p.key = shuffled_vec[g][1].key
        PROVE  p \in ToSet(shuffled_vec[g])
    <3>1. PICK h \in G : p \in ToSet(shuffled_vec[h]) BY <1>4
    <3>2. h = g BY <2>1, <2>3, <3>1, <1>3, <1>6
    <3>3. QED BY <3>1, <3>2
  <2>4. \A p \in ToSet(shuffled_vec[g]) : p \in Pairs /\ p.key = shuffled_vec[g][1].key
    BY <2>1, <1>3, <1>4
  <2>5. QED BY <2>2, <2>3, <2>4 DEF Pairs
<1>9. QED BY <1>2, <1>3, <1>7, <1>8

\* For any number of workers, any input and any map: while the groups are reduced
\* there is one for each key, in the order of the keys, with each pair of the key
\* once, after sort_stage, merge_vectors and the loop of shuffle_stage.
THEOREM ShuffledExactly ==
  ASSUME SpuriousWakeups = FALSE PROVE MapReduceSpec => []GroupsExact
<1>1. PhaseInv /\ MapInv /\ [MapReduceNext]_vars => MapInv' BY MapNext, Zenon
<1>2. PhaseInv /\ MapInv /\ ShuffleInv /\ [MapReduceNext]_vars => ShuffleInv'
  BY ShuffleNext, Zenon
<1>3. QED
  BY MapInit, ShuffleInit, JobInPhase, GroupsAreExact, <1>1, <1>2, PTL DEF MapReduceSpec

-----------------------------------------------------------------------------
(* The reduce stage.                                                       *)

\* What the reductions of the groups emit: every result, once.
LEMMA ReduceWorkLemma ==
  ASSUME PhaseInv, MapInv, ShuffleInv, stage = REDUCE_STAGE
  PROVE  /\ Len(shuffled_vec) \in Nat
         /\ \A g \in 1 .. Len(shuffled_vec) :
              ReduceWork(shuffled_vec[g]) \in Seq(Outputs) /\ Distinct(ReduceWork(shuffled_vec[g]))
         /\ \A g, h \in 1 .. Len(shuffled_vec) : g # h =>
              ToSet(ReduceWork(shuffled_vec[g])) \intersect ToSet(ReduceWork(shuffled_vec[h])) = {}
         /\ \A o \in Outputs : \E g \in 1 .. Len(shuffled_vec) :
              o \in ToSet(ReduceWork(shuffled_vec[g]))
<1> DEFINE G == 1 .. Len(shuffled_vec)
           Key(g) == shuffled_vec[g][1].key
           W(g) == ReduceWork(shuffled_vec[g])
           R(k, n) == [key |-> k, of |-> {p \in Pairs : p.key = k}, n |-> n]
           E(k) == Emits(k)
<1>1. GroupsExact!2 BY GroupsAreExact DEF GroupsExact
<1>2. shuffled_vec \in Seq(Seq(Pairs)) /\ inputVec \in Inputs BY DEF ShuffleInv, MapInv
<1>3. Len(shuffled_vec) \in Nat /\ DOMAIN shuffled_vec = G BY <1>2, SeqElements
<1>4. /\ {Key(g) : g \in G} = KeysOf(inputVec)
      /\ \A g \in G : ToSet(shuffled_vec[g]) = {p \in Pairs : p.key = Key(g)}
      /\ \A g, h \in G : g < h => Key(g) < Key(h)
  BY <1>1, <1>3 DEF Pairs
<1>5. \A k \in KeysOf(inputVec) : E(k) \in Nat BY <1>2, EmitsAssumption
<1>6. \A k : k \in KeysOf(inputVec) => k \in Int
  BY PairsLemma DEF KeysOf, Keyed, Pairs, MapInv
<1>7. \A g, h \in G : Key(g) = Key(h) => g = h
  <2>1. \A g \in G : Key(g) \in Int BY <1>4, <1>6
  <2> HIDE DEF Key
  <2>2. ASSUME NEW g \in G, NEW h \in G, Key(g) = Key(h) PROVE g = h
    <3>1. g \in Nat /\ h \in Nat BY <1>3
    <3>2. ~ g < h /\ ~ h < g BY <2>1, <2>2, <1>4
    <3>3. QED BY <3>1, <3>2
  <2>3. QED BY <2>2
<1>8. \A o : o \in Outputs <=> \E k \in KeysOf(inputVec) : \E n \in 1 .. E(k) : o = R(k, n)
  BY DEF Outputs, OutputsOf, Pairs
<1>9. \A g \in G : W(g) = [n \in 1 .. E(Key(g)) |-> R(Key(g), n)]
  BY <1>4 DEF ReduceWork
<1>10. \A k, n, l, m : R(k, n) = R(l, m) => k = l /\ n = m OBVIOUS
<1> HIDE DEF R, Key, E, W
<1>11. ASSUME NEW g \in G
       PROVE  /\ W(g) \in Seq(Outputs) /\ Distinct(W(g))
              /\ \A o : o \in ToSet(W(g)) <=> \E n \in 1 .. E(Key(g)) : o = R(Key(g), n)
  <2> DEFINE k == Key(g)
             w == W(g)
             e == E(k)
  <2>1. k \in KeysOf(inputVec) /\ e \in Nat BY <1>4, <1>5
  <2>2. w = [n \in 1 .. e |-> R(k, n)] BY <1>9
  <2>3. \A n \in 1 .. e : R(k, n) \in Outputs BY <2>1, <1>8
  <2> HIDE DEF w, e
  <2>4. w \in Seq(Outputs) /\ Len(w) = e
    <3>1. w \in [1 .. e -> Outputs] BY <2>2, <2>3
    <3>2. QED BY <2>1, <3>1
  <2>5. Distinct(w)
    <3>1. ASSUME NEW i \in 1 .. e, NEW j \in 1 .. e, w[i] = w[j] PROVE i = j
      <4>1. R(k, i) = R(k, j) BY <2>2, <3>1
      <4>2. QED BY <4>1, <1>10
    <3>2. QED BY <2>4, <3>1 DEF Distinct
  <2>6. \A o : o \in ToSet(w) <=> \E n \in 1 .. e : o = w[n] BY <2>4, SeqElements
  <2>7. \A o : o \in ToSet(w) <=> \E n \in 1 .. e : o = R(k, n) BY <2>2, <2>6
  <2>8. QED BY <2>4, <2>5, <2>7 DEF w, e
<1>12. \A g, h \in G : g # h => ToSet(W(g)) \intersect ToSet(W(h)) = {}
  BY <1>7, <1>10, <1>11
<1>13. ASSUME NEW o \in Outputs PROVE \E g \in G : o \in ToSet(W(g))
  <2>1. PICK k \in KeysOf(inputVec) : \E n \in 1 .. E(k) : o = R(k, n) BY <1>8
  <2>2. PICK g \in G : k = Key(g) BY <1>4
  <2>3. QED BY <2>1, <2>2, <1>11
<1>14. QED BY <1>3, <1>11, <1>12, <1>13 DEF W

LEMMA ReduceInit == MapReduceInit => ReduceInv
<1> SUFFICES ASSUME MapReduceInit PROVE ReduceInv
  OBVIOUS
<1>1. /\ outputVec = <<>> /\ atomic_red_counter = 0 /\ atomic_emit3_counter = 0
      /\ \A t \in Thread : pc[t] = "unborn"
  BY DEF MapReduceInit
<1>2. \A t \in Thread : ReduceWorkOf(t) = {} BY <1>1 DEF ReduceWorkOf
<1>3. outputVec \in Seq(Outputs) /\ Distinct(outputVec) /\ ToSet(outputVec) = {}
  BY <1>1, EmptySeqElements
<1>4. \A g \in 1 .. Len(shuffled_vec) : ~ g <= 0 OBVIOUS
<1>5. Len(outputVec) = atomic_emit3_counter BY <1>1
<1>6. QED BY <1>1, <1>2, <1>3, <1>4, <1>5 DEF ReduceInv

\* Before the stage is REDUCE_STAGE nothing is reduced, whatever happens to the groups.
LEMMA ReduceIdle ==
  ASSUME PhaseInv', ReduceInv, stage # REDUCE_STAGE, stage' # REDUCE_STAGE,
         UNCHANGED <<outputVec, atomic_red_counter, atomic_emit3_counter>>
  PROVE  ReduceInv'
<1>1. /\ outputVec' = <<>> /\ atomic_red_counter' = 0 /\ atomic_emit3_counter' = 0
  BY DEF ReduceInv
<1>2. \A t \in Thread : pc'[t] \notin {"reduce", "counting", "done"}
  BY DEF PhaseInv, StageInv, Reducing
<1>3. \A t \in Thread : ReduceWorkOf(t)' = {} BY <1>2 DEF ReduceWorkOf
<1>4. outputVec' \in Seq(Outputs') /\ Distinct(outputVec') /\ ToSet(outputVec') = {}
  BY <1>1, EmptySeqElements
<1>5. \A g \in 1 .. Len(shuffled_vec)' : ~ g <= 0 OBVIOUS
<1>6. Len(outputVec') = atomic_emit3_counter' BY <1>1
<1>7. QED BY <1>1, <1>2, <1>3, <1>4, <1>5, <1>6 DEF ReduceInv

\* The steps that change no result: a worker at most begins to reduce.
LEMMA ReduceQuiet ==
  ASSUME ReduceInv, UNCHANGED <<inputVec, shuffled_vec, work>>,
         UNCHANGED <<outputVec, atomic_red_counter, atomic_emit3_counter>>,
         \A t \in Thread :
           \/ pc'[t] = pc[t]
           \/ pc[t] = "set_reduce" /\ pc'[t] = "reduce" /\ work[t] = <<>>
           \/ {pc[t], pc'[t]} \intersect {"reduce", "counting", "done"} = {},
         stage' # REDUCE_STAGE => stage # REDUCE_STAGE
  PROVE  ReduceInv'
<1>1. Outputs' = Outputs BY DEF Outputs
<1>2. \A g : ReduceWork(shuffled_vec[g])' = ReduceWork(shuffled_vec[g]) OBVIOUS
<1>3. \A t \in Thread : ReduceWorkOf(t)' = ReduceWorkOf(t)
  BY EmptySeqElements DEF ReduceWorkOf
<1>4. ASSUME NEW t \in Thread, pc'[t] \in {"reduce", "counting"}
      PROVE  work'[t] \in Seq(Outputs) /\ Distinct(work'[t])
  <2>1. CASE pc'[t] = pc[t] BY <1>4, <2>1 DEF ReduceInv
  <2>2. CASE work[t] = <<>> BY <2>2, EmptySeqElements
  <2>3. QED BY <1>4, <2>1, <2>2
<1>5. \A t \in Thread : /\ pc'[t] = "done" => pc[t] = "done"
                        /\ pc'[t] = "counting" <=> pc[t] = "counting"
  OBVIOUS
<1>6. \A o \in Outputs :
        (\E g \in 1 .. Len(shuffled_vec') :
           g <= atomic_red_counter' /\ o \in ToSet(ReduceWork(shuffled_vec'[g])))
          <=> (o \in ToSet(outputVec') \/ \E t \in Thread : o \in ReduceWorkOf(t)')
  BY <1>3 DEF ReduceInv
<1>7. QED BY <1>1, <1>3, <1>4, <1>5, <1>6 DEF ReduceInv

\* A worker at its reduction: the groups are complete, and the stage is set.
LEMMA ReduceTime ==
  ASSUME PhaseInv, MapInv, ShuffleInv, NEW t \in Thread, pc[t] \in {"reduce", "counting", "done"}
  PROVE  /\ stage = REDUCE_STAGE /\ pc \in [Thread -> WorkerPlace]
         /\ Emitted = Pairs
<1>1. stage = REDUCE_STAGE /\ pc \in [Thread -> WorkerPlace]
  BY DEF PhaseInv, StageInv, Reducing
<1>2. QED BY <1>1, GroupsComplete

LEMMA ClaimGroupStep ==
  ASSUME PhaseInv, MapInv, ShuffleInv, ReduceInv, NEW t \in Thread, ClaimGroup(t)
  PROVE  ReduceInv'
<1> DEFINE N == Len(shuffled_vec)
           c == atomic_red_counter
           RW(g) == ToSet(ReduceWork(shuffled_vec[g]))
<1>1. /\ pc[t] = "reduce" /\ work[t] = <<>> /\ atomic_red_counter' = c + 1
      /\ UNCHANGED <<stage, inputVec, shuffled_vec, outputVec, atomic_emit3_counter>>
      /\ stage = REDUCE_STAGE /\ pc \in [Thread -> WorkerPlace]
      /\ work = [u \in Thread |-> work[u]]
  BY ReduceTime DEF ClaimGroup, dataVars, MapInv
<1>2. Outputs' = Outputs /\ \A g : ReduceWork(shuffled_vec[g])' = ReduceWork(shuffled_vec[g])
  BY <1>1 DEF Outputs
<1>3. /\ N \in Nat /\ \A g \in 1 .. N : /\ ReduceWork(shuffled_vec[g]) \in Seq(Outputs)
                                        /\ Distinct(ReduceWork(shuffled_vec[g]))
      /\ \A g, h \in 1 .. N : g # h => RW(g) \intersect RW(h) = {}
  BY <1>1, ReduceWorkLemma
<1>4. c \in Nat /\ ReduceWorkOf(t) = {} BY <1>1, EmptySeqElements DEF ReduceInv, ReduceWorkOf
<1>5. \A o \in Outputs : (\E g \in 1 .. N : g <= c /\ o \in RW(g))
        <=> (o \in ToSet(outputVec) \/ \E u \in Thread : o \in ReduceWorkOf(u))
  BY DEF ReduceInv
<1>6. \A u \in Thread : ReduceWorkOf(u) \subseteq Outputs /\ ToSet(outputVec) \subseteq Outputs
  BY SeqElements, EmptySeqElements DEF ReduceWorkOf, ReduceInv
<1>7. CASE c < N
  <2> DEFINE w == ReduceWork(shuffled_vec[c + 1])
  <2>1. work' = [work EXCEPT ![t] = w] /\ pc' = pc BY <1>7 DEF ClaimGroup
  <2>2. c + 1 \in 1 .. N BY <1>3, <1>4, <1>7
  <2>3. w \in Seq(Outputs) /\ Distinct(w) /\ ToSet(w) = RW(c + 1) BY <1>3, <2>2
  <2>4. ToSet(w) \subseteq Outputs BY <2>3, SeqElements
  <2> HIDE DEF w, RW
  <2>5. work'[t] = w /\ \A u \in Thread \ {t} : work'[u] = work[u] BY <2>1, <1>1
  <2>6. /\ ReduceWorkOf(t)' = RW(c + 1)
        /\ \A u \in Thread \ {t} : ReduceWorkOf(u)' = ReduceWorkOf(u)
    BY <1>1, <2>1, <2>3, <2>5 DEF ReduceWorkOf
  <2>7. ASSUME NEW o \in RW(c + 1)
        PROVE  o \notin ToSet(outputVec) /\ \A u \in Thread : o \notin ReduceWorkOf(u)
    <3>1. \A g \in 1 .. N : g <= c => g # c + 1 BY <1>4
    <3>2. ~ \E g \in 1 .. N : g <= c /\ o \in RW(g) BY <3>1, <2>2, <1>3
    <3>3. o \in Outputs BY <2>3, <2>4
    <3>4. QED BY <3>2, <3>3, <1>5
  <2>8. ASSUME NEW o \in Outputs
        PROVE  (\E g \in 1 .. N : g <= c + 1 /\ o \in RW(g))
                 <=> (o \in ToSet(outputVec) \/ \E u \in Thread : o \in ReduceWorkOf(u)')
    <3>1. \A g \in 1 .. N : g <= c + 1 <=> g <= c \/ g = c + 1 BY <1>4
    <3>2. (\E g \in 1 .. N : g <= c + 1 /\ o \in RW(g))
            <=> o \in RW(c + 1) \/ \E g \in 1 .. N : g <= c /\ o \in RW(g)
      BY <3>1, <2>2
    <3>3. (\E u \in Thread : o \in ReduceWorkOf(u)')
            <=> o \in RW(c + 1) \/ \E u \in Thread : o \in ReduceWorkOf(u)
      BY <1>4, <2>6
    <3>4. QED BY <3>2, <3>3, <1>5
  <2>9. /\ \A u, v \in Thread : u # v => ReduceWorkOf(u)' \intersect ReduceWorkOf(v)' = {}
        /\ \A u \in Thread : ReduceWorkOf(u)' \intersect ToSet(outputVec) = {}
    BY <2>6, <2>7 DEF ReduceInv
  <2>10. \A u \in Thread : /\ pc'[u] \in {"reduce", "counting"} =>
                                work'[u] \in Seq(Outputs) /\ Distinct(work'[u])
    BY <2>1, <2>3, <2>5 DEF ReduceInv
  <2>11. \A u \in Thread : pc'[u] # "done"
    <3>1. \A u \in Thread : pc[u] = "done" => N <= c BY DEF ReduceInv
    <3>2. ~ N <= c BY <1>3, <1>4, <1>7
    <3>3. QED BY <3>1, <3>2, <2>1
  <2>12. c + 1 \in Nat BY <1>4
  <2>13. QED
    BY <1>1, <1>2, <2>1, <2>8, <2>9, <2>10, <2>11, <2>12 DEF ReduceInv, RW
<1>8. CASE ~ c < N
  <2>1. work' = work /\ pc' = [pc EXCEPT ![t] = "done"] BY <1>8 DEF ClaimGroup, Go
  <2>2. pc'[t] = "done" /\ \A u \in Thread \ {t} : pc'[u] = pc[u] BY <1>1, <2>1
  <2>3. \A u \in Thread : ReduceWorkOf(u)' = ReduceWorkOf(u)
    BY <1>4, <2>1, <2>2 DEF ReduceWorkOf
  <2>4. c + 1 \in Nat /\ N <= c + 1 BY <1>3, <1>4, <1>8
  <2>5. \A g \in 1 .. N : g <= c /\ g <= c + 1 BY <1>3, <1>4, <1>8
  <2>6. \A o \in Outputs :
          (\E g \in 1 .. N : g <= c + 1 /\ o \in RW(g))
            <=> (o \in ToSet(outputVec) \/ \E u \in Thread : o \in ReduceWorkOf(u)')
    BY <1>5, <2>3, <2>5
  <2>7. \A u \in Thread : /\ pc'[u] \in {"reduce", "counting"} => pc'[u] = pc[u]
                          /\ pc'[u] = "counting" <=> pc[u] = "counting"
    BY <1>1, <2>2
  <2> HIDE DEF RW
  <2>8. \A u \in Thread : /\ pc'[u] \in {"reduce", "counting"} =>
                               work'[u] \in Seq(Outputs) /\ Distinct(work'[u])
    BY <2>1, <2>7 DEF ReduceInv
  <2>9. /\ \A u, v \in Thread : u # v => ReduceWorkOf(u)' \intersect ReduceWorkOf(v)' = {}
        /\ \A u \in Thread : ReduceWorkOf(u)' \intersect ToSet(outputVec) = {}
    BY <2>3 DEF ReduceInv
  <2>10. /\ \A u, v \in Thread : pc'[u] = "counting" /\ pc'[v] = "counting" => u = v
         /\ (\E u \in Thread : pc'[u] = "counting") => Len(outputVec) = atomic_emit3_counter + 1
         /\ (\A u \in Thread : pc'[u] # "counting") => Len(outputVec) = atomic_emit3_counter
    BY <2>7 DEF ReduceInv
  <2>11. /\ outputVec \in Seq(Outputs) /\ Distinct(outputVec) /\ atomic_emit3_counter \in Nat
         /\ atomic_red_counter' \in Nat /\ N <= atomic_red_counter'
    BY <1>1, <2>4 DEF ReduceInv
  <2>12. \A q \in Outputs :
           (\E g \in 1 .. N : g <= atomic_red_counter' /\ q \in ToSet(ReduceWork(shuffled_vec[g])))
             <=> (q \in ToSet(outputVec) \/ \E u \in Thread : q \in ReduceWorkOf(u)')
    BY <1>1, <2>6 DEF RW
  <2>13. QED
    BY <1>1, <1>2, <2>8, <2>9, <2>10, <2>11, <2>12 DEF ReduceInv
<1>9. QED BY <1>7, <1>8

\* The result is new, and its worker is the only one that has not counted.
LEMMA Emit3PushStep ==
  ASSUME PhaseInv, MapInv, ShuffleInv, ReduceInv, NEW t \in Thread, Emit3Push(t)
  PROVE  /\ ReduceInv'
         /\ \E o \in Outputs \ ToSet(outputVec) : outputVec' = Append(outputVec, o)
<1> DEFINE w == work[t]
           o == Head(w)
<1>1. /\ pc[t] = "reduce" /\ w # <<>> /\ \A u \in Thread : pc[u] # "counting"
      /\ outputVec' = Append(outputVec, o) /\ work' = [work EXCEPT ![t] = Tail(@)]
      /\ pc' = [pc EXCEPT ![t] = "counting"]
      /\ UNCHANGED <<stage, inputVec, shuffled_vec, atomic_red_counter, atomic_emit3_counter>>
      /\ stage = REDUCE_STAGE /\ pc \in [Thread -> WorkerPlace]
      /\ work = [u \in Thread |-> work[u]]
  BY ReduceTime DEF Emit3Push, Go, counters, MapInv
<1>2. Outputs' = Outputs /\ \A g : ReduceWork(shuffled_vec[g])' = ReduceWork(shuffled_vec[g])
  BY <1>1 DEF Outputs
<1>3. w \in Seq(Outputs) /\ Distinct(w) BY <1>1 DEF ReduceInv
<1> HIDE DEF w
<1>4. /\ o \in Outputs /\ Tail(w) \in Seq(Outputs) /\ ToSet(w) = {o} \union ToSet(Tail(w))
      /\ Distinct(Tail(w)) /\ o \notin ToSet(Tail(w))
  BY <1>1, <1>3, TailElements
<1> HIDE DEF o
<1>5. /\ work'[t] = Tail(w) /\ \A u \in Thread \ {t} : work'[u] = work[u]
      /\ pc'[t] = "counting" /\ \A u \in Thread \ {t} : pc'[u] = pc[u]
  BY <1>1 DEF w
<1>6. /\ ReduceWorkOf(t) = ToSet(w) /\ ReduceWorkOf(t)' = ToSet(Tail(w))
      /\ \A u \in Thread \ {t} : ReduceWorkOf(u)' = ReduceWorkOf(u)
  BY <1>1, <1>5 DEF ReduceWorkOf, w
<1>7. o \notin ToSet(outputVec) BY <1>4, <1>6 DEF ReduceInv
<1>8. /\ outputVec \in Seq(Outputs) /\ Distinct(outputVec) /\ atomic_emit3_counter \in Nat
      /\ Len(outputVec) = atomic_emit3_counter
  BY <1>1 DEF ReduceInv
<1>9. /\ outputVec' \in Seq(Outputs) /\ Distinct(outputVec')
      /\ ToSet(outputVec') = ToSet(outputVec) \union {o}
      /\ Len(outputVec') = atomic_emit3_counter + 1
  BY <1>1, <1>4, <1>7, <1>8, AppendElements
<1>10. \A u \in Thread : ReduceWorkOf(u)' \subseteq ReduceWorkOf(u) BY <1>4, <1>6
<1>11. \A u, v \in Thread : u # v => ReduceWorkOf(u)' \intersect ReduceWorkOf(v)' = {}
  <2>1. \A u, v \in Thread : u # v => ReduceWorkOf(u) \intersect ReduceWorkOf(v) = {}
    BY DEF ReduceInv
  <2>2. QED BY <2>1, <1>10
<1>12. \A u \in Thread : ReduceWorkOf(u)' \intersect ToSet(outputVec') = {}
  <2>1. \A u \in Thread : ReduceWorkOf(u) \intersect ToSet(outputVec) = {} BY DEF ReduceInv
  <2>2. \A u \in Thread \ {t} : o \notin ReduceWorkOf(u) BY <1>4, <1>6 DEF ReduceInv
  <2>3. \A u \in Thread : o \notin ReduceWorkOf(u)' BY <2>2, <1>4, <1>6
  <2>4. QED BY <2>1, <2>3, <1>9, <1>10
<1>13. ASSUME NEW q \in Outputs
       PROVE  (\E g \in 1 .. Len(shuffled_vec) :
                 g <= atomic_red_counter /\ q \in ToSet(ReduceWork(shuffled_vec[g])))
                <=> (q \in ToSet(outputVec') \/ \E u \in Thread : q \in ReduceWorkOf(u)')
  <2>1. (q \in ToSet(outputVec) \/ \E u \in Thread : q \in ReduceWorkOf(u))
          <=> (q \in ToSet(outputVec') \/ \E u \in Thread : q \in ReduceWorkOf(u)')
    BY <1>4, <1>6, <1>9
  <2>2. QED BY <2>1 DEF ReduceInv
<1>14. \A u \in Thread : /\ pc'[u] \in {"reduce", "counting"} =>
                              work'[u] \in Seq(Outputs) /\ Distinct(work'[u])
                         /\ pc'[u] = "done" => pc[u] = "done"
                         /\ pc'[u] = "counting" <=> u = t
  BY <1>1, <1>4, <1>5 DEF ReduceInv
<1>15. ReduceInv'
  BY <1>1, <1>2, <1>9, <1>11, <1>12, <1>13, <1>14 DEF ReduceInv
<1>16. QED BY <1>1, <1>4, <1>7, <1>15

LEMMA Emit3CountStep ==
  ASSUME PhaseInv, MapInv, ShuffleInv, ReduceInv, NEW t \in Thread, Emit3Count(t)
  PROVE  ReduceInv'
<1>1. /\ pc[t] = "counting" /\ atomic_emit3_counter' = atomic_emit3_counter + 1
      /\ pc' = [pc EXCEPT ![t] = "reduce"]
      /\ UNCHANGED <<stage, inputVec, shuffled_vec, outputVec, atomic_red_counter, work>>
      /\ stage = REDUCE_STAGE /\ pc \in [Thread -> WorkerPlace]
  BY ReduceTime DEF Emit3Count, Go, dataVars
<1>2. Outputs' = Outputs /\ \A g : ReduceWork(shuffled_vec[g])' = ReduceWork(shuffled_vec[g])
  BY <1>1 DEF Outputs
<1>3. pc'[t] = "reduce" /\ \A u \in Thread \ {t} : pc'[u] = pc[u] BY <1>1
<1>4. \A u \in Thread : ReduceWorkOf(u)' = ReduceWorkOf(u)
  BY <1>1, <1>3 DEF ReduceWorkOf
<1>5. \A u \in Thread : pc'[u] # "counting" BY <1>1, <1>3 DEF ReduceInv
<1>6. Len(outputVec) = atomic_emit3_counter' /\ atomic_emit3_counter' \in Nat
  BY <1>1 DEF ReduceInv
<1>7. \A u \in Thread : /\ pc'[u] \in {"reduce", "counting"} =>
                             pc[u] \in {"reduce", "counting"}
                        /\ pc'[u] = "done" => pc[u] = "done"
  BY <1>1, <1>3
<1>8. QED BY <1>1, <1>2, <1>4, <1>5, <1>6, <1>7 DEF ReduceInv

LEMMA ReduceNext ==
  ASSUME SpuriousWakeups = FALSE, PhaseInv, MapInv, ShuffleInv, ReduceInv, [MapReduceNext]_vars
  PROVE  ReduceInv'
<1>1. inputVec' = inputVec BY MapNext, Zenon
<1>2. PhaseInv' /\ stage' \in {stage, stage + 1} /\ stage \in 0 .. 3
  BY NextPhase DEF PhaseInv, StageInv, UNDEFINED_STAGE, REDUCE_STAGE
<1>3. ASSUME NEW t \in Thread, Create(t) \/ Worker(t) PROVE ReduceInv'
  <2>1. Turn(t) = Turn(0) /\ pc \in [Thread -> WorkerPlace] /\ StageInv
    BY ZeroIsAThread, InStep DEF PhaseInv
  <2>2. CASE Create(t) \/ SetMap(t) \/ ClaimInput(t) \/ Emit2(t) \/ Sort(t)
    <3>1. /\ pc[t] \in Mapping
          /\ UNCHANGED <<outputVec, atomic_red_counter, atomic_emit3_counter>>
      BY <2>2 DEF Create, SetMap, ClaimInput, Emit2, Sort, Mapping, dataVars, counters
    <3>2. Turn(0) = 0 BY <2>1, <3>1, InStep
    <3>3. stage <= 1 BY <2>1, <3>2 DEF StageInv, MAP_STAGE
    <3>4. stage # REDUCE_STAGE /\ stage' # REDUCE_STAGE BY <1>2, <3>3 DEF REDUCE_STAGE
    <3>5. QED BY <3>1, <3>4, <1>2, ReduceIdle
  <2>3. CASE SetShuffle(t) \/ MergeAll(t) \/ Shuffle(t) \/ EndShuffle(t)
    <3>1. /\ pc[t] \in Shuffling /\ stage' \in {stage, 2}
          /\ UNCHANGED <<outputVec, atomic_red_counter, atomic_emit3_counter>>
      BY <2>3
      DEF SetShuffle, MergeAll, Shuffle, EndShuffle, Shuffling, SHUFFLE_STAGE, dataVars, counters
    <3>2. Turn(0) = 1 BY <2>1, <3>1, InStep
    <3>3. stage \in {1, 2} BY <2>1, <3>2 DEF StageInv, MAP_STAGE, SHUFFLE_STAGE
    <3>4. stage # REDUCE_STAGE /\ stage' # REDUCE_STAGE BY <3>1, <3>3 DEF REDUCE_STAGE
    <3>5. QED BY <3>1, <3>4, <1>2, ReduceIdle
  <2>4. CASE BarrierStep(t)
    <3>1. /\ pc[t] = "barrier" /\ Go(t, IF round'[t] # round[t] THEN AfterBarrier(t) ELSE "barrier")
          /\ UNCHANGED <<inputVec, shuffled_vec, work, stage>>
          /\ UNCHANGED <<outputVec, atomic_red_counter, atomic_emit3_counter>>
      BY <2>4 DEF BarrierStep, dataVars, counters
    <3>2. pc'[t] \in {"barrier", "set_shuffle", "set_reduce"} BY <2>1, <3>1 DEF Go, AfterBarrier
    <3>3. \A u \in Thread \ {t} : pc'[u] = pc[u] BY <2>1, <3>1 DEF Go
    <3>4. \A u \in Thread : \/ pc'[u] = pc[u]
                            \/ {pc[u], pc'[u]} \intersect {"reduce", "counting", "done"} = {}
      BY <3>1, <3>2, <3>3
    <3>5. QED BY <3>1, <3>4, ReduceQuiet
  <2>5. CASE SetReduce(t)
    <3>1. /\ pc[t] = "set_reduce" /\ Go(t, "reduce") /\ stage' = REDUCE_STAGE
          /\ UNCHANGED <<inputVec, shuffled_vec, work>>
          /\ UNCHANGED <<outputVec, atomic_red_counter, atomic_emit3_counter>>
      BY <2>5 DEF SetReduce, dataVars, counters
    <3>2. work[t] = <<>> BY <3>1 DEF MapInv
    <3>3. pc'[t] = "reduce" /\ \A u \in Thread \ {t} : pc'[u] = pc[u] BY <2>1, <3>1 DEF Go
    <3>4. \A u \in Thread : \/ pc'[u] = pc[u]
                            \/ pc[u] = "set_reduce" /\ pc'[u] = "reduce" /\ work[u] = <<>>
      BY <3>1, <3>2, <3>3
    <3>5. QED BY <3>1, <3>4, ReduceQuiet
  <2>6. CASE ClaimGroup(t) BY <2>6, ClaimGroupStep
  <2>7. CASE Emit3Push(t) BY <2>7, Emit3PushStep
  <2>8. CASE Emit3Count(t) BY <2>8, Emit3CountStep
  <2>9. QED BY <1>3, <2>2, <2>3, <2>4, <2>5, <2>6, <2>7, <2>8 DEF Worker
<1>4. ASSUME UNCHANGED <<barrierVars, pc, work, stage, inputVec, dataVars, counters>>
      PROVE  ReduceInv'
  BY <1>4, ReduceQuiet DEF dataVars, counters
<1>5. QED BY <1>3, <1>4, ClientFrame DEF MapReduceNext, Over, vars

\* When every worker has ended, the output is complete, and all of it is counted.
LEMMA OutputComplete ==
  ASSUME PhaseInv, MapInv, ShuffleInv, ReduceInv, \A t \in Thread : pc[t] = "done"
  PROVE  ToSet(outputVec) = Outputs /\ Len(outputVec) = atomic_emit3_counter
<1>1. 0 \in Thread BY ZeroIsAThread
<1>2. stage = REDUCE_STAGE BY <1>1, ReduceTime
<1>3. /\ Len(shuffled_vec) \in Nat
      /\ \A o \in Outputs : \E g \in 1 .. Len(shuffled_vec) :
           o \in ToSet(ReduceWork(shuffled_vec[g]))
  BY <1>2, ReduceWorkLemma
<1>4. Len(shuffled_vec) <= atomic_red_counter /\ atomic_red_counter \in Nat
  BY <1>1 DEF ReduceInv
<1>5. \A g \in 1 .. Len(shuffled_vec) : g <= atomic_red_counter BY <1>3, <1>4
<1>6. \A t \in Thread : ReduceWorkOf(t) = {} BY DEF ReduceWorkOf
<1>7. ASSUME NEW o \in Outputs PROVE o \in ToSet(outputVec)
  BY <1>3, <1>5, <1>6 DEF ReduceInv
<1>8. outputVec \in Seq(Outputs) /\ Len(outputVec) = atomic_emit3_counter BY DEF ReduceInv
<1>9. ToSet(outputVec) \subseteq Outputs BY <1>8, SeqElements
<1>10. QED BY <1>7, <1>8, <1>9

\* The data of a job, from the input to the output, for any number of workers.
THEOREM JobData ==
  ASSUME SpuriousWakeups = FALSE PROVE MapReduceSpec => []DataInv
<1>1. MapReduceInit => DataInv BY PhaseInit, MapInit, ShuffleInit, ReduceInit DEF DataInv
<1>2. DataInv /\ [MapReduceNext]_vars => DataInv'
  <2> SUFFICES ASSUME PhaseInv, MapInv, ShuffleInv, ReduceInv, [MapReduceNext]_vars
               PROVE  DataInv'
    BY DEF DataInv
  <2>1. PhaseInv' BY NextPhase, Zenon
  <2>2. MapInv' BY MapNext, Zenon
  <2>3. ShuffleInv' BY ShuffleNext, Zenon
  <2>4. ReduceInv' BY ReduceNext, Zenon
  <2>5. QED BY <2>1, <2>2, <2>3, <2>4 DEF DataInv
<1>3. QED BY <1>1, <1>2, PTL DEF MapReduceSpec

\* The types of a job's data: no vector holds anything but pairs of the input, and
\* no output anything but a result of the whole group of a key.
THEOREM MapReduceTypes ==
  ASSUME SpuriousWakeups = FALSE PROVE MapReduceSpec => []MapReduceTypeOK
<1>1. DataInv /\ JoinInv => MapReduceTypeOK
  <2> SUFFICES ASSUME PhaseInv, MapInv, ShuffleInv, ReduceInv, JoinInv PROVE MapReduceTypeOK
    BY DEF DataInv
  <2> DEFINE All == UNION {PairsOf(in) : in \in Inputs}
             P == Pairs
  <2>1. P \subseteq All /\ PairSeqs = Seq(All) BY DEF Pairs, MapInv, PairSeqs
  <2> HIDE DEF All, P
  <2>2. Seq(P) \subseteq PairSeqs BY <2>1
  <2>3. Seq(Seq(P)) \subseteq Seq(PairSeqs) BY <2>2
  <2>4. /\ threads_vec \in [Thread -> PairSeqs] /\ to_shuffle \in PairSeqs
        /\ shuffled_vec \in Seq(PairSeqs)
    BY <2>2, <2>3 DEF P, MapInv, ShuffleInv
  <2>5. ToSet(outputVec) \subseteq OutputsOf(inputVec)
    BY SeqElements DEF ReduceInv, Outputs
  <2>6. atomic_pairs_counter \in Nat BY FS_CardinalityType DEF MapInv
  <2>7. {atomic_map_counter, atomic_red_counter, atomic_shuffle_counter,
         atomic_emit3_counter, atomic_pairs_counter} \subseteq Nat
    BY <2>6 DEF MapInv, ShuffleInv, ReduceInv
  <2>8. BarrierTypeOK /\ pc \in [Thread -> WorkerPlace] /\ stage \in UNDEFINED_STAGE .. REDUCE_STAGE
    BY DEF PhaseInv, BarrierInv, StageInv
  <2>9. cl \in [Client -> {"away", "reading", "waiting", "joining", "closing"}] /\ joined \in 0 .. numThreads
    BY DEF JoinInv
  <2>10. QED BY <2>4, <2>5, <2>7, <2>8, <2>9 DEF MapReduceTypeOK
<1>2. QED BY JobData, JoinInit, NextJoin, <1>1, PTL DEF MapReduceSpec

-----------------------------------------------------------------------------
(* What callers are told.                                                  *)

LEMMA ReportInit == MapReduceInit => ReportInv
<1> SUFFICES ASSUME MapReduceInit PROVE ReportInv
  OBVIOUS
<1>1. /\ seen = [c \in Client |-> 0] /\ stage = 0
      /\ report = [c \in Client |-> [stage |-> 0, percentage |-> [part |-> 0, whole |-> 1]]]
  BY DEF MapReduceInit, UNDEFINED_STAGE
<1>2. ASSUME NEW c \in Client
      PROVE  report[c].stage <= seen[c] /\ seen[c] <= stage /\ Told(report[c])
  BY <1>1 DEF Told, MAP_STAGE, SHUFFLE_STAGE, REDUCE_STAGE
<1>3. QED BY <1>1, <1>2 DEF ReportInv, UNDEFINED_STAGE, REDUCE_STAGE

\* The counters only grow, and what they are compared with stays, once reported.
LEMMA CountersGrow ==
  ASSUME SpuriousWakeups = FALSE, PhaseInv, MapInv, ShuffleInv, ReduceInv, [MapReduceNext]_vars
  PROVE  /\ inputVec' = inputVec
         /\ stage \in 0 .. 3 /\ stage' \in {stage, stage + 1}
         /\ atomic_map_counter \in Nat /\ atomic_map_counter' \in {atomic_map_counter, atomic_map_counter + 1}
         /\ atomic_shuffle_counter \in Nat
         /\ atomic_shuffle_counter' \in {atomic_shuffle_counter, atomic_shuffle_counter + 1}
         /\ atomic_emit3_counter \in Nat
         /\ atomic_emit3_counter' \in {atomic_emit3_counter, atomic_emit3_counter + 1}
         /\ stage = REDUCE_STAGE => shuffled_vec' = shuffled_vec
<1>1. inputVec' = inputVec BY MapNext, Zenon
<1>2. stage \in 0 .. 3 /\ stage' \in {stage, stage + 1}
  BY NextPhase DEF PhaseInv, StageInv, UNDEFINED_STAGE, REDUCE_STAGE
<1>3. atomic_map_counter \in Nat /\ atomic_shuffle_counter \in Nat /\ atomic_emit3_counter \in Nat
  BY DEF MapInv, ShuffleInv, ReduceInv
<1> DEFINE Grows ==
             /\ atomic_map_counter' \in {atomic_map_counter, atomic_map_counter + 1}
             /\ atomic_shuffle_counter' \in {atomic_shuffle_counter, atomic_shuffle_counter + 1}
             /\ atomic_emit3_counter' \in {atomic_emit3_counter, atomic_emit3_counter + 1}
             /\ stage = REDUCE_STAGE => shuffled_vec' = shuffled_vec
<1>4. ASSUME NEW t \in Thread, Create(t) \/ Worker(t) PROVE Grows
  <2>1. CASE Create(t) \/ SetMap(t) \/ ClaimInput(t) \/ Emit2(t) \/ Sort(t) \/ BarrierStep(t)
    BY <2>1 DEF Create, SetMap, ClaimInput, Emit2, Sort, BarrierStep, dataVars, counters
  <2>2. CASE SetShuffle(t) \/ MergeAll(t) \/ EndShuffle(t) \/ SetReduce(t)
    BY <2>2 DEF SetShuffle, MergeAll, EndShuffle, SetReduce, dataVars, counters
  <2>3. CASE Shuffle(t)
    <3>1. pc[t] \in Shuffling BY <2>3 DEF Shuffle, Shuffling
    <3>2. t = 0 /\ pc[t] = "shuffle" BY <3>1, <2>3, MergeTime DEF Shuffle
    <3>3. stage # REDUCE_STAGE BY <3>2, GroupsComplete
    <3>4. QED BY <2>3, <3>3 DEF Shuffle
  <2>4. CASE ClaimGroup(t) \/ Emit3Push(t) \/ Emit3Count(t)
    BY <2>4 DEF ClaimGroup, Emit3Push, Emit3Count, dataVars, counters
  <2>5. QED BY <1>4, <2>1, <2>2, <2>3, <2>4 DEF Worker
<1>5. ASSUME UNCHANGED <<barrierVars, pc, work, stage, inputVec, dataVars, counters>> PROVE Grows
  BY <1>5 DEF dataVars, counters
<1>6. Grows BY <1>4, <1>5, ClientFrame DEF MapReduceNext, Over, vars
<1>7. QED BY <1>1, <1>2, <1>3, <1>6

\* What was told stays true while the counters grow.
LEMMA ToldStays ==
  ASSUME SpuriousWakeups = FALSE, PhaseInv, MapInv, ShuffleInv, ReduceInv, [MapReduceNext]_vars,
         NEW r, r.stage \in 0 .. 3, r.stage <= stage, Told(r)
  PROVE  Told(r)' /\ r.stage <= stage'
<1> DEFINE part == r.percentage.part
           whole == r.percentage.whole
<1>1. /\ inputVec' = inputVec /\ Pairs' = Pairs
      /\ stage \in 0 .. 3 /\ stage' \in {stage, stage + 1}
      /\ atomic_map_counter \in Nat /\ atomic_map_counter' \in {atomic_map_counter, atomic_map_counter + 1}
      /\ atomic_shuffle_counter \in Nat
      /\ atomic_shuffle_counter' \in {atomic_shuffle_counter, atomic_shuffle_counter + 1}
      /\ atomic_emit3_counter \in Nat
      /\ atomic_emit3_counter' \in {atomic_emit3_counter, atomic_emit3_counter + 1}
      /\ stage = 3 => shuffled_vec' = shuffled_vec
  BY CountersGrow DEF Pairs, REDUCE_STAGE
<1>2. Len(inputVec) \in Nat BY PairsLemma DEF MapInv
<1>3. /\ part \in Nat /\ whole \in Nat
      /\ r.stage = 1 => \/ /\ whole = Len(inputVec)
                           /\ part <= whole /\ part <= atomic_map_counter
                        \/ /\ part = 1 /\ whole = 1
                           /\ Len(inputVec) < atomic_map_counter
      /\ r.stage = 2 => /\ whole = Cardinality(Pairs)
                        /\ part <= atomic_shuffle_counter
      /\ r.stage = 3 => /\ whole = Len(shuffled_vec)
                        /\ part <= atomic_emit3_counter
  BY DEF Told, MAP_STAGE, SHUFFLE_STAGE, REDUCE_STAGE
<1>4. r.stage = 3 => shuffled_vec' = shuffled_vec BY <1>1
<1>5. r.stage <= stage' BY <1>1
<1> HIDE DEF part, whole
<1>6. /\ part <= atomic_map_counter => part <= atomic_map_counter'
      /\ Len(inputVec) < atomic_map_counter => Len(inputVec) < atomic_map_counter'
      /\ part <= atomic_shuffle_counter => part <= atomic_shuffle_counter'
      /\ part <= atomic_emit3_counter => part <= atomic_emit3_counter'
  BY <1>1, <1>2, <1>3
<1>7. Told(r)'
  BY <1>1, <1>3, <1>4, <1>6 DEF Told, MAP_STAGE, SHUFFLE_STAGE, REDUCE_STAGE, part, whole
<1>8. QED BY <1>5, <1>7

LEMMA TimesMonotone == ASSUME NEW x \in Nat, NEW y \in Nat, NEW z \in Nat, x <= y PROVE x * z <= y * z
OBVIOUS

\* What getJobState computes is true of the counters, and not less than what the
\* same caller was told before.
LEMMA ReadCountersTold ==
  ASSUME PhaseInv, MapInv, ShuffleInv, ReduceInv, ReportInv, NEW c \in Client, NEW new,
         new = [stage |-> seen[c], percentage |-> Percentage(c)]
  PROVE  /\ new \in [stage : UNDEFINED_STAGE .. REDUCE_STAGE, percentage : [part : Nat, whole : Nat]]
         /\ Told(new) /\ AtLeast(new, report[c])
<1> DEFINE old == report[c]
           p == old.percentage.part
           w == old.percentage.whole
           m == atomic_map_counter
           L == Len(inputVec)
<1>1. /\ seen[c] \in 0 .. 3 /\ old.stage \in 0 .. 3 /\ old.stage <= seen[c] /\ seen[c] <= stage
      /\ stage \in 0 .. 3 /\ Told(old) /\ p \in Nat /\ w \in Nat
      /\ old.percentage \in [part : Nat, whole : Nat]
  BY DEF ReportInv, PhaseInv, StageInv, UNDEFINED_STAGE, REDUCE_STAGE
<1>2. /\ m \in Nat /\ atomic_shuffle_counter \in Nat /\ atomic_emit3_counter \in Nat
      /\ atomic_pairs_counter = Cardinality(Emitted) /\ atomic_pairs_counter \in Nat
      /\ L \in Nat /\ Len(shuffled_vec) \in Nat
  <2>1. atomic_pairs_counter \in Nat BY FS_CardinalityType DEF MapInv
  <2>2. Len(shuffled_vec) \in Nat BY SeqElements DEF ShuffleInv
  <2>3. L \in Nat BY PairsLemma DEF MapInv
  <2>4. QED BY <2>1, <2>2, <2>3 DEF MapInv, ShuffleInv, ReduceInv
<1>3. new.stage = seen[c] /\ new.percentage = Percentage(c) OBVIOUS
<1>4. /\ old.stage = 1 => \/ w = L /\ p <= w /\ p <= m
                          \/ p = 1 /\ w = 1 /\ L < m
      /\ old.stage = 2 => w = Cardinality(Pairs) /\ p <= atomic_shuffle_counter
      /\ old.stage = 3 => w = Len(shuffled_vec) /\ p <= atomic_emit3_counter
  BY <1>1 DEF Told, MAP_STAGE, SHUFFLE_STAGE, REDUCE_STAGE
<1> HIDE DEF old, m, L
<1>5. old.stage # seen[c] => old.stage < seen[c] BY <1>1
<1> USE DEF UNDEFINED_STAGE, MAP_STAGE, SHUFFLE_STAGE, REDUCE_STAGE
<1>6. ASSUME NEW np \in Nat, NEW nw \in Nat, Percentage(c) = Fraction(np, nw),
             seen[c] = 1 => \/ nw = L /\ np <= nw /\ np <= m
                            \/ np = 1 /\ nw = 1 /\ L < m,
             seen[c] = 2 => nw = Cardinality(Pairs) /\ np <= atomic_shuffle_counter,
             seen[c] = 3 => nw = Len(shuffled_vec) /\ np <= atomic_emit3_counter,
             old.stage = seen[c] => np * w >= p * nw
      PROVE  /\ new \in [stage : 0 .. 3, percentage : [part : Nat, whole : Nat]]
             /\ Told(new) /\ AtLeast(new, old)
  <2>1. new.percentage.part = np /\ new.percentage.whole = nw BY <1>3, <1>6 DEF Fraction
  <2>2. Told(new) BY <1>3, <1>6, <2>1 DEF Told, m, L
  <2>3. AtLeast(new, old) BY <1>3, <1>5, <1>6, <2>1 DEF AtLeast
  <2>4. new.percentage \in [part : Nat, whole : Nat] BY <1>3, <1>6 DEF Fraction
  <2>5. QED BY <1>1, <1>3, <2>2, <2>3, <2>4
<1>7. CASE seen[c] = 0
  <2>1. Percentage(c) = old.percentage /\ old.stage = 0 BY <1>1, <1>7 DEF Percentage, old
  <2>2. old.percentage = Fraction(p, w) BY <1>1 DEF Fraction
  <2>3. p * w >= p * w BY <1>1
  <2>4. QED BY <1>1, <1>6, <1>7, <2>1, <2>2, <2>3 DEF old
<1>8. CASE seen[c] = 1 /\ m <= L
  <2>1. Percentage(c) = Fraction(m, L) BY <1>8 DEF Percentage, m, L
  <2>2. old.stage = 1 => w = L /\ p <= m BY <1>2, <1>4, <1>8
  <2>3. old.stage = 1 => m * w >= p * L BY <2>2, <1>1, <1>2, TimesMonotone
  <2>4. QED BY <1>1, <1>2, <1>6, <1>8, <2>1, <2>3 DEF old
<1>9. CASE seen[c] = 1 /\ ~ m <= L
  <2>1. Percentage(c) = Fraction(1, 1) BY <1>9 DEF Percentage, m, L
  <2>2. L < m BY <1>2, <1>9
  <2>3. old.stage = 1 => p <= w BY <1>4
  <2>4. old.stage = 1 => 1 * w >= p * 1 BY <2>3, <1>1
  <2>5. QED BY <1>1, <1>6, <1>9, <2>1, <2>2, <2>4 DEF old
<1>10. CASE seen[c] = 2
  <2>1. Percentage(c) = Fraction(atomic_shuffle_counter, atomic_pairs_counter)
    BY <1>10 DEF Percentage
  <2>2. atomic_pairs_counter = Cardinality(Pairs)
    <3>1. 0 \in Thread /\ StageInv BY ZeroIsAThread DEF PhaseInv
    <3>2. Turn(0) # 0 BY <3>1, <1>1, <1>10 DEF StageInv
    <3>3. \A t \in Thread : pc[t] \notin Mapping BY <3>2, InStep
    <3>4. QED BY <3>3, <1>2, AllMapped
  <2>3. old.stage = 2 => atomic_shuffle_counter * w >= p * atomic_pairs_counter
    BY <1>1, <1>2, <1>4, <2>2, TimesMonotone
  <2>4. QED BY <1>1, <1>2, <1>6, <1>10, <2>1, <2>2, <2>3 DEF old
<1>11. CASE seen[c] = 3
  <2>1. Percentage(c) = Fraction(atomic_emit3_counter, Len(shuffled_vec)) BY <1>11 DEF Percentage
  <2>2. old.stage = 3 => atomic_emit3_counter * w >= p * Len(shuffled_vec)
    BY <1>1, <1>2, <1>4, TimesMonotone
  <2>3. QED BY <1>1, <1>2, <1>6, <1>11, <2>1, <2>2 DEF old
<1>12. QED BY <1>1, <1>7, <1>8, <1>9, <1>10, <1>11 DEF old

LEMMA ReportNext ==
  ASSUME SpuriousWakeups = FALSE, PhaseInv, MapInv, ShuffleInv, ReduceInv, ReportInv,
         [MapReduceNext]_vars
  PROVE  ReportInv' /\ \A c \in Client : AtLeast(report'[c], report[c])
<1> DEFINE Report == [stage : UNDEFINED_STAGE .. REDUCE_STAGE, percentage : [part : Nat, whole : Nat]]
<1>1. /\ seen \in [Client -> UNDEFINED_STAGE .. REDUCE_STAGE] /\ report \in [Client -> Report]
      /\ \A d \in Client : /\ report[d].stage <= seen[d] /\ seen[d] <= stage
                           /\ Told(report[d])
  BY DEF ReportInv
<1>2. stage \in 0 .. 3 /\ stage' \in {stage, stage + 1} /\ stage' \in 0 .. 3
  <2>1. stage \in 0 .. 3 /\ stage' \in {stage, stage + 1} BY CountersGrow
  <2>2. PhaseInv' BY NextPhase, Zenon
  <2>3. QED BY <2>1, <2>2 DEF PhaseInv, StageInv, UNDEFINED_STAGE, REDUCE_STAGE
<1>3. ASSUME NEW d \in Client PROVE AtLeast(report[d], report[d])
  <2> DEFINE p == report[d].percentage.part
             w == report[d].percentage.whole
  <2>1. p \in Nat /\ w \in Nat BY <1>1
  <2>2. p * w >= p * w BY <2>1
  <2>3. QED BY <2>2 DEF AtLeast
<1>4. ASSUME NEW d \in Client, report'[d] = report[d]
      PROVE  Told(report[d])' /\ report[d].stage <= stage'
  <2>1. PICK r : r = report[d] OBVIOUS
  <2>2. Told(r) /\ r.stage \in 0 .. 3 /\ r.stage <= stage
    BY <2>1, <1>1, <1>2 DEF UNDEFINED_STAGE, REDUCE_STAGE
  <2>3. Told(r)' /\ r.stage <= stage' BY <2>2, ToldStays
  <2>4. r = report'[d] BY <2>1, <1>4
  <2>5. QED BY <2>1, <2>3, <2>4 DEF Told
<1>5. CASE UNCHANGED <<seen, report>>
  <2>1. \A d \in Client : seen[d] <= stage' BY <1>1, <1>2 DEF UNDEFINED_STAGE, REDUCE_STAGE
  <2>2. \A d \in Client : Told(report[d])' BY <1>4, <1>5
  <2>3. ReportInv' BY <1>1, <1>5, <2>1, <2>2 DEF ReportInv
  <2>4. QED BY <1>3, <1>5, <2>3
<1>6. ASSUME NEW c \in Client, ReadStage(c)
      PROVE  ReportInv' /\ \A d \in Client : AtLeast(report'[d], report[d])
  <2>1. seen' = [seen EXCEPT ![c] = stage] /\ report' = report /\ stage' = stage
    BY <1>6 DEF ReadStage
  <2>2. \A d \in Client : seen'[d] <= stage' /\ seen[d] <= seen'[d]
    BY <1>1, <1>2, <2>1 DEF UNDEFINED_STAGE, REDUCE_STAGE
  <2>3. \A d \in Client : report[d].stage <= seen'[d]
    BY <1>1, <1>2, <2>1 DEF UNDEFINED_STAGE, REDUCE_STAGE
  <2>4. \A d \in Client : Told(report[d])' BY <1>4, <2>1
  <2>5. seen' \in [Client -> UNDEFINED_STAGE .. REDUCE_STAGE]
    BY <1>1, <1>2, <2>1 DEF UNDEFINED_STAGE, REDUCE_STAGE
  <2>6. ReportInv' BY <1>1, <2>1, <2>2, <2>3, <2>4, <2>5 DEF ReportInv
  <2>7. QED BY <1>3, <2>1, <2>6
<1>7. ASSUME NEW c \in Client, ReadCounters(c)
      PROVE  ReportInv' /\ \A d \in Client : AtLeast(report'[d], report[d])
  <2>1. PICK new : new = [stage |-> seen[c], percentage |-> Percentage(c)] OBVIOUS
  <2>2. report' = [report EXCEPT ![c] = new] /\ seen' = seen /\ stage' = stage
    BY <1>7, <2>1 DEF ReadCounters
  <2>3. new \in Report /\ Told(new) /\ AtLeast(new, report[c]) /\ new.stage = seen[c]
    BY <2>1, ReadCountersTold
  <2>4. report'[c] = new /\ \A d \in Client \ {c} : report'[d] = report[d] BY <1>1, <2>2
  <2>5. Told(new)'
    <3>1. new.stage \in 0 .. 3 /\ new.stage <= stage
      BY <2>3, <1>1 DEF UNDEFINED_STAGE, REDUCE_STAGE
    <3>2. QED BY <2>3, <3>1, ToldStays
  <2>6. Told(report[c])' BY <2>4, <2>5 DEF Told
  <2>7. \A d \in Client : Told(report[d])' BY <1>4, <2>4, <2>6
  <2>8. \A d \in Client : report'[d].stage <= seen[d] /\ seen[d] <= stage'
    BY <1>1, <1>2, <2>2, <2>3, <2>4 DEF UNDEFINED_STAGE, REDUCE_STAGE
  <2>9. report' \in [Client -> Report] BY <1>1, <2>2, <2>3
  <2>10. ReportInv' BY <1>1, <2>2, <2>7, <2>8, <2>9 DEF ReportInv
  <2>11. \A d \in Client : AtLeast(report'[d], report[d]) BY <1>3, <2>3, <2>4
  <2>12. QED BY <2>10, <2>11
<1>8. ASSUME NEW c \in Client,
             WaitForJob(c) \/ CloseJobHandle(c)
               \/ BeginJoins(c) \/ FindJoined(c) \/ Join(c) \/ Free(c)
      PROVE  UNCHANGED <<seen, report>>
  BY <1>8 DEF WaitForJob, CloseJobHandle, BeginJoins, FindJoined, Join, Free
<1>9. ASSUME NEW t \in Thread, Create(t) \/ Worker(t) PROVE UNCHANGED <<seen, report>>
  BY <1>9, DoneStays DEF callVars
<1>10. QED BY <1>5, <1>6, <1>7, <1>8, <1>9 DEF MapReduceNext, Called, Over, vars, callVars

\* For any number of workers and of callers, and any client code: what getJobState
\* tells a caller is never less than what it told the same caller before, although
\* it reads the stage and then counters that have moved on.
THEOREM ProgressAdvances ==
  ASSUME SpuriousWakeups = FALSE PROVE MapReduceSpec => ProgressNeverBack
<1> DEFINE Forward == \A c \in Client : AtLeast(report'[c], report[c])
<1>1. DataInv /\ ReportInv /\ [MapReduceNext]_vars => ReportInv' /\ [Forward]_vars
  <2> SUFFICES ASSUME PhaseInv, MapInv, ShuffleInv, ReduceInv, ReportInv, [MapReduceNext]_vars
               PROVE  ReportInv' /\ Forward
    BY DEF DataInv
  <2>1. QED BY ReportNext, Zenon
<1>2. QED BY ReportInit, JobData, <1>1, PTL DEF MapReduceSpec, ProgressNeverBack

\* What was told of each stage is within the counters of that stage, at any moment.
THEOREM JobReports ==
  ASSUME SpuriousWakeups = FALSE PROVE MapReduceSpec => []ReportInv
<1>1. DataInv /\ ReportInv /\ [MapReduceNext]_vars => ReportInv'
  BY ReportNext, Zenon DEF DataInv
<1>2. QED BY ReportInit, JobData, <1>1, PTL DEF MapReduceSpec

\* A group of one result at most: as many results as groups.
LEMMA ResultsOfGroups ==
  ASSUME PhaseInv, MapInv, ShuffleInv, stage = REDUCE_STAGE,
         \A k \in KeysOf(inputVec) : Emits(k) <= 1
  PROVE  IsFiniteSet(Outputs) /\ Cardinality(Outputs) <= Len(shuffled_vec)
<1> DEFINE G == 1 .. Len(shuffled_vec)
           R(g) == [key |-> shuffled_vec[g][1].key,
                    of |-> {p \in Pairs : p.key = shuffled_vec[g][1].key}, n |-> 1]
           S == {R(g) : g \in G}
<1>1. Len(shuffled_vec) \in Nat /\ DOMAIN shuffled_vec = G BY SeqElements DEF ShuffleInv
<1>2. GroupsExact!2 BY GroupsAreExact DEF GroupsExact
<1>3. \A k \in KeysOf(inputVec) : Emits(k) \in Nat BY EmitsAssumption DEF MapInv
<1>4. ASSUME NEW o \in Outputs PROVE o \in S
  <2>1. PICK k \in KeysOf(inputVec) : \E n \in 1 .. Emits(k) :
          o = [key |-> k, of |-> {p \in Pairs : p.key = k}, n |-> n]
    BY DEF Outputs, OutputsOf, Pairs
  <2>2. Emits(k) \in Nat /\ Emits(k) <= 1 BY <1>3
  <2>3. \A n \in 1 .. Emits(k) : n = 1 BY <2>2
  <2>4. o = [key |-> k, of |-> {p \in Pairs : p.key = k}, n |-> 1] BY <2>1, <2>3
  <2>5. PICK g \in G : k = shuffled_vec[g][1].key BY <1>1, <1>2
  <2>6. QED BY <2>4, <2>5
<1>5. IsFiniteSet(S) /\ Cardinality(S) <= Len(shuffled_vec)
  <2> DEFINE N == Len(shuffled_vec)
             D == 1 .. N
             f == [g \in D |-> R(g)]
  <2>1. N \in Nat BY <1>1
  <2>2. S = {f[g] : g \in D} BY Zenon
  <2> HIDE DEF N, S, f
  <2>3. IsFiniteSet(D) /\ Cardinality(D) = N BY <2>1, FS_Interval
  <2> HIDE DEF D
  <2>4. f \in Surjection(D, S) BY <2>2 DEF Surjection, f
  <2>5. QED BY <2>3, <2>4, FS_Surjection DEF N
<1> HIDE DEF S
<1>6. Outputs \subseteq S BY <1>4
<1>7. IsFiniteSet(Outputs) /\ Cardinality(Outputs) <= Cardinality(S) BY <1>5, <1>6, FS_Subset
<1>8. Cardinality(S) \in Nat /\ Cardinality(Outputs) \in Nat BY <1>5, <1>7, FS_CardinalityType
<1>9. QED BY <1>1, <1>5, <1>7, <1>8

LEMMA FullMeansComplete ==
  ASSUME PhaseInv, MapInv, ShuffleInv, ReduceInv, ReportInv,
         \A in \in Inputs : \A k \in KeysOf(in) : Emits(k) <= 1,
         NEW c \in Client, report[c].stage = REDUCE_STAGE, Full(report[c])
  PROVE  ToSet(outputVec) = Outputs
<1> DEFINE O == ToSet(outputVec)
<1>1. stage = REDUCE_STAGE
  <2>1. seen[c] \in 0 .. 3 /\ stage \in 0 .. 3 /\ 3 <= seen[c] /\ seen[c] <= stage
    BY DEF ReportInv, PhaseInv, StageInv, UNDEFINED_STAGE, REDUCE_STAGE
  <2>2. QED BY <2>1 DEF REDUCE_STAGE
<1>2. Len(shuffled_vec) \in Nat /\ Len(shuffled_vec) <= atomic_emit3_counter
  <2>1. Len(shuffled_vec) \in Nat BY SeqElements DEF ShuffleInv
  <2>2. Told(report[c]) BY DEF ReportInv
  <2>3. QED BY <2>1, <2>2 DEF Told, Full
<1>3. /\ outputVec \in Seq(Outputs) /\ Distinct(outputVec) /\ atomic_emit3_counter \in Nat
      /\ Len(outputVec) \in {atomic_emit3_counter, atomic_emit3_counter + 1}
  BY DEF ReduceInv
<1>4. /\ O \subseteq Outputs /\ IsFiniteSet(O) /\ Cardinality(O) = Len(outputVec)
  BY <1>3, SeqElements, ElementsFinite
<1>5. IsFiniteSet(Outputs) /\ Cardinality(Outputs) <= Len(shuffled_vec)
  BY <1>1, ResultsOfGroups DEF MapInv
<1> HIDE DEF O
<1>6. Cardinality(Outputs) \in Nat BY <1>5, FS_CardinalityType
<1>7. Cardinality(Outputs) <= Cardinality(O)
  <2>1. Len(shuffled_vec) <= Len(outputVec) BY <1>2, <1>3
  <2>2. Len(outputVec) \in Nat BY <1>3
  <2>3. QED BY <1>2, <1>4, <1>5, <1>6, <2>1, <2>2
<1>8. Cardinality(O) <= Cardinality(Outputs) /\ Cardinality(O) \in Nat
  BY <1>4, <1>5, FS_Subset, FS_CardinalityType
<1>9. Cardinality(O) = Cardinality(Outputs) BY <1>6, <1>7, <1>8
<1>10. QED BY <1>4, <1>5, <1>9, FS_Subset DEF O

\* With a client whose reduce emits at most one result, for any number of workers
\* and callers: who is told "stage 3, 100%" may take the output, although the
\* percentage compares results with groups.
THEOREM FullIsComplete ==
  ASSUME SpuriousWakeups = FALSE, \A in \in Inputs : \A k \in KeysOf(in) : Emits(k) <= 1
  PROVE  MapReduceSpec => []ReportedFullIsComplete
<1>1. DataInv /\ ReportInv => ReportedFullIsComplete
  BY FullMeansComplete DEF DataInv, ReportedFullIsComplete, Outputs
<1>2. QED BY JobData, JobReports, <1>1, PTL

-----------------------------------------------------------------------------
(* The promise of MapReduceJob.                                            *)

LEMMA PromiseInit == MapReduceInit => Job!Init
<1> SUFFICES ASSUME MapReduceInit PROVE Job!Init
  OBVIOUS
<1>1. /\ threads_vec = [t \in Thread |-> <<>>] /\ outputVec = <<>> /\ wait = FALSE
  BY DEF MapReduceInit
<1>2. \A t \in Thread : ToSet(threads_vec[t]) = {} BY <1>1, EmptySeqElements
<1>3. UNION {ToSet(threads_vec[t]) : t \in Thread} = {} BY <1>2
<1>4. QED BY <1>1, <1>3 DEF Job!Init

LEMMA PromiseStep ==
  ASSUME SpuriousWakeups = FALSE, PhaseInv, MapInv, ShuffleInv, ReduceInv, JoinInv,
         [MapReduceNext]_vars
  PROVE  Job!Next \/ UNCHANGED <<inputVec, Emitted, outputVec, wait>>
<1>1. ASSUME NEW t \in Thread, Create(t) \/ Worker(t)
      PROVE  Job!Next \/ UNCHANGED <<inputVec, Emitted, outputVec, wait>>
  <2>1. inputVec' = inputVec BY MapNext, Zenon
  <2>2. wait' = wait BY <1>1, DoneStays DEF callVars
  <2>3. CASE Emit2(t)
    <3>1. \E p \in Pairs \ Emitted : Emitted' = Emitted \union {p} BY <2>3, Emit2Step
    <3>2. outputVec' = outputVec BY <2>3 DEF Emit2
    <3>3. Job!Map BY <2>1, <2>2, <3>1, <3>2 DEF Job!Map, Emitted, Pairs
    <3>4. QED BY <3>3 DEF Job!Next
  <2>4. CASE Emit3Push(t)
    <3>1. \E o \in Outputs \ ToSet(outputVec) : outputVec' = Append(outputVec, o)
      BY <2>4, Emit3PushStep
    <3>2. threads_vec' = threads_vec /\ pc[t] = "reduce" BY <2>4 DEF Emit3Push
    <3>3. Emitted = Pairs BY <3>2, ReduceTime
    <3>4. Job!Reduce
      BY <2>1, <2>2, <3>1, <3>2, <3>3 DEF Job!Reduce, Job!ToSet, ToSet, Emitted, Pairs, Outputs
    <3>5. QED BY <3>4 DEF Job!Next
  <2>5. CASE Sort(t)
    <3>1. Emitted' = Emitted BY <2>5, SortStep
    <3>2. QED BY <2>1, <2>2, <2>5, <3>1 DEF Sort
  <2>6. CASE MergeAll(t)
    <3>1. Emitted' = Emitted BY <2>6, MergeAllStep
    <3>2. QED BY <2>1, <2>2, <2>6, <3>1 DEF MergeAll
  <2>7. ASSUME UNCHANGED <<threads_vec, outputVec>>
        PROVE  UNCHANGED <<inputVec, Emitted, outputVec, wait>>
    BY <2>1, <2>2, <2>7 DEF Emitted
  <2>8. CASE Create(t) \/ SetMap(t) \/ ClaimInput(t) \/ BarrierStep(t)
    BY <2>7, <2>8 DEF Create, SetMap, ClaimInput, BarrierStep, dataVars
  <2>9. CASE SetShuffle(t) \/ Shuffle(t) \/ EndShuffle(t)
    BY <2>7, <2>9 DEF SetShuffle, Shuffle, EndShuffle, dataVars
  <2>10. CASE SetReduce(t) \/ ClaimGroup(t) \/ Emit3Count(t)
    BY <2>7, <2>10 DEF SetReduce, ClaimGroup, Emit3Count, dataVars
  <2>11. QED BY <1>1, <2>3, <2>4, <2>5, <2>6, <2>8, <2>9, <2>10 DEF Worker
<1>2. ASSUME UNCHANGED <<inputVec, dataVars, wait>>
      PROVE  UNCHANGED <<inputVec, Emitted, outputVec, wait>>
  BY <1>2 DEF dataVars, Emitted
<1>3. ASSUME NEW c \in Client, Join(c)
      PROVE  Job!Next \/ UNCHANGED <<inputVec, Emitted, outputVec, wait>>
  <2>1. UNCHANGED <<inputVec, dataVars>> /\ cl[c] = "joining" /\ pc[joined] = "done"
    BY <1>3 DEF Join
  <2>2. UNCHANGED <<inputVec, Emitted, outputVec>> BY <2>1 DEF dataVars, Emitted
  <2>3. CASE joined' = numThreads
    <3>1. wait' = TRUE /\ joined' = joined + 1 BY <1>3, <2>3 DEF Join
    <3>2. \A t \in Thread : pc[t] = "done"
      <4>1. /\ joined \in Nat /\ numThreads \in Nat /\ Thread = 0 .. numThreads - 1
            /\ \A t \in Thread : t < joined => pc[t] = "done"
        BY <2>1, ZeroIsAThread DEF JoinInv
      <4>2. joined + 1 = numThreads BY <2>3, <3>1
      <4>3. ASSUME NEW t \in Thread PROVE t < joined \/ t = joined BY <4>1, <4>2
      <4>4. QED BY <4>1, <4>3, <2>1
    <3>3. ToSet(outputVec) = Outputs BY <3>2, OutputComplete
    <3>4. Job!Return BY <2>2, <3>1, <3>3 DEF Job!Return, Job!ToSet, ToSet, Outputs, Emitted
    <3>5. QED BY <3>4 DEF Job!Next
  <2>4. CASE joined' # numThreads BY <1>3, <2>2, <2>4 DEF Join
  <2>5. QED BY <2>3, <2>4
<1>4. ASSUME NEW c \in Client,
             ReadStage(c) \/ WaitForJob(c) \/ CloseJobHandle(c)
               \/ ReadCounters(c) \/ BeginJoins(c) \/ FindJoined(c) \/ Free(c)
      PROVE  UNCHANGED <<inputVec, dataVars, wait>>
  BY <1>4 DEF ReadStage, WaitForJob, CloseJobHandle, ReadCounters, BeginJoins, FindJoined,
              Free
<1>5. QED BY <1>1, <1>2, <1>3, <1>4 DEF MapReduceNext, Called, Over, vars, callVars

\* The job implements MapReduceJob, for any number of workers and callers: an emit2
\* is its Map, an emit3 its Reduce, the last pthread_join its Return, and no other
\* step of the code can be seen.
THEOREM JobKeepsPromise ==
  ASSUME SpuriousWakeups = FALSE PROVE MapReduceSpec => KeepsJobPromise
<1>1. DataInv /\ JoinInv /\ [MapReduceNext]_vars
        => [Job!Next]_<<inputVec, UNION {ToSet(threads_vec[t]) : t \in Thread}, outputVec, wait>>
  <2> SUFFICES ASSUME PhaseInv, MapInv, ShuffleInv, ReduceInv, JoinInv, [MapReduceNext]_vars
               PROVE  Job!Next \/ UNCHANGED <<inputVec, Emitted, outputVec, wait>>
    BY DEF DataInv, Emitted
  <2>1. QED BY PromiseStep, Zenon
<1>2. QED
  BY PromiseInit, JobData, JoinInit, NextJoin, <1>1, PTL
  DEF MapReduceSpec, KeepsJobPromise, Job!Spec

=============================================================================
