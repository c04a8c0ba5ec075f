--------------------------- MODULE MapReduceStages ---------------------------
(***************************************************************************)
(* The stages of a job: the two calls of the barrier keep any number of      *)
(* workers in step with the stage that they all write, and the job is        *)
(* deleted only when every worker has ended.                                 *)
(***************************************************************************)
EXTENDS MapReduce, BarrierProofs

\* The places of a worker before its first call of the barrier, between the two
\* (where only thread 0 has work), and after the second.
Mapping   == {"unborn", "start", "map", "sort"}
Shuffling == {"set_shuffle", "merge", "shuffle"}
Reducing  == {"set_reduce", "reduce", "counting", "done"}

\* The calls of the barrier that a worker has returned from, by its place.
InPhase(t) ==
  /\ pc[t] \in WorkerPlace
  /\ pc[t] \in Mapping   => round[t] = 0 /\ at[t] = "out"
  /\ pc[t] = "barrier"   => round[t] \in {0, 1}
  /\ pc[t] \in Shuffling => t = 0 /\ round[t] = 1 /\ at[t] = "out"
  /\ pc[t] \in Reducing  => round[t] = 2 /\ at[t] = "out"

\* Has thread 0 set SHUFFLE_STAGE?
ShuffleSet == pc[0] \in {"merge", "shuffle"} \/ (pc[0] = "barrier" /\ round[0] = 1)

\* The stage, by the turn of all the workers at the barrier.
StageInv ==
  /\ stage \in UNDEFINED_STAGE .. REDUCE_STAGE
  /\ stage = UNDEFINED_STAGE => \A t \in Thread : pc[t] \in {"unborn", "start"}
  /\ Turn(0) = 0 => stage <= MAP_STAGE
  /\ Turn(0) = 1 => stage = IF ShuffleSet THEN SHUFFLE_STAGE ELSE MAP_STAGE
  /\ Turn(0) = 2 => stage \in {SHUFFLE_STAGE, REDUCE_STAGE}
  /\ \A t \in Thread : pc[t] \in Reducing \ {"set_reduce"} => stage = REDUCE_STAGE

PhaseInv == BarrierInv /\ pc \in [Thread -> WorkerPlace] /\ (\A t \in Thread : InPhase(t)) /\ StageInv

LEMMA ZeroIsAThread ==
  numThreads \in Nat \ {0} /\ Thread = 0 .. numThreads - 1 /\ 0 \in Thread
<1>1. numThreads \in Nat BY BarrierAssumption, FS_CardinalityType DEF numThreads
<1>2. Thread = 0 .. numThreads - 1 /\ numThreads > 0 BY MapReduceAssumption
<1> HIDE DEF numThreads
<1>3. QED BY <1>1, <1>2

\* What the place of one worker says about all the others.
LEMMA InStep ==
  ASSUME PhaseInv, NEW t \in Thread, NEW u \in Thread
  PROVE  /\ Turn(t) = Turn(u) /\ Turn(t) = Turn(0) /\ round[t] \in Nat
         /\ pc[t] \in Mapping => Turn(t) = 0
         /\ pc[t] \in Shuffling => Turn(t) = 1
         /\ pc[t] \in Reducing => Turn(t) = 2
         /\ pc[t] \in Mapping => pc[u] \in Mapping \union {"barrier"}
         /\ pc[t] \in Shuffling => t = 0 /\ (u # 0 => pc[u] = "barrier")
         /\ pc[t] \in Reducing => pc[u] \in Reducing \union {"barrier"}
         /\ pc[t] = "barrier" \/ pc[t] \in Mapping \/ pc[t] \in Shuffling \/ pc[t] \in Reducing
<1>1. /\ 0 \in Thread /\ Turn(t) = Turn(u) /\ Turn(t) = Turn(0)
      /\ round[t] \in Nat /\ round[u] \in Nat
  BY ZeroIsAThread DEF PhaseInv, BarrierInv, BarrierTypeOK
<1>2. InPhase(t) /\ InPhase(u) BY DEF PhaseInv
<1>3. /\ pc[t] \in Mapping => Turn(t) = 0
      /\ pc[t] \in Shuffling => Turn(t) = 1 /\ t = 0
      /\ pc[t] \in Reducing => Turn(t) = 2
  BY <1>2 DEF InPhase, Turn
<1>4. /\ pc[u] \in Mapping => Turn(u) = 0
      /\ pc[u] \in Shuffling => Turn(u) = 1 /\ u = 0
      /\ pc[u] \in Reducing => Turn(u) = 2
  BY <1>2 DEF InPhase, Turn
<1>5. /\ pc[t] = "barrier" \/ pc[t] \in Mapping \/ pc[t] \in Shuffling \/ pc[t] \in Reducing
      /\ pc[u] = "barrier" \/ pc[u] \in Mapping \/ pc[u] \in Shuffling \/ pc[u] \in Reducing
  BY <1>2 DEF InPhase, WorkerPlace, Mapping, Shuffling, Reducing
<1>6. QED BY <1>1, <1>3, <1>4, <1>5

\* A step of a thread at the barrier: the turn of all moves on, with everybody
\* asleep or at the last place of the barrier, or that of nobody does.
LEMMA BarrierMove ==
  ASSUME SpuriousWakeups = FALSE, BarrierInv, NEW t \in Thread, Lock(t) \/ Inside(t)
  PROVE  /\ BarrierInv' /\ round' \in [Thread -> Nat]
         /\ \/ \A u \in Thread : Turn(u)' = Turn(u)
            \/ /\ \A u \in Thread : Turn(u)' = Turn(u) + 1 /\ at[u] # "out" /\ Turn(u) = round[u]
               /\ round' = round
         /\ \A u \in Thread \ {t} : round'[u] = round[u] /\ (at[u] = "out" => at'[u] = "out")
         /\ \/ round'[t] = round[t]
            \/ round'[t] = round[t] + 1 /\ at'[t] = "out" /\ Turn(t) = round[t] + 1
<1>1. /\ round \in [Thread -> Nat] /\ at \in [Thread -> Place]
      /\ \A u, v \in Thread : Turn(u) = Turn(v)
  BY DEF BarrierInv, BarrierTypeOK
<1>2. CASE Lock(t)
  <2>1. BarrierInv' BY <1>2, LockStep
  <2>2. \A u \in Thread : Turn(u)' = Turn(u) BY <1>1, <1>2 DEF Turn, Lock
  <2>3. QED BY <1>1, <1>2, <2>1, <2>2 DEF Lock
<1>3. CASE Wait(t)
  <2>1. BarrierInv' BY <1>3, WaitStep
  <2>2. \A u \in Thread : Turn(u)' = Turn(u) BY <1>1, <1>3 DEF Turn, Wait
  <2>3. QED BY <1>1, <1>3, <2>1, <2>2 DEF Wait
<1>4. CASE Broadcast(t)
  <2>1. BarrierInv' BY <1>4, BroadcastStep
  <2>2. \A u \in Thread : Turn(u)' = Turn(t)' BY <2>1 DEF BarrierInv
  <2>3. round' = round /\ Turn(t)' = Turn(t) + 1 BY <1>1, <1>4 DEF Turn, Broadcast
  <2>4. \A u \in Thread : Turn(u)' = Turn(u) + 1 BY <1>1, <2>2, <2>3
  <2>5. ASSUME NEW u \in Thread PROVE at[u] # "out" /\ Turn(u) = round[u]
    <3>1. u # t /\ at[u] # "asleep" => at'[u] = at[u] BY <1>1, <1>4 DEF Broadcast, Asleep
    <3>2. at[t] = "locked" BY <1>4 DEF Broadcast
    <3>3. round[u] \in Nat /\ at[u] \in Place BY <1>1
    <3>4. u # t => at[u] = "asleep"
      BY <3>1, <3>3, <2>3, <2>4 DEF Turn
    <3>5. QED BY <3>2, <3>4 DEF Turn
  <2>6. \A u \in Thread \ {t} : at[u] = "out" => at'[u] = "out" BY <2>5
  <2>7. QED BY <1>1, <2>1, <2>3, <2>4, <2>5, <2>6
<1>5. CASE Relock(t)
  <2>1. BarrierInv' BY <1>5, RelockStep
  <2>2. at[t] = "woken" /\ at' = [at EXCEPT ![t] = "leaving"] /\ round' = round
    BY <1>5 DEF Relock, Released
  <2>3. \A u \in Thread : Turn(u)' = Turn(u) BY <1>1, <2>2 DEF Turn
  <2>4. QED BY <1>1, <2>1, <2>2, <2>3
<1>6. CASE Unlock(t)
  <2>1. BarrierInv' BY <1>6, UnlockStep
  <2>2. /\ at[t] = "leaving" /\ at' = [at EXCEPT ![t] = "out"]
        /\ round' = [round EXCEPT ![t] = @ + 1]
    BY <1>6 DEF Unlock
  <2>3. \A u \in Thread : Turn(u)' = Turn(u) BY <1>1, <2>2 DEF Turn
  <2>4. Turn(t) = round[t] + 1 BY <2>2 DEF Turn
  <2>5. QED BY <1>1, <2>1, <2>2, <2>3, <2>4
<1>7. QED BY <1>2, <1>3, <1>4, <1>5, <1>6 DEF Inside

LEMMA PhaseInit == MapReduceInit => PhaseInv
<1> SUFFICES ASSUME MapReduceInit PROVE PhaseInv
  OBVIOUS
<1>1. BarrierInv BY InitInv DEF MapReduceInit
<1>2. 0 \in Thread BY ZeroIsAThread
<1>3. /\ pc = [t \in Thread |-> "unborn"] /\ stage = 0
      /\ at = [t \in Thread |-> "out"] /\ round = [t \in Thread |-> 0]
  BY DEF MapReduceInit, BarrierInit, UNDEFINED_STAGE
<1>4. \A t \in Thread : InPhase(t)
  BY <1>3 DEF InPhase, WorkerPlace, Mapping, Shuffling, Reducing
<1>5. StageInv
  BY <1>2, <1>3 DEF StageInv, Turn, Reducing, UNDEFINED_STAGE, MAP_STAGE, SHUFFLE_STAGE, REDUCE_STAGE
<1>6. pc \in [Thread -> WorkerPlace] BY <1>3 DEF WorkerPlace
<1>7. QED BY <1>1, <1>4, <1>5, <1>6 DEF PhaseInv

LEMMA BarrierSame ==
  ASSUME BarrierInv, UNCHANGED barrierVars
  PROVE  BarrierInv' /\ \A t \in Thread : Turn(t)' = Turn(t)
<1>1. UNCHANGED <<mutex, count, at, round>> BY DEF barrierVars
<1>2. QED BY <1>1 DEF BarrierInv, BarrierTypeOK, SleepersCounted, Asleep, Turn

\* The steps that change neither the place of a worker nor the stage.
LEMMA PhaseStutter ==
  ASSUME PhaseInv, UNCHANGED <<barrierVars, pc, stage>>
  PROVE  PhaseInv'
<1>1. BarrierInv' /\ UNCHANGED <<mutex, count, at, round, pc, stage>>
  BY BarrierSame DEF PhaseInv, barrierVars
<1>2. (\A t \in Thread : InPhase(t))' BY <1>1 DEF PhaseInv, InPhase
<1>3. StageInv' BY <1>1 DEF PhaseInv, StageInv, Turn, ShuffleSet
<1>4. (pc \in [Thread -> WorkerPlace])' BY <1>1 DEF PhaseInv
<1>5. QED BY <1>1, <1>2, <1>3, <1>4 DEF PhaseInv

\* The steps of a worker that is not at the barrier, by the places they join and
\* what they make of the stage.
LEMMA PlaceStep ==
  ASSUME PhaseInv, NEW t \in Thread, NEW place, UNCHANGED barrierVars, Go(t, place),
         \/ /\ <<pc[t], place>> \in {<<"unborn", "start">>, <<"map", "sort">>,
                 <<"sort", "barrier">>, <<"merge", "shuffle">>, <<"shuffle", "barrier">>,
                 <<"reduce", "counting">>, <<"counting", "reduce">>, <<"reduce", "done">>}
            /\ stage' = stage
         \/ <<pc[t], place, stage'>> \in {<<"start", "map", MAP_STAGE>>,
              <<"set_shuffle", "merge", SHUFFLE_STAGE>>, <<"set_reduce", "reduce", REDUCE_STAGE>>}
  PROVE  PhaseInv' /\ stage' \in {stage, stage + 1}
<1>1. /\ BarrierInv' /\ UNCHANGED <<at, round>>
      /\ \A u \in Thread : Turn(u)' = Turn(u)
  BY BarrierSame DEF PhaseInv, barrierVars
<1>2. /\ pc \in [Thread -> WorkerPlace] /\ pc' = [pc EXCEPT ![t] = place]
      /\ \A u \in Thread : InPhase(u)
      /\ 0 \in Thread
  BY ZeroIsAThread DEF PhaseInv, Go
<1>3. place \in WorkerPlace /\ pc' \in [Thread -> WorkerPlace]
  BY <1>2 DEF WorkerPlace
<1>4. InPhase(t)'
  <2>1. InPhase(t) BY <1>2
  <2>2. pc'[t] = place BY <1>2
  <2>3. QED BY <1>1, <1>3, <2>1, <2>2 DEF InPhase, Mapping, Shuffling, Reducing
<1>5. (\A u \in Thread : InPhase(u))'
  <2>1. ASSUME NEW u \in Thread PROVE InPhase(u)'
    <3>1. CASE u = t BY <3>1, <1>4
    <3>2. CASE u # t
      <4>1. pc'[u] = pc[u] /\ InPhase(u) BY <3>2, <1>2
      <4>2. QED BY <4>1, <1>1 DEF InPhase
    <3>3. QED BY <3>1, <3>2
  <2>2. QED BY <2>1
<1>6. /\ Turn(t) = Turn(0) /\ StageInv
      /\ pc[t] \in Mapping => Turn(t) = 0
      /\ pc[t] \in Shuffling => Turn(t) = 1 /\ t = 0
      /\ pc[t] \in Reducing => Turn(t) = 2
  BY InStep DEF PhaseInv
<1>7. StageInv' /\ stage' \in {stage, stage + 1}
  <2> USE DEF UNDEFINED_STAGE, MAP_STAGE, SHUFFLE_STAGE, REDUCE_STAGE
  <2>1. stage \in 0 .. 3 BY <1>6 DEF StageInv
  <2>2. CASE pc[t] \in Mapping
    <3>1. Turn(t)' = 0 /\ Turn(0)' = 0 BY <2>2, <1>1, <1>2, <1>6
    <3>2. stage <= 1 /\ place \in Mapping \union {"barrier"}
      BY <2>2, <1>6 DEF StageInv, Mapping
    <3>3. stage' \in {stage, 1} /\ (stage' = 0 => stage = 0 /\ place \in {"unborn", "start"})
      BY <2>2, <1>6, <1>2 DEF StageInv, Mapping
    <3>4. stage' \in {0, 1} /\ stage' \in {stage, stage + 1} BY <2>1, <3>2, <3>3
    <3>5. stage' = 0 => \A u \in Thread : pc'[u] \in {"unborn", "start"}
      BY <3>3, <1>2, <1>6 DEF StageInv
    <3>6. \A u \in Thread : pc'[u] \notin Reducing
      BY <2>2, <3>2, <1>2, InStep DEF Reducing, Mapping
    <3>7. QED BY <3>1, <3>4, <3>5, <3>6 DEF StageInv
  <2>3. CASE pc[t] \in Shuffling
    <3>1. t = 0 /\ Turn(0)' = 1 /\ round[0] = 1 /\ pc'[0] = place
      BY <2>3, <1>1, <1>2, <1>6 DEF InPhase
    <3>2. stage = IF ShuffleSet THEN 2 ELSE 1 BY <2>3, <1>6 DEF StageInv
    <3>3. stage' = 2 /\ stage \in {1, 2} /\ ShuffleSet'
      BY <2>3, <3>1, <3>2, <1>1 DEF ShuffleSet, Shuffling
    <3>4. \A u \in Thread : pc'[u] \notin Reducing
      BY <2>3, <3>1, <1>2, InStep DEF Reducing, Shuffling
    <3>5. QED BY <3>1, <3>3, <3>4 DEF StageInv
  <2>4. CASE pc[t] \in Reducing
    <3>1. Turn(0)' = 2 /\ stage \in {2, 3} BY <2>4, <1>1, <1>2, <1>6 DEF StageInv
    <3>2. stage' = 3
      BY <2>4, <1>6 DEF StageInv, Reducing
    <3>3. QED BY <3>1, <3>2 DEF StageInv
  <2>5. QED BY <2>2, <2>3, <2>4 DEF Mapping, Shuffling, Reducing
<1>8. QED BY <1>1, <1>3, <1>5, <1>7 DEF PhaseInv

LEMMA BarrierStepPhase ==
  ASSUME SpuriousWakeups = FALSE, PhaseInv, NEW t \in Thread, BarrierStep(t)
  PROVE  PhaseInv'
<1>1. /\ pc[t] = "barrier" /\ stage' = stage
      /\ pc' = [pc EXCEPT ![t] = IF round'[t] # round[t] THEN AfterBarrier(t) ELSE "barrier"]
      /\ pc \in [Thread -> WorkerPlace] /\ 0 \in Thread
      /\ BarrierInv /\ \A u \in Thread : InPhase(u) /\ round[u] \in Nat
  BY ZeroIsAThread DEF BarrierStep, Go, PhaseInv, BarrierInv, BarrierTypeOK
<1>2. /\ BarrierInv' /\ round' \in [Thread -> Nat]
      /\ \/ \A u \in Thread : Turn(u)' = Turn(u)
         \/ /\ \A u \in Thread : Turn(u)' = Turn(u) + 1 /\ at[u] # "out" /\ Turn(u) = round[u]
            /\ round' = round
      /\ \A u \in Thread \ {t} : round'[u] = round[u] /\ (at[u] = "out" => at'[u] = "out")
      /\ \/ round'[t] = round[t]
         \/ round'[t] = round[t] + 1 /\ at'[t] = "out" /\ Turn(t) = round[t] + 1
  BY <1>1, BarrierMove DEF BarrierStep
<1>3. round[t] \in {0, 1} /\ (pc'[t] = "barrier" \/ pc'[t] = AfterBarrier(t))
  BY <1>1 DEF InPhase
<1>4. pc' \in [Thread -> WorkerPlace] BY <1>1 DEF WorkerPlace, AfterBarrier
<1>5. \A u \in Thread \ {t} : pc'[u] = pc[u] BY <1>1
<1>6. (\A u \in Thread : InPhase(u))'
  <2>1. InPhase(t)'
    <3>1. CASE round'[t] = round[t]
      <4>1. pc'[t] = "barrier" BY <3>1, <1>1
      <4>2. QED BY <4>1, <3>1, <1>3 DEF InPhase, WorkerPlace, Mapping, Shuffling, Reducing
    <3>2. CASE round'[t] # round[t]
      <4>1. pc'[t] = AfterBarrier(t) /\ round'[t] = round[t] + 1 /\ at'[t] = "out"
        BY <3>2, <1>1, <1>2
      <4>2. QED BY <4>1, <1>3
            DEF AfterBarrier, InPhase, WorkerPlace, Mapping, Shuffling, Reducing
    <3>3. QED BY <3>1, <3>2
  <2>2. ASSUME NEW u \in Thread \ {t} PROVE InPhase(u)'
    BY <1>1, <1>2, <1>5 DEF InPhase
  <2>3. QED BY <2>1, <2>2
<1>7. StageInv'
  <2> USE DEF UNDEFINED_STAGE, MAP_STAGE, SHUFFLE_STAGE, REDUCE_STAGE
  <2>1. stage \in 1 .. 3
    BY <1>1 DEF PhaseInv, StageInv
  <2>2. \A u \in Thread : pc'[u] \in Reducing \ {"set_reduce"} => pc[u] \in Reducing \ {"set_reduce"}
    BY <1>3, <1>5 DEF AfterBarrier, Reducing
  <2>3. Turn(t) = Turn(0) /\ Turn(0) \in Nat BY InStep, <1>1 DEF Turn
  <2>4. CASE \A u \in Thread : Turn(u)' = Turn(u)
    <3>1. Turn(0)' = Turn(0) BY <2>4, <1>1
    <3>2. Turn(0) = 1 => (ShuffleSet' <=> ShuffleSet)
      <4>1. CASE t # 0 BY <4>1, <1>1, <1>2, <1>5 DEF ShuffleSet
      <4>2. CASE t = 0 /\ round'[t] = round[t]
        <5>1. pc'[0] = "barrier" BY <4>2, <1>1
        <5>2. QED BY <4>2, <5>1, <1>1 DEF ShuffleSet
      <4>3. CASE t = 0 /\ round'[t] # round[t]
        <5>1. pc'[0] = AfterBarrier(t) /\ Turn(0) = round[0] + 1 BY <4>3, <1>1, <1>2
        <5>2. ASSUME Turn(0) = 1 PROVE ~ ShuffleSet /\ ~ ShuffleSet'
          <6>1. round[0] = 0 BY <5>1, <5>2, <1>1
          <6>2. pc'[0] = "set_shuffle" BY <5>1, <6>1, <4>3 DEF AfterBarrier
          <6>3. QED BY <6>1, <6>2, <4>3, <1>1 DEF ShuffleSet
        <5>3. QED BY <5>2
      <4>4. QED BY <4>1, <4>2, <4>3
    <3>3. QED BY <2>1, <2>2, <3>1, <3>2, <1>1 DEF PhaseInv, StageInv
  <2>5. CASE /\ \A u \in Thread : Turn(u)' = Turn(u) + 1 /\ at[u] # "out" /\ Turn(u) = round[u]
             /\ round' = round
    <3>1. \A u \in Thread : pc[u] = "barrier" /\ pc'[u] = "barrier"
      <4>1. ASSUME NEW u \in Thread PROVE pc[u] = "barrier"
        BY <2>5, <1>1, InStep DEF InPhase
      <4>2. QED BY <4>1, <2>5, <1>1
    <3>2. Turn(0)' = round[0] + 1 /\ Turn(0) = round[0] /\ round[0] \in {0, 1} /\ pc[0] = "barrier"
      BY <2>5, <3>1, <1>1 DEF InPhase
    <3>3. pc'[0] = "barrier" /\ round'[0] = round[0] BY <3>1, <2>5, <1>1
    <3>4. CASE round[0] = 0
      <4>1. stage = 1 BY <2>1, <3>2, <3>4 DEF PhaseInv, StageInv
      <4>2. QED BY <4>1, <3>1, <3>2, <3>3, <3>4, <1>1 DEF StageInv, ShuffleSet, Reducing
    <3>5. CASE round[0] = 1
      <4>1. stage = 2 BY <3>2, <3>5 DEF PhaseInv, StageInv, ShuffleSet
      <4>2. QED BY <4>1, <3>1, <3>2, <3>5, <1>1 DEF StageInv, Reducing
    <3>6. QED BY <3>2, <3>4, <3>5
  <2>6. QED BY <2>4, <2>5, <1>2
<1>8. QED BY <1>2, <1>4, <1>6, <1>7 DEF PhaseInv

\* Every step keeps the workers in phase, and advances the stage if it changes it.
LEMMA NextPhase ==
  ASSUME SpuriousWakeups = FALSE, PhaseInv, [MapReduceNext]_vars
  PROVE  PhaseInv' /\ stage' \in {stage, stage + 1}
<1>1. stage \in 0 .. 3 BY DEF PhaseInv, StageInv, UNDEFINED_STAGE, REDUCE_STAGE
<1>2. ASSUME NEW t \in Thread, Create(t) PROVE PhaseInv' /\ stage' \in {stage, stage + 1}
  BY <1>2, PlaceStep DEF Create
<1>3. ASSUME NEW t \in Thread, Worker(t) PROVE PhaseInv' /\ stage' \in {stage, stage + 1}
  <2>1. CASE SetMap(t) BY <2>1, PlaceStep DEF SetMap
  <2>2. CASE ClaimInput(t)
    <3>1. UNCHANGED <<barrierVars, stage>> /\ pc[t] = "map" BY <2>2 DEF ClaimInput
    <3>2. UNCHANGED pc \/ Go(t, "sort") BY <2>2 DEF ClaimInput
    <3>3. QED BY <1>1, <3>1, <3>2, PlaceStep, PhaseStutter
  <2>3. CASE Emit2(t) BY <1>1, <2>3, PhaseStutter DEF Emit2
  <2>4. CASE Sort(t) BY <2>4, PlaceStep DEF Sort
  <2>5. CASE BarrierStep(t) BY <1>1, <2>5, BarrierStepPhase DEF BarrierStep
  <2>6. CASE SetShuffle(t) BY <2>6, PlaceStep DEF SetShuffle
  <2>7. CASE MergeAll(t) BY <2>7, PlaceStep DEF MergeAll
  <2>8. CASE Shuffle(t) BY <1>1, <2>8, PhaseStutter DEF Shuffle
  <2>9. CASE EndShuffle(t) BY <2>9, PlaceStep DEF EndShuffle
  <2>10. CASE SetReduce(t) BY <2>10, PlaceStep DEF SetReduce
  <2>11. CASE ClaimGroup(t)
    <3>1. UNCHANGED <<barrierVars, stage>> /\ pc[t] = "reduce" BY <2>11 DEF ClaimGroup
    <3>2. UNCHANGED pc \/ Go(t, "done") BY <2>11 DEF ClaimGroup
    <3>3. QED BY <1>1, <3>1, <3>2, PlaceStep, PhaseStutter
  <2>12. CASE Emit3Push(t) BY <2>12, PlaceStep DEF Emit3Push
  <2>13. CASE Emit3Count(t) BY <2>13, PlaceStep DEF Emit3Count
  <2>14. QED
    BY <1>3, <2>1, <2>2, <2>3, <2>4, <2>5, <2>6, <2>7, <2>8, <2>9, <2>10, <2>11, <2>12, <2>13
    DEF Worker
<1>4. ASSUME NEW c \in Client,
             ReadStage(c) \/ WaitForJob(c) \/ CloseJobHandle(c) \/ Called(c)
      PROVE  PhaseInv' /\ stage' \in {stage, stage + 1}
  <2>1. UNCHANGED <<barrierVars, pc, stage>>
    BY <1>4 DEF ReadStage, WaitForJob, CloseJobHandle, Called, ReadCounters, BeginJoins,
                FindJoined, Join, Free
  <2>2. QED BY <1>1, <2>1, PhaseStutter
<1>5. CASE UNCHANGED vars
  BY <1>1, <1>5, PhaseStutter DEF vars
<1>6. QED BY <1>2, <1>3, <1>4, <1>5 DEF MapReduceNext, Over

\* The workers keep in phase with the barrier and the stage.
THEOREM JobInPhase == ASSUME SpuriousWakeups = FALSE PROVE MapReduceSpec => []PhaseInv
<1>1. PhaseInv /\ [MapReduceNext]_vars => PhaseInv' BY NextPhase
<1>2. QED BY PhaseInit, <1>1, PTL DEF MapReduceSpec

\* The stage only advances, for any number of workers that all write it: neither a
\* late map_stage nor an early reduce_stage is possible between the two calls of
\* barrier() in job_ToDo.
THEOREM StageAdvances == ASSUME SpuriousWakeups = FALSE PROVE MapReduceSpec => StageNeverBack
<1>1. PhaseInv /\ [MapReduceNext]_vars => [stage' \in {stage, stage + 1}]_vars BY NextPhase
<1>2. QED BY <1>1, JobInPhase, PTL DEF MapReduceSpec, StageNeverBack

-----------------------------------------------------------------------------
(* Waiting for the job, and closing it.                                    *)

\* Whoever joins the workers is alone and the first to, and every worker before the
\* next to join has ended; the flag is set when all have, and the job is freed when
\* it is.
JoinInv ==
  /\ cl \in [Client -> {"away", "reading", "waiting", "joining", "closing"}]
  /\ joined \in 0 .. numThreads
  /\ \A c \in Client : cl[c] = "joining" =>
       joined < numThreads /\ \A t \in Thread : t < joined => pc[t] = "done"
  /\ \A c, d \in Client : cl[c] = "joining" /\ cl[d] = "joining" => c = d
  /\ wait \in BOOLEAN /\ freed \in BOOLEAN
  /\ wait => \A t \in Thread : pc[t] = "done"
  /\ wait \/ joined = 0 \/ \E c \in Client : cl[c] = "joining"
  /\ \A c \in Client : cl[c] = "closing" => wait
  /\ freed => wait

LEMMA JoinInit == MapReduceInit => JoinInv
<1> SUFFICES ASSUME MapReduceInit PROVE JoinInv
  OBVIOUS
<1>1. 0 \in 0 .. numThreads BY ZeroIsAThread
<1>2. /\ cl = [c \in Client |-> "away"] /\ joined = 0 /\ wait = FALSE /\ freed = FALSE
  BY DEF MapReduceInit
<1>3. QED BY <1>1, <1>2 DEF JoinInv

\* A worker that has ended does nothing more, and no worker waits or closes.
LEMMA DoneStays ==
  ASSUME NEW t \in Thread, Create(t) \/ Worker(t)
  PROVE  /\ \A u \in Thread : pc[u] = "done" => pc'[u] = "done"
         /\ UNCHANGED callVars
<1>1. /\ pc[t] # "done"
      /\ \/ UNCHANGED pc
         \/ \E place : pc' = [pc EXCEPT ![t] = place]
      /\ UNCHANGED callVars
  <2>1. CASE Create(t) BY <2>1 DEF Create, Go
  <2>2. CASE SetMap(t) \/ SetShuffle(t) \/ SetReduce(t) \/ EndShuffle(t)
    BY <2>2 DEF SetMap, SetShuffle, SetReduce, EndShuffle, Go
  <2>3. CASE ClaimInput(t) \/ Emit2(t) \/ Sort(t) BY <2>3 DEF ClaimInput, Emit2, Sort, Go
  <2>4. CASE BarrierStep(t) BY <2>4 DEF BarrierStep, Go
  <2>5. CASE MergeAll(t) \/ Shuffle(t) BY <2>5 DEF MergeAll, Shuffle, Go
  <2>6. CASE ClaimGroup(t) \/ Emit3Push(t) \/ Emit3Count(t)
    BY <2>6 DEF ClaimGroup, Emit3Push, Emit3Count, Go
  <2>7. QED BY <2>1, <2>2, <2>3, <2>4, <2>5, <2>6 DEF Worker
<1>2. CASE UNCHANGED pc BY <1>1, <1>2
<1>3. CASE \E place : pc' = [pc EXCEPT ![t] = place] BY <1>1, <1>3
<1>4. QED BY <1>1, <1>2, <1>3

LEMMA NextJoin == JoinInv /\ [MapReduceNext]_vars => JoinInv'
<1> SUFFICES ASSUME JoinInv, [MapReduceNext]_vars PROVE JoinInv'
  OBVIOUS
<1>0. numThreads \in Nat \ {0} /\ Thread = 0 .. numThreads - 1 BY ZeroIsAThread
<1>1. ASSUME NEW t \in Thread, Create(t) \/ Worker(t) PROVE JoinInv'
  BY <1>1, DoneStays DEF callVars, JoinInv
<1>2. ASSUME NEW c \in Client, ReadStage(c) PROVE JoinInv'
  BY <1>2 DEF ReadStage, JoinInv
<1>3. ASSUME NEW c \in Client, ReadCounters(c) PROVE JoinInv'
  BY <1>3 DEF ReadCounters, JoinInv
<1>4. ASSUME NEW c \in Client, WaitForJob(c) \/ CloseJobHandle(c) PROVE JoinInv'
  <2>1. /\ cl[c] = "away" /\ cl' = [cl EXCEPT ![c] = "waiting"]
        /\ UNCHANGED <<pc, joined, wait, freed>>
    BY <1>4 DEF WaitForJob, CloseJobHandle
  <2>2. QED BY <2>1 DEF JoinInv
<1>5. ASSUME NEW c \in Client, BeginJoins(c) PROVE JoinInv'
  <2>1. /\ cl[c] = "waiting" /\ cl' = [cl EXCEPT ![c] = "joining"] /\ ~wait
        /\ \A d \in Client : cl[d] # "joining"
        /\ UNCHANGED <<pc, joined, wait, freed>>
    BY <1>5 DEF BeginJoins, Acquires
  <2>2. joined = 0 /\ \A t \in Thread : ~ t < 0 BY <1>0, <2>1 DEF JoinInv
  <2>3. cl'[c] = "joining" BY <2>1 DEF JoinInv
  <2>4. QED BY <1>0, <2>1, <2>2, <2>3 DEF JoinInv
<1>6. ASSUME NEW c \in Client, FindJoined(c) PROVE JoinInv'
  <2>1. /\ cl' = [cl EXCEPT ![c] = IF closing = c THEN "closing" ELSE "away"] /\ wait
        /\ UNCHANGED <<pc, joined, wait, freed>>
    BY <1>6 DEF FindJoined, Acquires, Returned
  <2>2. QED BY <2>1 DEF JoinInv
<1>7. ASSUME NEW c \in Client, Join(c) PROVE JoinInv'
  <2>1. /\ cl[c] = "joining" /\ pc[joined] = "done" /\ joined' = joined + 1
        /\ UNCHANGED <<pc, freed>>
    BY <1>7 DEF Join
  <2>2. /\ joined \in Nat /\ joined < numThreads
        /\ \A t \in Thread : t < joined => pc[t] = "done"
        /\ \A d \in Client : cl[d] = "joining" => d = c
    BY <1>0, <2>1 DEF JoinInv
  <2>3. \A t \in Thread : t < joined + 1 => pc[t] = "done"
    BY <1>0, <2>1, <2>2
  <2>4. CASE joined' = numThreads
    <3>1. wait' = TRUE /\ cl' = [cl EXCEPT ![c] = IF closing = c THEN "closing" ELSE "away"]
      BY <1>7, <2>4 DEF Join, Returned
    <3>2. \A t \in Thread : pc'[t] = "done" BY <1>0, <2>1, <2>2, <2>3, <2>4
    <3>3. \A d \in Client : cl'[d] # "joining" BY <2>2, <3>1 DEF JoinInv
    <3>4. QED BY <1>0, <2>1, <2>4, <3>1, <3>2, <3>3 DEF JoinInv
  <2>5. CASE joined' # numThreads
    <3>1. UNCHANGED <<wait, cl>> BY <1>7, <2>5 DEF Join
    <3>2. joined' \in 0 .. numThreads /\ joined' < numThreads BY <1>0, <2>1, <2>2, <2>5
    <3>3. QED BY <2>1, <2>3, <3>1, <3>2 DEF JoinInv
  <2>6. QED BY <2>4, <2>5
<1>8. ASSUME NEW c \in Client, Free(c) PROVE JoinInv'
  BY <1>8 DEF Free, JoinInv
<1>9. CASE UNCHANGED vars
  BY <1>9 DEF vars, callVars, JoinInv
<1>10. QED
  BY <1>1, <1>2, <1>3, <1>4, <1>5, <1>6, <1>7, <1>8, <1>9 DEF MapReduceNext, Called, Over

\* For any number of clients that poll, wait and close, whatever pthread_cond_wait
\* does: no call of waitForJob returns before every worker has ended, neither the one
\* that joins them nor one that comes behind it and finds the flag set, and
\* closeJobHandle deletes nothing under a worker.
THEOREM WaitersOutlastWorkers == MapReduceSpec => WaitOutlastsWorkers
<1> DEFINE Waited ==
      (freed' # freed \/ \E c \in Client : InWait(c) /\ ~InWait(c)')
        => \A t \in Thread : pc[t] = "done"
<1>1. JoinInv /\ [MapReduceNext]_vars => [Waited]_vars
  <2> SUFFICES ASSUME JoinInv, MapReduceNext,
                      freed' # freed \/ \E c \in Client : InWait(c) /\ ~InWait(c)'
               PROVE  \A t \in Thread : pc[t] = "done"
    OBVIOUS
  <2>0. numThreads \in Nat \ {0} /\ Thread = 0 .. numThreads - 1 BY ZeroIsAThread
  <2>1. freed' # freed \/ cl' # cl BY DEF InWait
  <2>2. ~ \E t \in Thread : Create(t) \/ Worker(t) BY <2>1, DoneStays DEF callVars
  <2>3. PICK d \in Client : ReadStage(d) \/ WaitForJob(d) \/ CloseJobHandle(d) \/ Called(d)
    BY <2>1, <2>2 DEF MapReduceNext, Over, vars, callVars
  <2>4. CASE Free(d) BY <2>4 DEF Free, JoinInv
  <2>5. CASE FindJoined(d) BY <2>5 DEF FindJoined, Acquires, JoinInv
  <2>6. CASE ReadStage(d) \/ WaitForJob(d) \/ CloseJobHandle(d) \/ ReadCounters(d)
    <3>1. /\ cl[d] \notin {"waiting", "joining"} /\ freed' = freed
          /\ \E place : cl' = [cl EXCEPT ![d] = place]
      BY <2>6 DEF ReadStage, WaitForJob, CloseJobHandle, ReadCounters
    <3>2. \A c \in Client : InWait(c) => InWait(c)' BY <3>1 DEF InWait, JoinInv
    <3>3. QED BY <3>1, <3>2
  <2>7. CASE BeginJoins(d)
    <3>1. freed' = freed /\ cl' = [cl EXCEPT ![d] = "joining"] BY <2>7 DEF BeginJoins
    <3>2. \A c \in Client : InWait(c) => InWait(c)' BY <3>1 DEF InWait, JoinInv
    <3>3. QED BY <3>1, <3>2
  <2>8. CASE Join(d)
    <3>1. cl[d] = "joining" /\ pc[joined] = "done" /\ joined + 1 = numThreads
      BY <2>1, <2>8 DEF Join
    <3>2. \A t \in Thread : t < joined => pc[t] = "done" BY <3>1 DEF JoinInv
    <3>3. joined \in Nat BY <2>0 DEF JoinInv
    <3>4. QED BY <2>0, <3>1, <3>2, <3>3
  <2>9. QED BY <2>3, <2>4, <2>5, <2>6, <2>7, <2>8 DEF Called
<1>2. QED BY JoinInit, NextJoin, <1>1, PTL DEF MapReduceSpec, WaitOutlastsWorkers

=============================================================================
