---------------------------- MODULE BarrierProofs -----------------------------
(***************************************************************************)
(* The barrier implements Rendezvous for any number of threads and rounds,  *)
(* if pthread_cond_wait does not return unasked.                            *)
(***************************************************************************)
EXTENDS Barrier, FiniteSetTheorems, TLAPS

\* The sleepers are finitely many, and one who is not asleep is not counted.
LEMMA SleepersLemma ==
  ASSUME NEW S \in SUBSET Thread, NEW t \in Thread, t \notin S
  PROVE  /\ IsFiniteSet(S) /\ Cardinality(S) \in Nat /\ numThreads \in Nat
         /\ Cardinality(S) + 1 <= numThreads
         /\ Cardinality(S \union {t}) = Cardinality(S) + 1
         /\ Cardinality(S) + 1 >= numThreads => S = Thread \ {t}
<1>1. /\ IsFiniteSet(S) /\ IsFiniteSet(Thread) /\ IsFiniteSet(S \union {t})
      /\ Cardinality(S) \in Nat /\ Cardinality(Thread) \in Nat
  BY BarrierAssumption, FS_Subset, FS_AddElement, FS_CardinalityType
<1>2. Cardinality(S \union {t}) = Cardinality(S) + 1
  BY <1>1, FS_AddElement
<1>3. Cardinality(S \union {t}) <= Cardinality(Thread)
  BY <1>1, FS_Subset
<1>4. Cardinality(S \union {t}) = Cardinality(Thread) => S \union {t} = Thread
  BY <1>1, FS_Subset
<1>5. QED BY <1>1, <1>2, <1>3, <1>4 DEF numThreads

LEMMA InitInv == BarrierInit => BarrierInv
<1> SUFFICES ASSUME BarrierInit PROVE BarrierInv
  OBVIOUS
<1>1. Asleep = {} /\ Cardinality({}) = 0 /\ numThreads \in Nat
  BY BarrierAssumption, FS_EmptySet, FS_CardinalityType DEF BarrierInit, Asleep, numThreads
<1>2. BarrierTypeOK /\ SleepersCounted
  BY <1>1 DEF BarrierInit, BarrierTypeOK, SleepersCounted, Place
<1>3. QED BY <1>2, BarrierAssumption DEF BarrierInit, BarrierInv, Turn

LEMMA LockStep ==
  ASSUME BarrierInv, NEW t \in Thread, Lock(t) PROVE BarrierInv' /\ UNCHANGED Arrived
<1> USE BarrierAssumption DEF BarrierInv, BarrierTypeOK, Lock
<1>1. /\ mutex' = t /\ count' = count /\ round' = round
      /\ at \in [Thread -> Place] /\ at[t] = "out" /\ at' = [at EXCEPT ![t] = "locked"]
  OBVIOUS
<1>2. Asleep' = Asleep BY <1>1 DEF Asleep
<1>3. BarrierTypeOK' /\ SleepersCounted' BY <1>1, <1>2 DEF Place, SleepersCounted
<1>4. \A u \in Thread : Turn(u)' = Turn(u) BY <1>1 DEF Turn
<1>5. \A u \in Thread : at'[u] \in {"locked", "leaving"} <=> mutex' = u BY <1>1
<1>6. UNCHANGED Arrived BY <1>1 DEF Arrived
<1>7. QED BY <1>3, <1>4, <1>5, <1>6

LEMMA WaitStep ==
  ASSUME BarrierInv, NEW t \in Thread, Wait(t)
  PROVE  /\ BarrierInv' /\ UNCHANGED round
         /\ Arrived[t] = round[t] /\ Arrived' = [Arrived EXCEPT ![t] = @ + 1]
<1> USE BarrierAssumption DEF BarrierInv, BarrierTypeOK
<1>1. /\ mutex = t /\ mutex' = NoThread /\ count' = count + 1 /\ round' = round
      /\ round \in [Thread -> Nat] /\ at \in [Thread -> Place]
      /\ at[t] = "locked" /\ at' = [at EXCEPT ![t] = "asleep"]
  BY DEF Wait
<1>2. Asleep' = Asleep \union {t} /\ t \notin Asleep /\ Asleep \in SUBSET Thread
  BY <1>1 DEF Asleep
<1>3. Cardinality(Asleep') = Cardinality(Asleep) + 1 /\ Cardinality(Asleep) \in Nat
      /\ Cardinality(Asleep) + 1 <= numThreads /\ numThreads \in Nat
  BY <1>2, SleepersLemma
<1>4. SleepersCounted' BY <1>1, <1>3 DEF SleepersCounted
<1>5. count' \in 0 .. numThreads BY <1>1, <1>3 DEF SleepersCounted
<1>6. BarrierTypeOK' BY <1>1, <1>5 DEF Place, numThreads
<1>7. \A u \in Thread : Turn(u)' = Turn(u) BY <1>1 DEF Turn
<1>8. \A u \in Thread : at'[u] \in {"locked", "leaving"} <=> mutex' = u BY <1>1
<1>9. Arrived[t] = round[t] /\ Arrived' = [Arrived EXCEPT ![t] = @ + 1]
  BY <1>1 DEF Arrived
<1>10. QED BY <1>1, <1>4, <1>6, <1>7, <1>8, <1>9

\* All the others are asleep: nobody is left behind by the broadcast.
LEMMA BroadcastStep ==
  ASSUME BarrierInv, NEW t \in Thread, Broadcast(t)
  PROVE  /\ BarrierInv' /\ UNCHANGED round
         /\ Arrived[t] = round[t] /\ Arrived' = [Arrived EXCEPT ![t] = @ + 1]
<1> USE BarrierAssumption DEF BarrierInv, BarrierTypeOK
<1>1. /\ mutex = t /\ mutex' = mutex /\ count' = 0 /\ round' = round
      /\ round \in [Thread -> Nat] /\ at \in [Thread -> Place] /\ at[t] = "locked"
      /\ count + 1 >= numThreads
  BY DEF Broadcast
<1>2. t \notin Asleep /\ Asleep \in SUBSET Thread
  BY <1>1 DEF Asleep
<1>3. Asleep = Thread \ {t} /\ numThreads \in Nat
  BY <1>1, <1>2, SleepersLemma DEF SleepersCounted
<1>4. \A u \in Thread \ {t} : at[u] = "asleep"
  BY <1>3 DEF Asleep
<1>5. at' = [u \in Thread |-> IF u = t THEN "leaving" ELSE "woken"]
  BY <1>3, <1>4 DEF Broadcast
<1>6. Asleep' = {} /\ Cardinality({}) = 0
  BY <1>5, FS_EmptySet DEF Asleep
<1>7. SleepersCounted' BY <1>1, <1>6 DEF SleepersCounted
<1>8. BarrierTypeOK' BY <1>1, <1>3, <1>5 DEF Place, numThreads
<1>9. \A u \in Thread : Turn(u) = round[u] /\ Turn(u)' = round[u] + 1
  BY <1>1, <1>4, <1>5 DEF Turn
<1>10. \A u, v \in Thread : Turn(u)' = Turn(v)' BY <1>9
<1>11. \A u \in Thread : at'[u] \in {"locked", "leaving"} <=> mutex' = u
  BY <1>1, <1>5
<1>12. Arrived[t] = round[t] /\ Arrived' = [Arrived EXCEPT ![t] = @ + 1]
  BY <1>1, <1>4, <1>5 DEF Arrived
<1>13. QED BY <1>1, <1>7, <1>8, <1>10, <1>11, <1>12

LEMMA RelockStep ==
  ASSUME SpuriousWakeups = FALSE, BarrierInv, NEW t \in Thread, Relock(t)
  PROVE  BarrierInv' /\ UNCHANGED <<Arrived, round>>
<1> USE BarrierAssumption DEF BarrierInv, BarrierTypeOK
<1>1. /\ mutex = NoThread /\ mutex' = t /\ count' = count /\ round' = round
      /\ at \in [Thread -> Place] /\ at[t] = "woken" /\ at' = [at EXCEPT ![t] = "leaving"]
  BY DEF Relock, Released
<1>2. Asleep' = Asleep BY <1>1 DEF Asleep
<1>3. BarrierTypeOK' /\ SleepersCounted' BY <1>1, <1>2 DEF Place, SleepersCounted
<1>4. \A u \in Thread : Turn(u)' = Turn(u) BY <1>1 DEF Turn
<1>5. \A u \in Thread : at'[u] \in {"locked", "leaving"} <=> mutex' = u BY <1>1
<1>6. UNCHANGED Arrived BY <1>1 DEF Arrived
<1>7. QED BY <1>1, <1>3, <1>4, <1>5, <1>6

\* Everybody has made the call from which t returns.
LEMMA UnlockStep ==
  ASSUME BarrierInv, NEW t \in Thread, Unlock(t)
  PROVE  /\ BarrierInv' /\ UNCHANGED Arrived
         /\ round[t] < Arrived[t] /\ \A u \in Thread : Arrived[u] >= Arrived[t]
         /\ round' = [round EXCEPT ![t] = @ + 1]
<1> USE BarrierAssumption DEF BarrierInv, BarrierTypeOK
<1>1. /\ mutex = t /\ mutex' = NoThread /\ count' = count
      /\ round \in [Thread -> Nat] /\ round' = [round EXCEPT ![t] = @ + 1]
      /\ at \in [Thread -> Place] /\ at[t] = "leaving" /\ at' = [at EXCEPT ![t] = "out"]
  BY DEF Unlock
<1>2. Asleep' = Asleep BY <1>1 DEF Asleep
<1>3. BarrierTypeOK' /\ SleepersCounted' BY <1>1, <1>2 DEF Place, SleepersCounted
<1>4. \A u \in Thread : Turn(u)' = Turn(u) BY <1>1 DEF Turn
<1>5. \A u \in Thread : at'[u] \in {"locked", "leaving"} <=> mutex' = u BY <1>1
<1>6. Arrived' = Arrived BY <1>1 DEF Arrived
<1>7. Arrived[t] = Turn(t) /\ round[t] < Arrived[t] BY <1>1 DEF Arrived, Turn
<1>8. \A u \in Thread : Arrived[u] >= Turn(u) BY <1>1 DEF Arrived, Turn
<1>9. \A u \in Thread : Turn(u) = Turn(t) OBVIOUS
<1>10. QED BY <1>1, <1>3, <1>4, <1>5, <1>6, <1>7, <1>8, <1>9

\* A step of the barrier keeps the invariant and is a step of the promise.
LEMMA NextStep ==
  ASSUME SpuriousWakeups = FALSE, BarrierInv, [BarrierNext]_barrierVars
  PROVE  BarrierInv' /\ [Promise!Next]_<<Arrived, round>>
<1>1. ASSUME NEW t \in Thread, Call(t) PROVE BarrierInv' /\ UNCHANGED <<Arrived, round>>
  BY <1>1, LockStep DEF Call, Lock
<1>2. ASSUME NEW t \in Thread, Wait(t) PROVE BarrierInv' /\ Promise!Arrive(t)
  BY <1>2, WaitStep DEF Promise!Arrive
<1>3. ASSUME NEW t \in Thread, Broadcast(t) PROVE BarrierInv' /\ Promise!Arrive(t)
  BY <1>3, BroadcastStep DEF Promise!Arrive
<1>4. ASSUME NEW t \in Thread, Relock(t) PROVE BarrierInv' /\ UNCHANGED <<Arrived, round>>
  BY <1>4, RelockStep
<1>5. ASSUME NEW t \in Thread, Unlock(t) PROVE BarrierInv' /\ Promise!Pass(t)
  BY <1>5, UnlockStep DEF Promise!Pass
<1>6. CASE UNCHANGED barrierVars
  <2>1. UNCHANGED <<mutex, count, at, round>> BY <1>6 DEF barrierVars
  <2>2. BarrierInv'
    BY <2>1 DEF BarrierInv, BarrierTypeOK, SleepersCounted, Asleep, Turn
  <2>3. UNCHANGED <<Arrived, round>> BY <2>1 DEF Arrived
  <2>4. QED BY <2>2, <2>3
<1>7. QED
  BY <1>1, <1>2, <1>3, <1>4, <1>5, <1>6 DEF BarrierNext, Inside, Finished, Promise!Next

\* The count, the mutex and the turns of the threads always agree.
THEOREM BarrierSafe == ASSUME SpuriousWakeups = FALSE PROVE BarrierSpec => []BarrierInv
<1>1. BarrierInv /\ [BarrierNext]_barrierVars => BarrierInv' BY NextStep
<1>2. QED BY InitInv, <1>1, PTL DEF BarrierSpec

\* The count is that of the threads asleep, so that the last arrival is recognised
\* in every round, also while threads of the last one still leave (barrier).
THEOREM CountIsOfSleepers ==
  ASSUME SpuriousWakeups = FALSE PROVE BarrierSpec => []SleepersCounted
<1>1. BarrierInv => SleepersCounted BY DEF BarrierInv
<1>2. QED BY <1>1, BarrierSafe, PTL

\* Nobody is a round ahead of a thread that was not released: barrier() keeps
\* together any number of threads for any number of rounds.
THEOREM NobodyEverAhead == ASSUME SpuriousWakeups = FALSE PROVE BarrierSpec => []NobodyAhead
<1>1. ASSUME BarrierInv PROVE NobodyAhead
  <2>1. ASSUME NEW t \in Thread, NEW u \in Thread, round[u] < round[t]
        PROVE  round[t] = round[u] + 1 /\ at[u] \in {"woken", "leaving"}
    <3>1. Turn(t) = Turn(u) /\ round[t] \in Nat /\ round[u] \in Nat
      BY <1>1 DEF BarrierInv, BarrierTypeOK
    <3>2. QED BY <2>1, <3>1 DEF Turn
  <2>2. QED BY <2>1 DEF NobodyAhead
<1>2. QED BY <1>1, BarrierSafe, PTL

\* Barrier.cpp is the "multiple use barrier" that Barrier.h names: nobody returns
\* from a call that somebody has still to make.
THEOREM BarrierKeepsPromise ==
  ASSUME SpuriousWakeups = FALSE PROVE BarrierSpec => KeepsPromise
<1>1. BarrierInit => Promise!Init
  BY DEF BarrierInit, Promise!Init, Arrived
<1>2. BarrierInv /\ [BarrierNext]_barrierVars => [Promise!Next]_<<Arrived, round>>
  BY NextStep
<1>3. QED
  BY <1>1, <1>2, BarrierSafe, PTL DEF BarrierSpec, KeepsPromise, Promise!Spec

=============================================================================
