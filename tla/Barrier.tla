------------------------------- MODULE Barrier -------------------------------
(***************************************************************************)
(* MapReduce_Framework/Barrier.cpp: the barrier at which the threads of a   *)
(* job meet before and after the shuffle.  A step is what a thread does     *)
(* between two moments at which another can interfere: taking the mutex,    *)
(* the part of barrier() it runs with the mutex, waking, and releasing it.  *)
(***************************************************************************)
EXTENDS Integers, FiniteSets

CONSTANTS
  Thread,          \* the threads that use the barrier
  NoThread,        \* the owner of a free mutex
  SpuriousWakeups, \* may pthread_cond_wait return without a broadcast?
  MaxRounds        \* bound: the calls of barrier() that a thread makes

ASSUME BarrierAssumption ==
  /\ IsFiniteSet(Thread)
  /\ NoThread \notin Thread
  /\ SpuriousWakeups \in BOOLEAN
  /\ MaxRounds \in Nat

VARIABLES
  mutex,  \* the owner of the mutex
  count,  \* the threads that have arrived and not been released
  at,     \* where each thread is in barrier()
  round   \* history: the calls each thread has returned from

barrierVars == <<mutex, count, at, round>>

numThreads == Cardinality(Thread)

Place == {"out", "locked", "asleep", "woken", "leaving"}

\* The threads in pthread_cond_wait that no broadcast has reached.
Asleep == {t \in Thread : at[t] = "asleep"}

\* Barrier::Barrier
BarrierInit ==
  /\ mutex = NoThread
  /\ count = 0
  /\ at = [t \in Thread |-> "out"]
  /\ round = [t \in Thread |-> 0]

Lock(t) ==
  /\ at[t] = "out"
  /\ mutex = NoThread
  /\ mutex' = t
  /\ at' = [at EXCEPT ![t] = "locked"]
  /\ UNCHANGED <<count, round>>

\* Mutants: the last thread is not told from the others; it does not reset the
\* count; it wakes only one of the others.
MutantWaitForOneMore(t) ==
  /\ at[t] = "locked"
  /\ count + 1 <= numThreads
  /\ count' = count + 1
  /\ mutex' = NoThread
  /\ at' = [at EXCEPT ![t] = "asleep"]
  /\ UNCHANGED round
MutantNoReset(t) ==
  /\ at[t] = "locked"
  /\ count + 1 >= numThreads
  /\ at' = [u \in Thread |-> IF u = t THEN "leaving"
                             ELSE IF u \in Asleep THEN "woken" ELSE at[u]]
  /\ count' = count + 1
  /\ UNCHANGED <<mutex, round>>
MutantSignal(t) ==
  /\ at[t] = "locked"
  /\ count + 1 >= numThreads
  /\ count' = 0
  /\ \E w \in Asleep \union {t} :
       /\ w = t => Asleep = {}
       /\ at' = [at EXCEPT ![w] = "woken", ![t] = "leaving"]
  /\ UNCHANGED <<mutex, round>>
MutantEarly(t) ==
  /\ at[t] = "locked"
  /\ count + 2 >= numThreads
  /\ count' = 0
  /\ at' = [u \in Thread |-> IF u = t THEN "leaving"
                             ELSE IF u \in Asleep THEN "woken" ELSE at[u]]
  /\ UNCHANGED <<mutex, round>>

\* Not the last to arrive: pthread_cond_wait releases the mutex.
Wait(t) ==
  /\ at[t] = "locked"
  /\ count + 1 < numThreads
  /\ count' = count + 1
  /\ mutex' = NoThread
  /\ at' = [at EXCEPT ![t] = "asleep"]
  /\ UNCHANGED round

\* The last to arrive releases the others.
Broadcast(t) ==
  /\ at[t] = "locked"
  /\ count + 1 >= numThreads
  /\ count' = 0
  /\ at' = [u \in Thread |-> IF u = t THEN "leaving"
                             ELSE IF u \in Asleep THEN "woken" ELSE at[u]]
  /\ UNCHANGED <<mutex, round>>

\* Whom pthread_cond_wait lets go on: POSIX allows it to return unasked.
Released == IF SpuriousWakeups THEN {"woken", "asleep"} ELSE {"woken"}

\* pthread_cond_wait returns with the mutex; the code tests nothing again.
Relock(t) ==
  /\ at[t] \in Released
  /\ mutex = NoThread
  /\ mutex' = t
  /\ at' = [at EXCEPT ![t] = "leaving"]
  /\ UNCHANGED <<count, round>>

Unlock(t) ==
  /\ at[t] = "leaving"
  /\ mutex' = NoThread
  /\ at' = [at EXCEPT ![t] = "out"]
  /\ round' = [round EXCEPT ![t] = @ + 1]
  /\ UNCHANGED count

\* The steps of a thread inside barrier().
Inside(t) == Wait(t) \/ Broadcast(t) \/ Relock(t) \/ Unlock(t)

-----------------------------------------------------------------------------
(* The barrier by itself: every thread calls it MaxRounds times.            *)

Call(t) == round[t] < MaxRounds /\ Lock(t)

Finished == (\A t \in Thread : round[t] = MaxRounds) /\ UNCHANGED barrierVars

BarrierNext == (\E t \in Thread : Call(t) \/ Inside(t)) \/ Finished

BarrierSpec == BarrierInit /\ [][BarrierNext]_barrierVars

\* A thread that can go on does: the operating system runs every thread, and a
\* mutex that is free again and again is obtained.
BarrierFairness == \A t \in Thread :
  /\ WF_barrierVars(Call(t))
  /\ WF_barrierVars(Wait(t) \/ Broadcast(t))
  /\ WF_barrierVars(Relock(t))
  /\ WF_barrierVars(Unlock(t))

FairBarrierSpec == BarrierSpec /\ BarrierFairness

-----------------------------------------------------------------------------
(* Properties.                                                             *)

BarrierTypeOK ==
  /\ mutex \in Thread \union {NoThread}
  /\ count \in 0 .. numThreads
  /\ at \in [Thread -> Place]
  /\ round \in [Thread -> Nat]

\* The count is that of the threads asleep, so that the last arrival is told
\* from the others in every round, also while the slow ones still leave the last.
SleepersCounted == count = Cardinality(Asleep)

\* Nobody is a round ahead of a thread that was not released from the earlier
\* one: a fast thread that calls the barrier again neither steals the wakeup of a
\* slow one nor overtakes it by two rounds.
NobodyAhead ==
  \A t, u \in Thread :
    round[u] < round[t] => round[t] = round[u] + 1 /\ at[u] \in {"woken", "leaving"}

\* The calls that a thread may have returned from as soon as it gets the mutex:
\* the same for all, whatever they do.  With the owner of the mutex where the code
\* holds it, that is the inductive invariant behind these properties.
Turn(t) == IF at[t] \in {"woken", "leaving"} THEN round[t] + 1 ELSE round[t]
BarrierInv ==
  /\ BarrierTypeOK /\ SleepersCounted
  /\ \A t \in Thread : at[t] \in {"locked", "leaving"} <=> mutex = t
  /\ \A t, u \in Thread : Turn(t) = Turn(u)

\* The promise of Rendezvous: a call begins when it is counted, and ends when
\* the thread has left.
Arrived == [t \in Thread |->
              IF at[t] \in {"asleep", "woken", "leaving"} THEN round[t] + 1 ELSE round[t]]

Promise == INSTANCE Rendezvous WITH arrived <- Arrived, passed <- round

KeepsPromise == Promise!Spec

\* Everyone who calls the barrier returns, in every round.
EveryoneReturns == \A t \in Thread : at[t] # "out" ~> at[t] = "out"

=============================================================================
