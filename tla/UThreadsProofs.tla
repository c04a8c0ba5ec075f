--------------------------- MODULE UThreadsProofs ---------------------------
(***************************************************************************)
(* Proofs about UThreads, for every set of cells, every limit on the        *)
(* threads and every choice of the points where the timer strikes, those    *)
(* inside uthread_spawn included.  They are about ConsiderateSpec: no       *)
(* thread blocks or terminates one that uthread_spawn is still creating,    *)
(* or terminates one that is inside uthread_spawn.                          *)
(***************************************************************************)
EXTENDS UThreads, FiniteSetTheorems, SequenceTheorems, WellFoundedInduction, TLAPS

-----------------------------------------------------------------------------
(* Lemmas about the operations on the queue.                               *)

\* Pushing a thread that is not in the queue keeps the entries distinct.
LEMMA PushLemma ==
  ASSUME NEW S, NEW q \in Seq(S), NEW e \in S, IsInjective(q), ~Contains(q, e)
  PROVE  /\ Append(q, e) \in Seq(S)
         /\ Append(q, e) # << >>
         /\ IsInjective(Append(q, e))
         /\ \A x : Contains(Append(q, e), x) <=> Contains(q, x) \/ x = e
<1>1. /\ Append(q, e) \in Seq(S)
      /\ Append(q, e) # << >>
      /\ Len(Append(q, e)) = Len(q) + 1
      /\ \A i \in 1 .. Len(q) : Append(q, e)[i] = q[i]
      /\ Append(q, e)[Len(q) + 1] = e
  BY AppendProperties
<1>2. DOMAIN q = 1 .. Len(q) /\ DOMAIN Append(q, e) = 1 .. (Len(q) + 1) /\ Len(q) \in Nat
  BY <1>1, LenProperties
<1>3. IsInjective(Append(q, e))
  BY <1>1, <1>2 DEF IsInjective, Contains
<1>4. ASSUME NEW x PROVE Contains(Append(q, e), x) <=> Contains(q, x) \/ x = e
  BY <1>1, <1>2 DEF Contains
<1>5. QED BY <1>1, <1>3, <1>4

\* Popping the head removes exactly that entry.
LEMMA PopLemma ==
  ASSUME NEW S, NEW q \in Seq(S), IsInjective(q), q # << >>
  PROVE  /\ Head(q) \in S
         /\ Contains(q, Head(q))
         /\ Tail(q) \in Seq(S)
         /\ IsInjective(Tail(q))
         /\ \A x : Contains(Tail(q), x) <=> Contains(q, x) /\ x # Head(q)
<1>1. /\ Head(q) \in S
      /\ Head(q) = q[1]
      /\ Tail(q) \in Seq(S)
      /\ Len(Tail(q)) = Len(q) - 1
      /\ \A i \in 1 .. Len(Tail(q)) : Tail(q)[i] = q[i + 1]
  BY HeadTailProperties
<1>2. /\ DOMAIN q = 1 .. Len(q)
      /\ DOMAIN Tail(q) = 1 .. (Len(q) - 1)
      /\ Len(q) \in Nat \ {0}
  BY <1>1, LenProperties, EmptySeq
<1>3. IsInjective(Tail(q))
  BY <1>1, <1>2 DEF IsInjective
<1>4. ASSUME NEW x PROVE Contains(Tail(q), x) <=> Contains(q, x) /\ x # Head(q)
  <2>1. ASSUME Contains(Tail(q), x) PROVE Contains(q, x) /\ x # Head(q)
    <3>1. PICK i \in 1 .. (Len(q) - 1) : q[i + 1] = x
      BY <1>1, <1>2, <2>1 DEF Contains
    <3>2. i + 1 \in 1 .. Len(q) /\ i + 1 # 1 /\ 1 \in 1 .. Len(q)
      BY <1>2
    <3>3. QED BY <1>1, <1>2, <3>1, <3>2 DEF Contains, IsInjective
  <2>2. ASSUME Contains(q, x), x # Head(q) PROVE Contains(Tail(q), x)
    <3>1. PICK i \in 1 .. Len(q) : q[i] = x
      BY <2>2 DEF Contains
    <3>2. i # 1 /\ i - 1 \in 1 .. (Len(q) - 1) /\ (i - 1) + 1 = i
      BY <1>1, <1>2, <2>2, <3>1
    <3>3. QED BY <1>1, <1>2, <3>1, <3>2 DEF Contains
  <2>3. QED BY <2>1, <2>2
<1>5. Contains(q, Head(q))
  BY <1>1, <1>2 DEF Contains
<1>6. QED BY <1>1, <1>3, <1>4, <1>5

\* Two queues without a common entry, one behind the other.
LEMMA JoinLemma ==
  ASSUME NEW S, NEW p \in Seq(S), NEW q \in Seq(S), IsInjective(p), IsInjective(q),
         \A x : ~(Contains(p, x) /\ Contains(q, x))
  PROVE  /\ p \o q \in Seq(S)
         /\ IsInjective(p \o q)
         /\ \A x : Contains(p \o q, x) <=> Contains(p, x) \/ Contains(q, x)
<1>1. /\ p \o q \in Seq(S)
      /\ Len(p \o q) = Len(p) + Len(q)
      /\ \A i \in 1 .. (Len(p) + Len(q)) :
           (p \o q)[i] = IF i <= Len(p) THEN p[i] ELSE q[i - Len(p)]
  BY ConcatProperties
<1>2. /\ DOMAIN p = 1 .. Len(p) /\ DOMAIN q = 1 .. Len(q)
      /\ DOMAIN (p \o q) = 1 .. (Len(p) + Len(q))
      /\ Len(p) \in Nat /\ Len(q) \in Nat
  BY <1>1, LenProperties
<1>3. IsInjective(p \o q)
  <2>1. SUFFICES ASSUME NEW i \in 1 .. (Len(p) + Len(q)), NEW j \in 1 .. (Len(p) + Len(q)),
                        (p \o q)[i] = (p \o q)[j]
                 PROVE  i = j
    BY <1>2 DEF IsInjective
  <2>2. CASE i <= Len(p) /\ j <= Len(p)
    BY <1>1, <1>2, <2>1, <2>2 DEF IsInjective
  <2>3. CASE i > Len(p) /\ j > Len(p)
    <3>1. i - Len(p) \in 1 .. Len(q) /\ j - Len(p) \in 1 .. Len(q)
      BY <1>2, <2>3
    <3>2. i - Len(p) = j - Len(p)
      BY <1>1, <1>2, <2>1, <2>3, <3>1 DEF IsInjective
    <3>3. QED BY <1>2, <3>2
  <2>4. CASE i <= Len(p) /\ j > Len(p)
    <3>1. i \in 1 .. Len(p) /\ j - Len(p) \in 1 .. Len(q) BY <1>2, <2>4
    <3>2. p[i] = q[j - Len(p)] BY <1>1, <1>2, <2>1, <2>4
    <3>3. Contains(p, p[i]) /\ Contains(q, p[i]) BY <3>1, <3>2 DEF Contains
    <3>4. QED BY <3>3
  <2>5. CASE i > Len(p) /\ j <= Len(p)
    <3>1. j \in 1 .. Len(p) /\ i - Len(p) \in 1 .. Len(q) BY <1>2, <2>5
    <3>2. p[j] = q[i - Len(p)] BY <1>1, <1>2, <2>1, <2>5
    <3>3. Contains(p, p[j]) /\ Contains(q, p[j]) BY <3>1, <3>2 DEF Contains
    <3>4. QED BY <3>3
  <2>6. QED BY <1>2, <2>2, <2>3, <2>4, <2>5
<1>4. ASSUME NEW x PROVE Contains(p \o q, x) <=> Contains(p, x) \/ Contains(q, x)
  <2>1. ASSUME Contains(p \o q, x) PROVE Contains(p, x) \/ Contains(q, x)
    <3>1. PICK i \in 1 .. (Len(p) + Len(q)) : (p \o q)[i] = x
      BY <1>1, <2>1 DEF Contains
    <3>2. CASE i <= Len(p)
      BY <1>1, <1>2, <3>1, <3>2 DEF Contains
    <3>3. CASE i > Len(p)
      <4>1. i - Len(p) \in 1 .. Len(q) BY <1>2, <3>3
      <4>2. QED BY <1>1, <1>2, <3>1, <3>3, <4>1 DEF Contains
    <3>4. QED BY <1>2, <3>2, <3>3
  <2>2. ASSUME Contains(p, x) PROVE Contains(p \o q, x)
    <3>1. PICK i \in 1 .. Len(p) : p[i] = x BY <2>2 DEF Contains
    <3>2. i \in 1 .. (Len(p) + Len(q)) /\ i <= Len(p) BY <1>2
    <3>3. QED BY <1>1, <3>1, <3>2 DEF Contains
  <2>3. ASSUME Contains(q, x) PROVE Contains(p \o q, x)
    <3>1. PICK i \in 1 .. Len(q) : q[i] = x BY <2>3 DEF Contains
    <3>2. /\ i + Len(p) \in 1 .. (Len(p) + Len(q))
          /\ ~(i + Len(p) <= Len(p))
          /\ (i + Len(p)) - Len(p) = i
      BY <1>2
    <3>3. QED BY <1>1, <3>1, <3>2 DEF Contains
  <2>4. QED BY <2>1, <2>2, <2>3
<1>5. QED BY <1>1, <1>3, <1>4

\* A stretch of a queue.
LEMMA StretchLemma ==
  ASSUME NEW S, NEW q \in Seq(S), IsInjective(q), NEW m \in 1 .. Len(q) + 1,
         NEW n \in 0 .. Len(q)
  PROVE  /\ SubSeq(q, m, n) \in Seq(S)
         /\ IsInjective(SubSeq(q, m, n))
         /\ \A x : Contains(SubSeq(q, m, n), x) <=> \E k \in m .. n : q[k] = x
<1> DEFINE p == SubSeq(q, m, n)
<1>1. Len(q) \in Nat /\ DOMAIN q = 1 .. Len(q) /\ m \in Int /\ n \in Int
  BY LenProperties
<1>2. \A k \in m .. n : q[k] \in S
  BY <1>1, ElementOfSeq
<1>3. /\ p \in Seq(S)
      /\ Len(p) = IF m <= n THEN n - m + 1 ELSE 0
      /\ \A k \in 1 .. n - m + 1 : p[k] = q[m + k - 1]
  BY <1>1, <1>2, SubSeqProperties
<1>4. DOMAIN p = 1 .. Len(p) /\ 1 .. Len(p) = 1 .. n - m + 1
  BY <1>1, <1>3, LenProperties
<1> HIDE DEF p
<1>5. IsInjective(p)
  <2>1. SUFFICES ASSUME NEW k \in 1 .. n - m + 1, NEW l \in 1 .. n - m + 1, p[k] = p[l]
                 PROVE  k = l
    BY <1>4 DEF IsInjective
  <2>2. m + k - 1 \in 1 .. Len(q) /\ m + l - 1 \in 1 .. Len(q)
    BY <1>1
  <2>3. m + k - 1 = m + l - 1
    BY <1>1, <1>3, <2>1, <2>2 DEF IsInjective
  <2>4. QED BY <1>1, <2>3
<1>6. ASSUME NEW x PROVE Contains(p, x) <=> \E k \in m .. n : q[k] = x
  <2>1. ASSUME NEW k \in 1 .. n - m + 1, p[k] = x PROVE \E l \in m .. n : q[l] = x
    <3>1. m + k - 1 \in m .. n BY <1>1
    <3>2. QED BY <1>3, <2>1, <3>1
  <2>2. ASSUME NEW l \in m .. n, q[l] = x PROVE \E k \in 1 .. n - m + 1 : p[k] = x
    <3>1. l - m + 1 \in 1 .. n - m + 1 /\ m + (l - m + 1) - 1 = l BY <1>1
    <3>2. QED BY <1>3, <2>2, <3>1
  <2>3. QED BY <1>4, <2>1, <2>2 DEF Contains
<1>7. QED BY <1>3, <1>5, <1>6 DEF p

\* Removing one entry leaves the others.
LEMMA RemoveAtLemma ==
  ASSUME NEW S, NEW q \in Seq(S), IsInjective(q), NEW i \in 1 .. Len(q)
  PROVE  /\ RemoveAt(q, i) \in Seq(S)
         /\ IsInjective(RemoveAt(q, i))
         /\ \A x : Contains(RemoveAt(q, i), x) <=> Contains(q, x) /\ x # q[i]
<1> DEFINE a == SubSeq(q, 1, i - 1)
           b == SubSeq(q, i + 1, Len(q))
<1>1. Len(q) \in Nat /\ DOMAIN q = 1 .. Len(q)
  BY LenProperties
<1>2. /\ i - 1 \in 0 .. Len(q) /\ i + 1 \in 1 .. Len(q) + 1
      /\ 1 \in 1 .. Len(q) + 1 /\ Len(q) \in 0 .. Len(q)
  BY <1>1
<1>3. /\ a \in Seq(S) /\ IsInjective(a)
      /\ \A x : Contains(a, x) <=> \E k \in 1 .. i - 1 : q[k] = x
  BY <1>2, StretchLemma
<1>4. /\ b \in Seq(S) /\ IsInjective(b)
      /\ \A x : Contains(b, x) <=> \E k \in i + 1 .. Len(q) : q[k] = x
  BY <1>2, StretchLemma
<1> HIDE DEF a, b
<1>5. \A x : ~(Contains(a, x) /\ Contains(b, x))
  <2>1. ASSUME NEW k \in 1 .. i - 1, NEW l \in i + 1 .. Len(q) PROVE q[k] # q[l]
    <3>1. k \in 1 .. Len(q) /\ l \in 1 .. Len(q) /\ k # l BY <1>1
    <3>2. QED BY <1>1, <3>1 DEF IsInjective
  <2>2. QED BY <1>3, <1>4, <2>1
<1>6. /\ a \o b \in Seq(S)
      /\ IsInjective(a \o b)
      /\ \A x : Contains(a \o b, x) <=> Contains(a, x) \/ Contains(b, x)
  BY <1>3, <1>4, <1>5, JoinLemma
<1>7. ASSUME NEW x PROVE Contains(a \o b, x) <=> Contains(q, x) /\ x # q[i]
  <2>1. ASSUME NEW k \in 1 .. Len(q), q[k] = x, x # q[i]
        PROVE  k \in 1 .. i - 1 \/ k \in i + 1 .. Len(q)
    BY <1>1, <2>1
  <2>2. ASSUME NEW k \in 1 .. i - 1 PROVE k \in 1 .. Len(q) /\ q[k] # q[i]
    BY <1>1 DEF IsInjective
  <2>3. ASSUME NEW k \in i + 1 .. Len(q) PROVE k \in 1 .. Len(q) /\ q[k] # q[i]
    BY <1>1 DEF IsInjective
  <2>4. QED BY <1>3, <1>4, <1>6, <2>1, <2>2, <2>3, ZenonT(30) DEF Contains
<1>8. RemoveAt(q, i) = a \o b
  BY DEF RemoveAt, a, b
<1>9. QED BY <1>6, <1>7, <1>8

\* A non-empty set of ids has a least one.
LEMMA LeastTid == ASSUME NEW T \in SUBSET Nat, T # {} PROVE \E i \in T : \A j \in T : i <= j
<1>1. PICK i \in T : \A j \in T : ~(<<j, i>> \in OpToRel(<, Nat))
  BY NatLessThanWellFounded, WFMin
<1>2. \A j \in T : ~(j < i)
  BY <1>1 DEF OpToRel
<1>3. QED BY <1>2

\* uthread_spawn's choice of an id.
LEMMA LowestTidFree == ASSUME FreeTids # {} PROVE LowestTid \in FreeTids
<1>1. FreeTids \subseteq Nat
  BY BoundAssumption DEF FreeTids, Tid
<1>2. \E i \in FreeTids : \A j \in FreeTids : i <= j
  BY <1>1, LeastTid
<1>3. QED BY <1>2 DEF LowestTid

\* The loops over the ready queue remove the thread with the given id.
LEMMA ReadyWithoutLemma ==
  ASSUME NEW tid, ready_queue \in Seq(Thread), IsInjective(ready_queue),
         \A x, y \in Thread : Contains(ready_queue, x) /\ Contains(ready_queue, y) /\ id[x] = id[y]
                                => x = y
  PROVE  /\ ReadyWithout(tid) \in Seq(Thread)
         /\ IsInjective(ReadyWithout(tid))
         /\ \A x : Contains(ReadyWithout(tid), x) <=> Contains(ready_queue, x) /\ id[x] # tid
<1> DEFINE q == ready_queue
           I == {i \in 1 .. Len(q) : id[q[i]] = tid}
<1>1. Len(q) \in Nat
  BY LenProperties
<1>2. CASE I = {}
  <2>1. ReadyWithout(tid) = q BY <1>2 DEF ReadyWithout, RemoveFirstMatch
  <2>2. \A x : Contains(q, x) => id[x] # tid BY <1>2 DEF Contains
  <2>3. QED BY <2>1, <2>2
<1>3. CASE I # {}
  <2>1. ReadyWithout(tid) = RemoveAt(q, Min(I))
    BY <1>3 DEF ReadyWithout, RemoveFirstMatch, SelectInSeq
  <2>2. Min(I) \in I
    <3>1. I \subseteq Nat BY <1>1
    <3>2. \E i \in I : \A j \in I : i <= j BY <1>3, <3>1, LeastTid
    <3>3. QED BY <3>2 DEF Min
  <2>3. \A x : Contains(q, x) => (x # q[Min(I)] <=> id[x] # tid)
    <3>1. q[Min(I)] \in Thread /\ Contains(q, q[Min(I)]) /\ id[q[Min(I)]] = tid
      BY <2>2, ElementOfSeq DEF Contains
    <3>2. \A x : Contains(q, x) => x \in Thread
      BY ElementOfSeq DEF Contains
    <3>3. QED BY <3>1, <3>2
  <2>4. Min(I) \in 1 .. Len(q) BY <2>2
  <2>5. /\ RemoveAt(q, Min(I)) \in Seq(Thread)
        /\ IsInjective(RemoveAt(q, Min(I)))
        /\ \A x : Contains(RemoveAt(q, Min(I)), x) <=> Contains(q, x) /\ x # q[Min(I)]
    BY <2>4, RemoveAtLemma
  <2> HIDE DEF I
  <2>6. QED BY <2>1, <2>3, <2>5
<1>4. QED BY <1>2, <1>3

-----------------------------------------------------------------------------
(* schedule_handler.                                                       *)

\* Dispatch's guard: the running thread still wants the processor.
Stays == ~terminated[running_thread] /\ Settled(running_thread) \notin Away

\* The woken threads in the order in which they are pushed, and the queue with
\* them and with the running thread if it stays.
Woken(order) == [k \in DOMAIN order |-> sleeping_threads[order[k]]]
Line(order)  == LET queue == ready_queue \o Woken(order)
                IN  IF Stays THEN Append(queue, threads[id[running_thread]]) ELSE queue

\* Who is who when the handler begins.
LEMMA RolesLemma ==
  ASSUME SchedulerInv, ~exited
  PROVE  /\ running_thread \in Thread /\ Registered(running_thread)
         /\ id[running_thread] \in Tid
         /\ \A o \in Thread : Registered(o) => ~Freed(o) /\ threads[id[o]] = o /\ id[o] \in Tid
         /\ \A i \in Tid : threads[i] # NoThread => threads[i] \in Thread /\ id[threads[i]] = i
         /\ \A o \in Doomed : /\ ~Registered(o) /\ o # running_thread
                              /\ state[o] = "RUNNING" /\ terminated[o]
         /\ \A o \in Thread : ~Freed(o) => Registered(o) \/ o \in Doomed
<1> USE ThreadAssumption DEF SchedulerInv, TypeOK
<1>1. running_thread \in Thread /\ Registered(running_thread) /\ id[running_thread] \in Tid
  BY DEF RunnerInv, Registered
<1>2. \A o \in Thread : Registered(o) => ~Freed(o) /\ threads[id[o]] = o /\ id[o] \in Tid
  BY DEF OneOwner, Registered
<1>3. \A i \in Tid : threads[i] # NoThread => threads[i] \in Thread /\ id[threads[i]] = i
  BY DEF OneOwner
<1>4. ASSUME NEW o \in Doomed
      PROVE  ~Registered(o) /\ o # running_thread /\ state[o] = "RUNNING" /\ terminated[o]
  <2>1. PICK i \in Tid : o \in Thread /\ termination[i] = o
    BY <1>4 DEF Doomed
  <2>2. ~Freed(o) /\ id[o] = i /\ termination[i] # NoThread
    BY <2>1 DEF OneOwner
  <2>3. ~Registered(o)
    BY <1>2, <2>1, <2>2 DEF OneOwner
  <2>4. QED BY <1>1, <2>1, <2>2, <2>3 DEF TerminationInv
<1>5. ASSUME NEW o \in Thread, ~Freed(o) PROVE Registered(o) \/ o \in Doomed
  BY <1>5 DEF OneOwner, Registered, Doomed
<1>6. QED BY <1>1, <1>2, <1>3, <1>4, <1>5

\* The sleepers are registered, are not about to be freed, and the running
\* thread is not woken by the very call that put it to sleep.
LEMMA SleepersLemma ==
  ASSUME SchedulerInv, ~exited
  PROVE  /\ \A i \in Tid : sleeping_threads[i] # NoThread =>
              /\ sleeping_threads[i] \in Thread /\ sleeping_threads[i] = threads[i]
              /\ id[sleeping_threads[i]] = i
         /\ \A o \in Thread : Sleeping(o) <=> Registered(o) /\ Asleep(o)
         /\ \A o \in Thread : Waking(o) <=> Registered(o) /\ Asleep(o) /\ sleep_quantum[o] = 1
         /\ \A o \in Thread : Waking(o) => o \notin Doomed /\ o # running_thread
<1> USE ThreadAssumption DEF SchedulerInv, TypeOK
<1>1. \A i \in Tid : sleeping_threads[i] # NoThread =>
        /\ sleeping_threads[i] \in Thread /\ sleeping_threads[i] = threads[i]
        /\ id[sleeping_threads[i]] = i
  BY RolesLemma, SMTT(30) DEF SleepersExact
<1>2. \A o \in Thread : Sleeping(o) <=> Registered(o) /\ Asleep(o)
  BY DEF SleepersExact, Sleeping, Registered, Asleep
<1>3. \A o \in Thread : Waking(o) <=> Sleeping(o) /\ sleep_quantum[o] = 1
  BY <1>1 DEF Waking, WakingUp, Sleeping
<1>4. \A o \in Thread : Waking(o) => o \notin Doomed /\ o # running_thread
  <2>1. \A o \in Thread : Waking(o) => o \notin Doomed
    BY <1>2, <1>3, RolesLemma
  <2>2. ~Waking(running_thread)
    <3>1. sleep_quantum[running_thread] = 1 => ~Asleep(running_thread)
      BY DEF RunnerInv, Asleep
    <3>2. QED BY <1>2, <1>3, <3>1, RolesLemma
  <2>3. QED BY <2>1, <2>2
<1>5. QED BY <1>1, <1>2, <1>3, <1>4

\* The woken threads that are pushed: each once.
LEMMA WokenLemma ==
  ASSUME SchedulerInv, ~exited, NEW order \in Ascending(ToReady)
  PROVE  /\ Woken(order) \in Seq(Thread)
         /\ IsInjective(Woken(order))
         /\ \A o \in Thread : Contains(Woken(order), o) <=> Waking(o) /\ state[o] # "SLEEP_BLOCK"
<1> DEFINE n == Cardinality(ToReady)
<1>1. IsFiniteSet(ToReady) /\ n \in Nat
  <2>1. IsFiniteSet(Tid) BY FS_Interval, BoundAssumption DEF Tid
  <2>2. ToReady \subseteq Tid BY DEF ToReady, WakingUp
  <2>3. QED BY <2>1, <2>2, FS_Subset, FS_CardinalityType
<1>2. /\ order \in [1 .. n -> ToReady]
      /\ \A j, k \in 1 .. n : j < k => order[j] < order[k]
      /\ \A i \in ToReady : \E j \in 1 .. n : order[j] = i
  BY DEF Ascending
<1> HIDE DEF n
<1>3. \A i \in ToReady : /\ i \in Tid /\ sleeping_threads[i] \in Thread
                         /\ id[sleeping_threads[i]] = i
  BY SleepersLemma DEF ToReady, WakingUp
<1>4. Woken(order) \in [1 .. n -> Thread] /\ Woken(order) \in Seq(Thread)
  <2>1. Woken(order) \in [1 .. n -> Thread] BY <1>2, <1>3 DEF Woken
  <2>2. QED BY <1>1, <2>1, SeqDef
<1>5. IsInjective(Woken(order))
  <2>1. SUFFICES ASSUME NEW j \in 1 .. n, NEW k \in 1 .. n, Woken(order)[j] = Woken(order)[k]
                 PROVE  j = k
    BY <1>4 DEF IsInjective
  <2>2. order[j] = order[k] BY <1>2, <1>3, <2>1 DEF Woken
  <2>3. order[j] \in Int /\ j \in Int /\ k \in Int BY <1>1, <1>2, <1>3 DEF Tid
  <2>4. QED BY <1>2, <2>2, <2>3
<1>6. ASSUME NEW o \in Thread
      PROVE  Contains(Woken(order), o) <=> Waking(o) /\ state[o] # "SLEEP_BLOCK"
  <2>1. Contains(Woken(order), o) <=> \E k \in 1 .. n : sleeping_threads[order[k]] = o
    <3>1. Len(Woken(order)) = n BY <1>1, <1>4, LenProperties
    <3>2. QED BY <1>2, <3>1 DEF Contains, Woken
  <2>2. (\E k \in 1 .. n : sleeping_threads[order[k]] = o)
          <=> \E i \in ToReady : sleeping_threads[i] = o
    BY <1>2
  <2>3. QED BY <2>1, <2>2 DEF ToReady, Waking
<1>7. QED BY <1>4, <1>5, <1>6

\* Where the handler may leave the thread that it interrupts, or that called it.
Continues(back) ==
  /\ back \in Point \ {"raw"}
  /\ back = at[running_thread] \/ (at[running_thread] = "call" /\ back = "user")

\* Ready when the handler dispatches, and pushed.
InLine(o) == Settled(o) = "READY" /\ ~Unpushed(o)

\* What the handler dispatches from.
LEMMA LineLemma ==
  ASSUME SchedulerInv, ~exited, at[running_thread] # "raw", NEW order \in Ascending(ToReady)
  PROVE  /\ Line(order) \in Seq(Thread)
         /\ Line(order) # << >>
         /\ IsInjective(Line(order))
         /\ \A o \in Thread : Contains(Line(order), o) <=>
              Registered(o) /\ (InLine(o) \/ (Stays /\ o = running_thread))
<1> USE ThreadAssumption DEF SchedulerInv
<1> DEFINE r == running_thread
           q == ready_queue \o Woken(order)
<1>1. /\ ready_queue \in Seq(Thread)
      /\ IsInjective(ready_queue)
      /\ \A o \in Thread : Contains(ready_queue, o) <=> /\ Registered(o) /\ state[o] = "READY"
                                                       /\ ~Unpushed(o)
  BY DEF TypeOK, ReadyQueueExact
<1>11. \A o \in Thread : Unpushed(o) => at[o] = "raw"
  BY DEF SpawnInv, Unpushed, Creating
<1>12. \A o \in Thread : Registered(o) /\ at[o] = "raw" => state[o] = "READY"
  BY RolesLemma DEF SpawnInv, BeingCreated, Registered
<1>2. \A x : ~(Contains(ready_queue, x) /\ Contains(Woken(order), x))
  <2>1. \A x : Contains(ready_queue, x) => x \in Thread
    BY <1>1, ElementOfSeq DEF Contains
  <2>2. QED BY <1>1, <2>1, WokenLemma, SleepersLemma DEF Asleep
<1>3. /\ q \in Seq(Thread)
      /\ IsInjective(q)
      /\ \A x : Contains(q, x) <=> Contains(ready_queue, x) \/ Contains(Woken(order), x)
  BY <1>1, <1>2, WokenLemma, JoinLemma
<1>4. \A o \in Thread : Contains(q, o) <=> Registered(o) /\ InLine(o)
  <2>1. \A o \in Thread : Registered(o) /\ Waking(o) => ~Unpushed(o)
    BY <1>11, <1>12, SleepersLemma DEF Asleep
  <2> HIDE DEF q
  <2>2. \A o \in Thread : Contains(q, o) <=>
          \/ Registered(o) /\ state[o] = "READY" /\ ~Unpushed(o)
          \/ Waking(o) /\ state[o] # "SLEEP_BLOCK"
    BY <1>1, <1>3, WokenLemma
  <2>3. \A o \in Thread : Registered(o) => o \notin Doomed BY RolesLemma
  <2>4. \A o \in Thread : Waking(o) => Registered(o) /\ Asleep(o) BY SleepersLemma
  <2>5. QED BY <2>1, <2>2, <2>3, <2>4 DEF Settled, Asleep, InLine
<1>5. CASE Stays
  <2>1. threads[id[r]] = r /\ r \in Thread /\ Registered(r)
    BY RolesLemma
  <2>2. ~Contains(q, r)
    <3>1. Settled(r) = state[r] BY RolesLemma, SleepersLemma DEF Settled
    <3>2. QED BY <1>4, <2>1, <3>1 DEF RunnerInv, InLine
  <2>3. Line(order) = Append(q, r) BY <1>5, <2>1 DEF Line
  <2> HIDE DEF q
  <2>4. QED BY <1>3, <1>4, <1>5, <2>1, <2>2, <2>3, PushLemma
<1>6. CASE ~Stays
  <2>1. Line(order) = q BY <1>6 DEF Line
  <2>2. Main # r /\ Main \in Thread /\ Registered(Main)
    <3>1. Main \in Thread /\ Registered(Main) /\ id[Main] = 0
      BY RolesLemma, BoundAssumption DEF MainInv, Registered, Tid
    <3>2. Settled(r) = state[r] BY RolesLemma, SleepersLemma DEF Settled
    <3>3. QED BY <1>6, <3>1, <3>2 DEF Stays, MainInv, Away
  <2>3. Settled(Main) = "READY"
    <3>1. state[Main] = "READY"
      BY <2>2, RolesLemma, BoundAssumption DEF MainInv, RunnerInv, Tid
    <3>2. QED BY <2>2, <3>1, RolesLemma, SleepersLemma DEF Settled, Asleep
  <2>4. Contains(q, Main)
    <3>1. ~Unpushed(Main) BY <1>11, <2>2 DEF MainInv
    <3>2. QED BY <1>4, <2>2, <2>3, <3>1 DEF InLine
  <2>5. q # << >>
    BY <2>4, EmptySeq DEF Contains
  <2> HIDE DEF q
  <2>6. QED BY <1>3, <1>4, <1>6, <2>1, <2>5
<1>7. QED BY <1>5, <1>6

\* The number of registered threads when one is removed or added.
LEMMA CountLemma ==
  ASSUME NEW f \in [Tid -> Thread \union {NoThread}], NEW t \in Tid, NEW o \in Thread
  PROVE  LET Used(g) == Cardinality({i \in Tid : g[i] # NoThread})
         IN  /\ f[t] # NoThread => Used([f EXCEPT ![t] = NoThread]) = Used(f) - 1
             /\ f[t] = NoThread => Used([f EXCEPT ![t] = o]) = Used(f) + 1
<1> DEFINE U(g) == {i \in Tid : g[i] # NoThread}
<1>1. IsFiniteSet(U(f))
  <2>1. IsFiniteSet(Tid) BY FS_Interval, BoundAssumption DEF Tid
  <2>2. QED BY <2>1, FS_Subset
<1>2. ASSUME f[t] # NoThread PROVE U([f EXCEPT ![t] = NoThread]) = U(f) \ {t} /\ t \in U(f)
  BY <1>2
<1>3. ASSUME f[t] = NoThread PROVE U([f EXCEPT ![t] = o]) = U(f) \union {t} /\ t \notin U(f)
  BY <1>3, ThreadAssumption
<1>4. /\ Cardinality(U(f) \ {t}) = IF t \in U(f) THEN Cardinality(U(f)) - 1 ELSE Cardinality(U(f))
      /\ Cardinality(U(f) \union {t}) = IF t \in U(f) THEN Cardinality(U(f)) ELSE Cardinality(U(f)) + 1
  BY <1>1, FS_RemoveElement, FS_AddElement
<1>5. QED BY <1>2, <1>3, <1>4

\* One call of the handler, field by field.
LEMMA ScheduleEffect ==
  ASSUME SchedulerInv, ~exited, NEW back, Continues(back), Schedule(back)
  PROVE  LET r == running_thread IN
    /\ ready_queue' \in Seq(Thread)
    /\ IsInjective(ready_queue')
    /\ running_thread' \in Thread /\ Registered(running_thread')
    /\ InLine(running_thread') \/ (Stays /\ running_thread' = r)
    /\ \A o \in Thread : Contains(ready_queue', o) <=>
         /\ Registered(o) /\ o # running_thread'
         /\ InLine(o) \/ (Stays /\ o = r)
    /\ state' = [o \in Thread |-> IF o = running_thread' THEN "RUNNING"
                                  ELSE IF Stays /\ o = r THEN "READY" ELSE Settled(o)]
    /\ quantum' \in [Thread -> 0 .. MaxQuantums]
    /\ threads' = IF terminated[r] THEN [threads EXCEPT ![id[r]] = NoThread] ELSE threads
    /\ termination' = [i \in Tid |-> IF terminated[r] /\ i = id[r] THEN r ELSE NoThread]
    /\ threads_cur_number' = IF terminated[r] THEN threads_cur_number - 1 ELSE threads_cur_number
<1> USE ThreadAssumption
<1> DEFINE r == running_thread
<1>1. PICK order \in Ascending(ToReady) :
        Dispatch(ready_queue \o [k \in DOMAIN order |-> sleeping_threads[order[k]]])
  BY DEF Schedule
<1> DEFINE line == Line(order)
<1>2. /\ ready_queue' = Tail(line)
      /\ running_thread' = Head(line)
      /\ state' = [[o \in Thread |-> IF Stays /\ o = r THEN "READY" ELSE Settled(o)]
                     EXCEPT ![Head(line)] = "RUNNING"]
      /\ quantum' = [Scrub(quantum, Doomed, 0) EXCEPT ![Head(line)] = Counted(@)]
  BY <1>1 DEF Dispatch, Line, Woken, Stays
<1>3. /\ line \in Seq(Thread) /\ line # << >> /\ IsInjective(line)
      /\ \A o \in Thread : Contains(line, o) <=>
           Registered(o) /\ (InLine(o) \/ (Stays /\ o = r))
  BY LineLemma DEF Continues
<1> HIDE DEF line
<1>4. /\ Head(line) \in Thread /\ Contains(line, Head(line))
      /\ Tail(line) \in Seq(Thread) /\ IsInjective(Tail(line))
      /\ \A x : Contains(Tail(line), x) <=> Contains(line, x) /\ x # Head(line)
  BY <1>3, PopLemma
<1>5. /\ ready_queue' \in Seq(Thread) /\ IsInjective(ready_queue')
      /\ running_thread' \in Thread /\ Registered(running_thread')
      /\ InLine(running_thread') \/ (Stays /\ running_thread' = r)
      /\ \A o \in Thread : Contains(ready_queue', o) <=>
           /\ Registered(o) /\ o # running_thread'
           /\ InLine(o) \/ (Stays /\ o = r)
  BY <1>2, <1>3, <1>4
<1>6. state' = [o \in Thread |-> IF o = running_thread' THEN "RUNNING"
                                 ELSE IF Stays /\ o = r THEN "READY" ELSE Settled(o)]
  BY <1>2, <1>4
<1>7. quantum' \in [Thread -> 0 .. MaxQuantums]
  <2>1. quantum \in [Thread -> 0 .. MaxQuantums] /\ MaxQuantums \in Nat \ {0}
    BY BoundAssumption DEF SchedulerInv, TypeOK
  <2>2. QED BY <1>2, <1>4, <2>1 DEF Scrub, Counted
<1>8. /\ threads' = IF terminated[r] THEN [threads EXCEPT ![id[r]] = NoThread] ELSE threads
      /\ termination' = [i \in Tid |-> IF terminated[r] /\ i = id[r] THEN r ELSE NoThread]
      /\ threads_cur_number' = IF terminated[r] THEN threads_cur_number - 1 ELSE threads_cur_number
  <2>1. threads[id[r]] = r BY RolesLemma
  <2>2. CASE terminated[r] BY <2>1, <2>2 DEF Schedule, Retire
  <2>3. CASE ~terminated[r] BY <2>3 DEF Schedule, Retire
  <2>4. QED BY <2>2, <2>3
<1>9. QED BY <1>5, <1>6, <1>7, <1>8

\* The handler preserves the invariant.
LEMMA ScheduleInv ==
  ASSUME SchedulerInv, ~exited, NEW back, Continues(back), Schedule(back)
  PROVE  SchedulerInv'
<1> USE ThreadAssumption
<1> DEFINE r == running_thread
           n == running_thread'
<1>1. /\ threads \in [Tid -> Thread \union {NoThread}]
      /\ state \in [Thread -> States \union {"FREED"}]
      /\ id \in [Thread -> Tid]
      /\ terminated \in [Thread -> BOOLEAN]
      /\ at \in [Thread -> Point]
      /\ sleeping_threads \in [Tid -> Thread \union {NoThread}]
      /\ sleep_quantum \in [Thread -> Int]
      /\ 0 \in Tid
  <2>1. 0 \in Tid BY BoundAssumption DEF Tid
  <2>2. QED BY <2>1 DEF SchedulerInv, TypeOK
<1>2. /\ ready_queue' \in Seq(Thread)
      /\ IsInjective(ready_queue')
      /\ n \in Thread /\ Registered(n)
      /\ Settled(n) = "READY" \/ (Stays /\ n = r)
      /\ \A o \in Thread : Contains(ready_queue', o) <=>
           /\ Registered(o) /\ o # n
           /\ InLine(o) \/ (Stays /\ o = r)
      /\ quantum' \in [Thread -> 0 .. MaxQuantums]
      /\ threads' = IF terminated[r] THEN [threads EXCEPT ![id[r]] = NoThread] ELSE threads
      /\ termination' = [i \in Tid |-> IF terminated[r] /\ i = id[r] THEN r ELSE NoThread]
      /\ threads_cur_number' = IF terminated[r] THEN threads_cur_number - 1 ELSE threads_cur_number
  BY ScheduleEffect DEF InLine
<1>3. state' = [o \in Thread |-> IF o = n THEN "RUNNING"
                                 ELSE IF Stays /\ o = r THEN "READY" ELSE Settled(o)]
  BY ScheduleEffect
<1>4. \A o \in Thread : Settled(o) = IF o \in Doomed THEN "FREED"
                                     ELSE IF ~Waking(o) THEN state[o]
                                     ELSE IF state[o] = "SLEEP_BLOCK" THEN "BLOCKED" ELSE "READY"
  BY DEF Settled
<1>5. /\ id' = [o \in Thread |-> IF o \in Doomed THEN 0 ELSE id[o]]
      /\ terminated' = [o \in Thread |-> IF o \in Doomed THEN FALSE ELSE terminated[o]]
      /\ blocked_threads' = {o \in blocked_threads : id[o] \notin DoomedIds}
  BY DEF Schedule, Reap, Scrub, BlockedWithout
<1>6. /\ at' = [o \in Thread |-> IF o = r THEN back ELSE IF o \in Doomed THEN "raw" ELSE at[o]]
      /\ sleeping_threads' = [i \in Tid |-> IF i \in WakingUp THEN NoThread
                                                              ELSE sleeping_threads[i]]
      /\ sleep_quantum' = [o \in Thread |-> IF Sleeping(o) THEN sleep_quantum[o] - 1
                                                           ELSE sleep_quantum[o]]
      /\ held' = held /\ exited' = exited
      /\ quantums_number' = Counted(quantums_number)
      /\ wake_at' = [o \in Thread |-> IF Waking(o) THEN 0 ELSE wake_at[o]]
  BY RolesLemma DEF Schedule, Scrub
<1>7. \A o \in Thread : Registered(o)' <=> Registered(o) /\ ~(terminated[r] /\ o = r)
  BY <1>1, <1>2, RolesLemma DEF Registered
<1>8. /\ Settled(r) = state[r] /\ state[r] \in {"RUNNING", "BLOCKED", "SLEEP"}
      /\ terminated[r] => state[r] = "RUNNING" /\ ~Stays
      /\ ~Stays => terminated[r] \/ state[r] # "RUNNING"
      /\ r \notin Doomed /\ n \notin Doomed
  BY <1>1, <1>2, <1>4, RolesLemma, SleepersLemma DEF SchedulerInv, RunnerInv, Stays, Away
<1>9. /\ at[r] # "raw" /\ r \in Thread /\ back \in Point \ {"raw"}
      /\ terminated[r] => ~Creating(r) /\ back \notin {"push", "setjmp"}
      /\ \A c \in Thread : /\ at'[c] = "push" <=> at[c] = "push"
                           /\ at'[c] = "setjmp" <=> at[c] = "setjmp"
                           /\ at'[c] = "raw" <=> at[c] = "raw" \/ c \in Doomed
  <2>1. /\ at[r] # "raw" /\ r \in Thread /\ back \in Point \ {"raw"}
        /\ back = at[r] \/ (at[r] = "call" /\ back = "user")
    BY RolesLemma DEF Continues
  <2>2. \A c \in Doomed : ~Creating(c)
    BY ThreadAssumption DEF Doomed, SchedulerInv, TerminationInv
  <2>3. terminated[r] => at[r] = "call"
    BY DEF SchedulerInv, RunnerInv
  <2>4. QED BY <1>6, <1>8, <2>1, <2>2, <2>3 DEF Creating
<1>91. /\ \A c \in Thread : Creating(c)' <=> Creating(c)
       /\ \A o \in Thread : /\ Unpushed(o)' <=> Unpushed(o)
                            /\ BeingCreated(o)' <=> BeingCreated(o)
  <2>1. \A c \in Thread : Creating(c)' <=> Creating(c) BY <1>9 DEF Creating
  <2>2. QED BY <1>6, <1>9, <2>1 DEF Unpushed, BeingCreated
<1>10. TypeOK'
  <2>1. state' \in [Thread -> States \union {"FREED"}]
    BY <1>1, <1>3, <1>4 DEF States
  <2>2. quantums_number' \in 1 .. MaxQuantums
    BY <1>6, BoundAssumption DEF SchedulerInv, TypeOK, Counted
  <2>3. /\ threads' \in [Tid -> Thread \union {NoThread}]
        /\ termination' \in [Tid -> Thread \union {NoThread}]
        /\ sleeping_threads' \in [Tid -> Thread \union {NoThread}]
        /\ threads_cur_number' \in Int
    <3>1. r \in Thread /\ id[r] \in Tid BY RolesLemma
    <3>2. threads' \in [Tid -> Thread \union {NoThread}] BY <1>1, <1>2, <3>1
    <3>3. termination' \in [Tid -> Thread \union {NoThread}]
      <4>1. \A i \in Tid : (IF terminated[r] /\ i = id[r] THEN r ELSE NoThread)
                            \in Thread \union {NoThread}
        BY <3>1
      <4>2. QED BY <1>2, <4>1
    <3>4. sleeping_threads' \in [Tid -> Thread \union {NoThread}] BY <1>1, <1>6
    <3>5. threads_cur_number' \in Int BY <1>2 DEF SchedulerInv, TypeOK
    <3>6. QED BY <3>2, <3>3, <3>4, <3>5
  <2>4. /\ id' \in [Thread -> Tid] /\ terminated' \in [Thread -> BOOLEAN]
        /\ sleep_quantum' \in [Thread -> Int] /\ at' \in [Thread -> Point]
    <3>1. id' \in [Thread -> Tid] /\ terminated' \in [Thread -> BOOLEAN]
      BY <1>1, <1>5
    <3>2. sleep_quantum' \in [Thread -> Int] BY <1>1, <1>6
    <3>3. back \in Point /\ "raw" \in Point BY <1>9 DEF Point
    <3>4. at' \in [Thread -> Point] BY <1>1, <1>6, <3>3
    <3>5. QED BY <3>1, <3>2, <3>4
  <2>5. /\ wake_at' \in [Thread -> Int] /\ blocked_threads' \subseteq Thread
        /\ held' \in [Thread -> Thread \union {NoThread}] /\ exited' \in BOOLEAN
    BY <1>5, <1>6 DEF SchedulerInv, TypeOK
  <2>6. QED BY <1>2, <2>1, <2>2, <2>3, <2>4, <2>5 DEF TypeOK
<1>11. ReadyQueueExact'
  <2>1. ASSUME NEW o \in Thread
        PROVE  Contains(ready_queue', o) <=> /\ Registered(o)' /\ state'[o] = "READY"
                                             /\ ~Unpushed(o)'
    <3>1. ~Unpushed(r)
      BY <1>9 DEF SchedulerInv, SpawnInv, Unpushed, Creating
    <3>2. QED BY <1>2, <1>3, <1>7, <1>8, <1>91, <3>1 DEF InLine
  <2>2. QED BY <1>2, <2>1 DEF ReadyQueueExact, Contains
<1>12. SleepersExact'
  <2>1. SUFFICES ASSUME NEW i \in Tid, NEW o \in Thread
                 PROVE  /\ sleeping_threads'[i] = o <=> /\ threads'[i] = o
                                                        /\ state'[o] \in {"SLEEP", "SLEEP_BLOCK"}
                        /\ sleeping_threads'[i] = o => sleep_quantum'[o] > 0
    BY DEF SleepersExact
  <2>2. sleeping_threads[i] = o <=> threads[i] = o /\ Asleep(o)
    BY DEF SchedulerInv, SleepersExact, Asleep
  <2>3. sleeping_threads[i] = o => sleep_quantum[o] > 0 /\ Sleeping(o) /\ o \notin Doomed
    BY <2>2, RolesLemma, SleepersLemma DEF SchedulerInv, SleepersExact, Sleeping
  <2>4. sleeping_threads[i] = o => (i \in WakingUp <=> Waking(o))
    BY SleepersLemma DEF WakingUp, Waking
  <2>5. sleeping_threads'[i] = o <=> sleeping_threads[i] = o /\ ~Waking(o)
    BY <1>6, <2>4
  <2>6. ASSUME threads[i] = o, o # n
        PROVE  state'[o] \in {"SLEEP", "SLEEP_BLOCK"} <=> Asleep(o) /\ ~Waking(o)
    <3>1. Registered(o) /\ o \notin Doomed BY <2>6, RolesLemma DEF Registered
    <3>2. QED BY <1>3, <1>4, <1>8, <2>6, <3>1 DEF Asleep, Stays, Away
  <2>7. ASSUME o = n, Asleep(o) PROVE Waking(o)
    BY <1>2, <1>4, <1>8, <2>7 DEF Asleep, Stays, Away
  <2>8. threads'[i] = o <=> threads[i] = o /\ ~(terminated[r] /\ o = r)
    BY <1>1, <1>2, RolesLemma
  <2>9. sleeping_threads'[i] = o <=> threads'[i] = o /\ state'[o] \in {"SLEEP", "SLEEP_BLOCK"}
    <3>1. CASE o = n BY <1>3, <2>2, <2>5, <2>7, <3>1
    <3>2. CASE o # n BY <1>8, <2>2, <2>5, <2>6, <2>8, <3>2 DEF Asleep
    <3>3. QED BY <3>1, <3>2
  <2>10. sleeping_threads[i] = o /\ ~Waking(o) => sleep_quantum'[o] > 0
    <3>1. sleeping_threads[i] = o /\ ~Waking(o) => sleep_quantum[o] # 1
      BY <2>2, SleepersLemma DEF Registered
    <3>2. QED BY <1>1, <1>6, <2>3, <3>1
  <2>11. QED BY <2>5, <2>9, <2>10
<1>13. BlockedSound'
  <2>1. ASSUME NEW o \in blocked_threads'
        PROVE  Registered(o)' /\ state'[o] \in {"BLOCKED", "SLEEP_BLOCK"}
    <3>1. /\ o \in Thread /\ o \in blocked_threads /\ Registered(o)
          /\ state[o] \in {"BLOCKED", "SLEEP_BLOCK"} /\ o \notin Doomed
      BY <1>5, <2>1, RolesLemma DEF SchedulerInv, TypeOK, BlockedSound
    <3>2. Settled(o) \in {"BLOCKED", "SLEEP_BLOCK"}
      BY <1>4, <3>1, SleepersLemma DEF Asleep
    <3>3. o # n /\ ~(Stays /\ o = r)
      BY <1>2, <3>1, <3>2 DEF Stays, Away
    <3>4. QED BY <1>3, <1>7, <1>8, <3>1, <3>2, <3>3
  <2>2. ASSUME NEW o \in Thread, state'[o] = "SLEEP_BLOCK" PROVE o \in blocked_threads'
    <3>1. state[o] = "SLEEP_BLOCK" /\ o \notin Doomed
      BY <1>3, <1>4, <2>2
    <3>2. o \in blocked_threads /\ Registered(o)
      BY <3>1 DEF SchedulerInv, BlockedSound
    <3>3. id[o] \in Tid /\ threads[id[o]] = o BY <3>2, RolesLemma
    <3>4. id[o] \notin DoomedIds
      BY <3>1, <3>3 DEF SchedulerInv, TerminationInv, DoomedIds
    <3>5. QED BY <1>5, <3>2, <3>4
  <2>3. QED BY <2>1, <2>2 DEF BlockedSound
<1>14. OneOwner'
  <2>1. \A o \in Thread : Freed(o)' <=> Freed(o) \/ o \in Doomed
    <3>1. Settled(n) # "FREED" /\ state[r] # "FREED" /\ r \in Thread
      BY <1>2, <1>8, RolesLemma
    <3>2. \A o \in Thread : Settled(o) = "FREED" <=> state[o] = "FREED" \/ o \in Doomed
      BY <1>4, SleepersLemma DEF Asleep
    <3>3. QED BY <1>2, <1>3, <1>8, <3>1, <3>2 DEF Freed
  <2>2. ASSUME NEW o \in Thread, ~Freed(o)'
        PROVE  (threads'[id'[o]] = o) # (termination'[id'[o]] = o)
    <3>1. o \notin Doomed /\ Registered(o) /\ id'[o] = id[o] /\ threads[id[o]] = o /\ id[o] \in Tid
      BY <1>5, <2>1, <2>2, RolesLemma
    <3>2. QED BY <1>1, <1>2, <3>1, RolesLemma
  <2>3. ASSUME NEW i \in Tid, NEW o \in Thread, threads'[i] = o \/ termination'[i] = o
        PROVE  ~Freed(o)' /\ id'[o] = i
    <3>1. threads[i] = o
      BY <1>1, <1>2, <2>3, RolesLemma
    <3>2. Registered(o) /\ id[o] = i /\ o \notin Doomed /\ ~Freed(o)
      BY <3>1, RolesLemma DEF Registered
    <3>3. QED BY <1>5, <2>1, <3>2
  <2>4. QED BY <2>2, <2>3 DEF OneOwner
<1>15. CountExact'
  <2>1. threads_cur_number = Cardinality({i \in Tid : threads[i] # NoThread})
    BY DEF SchedulerInv, CountExact
  <2>2. threads[id[r]] = r /\ id[r] \in Tid /\ r \in Thread BY RolesLemma
  <2>3. CASE terminated[r]
    <3>1. Cardinality({i \in Tid : [threads EXCEPT ![id[r]] = NoThread][i] # NoThread})
            = Cardinality({i \in Tid : threads[i] # NoThread}) - 1
      BY <1>1, <2>2, CountLemma, ZenonT(30)
    <3>2. QED BY <1>2, <2>1, <2>3, <3>1 DEF CountExact
  <2>4. CASE ~terminated[r]
    BY <1>2, <2>1, <2>4 DEF CountExact
  <2>5. QED BY <2>3, <2>4
<1>16. MainInv'
  <2>1. threads[0] = Main /\ state[Main] \in {"RUNNING", "READY"} /\ ~terminated[Main]
    BY DEF SchedulerInv, MainInv
  <2>2. Registered(Main) /\ Main \notin Doomed /\ id[Main] = 0 /\ Main \in Thread
    BY <1>1, <2>1, RolesLemma DEF Registered
  <2>3. threads'[0] = Main
    BY <1>1, <1>2, <2>1, RolesLemma
  <2>4. Main = r \/ state[Main] = "READY"
    BY <1>1, <2>1 DEF SchedulerInv, RunnerInv
  <2>5. state'[Main] \in {"RUNNING", "READY"}
    BY <1>3, <1>4, <1>8, <2>1, <2>2, <2>4, SleepersLemma DEF Asleep
  <2>6. at'[Main] # "raw"
    BY <1>9, <2>2 DEF SchedulerInv, MainInv
  <2>7. QED BY <1>5, <2>1, <2>2, <2>3, <2>5, <2>6 DEF MainInv
<1>17. RunnerInv'
  <2>1. threads'[id'[n]] = n
    <3>1. ~(terminated[r] /\ n = r) BY <1>2, <1>8
    <3>2. id'[n] = id[n] /\ threads[id[n]] = n /\ id[n] \in Tid
      BY <1>2, <1>5, <1>8, RolesLemma
    <3>3. QED BY <1>1, <1>2, <3>1, <3>2, RolesLemma
  <2>3. state'[n] = "RUNNING" BY <1>2, <1>3
  <2>4. ~terminated'[n]
    <3>1. n # r => ~terminated[n]
      BY <1>2 DEF SchedulerInv, RunnerInv, Registered
    <3>2. n = r => ~terminated[n] BY <1>2, <1>8
    <3>3. QED BY <1>2, <1>5, <3>1, <3>2
  <2>5. ASSUME NEW i \in Tid, threads'[i] \notin {n, NoThread}
        PROVE  ~terminated'[threads'[i]] /\ state'[threads'[i]] # "RUNNING"
    <3> DEFINE o == threads'[i]
    <3>1. o = threads[i] /\ o \in Thread /\ Registered(o) /\ o \notin Doomed /\ o # n
          /\ ~(terminated[r] /\ o = r)
      BY <1>1, <1>2, <2>5, RolesLemma DEF Registered
    <3> HIDE DEF o
    <3>2. o # r => ~terminated[o] /\ state[o] # "RUNNING"
      BY <3>1 DEF SchedulerInv, RunnerInv, Registered
    <3>3. ~terminated'[o] BY <1>5, <3>1, <3>2
    <3>4. state'[o] # "RUNNING"
      BY <1>3, <1>4, <1>8, <3>1, <3>2
    <3>5. QED BY <3>3, <3>4 DEF o
  <2>6. QED BY <2>1, <2>3, <2>4, <2>5 DEF RunnerInv
<1>18. TerminationInv'
  <2>1. SUFFICES ASSUME NEW i \in Tid, termination'[i] # NoThread
                 PROVE  /\ terminated'[termination'[i]] /\ state'[termination'[i]] = "RUNNING"
                        /\ ~Creating(termination[i])' /\ threads'[i] = NoThread
    BY DEF TerminationInv
  <2>2. terminated[r] /\ i = id[r] /\ termination'[i] = r
    BY <1>2, <2>1
  <2>3. threads'[i] = NoThread BY <1>1, <1>2, <2>2, RolesLemma
  <2>4. n # r /\ r \in Thread BY <1>2, <1>8, <2>2, RolesLemma
  <2>5. ~Creating(termination[i])'
    BY <1>9, <2>2, <2>4 DEF Creating
  <2>6. QED BY <1>3, <1>5, <1>8, <2>2, <2>3, <2>4, <2>5
<1>19. SpawnInv'
  <2>1. ASSUME NEW c \in Thread, Creating(c)'
        PROVE  /\ Registered(c)'
               /\ held'[c] \in Thread
               /\ Registered(held[c])'
               /\ at'[held'[c]] = "raw"
               /\ state'[held'[c]] = "READY" \/ held'[c] = n
    <3>0. PICK o : o = held[c] OBVIOUS
    <3>1. /\ Creating(c) /\ Registered(c) /\ o \in Thread /\ Registered(o) /\ at[o] = "raw"
          /\ state[o] = "READY" /\ o # r
      BY <1>9, <1>91, <2>1, <3>0 DEF SchedulerInv, SpawnInv
    <3>2. Registered(c)' /\ Registered(o)' /\ at'[o] = "raw"
      BY <1>7, <1>9, <3>1
    <3>3. Settled(o) = "READY"
      BY <3>1, RolesLemma, SleepersLemma DEF Settled, Asleep
    <3>4. state'[o] = "READY" \/ o = n BY <1>3, <3>1, <3>3
    <3>5. held'[c] = o BY <1>6, <3>0
    <3>6. QED BY <3>1, <3>2, <3>4, <3>5 DEF Registered
  <2>2. \A c, d \in Thread : Creating(c)' /\ Creating(d)' /\ held'[c] = held'[d] => c = d
    BY <1>6, <1>91 DEF SchedulerInv, SpawnInv
  <2>3. ASSUME NEW i \in Tid, threads'[i] # NoThread, at'[threads'[i]] = "raw"
        PROVE  BeingCreated(threads[i])'
    <3>1. threads'[i] = threads[i] /\ threads[i] \in Thread /\ threads[i] \notin Doomed
      BY <1>1, <1>2, <2>3, RolesLemma DEF Registered
    <3>2. BeingCreated(threads[i])
      BY <1>9, <2>3, <3>1 DEF SchedulerInv, SpawnInv
    <3>3. PICK c \in Thread : Creating(c) /\ held[c] = threads[i]
      BY <3>2 DEF BeingCreated
    <3>4. Creating(c)' /\ held'[c] = threads'[i] BY <1>6, <1>91, <3>1, <3>3
    <3>5. QED BY <3>4 DEF BeingCreated
  <2>4. ASSUME NEW o \in Thread, Freed(o)' PROVE at'[o] = "raw"
    <3>1. Freed(o) \/ o \in Doomed
      <4>1. state[r] # "FREED" /\ Settled(n) # "FREED" BY <1>2, <1>8
      <4>2. QED BY <1>3, <1>4, <2>4 DEF Freed
    <3>2. Freed(o) => at[o] = "raw" BY DEF SchedulerInv, SpawnInv
    <3>3. QED BY <1>9, <3>1, <3>2
  <2>5. QED BY <2>1, <2>2, <2>3, <2>4 DEF SpawnInv
<1>20. QED
  BY <1>10, <1>11, <1>12, <1>13, <1>14, <1>15, <1>16, <1>17, <1>18, <1>19 DEF SchedulerInv

-----------------------------------------------------------------------------
(* The other steps.                                                        *)

\* What holds whenever the running thread is in the user's code.
LEMMA InUserLemma ==
  ASSUME SchedulerInv, InUser
  PROVE  /\ state[running_thread] = "RUNNING" /\ ~terminated[running_thread]
         /\ \A o \in Thread : BeingCreated(o) => state[o] = "READY" /\ o # running_thread
         /\ \A o \in Thread : Unpushed(o) => BeingCreated(o)
  BY DEF SchedulerInv, TypeOK, RunnerInv, SpawnInv, InUser, Unpushed, BeingCreated, Creating

\* The running thread moves between two points outside of uthread_spawn: the calls
\* of it that are under way go on as they were.
LEMMA CreationKept ==
  ASSUME TypeOK, NEW p \in Point \ {"raw", "push", "setjmp"},
         at[running_thread] \notin {"raw", "push", "setjmp"},
         at' = [at EXCEPT ![running_thread] = p],
         \A x \in Thread \ {running_thread} : held'[x] = held[x]
  PROVE  /\ \A x \in Thread : (Creating(x)' <=> Creating(x)) /\ (at'[x] = "raw" <=> at[x] = "raw")
         /\ \A x \in Thread : Creating(x) => held'[x] = held[x]
         /\ \A x \in Thread : Unpushed(x)' <=> Unpushed(x)
<1>1. running_thread \in Thread /\ at \in [Thread -> Point] BY DEF TypeOK
<1>2. \A x \in Thread : /\ at'[x] = "push" <=> at[x] = "push"
                        /\ at'[x] = "setjmp" <=> at[x] = "setjmp"
                        /\ at'[x] = "raw" <=> at[x] = "raw"
                        /\ at[x] \in {"push", "setjmp"} => x # running_thread
  BY <1>1
<1>3. QED BY <1>2 DEF Creating, Unpushed

\* What is being created stays so as long as nobody touches it.
LEMMA SpawnKept ==
  ASSUME SpawnInv, threads' = threads, running_thread' = running_thread,
         \A x \in Thread : (Creating(x)' <=> Creating(x)) /\ (at'[x] = "raw" <=> at[x] = "raw"),
         \A x \in Thread : Creating(x) => held'[x] = held[x],
         \A x \in Thread : BeingCreated(x) /\ state[x] = "READY" => state'[x] = "READY",
         \A x \in Thread : Freed(x)' => Freed(x),
         \A i \in Tid : threads[i] # NoThread => threads[i] \in Thread
  PROVE  SpawnInv'
<1>1. \A x \in Thread : Registered(x)' <=> Registered(x) BY DEF Registered
<1>2. \A x : BeingCreated(x)' <=> BeingCreated(x) BY DEF BeingCreated
<1>3. ASSUME NEW c \in Thread, Creating(c)'
      PROVE  /\ Registered(c)' /\ held'[c] \in Thread /\ Registered(held[c])'
             /\ at'[held'[c]] = "raw"
             /\ state'[held'[c]] = "READY" \/ held'[c] = running_thread'
  <2>1. /\ Creating(c) /\ held'[c] = held[c] /\ held[c] \in Thread /\ BeingCreated(held[c])
        /\ Registered(c) /\ Registered(held[c]) /\ at[held[c]] = "raw"
        /\ state[held[c]] = "READY" \/ held[c] = running_thread
    BY <1>3 DEF SpawnInv, BeingCreated
  <2>2. QED BY <1>1, <2>1
<1>4. QED BY <1>2, <1>3 DEF SpawnInv

LEMMA SpawnStep == ASSUME SchedulerInv, NEW o \in Thread, Spawn(o) PROVE SchedulerInv'
<1> USE ThreadAssumption
<1> DEFINE r == running_thread
           t == LowestTid
<1>1. t \in Tid /\ threads[t] = NoThread
  BY LowestTidFree DEF Spawn, FreeTids
<1> HIDE DEF t
<1>2. /\ threads' = [threads EXCEPT ![t] = o]
      /\ threads_cur_number' = threads_cur_number + 1
      /\ state' = [state EXCEPT ![o] = "READY"]
      /\ id' = [id EXCEPT ![o] = t]
      /\ at' = [at EXCEPT ![r] = "push"]
      /\ held' = [held EXCEPT ![r] = o]
      /\ UNCHANGED <<sleeping_threads, termination, ready_queue, blocked_threads,
                     running_thread, quantums_number, exited, wake_at>>
      /\ quantum' = [quantum EXCEPT ![o] = 0]
      /\ sleep_quantum' = [sleep_quantum EXCEPT ![o] = 0]
      /\ terminated' = [terminated EXCEPT ![o] = FALSE]
      /\ ~exited /\ Freed(o) /\ InUser
  BY DEF Spawn, Goto, t, queues, InUser
<1>3. /\ TypeOK /\ r \in Thread /\ o # r /\ state[o] = "FREED" /\ ~Registered(o) /\ o \notin Doomed
      /\ \A i \in Tid : threads[i] # o /\ termination[i] # o /\ sleeping_threads[i] # o
      /\ at[r] = "user"
  BY <1>2, RolesLemma, InUserLemma, SleepersLemma DEF SchedulerInv, Freed, Registered, Doomed, InUser,
     OneOwner, RunnerInv
<1>4. \A x \in Thread : Registered(x)' <=> Registered(x) \/ x = o
  BY <1>1, <1>2, <1>3 DEF Registered, TypeOK
<1>40. /\ SpawnInv /\ at \in [Thread -> Point] /\ held \in [Thread -> Thread \union {NoThread}]
  BY <1>2, <1>3 DEF SchedulerInv, TypeOK
<1>41. /\ \A c \in Thread : Creating(c)' <=> Creating(c) \/ c = r
       /\ \A c \in Thread : Creating(c) => /\ c # r /\ c # o /\ held'[c] = held[c]
                                          /\ held[c] # o /\ held[c] \in Thread
       /\ held'[r] = o /\ at[o] = "raw"
       /\ \A x \in Thread : at'[x] = IF x = r THEN "push" ELSE at[x]
  BY <1>2, <1>3, <1>40 DEF Creating, SpawnInv
<1>42. \A x \in Thread : Unpushed(x)' <=> Unpushed(x) \/ x = o
  BY <1>3, <1>41 DEF Unpushed, Creating
<1>5. TypeOK'
  BY <1>1, <1>2, <1>3, BoundAssumption DEF TypeOK, States, Point
<1>6. ReadyQueueExact'
  BY <1>2, <1>3, <1>4, <1>42 DEF SchedulerInv, ReadyQueueExact, TypeOK, Contains
<1>7. SleepersExact'
  BY <1>1, <1>2, <1>3, SMTT(30) DEF SchedulerInv, SleepersExact, TypeOK
<1>8. BlockedSound'
  BY <1>2, <1>3, <1>4 DEF SchedulerInv, BlockedSound, TypeOK
<1>9. OneOwner'
  <2>1. /\ state' = [state EXCEPT ![o] = "READY"] /\ state \in [Thread -> States \union {"FREED"}]
        /\ id' = [id EXCEPT ![o] = t] /\ id \in [Thread -> Tid]
        /\ threads' = [threads EXCEPT ![t] = o] /\ threads \in [Tid -> Thread \union {NoThread}]
    BY <1>2, <1>3 DEF TypeOK
  <2>2. \A x \in Thread : ~Freed(x) => (threads[id[x]] = x) # (termination[id[x]] = x)
    BY <1>2 DEF SchedulerInv, OneOwner
  <2>3. \A i \in Tid, x \in Thread : threads[i] = x \/ termination[i] = x => ~Freed(x) /\ id[x] = i
    BY <1>2 DEF SchedulerInv, OneOwner
  <2>4. ASSUME NEW x \in Thread, ~Freed(x)'
        PROVE  (threads'[id'[x]] = x) # (termination'[id'[x]] = x)
    <3>1. CASE x = o BY <1>1, <1>2, <1>3, <2>1, <3>1
    <3>2. CASE x # o
      <4>1. ~Freed(x) /\ id'[x] = id[x] BY <2>1, <2>4, <3>2 DEF Freed
      <4>2. threads'[id[x]] = x <=> threads[id[x]] = x
        BY <1>1, <2>1, <3>2, ThreadAssumption
      <4>3. QED BY <1>2, <2>2, <4>1, <4>2
    <3>3. QED BY <3>1, <3>2
  <2>5. ASSUME NEW i \in Tid, NEW x \in Thread, threads'[i] = x \/ termination'[i] = x
        PROVE  ~Freed(x)' /\ id'[x] = i
    <3>1. CASE x = o BY <1>2, <1>3, <2>1, <2>5, <3>1 DEF Freed
    <3>2. CASE x # o BY <1>2, <2>1, <2>3, <2>5, <3>2 DEF Freed
    <3>3. QED BY <3>1, <3>2
  <2>6. QED BY <2>4, <2>5 DEF OneOwner
<1>10. CountExact'
  <2>1. Cardinality({i \in Tid : [threads EXCEPT ![t] = o][i] # NoThread})
          = Cardinality({i \in Tid : threads[i] # NoThread}) + 1
    <3>1. threads \in [Tid -> Thread \union {NoThread}] BY <1>3 DEF TypeOK
    <3>2. QED BY <1>1, <3>1, CountLemma
  <2>2. QED BY <1>2, <2>1 DEF SchedulerInv, CountExact
<1>11. MainInv'
  BY <1>1, <1>2, <1>3 DEF SchedulerInv, MainInv, TypeOK
<1>12. RunnerInv'
  <2>1. /\ state' = [state EXCEPT ![o] = "READY"] /\ state \in [Thread -> States \union {"FREED"}]
        /\ terminated' = [terminated EXCEPT ![o] = FALSE] /\ terminated \in [Thread -> BOOLEAN]
        /\ threads' = [threads EXCEPT ![t] = o] /\ threads \in [Tid -> Thread \union {NoThread}]
    BY <1>2, <1>3 DEF TypeOK
  <2>2. /\ threads[id[r]] = r /\ id[r] \in Tid /\ id[r] # t /\ id'[r] = id[r]
        /\ at'[r] = "push" /\ state'[r] = "RUNNING" /\ ~terminated'[r]
    BY <1>1, <1>2, <1>3, <2>1, InUserLemma, RolesLemma DEF TypeOK
  <2>3. ASSUME NEW i \in Tid, threads'[i] \notin {r, NoThread}
        PROVE  ~terminated'[threads'[i]] /\ state'[threads'[i]] # "RUNNING"
    <3>1. CASE i = t BY <1>1, <2>1, <3>1
    <3>2. CASE i # t
      <4>1. threads'[i] = threads[i] /\ threads[i] \in Thread /\ threads[i] # o
        BY <1>3, <2>1, <2>3, <3>2
      <4>2. QED BY <1>2, <2>1, <2>3, <4>1 DEF SchedulerInv, RunnerInv
    <3>3. QED BY <3>1, <3>2
  <2>4. QED BY <1>2, <2>1, <2>2, <2>3 DEF RunnerInv
<1>13. TerminationInv'
  <2>1. \A i \in Tid : termination[i] # NoThread =>
          termination[i] \in Thread /\ termination[i] # r /\ termination[i] # o
    BY <1>2, <1>3, RolesLemma DEF TypeOK, Doomed
  <2>2. \A x \in Thread : x # o => state'[x] = state[x] /\ terminated'[x] = terminated[x]
    BY <1>2, <1>3 DEF TypeOK
  <2>3. \A i \in Tid : /\ threads'[i] = IF i = t THEN o ELSE threads[i]
                       /\ threads[i] # NoThread => threads[i] \in Thread /\ threads[i] # o
    BY <1>1, <1>2, <1>3 DEF TypeOK
  <2>4. state'[o] = "READY" BY <1>2, <1>3 DEF TypeOK
  <2>5. QED BY <1>2, <1>3, <1>41, <2>1, <2>2, <2>3, <2>4 DEF SchedulerInv, TerminationInv
<1>14. SpawnInv'
  <2>1. \A x \in Thread : state'[x] = IF x = o THEN "READY" ELSE state[x]
    BY <1>2, <1>3 DEF TypeOK
  <2>2. ASSUME NEW c \in Thread, Creating(c)'
        PROVE  /\ Registered(c)' /\ held'[c] \in Thread /\ Registered(held[c])'
               /\ at'[held'[c]] = "raw"
               /\ state'[held'[c]] = "READY" \/ held'[c] = running_thread'
    <3>1. CASE c = r
      <4>1. Registered(r) BY <1>2, RolesLemma
      <4>2. QED BY <1>3, <1>4, <1>41, <2>1, <3>1, <4>1
    <3>2. CASE c # r
      <4>1. Creating(c) BY <1>41, <2>2, <3>2
      <4>2. /\ Registered(c) /\ Registered(held[c]) /\ at[held[c]] = "raw" /\ held[c] # r
            /\ state[held[c]] = "READY"
        BY <1>3, <1>40, <4>1 DEF SpawnInv
      <4>3. QED BY <1>4, <1>41, <2>1, <4>1, <4>2
    <3>3. QED BY <3>1, <3>2
  <2>3. \A c, d \in Thread : Creating(c)' /\ Creating(d)' /\ held'[c] = held'[d] => c = d
    BY <1>40, <1>41 DEF SpawnInv
  <2>4. \A x \in Thread : BeingCreated(x) \/ x = o => \E c \in Thread : Creating(c)' /\ held'[c] = x
    BY <1>3, <1>41 DEF BeingCreated
  <2>5. ASSUME NEW i \in Tid, threads'[i] # NoThread, at'[threads'[i]] = "raw"
        PROVE  BeingCreated(threads[i])'
    <3>1. CASE i = t
      <4>1. threads'[i] = o BY <1>1, <1>2, <1>3, <3>1 DEF TypeOK
      <4>2. QED BY <1>3, <2>4, <4>1 DEF BeingCreated
    <3>2. CASE i # t
      <4>1. threads'[i] = threads[i] /\ threads[i] \in Thread
        BY <1>1, <1>2, <1>3, <2>5, <3>2 DEF TypeOK
      <4>2. at[threads[i]] = "raw" BY <1>3, <1>41, <2>5, <4>1
      <4>3. BeingCreated(threads[i]) BY <1>40, <2>5, <4>1, <4>2 DEF SpawnInv
      <4>4. QED BY <2>4, <4>1, <4>3 DEF BeingCreated
    <3>3. QED BY <3>1, <3>2
  <2>6. ASSUME NEW x \in Thread, Freed(x)' PROVE at'[x] = "raw"
    <3>1. x # o /\ Freed(x) BY <2>1, <2>6 DEF Freed
    <3>2. x # r BY <1>2, <3>1, RolesLemma
    <3>3. QED BY <1>40, <1>41, <3>1, <3>2 DEF SpawnInv
  <2>7. QED BY <2>2, <2>3, <2>5, <2>6 DEF SpawnInv
<1>15. QED
  BY <1>5, <1>6, <1>7, <1>8, <1>9, <1>10, <1>11, <1>12, <1>13, <1>14 DEF SchedulerInv

LEMMA PushStep == ASSUME SchedulerInv, PushSpawned PROVE SchedulerInv'
<1> USE ThreadAssumption
<1> DEFINE r == running_thread
           o == held[r]
<1>1. /\ ready_queue' = Append(ready_queue, o)
      /\ at' = [at EXCEPT ![r] = "setjmp"]
      /\ UNCHANGED <<maps, blocked_threads, running_thread, quantums_number,
                     threads_cur_number, fields, held, exited, wake_at>>
      /\ ~exited /\ at[r] = "push"
  BY DEF PushSpawned, Goto
<1>2. /\ TypeOK /\ r \in Thread /\ o \in Thread /\ o # r /\ Registered(o) /\ state[o] = "READY"
      /\ ~Contains(ready_queue, o) /\ ready_queue \in Seq(Thread) /\ IsInjective(ready_queue)
  <2>1. r \in Thread /\ Creating(r) BY <1>1, RolesLemma DEF Creating
  <2>2. /\ o \in Thread /\ Registered(o) /\ at[o] = "raw"
        /\ state[o] = "READY" \/ o = r
    BY <1>1, <2>1 DEF SchedulerInv, SpawnInv
  <2>3. Unpushed(o) BY <1>1, <2>1 DEF Unpushed
  <2>4. QED BY <1>1, <2>1, <2>2, <2>3 DEF SchedulerInv, ReadyQueueExact, TypeOK
<1>21. /\ \A c \in Thread : at'[c] = IF c = r THEN "setjmp" ELSE at[c]
       /\ \A c \in Thread : Creating(c)' <=> Creating(c)
       /\ \A c \in Thread : Creating(c) /\ c # r => held[c] # o
  BY <1>1, <1>2 DEF TypeOK, Creating, SchedulerInv, SpawnInv
<1>22. \A x \in Thread : Unpushed(x)' <=> Unpushed(x) /\ x # o
  BY <1>1, <1>2, <1>21 DEF Unpushed, Creating
<1>3. /\ ready_queue' \in Seq(Thread)
      /\ IsInjective(ready_queue')
      /\ \A x : Contains(ready_queue', x) <=> Contains(ready_queue, x) \/ x = o
  BY <1>1, <1>2, PushLemma
<1> USE DEF maps, fields
<1>4. TypeOK'
  BY <1>1, <1>2, <1>3 DEF TypeOK, Point
<1>5. ReadyQueueExact'
  <2>1. \A x \in Thread : Registered(x)' <=> Registered(x) BY <1>1 DEF Registered
  <2>2. QED BY <1>1, <1>2, <1>3, <1>22, <2>1 DEF SchedulerInv, ReadyQueueExact, Contains
<1>6. SleepersExact' BY <1>1 DEF SchedulerInv, SleepersExact
<1>7. BlockedSound' BY <1>1 DEF SchedulerInv, BlockedSound, Registered
<1>8. OneOwner' BY <1>1 DEF SchedulerInv, OneOwner, Freed
<1>9. CountExact' BY <1>1 DEF SchedulerInv, CountExact
<1>10. MainInv' BY <1>1, <1>21 DEF SchedulerInv, MainInv
<1>11. RunnerInv' BY <1>1, <1>2 DEF SchedulerInv, RunnerInv, TypeOK
<1>12. TerminationInv' BY <1>1, <1>2, <1>21 DEF SchedulerInv, TerminationInv, TypeOK
<1>13. SpawnInv'
  <2>1. \A x \in Thread : at'[x] = "raw" <=> at[x] = "raw" BY <1>1, <1>21
  <2>2. QED BY <1>1, <1>2, <1>21, <2>1, SpawnKept DEF SchedulerInv, TypeOK, Freed
<1>14. QED
  BY <1>4, <1>5, <1>6, <1>7, <1>8, <1>9, <1>10, <1>11, <1>12, <1>13 DEF SchedulerInv

LEMMA PrepareStep == ASSUME SchedulerInv, PrepareSpawned PROVE SchedulerInv'
<1> USE ThreadAssumption
<1> DEFINE r == running_thread
           o == held[r]
<1>1. /\ at' = [at EXCEPT ![r] = "spawn", ![o] = IF Freed(o) THEN "raw" ELSE "user"]
      /\ UNCHANGED <<maps, queues, running_thread, quantums_number, threads_cur_number,
                     fields, held, exited, wake_at>>
      /\ ~exited /\ at[r] = "setjmp"
  BY DEF PrepareSpawned
<1>2. /\ TypeOK /\ r \in Thread /\ o \in Thread /\ o # r /\ ~Freed(o)
      /\ state[r] = "RUNNING" /\ ~terminated[r] /\ Creating(r) /\ ~Creating(o) /\ SpawnInv
  <2>1. r \in Thread /\ Creating(r) /\ state[r] = "RUNNING" /\ ~terminated[r]
    BY <1>1, RolesLemma DEF Creating, SchedulerInv, RunnerInv
  <2>2. o \in Thread /\ Registered(o) /\ at[o] = "raw"
    BY <1>1, <2>1 DEF SchedulerInv, SpawnInv
  <2>3. QED BY <1>1, <2>1, <2>2, RolesLemma DEF SchedulerInv, Creating
<1>3. at' = [x \in Thread |-> IF x = o THEN "user" ELSE IF x = r THEN "spawn" ELSE at[x]]
  BY <1>1, <1>2 DEF TypeOK
<1>31. \A c \in Thread : /\ Creating(c)' <=> Creating(c) /\ c # r
                         /\ at'[c] = "push" <=> at[c] = "push"
                         /\ Creating(c) /\ c # r => held[c] # o
  BY <1>1, <1>2, <1>3 DEF Creating, SpawnInv
<1> USE DEF maps, queues, fields
<1>4. TypeOK'
  <2>1. at \in [Thread -> Point] BY <1>2 DEF TypeOK
  <2>2. {"user", "spawn"} \subseteq Point BY DEF Point
  <2>3. at' \in [Thread -> Point] BY <1>3, <2>1, <2>2
  <2>4. QED BY <1>1, <1>2, <2>3 DEF TypeOK
<1>5. ReadyQueueExact'
  <2>1. \A x \in Thread : Registered(x)' <=> Registered(x) BY <1>1 DEF Registered
  <2>2. \A x \in Thread : Unpushed(x)' <=> Unpushed(x)
    BY <1>1, <1>31 DEF Unpushed
  <2>3. QED BY <1>1, <2>1, <2>2 DEF SchedulerInv, ReadyQueueExact, Contains
<1>6. SleepersExact' BY <1>1 DEF SchedulerInv, SleepersExact
<1>7. BlockedSound' BY <1>1 DEF SchedulerInv, BlockedSound, Registered
<1>8. OneOwner' BY <1>1 DEF SchedulerInv, OneOwner, Freed
<1>9. CountExact' BY <1>1 DEF SchedulerInv, CountExact
<1>10. MainInv' BY <1>1, <1>3 DEF SchedulerInv, MainInv
<1>11. RunnerInv' BY <1>1, <1>2, <1>3 DEF SchedulerInv, RunnerInv
<1>12. TerminationInv' BY <1>1, <1>2, <1>31 DEF SchedulerInv, TerminationInv, TypeOK
<1>13. SpawnInv'
  <2>1. \A x \in Thread : Registered(x)' <=> Registered(x) BY <1>1 DEF Registered
  <2>2. ASSUME NEW c \in Thread, Creating(c)'
        PROVE  /\ Registered(c)' /\ held'[c] \in Thread /\ Registered(held[c])'
               /\ at'[held'[c]] = "raw"
               /\ state'[held'[c]] = "READY" \/ held'[c] = running_thread'
    <3>1. Creating(c) /\ c # r /\ held[c] # o BY <1>31, <2>2
    <3>2. /\ Registered(c) /\ held[c] \in Thread /\ Registered(held[c])
          /\ at[held[c]] = "raw" /\ held[c] # r
          /\ state[held[c]] = "READY"
      BY <1>1, <1>2, <3>1 DEF SpawnInv
    <3>3. QED BY <1>1, <1>3, <2>1, <3>1, <3>2
  <2>3. \A c, d \in Thread : Creating(c)' /\ Creating(d)' /\ held'[c] = held'[d] => c = d
    BY <1>1, <1>2, <1>31 DEF SpawnInv
  <2>4. ASSUME NEW i \in Tid, threads'[i] # NoThread, at'[threads'[i]] = "raw"
        PROVE  BeingCreated(threads[i])'
    <3>1. threads'[i] = threads[i] /\ threads[i] \in Thread BY <1>1, <1>2, <2>4 DEF TypeOK
    <3>2. threads[i] # o /\ at[threads[i]] = "raw" BY <1>3, <2>4, <3>1
    <3>3. PICK c \in Thread : Creating(c) /\ held[c] = threads[i]
      BY <1>2, <2>4, <3>1, <3>2 DEF SpawnInv, BeingCreated
    <3>4. Creating(c)' /\ held'[c] = threads'[i] BY <1>1, <1>31, <3>1, <3>2, <3>3
    <3>5. QED BY <3>4 DEF BeingCreated
  <2>5. ASSUME NEW x \in Thread, Freed(x)' PROVE at'[x] = "raw"
    <3>1. Freed(x) /\ at[x] = "raw" BY <1>1, <1>2, <2>5 DEF SpawnInv, Freed
    <3>2. QED BY <1>1, <1>2, <1>3, <3>1
  <2>6. QED BY <2>2, <2>3, <2>4, <2>5 DEF SpawnInv
<1>14. QED
  BY <1>4, <1>5, <1>6, <1>7, <1>8, <1>9, <1>10, <1>11, <1>12, <1>13 DEF SchedulerInv

\* A step of the running thread that only moves it between points of its own.
LEMMA MoveLemma ==
  ASSUME SchedulerInv, ~exited, at[running_thread] \in {"user", "spawn", "quantums"},
         NEW p \in {"user", "quantums"}, Goto(p),
         held' \in [Thread -> Thread \union {NoThread}],
         \A x \in Thread \ {running_thread} : held'[x] = held[x],
         UNCHANGED <<maps, queues, running_thread, quantums_number, threads_cur_number,
                     fields, exited, wake_at>>
  PROVE  SchedulerInv'
<1> DEFINE r == running_thread
<1>1. /\ at' = [at EXCEPT ![r] = p]
      /\ TypeOK /\ r \in Thread
      /\ state[r] = "RUNNING" /\ ~terminated[r] /\ SpawnInv
  BY DEF SchedulerInv, TypeOK, RunnerInv, Goto
<1>2. /\ \A x \in Thread : (Creating(x)' <=> Creating(x)) /\ (at'[x] = "raw" <=> at[x] = "raw")
      /\ \A x \in Thread : Creating(x) => held'[x] = held[x]
      /\ \A x \in Thread : Unpushed(x)' <=> Unpushed(x)
  <2>1. p \in Point \ {"raw", "push", "setjmp"} BY DEF Point
  <2>2. QED BY <1>1, <2>1, CreationKept
<1> USE DEF maps, queues, fields
<1>4. TypeOK' BY <1>1 DEF TypeOK, Point
<1>5. ReadyQueueExact'
  <2>1. \A x \in Thread : Registered(x)' <=> Registered(x) BY DEF Registered
  <2>2. QED BY <1>2, <2>1 DEF SchedulerInv, ReadyQueueExact, Contains
<1>6. SleepersExact' BY DEF SchedulerInv, SleepersExact
<1>7. BlockedSound' BY DEF SchedulerInv, BlockedSound, Registered
<1>8. OneOwner' BY DEF SchedulerInv, OneOwner, Freed
<1>9. CountExact' BY DEF SchedulerInv, CountExact
<1>10. MainInv' BY <1>2, ThreadAssumption DEF SchedulerInv, MainInv
<1>11. RunnerInv' BY <1>1 DEF SchedulerInv, RunnerInv, TypeOK
<1>12. TerminationInv' BY <1>1, <1>2 DEF SchedulerInv, TerminationInv, TypeOK
<1>13. SpawnInv' BY <1>1, <1>2, SpawnKept DEF TypeOK, Freed
<1>14. QED
  BY <1>4, <1>5, <1>6, <1>7, <1>8, <1>9, <1>10, <1>11, <1>12, <1>13 DEF SchedulerInv

LEMMA GetQuantumsStep == ASSUME SchedulerInv, NEW tid \in Tid, GetQuantums(tid) PROVE SchedulerInv'
<1>1. /\ held' \in [Thread -> Thread \union {NoThread}]
      /\ \A x \in Thread \ {running_thread} : held'[x] = held[x]
  BY DEF SchedulerInv, TypeOK, GetQuantums
<1>2. QED BY <1>1, MoveLemma DEF GetQuantums, InUser

LEMMA ReadHeldStep == ASSUME SchedulerInv, ReadHeld PROVE SchedulerInv'
<1>1. /\ held' \in [Thread -> Thread \union {NoThread}]
      /\ \A x \in Thread \ {running_thread} : held'[x] = held[x]
  BY DEF SchedulerInv, TypeOK, ReadHeld
<1>2. QED BY <1>1, MoveLemma DEF ReadHeld

LEMMA TerminateSelfStep == ASSUME SchedulerInv, TerminateSelf PROVE SchedulerInv'
<1> DEFINE r == running_thread
<1>1. /\ terminated' = [terminated EXCEPT ![r] = TRUE]
      /\ at' = [at EXCEPT ![r] = "call"]
      /\ UNCHANGED <<maps, queues, running_thread, quantums_number, threads_cur_number,
                     state, id, quantum, sleep_quantum, held, exited, wake_at>>
      /\ ~exited /\ InUser /\ id[r] # 0
  BY DEF TerminateSelf, Goto, InUser
<1>2. /\ TypeOK /\ r \in Thread /\ r # Main
      /\ state[r] = "RUNNING" /\ ~terminated[r] /\ threads[id[r]] = r
  <2>1. id[Main] = 0
    BY <1>1, RolesLemma, BoundAssumption, ThreadAssumption DEF SchedulerInv, MainInv, Tid
  <2>2. QED BY <1>1, <2>1, InUserLemma, RolesLemma DEF SchedulerInv
<1>21. /\ \A x \in Thread : (Creating(x)' <=> Creating(x)) /\ (at'[x] = "raw" <=> at[x] = "raw")
       /\ \A x \in Thread : Creating(x) => held'[x] = held[x]
       /\ \A x \in Thread : Unpushed(x)' <=> Unpushed(x)
  <2>1. "call" \in Point \ {"raw", "push", "setjmp"} /\ at[r] = "user" BY <1>1 DEF Point, InUser
  <2>2. QED BY <1>1, <1>2, <2>1, CreationKept
<1> USE DEF maps, queues
<1>4. TypeOK' BY <1>1, <1>2 DEF TypeOK, Point
<1>5. ReadyQueueExact'
  <2>1. \A x \in Thread : Registered(x)' <=> Registered(x) BY <1>1 DEF Registered
  <2>2. QED BY <1>1, <1>21, <2>1 DEF SchedulerInv, ReadyQueueExact, Contains
<1>6. SleepersExact' BY <1>1 DEF SchedulerInv, SleepersExact
<1>7. BlockedSound' BY <1>1 DEF SchedulerInv, BlockedSound, Registered
<1>8. OneOwner' BY <1>1 DEF SchedulerInv, OneOwner, Freed
<1>9. CountExact' BY <1>1 DEF SchedulerInv, CountExact
<1>10. MainInv' BY <1>1, <1>2, <1>21, ThreadAssumption DEF SchedulerInv, MainInv, TypeOK
<1>11. RunnerInv' BY <1>1, <1>2 DEF SchedulerInv, RunnerInv, TypeOK
<1>12. TerminationInv' BY <1>1, <1>2, <1>21 DEF SchedulerInv, TerminationInv, TypeOK
<1>13. SpawnInv' BY <1>1, <1>2, <1>21, SpawnKept DEF SchedulerInv, TypeOK, Freed
<1>14. QED
  BY <1>4, <1>5, <1>6, <1>7, <1>8, <1>9, <1>10, <1>11, <1>12, <1>13 DEF SchedulerInv

LEMMA TerminateOtherStep ==
  ASSUME SchedulerInv, NEW tid \in Tid, TerminateOther(tid),
         ~BeingCreated(threads[tid]), ~Creating(threads[tid])
  PROVE  SchedulerInv'
<1> USE ThreadAssumption
<1> DEFINE r == running_thread
           o == threads[tid]
<1>1. /\ threads' = [threads EXCEPT ![tid] = NoThread]
      /\ state' = [state EXCEPT ![o] = "FREED"]
      /\ id' = [id EXCEPT ![o] = 0]
      /\ at' = [at EXCEPT ![o] = "raw"]
      /\ held' = [held EXCEPT ![o] = NoThread]
      /\ threads_cur_number' = threads_cur_number - 1
      /\ quantum' = [quantum EXCEPT ![o] = 0]
      /\ sleep_quantum' = [sleep_quantum EXCEPT ![o] = 0]
      /\ wake_at' = [wake_at EXCEPT ![o] = 0]
      /\ blocked_threads' = {x \in blocked_threads : id[x] # tid}
      /\ UNCHANGED <<termination, running_thread, quantums_number, terminated, exited>>
      /\ ~exited /\ InUser /\ tid # 0 /\ o # NoThread /\ state[o] # "RUNNING"
  BY DEF TerminateOther, InUser, BlockedWithout
<1>2. /\ TypeOK /\ r \in Thread /\ Registered(r) /\ state[r] = "RUNNING" /\ ~terminated[r]
      /\ o \in Thread /\ o # r /\ id[o] = tid /\ o \notin Doomed /\ o # Main
      /\ \A i \in Tid : threads[i] = o <=> i = tid
      /\ \A i \in Tid : termination[i] # o
      /\ ~BeingCreated(o) /\ ~Creating(o)
  <2>1. id[Main] = 0
    BY <1>1, RolesLemma, BoundAssumption DEF SchedulerInv, MainInv, Tid
  <2>2. o \in Thread /\ o # r /\ id[o] = tid /\ Registered(o)
    BY <1>1, InUserLemma, RolesLemma DEF Registered
  <2>3. QED BY <1>1, <2>1, <2>2, InUserLemma, RolesLemma DEF SchedulerInv, Doomed
<1>3. /\ ready_queue' \in Seq(Thread)
      /\ IsInjective(ready_queue')
      /\ \A x \in Thread : Contains(ready_queue', x) <=> Contains(ready_queue, x) /\ x # o
  <2>1. /\ ready_queue \in Seq(Thread) /\ IsInjective(ready_queue)
        /\ \A x \in Thread : Contains(ready_queue, x) <=> /\ Registered(x) /\ state[x] = "READY"
                                                         /\ ~Unpushed(x)
    BY <1>1, <1>2 DEF SchedulerInv, ReadyQueueExact, TypeOK
  <2>2. \A x, y \in Thread : Contains(ready_queue, x) /\ Contains(ready_queue, y) /\ id[x] = id[y]
                               => x = y
    BY <1>1, <2>1, RolesLemma
  <2>3. CASE state[o] = "READY"
    <3>1. ready_queue' = ReadyWithout(tid) BY <2>3 DEF TerminateOther
    <3>2. \A x \in Thread : Contains(ready_queue, x) => (id[x] # tid <=> x # o)
      BY <1>1, <1>2, <2>1, RolesLemma
    <3>3. QED BY <2>1, <2>2, <3>1, <3>2, ReadyWithoutLemma
  <2>4. CASE state[o] # "READY"
    <3>1. ready_queue' = ready_queue BY <2>4 DEF TerminateOther
    <3>2. QED BY <2>1, <2>4, <3>1
  <2>5. QED BY <2>3, <2>4
<1>31. sleeping_threads' = IF Asleep(o) THEN [sleeping_threads EXCEPT ![tid] = NoThread]
                                        ELSE sleeping_threads
  BY <1>2 DEF TerminateOther, SleepersWithout, Asleep
<1>32. \A x \in Thread : Registered(x)' <=> Registered(x) /\ x # o
  BY <1>1, <1>2 DEF Registered, TypeOK
<1>33. \A x \in Thread : /\ at'[x] = IF x = o THEN "raw" ELSE at[x]
                         /\ Creating(x)' <=> Creating(x)
                         /\ Creating(x) => x # o /\ held'[x] = held[x] /\ held[x] # o
  BY <1>1, <1>2 DEF TypeOK, Creating, BeingCreated
<1>4. TypeOK'
  <2>1. 0 \in Tid /\ 0 \in 0 .. MaxQuantums /\ "raw" \in Point
    BY BoundAssumption DEF Tid, Point
  <2>2. /\ threads' \in [Tid -> Thread \union {NoThread}]
        /\ sleeping_threads' \in [Tid -> Thread \union {NoThread}]
        /\ threads_cur_number' \in Int /\ blocked_threads' \subseteq Thread
    BY <1>1, <1>2, <1>31 DEF TypeOK
  <2>3. /\ state' \in [Thread -> States \union {"FREED"}] /\ id' \in [Thread -> Tid]
        /\ quantum' \in [Thread -> 0 .. MaxQuantums] /\ sleep_quantum' \in [Thread -> Int]
        /\ at' \in [Thread -> Point] /\ wake_at' \in [Thread -> Int]
        /\ held' \in [Thread -> Thread \union {NoThread}]
    BY <1>1, <1>2, <2>1 DEF TypeOK
  <2>4. QED BY <1>1, <1>2, <1>3, <2>2, <2>3 DEF TypeOK
<1>5. ReadyQueueExact'
  <2>1. \A x \in Thread : Unpushed(x)' <=> Unpushed(x)
    BY <1>33 DEF Unpushed, Creating
  <2>2. \A x \in Thread : Contains(ready_queue, x) <=> /\ Registered(x) /\ state[x] = "READY"
                                                       /\ ~Unpushed(x)
    BY <1>1 DEF SchedulerInv, ReadyQueueExact
  <2>3. \A x \in Thread : x # o => state'[x] = state[x] BY <1>1, <1>2 DEF TypeOK
  <2>4. QED BY <1>3, <1>32, <2>1, <2>2, <2>3 DEF ReadyQueueExact, Contains
<1>6. SleepersExact'
  <2>1. SUFFICES ASSUME NEW i \in Tid, NEW x \in Thread
                 PROVE  /\ sleeping_threads'[i] = x <=> /\ threads'[i] = x
                                                        /\ state'[x] \in {"SLEEP", "SLEEP_BLOCK"}
                        /\ sleeping_threads'[i] = x => sleep_quantum'[x] > 0
    BY DEF SleepersExact
  <2>2. /\ sleeping_threads[i] = x <=> threads[i] = x /\ Asleep(x)
        /\ sleeping_threads[i] = x => sleep_quantum[x] > 0
    BY <1>1 DEF SchedulerInv, SleepersExact, Asleep
  <2>3. CASE x = o BY <1>1, <1>2, <1>31, <2>2, <2>3 DEF TypeOK
  <2>4. CASE x # o
    <3>1. i = tid => threads[i] # x /\ sleeping_threads[i] # x BY <1>1, <2>2, <2>4
    <3>2. threads'[i] = x <=> threads[i] = x BY <1>1, <1>2, <2>4, <3>1 DEF TypeOK
    <3>3. sleeping_threads'[i] = x <=> sleeping_threads[i] = x
      BY <1>2, <1>31, <2>4, <3>1 DEF TypeOK
    <3>4. state'[x] = state[x] /\ sleep_quantum'[x] = sleep_quantum[x]
      BY <1>1, <1>2, <2>4 DEF TypeOK
    <3>5. QED BY <2>2, <3>2, <3>3, <3>4 DEF Asleep
  <2>5. QED BY <2>3, <2>4
<1>7. BlockedSound'
  <2>1. \A x \in Thread : Registered(x) => (id[x] = tid <=> x = o)
    BY <1>1, <1>2, RolesLemma
  <2>2. \A x \in Thread : x # o => state'[x] = state[x] BY <1>1, <1>2 DEF TypeOK
  <2>3. state'[o] = "FREED" BY <1>1, <1>2 DEF TypeOK
  <2>4. /\ blocked_threads \subseteq Thread
        /\ \A x \in blocked_threads : Registered(x) /\ state[x] \in {"BLOCKED", "SLEEP_BLOCK"}
        /\ \A x \in Thread : state[x] = "SLEEP_BLOCK" => x \in blocked_threads
    BY <1>1, <1>2 DEF SchedulerInv, BlockedSound, TypeOK
  <2>5. QED BY <1>1, <1>32, <2>1, <2>2, <2>3, <2>4 DEF BlockedSound
<1>8. OneOwner'
  <2>1. /\ \A x \in Thread : ~Freed(x) => (threads[id[x]] = x) # (termination[id[x]] = x)
        /\ \A i \in Tid, x \in Thread :
             threads[i] = x \/ termination[i] = x => ~Freed(x) /\ id[x] = i
    BY <1>1 DEF SchedulerInv, OneOwner
  <2>2. \A x \in Thread : Freed(x)' <=> Freed(x) \/ x = o BY <1>1, <1>2 DEF TypeOK, Freed
  <2>3. \A x \in Thread : x # o => id'[x] = id[x] /\ id[x] \in Tid BY <1>1, <1>2 DEF TypeOK
  <2>4. \A i \in Tid, x \in Thread : threads'[i] = x <=> threads[i] = x /\ x # o
    BY <1>1, <1>2 DEF TypeOK
  <2>5. \A i \in Tid : termination'[i] = termination[i] /\ termination[i] # o BY <1>1, <1>2
  <2>6. QED BY <2>1, <2>2, <2>3, <2>4, <2>5 DEF OneOwner
<1>9. CountExact'
  <2>1. Cardinality({i \in Tid : [threads EXCEPT ![tid] = NoThread][i] # NoThread})
          = Cardinality({i \in Tid : threads[i] # NoThread}) - 1
    <3>1. threads \in [Tid -> Thread \union {NoThread}] BY <1>2 DEF TypeOK
    <3>2. QED BY <1>1, <1>2, <3>1, CountLemma
  <2>2. QED BY <1>1, <2>1 DEF SchedulerInv, CountExact
<1>10. MainInv' BY <1>1, <1>2, <1>33 DEF SchedulerInv, MainInv, TypeOK
<1>11. RunnerInv'
  <2>1. id'[r] = id[r] /\ threads[id[r]] = r /\ id[r] \in Tid /\ id[r] # tid
    BY <1>1, <1>2, RolesLemma DEF TypeOK
  <2>2. threads'[id[r]] = r BY <1>1, <1>2, <2>1 DEF TypeOK
  <2>3. at'[r] = at[r] /\ state'[r] = "RUNNING" /\ ~terminated'[r]
    BY <1>1, <1>2 DEF TypeOK
  <2>4. ASSUME NEW i \in Tid, threads'[i] \notin {r, NoThread}
        PROVE  ~terminated'[threads'[i]] /\ state'[threads'[i]] # "RUNNING"
    <3>1. threads'[i] = threads[i] /\ threads[i] \in Thread /\ threads[i] # o
      BY <1>1, <1>2, <2>4 DEF TypeOK
    <3>2. state'[threads[i]] = state[threads[i]] BY <1>1, <1>2, <3>1 DEF TypeOK
    <3>3. QED BY <1>1, <2>4, <3>1, <3>2 DEF SchedulerInv, RunnerInv
  <2>5. QED BY <1>1, <2>1, <2>2, <2>3, <2>4 DEF RunnerInv
<1>12. TerminationInv'
  <2>1. \A i \in Tid : termination[i] # NoThread => termination[i] # o /\ termination[i] \in Thread
    BY <1>2 DEF TypeOK
  <2>2. \A x \in Thread : x # o => state'[x] = state[x]
    BY <1>1, <1>2 DEF TypeOK
  <2>3. \A i \in Tid : threads'[i] # NoThread => threads'[i] = threads[i] /\ threads[i] # o
    BY <1>1, <1>2 DEF TypeOK
  <2>4. \A i \in Tid : threads[i] # NoThread => threads[i] \in Thread BY <1>2 DEF TypeOK
  <2>5. QED BY <1>1, <1>33, <2>1, <2>2, <2>3, <2>4 DEF SchedulerInv, TerminationInv
<1>13. SpawnInv'
  <2>1. /\ SpawnInv /\ at[r] = "user" /\ \A x \in Thread : x # o => state'[x] = state[x]
    BY <1>1, <1>2 DEF SchedulerInv, TypeOK, InUser
  <2>2. ASSUME NEW c \in Thread, Creating(c)'
        PROVE  /\ Registered(c)' /\ held'[c] \in Thread /\ Registered(held[c])'
               /\ at'[held'[c]] = "raw"
               /\ state'[held'[c]] = "READY" \/ held'[c] = running_thread'
    <3>1. Creating(c) /\ c # o /\ held'[c] = held[c] /\ held[c] # o BY <1>33, <2>2
    <3>2. /\ Registered(c) /\ held[c] \in Thread /\ Registered(held[c])
          /\ at[held[c]] = "raw" /\ held[c] # r
          /\ state[held[c]] = "READY"
      BY <2>1, <3>1 DEF SpawnInv
    <3>3. QED BY <1>32, <1>33, <2>1, <3>1, <3>2
  <2>3. \A c, d \in Thread : Creating(c)' /\ Creating(d)' /\ held'[c] = held'[d] => c = d
    BY <1>33, <2>1 DEF SpawnInv
  <2>4. ASSUME NEW i \in Tid, threads'[i] # NoThread, at'[threads'[i]] = "raw"
        PROVE  BeingCreated(threads[i])'
    <3>1. threads'[i] = threads[i] /\ threads[i] \in Thread /\ threads[i] # o
      BY <1>1, <1>2, <2>4 DEF TypeOK
    <3>2. at[threads[i]] = "raw" BY <1>33, <2>4, <3>1
    <3>3. PICK c \in Thread : Creating(c) /\ held[c] = threads[i]
      BY <2>1, <2>4, <3>1, <3>2 DEF SpawnInv, BeingCreated
    <3>4. Creating(c)' /\ held'[c] = threads'[i] BY <1>33, <3>1, <3>3
    <3>5. QED BY <3>4 DEF BeingCreated
  <2>5. ASSUME NEW x \in Thread, Freed(x)' PROVE at'[x] = "raw"
    BY <1>33, <2>1, <2>5 DEF SpawnInv, Freed
  <2>6. QED BY <2>2, <2>3, <2>4, <2>5 DEF SpawnInv
<1>14. QED
  BY <1>4, <1>5, <1>6, <1>7, <1>8, <1>9, <1>10, <1>11, <1>12, <1>13 DEF SchedulerInv

LEMMA TerminateMainStep == ASSUME SchedulerInv, TerminateMain PROVE SchedulerInv'
<1>1. exited' BY DEF TerminateMain
<1>2. TypeOK' BY DEF SchedulerInv, TypeOK, TerminateMain, queues
<1>3. QED
  BY <1>1, <1>2 DEF SchedulerInv, ReadyQueueExact, SleepersExact, BlockedSound, OneOwner, CountExact

LEMMA BlockSelfStep == ASSUME SchedulerInv, BlockSelf PROVE SchedulerInv'
<1> USE ThreadAssumption
<1> DEFINE r == running_thread
<1>1. /\ state' = [state EXCEPT ![r] = "BLOCKED"]
      /\ blocked_threads' = blocked_threads \union {r}
      /\ at' = [at EXCEPT ![r] = "call"]
      /\ UNCHANGED <<maps, ready_queue, running_thread, quantums_number, threads_cur_number,
                     id, quantum, sleep_quantum, terminated, held, exited, wake_at>>
      /\ ~exited /\ InUser /\ id[r] # 0
  BY DEF BlockSelf, Goto, InUser
<1>2. /\ TypeOK /\ r \in Thread /\ r # Main /\ Registered(r) /\ r \notin Doomed
      /\ state[r] = "RUNNING" /\ ~terminated[r] /\ threads[id[r]] = r
  <2>1. id[Main] = 0
    BY <1>1, RolesLemma, BoundAssumption DEF SchedulerInv, MainInv, Tid
  <2>2. QED BY <1>1, <2>1, InUserLemma, RolesLemma DEF SchedulerInv
<1>21. /\ \A x \in Thread : (Creating(x)' <=> Creating(x)) /\ (at'[x] = "raw" <=> at[x] = "raw")
       /\ \A x \in Thread : Creating(x) => held'[x] = held[x]
       /\ \A x \in Thread : Unpushed(x)' <=> Unpushed(x)
  <2>1. "call" \in Point \ {"raw", "push", "setjmp"} /\ at[r] = "user" BY <1>1 DEF Point, InUser
  <2>2. QED BY <1>1, <1>2, <2>1, CreationKept
<1> USE DEF maps
<1>4. TypeOK' BY <1>1, <1>2 DEF TypeOK, Point, States
<1>5. ReadyQueueExact'
  <2>1. \A x \in Thread : Registered(x)' <=> Registered(x) BY <1>1 DEF Registered
  <2>3. \A x \in Thread : state'[x] = "READY" <=> state[x] = "READY"
    BY <1>1, <1>2 DEF TypeOK
  <2>4. QED BY <1>1, <1>21, <2>1, <2>3 DEF SchedulerInv, ReadyQueueExact, Contains
<1>6. SleepersExact' BY <1>1, <1>2 DEF SchedulerInv, SleepersExact, TypeOK
<1>7. BlockedSound' BY <1>1, <1>2 DEF SchedulerInv, BlockedSound, Registered, TypeOK
<1>8. OneOwner' BY <1>1, <1>2 DEF SchedulerInv, OneOwner, Freed, TypeOK
<1>9. CountExact' BY <1>1 DEF SchedulerInv, CountExact
<1>10. MainInv' BY <1>1, <1>2, <1>21 DEF SchedulerInv, MainInv, TypeOK
<1>11. RunnerInv' BY <1>1, <1>2 DEF SchedulerInv, RunnerInv, TypeOK
<1>12. TerminationInv'
  <2>1. \A i \in Tid : termination[i] # NoThread => termination[i] # r /\ termination[i] \in Thread
    BY <1>2 DEF Doomed, TypeOK
  <2>2. \A i \in Tid, x \in Thread : x # r => state'[x] = state[x]
    BY <1>1, <1>2 DEF TypeOK
  <2>3. \A i \in Tid : threads[i] # NoThread => threads[i] \in Thread BY <1>2 DEF TypeOK
  <2>4. QED BY <1>1, <1>21, <2>1, <2>2, <2>3 DEF SchedulerInv, TerminationInv
<1>13. SpawnInv'
  <2>1. \A x \in Thread : /\ BeingCreated(x) /\ state[x] = "READY" => state'[x] = "READY"
                          /\ Freed(x)' => Freed(x)
    BY <1>1, <1>2 DEF TypeOK, Freed
  <2>2. QED BY <1>1, <1>2, <1>21, <2>1, SpawnKept DEF SchedulerInv, TypeOK
<1>14. QED
  BY <1>4, <1>5, <1>6, <1>7, <1>8, <1>9, <1>10, <1>11, <1>12, <1>13 DEF SchedulerInv

LEMMA BlockOtherStep ==
  ASSUME SchedulerInv, NEW tid \in Tid, BlockOther(tid), ~BeingCreated(threads[tid])
  PROVE  SchedulerInv'
<1> USE ThreadAssumption
<1> DEFINE r == running_thread
           o == threads[tid]
<1>1. /\ state' = [state EXCEPT ![o] = IF @ = "SLEEP" THEN "SLEEP_BLOCK" ELSE "BLOCKED"]
      /\ blocked_threads' = WithBlocked(o)
      /\ ready_queue' = IF state[o] = "READY" THEN ReadyWithout(tid) ELSE ready_queue
      /\ UNCHANGED <<maps, running_thread, quantums_number, threads_cur_number, id,
                     quantum, sleep_quantum, terminated, at, held, exited, wake_at>>
      /\ ~exited /\ InUser /\ tid # 0 /\ o # NoThread /\ state[o] \in {"SLEEP", "READY"}
      /\ ~BeingCreated(o)
  BY DEF BlockOther, InUser
<1>2. /\ TypeOK /\ r \in Thread /\ state[r] = "RUNNING" /\ ~terminated[r]
      /\ o \in Thread /\ o # r /\ id[o] = tid /\ o \notin Doomed /\ o # Main /\ Registered(o)
  <2>1. id[Main] = 0
    BY <1>1, RolesLemma, BoundAssumption DEF SchedulerInv, MainInv, Tid
  <2>2. o \in Thread /\ o # r /\ id[o] = tid /\ Registered(o)
    BY <1>1, InUserLemma, RolesLemma DEF Registered
  <2>3. QED BY <1>1, <2>1, <2>2, InUserLemma, RolesLemma DEF SchedulerInv
<1> USE DEF maps
<1>21. \A x \in Thread : Registered(x)' <=> Registered(x)
  BY <1>1 DEF Registered
<1>22. /\ \A x \in Thread : x # o => state'[x] = state[x]
       /\ state'[o] = IF state[o] = "SLEEP" THEN "SLEEP_BLOCK" ELSE "BLOCKED"
  BY <1>1, <1>2 DEF TypeOK
<1>23. /\ ready_queue \in Seq(Thread) /\ IsInjective(ready_queue)
       /\ \A x \in Thread : Contains(ready_queue, x) <=> /\ Registered(x) /\ state[x] = "READY"
                                                        /\ ~Unpushed(x)
  BY <1>1, <1>2 DEF SchedulerInv, ReadyQueueExact, TypeOK
<1>24. \A x \in Thread : Unpushed(x)' <=> Unpushed(x)
  BY <1>1 DEF Unpushed
<1>25. blocked_threads' = blocked_threads \union {o}
  <2>1. ~Unpushed(o) BY <1>1, <1>2, InUserLemma
  <2>2. state[o] = "SLEEP" \/ Contains(ready_queue, o) BY <1>1, <1>2, <1>23, <2>1
  <2>3. QED BY <1>1, <2>2 DEF WithBlocked
<1>3. /\ ready_queue' \in Seq(Thread)
      /\ IsInjective(ready_queue')
      /\ \A x \in Thread : Contains(ready_queue', x) <=> Contains(ready_queue, x) /\ x # o
  <2>1. \A x, y \in Thread : Contains(ready_queue, x) /\ Contains(ready_queue, y) /\ id[x] = id[y]
                               => x = y
    BY <1>1, <1>23, RolesLemma
  <2>2. CASE state[o] = "READY"
    <3>1. ready_queue' = ReadyWithout(tid) BY <1>1, <2>2
    <3>2. \A x \in Thread : Contains(ready_queue, x) => (id[x] # tid <=> x # o)
      BY <1>1, <1>2, <1>23, RolesLemma
    <3>3. QED BY <1>23, <2>1, <3>1, <3>2, ReadyWithoutLemma
  <2>3. CASE state[o] # "READY"
    <3>1. ready_queue' = ready_queue BY <1>1, <2>3
    <3>2. QED BY <1>23, <2>3, <3>1
  <2>4. QED BY <2>2, <2>3
<1>4. TypeOK'
  BY <1>1, <1>2, <1>3, <1>25 DEF TypeOK, States
<1>5. ReadyQueueExact'
  <2>2. state'[o] # "READY" BY <1>22
  <2>3. \A x \in Thread : Contains(ready_queue', x) <=> /\ Registered(x) /\ state'[x] = "READY"
                                                        /\ ~Unpushed(x)
    BY <1>3, <1>22, <1>23, <2>2
  <2>4. QED BY <1>3, <1>21, <1>24, <2>3 DEF ReadyQueueExact, Contains
<1>6. SleepersExact' BY <1>1, <1>2, <1>22 DEF SchedulerInv, SleepersExact
<1>7. BlockedSound' BY <1>1, <1>2, <1>21, <1>22, <1>25 DEF SchedulerInv, BlockedSound, TypeOK
<1>8. OneOwner'
  <2>1. \A x \in Thread : Freed(x)' <=> Freed(x) BY <1>1, <1>2, <1>22 DEF Freed
  <2>2. QED BY <1>1, <2>1 DEF SchedulerInv, OneOwner
<1>9. CountExact' BY <1>1 DEF SchedulerInv, CountExact
<1>10. MainInv' BY <1>1, <1>2, <1>22 DEF SchedulerInv, MainInv
<1>11. RunnerInv'
  <2>1. \A i \in Tid : threads[i] # NoThread => threads[i] \in Thread BY <1>2 DEF TypeOK
  <2>2. QED BY <1>1, <1>2, <1>22, <2>1 DEF SchedulerInv, RunnerInv
<1>12. TerminationInv'
  <2>1. \A i \in Tid : termination[i] # NoThread => termination[i] # o /\ termination[i] \in Thread
    BY <1>2 DEF TypeOK, Doomed
  <2>2. \A i \in Tid : threads[i] # NoThread => threads[i] \in Thread BY <1>2 DEF TypeOK
  <2>3. \A i \in Tid : termination[i] # NoThread /\ threads[i] = o => state[o] # "SLEEP"
    BY <1>1 DEF SchedulerInv, TerminationInv
  <2>4. QED BY <1>1, <1>22, <2>1, <2>2, <2>3 DEF SchedulerInv, TerminationInv, Creating
<1>13. SpawnInv'
  <2>1. \A x \in Thread : /\ BeingCreated(x) /\ state[x] = "READY" => state'[x] = "READY"
                          /\ Freed(x)' => Freed(x)
    BY <1>1, <1>2, <1>22 DEF Freed
  <2>2. \A x \in Thread : (Creating(x)' <=> Creating(x)) /\ (at'[x] = "raw" <=> at[x] = "raw")
    BY <1>1 DEF Creating
  <2>3. QED BY <1>1, <1>2, <2>1, <2>2, SpawnKept DEF SchedulerInv, TypeOK
<1>14. QED
  BY <1>4, <1>5, <1>6, <1>7, <1>8, <1>9, <1>10, <1>11, <1>12, <1>13 DEF SchedulerInv

LEMMA ResumeStep == ASSUME SchedulerInv, NEW tid \in Tid, Resume(tid) PROVE SchedulerInv'
<1> USE ThreadAssumption
<1> DEFINE r == running_thread
           o == threads[tid]
<1>1. PICK x \in blocked_threads :
        /\ id[x] = tid
        /\ IF state[threads[tid]] = "SLEEP_BLOCK"
           THEN state' = [state EXCEPT ![x] = "SLEEP"] /\ ready_queue' = ready_queue
           ELSE /\ state' = [state EXCEPT ![x] = "READY"]
                /\ ready_queue' = Append(ready_queue, x)
        /\ blocked_threads' = blocked_threads \ {x}
  BY DEF Resume
<1>2. /\ UNCHANGED <<maps, running_thread, quantums_number, threads_cur_number, id,
                     quantum, sleep_quantum, terminated, at, held, exited, wake_at>>
      /\ ~exited /\ InUser /\ termination[tid] = NoThread
  BY DEF Resume, InUser, ResumeFails
<1>3. /\ TypeOK /\ r \in Thread /\ state[r] = "RUNNING" /\ ~terminated[r]
      /\ x \in Thread /\ x = o /\ Registered(x) /\ x # r /\ x \notin Doomed /\ x # Main
      /\ state[x] \in {"BLOCKED", "SLEEP_BLOCK"}
  <2>1. x \in Thread /\ Registered(x) /\ state[x] \in {"BLOCKED", "SLEEP_BLOCK"}
    BY <1>1, <1>2 DEF SchedulerInv, TypeOK, BlockedSound
  <2>2. x # Main BY <1>2, <2>1 DEF SchedulerInv, MainInv
  <2>3. QED BY <1>1, <1>2, <2>1, <2>2, InUserLemma, RolesLemma DEF SchedulerInv
<1> USE DEF maps
<1>31. \A y \in Thread : Registered(y)' <=> Registered(y)
  BY <1>2 DEF Registered
<1>32. /\ \A y \in Thread : y # x => state'[y] = state[y]
       /\ state'[x] = IF state[x] = "SLEEP_BLOCK" THEN "SLEEP" ELSE "READY"
  BY <1>1, <1>3 DEF TypeOK
<1>33. /\ ready_queue \in Seq(Thread) /\ IsInjective(ready_queue)
       /\ \A y \in Thread : Contains(ready_queue, y) <=> /\ Registered(y) /\ state[y] = "READY"
                                                        /\ ~Unpushed(y)
  BY <1>2, <1>3 DEF SchedulerInv, ReadyQueueExact, TypeOK
<1>35. /\ \A y \in Thread : Unpushed(y)' <=> Unpushed(y)
       /\ ~Unpushed(x) /\ ~BeingCreated(x)
  BY <1>2, <1>3, InUserLemma DEF Unpushed
<1>34. /\ ready_queue' \in Seq(Thread)
       /\ IsInjective(ready_queue')
       /\ \A y \in Thread : Contains(ready_queue', y)
                              <=> Contains(ready_queue, y) \/ (y = x /\ state[x] = "BLOCKED")
  <2>1. CASE state[x] = "SLEEP_BLOCK" BY <1>1, <1>3, <1>33, <2>1
  <2>2. CASE state[x] = "BLOCKED"
    <3>1. ready_queue' = Append(ready_queue, x) BY <1>1, <1>3, <2>2
    <3>2. ~Contains(ready_queue, x) BY <1>3, <1>33
    <3>3. QED BY <1>3, <1>33, <2>2, <3>1, <3>2, PushLemma
  <2>3. QED BY <1>3, <2>1, <2>2
<1>4. TypeOK'
  <2>1. state \in [Thread -> States \union {"FREED"}] BY <1>3 DEF TypeOK
  <2>2. state' \in [Thread -> States \union {"FREED"}]
    <3>1. {"SLEEP", "READY"} \subseteq States BY DEF States
    <3>2. QED BY <1>1, <1>3, <2>1, <3>1
  <2>3. blocked_threads' \subseteq Thread BY <1>1, <1>3 DEF TypeOK
  <2>4. QED BY <1>2, <1>3, <1>34, <2>2, <2>3 DEF TypeOK
<1>5. ReadyQueueExact'
  <2>1. \A y \in Thread : Contains(ready_queue', y) <=> /\ Registered(y) /\ state'[y] = "READY"
                                                        /\ ~Unpushed(y)
    BY <1>3, <1>32, <1>33, <1>34, <1>35
  <2>2. QED BY <1>31, <1>34, <1>35, <2>1 DEF ReadyQueueExact, Contains
<1>6. SleepersExact' BY <1>2, <1>3, <1>32 DEF SchedulerInv, SleepersExact
<1>7. BlockedSound' BY <1>1, <1>2, <1>3, <1>31, <1>32 DEF SchedulerInv, BlockedSound, TypeOK
<1>8. OneOwner'
  <2>1. \A y \in Thread : Freed(y)' <=> Freed(y) BY <1>3, <1>32 DEF Freed
  <2>2. QED BY <1>2, <2>1 DEF SchedulerInv, OneOwner
<1>9. CountExact' BY <1>2 DEF SchedulerInv, CountExact
<1>10. MainInv' BY <1>2, <1>3, <1>32 DEF SchedulerInv, MainInv
<1>11. RunnerInv'
  <2>1. \A i \in Tid : threads[i] # NoThread => threads[i] \in Thread BY <1>3 DEF TypeOK
  <2>2. QED BY <1>2, <1>3, <1>32, <2>1 DEF SchedulerInv, RunnerInv
<1>12. TerminationInv'
  <2>1. \A i \in Tid : termination[i] # NoThread => termination[i] # x /\ termination[i] \in Thread
    BY <1>3 DEF TypeOK, Doomed
  <2>2. \A i \in Tid : threads[i] # NoThread => threads[i] \in Thread BY <1>3 DEF TypeOK
  <2>3. \A i \in Tid : termination[i] # NoThread => threads[i] # x
    BY <1>1, <1>2, <1>3, RolesLemma
  <2>4. QED BY <1>2, <1>32, <2>1, <2>2, <2>3 DEF SchedulerInv, TerminationInv, Creating
<1>13. SpawnInv'
  <2>1. \A y \in Thread : /\ BeingCreated(y) /\ state[y] = "READY" => state'[y] = "READY"
                          /\ Freed(y)' => Freed(y)
    BY <1>3, <1>32 DEF Freed
  <2>2. \A y \in Thread : (Creating(y)' <=> Creating(y)) /\ (at'[y] = "raw" <=> at[y] = "raw")
    BY <1>2 DEF Creating
  <2>3. QED BY <1>2, <1>3, <2>1, <2>2, SpawnKept DEF SchedulerInv, TypeOK
<1>14. QED
  BY <1>4, <1>5, <1>6, <1>7, <1>8, <1>9, <1>10, <1>11, <1>12, <1>13 DEF SchedulerInv

LEMMA SleepStep == ASSUME SchedulerInv, NEW n \in 1 .. MaxSleep, Sleep(n) PROVE SchedulerInv'
<1> USE ThreadAssumption
<1> DEFINE r == running_thread
<1>1. /\ state' = [state EXCEPT ![r] = "SLEEP"]
      /\ sleep_quantum' = [sleep_quantum EXCEPT ![r] = n + 1]
      /\ wake_at' = [wake_at EXCEPT ![r] = quantums_number + n + 1]
      /\ at' = [at EXCEPT ![r] = "call"]
      /\ UNCHANGED <<threads, termination, queues, running_thread, quantums_number,
                     threads_cur_number, id, quantum, terminated, held, exited>>
      /\ ~exited /\ InUser /\ id[r] # 0
  BY DEF Sleep, Goto, InUser
<1>2. /\ TypeOK /\ r \in Thread /\ r # Main /\ Registered(r) /\ r \notin Doomed
      /\ state[r] = "RUNNING" /\ ~terminated[r] /\ threads[id[r]] = r /\ id[r] \in Tid
  <2>1. id[Main] = 0
    BY <1>1, RolesLemma, BoundAssumption DEF SchedulerInv, MainInv, Tid
  <2>2. QED BY <1>1, <2>1, InUserLemma, RolesLemma DEF SchedulerInv
<1>21. /\ \A x \in Thread : (Creating(x)' <=> Creating(x)) /\ (at'[x] = "raw" <=> at[x] = "raw")
       /\ \A x \in Thread : Creating(x) => held'[x] = held[x]
       /\ \A x \in Thread : Unpushed(x)' <=> Unpushed(x)
  <2>1. "call" \in Point \ {"raw", "push", "setjmp"} /\ at[r] = "user" BY <1>1 DEF Point, InUser
  <2>2. QED BY <1>1, <1>2, <2>1, CreationKept
<1>3. sleeping_threads' = [sleeping_threads EXCEPT ![id[r]] = r]
  <2>1. sleeping_threads[id[r]] = NoThread
    BY <1>1, <1>2, SleepersLemma DEF Sleeping, Asleep, TypeOK
  <2>2. QED BY <1>2, <2>1 DEF Sleep
<1>4. TypeOK'
  <2>1. n \in Int /\ quantums_number \in Int BY <1>2, BoundAssumption DEF TypeOK
  <2>2. QED BY <1>1, <1>2, <1>3, <2>1 DEF TypeOK, Point, States, queues
<1> USE DEF queues
<1>5. ReadyQueueExact'
  <2>1. \A x \in Thread : Registered(x)' <=> Registered(x) BY <1>1 DEF Registered
  <2>3. \A x \in Thread : state'[x] = "READY" <=> state[x] = "READY"
    BY <1>1, <1>2 DEF TypeOK
  <2>4. QED BY <1>1, <1>21, <2>1, <2>3 DEF SchedulerInv, ReadyQueueExact, Contains
<1>6. SleepersExact'
  <2>1. SUFFICES ASSUME NEW i \in Tid, NEW o \in Thread
                 PROVE  /\ sleeping_threads'[i] = o <=> /\ threads[i] = o
                                                        /\ state'[o] \in {"SLEEP", "SLEEP_BLOCK"}
                        /\ sleeping_threads'[i] = o => sleep_quantum'[o] > 0
    BY <1>1 DEF SleepersExact
  <2>2. /\ sleeping_threads[i] = o <=> threads[i] = o /\ state[o] \in {"SLEEP", "SLEEP_BLOCK"}
        /\ sleeping_threads[i] = o => sleep_quantum[o] > 0
    BY <1>1 DEF SchedulerInv, SleepersExact
  <2>3. threads[i] = r <=> i = id[r]
    BY <1>1, <1>2, RolesLemma
  <2>4. CASE o = r BY <1>1, <1>2, <1>3, <2>2, <2>3, <2>4 DEF TypeOK
  <2>5. CASE o # r BY <1>1, <1>2, <1>3, <2>2, <2>3, <2>5 DEF TypeOK
  <2>6. QED BY <2>4, <2>5
<1>7. BlockedSound' BY <1>1, <1>2 DEF SchedulerInv, BlockedSound, Registered, TypeOK
<1>8. OneOwner' BY <1>1, <1>2, SMTT(30) DEF SchedulerInv, OneOwner, Freed, TypeOK
<1>9. CountExact' BY <1>1 DEF SchedulerInv, CountExact
<1>10. MainInv' BY <1>1, <1>2, <1>21 DEF SchedulerInv, MainInv, TypeOK
<1>11. RunnerInv'
  <2>1. n + 1 > 1 BY BoundAssumption
  <2>2. QED BY <1>1, <1>2, <2>1 DEF SchedulerInv, RunnerInv, TypeOK
<1>12. TerminationInv'
  <2>1. \A i \in Tid : termination[i] # NoThread => termination[i] # r /\ termination[i] \in Thread
    BY <1>2 DEF Doomed, TypeOK
  <2>2. \A i \in Tid, x \in Thread : x # r => state'[x] = state[x]
    BY <1>1, <1>2 DEF TypeOK
  <2>3. \A i \in Tid : threads[i] # NoThread => threads[i] \in Thread BY <1>2 DEF TypeOK
  <2>4. QED BY <1>1, <1>21, <2>1, <2>2, <2>3 DEF SchedulerInv, TerminationInv
<1>13. SpawnInv'
  <2>1. \A x \in Thread : /\ BeingCreated(x) /\ state[x] = "READY" => state'[x] = "READY"
                          /\ Freed(x)' => Freed(x)
    BY <1>1, <1>2 DEF TypeOK, Freed
  <2>2. QED BY <1>1, <1>2, <1>21, <2>1, SpawnKept DEF SchedulerInv, TypeOK
<1>14. QED
  BY <1>4, <1>5, <1>6, <1>7, <1>8, <1>9, <1>10, <1>11, <1>12, <1>13 DEF SchedulerInv

LEMMA InitInv == Init => SchedulerInv
<1> USE ThreadAssumption, BoundAssumption
<1> SUFFICES ASSUME Init PROVE SchedulerInv OBVIOUS
<1>1. 0 \in Tid BY DEF Tid
<1>2. TypeOK
  <2>1. << >> \in Seq(Thread) BY EmptySeq
  <2>2. 1 \in 1 .. MaxQuantums /\ 1 \in 0 .. MaxQuantums /\ 0 \in 0 .. MaxQuantums OBVIOUS
  <2>3. /\ state \in [Thread -> States \union {"FREED"}] /\ at \in [Thread -> Point]
        /\ id \in [Thread -> Tid] /\ quantum \in [Thread -> 0 .. MaxQuantums]
    BY <1>1, <2>2 DEF Init, States, Point
  <2>4. QED BY <1>1, <2>1, <2>2, <2>3, SMTT(30) DEF Init, TypeOK
<1>3. ReadyQueueExact
  BY <1>1, EmptySeq DEF Init, ReadyQueueExact, IsInjective, Contains, Registered
<1>4. SleepersExact BY <1>1 DEF Init, SleepersExact
<1>5. BlockedSound BY <1>1 DEF Init, BlockedSound
<1>6. OneOwner BY <1>1 DEF Init, OneOwner, Freed
<1>7. CountExact
  <2>1. {i \in Tid : threads[i] # NoThread} = {0} BY <1>1 DEF Init
  <2>2. Cardinality({0}) = 1 BY FS_Singleton
  <2>3. QED BY <2>1, <2>2 DEF Init, CountExact
<1>8. MainInv /\ RunnerInv /\ TerminationInv /\ SpawnInv
  BY <1>1 DEF Init, MainInv, RunnerInv, TerminationInv, SpawnInv, Creating, Freed
<1>9. QED BY <1>2, <1>3, <1>4, <1>5, <1>6, <1>7, <1>8 DEF SchedulerInv

-----------------------------------------------------------------------------
(* The theorems.                                                           *)

\* Where the handler leaves the thread that the timer interrupts or that calls it.
LEMMA SignalContinues ==
  ASSUME SchedulerInv, TimerSignal
  PROVE  Continues(at[running_thread]) /\ Schedule(at[running_thread])
BY PreemptibleAssumption DEF TimerSignal, Continues, Point

LEMMA CallContinues ==
  ASSUME CallHandler
  PROVE  Continues("user") /\ Schedule("user")
BY DEF CallHandler, Continues, Point

LEMMA NextInv == ASSUME SchedulerInv, [ConsiderateNext]_vars PROVE SchedulerInv'
<1>1. CASE TimerSignal
  BY <1>1, SignalContinues, ScheduleInv DEF TimerSignal
<1>2. CASE CallHandler
  BY <1>2, CallContinues, ScheduleInv DEF CallHandler
<1>3. ASSUME NEW o \in Thread, Spawn(o) PROVE SchedulerInv' BY <1>3, SpawnStep
<1>4. ASSUME NEW tid \in Tid, GetQuantums(tid) PROVE SchedulerInv' BY <1>4, GetQuantumsStep
<1>5. CASE PushSpawned BY <1>5, PushStep
<1>6. CASE PrepareSpawned BY <1>6, PrepareStep
<1>7. CASE ReadHeld BY <1>7, ReadHeldStep
<1>8. CASE TerminateSelf BY <1>8, TerminateSelfStep
<1>9. ASSUME NEW tid \in Tid, TerminateOther(tid), LeavesSpawnsAlone PROVE SchedulerInv'
  BY <1>9, TerminateOtherStep DEF LeavesSpawnsAlone
<1>10. CASE TerminateMain BY <1>10, TerminateMainStep
<1>11. CASE BlockSelf BY <1>11, BlockSelfStep
<1>12. ASSUME NEW tid \in Tid, BlockOther(tid), LeavesSpawnsAlone PROVE SchedulerInv'
  BY <1>12, BlockOtherStep DEF LeavesSpawnsAlone
<1>13. ASSUME NEW tid \in Tid, Resume(tid) PROVE SchedulerInv' BY <1>13, ResumeStep
<1>14. ASSUME NEW n \in 1 .. MaxSleep, Sleep(n) PROVE SchedulerInv' BY <1>14, SleepStep
<1>15. CASE UNCHANGED vars
  BY <1>15 DEF vars, maps, queues, fields, SchedulerInv, TypeOK, ReadyQueueExact, SleepersExact,
     BlockedSound, OneOwner, CountExact, MainInv, RunnerInv, TerminationInv, SpawnInv, Registered,
     Unpushed, Creating, BeingCreated, Freed, Contains
<1>16. QED
  BY <1>1, <1>2, <1>3, <1>4, <1>5, <1>6, <1>7, <1>8, <1>9, <1>10, <1>11, <1>12, <1>13, <1>14,
     <1>15 DEF ConsiderateNext, Next, Stopped

\* The scheduler's invariant holds wherever the timer strikes, the windows that
\* addthread opens inside uthread_spawn included (line 321), provided that the user's
\* code leaves the threads alone that uthread_spawn is creating.
THEOREM SchedulerSafe == ConsiderateSpec => []SchedulerInv
<1>1. SchedulerInv /\ [ConsiderateNext]_vars => SchedulerInv' BY NextInv
<1>2. QED BY <1>1, InitInv, PTL DEF ConsiderateSpec

\* Hence, under the same hypothesis, the types are right.
THEOREM TypeCorrect == ConsiderateSpec => []TypeOK
<1>1. SchedulerInv => TypeOK BY DEF SchedulerInv
<1>2. QED BY <1>1, SchedulerSafe, PTL

\* Under the same hypothesis the ready queue holds exactly the threads that are READY
\* and pushed, each once, whatever the calls and the handler do in between
\* (schedule_handler, uthread_resume, addthread), also when the timer strikes between
\* addthread and the push.
THEOREM QueueMatchesStates == ConsiderateSpec => []ReadyQueueExact
<1>1. SchedulerInv => ReadyQueueExact BY DEF SchedulerInv
<1>2. QED BY <1>1, SchedulerSafe, PTL

\* Under the same hypothesis the map of sleepers holds exactly the threads that sleep,
\* blocked or not, with a wake-up quantum still to come (uthread_sleep,
\* schedule_handler, delete_thread).
THEOREM SleepersMatchStates == ConsiderateSpec => []SleepersExact
<1>1. SchedulerInv => SleepersExact BY DEF SchedulerInv
<1>2. QED BY <1>1, SchedulerSafe, PTL

\* Under the same hypothesis whoever is in blocked_threads is a registered thread that
\* is blocked, and it has all that were blocked asleep (uthread_block, uthread_resume,
\* delete_thread).
THEOREM BlockedMatchStates == ConsiderateSpec => []BlockedSound
<1>1. SchedulerInv => BlockedSound BY DEF SchedulerInv
<1>2. QED BY <1>1, SchedulerSafe, PTL

\* Under the same hypothesis a thread's structure is owned by the map of threads or by
\* termination, never by both nor twice, so that it is deleted once (uthread_terminate,
\* delete_thread) by a handler that no second signal interrupts at line 181.
THEOREM CellsHaveOneOwner == ConsiderateSpec => []OneOwner
<1>1. SchedulerInv => OneOwner BY DEF SchedulerInv
<1>2. QED BY <1>1, SchedulerSafe, PTL

\* Under the same hypothesis the count that admits a spawn is that of the registered
\* threads, those still being created included (uthread_spawn,
\* schedule_handler, uthread_terminate).
THEOREM CountMatchesThreads == ConsiderateSpec => []CountExact
<1>1. SchedulerInv => CountExact BY DEF SchedulerInv
<1>2. QED BY <1>1, SchedulerSafe, PTL

\* Under the same hypothesis the handler never takes the front of an empty queue.
THEOREM AlwaysATarget == ConsiderateSpec => []SwitchHasTarget
<1>1. ASSUME SchedulerInv PROVE SwitchHasTarget
  <2> USE ThreadAssumption
  <2> DEFINE r == running_thread
  <2>1. SUFFICES ASSUME ~exited, terminated[r] \/ state[r] \in Away
                 PROVE  ready_queue # << >>
    BY DEF SwitchHasTarget
  <2>2. /\ Registered(Main) /\ Main # r /\ state[Main] = "READY"
    BY <1>1, <2>1, RolesLemma, BoundAssumption
       DEF SchedulerInv, MainInv, RunnerInv, Away, Tid, Registered
  <2>3. Contains(ready_queue, Main)
    <3>1. Main \in Thread /\ ~Unpushed(Main)
      BY <1>1, <2>1 DEF SchedulerInv, MainInv, SpawnInv, Unpushed, Creating
    <3>2. QED BY <1>1, <2>1, <2>2, <3>1 DEF SchedulerInv, ReadyQueueExact
  <2>4. QED BY <2>3, EmptySeq DEF Contains
<1>2. QED BY <1>1, SchedulerSafe, PTL
-----------------------------------------------------------------------------
(* The action properties.                                                  *)

\* A step is a call of the handler, a step of another kind, or a stutter.
OtherStep ==
  \/ \E o \in Thread : Spawn(o)
  \/ \E tid \in Tid : GetQuantums(tid) \/ TerminateOther(tid) \/ BlockOther(tid) \/ Resume(tid)
  \/ PushSpawned \/ PrepareSpawned \/ ReadHeld
  \/ TerminateSelf \/ TerminateMain \/ BlockSelf
  \/ \E n \in 1 .. MaxSleep : Sleep(n)

LEMMA StepKinds ==
  ASSUME SchedulerInv, Next
  PROVE  \/ ~exited /\ \E back : Continues(back) /\ Schedule(back)
         \/ ~exited /\ OtherStep
         \/ UNCHANGED vars
<1>1. CASE TimerSignal BY <1>1, SignalContinues DEF TimerSignal
<1>2. CASE CallHandler BY <1>2, CallContinues DEF CallHandler
<1>3. CASE Stopped BY <1>3 DEF Stopped
<1>4. CASE OtherStep
  BY <1>4 DEF OtherStep, Spawn, GetQuantums, TerminateOther, BlockOther, Resume, PushSpawned,
     PrepareSpawned, ReadHeld, TerminateSelf, TerminateMain, BlockSelf, Sleep, InUser
<1>5. QED BY <1>1, <1>2, <1>3, <1>4 DEF Next, OtherStep

\* What the handler takes the next thread from: the queue as it was, and who is
\* put behind it.
LEMMA SwitchLemma ==
  ASSUME SchedulerInv, ~exited, NEW back, Continues(back), Schedule(back)
  PROVE  /\ \E line \in Seq(Thread) :
              /\ line # << >> /\ IsInjective(line)
              /\ Len(ready_queue) <= Len(line)
              /\ \A i \in 1 .. Len(ready_queue) : line[i] = ready_queue[i]
              /\ ready_queue' = Tail(line) /\ running_thread' = Head(line)
         /\ quantums_number' = Counted(quantums_number)
         /\ \A o \in Thread : quantum'[o] = IF o = running_thread' THEN Counted(quantum[o])
                                            ELSE IF o \in Doomed THEN 0 ELSE quantum[o]
<1> USE ThreadAssumption
<1> DEFINE r == running_thread
<1>1. PICK order \in Ascending(ToReady) :
        Dispatch(ready_queue \o [k \in DOMAIN order |-> sleeping_threads[order[k]]])
  BY DEF Schedule
<1> DEFINE line == Line(order)
           q    == ready_queue \o Woken(order)
<1>2. /\ ready_queue' = Tail(line)
      /\ running_thread' = Head(line)
      /\ quantum' = [Scrub(quantum, Doomed, 0) EXCEPT ![Head(line)] = Counted(@)]
  BY <1>1 DEF Dispatch, Line, Woken, Stays
<1>3. line \in Seq(Thread) /\ line # << >> /\ IsInjective(line)
  BY LineLemma DEF Continues
<1>4. ready_queue \in Seq(Thread) /\ Woken(order) \in Seq(Thread)
  BY WokenLemma DEF SchedulerInv, TypeOK
<1>5. /\ q \in Seq(Thread) /\ Len(q) = Len(ready_queue) + Len(Woken(order))
      /\ Len(ready_queue) \in Nat /\ Len(Woken(order)) \in Nat
      /\ \A i \in 1 .. Len(ready_queue) : q[i] = ready_queue[i]
  <2>1. Len(ready_queue) \in Nat /\ Len(Woken(order)) \in Nat BY <1>4, LenProperties
  <2>2. /\ q \in Seq(Thread) /\ Len(q) = Len(ready_queue) + Len(Woken(order))
        /\ \A i \in 1 .. Len(ready_queue) + Len(Woken(order)) :
             q[i] = IF i <= Len(ready_queue) THEN ready_queue[i]
                    ELSE Woken(order)[i - Len(ready_queue)]
    BY <1>4, ConcatProperties
  <2> HIDE DEF q
  <2>3. \A i \in 1 .. Len(ready_queue) : i \in 1 .. Len(ready_queue) + Len(Woken(order))
    BY <2>1
  <2>4. QED BY <2>1, <2>2, <2>3
<1>6. Len(ready_queue) <= Len(line) /\ \A i \in 1 .. Len(ready_queue) : line[i] = ready_queue[i]
  <2>1. CASE Stays
    <3>1. threads[id[r]] \in Thread BY RolesLemma
    <3>2. line = Append(q, threads[id[r]]) BY <2>1 DEF Line
    <3> HIDE DEF q, line
    <3>3. Len(line) = Len(q) + 1 /\ \A i \in 1 .. Len(q) : line[i] = q[i]
      BY <1>5, <3>1, <3>2, AppendProperties
    <3>4. QED BY <1>5, <3>3
  <2>2. CASE ~Stays
    <3>1. line = q BY <2>2 DEF Line
    <3> HIDE DEF q, line
    <3>2. QED BY <1>5, <3>1
  <2>3. QED BY <2>1, <2>2
<1>7. quantums_number' = Counted(quantums_number)
  BY DEF Schedule
<1>8. running_thread' \in Thread /\ running_thread' \notin Doomed
  BY ScheduleEffect, RolesLemma
<1> HIDE DEF line
<1>9. ASSUME NEW o \in Thread
      PROVE  quantum'[o] = IF o = running_thread' THEN Counted(quantum[o])
                           ELSE IF o \in Doomed THEN 0 ELSE quantum[o]
  BY <1>2, <1>8 DEF Scrub
<1>10. QED BY <1>2, <1>3, <1>6, <1>7, <1>9

\* A queue of which each entry stands behind no other entries than before keeps
\* the turns; so does one that loses its head, which gets the processor.
LEMMA HeadTakenLemma ==
  ASSUME NEW S, NEW q \in Seq(S), NEW line \in Seq(S), IsInjective(line), line # << >>,
         Len(q) <= Len(line), \A i \in 1 .. Len(q) : line[i] = q[i],
         NEW j \in DOMAIN q, NEW m \in DOMAIN Tail(line), Tail(line)[m] = q[j]
  PROVE  /\ Head(line) \in {q[i] : i \in 1 .. j - 1}
         /\ \A n \in 1 .. m - 1 : Tail(line)[n] \in {q[i] : i \in 1 .. j - 1}
<1>1. /\ Head(line) = line[1]
      /\ Tail(line) \in Seq(S)
      /\ Len(Tail(line)) = Len(line) - 1
      /\ \A i \in 1 .. Len(Tail(line)) : Tail(line)[i] = line[i + 1]
  BY HeadTailProperties
<1>2. /\ Len(q) \in Nat /\ DOMAIN q = 1 .. Len(q)
      /\ Len(line) \in Nat \ {0} /\ DOMAIN line = 1 .. Len(line)
      /\ DOMAIN Tail(line) = 1 .. Len(line) - 1
  BY <1>1, LenProperties, EmptySeq
<1>3. j \in 1 .. Len(line) /\ m + 1 \in 1 .. Len(line)
  BY <1>2
<1>4. line[m + 1] = line[j]
  BY <1>1, <1>2
<1>5. m + 1 = j
  BY <1>2, <1>3, <1>4 DEF IsInjective
<1>6. 1 \in 1 .. j - 1 /\ 1 \in 1 .. Len(q)
  BY <1>2, <1>5
<1>7. Head(line) = q[1]
  BY <1>1, <1>6
<1>8. ASSUME NEW n \in 1 .. m - 1 PROVE n + 1 \in 1 .. j - 1 /\ Tail(line)[n] = q[n + 1]
  <2>1. n + 1 \in 1 .. j - 1 /\ n + 1 \in 1 .. Len(q) /\ n \in 1 .. Len(line) - 1
    BY <1>2, <1>5
  <2>2. QED BY <1>1, <1>2, <2>1
<1>9. QED BY <1>6, <1>7, <1>8

LEMMA AppendedLemma ==
  ASSUME NEW S, NEW q \in Seq(S), IsInjective(q), NEW e \in S, ~Contains(q, e),
         NEW j \in DOMAIN q, NEW m \in DOMAIN Append(q, e), Append(q, e)[m] = q[j]
  PROVE  \A n \in 1 .. m - 1 : Append(q, e)[n] \in {q[i] : i \in 1 .. j - 1}
<1>1. /\ Append(q, e) \in Seq(S)
      /\ Len(Append(q, e)) = Len(q) + 1
      /\ \A i \in 1 .. Len(q) : Append(q, e)[i] = q[i]
      /\ Append(q, e)[Len(q) + 1] = e
  BY AppendProperties
<1>2. DOMAIN q = 1 .. Len(q) /\ DOMAIN Append(q, e) = 1 .. (Len(q) + 1) /\ Len(q) \in Nat
  BY <1>1, LenProperties
<1>3. m # Len(q) + 1
  BY <1>1, <1>2 DEF Contains
<1>4. m \in 1 .. Len(q)
  BY <1>2, <1>3
<1>5. m = j
  BY <1>1, <1>2, <1>4 DEF IsInjective
<1>6. ASSUME NEW n \in 1 .. m - 1 PROVE n \in 1 .. j - 1 /\ Append(q, e)[n] = q[n]
  BY <1>1, <1>2, <1>5
<1>7. QED BY <1>6

LEMMA SameQueueLemma ==
  ASSUME NEW S, NEW q \in Seq(S), IsInjective(q), NEW j \in DOMAIN q, NEW m \in DOMAIN q,
         q[m] = q[j]
  PROVE  \A n \in 1 .. m - 1 : q[n] \in {q[i] : i \in 1 .. j - 1}
BY DEF IsInjective

LEMMA RemovedLemma ==
  ASSUME NEW S, NEW q \in Seq(S), IsInjective(q), NEW k \in 1 .. Len(q), NEW j \in DOMAIN q,
         NEW m \in DOMAIN RemoveAt(q, k), RemoveAt(q, k)[m] = q[j]
  PROVE  \A n \in 1 .. m - 1 : RemoveAt(q, k)[n] \in {q[i] : i \in 1 .. j - 1}
<1> DEFINE p == RemoveAt(q, k)
           a == SubSeq(q, 1, k - 1)
           b == SubSeq(q, k + 1, Len(q))
<1>1. Len(q) \in Nat /\ DOMAIN q = 1 .. Len(q)
  BY LenProperties
<1>2. /\ a \in Seq(S) /\ Len(a) = k - 1
      /\ \A i \in 1 .. k - 1 : a[i] = q[i]
  <2>1. \A i \in 1 .. k - 1 : q[i] \in S BY <1>1, ElementOfSeq
  <2>2. /\ a \in Seq(S)
        /\ Len(a) = IF 1 <= k - 1 THEN (k - 1) - 1 + 1 ELSE 0
        /\ \A i \in 1 .. (k - 1) - 1 + 1 : a[i] = q[1 + i - 1]
    BY <1>1, <2>1, SubSeqProperties
  <2> HIDE DEF a
  <2>3. QED BY <1>1, <2>2
<1>3. /\ b \in Seq(S) /\ Len(b) = Len(q) - k
      /\ \A i \in 1 .. Len(q) - k : b[i] = q[k + i]
  <2>1. \A i \in k + 1 .. Len(q) : q[i] \in S BY <1>1, ElementOfSeq
  <2>2. /\ b \in Seq(S)
        /\ Len(b) = IF k + 1 <= Len(q) THEN Len(q) - (k + 1) + 1 ELSE 0
        /\ \A i \in 1 .. Len(q) - (k + 1) + 1 : b[i] = q[(k + 1) + i - 1]
    BY <1>1, <2>1, SubSeqProperties
  <2> HIDE DEF b
  <2>3. ASSUME NEW l \in Nat, NEW i \in 1 .. l
        PROVE  l - (i + 1) + 1 = l - i /\ (~(i + 1 <= l) => l - i = 0)
    OBVIOUS
  <2>4. \A i \in 1 .. Len(q) - k : (k + 1) + i - 1 = k + i BY <1>1
  <2>5. Len(q) - (k + 1) + 1 = Len(q) - k /\ (~(k + 1 <= Len(q)) => Len(q) - k = 0)
    BY <1>1, <2>3, Zenon
  <2>6. Len(b) = IF k + 1 <= Len(q) THEN Len(q) - (k + 1) + 1 ELSE 0 BY <2>2
  <2>7. Len(b) = Len(q) - k BY <2>5, <2>6, Zenon
  <2>8. \A i \in 1 .. Len(q) - k : b[i] = q[(k + 1) + i - 1] BY <2>2, <2>5, Zenon
  <2>9. QED BY <2>2, <2>4, <2>7, <2>8, Zenon
<1>4. p = a \o b
  BY DEF RemoveAt
<1> HIDE DEF a, b, p
<1>5. /\ p \in Seq(S) /\ Len(p) = Len(q) - 1
      /\ \A i \in 1 .. Len(q) - 1 : p[i] = IF i < k THEN q[i] ELSE q[i + 1]
  <2>1. /\ a \o b \in Seq(S) /\ Len(a \o b) = Len(a) + Len(b)
        /\ \A i \in 1 .. (Len(a) + Len(b)) :
             (a \o b)[i] = IF i <= Len(a) THEN a[i] ELSE b[i - Len(a)]
    BY <1>2, <1>3, ConcatProperties
  <2>2. ASSUME NEW i \in 1 .. Len(q) - 1 PROVE p[i] = IF i < k THEN q[i] ELSE q[i + 1]
    <3>1. i \in 1 .. (Len(a) + Len(b)) BY <1>1, <1>2, <1>3
    <3>2. CASE i < k
      <4>1. i <= Len(a) /\ i \in 1 .. k - 1 BY <1>1, <1>2, <3>2
      <4>2. QED BY <1>2, <1>4, <2>1, <3>1, <3>2, <4>1
    <3>3. CASE ~(i < k)
      <4>1. ~(i <= Len(a)) /\ i - Len(a) \in 1 .. Len(q) - k /\ k + (i - Len(a)) = i + 1
        BY <1>1, <1>2, <3>3
      <4>2. b[i - Len(a)] = q[k + (i - Len(a))] BY <1>3, <4>1
      <4>3. QED BY <1>4, <2>1, <3>1, <3>3, <4>1, <4>2
    <3>4. QED BY <3>2, <3>3
  <2>3. QED BY <1>1, <1>2, <1>3, <1>4, <2>1, <2>2
<1>6. DOMAIN p = 1 .. Len(q) - 1
  BY <1>5, LenProperties
<1>7. m \in 1 .. Len(q) - 1 /\ p[m] = q[j]
  BY <1>6 DEF p
<1>8. j = IF m < k THEN m ELSE m + 1
  <2>1. CASE m < k
    <3>1. q[m] = q[j] BY <1>5, <1>7, <2>1
    <3>2. QED BY <1>1, <1>7, <2>1, <3>1 DEF IsInjective
  <2>2. CASE ~(m < k)
    <3>1. q[m + 1] = q[j] BY <1>5, <1>7, <2>2
    <3>2. m + 1 \in 1 .. Len(q) BY <1>1, <1>7
    <3>3. QED BY <1>1, <2>2, <3>1, <3>2 DEF IsInjective
  <2>3. QED BY <2>1, <2>2
<1>9. ASSUME NEW n \in 1 .. m - 1 PROVE p[n] \in {q[i] : i \in 1 .. j - 1}
  <2>1. n \in 1 .. Len(q) - 1 BY <1>1, <1>7
  <2>2. CASE n < k
    <3>1. n \in 1 .. j - 1 /\ p[n] = q[n] BY <1>1, <1>5, <1>7, <1>8, <2>1, <2>2
    <3>2. QED BY <3>1
  <2>3. CASE ~(n < k)
    <3>1. n + 1 \in 1 .. j - 1 /\ p[n] = q[n + 1] BY <1>1, <1>5, <1>7, <1>8, <2>1, <2>3
    <3>2. QED BY <3>1
  <2>4. QED BY <2>2, <2>3
<1>10. QED BY <1>9 DEF p

\* The removal loops of uthread_block and uthread_terminate.
LEMMA ReadyWithoutOrder ==
  ASSUME NEW tid, ready_queue \in Seq(Thread), IsInjective(ready_queue),
         NEW j \in DOMAIN ready_queue, NEW m \in DOMAIN ReadyWithout(tid),
         ReadyWithout(tid)[m] = ready_queue[j]
  PROVE  \A n \in 1 .. m - 1 : ReadyWithout(tid)[n] \in {ready_queue[i] : i \in 1 .. j - 1}
<1> DEFINE q == ready_queue
           I == {i \in 1 .. Len(q) : id[q[i]] = tid}
<1>1. Len(q) \in Nat
  BY LenProperties
<1>2. CASE I = {}
  <2>1. ReadyWithout(tid) = q BY <1>2 DEF ReadyWithout, RemoveFirstMatch
  <2>2. QED BY <2>1, SameQueueLemma
<1>3. CASE I # {}
  <2>1. ReadyWithout(tid) = RemoveAt(q, Min(I))
    BY <1>3 DEF ReadyWithout, RemoveFirstMatch, SelectInSeq
  <2>2. Min(I) \in 1 .. Len(q)
    <3>1. I \subseteq Nat BY <1>1
    <3>2. \E i \in I : \A k \in I : i <= k BY <1>3, <3>1, LeastTid
    <3>3. QED BY <3>2 DEF Min
  <2> HIDE DEF I
  <2>3. QED BY <2>1, <2>2, RemovedLemma
<1>4. QED BY <1>2, <1>3

\* What the steps other than the handler do to the queue.
LEMMA OtherQueue ==
  ASSUME SchedulerInv, ~exited, OtherStep
  PROVE  /\ running_thread' = running_thread /\ quantums_number' = quantums_number
         /\ \/ ready_queue' = ready_queue
            \/ \E e \in Thread : ~Contains(ready_queue, e) /\ ready_queue' = Append(ready_queue, e)
            \/ \E tid \in Tid : ready_queue' = ReadyWithout(tid)
<1> DEFINE Goal == /\ running_thread' = running_thread /\ quantums_number' = quantums_number
                   /\ \/ ready_queue' = ready_queue
                      \/ \E e \in Thread : /\ ~Contains(ready_queue, e)
                                           /\ ready_queue' = Append(ready_queue, e)
                      \/ \E tid \in Tid : ready_queue' = ReadyWithout(tid)
<1>1. ASSUME NEW o \in Thread, Spawn(o) PROVE Goal BY <1>1 DEF Spawn, queues
<1>2. ASSUME NEW tid \in Tid, GetQuantums(tid) PROVE Goal BY <1>2 DEF GetQuantums, queues
<1>3. ASSUME NEW tid \in Tid, TerminateOther(tid) PROVE Goal BY <1>3 DEF TerminateOther
<1>4. ASSUME NEW tid \in Tid, BlockOther(tid) PROVE Goal BY <1>4 DEF BlockOther
<1>5. ASSUME NEW tid \in Tid, Resume(tid) PROVE Goal
  <2>1. PICK x \in blocked_threads :
          ready_queue' = ready_queue \/ (ready_queue' = Append(ready_queue, x))
    BY <1>5 DEF Resume
  <2>2. x \in Thread /\ state[x] # "READY" BY DEF SchedulerInv, TypeOK, BlockedSound
  <2>3. ~Contains(ready_queue, x) BY <2>2 DEF SchedulerInv, ReadyQueueExact
  <2>4. QED BY <1>5, <2>1, <2>2, <2>3 DEF Resume
<1>6. CASE PushSpawned
  <2>1. /\ held[running_thread] \in Thread
        /\ ready_queue' = Append(ready_queue, held[running_thread])
        /\ Unpushed(held[running_thread])
    BY <1>6 DEF PushSpawned, SchedulerInv, TypeOK, SpawnInv, Unpushed, Creating
  <2>2. ~Contains(ready_queue, held[running_thread])
    BY <2>1 DEF SchedulerInv, ReadyQueueExact
  <2>3. QED BY <1>6, <2>1, <2>2 DEF PushSpawned
<1>7. CASE PrepareSpawned BY <1>7 DEF PrepareSpawned, queues
<1>8. CASE ReadHeld BY <1>8 DEF ReadHeld, queues
<1>9. CASE TerminateSelf BY <1>9 DEF TerminateSelf, queues
<1>10. CASE TerminateMain BY <1>10 DEF TerminateMain, queues
<1>11. CASE BlockSelf BY <1>11 DEF BlockSelf
<1>12. ASSUME NEW n \in 1 .. MaxSleep, Sleep(n) PROVE Goal BY <1>12 DEF Sleep, queues
<1>13. QED
  BY <1>1, <1>2, <1>3, <1>4, <1>5, <1>6, <1>7, <1>8, <1>9, <1>10, <1>11, <1>12 DEF OtherStep

\* What they do to a thread: to its quantums, to its sleep, and to its block.
KeepsQuantum(o) == quantum'[o] = quantum[o] \/ ((Freed(o) \/ Freed(o)') /\ quantum'[o] = 0)
KeepsSleep(o) ==
  /\ Asleep(o) /\ ~Freed(o)' => /\ Asleep(o)' /\ ~exited'
                                /\ sleep_quantum'[o] = sleep_quantum[o]
                                /\ wake_at'[o] = wake_at[o]
  /\ ~Asleep(o) /\ Asleep(o)' => /\ ~exited'
                                 /\ wake_at'[o] = quantums_number + sleep_quantum'[o]
KeepsBlock(o) ==
  (/\ state[o] \in {"BLOCKED", "SLEEP_BLOCK"}
   /\ state'[o] \notin {"BLOCKED", "SLEEP_BLOCK", "FREED"})
    => at[running_thread] = "user" /\ o \in blocked_threads \ blocked_threads'

LEMMA OtherFields ==
  ASSUME SchedulerInv, ~exited, OtherStep, NEW o \in Thread
  PROVE  KeepsQuantum(o) /\ KeepsSleep(o) /\ KeepsBlock(o)
<1> DEFINE Goal == KeepsQuantum(o) /\ KeepsSleep(o) /\ KeepsBlock(o)
           r == running_thread
<1> USE ThreadAssumption
<1>1. /\ state \in [Thread -> States \union {"FREED"}]
      /\ quantum \in [Thread -> 0 .. MaxQuantums]
      /\ sleep_quantum \in [Thread -> Int] /\ wake_at \in [Thread -> Int]
      /\ blocked_threads \subseteq Thread /\ r \in Thread /\ quantums_number \in Int
      /\ ready_queue \in Seq(Thread)
  BY DEF SchedulerInv, TypeOK
<1>2. ASSUME UNCHANGED <<state, quantum, sleep_quantum, exited, wake_at>> PROVE Goal
  BY <1>2 DEF KeepsQuantum, KeepsSleep, KeepsBlock, Asleep, Freed
<1>3. ASSUME NEW x \in Thread, Spawn(x) PROVE Goal
  <2>1. /\ state[x] = "FREED" /\ state' = [state EXCEPT ![x] = "READY"]
        /\ quantum' = [quantum EXCEPT ![x] = 0]
        /\ sleep_quantum' = [sleep_quantum EXCEPT ![x] = 0]
        /\ UNCHANGED <<exited, wake_at>>
    BY <1>3 DEF Spawn, Freed
  <2>2. QED BY <1>1, <2>1 DEF KeepsQuantum, KeepsSleep, KeepsBlock, Asleep, Freed
<1>4. ASSUME NEW tid \in Tid, GetQuantums(tid) PROVE Goal
  BY <1>2, <1>4 DEF GetQuantums, fields
<1>5. ASSUME NEW tid \in Tid, TerminateOther(tid) PROVE Goal
  <2>1. /\ threads[tid] \in Thread
        /\ state' = [state EXCEPT ![threads[tid]] = "FREED"]
        /\ quantum' = [quantum EXCEPT ![threads[tid]] = 0]
        /\ sleep_quantum' = [sleep_quantum EXCEPT ![threads[tid]] = 0]
        /\ wake_at' = [wake_at EXCEPT ![threads[tid]] = 0]
        /\ exited' = exited
    BY <1>5 DEF TerminateOther, SchedulerInv, TypeOK
  <2>2. QED BY <1>1, <2>1 DEF KeepsQuantum, KeepsSleep, KeepsBlock, Asleep, Freed
<1>6. ASSUME NEW tid \in Tid, BlockOther(tid) PROVE Goal
  <2>1. /\ threads[tid] \in Thread /\ state[threads[tid]] \in {"SLEEP", "READY"}
        /\ state' = [state EXCEPT ![threads[tid]] = IF @ = "SLEEP" THEN "SLEEP_BLOCK"
                                                                  ELSE "BLOCKED"]
        /\ UNCHANGED <<quantum, sleep_quantum, wake_at, exited>>
    BY <1>6 DEF BlockOther, SchedulerInv, TypeOK
  <2>2. QED BY <1>1, <2>1 DEF KeepsQuantum, KeepsSleep, KeepsBlock, Asleep, Freed
<1>7. ASSUME NEW tid \in Tid, Resume(tid) PROVE Goal
  <2>1. PICK x \in blocked_threads :
          /\ id[x] = tid
          /\ state' = [state EXCEPT ![x] = IF state[threads[tid]] = "SLEEP_BLOCK"
                                           THEN "SLEEP" ELSE "READY"]
          /\ blocked_threads' = blocked_threads \ {x}
    BY <1>7 DEF Resume
  <2>2. /\ x \in Thread /\ x = threads[tid] /\ state[x] \in {"BLOCKED", "SLEEP_BLOCK"}
    <3>1. x \in Thread /\ Registered(x) /\ state[x] \in {"BLOCKED", "SLEEP_BLOCK"}
      BY <1>1 DEF SchedulerInv, BlockedSound
    <3>2. QED BY <2>1, <3>1, RolesLemma
  <2>3. at[r] = "user" /\ UNCHANGED <<quantum, sleep_quantum, wake_at, exited>>
    BY <1>7 DEF Resume, InUser
  <2>4. KeepsQuantum(o) BY <2>3 DEF KeepsQuantum
  <2>5. CASE o = x
    BY <1>1, <2>1, <2>2, <2>3, <2>4, <2>5 DEF KeepsSleep, KeepsBlock, Asleep, Freed
  <2>6. CASE o # x
    <3>1. state'[o] = state[o] BY <1>1, <2>1, <2>6
    <3>2. QED BY <2>3, <2>4, <3>1 DEF KeepsSleep, KeepsBlock, Asleep, Freed
  <2>7. QED BY <2>5, <2>6
<1>8. CASE PushSpawned BY <1>2, <1>8 DEF PushSpawned, fields
<1>9. CASE PrepareSpawned BY <1>2, <1>9 DEF PrepareSpawned, fields
<1>10. CASE ReadHeld BY <1>2, <1>10 DEF ReadHeld, fields
<1>11. CASE TerminateSelf BY <1>2, <1>11 DEF TerminateSelf
<1>12. CASE TerminateMain
  <2>1. /\ state' = [x \in Thread |-> IF \E i \in Tid : threads[i] = x THEN "FREED" ELSE state[x]]
        /\ UNCHANGED <<quantum, sleep_quantum, wake_at>>
    BY <1>12 DEF TerminateMain
  <2>2. Asleep(o) => Registered(o)
    BY RolesLemma DEF Asleep, Freed
  <2>3. KeepsQuantum(o) BY <2>1 DEF KeepsQuantum
  <2>4. CASE Registered(o)
    <3>1. state'[o] = "FREED" BY <2>1, <2>4 DEF Registered
    <3>2. QED BY <2>3, <3>1 DEF KeepsSleep, KeepsBlock, Asleep, Freed
  <2>5. CASE ~Registered(o)
    <3>1. state'[o] = state[o] BY <2>1, <2>5 DEF Registered
    <3>2. QED BY <2>2, <2>3, <2>5, <3>1 DEF KeepsSleep, KeepsBlock, Asleep, Freed
  <2>6. QED BY <2>4, <2>5
<1>13. CASE BlockSelf
  <2>1. state[r] = "RUNNING"
    BY <1>13, InUserLemma DEF BlockSelf
  <2>2. /\ state' = [state EXCEPT ![r] = "BLOCKED"]
        /\ UNCHANGED <<quantum, sleep_quantum, wake_at, exited>>
    BY <1>13 DEF BlockSelf
  <2>3. QED BY <1>1, <2>1, <2>2 DEF KeepsQuantum, KeepsSleep, KeepsBlock, Asleep, Freed
<1>14. ASSUME NEW n \in 1 .. MaxSleep, Sleep(n) PROVE Goal
  <2>1. state[r] = "RUNNING"
    BY <1>14, InUserLemma DEF Sleep
  <2>2. /\ state' = [state EXCEPT ![r] = "SLEEP"]
        /\ sleep_quantum' = [sleep_quantum EXCEPT ![r] = n + 1]
        /\ wake_at' = [wake_at EXCEPT ![r] = quantums_number + n + 1]
        /\ UNCHANGED <<quantum, exited>>
    BY <1>14 DEF Sleep
  <2>3. quantums_number + (n + 1) = quantums_number + n + 1 BY <1>1
  <2>4. QED BY <1>1, <2>1, <2>2, <2>3 DEF KeepsQuantum, KeepsSleep, KeepsBlock, Asleep, Freed
<1>15. QED
  BY <1>3, <1>4, <1>5, <1>6, <1>7, <1>8, <1>9, <1>10, <1>11, <1>12, <1>13, <1>14 DEF OtherStep

\* A thread was not given more quantums than there were, and a sleeper wakes when
\* the quantums that it still has to wait are over (while the bound lasts).
QuantumsInv == \A o \in Thread : quantum[o] <= quantums_number
SleepsInv ==
  \A o \in Thread : Asleep(o) =>
    /\ ~exited
    /\ quantums_number < MaxQuantums => wake_at[o] = quantums_number + sleep_quantum[o]
TimeInv == SchedulerInv /\ QuantumsInv /\ SleepsInv

\* What the handler does to the quantums and to a sleep.
LEMMA SwitchFields ==
  ASSUME SchedulerInv, ~exited, NEW back, Continues(back), Schedule(back), NEW o \in Thread
  PROVE  /\ exited' = exited
         /\ Asleep(o)' <=> Asleep(o) /\ sleep_quantum[o] # 1
         /\ Asleep(o) => /\ sleep_quantum[o] > 0
                         /\ sleep_quantum'[o] = sleep_quantum[o] - 1
                         /\ Asleep(o)' => wake_at'[o] = wake_at[o]
<1> USE ThreadAssumption
<1> DEFINE r == running_thread
           n == running_thread'
<1>1. /\ n \in Thread /\ Registered(n)
      /\ Settled(n) = "READY" \/ (Stays /\ n = r)
      /\ state' = [x \in Thread |-> IF x = n THEN "RUNNING"
                                    ELSE IF Stays /\ x = r THEN "READY" ELSE Settled(x)]
  BY ScheduleEffect DEF InLine
<1>2. /\ sleep_quantum' = [x \in Thread |-> IF Sleeping(x) THEN sleep_quantum[x] - 1
                                                           ELSE sleep_quantum[x]]
      /\ wake_at' = [x \in Thread |-> IF Waking(x) THEN 0 ELSE wake_at[x]]
      /\ exited' = exited
  BY DEF Schedule
<1>3. /\ Asleep(o) => Registered(o) /\ o \notin Doomed
      /\ Waking(o) <=> Asleep(o) /\ sleep_quantum[o] = 1
      /\ Sleeping(o) <=> Asleep(o)
      /\ Asleep(o) => sleep_quantum[o] > 0
  <2>1. Asleep(o) => Registered(o) /\ o \notin Doomed
    BY RolesLemma DEF Asleep, Freed
  <2>2. /\ Waking(o) <=> Registered(o) /\ Asleep(o) /\ sleep_quantum[o] = 1
        /\ Sleeping(o) <=> Registered(o) /\ Asleep(o)
    BY SleepersLemma
  <2>3. Sleeping(o) => sleep_quantum[o] > 0
    BY DEF Sleeping, SchedulerInv, SleepersExact
  <2>4. QED BY <2>1, <2>2, <2>3
<1>4. Asleep(o)' <=> Asleep(o) /\ ~Waking(o)
  <2>1. state[r] \in {"RUNNING", "BLOCKED", "SLEEP"} /\ Settled(r) = state[r]
    BY RolesLemma, SleepersLemma DEF Settled, SchedulerInv, RunnerInv
  <2>2. Settled(o) \in {"SLEEP", "SLEEP_BLOCK"} <=> Asleep(o) /\ ~Waking(o)
    BY <1>3, SleepersLemma DEF Settled, Asleep
  <2>3. CASE o = n
    BY <1>1, <2>1, <2>2, <2>3 DEF Asleep, Stays, Away
  <2>4. CASE o # n /\ Stays /\ o = r
    BY <1>1, <2>2, <2>4 DEF Asleep, Stays, Away
  <2>5. CASE o # n /\ ~(Stays /\ o = r)
    BY <1>1, <2>2, <2>5 DEF Asleep
  <2>6. QED BY <2>3, <2>4, <2>5
<1>5. QED BY <1>2, <1>3, <1>4

LEMMA TimeStep == ASSUME TimeInv, [ConsiderateNext]_vars PROVE TimeInv'
<1> USE BoundAssumption DEF TimeInv
<1>1. SchedulerInv' BY NextInv
<1>2. /\ quantum \in [Thread -> 0 .. MaxQuantums] /\ quantum' \in [Thread -> 0 .. MaxQuantums]
      /\ quantums_number \in 1 .. MaxQuantums /\ MaxQuantums \in Nat
      /\ sleep_quantum \in [Thread -> Int] /\ wake_at \in [Thread -> Int]
      /\ state \in [Thread -> States \union {"FREED"}]
  BY <1>1 DEF SchedulerInv, TypeOK
<1>3. ASSUME ~exited, NEW back, Continues(back), Schedule(back)
      PROVE  QuantumsInv' /\ SleepsInv'
  <2>1. /\ quantums_number' = Counted(quantums_number)
        /\ \A o \in Thread : quantum'[o] = IF o = running_thread' THEN Counted(quantum[o])
                                           ELSE IF o \in Doomed THEN 0 ELSE quantum[o]
    BY <1>3, SwitchLemma
  <2>2. QuantumsInv' BY <1>2, <2>1 DEF QuantumsInv, Counted
  <2>3. ASSUME NEW o \in Thread, Asleep(o)'
        PROVE  /\ ~exited'
               /\ quantums_number' < MaxQuantums
                    => wake_at'[o] = quantums_number' + sleep_quantum'[o]
    <3>1. /\ exited' = exited /\ Asleep(o) /\ sleep_quantum'[o] = sleep_quantum[o] - 1
          /\ wake_at'[o] = wake_at[o]
      BY <1>3, <2>3, SwitchFields
    <3>2. ASSUME quantums_number' < MaxQuantums
          PROVE  quantums_number < MaxQuantums /\ quantums_number' = quantums_number + 1
      BY <1>2, <2>1, <3>2 DEF Counted
    <3>3. QED BY <1>2, <1>3, <3>1, <3>2 DEF SleepsInv
  <2>4. QED BY <2>2, <2>3 DEF SleepsInv
<1>4. ASSUME ~exited, OtherStep PROVE QuantumsInv' /\ SleepsInv'
  <2>1. quantums_number' = quantums_number
        /\ \A o \in Thread : KeepsQuantum(o) /\ KeepsSleep(o)
    BY <1>4, OtherQueue, OtherFields
  <2>2. SleepsInv' BY <1>2, <2>1 DEF SleepsInv, KeepsSleep, Asleep, Freed
  <2>3. QED BY <1>2, <2>1, <2>2 DEF QuantumsInv, KeepsQuantum
<1>5. CASE UNCHANGED vars
  <2>1. UNCHANGED <<quantum, quantums_number, sleep_quantum, wake_at, state, exited>>
    BY <1>5 DEF vars, fields
  <2>2. QuantumsInv' BY <2>1 DEF QuantumsInv
  <2>3. SleepsInv' BY <2>1 DEF SleepsInv, Asleep
  <2>4. QED BY <1>1, <2>2, <2>3
<1>6. QED BY <1>1, <1>3, <1>4, <1>5, StepKinds DEF ConsiderateNext

LEMMA InTurnStep == ASSUME SchedulerInv, [Next]_vars PROVE [InTurn]_vars
<1>1. SUFFICES ASSUME Next, vars' # vars PROVE InTurn
  OBVIOUS
<1>2. SUFFICES ASSUME NEW j \in DOMAIN ready_queue, NEW m \in DOMAIN ready_queue',
                      ready_queue'[m] = ready_queue[j]
               PROVE  LET ahead == {ready_queue[i] : i \in 1 .. j - 1}
                      IN  /\ running_thread' \in ahead \union {running_thread}
                          /\ \A n \in 1 .. m - 1 : ready_queue'[n] \in ahead
  BY DEF InTurn
<1>3. ASSUME ~exited PROVE ready_queue \in Seq(Thread) /\ IsInjective(ready_queue)
  BY <1>3 DEF SchedulerInv, TypeOK, ReadyQueueExact
<1>4. ASSUME ~exited, NEW back, Continues(back), Schedule(back)
      PROVE  /\ running_thread' \in {ready_queue[i] : i \in 1 .. j - 1}
             /\ \A n \in 1 .. m - 1 : ready_queue'[n] \in {ready_queue[i] : i \in 1 .. j - 1}
  <2>1. PICK line \in Seq(Thread) :
              /\ line # << >> /\ IsInjective(line)
              /\ Len(ready_queue) <= Len(line)
              /\ \A i \in 1 .. Len(ready_queue) : line[i] = ready_queue[i]
              /\ ready_queue' = Tail(line) /\ running_thread' = Head(line)
    BY <1>4, SwitchLemma
  <2>2. m \in DOMAIN Tail(line) /\ Tail(line)[m] = ready_queue[j]
    BY <1>2, <2>1
  <2>3. /\ Head(line) \in {ready_queue[i] : i \in 1 .. j - 1}
        /\ \A n \in 1 .. m - 1 : Tail(line)[n] \in {ready_queue[i] : i \in 1 .. j - 1}
    BY <1>3, <1>4, <2>1, <2>2, HeadTakenLemma
  <2>4. QED BY <2>1, <2>3
<1>5. ASSUME ~exited, OtherStep
      PROVE  /\ running_thread' = running_thread
             /\ \A n \in 1 .. m - 1 : ready_queue'[n] \in {ready_queue[i] : i \in 1 .. j - 1}
  <2>1. running_thread' = running_thread BY <1>5, OtherQueue
  <2>2. ASSUME ready_queue' = ready_queue
        PROVE  \A n \in 1 .. m - 1 : ready_queue'[n] \in {ready_queue[i] : i \in 1 .. j - 1}
    <3>1. m \in DOMAIN ready_queue /\ ready_queue[m] = ready_queue[j] BY <1>2, <2>2
    <3>2. \A n \in 1 .. m - 1 : ready_queue[n] \in {ready_queue[i] : i \in 1 .. j - 1}
      BY <1>3, <1>5, <3>1, SameQueueLemma
    <3>3. QED BY <2>2, <3>2
  <2>3. ASSUME NEW e \in Thread, ~Contains(ready_queue, e), ready_queue' = Append(ready_queue, e)
        PROVE  \A n \in 1 .. m - 1 : ready_queue'[n] \in {ready_queue[i] : i \in 1 .. j - 1}
    BY <1>2, <1>3, <1>5, <2>3, AppendedLemma
  <2>4. ASSUME NEW tid \in Tid, ready_queue' = ReadyWithout(tid)
        PROVE  \A n \in 1 .. m - 1 : ready_queue'[n] \in {ready_queue[i] : i \in 1 .. j - 1}
    BY <1>2, <1>3, <1>5, <2>4, ReadyWithoutOrder
  <2>5. QED BY <1>5, <2>1, <2>2, <2>3, <2>4, OtherQueue
<1>6. QED BY <1>1, <1>4, <1>5, StepKinds

LEMMA BlockStep ==
  ASSUME SchedulerInv, [Next]_vars PROVE [ResumedByCall]_vars
<1>1. SUFFICES ASSUME Next, vars' # vars PROVE ResumedByCall
  OBVIOUS
<1>2. SUFFICES ASSUME NEW o \in Thread, state[o] \in {"BLOCKED", "SLEEP_BLOCK"},
                      state'[o] \notin {"BLOCKED", "SLEEP_BLOCK", "FREED"}
               PROVE  /\ at[running_thread] = "user"
                      /\ running_thread' = running_thread
                      /\ o \in blocked_threads \ blocked_threads'
  BY DEF ResumedByCall
<1>3. ASSUME ~exited, NEW back, Continues(back), Schedule(back)
      PROVE  FALSE
  <2> DEFINE r == running_thread
             n == running_thread'
  <2>1. /\ n \in Thread /\ r \in Thread
        /\ Settled(n) = "READY" \/ (Stays /\ n = r)
        /\ state' = [x \in Thread |-> IF x = n THEN "RUNNING"
                                      ELSE IF Stays /\ x = r THEN "READY" ELSE Settled(x)]
    BY <1>3, ScheduleEffect, RolesLemma DEF InLine
  <2>2. Settled(o) \in {"BLOCKED", "SLEEP_BLOCK", "FREED"}
    BY <1>2, <1>3, SleepersLemma DEF Settled, Asleep
  <2>3. ~(Stays /\ o = r) BY <1>2, <1>3, <2>2, RolesLemma DEF Stays, Away, Settled
  <2>4. o # n BY <2>1, <2>2, <2>3
  <2>5. state'[o] = Settled(o) BY <2>1, <2>3, <2>4
  <2>6. QED BY <1>2, <2>2, <2>5
<1>4. ASSUME ~exited, OtherStep
      PROVE  /\ at[running_thread] = "user"
             /\ running_thread' = running_thread
             /\ o \in blocked_threads \ blocked_threads'
  BY <1>2, <1>4, OtherQueue, OtherFields DEF KeepsBlock
<1>5. QED BY <1>1, <1>3, <1>4, StepKinds

LEMMA WakeStep == ASSUME TimeInv, [Next]_vars PROVE [WakesOnTime]_vars
<1> USE DEF TimeInv
<1>1. SUFFICES ASSUME Next, vars' # vars PROVE WakesOnTime
  OBVIOUS
<1>2. SUFFICES ASSUME NEW o \in Thread, Asleep(o), ~Freed(o)', quantums_number' < MaxQuantums
               PROVE  Asleep(o)' <=> quantums_number' < wake_at[o]
  BY DEF WakesOnTime
<1>3. /\ quantums_number \in 1 .. MaxQuantums /\ MaxQuantums \in Nat
      /\ sleep_quantum[o] \in Int /\ wake_at[o] \in Int
  BY BoundAssumption DEF SchedulerInv, TypeOK
<1>4. ASSUME ~exited, NEW back, Continues(back), Schedule(back)
      PROVE  Asleep(o)' <=> quantums_number' < wake_at[o]
  <2>1. quantums_number' = Counted(quantums_number) BY <1>4, SwitchLemma
  <2>2. quantums_number < MaxQuantums /\ quantums_number' = quantums_number + 1
    BY <1>2, <1>3, <2>1 DEF Counted
  <2>3. wake_at[o] = quantums_number + sleep_quantum[o]
    BY <1>2, <2>2 DEF SleepsInv
  <2>4. sleep_quantum[o] > 0 /\ (Asleep(o)' <=> sleep_quantum[o] # 1)
    BY <1>2, <1>4, SwitchFields
  <2>5. QED BY <1>3, <2>2, <2>3, <2>4
<1>5. ASSUME ~exited, OtherStep PROVE Asleep(o)' <=> quantums_number' < wake_at[o]
  <2>1. quantums_number' = quantums_number /\ Asleep(o)'
    BY <1>2, <1>5, OtherQueue, OtherFields DEF KeepsSleep
  <2>2. wake_at[o] = quantums_number + sleep_quantum[o]
    BY <1>2, <2>1 DEF SleepsInv
  <2>3. sleep_quantum[o] > 0
    <3>1. Sleeping(o) BY <1>2, <1>5, SleepersLemma, RolesLemma DEF Asleep, Freed
    <3>2. QED BY <1>5, <3>1 DEF Sleeping, SchedulerInv, SleepersExact
  <2>4. QED BY <1>3, <2>1, <2>2, <2>3
<1>6. QED BY <1>1, <1>4, <1>5, StepKinds

LEMMA AccountStep == ASSUME TimeInv, [Next]_vars PROVE [QuantumsAddUp]_vars
<1> USE DEF TimeInv
<1>1. SUFFICES ASSUME Next, vars' # vars PROVE QuantumsAddUp
  OBVIOUS
<1>2. SUFFICES ASSUME quantums_number' < MaxQuantums, NEW o \in Thread, ~Freed(o), ~Freed(o)'
               PROVE  quantum'[o] = IF quantums_number' # quantums_number /\ o = running_thread'
                                    THEN quantum[o] + (quantums_number' - quantums_number)
                                    ELSE quantum[o]
  BY DEF QuantumsAddUp
<1>3. /\ quantums_number \in 1 .. MaxQuantums /\ MaxQuantums \in Nat
      /\ quantum[o] \in 0 .. MaxQuantums /\ quantum[o] <= quantums_number
  BY BoundAssumption DEF SchedulerInv, TypeOK, QuantumsInv
<1>4. ASSUME ~exited, NEW back, Continues(back), Schedule(back)
      PROVE  quantum'[o] = IF quantums_number' # quantums_number /\ o = running_thread'
                           THEN quantum[o] + (quantums_number' - quantums_number)
                           ELSE quantum[o]
  <2>1. /\ quantums_number' = Counted(quantums_number)
        /\ quantum'[o] = IF o = running_thread' THEN Counted(quantum[o])
                         ELSE IF o \in Doomed THEN 0 ELSE quantum[o]
    BY <1>4, SwitchLemma
  <2>2. quantums_number < MaxQuantums /\ quantums_number' = quantums_number + 1
    BY <1>2, <1>3, <2>1 DEF Counted
  <2>3. Counted(quantum[o]) = quantum[o] + 1
    BY <1>3, <2>2 DEF Counted
  <2>4. o \notin Doomed
    <3>1. /\ state' = [x \in Thread |-> IF x = running_thread' THEN "RUNNING"
                                        ELSE IF Stays /\ x = running_thread THEN "READY"
                                        ELSE Settled(x)]
          /\ Registered(running_thread')
      BY <1>4, ScheduleEffect
    <3>2. o \in Doomed => o # running_thread' /\ o # running_thread
      BY <1>4, <3>1, RolesLemma
    <3>3. o \in Doomed => state'[o] = "FREED"
      BY <3>1, <3>2 DEF Settled
    <3>4. QED BY <1>2, <3>3 DEF Freed
  <2>5. (quantum[o] + 1) = quantum[o] + ((quantums_number + 1) - quantums_number)
    BY <1>3
  <2>6. quantums_number + 1 # quantums_number BY <1>3
  <2>7. QED BY <2>1, <2>2, <2>3, <2>4, <2>5, <2>6
<1>5. ASSUME ~exited, OtherStep PROVE quantums_number' = quantums_number /\ quantum'[o] = quantum[o]
  BY <1>2, <1>5, OtherQueue, OtherFields DEF KeepsQuantum
<1>6. QED BY <1>1, <1>4, <1>5, StepKinds

LEMMA TimeAlways == ConsiderateSpec => []TimeInv
<1>1. Init => TimeInv
  <2>1. Init => QuantumsInv BY DEF Init, QuantumsInv
  <2>2. Init => SleepsInv BY DEF Init, SleepsInv, Asleep
  <2>3. QED BY <2>1, <2>2, InitInv DEF TimeInv
<1>2. TimeInv /\ [ConsiderateNext]_vars => TimeInv' BY TimeStep
<1>3. QED BY <1>1, <1>2, PTL DEF ConsiderateSpec

\* Round robin, for queues of any length, under the same hypothesis: wherever the timer
\* strikes, a queued thread is passed by nobody (ready_queue in schedule_handler, and the
\* loops that rebuild it in uthread_block and uthread_terminate).
THEOREM NobodyOvertakes == ConsiderateSpec => NoOvertaking
<1>1. SchedulerInv /\ [ConsiderateNext]_vars => [InTurn]_vars BY InTurnStep DEF ConsiderateNext
<1>2. QED BY <1>1, SchedulerSafe, PTL DEF ConsiderateSpec, NoOvertaking

\* Under the same hypothesis only uthread_resume, called by the thread that runs, makes a
\* blocked thread eligible again: neither the end of a sleep, nor the handler, nor the
\* push of uthread_spawn does.
THEOREM BlockedStayBlocked == ConsiderateSpec => BlockedUntilResumed
<1>1. SchedulerInv /\ [ConsiderateNext]_vars => [ResumedByCall]_vars BY BlockStep DEF ConsiderateNext
<1>2. QED BY <1>1, SchedulerSafe, PTL DEF ConsiderateSpec, BlockedUntilResumed

\* Under the same hypothesis a sleep of n quantums lasts n quantums after that of the
\* call, whatever happens to the thread meanwhile (uthread_sleep, the countdown in
\* schedule_handler).
THEOREM SleepersWakeOnTime == ConsiderateSpec => SleepWakesOnTime
<1>1. TimeInv /\ [ConsiderateNext]_vars => [WakesOnTime]_vars BY WakeStep DEF ConsiderateNext
<1>2. QED BY <1>1, TimeAlways, PTL DEF ConsiderateSpec, SleepWakesOnTime

\* Under the same hypothesis the library's count of quantums and those of the threads
\* rise together (what uthread_get_total_quantums and uthread_get_quantums return).
THEOREM QuantumsAccounted == ConsiderateSpec => QuantumAccounting
<1>1. TimeInv /\ [ConsiderateNext]_vars => [QuantumsAddUp]_vars BY AccountStep DEF ConsiderateNext
<1>2. QED BY <1>1, TimeAlways, PTL DEF ConsiderateSpec, QuantumAccounting

=============================================================================
