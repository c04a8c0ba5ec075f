------------------------------ MODULE UThreads ------------------------------
(***************************************************************************)
(* The user-level thread library of Uthreads_Library/uthreads.cpp: one      *)
(* processor shared by the threads of one process, switched by the handler  *)
(* of SIGVTALRM (schedule_handler) and by the calls that give it up.        *)
(*                                                                         *)
(* A step is a stretch of code between two points where the timer may       *)
(* strike: in the user's code; between the unblock() of a call that gives   *)
(* the processor up and its own call of the handler ("call"); around the    *)
(* reads that follow the last unblock() of uthread_spawn and                *)
(* uthread_get_quantums ("spawn", "quantums"); and inside uthread_spawn,    *)
(* where the unblock() of addthread has already opened the mask ("push",    *)
(* "setjmp").  Preemptible says at which of them it does strike.  The       *)
(* handler is one step: the two places where it opens the mask itself       *)
(* (lines 181 and 270) are not in this module.                              *)
(***************************************************************************)
EXTENDS Integers, Sequences, FiniteSets, SequencesExt

CONSTANTS
  Thread,          \* the heap cells a `thread` structure can occupy
  Main,            \* the cell of the main thread
  NoThread,        \* the null pointer
  MAX_THREAD_NUM,  \* the limit on concurrent threads
  Preemptible,     \* the points at which SIGVTALRM is delivered
  MaxSleep,        \* bound: the longest sleep a thread asks for
  MaxQuantums      \* bound: the quantum counters stop at this value

ASSUME ThreadAssumption ==
  /\ IsFiniteSet(Thread)
  /\ Main \in Thread
  /\ NoThread \notin Thread

ASSUME PreemptibleAssumption ==
  Preemptible \subseteq {"user", "call", "push", "setjmp", "spawn", "quantums"}

ASSUME BoundAssumption ==
  /\ MAX_THREAD_NUM \in Nat \ {0}
  /\ MaxSleep \in Nat
  /\ MaxQuantums \in Nat \ {0}

VARIABLES
  threads,            \* map<int, thread*>: the registered threads by id
  ready_queue,        \* queue<thread*>
  blocked_threads,    \* vector<thread*>, used as a set
  sleeping_threads,   \* map<int, thread*>
  termination,        \* map<int, thread*>: terminated themselves, not yet freed
  running_thread,     \* thread*
  quantums_number,    \* quantums started since uthread_init
  threads_cur_number, \* the library's own count of the registered threads
  state, id, quantum, sleep_quantum, terminated, \* the fields of each cell
  at,                 \* the point where each thread is, or resumes (its env)
  held,               \* the thread* a caller of spawn or get_quantums still reads
  exited,             \* has exit() been called?
  wake_at             \* history: the quantum at whose start a sleep must end

maps   == <<threads, sleeping_threads, termination>>
queues == <<ready_queue, blocked_threads>>
fields == <<state, id, quantum, sleep_quantum, terminated>>
vars   == <<maps, queues, running_thread, quantums_number, threads_cur_number,
            fields, at, held, exited, wake_at>>

Tid    == 0 .. (MAX_THREAD_NUM - 1)
States == {"RUNNING", "BLOCKED", "READY", "SLEEP", "SLEEP_BLOCK"}

\* Where a thread's own code is; "raw" if its context has not been set up.
Point == {"raw", "user", "call", "push", "setjmp", "spawn", "quantums"}

\* The states in which schedule_handler does not put a thread back in the queue.
Away == {"SLEEP", "BLOCKED", "SLEEP_BLOCK"}

-----------------------------------------------------------------------------
(* Helpers.                                                                *)

\* `delete` returns a cell to the heap; a freed cell is scrubbed.
Freed(o) == state[o] = "FREED"
Scrub(f, dead, value) == [o \in Thread |-> IF o \in dead THEN value ELSE f[o]]

\* The lowest id that addthread finds unused.
FreeTids  == {i \in Tid : threads[i] = NoThread}
LowestTid == CHOOSE i \in FreeTids : \A j \in FreeTids : i <= j

\* Mutant: the loop over blocked_threads is dropped.
MutantBlockedStays(tids) == blocked_threads

\* The removal loops compare ids, and at most one queued thread has a given id.
ReadyWithout(tid)    == RemoveFirstMatch(ready_queue, LAMBDA o : id[o] = tid)
BlockedWithout(tids) == {o \in blocked_threads : id[o] \notin tids}

\* delete_thread wakes nobody: a sleeper just leaves sleeping_threads.
\* Mutant: it forgets those that are blocked too.
MutantSleepBlockStays(o) == IF state[o] = "SLEEP"
                            THEN [sleeping_threads EXCEPT ![id[o]] = NoThread]
                            ELSE sleeping_threads
SleepersWithout(o) == IF state[o] \in {"SLEEP", "SLEEP_BLOCK"}
                      THEN [sleeping_threads EXCEPT ![id[o]] = NoThread]
                      ELSE sleeping_threads

\* One more quantum, up to the bound.
Counted(n) == IF n < MaxQuantums THEN n + 1 ELSE n

-----------------------------------------------------------------------------
(* The state when uthread_init returns: the main thread is RUNNING.         *)

Init ==
  /\ threads = [i \in Tid |-> IF i = 0 THEN Main ELSE NoThread]
  /\ sleeping_threads = [i \in Tid |-> NoThread]
  /\ termination = [i \in Tid |-> NoThread]
  /\ ready_queue = << >>
  /\ blocked_threads = {}
  /\ running_thread = Main
  /\ quantums_number = 1
  /\ threads_cur_number = 1
  /\ state = [o \in Thread |-> IF o = Main THEN "RUNNING" ELSE "FREED"]
  /\ id = [o \in Thread |-> 0]
  /\ quantum = [o \in Thread |-> IF o = Main THEN 1 ELSE 0]
  /\ sleep_quantum = [o \in Thread |-> 0]
  /\ terminated = [o \in Thread |-> FALSE]
  /\ at = [o \in Thread |-> IF o = Main THEN "user" ELSE "raw"]
  /\ held = [o \in Thread |-> NoThread]
  /\ exited = FALSE
  /\ wake_at = [o \in Thread |-> 0]

-----------------------------------------------------------------------------
(* schedule_handler.                                                       *)

\* The sleepers whose last quantum of sleep ends, and those of them that are
\* not blocked as well: they join the ready queue in the order of the map.
WakingUp == {i \in Tid : /\ sleeping_threads[i] # NoThread
                         /\ sleep_quantum[sleeping_threads[i]] = 1}
\* Mutant: a woken thread is not pushed.
MutantNoneReady == {}
ToReady  == {i \in WakingUp : state[sleeping_threads[i]] # "SLEEP_BLOCK"}

Ascending(S) == {s \in [1 .. Cardinality(S) -> S] :
                   /\ \A j, k \in DOMAIN s : j < k => s[j] < s[k]
                   /\ \A i \in S : \E j \in DOMAIN s : s[j] = i}

Sleeping(o) == \E i \in Tid : sleeping_threads[i] = o
Waking(o)   == \E i \in WakingUp : sleeping_threads[i] = o

\* The threads that terminated themselves before this call of the handler.
Doomed    == {o \in Thread : \E i \in Tid : termination[i] = o}
DoomedIds == {i \in Tid : termination[i] # NoThread}

\* Mutants: a thread blocked asleep wakes READY, or does not wake.
MutantWakesReady(o) == IF o \in Doomed THEN "FREED"
                       ELSE IF Waking(o) THEN "READY" ELSE state[o]
MutantSleepsOn(o)   == IF o \in Doomed THEN "FREED"
                       ELSE IF Waking(o) /\ state[o] = "SLEEP" THEN "READY" ELSE state[o]

\* The state of a thread once the sleepers are woken and the doomed deleted.
Settled(o) == IF o \in Doomed THEN "FREED"
              ELSE IF ~Waking(o) THEN state[o]
              ELSE IF state[o] = "SLEEP_BLOCK" THEN "BLOCKED" ELSE "READY"

\* Mutant: the quantum is charged to the thread that had the processor.
MutantChargesOld(queue) ==
  LET r     == running_thread
      stays == ~terminated[r] /\ Settled(r) \notin Away
      line  == IF stays THEN Append(queue, r) ELSE queue
      yield == [o \in Thread |-> IF stays /\ o = r THEN "READY" ELSE Settled(o)]
  IN  /\ ready_queue' = Tail(line)
      /\ running_thread' = Head(line)
      /\ state' = [yield EXCEPT ![Head(line)] = "RUNNING"]
      /\ quantum' = [Scrub(quantum, Doomed, 0) EXCEPT ![r] = Counted(@)]

\* The handler's choice: the running thread keeps the processor if it still
\* wants it and nobody waits; otherwise the head of the queue gets it, behind
\* which a thread whose quantum merely expired is put back.
Dispatch(queue) ==
  LET r     == running_thread
      stays == ~terminated[r] /\ Settled(r) \notin Away
      line  == IF stays THEN Append(queue, threads[id[r]]) ELSE queue
      next  == Head(line)
      yield == [o \in Thread |-> IF stays /\ o = r THEN "READY" ELSE Settled(o)]
  IN  /\ ready_queue' = Tail(line)
      /\ running_thread' = next
      /\ state' = [yield EXCEPT ![next] = "RUNNING"]
      /\ quantum' = [Scrub(quantum, Doomed, 0) EXCEPT ![next] = Counted(@)]

\* The delete_thread calls for the doomed.  They are RUNNING and terminated, so
\* only the loop over blocked_threads and the two deletes apply to them.
Reap ==
  /\ blocked_threads' = BlockedWithout(DoomedIds)
  /\ id' = Scrub(id, Doomed, 0)
  /\ terminated' = Scrub(terminated, Doomed, FALSE)

\* Mutants: termination is cleared after the insertion; the count stays.
MutantClearsLate ==
  LET gone == terminated[running_thread] IN
  /\ termination' = [i \in Tid |-> NoThread]
  /\ threads' = IF gone THEN [threads EXCEPT ![id[running_thread]] = NoThread] ELSE threads
  /\ threads_cur_number' = threads_cur_number - (IF gone THEN 1 ELSE 0)
MutantKeepsCount ==
  LET r == running_thread IN
  /\ termination' = [i \in Tid |-> IF terminated[r] /\ i = id[r] THEN r ELSE NoThread]
  /\ threads' = IF terminated[r] THEN [threads EXCEPT ![id[r]] = NoThread] ELSE threads
  /\ UNCHANGED threads_cur_number

\* A running thread that terminated itself gives up its id; its cell and stack
\* live on until the next call of the handler.
Retire ==
  LET r == running_thread IN
  IF terminated[r]
  THEN /\ termination' = [i \in Tid |-> IF i = id[r] THEN threads[i] ELSE NoThread]
       /\ threads' = [threads EXCEPT ![id[r]] = NoThread]
       /\ threads_cur_number' = threads_cur_number - 1
  ELSE /\ termination' = [i \in Tid |-> NoThread]
       /\ UNCHANGED <<threads, threads_cur_number>>

\* The whole handler, called where the running thread continues at `back`.
Schedule(back) ==
  \E order \in Ascending(ToReady) :
    /\ sleep_quantum' = [o \in Thread |-> IF Sleeping(o) THEN sleep_quantum[o] - 1
                                                         ELSE sleep_quantum[o]]
    /\ sleeping_threads' = [i \in Tid |-> IF i \in WakingUp THEN NoThread
                                                            ELSE sleeping_threads[i]]
    /\ Reap
    /\ Retire
    /\ Dispatch(ready_queue \o [k \in DOMAIN order |-> sleeping_threads[order[k]]])
    /\ quantums_number' = Counted(quantums_number)
    /\ at' = [Scrub(at, Doomed, "raw") EXCEPT ![running_thread] = back]
    /\ wake_at' = [o \in Thread |-> IF Waking(o) THEN 0 ELSE wake_at[o]]
    /\ UNCHANGED <<held, exited>>

\* SIGVTALRM: the interrupted thread later goes on where it was.
TimerSignal ==
  /\ ~exited
  /\ at[running_thread] \in Preemptible
  /\ Schedule(at[running_thread])

\* sa.sa_handler(0) at the end of a call that gives the processor up.
CallHandler ==
  /\ ~exited
  /\ at[running_thread] = "call"
  /\ Schedule("user")

-----------------------------------------------------------------------------
(* The library's calls, made by the running thread from the user's code.    *)
(* Calls that fail report an error and change nothing: they are stutters.   *)

InUser == ~exited /\ at[running_thread] = "user"

Goto(point) == at' = [at EXCEPT ![running_thread] = point]

\* Mutant: addthread does not set the id, which stays -1.
MutantSpawnNoId(o) ==
  /\ InUser
  /\ threads_cur_number < MAX_THREAD_NUM
  /\ Freed(o)
  /\ threads' = [threads EXCEPT ![LowestTid] = o]
  /\ threads_cur_number' = threads_cur_number + 1
  /\ state' = [state EXCEPT ![o] = "READY"]
  /\ id' = [id EXCEPT ![o] = -1]
  /\ Goto("push")
  /\ held' = [held EXCEPT ![running_thread] = o]
  /\ UNCHANGED <<sleeping_threads, termination, queues, running_thread,
                 quantums_number, quantum, sleep_quantum, terminated, exited, wake_at>>

\* uthread_spawn, up to the unblock() of addthread; `new` returns the cell o.
Spawn(o) ==
  /\ InUser
  /\ threads_cur_number < MAX_THREAD_NUM
  /\ FreeTids # {}
  /\ Freed(o)
  /\ threads' = [threads EXCEPT ![LowestTid] = o]
  /\ threads_cur_number' = threads_cur_number + 1
  /\ state' = [state EXCEPT ![o] = "READY"]
  /\ id' = [id EXCEPT ![o] = LowestTid]
  /\ quantum' = [quantum EXCEPT ![o] = 0]
  /\ sleep_quantum' = [sleep_quantum EXCEPT ![o] = 0]
  /\ terminated' = [terminated EXCEPT ![o] = FALSE]
  /\ Goto("push")
  /\ held' = [held EXCEPT ![running_thread] = o]
  /\ UNCHANGED <<sleeping_threads, termination, queues, running_thread,
                 quantums_number, exited, wake_at>>

\* ready_queue.push(new_thread)
PushSpawned ==
  /\ ~exited
  /\ at[running_thread] = "push"
  /\ ready_queue' = Append(ready_queue, held[running_thread])
  /\ Goto("setjmp")
  /\ UNCHANGED <<maps, blocked_threads, running_thread, quantums_number,
                 threads_cur_number, fields, held, exited, wake_at>>

\* sigsetjmp on the new thread's env, its pc, sp and mask, and unblock(); the
\* writes into a cell that was freed meanwhile give it no context.
PrepareSpawned ==
  LET o == held[running_thread] IN
  /\ ~exited
  /\ at[running_thread] = "setjmp"
  /\ at' = [at EXCEPT ![running_thread] = "spawn",
                      ![o] = IF Freed(o) THEN "raw" ELSE "user"]
  /\ UNCHANGED <<maps, queues, running_thread, quantums_number, threads_cur_number,
                 fields, held, exited, wake_at>>

\* uthread_get_quantums, up to its unblock().
GetQuantums(tid) ==
  /\ InUser
  /\ threads[tid] # NoThread
  /\ Goto("quantums")
  /\ held' = [held EXCEPT ![running_thread] = threads[tid]]
  /\ UNCHANGED <<maps, queues, running_thread, quantums_number, threads_cur_number,
                 fields, exited, wake_at>>

\* `return new_thread->id` and `return to_get->quantum`, with the mask open.
ReadHeld ==
  /\ ~exited
  /\ at[running_thread] \in {"spawn", "quantums"}
  /\ Goto("user")
  /\ held' = [held EXCEPT ![running_thread] = NoThread]
  /\ UNCHANGED <<maps, queues, running_thread, quantums_number, threads_cur_number,
                 fields, exited, wake_at>>

\* uthread_terminate of the calling thread: it only marks itself.
TerminateSelf ==
  /\ InUser
  /\ id[running_thread] # 0
  /\ terminated' = [terminated EXCEPT ![running_thread] = TRUE]
  /\ Goto("call")
  /\ UNCHANGED <<maps, queues, running_thread, quantums_number, threads_cur_number,
                 state, id, quantum, sleep_quantum, held, exited, wake_at>>

\* uthread_terminate of another thread, which delete_thread frees at once.
TerminateOther(tid) ==
  LET o == threads[tid] IN
  /\ InUser
  /\ tid # 0
  /\ o # NoThread
  /\ state[o] # "RUNNING"
  /\ blocked_threads' = BlockedWithout({tid})
  /\ sleeping_threads' = SleepersWithout(o)
  /\ ready_queue' = IF state[o] = "READY" THEN ReadyWithout(tid) ELSE ready_queue
  /\ threads' = [threads EXCEPT ![tid] = NoThread]
  /\ threads_cur_number' = threads_cur_number - 1
  /\ state' = [state EXCEPT ![o] = "FREED"]
  /\ id' = [id EXCEPT ![o] = 0]
  /\ quantum' = [quantum EXCEPT ![o] = 0]
  /\ sleep_quantum' = [sleep_quantum EXCEPT ![o] = 0]
  /\ at' = [at EXCEPT ![o] = "raw"]
  /\ held' = [held EXCEPT ![o] = NoThread]
  /\ wake_at' = [wake_at EXCEPT ![o] = 0]
  /\ UNCHANGED <<termination, running_thread, quantums_number, terminated, exited>>

\* uthread_terminate(0): every registered thread is deleted and the process ends.
TerminateMain ==
  /\ InUser
  /\ threads' = [i \in Tid |-> NoThread]
  /\ state' = [o \in Thread |-> IF \E i \in Tid : threads[i] = o THEN "FREED"
                                                                ELSE state[o]]
  /\ exited' = TRUE
  /\ UNCHANGED <<sleeping_threads, termination, queues, running_thread,
                 quantums_number, threads_cur_number, id, quantum, sleep_quantum,
                 terminated, at, held, wake_at>>

\* Mutant: the main thread may block itself.
MutantMainBlocks ==
  /\ InUser
  /\ state' = [state EXCEPT ![running_thread] = "BLOCKED"]
  /\ blocked_threads' = blocked_threads \union {running_thread}
  /\ Goto("call")
  /\ UNCHANGED <<maps, ready_queue, running_thread, quantums_number,
                 threads_cur_number, id, quantum, sleep_quantum, terminated, held,
                 exited, wake_at>>

\* uthread_block of the calling thread, up to its unblock().
BlockSelf ==
  /\ InUser
  /\ id[running_thread] # 0
  /\ state' = [state EXCEPT ![running_thread] = "BLOCKED"]
  /\ blocked_threads' = blocked_threads \union {running_thread}
  /\ Goto("call")
  /\ UNCHANGED <<maps, ready_queue, running_thread, quantums_number,
                 threads_cur_number, id, quantum, sleep_quantum, terminated, held,
                 exited, wake_at>>

\* A sleeper joins blocked_threads, a ready thread if the queue has it.
WithBlocked(o) ==
  blocked_threads \union {x \in {o} : state[o] = "SLEEP" \/ Contains(ready_queue, o)}

\* Mutant: a ready thread is not taken out of the queue.
MutantBlockedQueued(tid) ==
  LET o == threads[tid] IN
  /\ InUser
  /\ tid # 0
  /\ o # NoThread
  /\ state[o] \in {"SLEEP", "READY"}
  /\ state' = [state EXCEPT ![o] = IF @ = "SLEEP" THEN "SLEEP_BLOCK" ELSE "BLOCKED"]
  /\ blocked_threads' = WithBlocked(o)
  /\ UNCHANGED <<maps, ready_queue, running_thread, quantums_number, threads_cur_number,
                 id, quantum, sleep_quantum, terminated, at, held, exited, wake_at>>

\* uthread_block of a sleeping or of a ready thread; others are left alone.
BlockOther(tid) ==
  LET o == threads[tid] IN
  /\ InUser
  /\ tid # 0
  /\ o # NoThread
  /\ state[o] \in {"SLEEP", "READY"}
  /\ state' = [state EXCEPT ![o] = IF @ = "SLEEP" THEN "SLEEP_BLOCK" ELSE "BLOCKED"]
  /\ blocked_threads' = WithBlocked(o)
  /\ ready_queue' = IF state[o] = "READY" THEN ReadyWithout(tid) ELSE ready_queue
  /\ UNCHANGED <<maps, running_thread, quantums_number, threads_cur_number, id,
                 quantum, sleep_quantum, terminated, at, held, exited, wake_at>>

\* The conditions under which uthread_resume returns -1.
ResumeFails(tid) == termination[tid] # NoThread \/ threads[tid] = NoThread

\* Mutant: a resumed thread is next.
MutantResumeNext(tid) ==
  /\ InUser
  /\ ~ResumeFails(tid)
  /\ \E o \in blocked_threads :
       /\ id[o] = tid
       /\ state' = [state EXCEPT ![o] = IF @ = "SLEEP_BLOCK" THEN "SLEEP" ELSE "READY"]
       /\ ready_queue' = IF state[o] = "SLEEP_BLOCK" THEN ready_queue
                                                     ELSE <<o>> \o ready_queue
       /\ blocked_threads' = blocked_threads \ {o}
  /\ UNCHANGED <<maps, running_thread, quantums_number, threads_cur_number, id,
                 quantum, sleep_quantum, terminated, at, held, exited, wake_at>>

\* uthread_resume: the thread is looked for in blocked_threads by its id.
Resume(tid) ==
  /\ InUser
  /\ ~ResumeFails(tid)
  /\ \E o \in blocked_threads :
       /\ id[o] = tid
       /\ IF state[threads[tid]] = "SLEEP_BLOCK"
          THEN /\ state' = [state EXCEPT ![o] = "SLEEP"]
               /\ UNCHANGED ready_queue
          ELSE /\ state' = [state EXCEPT ![o] = "READY"]
               /\ ready_queue' = Append(ready_queue, o)
       /\ blocked_threads' = blocked_threads \ {o}
  /\ UNCHANGED <<maps, running_thread, quantums_number, threads_cur_number, id,
                 quantum, sleep_quantum, terminated, at, held, exited, wake_at>>

\* Mutant: the quantum of the call counts.
MutantSleepShort(num_quantums) ==
  LET r == running_thread IN
  /\ InUser
  /\ id[r] # 0
  /\ sleeping_threads' = [sleeping_threads EXCEPT ![id[r]] = r]
  /\ state' = [state EXCEPT ![r] = "SLEEP"]
  /\ sleep_quantum' = [sleep_quantum EXCEPT ![r] = num_quantums]
  /\ wake_at' = [wake_at EXCEPT ![r] = quantums_number + num_quantums + 1]
  /\ Goto("call")
  /\ UNCHANGED <<threads, termination, queues, running_thread, quantums_number,
                 threads_cur_number, id, quantum, terminated, held, exited>>

\* uthread_sleep, up to its unblock(); the call's own quantum is not counted.
Sleep(num_quantums) ==
  LET r == running_thread IN
  /\ InUser
  /\ id[r] # 0
  /\ sleeping_threads' = [sleeping_threads EXCEPT
                            ![id[r]] = IF @ = NoThread THEN threads[id[r]] ELSE @]
  /\ state' = [state EXCEPT ![r] = "SLEEP"]
  /\ sleep_quantum' = [sleep_quantum EXCEPT ![r] = num_quantums + 1]
  /\ wake_at' = [wake_at EXCEPT ![r] = quantums_number + num_quantums + 1]
  /\ Goto("call")
  /\ UNCHANGED <<threads, termination, queues, running_thread, quantums_number,
                 threads_cur_number, id, quantum, terminated, held, exited>>

-----------------------------------------------------------------------------

\* The process has ended, or runs on a context that was never set up.
Stopped ==
  /\ exited \/ at[running_thread] = "raw"
  /\ UNCHANGED vars

Next ==
  \/ TimerSignal
  \/ CallHandler
  \/ \E o \in Thread : Spawn(o)
  \/ \E tid \in Tid : GetQuantums(tid)
  \/ PushSpawned
  \/ PrepareSpawned
  \/ ReadHeld
  \/ TerminateSelf
  \/ \E tid \in Tid : TerminateOther(tid)
  \/ TerminateMain
  \/ BlockSelf
  \/ \E tid \in Tid : BlockOther(tid)
  \/ \E tid \in Tid : Resume(tid)
  \/ \E n \in 1 .. MaxSleep : Sleep(n)
  \/ Stopped

Spec == Init /\ [][Next]_vars

\* A call of uthread_spawn under way, between its first unblock() and its last,
\* and the thread that it is creating.
Creating(o)     == at[o] \in {"push", "setjmp"}
BeingCreated(o) == \E c \in Thread : Creating(c) /\ held[c] = o

\* A hypothesis about the user's code, none about the signals: no thread blocks
\* or terminates one whose id no uthread_spawn has returned yet, and none
\* terminates a thread that is inside uthread_spawn.
LeavesSpawnsAlone ==
  \A tid \in Tid :
    /\ BlockOther(tid) => ~BeingCreated(threads[tid])
    /\ TerminateOther(tid) => ~BeingCreated(threads[tid]) /\ ~Creating(threads[tid])

\* The library under such code: the timer may strike inside uthread_spawn, and
\* other threads run, spawn, sleep and end while the call is under way.
ConsiderateNext == Next /\ LeavesSpawnsAlone

ConsiderateSpec == Init /\ [][ConsiderateNext]_vars

\* ITIMER_VIRTUAL counts the processor time of the process, which never idles,
\* so the timer keeps firing; a signal that fires while it is masked stays
\* pending until the mask opens, hence strong fairness.  The code of a call
\* that has begun goes on when its thread has the processor.
Fairness ==
  /\ SF_vars(TimerSignal)
  /\ WF_vars(PushSpawned)
  /\ WF_vars(PrepareSpawned)

FairSpec == Spec /\ Fairness

-----------------------------------------------------------------------------
(* Invariants.                                                             *)

Registered(o) == \E i \in Tid : threads[i] = o

\* A thread that uthread_spawn has registered and not pushed yet.
Unpushed(o) == \E c \in Thread : at[c] = "push" /\ held[c] = o

\* Every variable has the type the code declares for it.
TypeOK ==
  /\ threads \in [Tid -> Thread \union {NoThread}]
  /\ sleeping_threads \in [Tid -> Thread \union {NoThread}]
  /\ termination \in [Tid -> Thread \union {NoThread}]
  /\ ready_queue \in Seq(Thread)
  /\ blocked_threads \subseteq Thread
  /\ running_thread \in Thread
  /\ quantums_number \in 1 .. MaxQuantums
  /\ threads_cur_number \in Int
  /\ state \in [Thread -> States \union {"FREED"}]
  /\ id \in [Thread -> Tid]
  /\ quantum \in [Thread -> 0 .. MaxQuantums]
  /\ sleep_quantum \in [Thread -> Int]
  /\ terminated \in [Thread -> BOOLEAN]
  /\ at \in [Thread -> Point]
  /\ held \in [Thread -> Thread \union {NoThread}]
  /\ exited \in BOOLEAN
  /\ wake_at \in [Thread -> Int]

\* The handler dispatches ready_queue.front() and forgets what is not queued:
\* the queue holds every READY thread, once, and no other (so no freed one).
ReadyQueueExact ==
  ~exited =>
    /\ IsInjective(ready_queue)
    /\ \A o \in Thread : Contains(ready_queue, o) <=> /\ Registered(o)
                                                      /\ state[o] = "READY"
                                                      /\ ~Unpushed(o)

\* sleeping_threads, which the handler counts down, holds exactly the threads
\* whose state says that they sleep, under their own ids and with time left.
SleepersExact ==
  ~exited =>
    \A i \in Tid, o \in Thread :
      /\ sleeping_threads[i] = o <=> /\ threads[i] = o
                                     /\ state[o] \in {"SLEEP", "SLEEP_BLOCK"}
      /\ sleeping_threads[i] = o => sleep_quantum[o] > 0

\* blocked_threads holds only registered threads that are blocked, and all of
\* those that were blocked asleep and have not woken.
BlockedSound ==
  ~exited =>
    /\ \A o \in blocked_threads : Registered(o) /\ state[o] \in {"BLOCKED", "SLEEP_BLOCK"}
    /\ \A o \in Thread : state[o] = "SLEEP_BLOCK" => o \in blocked_threads

\* No cell is lost, freed twice or reached after it was freed, by a handler that no
\* second signal interrupts at line 181: until exit() every live cell has exactly one
\* owner, threads or termination, under its own id.
OneOwner ==
  ~exited =>
    /\ \A o \in Thread : ~Freed(o) => (threads[id[o]] = o) # (termination[id[o]] = o)
    /\ \A i \in Tid, o \in Thread :
         threads[i] = o \/ termination[i] = o => ~Freed(o) /\ id[o] = i

\* threads_cur_number, which admits a spawn, is the number of registered
\* threads, so addthread always finds a free id and never exits the process.
CountExact ==
  ~exited => threads_cur_number = Cardinality({i \in Tid : threads[i] # NoThread})

\* When the running thread gives the processor up for good, ready_queue.front()
\* exists: the main thread cannot block, sleep or end, and is queued.
SwitchHasTarget ==
  (~exited /\ (terminated[running_thread] \/ state[running_thread] \in Away))
    => ready_queue # << >>

-----------------------------------------------------------------------------
(* The inductive invariant of the scheduler under ConsiderateSpec: what the *)
(* properties above rest on.                                               *)

\* The main thread keeps id 0 and its context, and is never blocked, asleep or
\* terminated.
MainInv ==
  /\ threads[0] = Main
  /\ state[Main] \in {"RUNNING", "READY"}
  /\ ~terminated[Main]
  /\ at[Main] # "raw"

\* Only the running thread can be RUNNING or marked as terminated; it leaves the
\* user's code before its state changes, with a sleep longer than this quantum.
RunnerInv ==
  LET r == running_thread IN
  /\ threads[id[r]] = r
  /\ state[r] \in {"RUNNING", "BLOCKED", "SLEEP"}
  /\ state[r] # "RUNNING" \/ terminated[r] => at[r] = "call"
  /\ state[r] # "RUNNING" => ~terminated[r]
  /\ state[r] = "SLEEP" => sleep_quantum[r] > 1
  /\ \A i \in Tid : threads[i] \notin {r, NoThread}
                      => ~terminated[threads[i]] /\ state[threads[i]] # "RUNNING"

\* A thread in termination has been switched away from for good, outside of
\* uthread_spawn; one that was given its id since has not run yet.
TerminationInv ==
  \A i \in Tid : termination[i] # NoThread =>
    /\ terminated[termination[i]]
    /\ state[termination[i]] = "RUNNING"
    /\ ~Creating(termination[i])
    /\ threads[i] # NoThread => /\ threads[i] # running_thread
                                /\ state[threads[i]] \in {"READY", "BLOCKED"}

\* A call of uthread_spawn, running or switched away from, is creating a thread
\* of its own, which is registered and has no context: it is READY, or it has
\* been dispatched as it is.  No other registered thread lacks a context, and
\* no freed cell has one.
SpawnInv ==
  /\ \A c \in Thread : Creating(c) =>
       /\ Registered(c)
       /\ held[c] \in Thread
       /\ Registered(held[c])
       /\ at[held[c]] = "raw"
       /\ state[held[c]] = "READY" \/ held[c] = running_thread
  /\ \A c, d \in Thread : Creating(c) /\ Creating(d) /\ held[c] = held[d] => c = d
  /\ \A i \in Tid : threads[i] # NoThread /\ at[threads[i]] = "raw"
                      => BeingCreated(threads[i])
  /\ \A o \in Thread : Freed(o) => at[o] = "raw"

SchedulerInv ==
  /\ TypeOK
  /\ ReadyQueueExact /\ SleepersExact /\ BlockedSound /\ OneOwner /\ CountExact
  /\ ~exited => MainInv /\ RunnerInv /\ TerminationInv /\ SpawnInv

-----------------------------------------------------------------------------
(* Action properties.                                                      *)

\* Round robin: while a queued thread waits, only threads that were ahead of it
\* get the processor, and nobody who was not ahead of it comes to be: not those
\* who wake, are resumed or spawned, nor those who give the processor up.
InTurn ==
  \A j \in DOMAIN ready_queue, m \in DOMAIN ready_queue' :
    ready_queue'[m] = ready_queue[j] =>
      LET ahead == {ready_queue[i] : i \in 1 .. j - 1}
      IN  /\ running_thread' \in ahead \union {running_thread}
          /\ \A n \in 1 .. m - 1 : ready_queue'[n] \in ahead

\* Every step keeps the turns of the queue.
NoOvertaking == [][InTurn]_vars

\* Nothing but a call made by the running thread makes a blocked thread
\* eligible again: no expired sleep and no switch does.
ResumedByCall ==
  \A o \in Thread :
    (/\ state[o] \in {"BLOCKED", "SLEEP_BLOCK"}
     /\ state'[o] \notin {"BLOCKED", "SLEEP_BLOCK", "FREED"})
      => /\ at[running_thread] = "user"
         /\ running_thread' = running_thread
         /\ o \in blocked_threads \ blocked_threads'

\* Every step leaves the blocked threads blocked, or is such a call.
BlockedUntilResumed == [][ResumedByCall]_vars

Asleep(o) == state[o] \in {"SLEEP", "SLEEP_BLOCK"}

\* A sleep of n quantums begun in quantum q ends at the start of quantum
\* q + n + 1: not one earlier, not one later, blocked meanwhile or not.
WakesOnTime ==
  \A o \in Thread :
    Asleep(o) /\ ~Freed(o)' /\ quantums_number' < MaxQuantums
      => (Asleep(o)' <=> quantums_number' < wake_at[o])

\* Every step wakes exactly the threads whose time has come.
SleepWakesOnTime == [][WakesOnTime]_vars

\* Every quantum is somebody's: the library's count rises exactly when the count
\* of the thread that gets the processor does, by one, and no other's rises.
QuantumsAddUp ==
  quantums_number' < MaxQuantums =>
    \A o \in Thread :
      LET due == IF quantums_number' # quantums_number /\ o = running_thread'
                 THEN quantum[o] + (quantums_number' - quantums_number)
                 ELSE quantum[o]
      IN  ~Freed(o) /\ ~Freed(o)' => quantum'[o] = due

\* Every step charges the quantums as it should.
QuantumAccounting == [][QuantumsAddUp]_vars

-----------------------------------------------------------------------------
(* Liveness, under Fairness.                                               *)

\* No starvation: a READY thread is dispatched (or blocked, or terminated).
EveryReadyRuns == \A o \in Thread : state[o] = "READY" ~> state[o] # "READY"

\* Every sleep ends, also that of a thread blocked in the meantime.
EverySleepEnds == \A o \in Thread : Asleep(o) ~> (~Asleep(o) \/ exited)

\* A thread that terminated itself is freed two switches later at the latest.
TerminatedIsFreed == \A o \in Thread : terminated[o] ~> (Freed(o) \/ exited)

-----------------------------------------------------------------------------
(* What the documentation says and the code does not do.                   *)

\* uthreads.h: a blocked thread "may be resumed later using uthread_resume", so
\* a registered BLOCKED thread is in the vector that uthread_resume searches.
BlockedIsListed ==
  ~exited => \A i \in Tid : (threads[i] # NoThread /\ state[threads[i]] = "BLOCKED")
                              => threads[i] \in blocked_threads

\* uthreads.cpp: "ensure thread creation is atomic and uninterrupted", so no
\* thread is dispatched before uthread_spawn has set its context up.
DispatchedIsPrepared == ~exited => at[running_thread] # "raw"

=============================================================================
