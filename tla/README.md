# A verification of the 67808 Operating Systems projects

The repository holds four programs that share no code: a library of user-level
threads, a MapReduce framework, a simulated hierarchical virtual memory, and
servers with a client that talk through sockets and shared memory. This
directory holds TLA+ models of them, the TLC configurations that check the
models on small instances, and proofs for the TLA+ proof system.

| Part of the code | Modules | Checked by | Proved |
|---|---|---|---|
| `Uthreads_Library` | `UThreads`; `UThreadsSignals` for the windows inside the handler | `UThreads_*.cfg` over `MCUThreads`; `UThreadsSignals.cfg` | `UThreadsProofs` |
| `MapReduce_Framework/Barrier` | `Barrier`, implements `Rendezvous` | `Barrier_rounds.cfg` over `MCBarrier` | `BarrierProofs` |
| `MapReduce_Framework` | `MapReduce` (extends `Barrier`), implements `MapReduceJob` | `MapReduce_*.cfg` over `MCMapReduce` | `MapReduceLemmas`, `MapReduceStages`, `MapReduceProofs` |
| `Hierarchical_Virtual_Memory_System` | `VirtualMemory`, implements `FlatMemory` | `VirtualMemory.cfg` over `MCVirtualMemory` | `VirtualMemoryProofs` |
| `Linux_Multi_Server_Ipc` | `IpcServers` | `IpcServers*.cfg` over `MCIpcServers` | `IpcServersProofs`, `IpcConnectionsProofs` |

`tlc -workers 2 -config X.cfg M` runs a configuration; `tlapm M.tla` checks the proofs
of a module, each by itself (a quarter of an hour for all of them).

## Inventory

### User-level threads (`uthreads.cpp`)

*State.* `threads` (registered threads by id), `ready_queue`,
`blocked_threads`, `sleeping_threads`, `termination` (threads that terminated
themselves and whose stack is still in use), `running_thread`, the two counters,
and in every `thread` its id, state, quantums and jump buffer.

*Operations.* `uthread_init`, `spawn`, `terminate`, `block`, `resume`, `sleep`,
four getters, and `schedule_handler`, which SIGVTALRM and the calls that give
the processor up both run. Calls mask the signal with `block()` and open the
mask with `unblock()`.

*Hard behaviour.* The timer strikes wherever the mask is open. A call that gives
the processor up opens the mask before it calls the handler, so the handler can
run twice for it. A thread that terminates itself outlives its id, which may
already belong to a new thread when the old one is deleted. `uthread_spawn` opens
the mask in its middle (`addthread`, line 321). The handler opens it at lines
181 and 270.

*What makes it correct.* The containers and the thread states agree; no cell is
freed twice, lost or used when freed; the handler always finds a thread to
dispatch; round robin; sleeps of the right length; nobody starves.

### Barrier (`Barrier.cpp`)

A mutex, a condition variable and `count`, used twice by every worker of a job.
Hard: a fast thread calls it again while slow ones are still leaving. Correct if
nobody returns from the k-th call before all have made it, and all return.

### MapReduce framework (`MapReduceFramework.cpp`)

*State.* A `JobContext`: the input, a vector of pairs per worker, the vector of
groups, the output, five atomic counters, the stage, a dozen mutexes.

*Operations.* Workers run `job_ToDo`: map, sort, barrier, shuffle (worker 0),
barrier, reduce. The program's own threads call `getJobState`, `waitForJob`,
`closeJobHandle`. Client code calls back `emit2` and `emit3`.

*Hard behaviour.* Claims by atomic counters that run past the end; the stage
written by every worker under one mutex and read under another; a progress
report that reads stage and counters at different moments; worker 0 reading the
vectors of the others with nothing but the barrier in between; two threads in
`waitForJob`; closing while the job runs.

*What makes it correct.* Every pair mapped once, every key reduced once with all
its pairs, never before all is mapped; `waitForJob` returns when all is there and
not before; reports never go back; nothing used after it is deleted.

### Hierarchical virtual memory (`VirtualMemory.cpp`, `PhysicalMemory.cpp`)

*State.* `RAM`, whose frames hold pages or tables of frame numbers, and
`swapFile`. *Operations.* `VMinitialize`, `VMread`, `VMwrite`; inside,
`extractPhysicalAdd` walks the tables, and `findEmptyCell`/`emptyFrame` find a
frame: an empty table, else the next unused frame, else the page that is
cyclically farthest from the one wanted. Sequential. *Hard:* the shape of the
tree depends on the whole history; a page and a table look alike in a frame; the
swap file survives `VMinitialize`. *Correct* if it behaves as a flat memory.

### Servers and clients (`Linux_Multi_Server_Ipc`)

*State.* A server has its `live_server_info`: a listening socket, the connection it
took, its segment, its info file. A client has one such record for each info file
it has read. What they share belongs to the kernel: ports and queues of
connections, segments by key, and the directory of info files.

*Operations.* A server makes its socket (`create_newServer`), gets a segment
(`sharedMemoCreation`), publishes (`create_info_file`), writes its message to the
segment (`write_to_shm`), waits 120 s for one client and writes it the socket
message (`get_connection`, `write_to_socket`), sleeps 10 s and removes everything
(`shutdown`). An error on the way goes through `freeResources`. A client reads
every info file, connects and attaches (`count_servers`, `socketConnection`,
`sharedMemoAt`), then reads the messages in the order of the files
(`get_message_from_shm`, `get_message_from_socket`) and counts hosts, containers
and VMs.

*Hard behaviour.* Processes share names and no locks. The file is published (line
160) before the message is in the segment (line 298). `shmget` without `IPC_EXCL`
takes over a segment. Files, segments and connections may go between two calls of a
client. Server and client wait for each other with time limits. A server fails or
is killed half-way.

*What makes it correct.* A server that serves can be found, whatever others do;
one that is gone holds nothing that a client could take for a live server; a client
reports servers that serve throughout as hosts, with their whole messages; exactly
one client gets the socket message; nobody waits for ever.

### Left out for good

Stacks, `jmp_buf` layout and `translate_address` are machine code: a context is
the point in the code at which a thread goes on. `SampleClient.cpp` is an
example: its map and reduce are the constants `Inputs` and `Emits`, its polling
loop the reason for `EndIsReported`. Failing system calls of the first three programs
end the process with a message and are not modelled. Makefiles have no behaviour.

## The models

### UThreads

A variable for each global of `uthreads.cpp`; the fields of `thread` are
functions of the heap cell (`Thread`), and a deleted cell has `state = "FREED"`
and may be reused by the next `new`. `at` stands for the saved context: where the
thread's code is, or will go on. A step is the code between two points where the
signal can be delivered:

| point | code | step that leaves it |
|---|---|---|
| `user` | the user's code | every call |
| `call` | between `unblock()` and the call of the handler in terminate, block, sleep | `CallHandler` |
| `push` | `uthread_spawn` after `addthread` | `PushSpawned` |
| `setjmp` | after `ready_queue.push` | `PrepareSpawned` |
| `spawn`, `quantums` | after the last `unblock()`, before the last read | `ReadHeld` |

`TimerSignal` is enabled at the points of the constant `Preemptible`. The code
has all six (`EveryPoint`), so has `UThreads_sched`, and the proofs leave it open.
What can go wrong in the points `push` and `setjmp`, which `addthread` opens by its
`unblock()`, is of two kinds. The new thread may be dispatched on a context that was
never set (`UThreads_spawn`): the behaviour is undefined from there, and the model
stops. And another thread may block or terminate the new one before the push, which
then queues a BLOCKED thread or a freed structure. `ConsiderateSpec` is `Spec` without
the calls of that second kind: nobody blocks or terminates a thread that is being
created, nor terminates a thread inside its `uthread_spawn`. An id is only known when
the call has returned it, so this asks little: not to guess ids and not to use those
of threads that have ended. Everything else, other spawns included, may happen there.
`UThreads_live` and `UThreads_blocked_lost` take `SpawnMasked`, without the two points:
the first as undefined behaviour ends all progress, the second to show that its
disagreement does not need that window.

`Schedule` is the whole handler: sleepers counted down and woken in the order of the
map, `termination` emptied by `delete_thread`, the running thread retired, requeued or
left where it is, the head of the queue dispatched. It is one step: what is checked and
proved in `UThreads` is about handlers that no second signal interrupts. The two windows
at lines 181 and 270, where one may, are in `UThreadsSignals`. Failing calls change
nothing and are stutters. `wake_at` is a history variable.

*Fairness.* The processor is never idle and ITIMER_VIRTUAL counts its time, so
the timer keeps firing, and a masked signal stays pending: strong fairness of
`TimerSignal`. The rest of a spawn is weakly fair. Nothing is assumed of the
user's code: it may compute for ever.

### UThreadsSignals

The handler at the grain of its mask, for threads that only compute or end
themselves. `Enter` is `block()` and `sigsetjmp`, `Delete` one turn of the loop
over `termination` up to the `unblock()` of `delete_thread` (line 181), `Choose` the
rest up to the `unblock()` of line 270, `Jump` is `siglongjmp`. In the places
`deleted` and `jump` the mask is open and `Enter` may run on top. A saved context is
the stack it is on with the activations of the handler under way there. The module
is apart from `UThreads` because what follows a context saved in the wrong place is
undefined.

### Barrier and Rendezvous

A step of a thread is one section under the mutex: `Lock`, `Wait` or `Broadcast`,
`Relock`, `Unlock`. With `SpuriousWakeups`, `Relock` may also be taken by a
thread that was not woken, which POSIX allows. `Rendezvous` is the promise, in
two counters per thread; the mapping counts a call from the moment it is
counted. *Fairness:* weak for each thread's steps. The barrier by itself makes
`MaxRounds` calls; weak fairness of `Lock` is enough there as its competitors
stop at the barrier.

### MapReduce and MapReduceJob

Extends `Barrier`: a worker in the place `barrier` takes `Barrier`'s own steps.
A pair is its key and the place it comes from, so that a lost or doubled pair
shows. `Sortings` allows every order of equal keys, as `std::sort` does. `Merge` is
the loop of `std::merge`, and `MergeCall` one call of the recursive `merge_vectors`:
with the threads `to_merge`, each second one is merged into its `Neighbour`, and
`VecSet` goes on to the next call. As a call with one thread left changes nothing,
`merge_vectors` makes as many calls as there are threads.
Mutexes that protect a single step are that step; `EMIT3_MUT` spans two (result,
then count) and `GET_STATE` spans two (stage, then counters), as others can
interfere in between. A caller of `waitForJob` is `waiting` for `WAIT_FOR_JOB`, then
either `joining` (`BeginJoins`, one `Join` for each worker), with the mutex in its hands,
or finds the flag set (`FindJoined`). `joined` counts the joins of the whole job, so that a
second join of a worker, which POSIX leaves undefined, would hang here.
`closeJobHandle` takes the same way before `Free`. A call of `getJobState` begins when
it has `GET_STATE`. A percentage is a fraction, since 0/0 matters. The
program does not use a handle after `closeJobHandle` is called, and calls that
only when no other call is under way: the handle is a bare pointer.

`MapReduceJob` is the promise: map everything, then reduce each key once with all its
pairs, then return. *Fairness:* weak for each worker and each call begun. It is enough
for `WAIT_FOR_JOB`, as at most one client holds it for longer than a step, once.

### VirtualMemory and FlatMemory

The widths of `MemoryConstants.h` are constants, and `1LL << n` is `Bit[n]`. `Nodes` is what
`tree_traversal` visits, each with its depth, path and parent; `EmptyTables`,
`Farthest` and the highest frame are what it collects. `emptyFrame`,
`findEmptyCell`, `extractPhysicalAdd`, `PMwrite`, `PMevict` and `PMrestore` are
operators from a memory to a memory, named as in the code, and a step is a whole
call of `VMread` or `VMwrite`. `swapFile` is a function on the pages it holds,
and its key is the page path, not more.

`FlatMemory` is the promise: a memory of pages that keep what was written. A page
never used may hold anything (the code does not clear it), and `VMinitialize`
may forget pages.

### IpcServers

A step is one system call whose effect another process can see. `spc` and `cpc` are
the places of the processes in `run`; the other variables are the kernel's. A
segment and a message are named by the server that made them; `mem` is `Torn` while
`strncpy` is under way. A removed segment lives on without a key as long as
somebody is attached (`Exists`), and clients stay attached as `sharedMemoAt` never
detaches. `freeResources` is one step, as its process then ends; `shutdown` is four
steps, as the others go on meanwhile.

External, as the code uses it: `listen` keeps four connections; the side that
closes first keeps the port in TIME_WAIT for a while (`lingering`); a signal may end
the servers in `Mortal` anywhere, and the kernel then closes their sockets and
leaves the segment and the file. A call fails only at the places of `Failing`, or
where it must (the port is taken, there is nothing to attach). `Casts` chooses who
runs together. `get_connection` times out only with an empty queue: its 120 s, and
the 10 s of `sleep`, have no other measure here.

*Fairness.* Weak for the steps of every process that has been started: they run on
different processors or are scheduled by Linux, and every wait of a server has a
limit. Nobody need be started, nobody need be killed, and a port need not be
released.

## The runs

| run | instance | shows |
|---|---|---|
| `UThreads_sched` | 4 cells, limit 3, sleeps 1-2, counters to 6, the timer at every point; 1 062 000 states, 105 s | containers, owners, counts; round robin; sleep length; quantum accounting |
| `UThreads_live` | 3 cells, 13 000 states, 30 s | no starvation, sleeps end, the terminated are freed |
| `UThreads_spawn` | 4 cells, the timer at every point | *violated:* dispatch of an unprepared thread |
| `UThreads_blocked_lost` | 4 cells | *violated:* a blocked thread that no resume finds |
| `Barrier_rounds` | 4 threads, 3 rounds | sleepers counted, nobody ahead; implements `Rendezvous`; everyone returns |
| `MapReduce_safety` | 3 workers, 1 client, 2 inputs; 1 037 000 states, 90 s | implements `MapReduceJob`; groups; reports |
| `MapReduce_live` | 2 workers, 2 clients, 1 input; 136 000 states, 60 s | workers end; both clients' waits return, and not before; no use after free |
| `MapReduce_empty` | maps that emit nothing | *violated:* the end is never reported |
| `VirtualMemory` | 1/4/4 bits, 8 frames, 4 of 8 pages, 3 levels; 4 300 states, 35 s | implements `FlatMemory`; frames form one tree; evictions; swap file |
| `IpcServers` | 3 servers, 2 clients, three of them at a time; 195 000 states, 130 s | servers do not disturb each other; hosts and messages of stable servers; one client is answered; all end |
| `IpcServers_restart` | 2 servers with one configuration | *violated:* a server that serves and cannot be found |
| `UThreadsSignals` | 3 threads, 2 handlers on top of each other | *violated:* a context on another thread's stack |

*Why the bounds are enough.* **Threads:** four cells for a limit of three is the least
in which a terminated thread and the new owner of its id exist together with a third;
two sleepers can end together; the sleep properties speak of quantums below the bound of
the counters, so with six a sleep of two, which a spawned thread calls in the second at
the earliest, is followed to its wake-up at the start of the fifth. In `UThreads_live`
the counters stop at 1, which frees the graph of them; sleeps do not depend on them.
Cells other than the main one are interchangeable, hence `SYMMETRY` in the safety runs
(never in the live one). **Barrier:** a third round is the first in which a thread can
meet one that is two rounds back; four threads give a broadcast with several sleepers.
**MapReduce:** three workers make an odd number of vectors for `merge_vectors`; the
inputs have a key in two inputs, two keys in one map, a map that emits nothing, and
fewer inputs than workers. **Virtual memory:** eight frames hold the tables and the
pages used at first, so that evicting too early would show, and not all of them later;
three levels, so that whole chains of tables are given back; the pages share a table or
are at the two ends of the memory, where the distance is cyclic, and one address is out
of range. **Servers:** three kinds of casts: two servers that run side by side under a
client, where one fails; a server and another on its port, which is killed or fails
anywhere; one server and two clients, of which it answers one. The second server of a
port comes when the first has closed it, or fails to bind. Full queues do not occur with
two clients.

The mutants listed in `PROJECT.json` are one plausible bug for each property; TLC
finds each of them.

## What is proved

`UThreadsProofs`, for every finite set of cells, every limit and every `Preemptible`, the
code's own included, under one hypothesis about the user's code: it leaves threads
under creation alone (`ConsiderateSpec`, see the module's section). The
hypothesis cannot be dropped: a thread that is blocked before its push is queued while
BLOCKED; one terminated there is queued when freed; and one that is terminated inside
`uthread_spawn` leaves behind a registered thread that nobody ever queues. The theorems say
nothing after a dispatch on an unset context, where the model stops, nor about a handler
that is interrupted at its lines 181 and 270:

- `SchedulerSafe`: `ConsiderateSpec => []SchedulerInv`.
- `TypeCorrect`, `QueueMatchesStates`, `SleepersMatchStates`, `BlockedMatchStates`,
  `CellsHaveOneOwner`, `CountMatchesThreads` and `AlwaysATarget` (`front()` of the
  queue exists whenever somebody must be dispatched) follow from it.

*The argument.* None of the properties is inductive alone. `SwitchHasTarget`
needs that the main thread is always running or queued (`MainInv`).
`ReadyQueueExact` under a switch needs that only the running thread is RUNNING or
marked as terminated, and that it has left the user's code by then
(`RunnerInv`). `OneOwner` needs that a thread in `termination` is RUNNING and
terminated, and that a newer owner of its id has not run yet (`TerminationInv`):
otherwise two threads with one id could be in `termination` or in
`sleeping_threads` at once. As the timer may strike inside `uthread_spawn`, several calls of
it may be under way: `SpawnInv` says that each caller is registered and is creating a
registered thread of its own, which has no context yet and is READY, or was dispatched as
it is, and that no other registered thread lacks a context. `ReadyQueueExact` expects such
a thread in the queue only when it is past the push. The proof has a lemma
per action; the handler is cut in two (`ScheduleEffect`: what becomes of each
thread; `ScheduleInv`: that this keeps the invariant), and the queue operations
rest on five lemmas about injective sequences (push, pop, join, stretch, remove).

- `NobodyOvertakes`, `BlockedStayBlocked`, `SleepersWakeOnTime` and `QuantumsAccounted`:
  the four action properties (`NoOvertaking`, `BlockedUntilResumed`,
  `SleepWakesOnTime`, `QuantumAccounting`).

*Their argument.* A step is the handler, a call without it, or a stutter (`StepKinds`).
Round robin is about the queue only: the handler takes its head, a call appends to
it, `uthread_block` and `uthread_terminate` rebuild it without one thread, and in
each case who was behind another stays behind it (`HeadTakenLemma`, `AppendedLemma`,
`RemovedLemma`, for queues of any length). The sleep property compares `wake_at` with the
library's count, so it needs that a sleeper's `sleep_quantum` and the quantums to come
add up to `wake_at` (`SleepsInv`); the accounting needs that a live cell's count is
within the total (`QuantumsInv`). `TimeInv` is these two with `SchedulerInv`; the parts
were checked on the instance of `UThreads_sched` first.

`BarrierProofs`, for every finite set of threads and any number of rounds, if
`SpuriousWakeups = FALSE` (false otherwise, see below):

- `BarrierSafe`: `BarrierSpec => []BarrierInv`; from it `CountIsOfSleepers` and
  `NobodyEverAhead`.
- `BarrierKeepsPromise`: `BarrierSpec => KeepsPromise`, that is `Rendezvous`.

*The argument.* What ties the rounds together is `Turn`: the calls a thread has
returned from, plus one if it has been released. It is the same for all threads
at all times. Only `Broadcast` changes it, and as the count is that of the
sleepers (`SleepersCounted`), the thread that broadcasts finds all the others
asleep, so everybody's turn rises at once. `Wait` and `Broadcast` are arrivals,
`Unlock` a passing, the rest stutters.

`MapReduceLemmas`, `MapReduceStages` and `MapReduceProofs`, for any number of workers
and clients, any input and any client code, if `SpuriousWakeups = FALSE`:

- `JobInPhase`: `MapReduceSpec => []PhaseInv`; from it `StageAdvances`
  (`StageNeverBack`). `WaitersOutlastWorkers` (`WaitOutlastsWorkers`) needs the joins only
  (`JoinInv`: whoever joins is alone and the first to, the flag is set when all are
  joined) and holds with spurious wakeups, too.
- `JobData`: the invariants of the data; from it `MapReduceTypes`,
  `MappedBeforeShuffle` (`EverythingMapped`), `ShuffledExactly` (`GroupsExact`),
  `ProgressAdvances` (`ProgressNeverBack`), and `FullIsComplete`
  (`ReportedFullIsComplete`), whose hypothesis `Emits(k) <= 1` says that the reduce
  of a key emits at most once: it is false otherwise, as the percentage counts results.
- `JobKeepsPromise`: `MapReduceSpec => KeepsJobPromise`, that is `MapReduceJob`.

*The argument.* `PhaseInv` ties the place of each worker to its calls of the barrier
(`BarrierInv` is a part of it): past the first call nobody maps or sorts, between the calls
only worker 0 moves, past the second nobody shuffles. On that rest the data, one
invariant for each stage. `MapInv`: each pair of a claimed input is either still to be
emitted by the worker that claimed it, or in one vector, once; their number is
`atomic_pairs_counter`. `ShuffleInv`: the vectors are sorted once past `sort`; in the loop
of `shuffle_stage` each pair is in `to_shuffle` or in the group of its key, and the groups
are in the order of the keys. `ReduceInv`: each result of a claimed group is to be
emitted or is in `outputVec`, once. `ReportInv` keeps what a caller was told below
the counters. The lemmas say what the operators do for every input: `Merge` of sorted
vectors is sorted and holds the elements of both, `merge_vectors` puts all vectors
into that of worker 0, a round of grouping adds one pair to the group of its key.

*Induction.* The library's induction theorems cannot be used with these provers, and
the lemmas about `Merge` and `merge_vectors` are inductions on the rounds of a loop. They
rest on the lemma `Induction`, a set of numbers that holds 0 and with a number the
next holds all of them, which is proved from the finiteness of intervals.

`IpcServersProofs`, for any finite sets of servers and clients, with any failures
and kills, if no two servers share a key or a file (`OwnConfiguration`, a hypothesis
of the theorems; ports may be shared; false otherwise, as `IpcServers_restart` shows):

- `IpcSafe`: `Spec => []IpcInv`; from it `IpcTyped`, `IpcListed`
  (`AvailableIsListed`), `IpcCleansUp` (`ServersCleanUp`) and `IpcMessageWhole`
  (`StableMessageWhole`).

*The argument.* With its own key a server never has a segment but its own, and with
its own file it is the only one to fill and remove it: `SegmentSound`,
`SocketSound` and `InfoSound` say what it has at each place of its life, also on the
way of an error, where the segment may be missing. A step of one server touches
nothing of the others (`Touches`), so that lemma `ServerFrame` asks each action for
what concerns its own server only. `StableMessageWhole` needs that what a client has
attached under the name of a file belongs to the file's owner (`EntrySound`), which
rests on `found` between `shmget` and `shmat` being the server whose file was read
(`LoopSound`), and that the memory of a server which served once is never written
again (`UpSound`). `ClientFrame` does for clients what `ServerFrame` does for
servers. The four parts of `IpcInv` were checked as an invariant of the instance
of `IpcServers` first.

`IpcConnectionsProofs`, under the same hypothesis: `IpcOneIsAnswered`, `Spec =>
[]OneIsAnswered`. The property speaks of a connection when its client has read to the
end; the invariant `ConnInv` follows it from the start. `QueueSound`: the queue of a
server holds open connections to it, each once and never the one that was taken, so
`accept` cannot take one twice and closing the queue cuts off nobody who has an
answer. `ConnSound`: only the connection that was taken has ever been written to, it
has been from the call of `write_to_socket` on, and what a client has received agrees
with how its connection ended. `FreshSound` (a client connects once for each file)
rests on `LoopSound` of the first module, and that `CloseClient` finds the queue empty
on `SocketSound`; hence `IpcInv /\ ConnInv` is what is inductive.

`IpcStableIsHost`: `Spec => []StableServerIsHost`, with a second hypothesis,
`QueueHasRoom`: the connections that all clients together may make to a port are
at most the four that `listen` keeps. Otherwise a client may be turned away. The instance
of `IpcServers` satisfies it exactly: two clients, and two files of one port.
*The argument.* `HostInv` was checked on that instance first. `PortSound`: one server at a
time listens at a port, whatever other servers share it. `AddressSound`: a client is
connected to a server of the port that it has read. `HostSound` follows a server that
serves through the loop of the client: its file is still to come (`Listed`), or
the client is at it and has so far found what is the server's (`BeingVisited`), or its
entry is complete (`Visited`). The queue has room (`RoomInQueue`) as it holds distinct
connections of the crowd, by `QueueSound`, and not the one that is being made.

`VirtualMemoryProofs`, for all widths, addresses and words, if the RAM has more frames
than the tree has levels of tables (`WidthAssumption`):

- `PagingInvariant`: `Spec => []PagingInv`; from it `WordsTyped` (`TypeOK`),
  `FramesOfTheTree` (`FramesExact`) and `PagesInOnePlace` (`PageInOnePlace`).
- `FarthestLeaves`: `Spec => EvictsFarthest`.
- `MemoryIsFlat`: `Spec => KeepsFlatMemory`, that is `FlatMemory`.

*The argument.* A step is a whole translation, so the invariant, `Sound`, is about a
memory and holds also after each level of the walk: no two nodes of the tree share a
frame, the frames in use are the lowest, and no leaf is in the swap file. Without the
first, writing an entry of a table could change another; without the second, the next
frame after the highest could be in use.

The tree is known by `TreeIsNodes`: there is one set with the root, closed under
children, in which every other node has a parent. To show what the nodes are after a
step it is then enough to name them. `EmptyFrameLemma` gives what the three ways of
`emptyFrame` have in common (`Freed`: a frame that is not of the table just reached, and
that at most one node has given up, an empty table or a leaf). `LinkedTree` gives the
nodes after the frame is linked: the old ones without that node, and the new one.
Eviction needs a page to evict: `LeafExists` counts that a tree without pages and
without empty tables but the current one is a single chain, which is shorter than the
RAM. Here `WidthAssumption` is needed.

`StepLemma` adds the contents (`Keeps`: no page loses its content, and none but the
wanted gets one) and the distances. `TranslationLemma` is the induction on the levels,
with one more fact: `MissingLemma`, that a missing entry means the page is not in the
RAM, so nothing is evicted for a page that is there.
Page and offset, and the prefix of the address that leads to each node, come from
lemmas about `Bit`, quotient and rest (`Addressing`). `EvictsFarthest` defines the distance
by steps around the memory, so `AroundLemma` shows that `cyclic_distance` computes it.
`Sound` was also checked as an invariant of the instance of `VirtualMemory`.

Recursive functions (`Levels`, the walk, `Bit`) are shown to exist first
(`LevelsDefined`, `WalkDefined`, `BitDefined`), by the lemma `Induction` as above.

*Model-checked only:* all liveness, which is out of the prover's reach.

## Disagreements found

With a run:

1. `addthread` opens the mask in the middle of `uthread_spawn` (`UThreads_spawn`): a
   thread may run on a context that was never set, or be blocked or terminated and
   queued afterwards.
2. `delete_thread` removes from `blocked_threads` by id, and may remove the new
   owner of the id (`UThreads_blocked_lost`).
3. The handler opens the mask after it has made the next thread the running one; a
   second handler saves the old thread's stack as the context of the next
   (`UThreadsSignals`).
4. A job whose maps emit nothing reports 0/0 (`MapReduce_empty`).
5. A server started again while its former run shuts down loses its segment and
   its info file to it (`IpcServers_restart`).

Seen while modelling, without a run:

- `uthread_get_quantums` (`uthreads.cpp:666`) and `uthread_spawn` (line 412) read a
  structure after `unblock()`; by then the timer may have switched to a thread that
  terminates its owner (`held` and `ReadHeld` in `UThreads`).
- `pthread_cond_wait` under `if` (`Barrier.cpp:32`): after one spurious wakeup
  threads pass early, and the count no longer fits, so that others may wait for
  ever (`SpuriousWakeups = TRUE` in `Barrier`, where `NobodyAhead` fails).
- `delete_thread` opens the mask while the handler iterates over `termination`
  (`uthreads.cpp:181`): a nested handler deletes the same threads a second time
  (`deleted` reaches 2 in `UThreadsSignals`).
- A server that fails leaves its info file behind (`server.cpp:107`,
  `FailAndExit`); the program's `README.MD:23` and `:128` promise to remove files on
  errors.
- A client ends with the first info file that it cannot open (`client.cpp:120`,
  `FileVanished`); `README.MD:132` says that it skips problematic servers.
- A client that reads while `write_to_shm` is under way, or before, reports a part
  of the message or none; `StableMessageWhole` is about servers that served before.
- A second client in the queue is counted as connected to a host, and gets no socket
  message. A server that a client reaches by its socket only is counted nowhere.
- `freeResources` closes descriptor 0, the value of `client_fd` before a connection.
- `uthread_resume` fails for a thread whose id still stands in `termination`
  (`uthreads.cpp:556`); its header knows one error only, a missing thread.
- `uthread_terminate(0)` does not free a thread in `termination`
  (`uthreads.cpp:455`).
- The percentage of the reduce stage counts `emit3` calls over groups
  (`MapReduceFramework.cpp:410`): a reduce that emits twice takes it to 200.
- `getJobState` in `UNDEFINED_STAGE` sets no percentage.
- A page's first read gives what its frame held (`VirtualMemory.cpp:228`);
  `README.MD` there says that all frames are initialised before use.
- `VMinitialize` leaves the swap file as it is, so pages of an earlier use come
  back.
- `PMevict` and the walk assume more frames than levels of tables; nothing checks
  it. `WidthAssumption` states it.

## Plan

1. Done: all four programs, three abstract specifications, and the proofs of every
   safety invariant, every action property and every refinement that the runs check.
2. Left: what holds of the barrier and the job with spurious wakeups (so far
   `WaitOutlastsWorkers` only), and the parts listed below.

## Not modelled

Besides what is left out for good: descriptors as numbers (so the close of
descriptor 0 has no effect in `IpcServers`), failures of system calls in the client
other than a missing file, a refused connection and a segment that is gone, and
messages longer than the segment.
