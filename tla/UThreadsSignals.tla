-------------------------- MODULE UThreadsSignals --------------------------
(***************************************************************************)
(* schedule_handler of Uthreads_Library/uthreads.cpp at the grain of its    *)
(* signal mask: delete_thread (line 181) and the handler itself (line 270)  *)
(* open the mask while the handler is under way, so that SIGVTALRM can      *)
(* start it again on top of itself.  UThreads has the handler as one step;  *)
(* here the threads, all spawned before, only compute or end themselves,    *)
(* and a saved context is told apart from the thread it belongs to.         *)
(***************************************************************************)
EXTENDS Naturals, Sequences, SequencesExt

CONSTANTS
  Thread,     \* the threads of the process
  Main,       \* the one of them that does not end
  MaxNesting  \* bound: handlers on top of each other

VARIABLES
  running_thread, \* the thread that the scheduler takes for the running one
  ready_queue,
  termination,    \* the threads that ended and are not deleted yet
  terminated,     \* the threads whose flag is set
  deleted,        \* by thread: how often it has been deleted
  env,            \* by thread: its jmp_buf
  stack,          \* the thread on whose stack the processor is
  handlers        \* the activations of the handler on that stack, the last on top: where
                  \* each is, and what its loop over termination has left

vars == <<running_thread, ready_queue, termination, terminated, deleted, env, stack, handlers>>

\* A context is a stack and the activations that are under way on it.
Context(t, under) == [on |-> t, under |-> under]

\* Every thread has been spawned and waits for its first quantum but Main.
Init ==
  /\ running_thread = Main
  /\ ready_queue \in {q \in [1 .. (Cardinality(Thread) - 1) -> Thread \ {Main}] : IsInjective(q)}
  /\ termination = {} /\ terminated = {}
  /\ deleted = [t \in Thread |-> 0]
  /\ env = [t \in Thread |-> Context(t, <<>>)]
  /\ stack = Main
  /\ handlers = <<>>

Top == Last(handlers)
SetTop(a) == handlers' = Append(Front(handlers), a)

\* In the user's code, after an unblock() of delete_thread, and after line 270.
MaskOpen == handlers # <<>> => Top.at \in {"deleted", "jump"}

\* uthread_terminate of the calling thread, up to the call of the handler.
TerminateSelf ==
  /\ handlers = <<>>
  /\ running_thread # Main
  /\ terminated' = terminated \union {running_thread}
  /\ UNCHANGED <<running_thread, ready_queue, termination, deleted, env, stack, handlers>>

\* The handler starts, by a signal or a call, and sigsetjmp saves where the
\* processor is as the context of running_thread.
Enter ==
  /\ MaskOpen
  /\ Len(handlers) < MaxNesting
  /\ handlers' = Append(handlers, [at |-> "delete", left |-> termination])
  /\ env' = IF running_thread \in terminated THEN env
            ELSE [env EXCEPT ![running_thread] = Context(stack, handlers)]
  /\ UNCHANGED <<running_thread, ready_queue, termination, terminated, deleted, stack>>

\* One turn of the loop over termination.  (If another handler has cleared the
\* map meanwhile, going on with the next of the old entries is one outcome of
\* the undefined behaviour.)
Delete ==
  /\ handlers # <<>>
  /\ Top.at \in {"delete", "deleted"}
  /\ \E t \in Top.left :
       /\ deleted[t] < 2
       /\ deleted' = [deleted EXCEPT ![t] = @ + 1]
       /\ SetTop([at |-> "deleted", left |-> Top.left \ {t}])
  /\ UNCHANGED <<running_thread, ready_queue, termination, terminated, env, stack>>

LoopDone == handlers # <<>> /\ Top.at \in {"delete", "deleted"} /\ Top.left = {}

\* Nobody waits: the handler returns.
KeepRunning ==
  /\ LoopDone
  /\ running_thread \notin terminated
  /\ ready_queue = <<>>
  /\ termination' = {}
  /\ handlers' = Front(handlers)
  /\ UNCHANGED <<running_thread, ready_queue, terminated, deleted, env, stack>>

\* The rest of the handler, up to the unblock() before siglongjmp.
Choose ==
  LET gone == running_thread \in terminated
      line == IF gone THEN ready_queue ELSE Append(ready_queue, running_thread)
  IN  /\ LoopDone
      /\ ready_queue # <<>>
      /\ termination' = IF gone THEN {running_thread} ELSE {}
      /\ running_thread' = Head(line)
      /\ ready_queue' = Tail(line)
      /\ SetTop([at |-> "jump", left |-> {}])
      /\ UNCHANGED <<terminated, deleted, env, stack>>

\* siglongjmp; in a context that a handler saved, sigsetjmp returns 1, which is
\* FAILURE, and that handler returns.
Jump ==
  /\ handlers # <<>>
  /\ Top.at = "jump"
  /\ stack' = env[running_thread].on
  /\ handlers' = env[running_thread].under
  /\ UNCHANGED <<running_thread, ready_queue, termination, terminated, deleted, env>>

Next == TerminateSelf \/ Enter \/ Delete \/ KeepRunning \/ Choose \/ Jump

Spec == Init /\ [][Next]_vars

-----------------------------------------------------------------------------

\* What is saved for a thread that waits is a place in its own code, on its own
\* stack (sigsetjmp and siglongjmp of schedule_handler).
ContextKept == \A t \in ToSet(ready_queue) : env[t].on = t

=============================================================================
