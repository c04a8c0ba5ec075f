----------------------------- MODULE Rendezvous -----------------------------
(***************************************************************************)
(* What "a multiple use barrier" (Barrier.h) promises: nobody returns from  *)
(* its k-th call before everybody has made its k-th call.                   *)
(***************************************************************************)
EXTENDS Naturals

CONSTANT Thread

VARIABLES
  arrived,  \* arrived[t]: the calls t has made
  passed    \* passed[t]: the calls t has returned from

Init == arrived = [t \in Thread |-> 0] /\ passed = [t \in Thread |-> 0]

Arrive(t) ==
  /\ arrived[t] = passed[t]
  /\ arrived' = [arrived EXCEPT ![t] = @ + 1]
  /\ UNCHANGED passed

Pass(t) ==
  /\ passed[t] < arrived[t]
  /\ \A u \in Thread : arrived[u] >= arrived[t]
  /\ passed' = [passed EXCEPT ![t] = @ + 1]
  /\ UNCHANGED arrived

Next == \E t \in Thread : Arrive(t) \/ Pass(t)

Spec == Init /\ [][Next]_<<arrived, passed>>

=============================================================================
