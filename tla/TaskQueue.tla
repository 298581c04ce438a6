------------------------------- MODULE TaskQueue -------------------------------
(***************************************************************************)
(* What CThreadPool promises its owner: a bounded FIFO queue of tasks.     *)
(* Every task is submitted once; it is accepted or, at capacity, lost; an  *)
(* accepted task is started in submission order and finished, or lost when *)
(* the pool is destroyed.  ThreadPool is shown to implement this module.   *)
(***************************************************************************)
EXTENDS Naturals, Sequences

CONSTANTS Tasks, Capacity

VARIABLES
  pending,  \* accepted and not yet started, in submission order
  running,  \* started
  done,     \* executed
  lost      \* dropped at capacity or aborted at the end

vars == <<pending, running, done, lost>>

Known == {pending[i] : i \in DOMAIN pending} \cup running \cup done \cup lost

Init ==
  /\ pending = <<>>
  /\ running = {}
  /\ done = {}
  /\ lost = {}

Accept(k) ==
  /\ k \notin Known
  /\ pending' = Append(pending, k)
  /\ UNCHANGED <<running, done, lost>>

Drop(k) ==
  /\ k \notin Known
  /\ Len(pending) >= Capacity
  /\ lost' = lost \cup {k}
  /\ UNCHANGED <<pending, running, done>>

Start ==
  /\ pending # <<>>
  /\ pending' = Tail(pending)
  /\ running' = running \cup {Head(pending)}
  /\ UNCHANGED <<done, lost>>

Finish(k) ==
  /\ k \in running
  /\ running' = running \ {k}
  /\ done' = done \cup {k}
  /\ UNCHANGED <<pending, lost>>

Abort ==
  /\ pending # <<>>
  /\ pending' = Tail(pending)
  /\ lost' = lost \cup {Head(pending)}
  /\ UNCHANGED <<running, done>>

Next ==
  \/ \E k \in Tasks : Accept(k) \/ Drop(k) \/ Finish(k)
  \/ Start
  \/ Abort

Spec == Init /\ [][Next]_vars
=============================================================================
