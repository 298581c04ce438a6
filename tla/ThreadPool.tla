------------------------------ MODULE ThreadPool ------------------------------
(***************************************************************************)
(* CThreadPool (SchoolSystemServer/CThreadPool.{h,cpp}): a lazily grown    *)
(* pool of Win32 threads fed by one owner thread through a FIFO queue.     *)
(*                                                                         *)
(* The owner (the server's main loop) calls AddTask and, at the end, the   *)
(* destructor; every pool thread runs ThreadProc.  They share the queue    *)
(* (guarded by m_cs), a counting semaphore, a manual-reset quit event and  *)
(* two thread counters that are read without a lock.  Actions are split at *)
(* every point where another thread can observe the difference: the        *)
(* semaphore is released BEFORE the task is pushed, a woken thread has     *)
(* consumed a permit BEFORE it enters the critical section, and the        *)
(* counters are read and updated outside it.                               *)
(***************************************************************************)
EXTENDS Naturals, Sequences, FiniteSets

CONSTANTS
  Tasks,       \* the ITask objects the owner may submit, each at most once
  MaxThreads,  \* m_nMaxThreads
  SemMax,      \* maximum count of the task semaphore (dwNumberOfProcessors * 1000)
  NoTask       \* pTask of a thread that holds no task

ASSUME PoolAssumption ==
  /\ MaxThreads \in Nat \ {0}
  /\ SemMax \in Nat \ {0}
  /\ NoTask \notin Tasks

Threads == 1 .. MaxThreads   \* slots of m_pThreadHandles

VARIABLES
  owner,      \* where the owner thread is: see OwnerPc
  adding,     \* pTask of the AddTask call in progress
  sem,        \* count of the semaphore m_hSem[1]
  queue,      \* m_taskQueue
  nIdle,      \* m_nIdleThreads
  nCur,       \* m_nCurThreads
  quit,       \* the event m_hSem[0] is set
  failed,     \* slots whose CreateThread returned NULL
  pc,         \* where each pool thread is: see ThreadPc
  held,       \* pTask of each pool thread
  submitted,  \* history: tasks passed to AddTask
  runs,       \* history: number of Execute calls on each task
  dropped,    \* history: tasks AddTask discarded
  aborted     \* history: tasks the destructor aborted

vars == <<owner, adding, sem, queue, nIdle, nCur, quit, failed, pc, held,
          submitted, runs, dropped, aborted>>

\* "push" holds m_cs with the semaphore already released; "check" and "create"
\* are the unlocked tail of AddTask; the last three belong to the destructor.
OwnerPc == {"idle", "push", "check", "create", "join", "abort", "freed"}

\* "start" top of the loop, "wait" in WaitForMultipleObjects, "woken" holds a
\* permit and is still counted idle, "enter" is about to take m_cs, "exec" runs,
\* "undefined" has called front() on an empty queue.
ThreadPc == {"none", "start", "wait", "woken", "enter", "exec", "exit", "undefined"}

TypeOK ==
  /\ owner \in OwnerPc
  /\ adding \in Tasks \cup {NoTask}
  /\ sem \in 0 .. SemMax
  /\ queue \in Seq(Tasks)
  /\ nIdle \in 0 .. MaxThreads
  /\ nCur \in 0 .. MaxThreads
  /\ quit \in BOOLEAN
  /\ failed \in SUBSET Threads
  /\ pc \in [Threads -> ThreadPc]
  /\ held \in [Threads -> Tasks \cup {NoTask}]
  /\ submitted \in SUBSET Tasks
  /\ runs \in [Tasks -> Nat]
  /\ dropped \in SUBSET Tasks
  /\ aborted \in SUBSET Tasks

\* The constructor: no threads, an empty queue, semaphore at 0, event unset.
Init ==
  /\ owner = "idle"
  /\ adding = NoTask
  /\ sem = 0
  /\ queue = <<>>
  /\ nIdle = 0
  /\ nCur = 0
  /\ quit = FALSE
  /\ failed = {}
  /\ pc = [t \in Threads |-> "none"]
  /\ held = [t \in Threads |-> NoTask]
  /\ submitted = {}
  /\ runs = [k \in Tasks |-> 0]
  /\ dropped = {}
  /\ aborted = {}

-----------------------------------------------------------------------------
(* The owner thread: AddTask and the destructor. *)

\* Mutant: the pool threads do not take m_cs.
CsIgnored == TRUE

\* m_cs is free: the owner keeps it from the release to the push; a pool thread
\* takes and leaves it within one step.
CsFree == owner # "push"

\* EnterCriticalSection, then ReleaseSemaphore succeeds.
AddRelease(k) ==
  /\ owner = "idle"
  /\ k \notin submitted
  /\ sem < SemMax
  /\ sem' = sem + 1
  /\ owner' = "push"
  /\ adding' = k
  /\ submitted' = submitted \cup {k}
  /\ UNCHANGED <<queue, nIdle, nCur, quit, failed, pc, held, runs, dropped, aborted>>

\* Mutant: the result of ReleaseSemaphore is not looked at.
AddDropPushes(k) ==
  /\ owner = "idle"
  /\ k \notin submitted
  /\ sem = SemMax
  /\ owner' = "check"
  /\ submitted' = submitted \cup {k}
  /\ queue' = Append(queue, k)
  /\ UNCHANGED <<adding, sem, nIdle, nCur, quit, failed, pc, held, runs, dropped, aborted>>

\* ReleaseSemaphore fails at its maximum count: the task is discarded and
\* AddTask goes on to the thread check all the same.
AddDrop(k) ==
  /\ owner = "idle"
  /\ k \notin submitted
  /\ sem = SemMax
  /\ owner' = "check"
  /\ submitted' = submitted \cup {k}
  /\ dropped' = dropped \cup {k}
  /\ UNCHANGED <<adding, sem, queue, nIdle, nCur, quit, failed, pc, held, runs, aborted>>

\* Mutant: the task is put in front of the queue.
AddPushFront ==
  /\ owner = "push"
  /\ queue' = <<adding>> \o queue
  /\ adding' = NoTask
  /\ owner' = "check"
  /\ UNCHANGED <<sem, nIdle, nCur, quit, failed, pc, held, submitted, runs, dropped, aborted>>

\* m_taskQueue.push and LeaveCriticalSection.
AddPush ==
  /\ owner = "push"
  /\ queue' = Append(queue, adding)
  /\ adding' = NoTask
  /\ owner' = "check"
  /\ UNCHANGED <<sem, nIdle, nCur, quit, failed, pc, held, submitted, runs, dropped, aborted>>

\* Mutant: the test for idle threads is inverted.
MustCreateInverted == nIdle # 0 /\ nCur < MaxThreads

\* The unlocked test: no idle thread and room for another one.
MustCreate == nIdle = 0 /\ nCur < MaxThreads

AddCheck ==
  /\ owner = "check"
  /\ owner' = IF MustCreate THEN "create" ELSE "idle"
  /\ UNCHANGED <<adding, sem, queue, nIdle, nCur, quit, failed, pc, held,
                 submitted, runs, dropped, aborted>>

\* CreateThread, its result stored in the next slot; a failure stores NULL and
\* is counted as a thread nevertheless.
AddCreate ==
  /\ owner = "create"
  /\ nCur' = nCur + 1
  /\ \/ pc' = [pc EXCEPT ![nCur + 1] = "start"] /\ UNCHANGED failed
     \/ failed' = failed \cup {nCur + 1} /\ UNCHANGED pc
  /\ owner' = "idle"
  /\ UNCHANGED <<adding, sem, queue, nIdle, quit, held, submitted, runs, dropped, aborted>>

\* ~CThreadPool: SetEvent.
DestroySignal ==
  /\ owner = "idle"
  /\ quit' = TRUE
  /\ owner' = "join"
  /\ UNCHANGED <<adding, sem, queue, nIdle, nCur, failed, pc, held, submitted, runs, dropped, aborted>>

\* Mutant: bWaitAll is FALSE.
JoinedAny == failed # {} \/ nCur = 0 \/ \E t \in 1 .. nCur : pc[t] = "exit"

\* WaitForMultipleObjects on all m_nCurThreads handles; with a NULL handle among
\* them it fails at once, and the result is not looked at.
Joined == failed # {} \/ \A t \in 1 .. nCur : pc[t] = "exit"

DestroyJoin ==
  /\ owner = "join"
  /\ Joined
  /\ owner' = "abort"
  /\ UNCHANGED <<adding, sem, queue, nIdle, nCur, quit, failed, pc, held,
                 submitted, runs, dropped, aborted>>

\* Mutant: the drain loop does not pop.
DestroyAbortNoPop ==
  /\ owner = "abort"
  /\ queue # <<>>
  /\ aborted' = aborted \cup {Head(queue)}
  /\ UNCHANGED <<owner, adding, sem, queue, nIdle, nCur, quit, failed, pc, held, submitted, runs, dropped>>

\* One round of the drain loop: pop, Abort, delete.
DestroyAbort ==
  /\ owner = "abort"
  /\ queue # <<>>
  /\ queue' = Tail(queue)
  /\ aborted' = aborted \cup {Head(queue)}
  /\ UNCHANGED <<owner, adding, sem, nIdle, nCur, quit, failed, pc, held, submitted, runs, dropped>>

\* The handles, the event, the semaphore and the critical section are released.
DestroyFree ==
  /\ owner = "abort"
  /\ queue = <<>>
  /\ owner' = "freed"
  /\ UNCHANGED <<adding, sem, queue, nIdle, nCur, quit, failed, pc, held,
                 submitted, runs, dropped, aborted>>

-----------------------------------------------------------------------------
(* The pool threads: ThreadProc. *)

\* InterlockedIncrement(&m_nIdleThreads), at the top of every iteration.
IncIdle(t) ==
  /\ pc[t] = "start"
  /\ nIdle' = nIdle + 1
  /\ pc' = [pc EXCEPT ![t] = "wait"]
  /\ UNCHANGED <<owner, adding, sem, queue, nCur, quit, failed, held, submitted, runs, dropped, aborted>>

\* WaitForMultipleObjects returns index 0 whenever the quit event is set, even
\* with permits left; the thread returns without leaving the idle count.
WaitQuit(t) ==
  /\ pc[t] = "wait"
  /\ quit
  /\ pc' = [pc EXCEPT ![t] = "exit"]
  /\ UNCHANGED <<owner, adding, sem, queue, nIdle, nCur, quit, failed, held,
                 submitted, runs, dropped, aborted>>

\* WaitForMultipleObjects takes a permit.
WaitTask(t) ==
  /\ pc[t] = "wait"
  /\ ~quit
  /\ sem > 0
  /\ sem' = sem - 1
  /\ pc' = [pc EXCEPT ![t] = "woken"]
  /\ UNCHANGED <<owner, adding, queue, nIdle, nCur, quit, failed, held, submitted, runs, dropped, aborted>>

\* Mutant: the decrement is missing.
DecIdleForgotten(t) ==
  /\ pc[t] = "woken"
  /\ pc' = [pc EXCEPT ![t] = "enter"]
  /\ UNCHANGED <<owner, adding, sem, queue, nIdle, nCur, quit, failed, held,
                 submitted, runs, dropped, aborted>>

\* InterlockedDecrement(&m_nIdleThreads).
DecIdle(t) ==
  /\ pc[t] = "woken"
  /\ nIdle' = nIdle - 1
  /\ pc' = [pc EXCEPT ![t] = "enter"]
  /\ UNCHANGED <<owner, adding, sem, queue, nCur, quit, failed, held, submitted, runs, dropped, aborted>>

\* The critical section: front and pop.
Pop(t) ==
  /\ pc[t] = "enter"
  /\ CsFree
  /\ queue # <<>>
  /\ held' = [held EXCEPT ![t] = Head(queue)]
  /\ queue' = Tail(queue)
  /\ pc' = [pc EXCEPT ![t] = "exec"]
  /\ UNCHANGED <<owner, adding, sem, nIdle, nCur, quit, failed, submitted, runs, dropped, aborted>>

\* front() and pop() of an empty queue: undefined behaviour.
PopEmpty(t) ==
  /\ pc[t] = "enter"
  /\ CsFree
  /\ queue = <<>>
  /\ pc' = [pc EXCEPT ![t] = "undefined"]
  /\ UNCHANGED <<owner, adding, sem, queue, nIdle, nCur, quit, failed, held,
                 submitted, runs, dropped, aborted>>

\* Execute, delete, back to the top of the loop.
Execute(t) ==
  /\ pc[t] = "exec"
  /\ runs' = [runs EXCEPT ![held[t]] = @ + 1]
  /\ held' = [held EXCEPT ![t] = NoTask]
  /\ pc' = [pc EXCEPT ![t] = "start"]
  /\ UNCHANGED <<owner, adding, sem, queue, nIdle, nCur, quit, failed, submitted, dropped, aborted>>

ThreadProc(t) ==
  IncIdle(t) \/ WaitQuit(t) \/ WaitTask(t) \/ DecIdle(t)
    \/ Pop(t) \/ PopEmpty(t) \/ Execute(t)

\* What the owner must go on with once it has begun.
OwnerStep ==
  AddPush \/ AddCheck \/ AddCreate \/ DestroyJoin \/ DestroyAbort \/ DestroyFree

\* The owner is done with the pool and every thread has returned.
Terminated ==
  /\ owner = "freed"
  /\ \A t \in Threads : pc[t] \in {"none", "exit", "undefined"}
  /\ UNCHANGED vars

Next ==
  \/ \E k \in Tasks : AddRelease(k) \/ AddDrop(k)
  \/ DestroySignal
  \/ OwnerStep
  \/ \E t \in Threads : ThreadProc(t)
  \/ Terminated

Spec == Init /\ [][Next]_vars

\* Threads are scheduled, and the owner finishes the call it is in; nothing makes
\* it submit another task or destroy the pool.
Fairness == WF_vars(OwnerStep) /\ \A t \in Threads : WF_vars(ThreadProc(t))

FairSpec == Spec /\ Fairness

-----------------------------------------------------------------------------
(* Properties. *)

\* Threads that own a semaphore permit they have not yet turned into a task.
Permits == {t \in Threads : pc[t] \in {"woken", "enter"}}

\* Until the destructor drains the queue, semaphore permits and queued tasks
\* balance: every permit, free or taken, stands for one task that is in the queue
\* or that the owner is about to push (AddTask releases before it pushes, and
\* ThreadProc takes the permit before it pops).
PermitsMatchQueue ==
  owner \notin {"abort", "freed"} =>
    sem + Cardinality(Permits) = Len(queue) + (IF owner = "push" THEN 1 ELSE 0)

\* The idle counter AddTask reads is exactly the number of threads between their
\* increment and their decrement; threads that returned on the quit event stay
\* counted.  In particular the unsigned counter never wraps.
IdleCounterExact ==
  nIdle = Cardinality({t \in Threads : pc[t] \in {"wait", "woken", "exit"}})

\* No pool thread calls front() on an empty queue (CThreadPool.cpp:90), although
\* the semaphore is released before the push and nobody tests the queue; unless
\* a CreateThread failed and cut the destructor's join short.
PopFindsTask == failed = {} => \A t \in Threads : pc[t] # "undefined"

\* The destructor drains the queue and frees the handles and the critical section
\* only when no pool thread can touch them any more, unless a CreateThread failed.
NoUseAfterFree ==
  failed = {} /\ owner \in {"abort", "freed"} =>
    \A t \in Threads : pc[t] \in {"none", "exit"}

\* The abstract FIFO task queue the pool implements; a task is accepted when its
\* semaphore permit is released, so the one about to be pushed counts as pending.
TQ == INSTANCE TaskQueue WITH
        Capacity <- SemMax,
        pending  <- IF owner = "push" THEN Append(queue, adding) ELSE queue,
        running  <- {k \in Tasks : \E t \in Threads : held[t] = k},
        done     <- {k \in Tasks : runs[k] > 0},
        lost     <- dropped \cup aborted

\* The pool implements the abstract queue: tasks start in submission order, each
\* one is executed, dropped or aborted once and never twice, and one is dropped
\* only when SemMax tasks are pending (CThreadPool.cpp:58-62).
ImplementsTaskQueue == TQ!Spec

Settled(k) == runs[k] = 1 \/ k \in dropped \/ k \in aborted

\* Every task handed to AddTask is executed, or dropped, or aborted in the end,
\* whatever stale counter values AddTask saw and whichever CreateThread fails, if at
\* least one succeeds or none fails.
EveryTaskSettles ==
  [](failed = {}) \/ <>(\E t \in Threads : pc[t] # "none") =>
    \A k \in Tasks : k \in submitted ~> Settled(k)

\* The destructor returns: every thread notices the quit event and the queue is
\* drained, also when threads are in the middle of a task.
DestructorReturns == owner = "join" ~> owner = "freed"
=============================================================================
