--------------------------- MODULE ThreadPoolProofs ---------------------------
(***************************************************************************)
(* ThreadPool's safety properties for any number of threads and tasks and  *)
(* any semaphore maximum.                                                  *)
(*                                                                         *)
(* The two counters of the pool, nIdle and sem, are each equal to the size *)
(* of a set of threads plus something visible; the counting lemmas say how *)
(* such a set changes when one thread moves.                               *)
(***************************************************************************)
EXTENDS ThreadPool, FiniteSetTheorems, TLAPS

\* The number of threads whose program counter is in A.
Count(f, A) == Cardinality({t \in Threads : f[t] \in A})

\* A set of threads is finite and no larger than the pool.
LEMMA CountBound ==
  ASSUME NEW f, NEW A
  PROVE  /\ IsFiniteSet({t \in Threads : f[t] \in A})
         /\ Count(f, A) \in 0 .. MaxThreads
<1> DEFINE S == {t \in Threads : f[t] \in A}
<1>1. MaxThreads \in Nat
  BY PoolAssumption
<1>2. IsFiniteSet(Threads) /\ Cardinality(Threads) = MaxThreads
  BY <1>1, FS_Interval DEF Threads
<1>3. S \subseteq Threads
  OBVIOUS
<1>4. IsFiniteSet(S) /\ Cardinality(S) <= Cardinality(Threads)
  BY <1>2, <1>3, FS_Subset
<1>5. Cardinality(S) \in Nat
  BY <1>4, FS_CardinalityType
<1> QED
  BY <1>1, <1>2, <1>4, <1>5 DEF Count

\* A thread that moves into A adds one to the count.
LEMMA CountIn ==
  ASSUME NEW f \in [Threads -> ThreadPc], NEW A, NEW u \in Threads, NEW v,
         f[u] \notin A, v \in A
  PROVE  Count([f EXCEPT ![u] = v], A) = Count(f, A) + 1
<1> DEFINE S == {t \in Threads : f[t] \in A}
<1>1. {t \in Threads : [f EXCEPT ![u] = v][t] \in A} = S \cup {u}
  OBVIOUS
<1>2. u \notin S
  OBVIOUS
<1>3. IsFiniteSet(S)
  BY CountBound
<1>4. Cardinality(S \cup {u}) = Cardinality(S) + 1
  BY <1>2, <1>3, FS_AddElement
<1> QED
  BY <1>1, <1>4 DEF Count

\* A thread that moves out of A takes one from the count.
LEMMA CountOut ==
  ASSUME NEW f \in [Threads -> ThreadPc], NEW A, NEW u \in Threads, NEW v,
         f[u] \in A, v \notin A
  PROVE  Count([f EXCEPT ![u] = v], A) = Count(f, A) - 1
<1> DEFINE S == {t \in Threads : f[t] \in A}
<1>1. {t \in Threads : [f EXCEPT ![u] = v][t] \in A} = S \ {u}
  OBVIOUS
<1>2. u \in S
  OBVIOUS
<1>3. IsFiniteSet(S)
  BY CountBound
<1>4. Cardinality(S \ {u}) = Cardinality(S) - 1
  BY <1>2, <1>3, FS_RemoveElement
<1> QED
  BY <1>1, <1>4 DEF Count

\* A thread that moves within A or outside of A leaves the count alone.
LEMMA CountSame ==
  ASSUME NEW f \in [Threads -> ThreadPc], NEW A, NEW u \in Threads, NEW v,
         f[u] \in A <=> v \in A
  PROVE  Count([f EXCEPT ![u] = v], A) = Count(f, A)
<1>1. {t \in Threads : [f EXCEPT ![u] = v][t] \in A} = {t \in Threads : f[t] \in A}
  OBVIOUS
<1> QED
  BY <1>1 DEF Count

\* A thread in A is counted.
LEMMA CountPositive ==
  ASSUME NEW f \in [Threads -> ThreadPc], NEW A, NEW u \in Threads, f[u] \in A
  PROVE  Count(f, A) >= 1
<1> DEFINE S == {t \in Threads : f[t] \in A}
<1>1. IsFiniteSet(S) /\ Cardinality(S) \in Nat
  BY CountBound, SMTT(20) DEF Count
<1>2. u \in S
  OBVIOUS
<1>3. Cardinality(S) # 0
  BY <1>1, <1>2, FS_EmptySet
<1> QED
  BY <1>1, <1>3 DEF Count

-----------------------------------------------------------------------------
(* The inductive invariant. *)

IdlePc == {"wait", "woken", "exit"}
PermitPc == {"woken", "enter"}

\* What each program counter implies about the data its next step uses.
Shape ==
  /\ owner = "push" => adding \in Tasks
  /\ owner = "create" => nCur < MaxThreads
  /\ \A t \in Threads : pc[t] = "exec" <=> held[t] \in Tasks
  /\ \A t \in Threads : t > nCur => pc[t] = "none"

PoolInv ==
  /\ TypeOK
  /\ Shape
  /\ IdleCounterExact
  /\ PermitsMatchQueue
  /\ PopFindsTask
  /\ NoUseAfterFree

\* The two counting invariants in terms of Count.
LEMMA CountForms ==
  /\ IdleCounterExact <=> nIdle = Count(pc, IdlePc)
  /\ PermitsMatchQueue <=>
       (owner \notin {"abort", "freed"} =>
          sem + Count(pc, PermitPc) = Len(queue) + (IF owner = "push" THEN 1 ELSE 0))
BY DEF IdleCounterExact, PermitsMatchQueue, Permits, Count, IdlePc, PermitPc

\* The constructor establishes the invariant.
LEMMA PoolInit == Init => PoolInv
<1> SUFFICES ASSUME Init PROVE PoolInv
  OBVIOUS
<1> USE PoolAssumption
<1>1. TypeOK
  <2>1. 0 \in 0 .. SemMax /\ 0 \in 0 .. MaxThreads
    OBVIOUS
  <2>2. pc \in [Threads -> ThreadPc] /\ held \in [Threads -> Tasks \cup {NoTask}]
    BY DEF Init, ThreadPc
  <2>3. runs \in [Tasks -> Nat] /\ queue \in Seq(Tasks)
    BY DEF Init
  <2> QED
    BY <2>1, <2>2, <2>3 DEF Init, TypeOK, OwnerPc
<1>2. Shape /\ PopFindsTask /\ NoUseAfterFree
  BY DEF Init, Shape, PopFindsTask, NoUseAfterFree
<1>3. Count(pc, IdlePc) = 0 /\ Count(pc, PermitPc) = 0
  <2>1. {t \in Threads : pc[t] \in IdlePc} = {} /\ {t \in Threads : pc[t] \in PermitPc} = {}
    BY DEF Init, IdlePc, PermitPc
  <2> QED
    BY <2>1, FS_EmptySet DEF Count
<1>4. IdleCounterExact /\ PermitsMatchQueue
  BY <1>3, CountForms DEF Init
<1> QED
  BY <1>1, <1>2, <1>4 DEF PoolInv

\* Every step of the owner and of the pool threads preserves the invariant.
LEMMA PoolStep == PoolInv /\ [Next]_vars => PoolInv'
<1> SUFFICES ASSUME PoolInv, [Next]_vars PROVE PoolInv'
  OBVIOUS
<1> USE PoolAssumption
<1> USE DEF PoolInv
<1>0. /\ nIdle = Count(pc, IdlePc)
      /\ owner \notin {"abort", "freed"} =>
           sem + Count(pc, PermitPc) = Len(queue) + (IF owner = "push" THEN 1 ELSE 0)
      /\ pc \in [Threads -> ThreadPc]
      /\ Count(pc, PermitPc) \in Nat /\ Count(pc, IdlePc) \in 0 .. MaxThreads
      /\ Len(queue) \in Nat
  <2>1. /\ nIdle = Count(pc, IdlePc)
        /\ owner \notin {"abort", "freed"} =>
             sem + Count(pc, PermitPc) = Len(queue) + (IF owner = "push" THEN 1 ELSE 0)
    BY CountForms
  <2>2. Count(pc, PermitPc) \in 0 .. MaxThreads /\ Count(pc, IdlePc) \in 0 .. MaxThreads
    BY CountBound
  <2>3. pc \in [Threads -> ThreadPc] /\ Len(queue) \in Nat
    BY DEF TypeOK
  <2> QED
    BY <2>1, <2>2, <2>3
<1>f. ASSUME nIdle' = Count(pc', IdlePc),
             owner' \notin {"abort", "freed"} =>
               sem' + Count(pc', PermitPc) = Len(queue') + (IF owner' = "push" THEN 1 ELSE 0)
      PROVE  IdleCounterExact' /\ PermitsMatchQueue'
  BY <1>f DEF IdleCounterExact, PermitsMatchQueue, Permits, Count, IdlePc, PermitPc
<1>1. ASSUME NEW k \in Tasks, AddRelease(k) PROVE PoolInv'
  <2>1. TypeOK' /\ Shape'
    BY <1>1 DEF AddRelease, TypeOK, Shape, OwnerPc
  <2>2. IdleCounterExact' /\ PermitsMatchQueue'
    BY <1>0, <1>1, <1>f DEF AddRelease, TypeOK
  <2>3. PopFindsTask' /\ NoUseAfterFree'
    BY <1>1 DEF AddRelease, PopFindsTask, NoUseAfterFree
  <2> QED
    BY <2>1, <2>2, <2>3
<1>2. ASSUME NEW k \in Tasks, AddDrop(k) PROVE PoolInv'
  <2>1. TypeOK' /\ Shape'
    BY <1>2 DEF AddDrop, TypeOK, Shape, OwnerPc
  <2>2. IdleCounterExact' /\ PermitsMatchQueue'
    BY <1>0, <1>2, <1>f DEF AddDrop, TypeOK
  <2>3. PopFindsTask' /\ NoUseAfterFree'
    BY <1>2 DEF AddDrop, PopFindsTask, NoUseAfterFree
  <2> QED
    BY <2>1, <2>2, <2>3
<1>3. CASE AddPush
  <2>1. TypeOK' /\ Shape'
    BY <1>3 DEF AddPush, TypeOK, Shape, OwnerPc
  <2>2. Len(queue') = Len(queue) + 1
    BY <1>3 DEF AddPush, TypeOK, Shape
  <2>3. IdleCounterExact' /\ PermitsMatchQueue'
    BY <1>0, <1>3, <1>f, <2>2 DEF AddPush, TypeOK
  <2>4. PopFindsTask' /\ NoUseAfterFree'
    BY <1>3 DEF AddPush, PopFindsTask, NoUseAfterFree
  <2> QED
    BY <2>1, <2>3, <2>4
<1>4. CASE AddCheck
  <2>1. TypeOK' /\ Shape'
    BY <1>4 DEF AddCheck, MustCreate, TypeOK, Shape, OwnerPc
  <2>2. IdleCounterExact' /\ PermitsMatchQueue'
    BY <1>0, <1>4, <1>f DEF AddCheck, TypeOK
  <2>3. PopFindsTask' /\ NoUseAfterFree'
    BY <1>4 DEF AddCheck, PopFindsTask, NoUseAfterFree
  <2> QED
    BY <2>1, <2>2, <2>3
<1>5. CASE AddCreate
  <2>1. nCur + 1 \in Threads /\ pc[nCur + 1] = "none"
    BY <1>5 DEF AddCreate, TypeOK, Shape, Threads
  <2>2. TypeOK'
    <3>1. nCur' \in 0 .. MaxThreads /\ failed' \in SUBSET Threads
      BY <1>5, <2>1 DEF AddCreate, TypeOK, Shape
    <3>2. pc' \in [Threads -> ThreadPc]
      BY <1>5, <2>1 DEF AddCreate, TypeOK, ThreadPc
    <3> QED
      BY <1>5, <3>1, <3>2 DEF AddCreate, TypeOK, OwnerPc
  <2>3. Shape'
    BY <1>5, <2>1 DEF AddCreate, TypeOK, Shape, Threads
  <2>4. /\ Count(pc', IdlePc) = Count(pc, IdlePc)
        /\ Count(pc', PermitPc) = Count(pc, PermitPc)
    <3>1. CASE pc' = [pc EXCEPT ![nCur + 1] = "start"]
      <4>1. Count(pc', IdlePc) = Count(pc, IdlePc)
        BY <1>0, <2>1, <3>1, CountSame DEF IdlePc
      <4>2. Count(pc', PermitPc) = Count(pc, PermitPc)
        BY <1>0, <2>1, <3>1, CountSame DEF PermitPc
      <4> QED
        BY <4>1, <4>2
    <3>2. CASE pc' = pc
      BY <3>2
    <3> QED
      BY <1>5, <3>1, <3>2 DEF AddCreate
  <2>5. IdleCounterExact' /\ PermitsMatchQueue'
    BY <1>0, <1>5, <1>f, <2>4 DEF AddCreate, TypeOK
  <2>6. PopFindsTask' /\ NoUseAfterFree'
    BY <1>0, <1>5, <2>1 DEF AddCreate, PopFindsTask, NoUseAfterFree
  <2> QED
    BY <2>2, <2>3, <2>5, <2>6
<1>6. CASE DestroySignal
  <2>1. TypeOK' /\ Shape'
    BY <1>6 DEF DestroySignal, TypeOK, Shape, OwnerPc
  <2>2. IdleCounterExact' /\ PermitsMatchQueue'
    BY <1>0, <1>6, <1>f DEF DestroySignal, TypeOK
  <2>3. PopFindsTask' /\ NoUseAfterFree'
    BY <1>6 DEF DestroySignal, PopFindsTask, NoUseAfterFree
  <2> QED
    BY <2>1, <2>2, <2>3
<1>7. CASE DestroyJoin
  <2>1. TypeOK' /\ Shape'
    BY <1>7 DEF DestroyJoin, TypeOK, Shape, OwnerPc
  <2>2. IdleCounterExact' /\ PermitsMatchQueue'
    BY <1>0, <1>7, <1>f DEF DestroyJoin, TypeOK
  <2>3. PopFindsTask'
    BY <1>7 DEF DestroyJoin, PopFindsTask
  <2>4. NoUseAfterFree'
    BY <1>7 DEF DestroyJoin, Joined, Shape, NoUseAfterFree, TypeOK, Threads
  <2> QED
    BY <2>1, <2>2, <2>3, <2>4
<1>8. CASE DestroyAbort
  <2>1. TypeOK' /\ Shape'
    BY <1>8 DEF DestroyAbort, TypeOK, Shape, OwnerPc
  <2>2. IdleCounterExact' /\ PermitsMatchQueue'
    BY <1>0, <1>8, <1>f DEF DestroyAbort, TypeOK
  <2>3. PopFindsTask' /\ NoUseAfterFree'
    BY <1>8 DEF DestroyAbort, PopFindsTask, NoUseAfterFree
  <2> QED
    BY <2>1, <2>2, <2>3
<1>9. CASE DestroyFree
  <2>1. TypeOK' /\ Shape'
    BY <1>9 DEF DestroyFree, TypeOK, Shape, OwnerPc
  <2>2. IdleCounterExact' /\ PermitsMatchQueue'
    BY <1>0, <1>9, <1>f DEF DestroyFree, TypeOK
  <2>3. PopFindsTask' /\ NoUseAfterFree'
    BY <1>9 DEF DestroyFree, PopFindsTask, NoUseAfterFree
  <2> QED
    BY <2>1, <2>2, <2>3
<1>10. ASSUME NEW t \in Threads, IncIdle(t) PROVE PoolInv'
  <2>1. /\ Count(pc', IdlePc) = Count(pc, IdlePc) + 1
        /\ Count(pc', PermitPc) = Count(pc, PermitPc)
    <3>1. Count(pc', IdlePc) = Count(pc, IdlePc) + 1
      BY <1>0, <1>10, CountIn DEF IncIdle, IdlePc
    <3>2. Count(pc', PermitPc) = Count(pc, PermitPc)
      BY <1>0, <1>10, CountSame DEF IncIdle, PermitPc
    <3> QED
      BY <3>1, <3>2
  <2>2. IdleCounterExact' /\ PermitsMatchQueue'
    BY <1>0, <1>10, <1>f, <2>1 DEF IncIdle, TypeOK
  <2>3. Count(pc', IdlePc) \in 0 .. MaxThreads
    BY CountBound
  <2>4. TypeOK' /\ Shape'
    BY <1>0, <1>10, <2>1, <2>3 DEF IncIdle, TypeOK, Shape, ThreadPc
  <2>5. PopFindsTask' /\ NoUseAfterFree'
    BY <1>0, <1>10 DEF IncIdle, PopFindsTask, NoUseAfterFree
  <2> QED
    BY <2>2, <2>4, <2>5
<1>11. ASSUME NEW t \in Threads, WaitQuit(t) PROVE PoolInv'
  <2>1. /\ Count(pc', IdlePc) = Count(pc, IdlePc)
        /\ Count(pc', PermitPc) = Count(pc, PermitPc)
    <3>1. Count(pc', IdlePc) = Count(pc, IdlePc)
      BY <1>0, <1>11, CountSame DEF WaitQuit, IdlePc
    <3>2. Count(pc', PermitPc) = Count(pc, PermitPc)
      BY <1>0, <1>11, CountSame DEF WaitQuit, PermitPc
    <3> QED
      BY <3>1, <3>2
  <2>2. IdleCounterExact' /\ PermitsMatchQueue'
    BY <1>0, <1>11, <1>f, <2>1 DEF WaitQuit, TypeOK
  <2>3. TypeOK' /\ Shape'
    BY <1>0, <1>11 DEF WaitQuit, TypeOK, Shape, ThreadPc
  <2>4. PopFindsTask' /\ NoUseAfterFree'
    BY <1>0, <1>11 DEF WaitQuit, PopFindsTask, NoUseAfterFree
  <2> QED
    BY <2>2, <2>3, <2>4
<1>12. ASSUME NEW t \in Threads, WaitTask(t) PROVE PoolInv'
  <2>1. /\ Count(pc', IdlePc) = Count(pc, IdlePc)
        /\ Count(pc', PermitPc) = Count(pc, PermitPc) + 1
    <3>1. Count(pc', IdlePc) = Count(pc, IdlePc)
      BY <1>0, <1>12, CountSame DEF WaitTask, IdlePc
    <3>2. Count(pc', PermitPc) = Count(pc, PermitPc) + 1
      BY <1>0, <1>12, CountIn DEF WaitTask, PermitPc
    <3> QED
      BY <3>1, <3>2
  <2>2. IdleCounterExact' /\ PermitsMatchQueue'
    BY <1>0, <1>12, <1>f, <2>1 DEF WaitTask, TypeOK
  <2>3. TypeOK' /\ Shape'
    BY <1>0, <1>12 DEF WaitTask, TypeOK, Shape, ThreadPc
  <2>4. PopFindsTask' /\ NoUseAfterFree'
    BY <1>0, <1>12 DEF WaitTask, PopFindsTask, NoUseAfterFree
  <2> QED
    BY <2>2, <2>3, <2>4
<1>13. ASSUME NEW t \in Threads, DecIdle(t) PROVE PoolInv'
  <2>1. /\ Count(pc', IdlePc) = Count(pc, IdlePc) - 1
        /\ Count(pc', PermitPc) = Count(pc, PermitPc)
    <3>1. Count(pc', IdlePc) = Count(pc, IdlePc) - 1
      <4>1. pc[t] \in IdlePc /\ "enter" \notin IdlePc /\ pc' = [pc EXCEPT ![t] = "enter"]
        BY <1>13 DEF DecIdle, IdlePc
      <4> QED
        BY <1>0, <4>1, CountOut
    <3>2. Count(pc', PermitPc) = Count(pc, PermitPc)
      BY <1>0, <1>13, CountSame DEF DecIdle, PermitPc
    <3> QED
      BY <3>1, <3>2
  <2>2. IdleCounterExact' /\ PermitsMatchQueue'
    BY <1>0, <1>13, <1>f, <2>1 DEF DecIdle, TypeOK
  <2>3. Count(pc', IdlePc) \in 0 .. MaxThreads
    BY CountBound
  <2>4. TypeOK' /\ Shape'
    BY <1>0, <1>13, <2>1, <2>3 DEF DecIdle, TypeOK, Shape, ThreadPc
  <2>5. PopFindsTask' /\ NoUseAfterFree'
    BY <1>0, <1>13 DEF DecIdle, PopFindsTask, NoUseAfterFree
  <2> QED
    BY <2>2, <2>4, <2>5
<1>14. ASSUME NEW t \in Threads, Pop(t) PROVE PoolInv'
  <2>1. /\ Count(pc', IdlePc) = Count(pc, IdlePc)
        /\ Count(pc', PermitPc) = Count(pc, PermitPc) - 1
    <3>1. Count(pc', IdlePc) = Count(pc, IdlePc)
      BY <1>0, <1>14, CountSame DEF Pop, IdlePc
    <3>2. Count(pc', PermitPc) = Count(pc, PermitPc) - 1
      <4>1. pc[t] \in PermitPc /\ "exec" \notin PermitPc /\ pc' = [pc EXCEPT ![t] = "exec"]
        BY <1>14 DEF Pop, PermitPc
      <4> QED
        BY <1>0, <4>1, CountOut
    <3> QED
      BY <3>1, <3>2
  <2>2. /\ Len(queue') = Len(queue) - 1
        /\ queue' \in Seq(Tasks)
        /\ Head(queue) \in Tasks
    BY <1>14 DEF Pop, TypeOK
  <2>3. IdleCounterExact' /\ PermitsMatchQueue'
    BY <1>0, <1>14, <1>f, <2>1, <2>2 DEF Pop, CsFree, TypeOK
  <2>4. TypeOK' /\ Shape'
    BY <1>0, <1>14, <2>2 DEF Pop, TypeOK, Shape, ThreadPc
  <2>5. PopFindsTask' /\ NoUseAfterFree'
    BY <1>0, <1>14 DEF Pop, PopFindsTask, NoUseAfterFree
  <2> QED
    BY <2>3, <2>4, <2>5
<1>15. ASSUME NEW t \in Threads, PopEmpty(t) PROVE PoolInv'
  <2>1. Count(pc, PermitPc) >= 1
    BY <1>0, <1>15, CountPositive DEF PopEmpty, PermitPc
  <2>2. Len(queue) = 0
    BY <1>15 DEF PopEmpty
  <2>3. owner \in {"abort", "freed"}
    BY <1>0, <1>15, <2>1, <2>2 DEF PopEmpty, CsFree, TypeOK
  <2>4. failed # {}
    BY <1>15, <2>3 DEF PopEmpty, NoUseAfterFree
  <2>5. Count(pc', IdlePc) = Count(pc, IdlePc)
    BY <1>0, <1>15, CountSame DEF PopEmpty, IdlePc
  <2>6. IdleCounterExact' /\ PermitsMatchQueue'
    BY <1>0, <1>15, <1>f, <2>3, <2>5 DEF PopEmpty
  <2>7. TypeOK' /\ Shape'
    BY <1>0, <1>15 DEF PopEmpty, TypeOK, Shape, ThreadPc
  <2>8. PopFindsTask' /\ NoUseAfterFree'
    BY <1>15, <2>4 DEF PopEmpty, PopFindsTask, NoUseAfterFree
  <2> QED
    BY <2>6, <2>7, <2>8
<1>16. ASSUME NEW t \in Threads, Execute(t) PROVE PoolInv'
  <2>1. /\ Count(pc', IdlePc) = Count(pc, IdlePc)
        /\ Count(pc', PermitPc) = Count(pc, PermitPc)
    <3>1. Count(pc', IdlePc) = Count(pc, IdlePc)
      BY <1>0, <1>16, CountSame DEF Execute, IdlePc
    <3>2. Count(pc', PermitPc) = Count(pc, PermitPc)
      BY <1>0, <1>16, CountSame DEF Execute, PermitPc
    <3> QED
      BY <3>1, <3>2
  <2>2. IdleCounterExact' /\ PermitsMatchQueue'
    BY <1>0, <1>16, <1>f, <2>1 DEF Execute, TypeOK
  <2>3. TypeOK' /\ Shape'
    BY <1>0, <1>16 DEF Execute, TypeOK, Shape, ThreadPc
  <2>4. PopFindsTask' /\ NoUseAfterFree'
    BY <1>0, <1>16 DEF Execute, PopFindsTask, NoUseAfterFree
  <2> QED
    BY <2>2, <2>3, <2>4
<1>17. CASE UNCHANGED vars
  <2>1. TypeOK' /\ Shape' /\ PopFindsTask' /\ NoUseAfterFree'
    BY <1>17 DEF vars, TypeOK, Shape, PopFindsTask, NoUseAfterFree
  <2>2. IdleCounterExact' /\ PermitsMatchQueue'
    BY <1>17 DEF vars, IdleCounterExact, PermitsMatchQueue, Permits
  <2> QED
    BY <2>1, <2>2
<1>18. CASE Next
  BY <1>1, <1>2, <1>3, <1>4, <1>5, <1>6, <1>7, <1>8, <1>9, <1>10, <1>11, <1>12,
     <1>13, <1>14, <1>15, <1>16, <1>17, <1>18
     DEF Next, OwnerStep, ThreadProc, Terminated
<1> QED
  BY <1>17, <1>18

-----------------------------------------------------------------------------
(* The theorems. *)

\* The invariant holds in every reachable state.
THEOREM PoolInvariant == Spec => []PoolInv
<1>1. Init => PoolInv
  BY PoolInit
<1>2. PoolInv /\ [Next]_vars => PoolInv'
  BY PoolStep
<1> QED
  BY <1>1, <1>2, PTL DEF Spec

\* Type correctness; in particular the unsigned idle counter of CThreadPool stays
\* within 0 .. m_nMaxThreads.
THEOREM PoolTypeCorrect == Spec => []TypeOK
<1>1. PoolInv => TypeOK
  BY DEF PoolInv
<1> QED
  BY <1>1, PoolInvariant, PTL

\* The semaphore and the task queue of CThreadPool stay balanced, for any number of
\* threads, although AddTask and ThreadProc update them in separate steps.
THEOREM PoolPermitsMatchQueue == Spec => []PermitsMatchQueue
<1>1. PoolInv => PermitsMatchQueue
  BY DEF PoolInv
<1> QED
  BY <1>1, PoolInvariant, PTL

\* The idle counter that AddTask reads without a lock is exact whenever it is read, for
\* any number of threads.
THEOREM PoolIdleCounterExact == Spec => []IdleCounterExact
<1>1. PoolInv => IdleCounterExact
  BY DEF PoolInv
<1> QED
  BY <1>1, PoolInvariant, PTL

\* ThreadProc never calls front() on an empty queue, unless a CreateThread failed.
THEOREM PoolPopFindsTask == Spec => []PopFindsTask
<1>1. PoolInv => PopFindsTask
  BY DEF PoolInv
<1> QED
  BY <1>1, PoolInvariant, PTL

\* ~CThreadPool frees nothing a pool thread may still use, unless a CreateThread
\* failed.
THEOREM PoolNoUseAfterFree == Spec => []NoUseAfterFree
<1>1. PoolInv => NoUseAfterFree
  BY DEF PoolInv
<1> QED
  BY <1>1, PoolInvariant, PTL

-----------------------------------------------------------------------------
(* The pool implements TaskQueue. *)

\* Where tasks can be: only submitted ones are anywhere, and a task is in one place
\* of the queue, about to be pushed, or held by one thread.
Placed ==
  /\ \A i \in DOMAIN queue : queue[i] \in submitted
  /\ owner = "push" => adding \in submitted
  /\ \A t \in Threads : held[t] \in Tasks => held[t] \in submitted
  /\ \A k \in Tasks : runs[k] > 0 => k \in submitted
  /\ dropped \cup aborted \subseteq submitted
  /\ \A i, j \in DOMAIN queue : queue[i] = queue[j] => i = j
  /\ \A i \in DOMAIN queue : \A t \in Threads : queue[i] # held[t]
  /\ owner = "push" => \A i \in DOMAIN queue : queue[i] # adding
  /\ owner = "push" => \A t \in Threads : held[t] # adding
  /\ \A t, u \in Threads : held[t] \in Tasks /\ held[t] = held[u] => t = u

\* Every step keeps tasks apart.
LEMMA PlacedStep == PoolInv /\ Placed /\ [Next]_vars => Placed'
<1> SUFFICES ASSUME PoolInv, Placed, [Next]_vars PROVE Placed'
  OBVIOUS
<1> USE PoolAssumption
<1>0. TypeOK /\ Shape
  BY DEF PoolInv
<1>1. ASSUME NEW k \in Tasks, AddRelease(k) PROVE Placed'
  BY <1>0, <1>1 DEF AddRelease, Placed, TypeOK
<1>2. ASSUME NEW k \in Tasks, AddDrop(k) PROVE Placed'
  BY <1>0, <1>2 DEF AddDrop, Placed, TypeOK
<1>3. CASE AddPush
  <2>1. /\ DOMAIN queue' = 1 .. Len(queue) + 1
        /\ DOMAIN queue = 1 .. Len(queue)
        /\ \A i \in 1 .. Len(queue) : queue'[i] = queue[i]
        /\ queue'[Len(queue) + 1] = adding
        /\ Len(queue) \in Nat
    BY <1>0, <1>3 DEF AddPush, TypeOK, Shape
  <2> QED
    BY <1>0, <1>3, <2>1 DEF AddPush, Placed, TypeOK
<1>4. CASE AddCheck \/ AddCreate \/ DestroySignal \/ DestroyJoin \/ DestroyFree \/ UNCHANGED vars
  BY <1>4 DEF AddCheck, AddCreate, DestroySignal, DestroyJoin, DestroyFree, vars, Placed
<1>5. ASSUME queue # <<>>
      PROVE  /\ DOMAIN queue = 1 .. Len(queue)
             /\ DOMAIN Tail(queue) = 1 .. Len(queue) - 1
             /\ \A i \in DOMAIN Tail(queue) : Tail(queue)[i] = queue[i + 1]
             /\ Head(queue) = queue[1]
             /\ Len(queue) \in Nat \ {0}
             /\ Head(queue) \in Tasks
  BY <1>0, <1>5 DEF TypeOK
<1>6. CASE DestroyAbort
  BY <1>0, <1>5, <1>6 DEF DestroyAbort, Placed
<1>7. ASSUME NEW t \in Threads, Pop(t) PROVE Placed'
  <2> DEFINE n == Len(queue)
  <2>1. /\ n \in Nat \ {0} /\ DOMAIN queue = 1 .. n /\ DOMAIN queue' = 1 .. n - 1
        /\ \A i \in 1 .. n - 1 : queue'[i] = queue[i + 1]
        /\ queue[1] \in Tasks
    BY <1>5, <1>7 DEF Pop
  <2>2. /\ held'[t] = queue[1]
        /\ \A u \in Threads : u # t => held'[u] = held[u]
        /\ UNCHANGED <<owner, adding, submitted, runs, dropped, aborted>>
    BY <1>0, <1>5, <1>7 DEF Pop, TypeOK
  <2> HIDE DEF n
  <2>3. 1 \in 1 .. n /\ \A i \in 1 .. n - 1 : i + 1 \in 1 .. n /\ i + 1 # 1
    BY <2>1
  <2>4. \A i, j \in 1 .. n - 1 : i + 1 = j + 1 => i = j
    BY <2>1
  <2>5. \A i \in 1 .. n - 1 :
          /\ queue'[i] \in submitted /\ queue'[i] # queue[1]
          /\ owner = "push" => queue'[i] # adding
          /\ \A u \in Threads : queue'[i] # held[u]
    <3> SUFFICES ASSUME NEW i \in 1 .. n - 1
                 PROVE  /\ queue[i + 1] \in submitted /\ queue[i + 1] # queue[1]
                        /\ owner = "push" => queue[i + 1] # adding
                        /\ \A u \in Threads : queue[i + 1] # held[u]
      BY <2>1
    <3>1. i + 1 \in DOMAIN queue /\ 1 \in DOMAIN queue /\ i + 1 # 1
      BY <2>1, <2>3
    <3> QED
      BY <3>1, Zenon DEF Placed
  <2>6. ASSUME NEW i \in 1 .. n - 1, NEW j \in 1 .. n - 1, queue'[i] = queue'[j] PROVE i = j
    <3>1. i + 1 \in DOMAIN queue /\ j + 1 \in DOMAIN queue /\ queue[i + 1] = queue[j + 1]
      BY <2>1, <2>3, <2>6
    <3>2. i + 1 = j + 1
      BY <3>1, Zenon DEF Placed
    <3> QED
      BY <2>4, <3>2
  <2>7. /\ queue[1] \in submitted /\ (owner = "push" => queue[1] # adding)
        /\ \A u \in Threads : queue[1] # held[u]
    BY <2>1, <2>3 DEF Placed
  <2> QED
    BY <2>1, <2>2, <2>5, <2>6, <2>7 DEF Placed
<1>8. ASSUME NEW t \in Threads, Execute(t) PROVE Placed'
  BY <1>0, <1>8 DEF Execute, Placed, TypeOK, Shape
<1>9. ASSUME NEW t \in Threads,
             IncIdle(t) \/ WaitQuit(t) \/ WaitTask(t) \/ DecIdle(t) \/ PopEmpty(t)
      PROVE  Placed'
  BY <1>9 DEF IncIdle, WaitQuit, WaitTask, DecIdle, PopEmpty, Placed
<1> QED
  BY <1>1, <1>2, <1>3, <1>4, <1>6, <1>7, <1>8, <1>9
     DEF Next, OwnerStep, ThreadProc, Terminated

\* The constructed pool is an empty abstract queue.
LEMMA RefineInit == Init => TQ!Init /\ Placed
BY PoolAssumption DEF Init, TQ!Init, Placed, Threads

\* Every step of the pool is a step of the abstract queue or leaves it alone.
LEMMA RefineStep == PoolInv /\ Placed /\ [Next]_vars => [TQ!Next]_(TQ!vars)
<1> SUFFICES ASSUME PoolInv, Placed, [Next]_vars PROVE [TQ!Next]_(TQ!vars)
  OBVIOUS
<1> USE PoolAssumption
<1> DEFINE pend == IF owner = "push" THEN Append(queue, adding) ELSE queue
           run  == {k \in Tasks : \E t \in Threads : held[t] = k}
           fin  == {k \in Tasks : runs[k] > 0}
           gone == dropped \cup aborted
<1>0. TypeOK /\ Shape
  BY DEF PoolInv
<1>s. ASSUME UNCHANGED <<pend, run, fin, gone>> PROVE UNCHANGED TQ!vars
  BY <1>s DEF TQ!vars
<1>k. ASSUME NEW k \in Tasks, k \notin submitted, owner = "idle"
      PROVE  k \notin TQ!Known
  BY <1>0, <1>k DEF TQ!Known, Placed, TypeOK
<1>1. ASSUME NEW k \in Tasks, AddRelease(k) PROVE TQ!Accept(k)
  <2>1. pend' = Append(pend, k)
    BY <1>1 DEF AddRelease
  <2>2. run' = run /\ fin' = fin /\ gone' = gone
    BY <1>1 DEF AddRelease
  <2> QED
    BY <1>1, <1>k, <2>1, <2>2 DEF TQ!Accept, AddRelease
<1>2. ASSUME NEW k \in Tasks, AddDrop(k) PROVE TQ!Drop(k)
  <2>1. pend' = pend /\ run' = run /\ fin' = fin /\ gone' = gone \cup {k}
    BY <1>2 DEF AddDrop
  <2>2. Len(pend) >= SemMax
    <3>1. sem + Cardinality(Permits) = Len(queue)
      BY <1>2 DEF AddDrop, PoolInv, PermitsMatchQueue
    <3>2. Cardinality(Permits) \in Nat
      <4>1. Count(pc, PermitPc) \in 0 .. MaxThreads
        BY CountBound
      <4> QED
        BY <4>1 DEF Count, Permits, PermitPc
    <3> QED
      BY <1>0, <1>2, <3>1, <3>2 DEF AddDrop, TypeOK
  <2> QED
    BY <1>2, <1>k, <2>1, <2>2 DEF TQ!Drop, AddDrop
<1>3. CASE AddPush
  BY <1>3, <1>s DEF AddPush
<1>4. CASE AddCheck \/ AddCreate \/ DestroySignal \/ DestroyJoin \/ DestroyFree \/ UNCHANGED vars
  <2>1. UNCHANGED <<queue, adding, held, runs, dropped, aborted>> /\ pend' = pend
    BY <1>4 DEF AddCheck, AddCreate, DestroySignal, DestroyJoin, DestroyFree, vars
  <2> QED
    BY <2>1, <1>s
<1>5. CASE DestroyAbort
  <2>1. pend = queue /\ pend' = Tail(queue) /\ run' = run /\ fin' = fin
        /\ gone' = gone \cup {Head(queue)}
    BY <1>5 DEF DestroyAbort
  <2> QED
    BY <1>5, <2>1 DEF TQ!Abort, DestroyAbort, TQ!Next
<1>6. ASSUME NEW t \in Threads, Pop(t) PROVE TQ!Start
  <2>1. pend = queue /\ pend' = Tail(queue) /\ fin' = fin /\ gone' = gone
    BY <1>6 DEF Pop, CsFree
  <2>2. held[t] \notin Tasks /\ Head(queue) \in Tasks
    BY <1>0, <1>6 DEF Pop, TypeOK, Shape
  <2>3. run' = run \cup {Head(queue)}
    BY <1>0, <1>6, <2>2 DEF Pop, TypeOK
  <2> QED
    BY <1>6, <2>1, <2>3 DEF TQ!Start, Pop
<1>7. ASSUME NEW t \in Threads, NEW k \in Tasks, Execute(t), held[t] = k PROVE TQ!Finish(k)
  <2>1. pend' = pend /\ gone' = gone
    BY <1>7 DEF Execute
  <2>2. run' = run \ {k} /\ k \in run
    BY <1>0, <1>7 DEF Execute, Placed, TypeOK
  <2>3. fin' = fin \cup {k}
    BY <1>0, <1>7 DEF Execute, TypeOK
  <2> QED
    BY <2>1, <2>2, <2>3 DEF TQ!Finish
<1>8. ASSUME NEW t \in Threads,
             IncIdle(t) \/ WaitQuit(t) \/ WaitTask(t) \/ DecIdle(t) \/ PopEmpty(t)
      PROVE  UNCHANGED TQ!vars
  <2>1. UNCHANGED <<owner, queue, adding, held, runs, dropped, aborted>>
    BY <1>8 DEF IncIdle, WaitQuit, WaitTask, DecIdle, PopEmpty
  <2> QED
    BY <2>1, <1>s
<1>9. ASSUME NEW t \in Threads, Execute(t) PROVE \E k \in Tasks : held[t] = k
  BY <1>0, <1>9 DEF Execute, Shape
<1>10. ASSUME NEW k \in Tasks, AddRelease(k) \/ AddDrop(k) PROVE TQ!Next
  BY <1>1, <1>2, <1>10 DEF TQ!Next
<1>11. ASSUME NEW t \in Threads, Pop(t) \/ Execute(t) PROVE TQ!Next
  <2>1. CASE Pop(t)
    BY <1>6, <2>1 DEF TQ!Next
  <2>2. CASE Execute(t)
    <3>1. PICK k \in Tasks : held[t] = k
      BY <1>9, <2>2
    <3>2. TQ!Finish(k)
      BY <1>7, <2>2, <3>1
    <3> QED
      BY <3>2 DEF TQ!Next
  <2> QED
    BY <1>11, <2>1, <2>2
<1>12. CASE DestroyAbort
  BY <1>5, <1>12 DEF TQ!Next
<1> QED
  BY <1>3, <1>4, <1>8, <1>10, <1>11, <1>12 DEF Next, OwnerStep, ThreadProc, Terminated

\* CThreadPool implements the bounded FIFO queue: for any number of threads, tasks
\* start in the order of AddTask, none is run twice or run and aborted, and none is
\* dropped while fewer tasks than the semaphore's maximum are pending.
THEOREM PoolImplementsTaskQueue == Spec => ImplementsTaskQueue
<1>1. Init => TQ!Init /\ Placed
  BY RefineInit
<1>2. PoolInv /\ Placed /\ [Next]_vars => Placed'
  BY PlacedStep
<1>3. PoolInv /\ Placed /\ [Next]_vars => [TQ!Next]_(TQ!vars)
  BY RefineStep
<1> QED
  BY <1>1, <1>2, <1>3, PoolInvariant, PTL DEF Spec, ImplementsTaskQueue, TQ!Spec
=============================================================================
