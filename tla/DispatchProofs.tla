---------------------------- MODULE DispatchProofs ----------------------------
(***************************************************************************)
(* Dispatch's safety properties for any number of clients and any sizes of *)
(* requests and packets, provided the pool holds a task of every client.   *)
(***************************************************************************)
EXTENDS Dispatch, FiniteSetTheorems, SequenceTheorems, TLAPS

\* The receive thread only pushes while something is left of its packet.
Pushing == recvPc = "write" => left >= 1

\* Nobody changes the status between the two halves of Select.
TakeSees == mainPc = "take" => status[cur] = 1

\* The tasks in the pool.
InPool == running \cup {pending[i] : i \in DOMAIN pending}

\* A task is in the pool once.
Distinct ==
  /\ \A i, j \in DOMAIN pending : pending[i] = pending[j] => i = j
  /\ \A i \in DOMAIN pending : pending[i] \notin running

\* ExclusiveService without cardinalities.
Owned ==
  \A c \in Clients :
    /\ status[c] = 2 => (MainServes(c) <=> Active(c) = {})
    /\ status[c] # 2 => ~ MainServes(c) /\ Active(c) = {}
    /\ \A k, m \in Active(c) : k = m

Service == TakeSees /\ Distinct /\ Owned

-----------------------------------------------------------------------------
(* Types. *)

\* A packet is not empty.
LEMMA PacketNotEmpty ==
  ASSUME NEW pos \in Nat PROVE PacketLen(pos) \in Nat \ {0}
<1>1. /\ Header \in Nat \ {0} /\ Body \in Nat \ {0} /\ DataLen \in Nat \ {0}
      /\ RequestLen = Header + Body
  BY DispatchAssumption DEF RequestLen
<1>2. RequestLen \in Nat \ {0}
  BY <1>1
<1> DEFINE offset == pos % RequestLen
<1>3. offset \in 0 .. RequestLen - 1
  BY <1>2
<1> HIDE DEF offset
<1>4. (IF offset < Header THEN Header
       ELSE IF RequestLen - offset < DataLen THEN RequestLen - offset ELSE DataLen) \in Nat \ {0}
  BY <1>1, <1>2, <1>3
<1> QED
  BY <1>4 DEF PacketLen, offset

\* What Poll keeps is a number.
LEMMA PollSees ==
  ASSUME TypeOK, NEW want \in Int, Poll(want)
  PROVE  seen' \in Int /\ short' \in BOOLEAN
<1>1. GetSize(cur) \in Int /\ GetSize(cur) > 0
  BY DEF TypeOK, GetSize, Poll
<1>2. seen' \in Int
  BY <1>1 DEF Poll
<1>3. short' = (short \/ GetSize(cur) < want)
  BY DEF Poll
<1>4. short' \in BOOLEAN
  BY <1>3, Zenon DEF TypeOK
<1> QED
  BY <1>2, <1>4

\* The receive thread keeps the types.
LEMMA TypeReceiver ==
  ASSUME TypeOK, Pushing, RecvThread PROVE TypeOK' /\ Pushing'
<1>1. ASSUME NEW c \in Clients, PacketArrives(c) PROVE TypeOK' /\ Pushing'
  <2>1. left' \in Nat \ {0}
    BY <1>1, PacketNotEmpty DEF PacketArrives, TypeOK
  <2>2. Pushing'
    BY <2>1 DEF Pushing
  <2>3. recvPc' \in {"idle", "write", "status"} /\ recvConn' \in Clients /\ left' \in Nat
    BY <1>1, <2>1 DEF PacketArrives
  <2> QED
    BY <1>1, <2>2, <2>3 DEF PacketArrives, TypeOK, mainVars, poolVars, taskVars
<1>2. CASE WriteByte
  <2>1. left \in Nat /\ left >= 1 /\ wr \in [Clients -> Nat] /\ recvConn \in Clients
    BY <1>2 DEF WriteByte, TypeOK, Pushing
  <2>2. wr' \in [Clients -> Nat]
    BY <1>2, <2>1 DEF WriteByte
  <2>3. left' \in Nat /\ recvPc' \in {"idle", "write", "status"} /\ Pushing'
    BY <1>2, <2>1 DEF WriteByte, Pushing
  <2> QED
    BY <1>2, <2>2, <2>3 DEF WriteByte, TypeOK, mainVars, poolVars, taskVars
<1>3. CASE SetStatus
  <2>1. status' \in [Clients -> {0, 1, 2}]
    BY <1>3 DEF SetStatus, TypeOK
  <2> QED
    BY <1>3, <2>1 DEF SetStatus, TypeOK, Pushing, mainVars, poolVars, taskVars
<1> QED
  BY <1>1, <1>2, <1>3 DEF RecvThread

\* The main loop keeps the types.
LEMMA TypeMain ==
  ASSUME TypeOK, Pushing, MainLoop PROVE TypeOK' /\ Pushing'
<1>1. ASSUME NEW c \in Clients, SelectSee(c) PROVE TypeOK' /\ Pushing'
  BY <1>1 DEF SelectSee, TypeOK, Pushing, recvVars, poolVars, taskVars
<1>2. CASE SelectTake
  <2>1. status' \in [Clients -> {0, 1, 2}]
    BY <1>2 DEF SelectTake, TypeOK
  <2> QED
    BY <1>2, <2>1 DEF SelectTake, TypeOK, Pushing, recvVars, poolVars, taskVars
<1>3. CASE RecvLenPoll
  <2>1. seen' \in Int /\ short' \in BOOLEAN
    BY <1>3, PollSees, DispatchAssumption DEF RecvLenPoll
  <2> QED
    BY <1>3, <2>1 DEF RecvLenPoll, TypeOK, Pushing, recvVars, poolVars, taskVars
<1>4. CASE RecvSqlPoll
  <2>1. seen' \in Int /\ short' \in BOOLEAN
    BY <1>4, PollSees DEF RecvSqlPoll, TypeOK
  <2> QED
    BY <1>4, <2>1 DEF RecvSqlPoll, TypeOK, Pushing, recvVars, poolVars, taskVars
<1>5. ASSUME ReadSeen PROVE rd' \in [Clients -> Nat] /\ seen \in Nat
  <2>1. seen \in Nat /\ rd \in [Clients -> Nat] /\ cur \in Clients
    BY <1>5 DEF ReadSeen, TypeOK
  <2> QED
    BY <1>5, <2>1 DEF ReadSeen
<1>6. CASE RecvLenRead
  <2>1. nLen' \in Int
    <3>1. Body \in Nat /\ RequestLen \in Nat /\ MaxRequests * RequestLen \in Nat
      BY DispatchAssumption DEF RequestLen
    <3> QED
      BY <1>6, <3>1 DEF RecvLenRead, Decoded
  <2>2. rd' \in [Clients -> Nat]
    BY <1>5, <1>6 DEF RecvLenRead
  <2> QED
    BY <1>6, <2>1, <2>2 DEF RecvLenRead, TypeOK, Pushing, recvVars, poolVars, taskVars
<1>7. CASE RecvSqlRead
  <2>1. sql' \in [from : Nat, size : Nat]
    BY <1>5, <1>7 DEF RecvSqlRead, TypeOK
  <2>2. rd' \in [Clients -> Nat]
    BY <1>5, <1>7 DEF RecvSqlRead
  <2> QED
    BY <1>7, <2>1, <2>2 DEF RecvSqlRead, TypeOK, Pushing, recvVars, poolVars, taskVars
<1>8. CASE AddTask
  <2> DEFINE k == <<cur, TaskNo(cur) + 1>>
  <2>1. k \in TaskIds /\ content' = [content EXCEPT ![k] = sql]
    BY <1>8 DEF AddTask
  <2> HIDE DEF k
  <2>2. content' \in [TaskIds -> [from : Nat, size : Nat]]
    BY <2>1 DEF TypeOK
  <2>3. pending' \in Seq(TaskIds) /\ running' = running /\ done' = done /\ lost' \subseteq TaskIds
    <3>1. pending \in Seq(TaskIds) /\ lost \subseteq TaskIds
      BY DEF TypeOK
    <3>2. CASE Pool!Accept(k)
      <4>1. pending' = Append(pending, k) /\ UNCHANGED <<running, done, lost>>
        BY <3>2 DEF Pool!Accept
      <4> QED
        BY <2>1, <3>1, <4>1
    <3>3. CASE Pool!Drop(k)
      BY <2>1, <3>1, <3>3 DEF Pool!Drop
    <3> QED
      BY <1>8, <3>2, <3>3 DEF AddTask, k
  <2>4. seen' \in Int /\ nLen' \in Int /\ sql' \in [from : Nat, size : Nat]
    BY <1>8 DEF AddTask
  <2> QED
    BY <1>8, <2>2, <2>3, <2>4 DEF AddTask, TypeOK, Pushing, recvVars
<1>9. CASE ReadNegative
  BY <1>9 DEF ReadNegative, TypeOK, Pushing, recvVars, poolVars, taskVars
<1> QED
  BY <1>1, <1>2, <1>3, <1>4, <1>6, <1>7, <1>8, <1>9 DEF MainLoop

\* The pool's threads keep the types.
LEMMA TypeWorker ==
  ASSUME TypeOK, Pushing, Worker PROVE TypeOK' /\ Pushing'
<1>1. CASE StartTask
  <2>1. pending \in Seq(TaskIds) /\ pending # <<>> /\ running \subseteq TaskIds
    BY <1>1 DEF StartTask, TypeOK, Pool!Start
  <2>2. Head(pending) \in TaskIds /\ Tail(pending) \in Seq(TaskIds)
    BY <2>1, HeadTailProperties
  <2>3. pending' \in Seq(TaskIds) /\ running' \subseteq TaskIds /\ done' = done /\ lost' = lost
    BY <1>1, <2>1, <2>2 DEF StartTask, Pool!Start
  <2> QED
    BY <1>1, <2>3 DEF StartTask, TypeOK, Pushing, recvVars, mainVars, taskVars
<1>2. ASSUME NEW k \in TaskIds, Reply(k) PROVE TypeOK' /\ Pushing'
  <2>1. k[1] \in Clients
    BY DEF TaskIds
  <2>2. answered' \in [Clients -> Nat] /\ replied' \subseteq TaskIds
    <3>1. answered \in [Clients -> Nat] /\ replied \subseteq TaskIds
      BY DEF TypeOK
    <3>2. answered' = [answered EXCEPT ![k[1]] = answered[k[1]] + 1] /\ replied' = replied \cup {k}
      BY <1>2 DEF Reply
    <3>3. answered[k[1]] + 1 \in Nat
      BY <2>1, <3>1
    <3> QED
      BY <2>1, <3>1, <3>2, <3>3
  <2> QED
    BY <1>2, <2>2 DEF Reply, TypeOK, Pushing, recvVars, mainVars, poolVars
<1>3. ASSUME NEW k \in TaskIds, UnSelect(k) PROVE TypeOK' /\ Pushing'
  <2>1. k[1] \in Clients
    BY DEF TaskIds
  <2>2. status' \in [Clients -> {0, 1, 2}]
    BY <1>3, <2>1 DEF UnSelect, TypeOK
  <2>3. running' \subseteq TaskIds /\ done' \subseteq TaskIds /\ pending' = pending /\ lost' = lost
    BY <1>3 DEF UnSelect, Pool!Finish, TypeOK
  <2> QED
    BY <1>3, <2>2, <2>3 DEF UnSelect, TypeOK, Pushing, recvVars, mainVars, taskVars
<1> QED
  BY <1>1, <1>2, <1>3 DEF Worker

\* Every step keeps the types.
LEMMA TypeStep == TypeOK /\ Pushing /\ [Next]_vars => TypeOK' /\ Pushing'
<1>1. ASSUME TypeOK, Pushing, UNCHANGED vars PROVE TypeOK' /\ Pushing'
  BY <1>1 DEF TypeOK, Pushing, vars, recvVars, mainVars, poolVars, taskVars
<1> QED
  BY <1>1, TypeReceiver, TypeMain, TypeWorker DEF Next

-----------------------------------------------------------------------------
(* Exclusive service. *)

\* A step that touches neither the pool nor a status, and leaves the main loop where
\* it serves the same client, keeps what Service says of it.
LEMMA ServiceSame ==
  ASSUME Service, UNCHANGED <<status, pending, running>>,
         TakeSees', \A c \in Clients : MainServes(c)' <=> MainServes(c)
  PROVE  Service'
<1>1. ASSUME NEW c \in Clients PROVE Active(c)' = Active(c)
  BY DEF Active
<1>2. Distinct'
  BY DEF Service, Distinct
<1>3. Owned'
  BY <1>1 DEF Service, Owned
<1> QED
  BY <1>2, <1>3 DEF Service

\* When the main loop adds a task the pool has room for it: every other client has at
\* most one task in the pool, and the client being served has none.
LEMMA RoomForTask ==
  ASSUME TypeOK, Service, mainPc = "add" PROVE Len(pending) < Capacity
<1> DEFINE S == DOMAIN pending
           T == Clients \ {cur}
           f == [i \in S |-> pending[i][1]]
<1>1. pending \in Seq(TaskIds) /\ Len(pending) \in Nat /\ S = 1 .. Len(pending) /\ cur \in Clients
  BY LenProperties DEF TypeOK
<1>2. Active(cur) = {}
  BY <1>1 DEF Service, Owned, MainServes
<1>3. ASSUME NEW i \in S
      PROVE  pending[i] \in TaskIds /\ pending[i][1] \in T /\ pending[i] \in Active(pending[i][1])
  <2>1. pending[i] \in TaskIds
    BY <1>1, ElementOfSeq
  <2>2. pending[i][1] \in Clients /\ pending[i] \in Active(pending[i][1])
    BY <2>1 DEF TaskIds, Active
  <2>3. pending[i][1] # cur
    BY <1>2, <2>2
  <2> QED
    BY <2>1, <2>2, <2>3
<1>4. f \in [S -> T]
  BY <1>3
<1>5. ASSUME NEW i \in S, NEW j \in S, f[i] = f[j] PROVE i = j
  <2>1. pending[i] \in Active(f[i]) /\ pending[j] \in Active(f[i]) /\ f[i] \in Clients
    BY <1>3, <1>5
  <2>2. pending[i] = pending[j]
    BY <2>1 DEF Service, Owned
  <2> QED
    BY <2>2 DEF Service, Distinct
<1>6. IsFiniteSet(Clients) /\ Cardinality(Clients) \in Nat
  BY DispatchAssumption, FS_CardinalityType
<1>7. IsFiniteSet(T) /\ Cardinality(T) = Cardinality(Clients) - 1
  BY <1>1, <1>6, FS_RemoveElement
<1>8. IsFiniteSet(S) /\ Cardinality(S) = Len(pending)
  <2>1. /\ IsFiniteSet(1 .. Len(pending))
        /\ Cardinality(1 .. Len(pending)) =
             IF 1 > Len(pending) THEN 0 ELSE Len(pending) - 1 + 1
    BY <1>1, FS_Interval
  <2> QED
    BY <1>1, <2>1
<1>9. ~ (Cardinality(T) < Cardinality(S))
  <2> HIDE DEF S, T, f
  <2> QED
    BY <1>4, <1>5, <1>7, <1>8, FS_PigeonHole
<1> QED
  BY <1>1, <1>6, <1>7, <1>8, <1>9, DispatchAssumption

\* The receive thread reports data only on a connection nobody serves.
LEMMA ServiceReceiver ==
  ASSUME TypeOK, Service, RecvThread PROVE Service'
<1>1. ASSUME NEW c \in Clients, PacketArrives(c) PROVE Service'
  BY <1>1, ServiceSame DEF PacketArrives, Service, TakeSees, MainServes, mainVars, poolVars
<1>2. CASE WriteByte
  BY <1>2, ServiceSame DEF WriteByte, Service, TakeSees, MainServes, mainVars, poolVars
<1>3. CASE SetStatus
  <2>1. UNCHANGED <<mainPc, cur, pending, running>> /\ recvConn \in Clients
    BY <1>3 DEF SetStatus, mainVars, poolVars, TypeOK
  <2>2. ASSUME NEW c \in Clients
        PROVE  /\ status'[c] = 2 <=> status[c] = 2
               /\ status[c] = 1 => status'[c] = 1
    BY <1>3 DEF SetStatus, TypeOK
  <2>3. ASSUME NEW c \in Clients
        PROVE  Active(c)' = Active(c) /\ (MainServes(c)' <=> MainServes(c))
    BY <2>1 DEF Active, MainServes
  <2>4. TakeSees'
    BY <2>1, <2>2 DEF Service, TakeSees, TypeOK
  <2>5. Distinct'
    BY <2>1 DEF Service, Distinct
  <2>6. Owned'
    BY <2>2, <2>3 DEF Service, Owned
  <2> QED
    BY <2>4, <2>5, <2>6 DEF Service
<1> QED
  BY <1>1, <1>2, <1>3 DEF RecvThread

\* Select marks a client nobody serves, and the main loop hands it over to a task.
LEMMA ServiceMain ==
  ASSUME TypeOK, Service, MainLoop PROVE Service'
<1>1. ASSUME NEW c \in Clients, SelectSee(c) PROVE Service'
  <2>1. UNCHANGED <<status, pending, running>> /\ TakeSees'
    BY <1>1 DEF SelectSee, poolVars, TakeSees
  <2>2. ASSUME NEW d \in Clients PROVE MainServes(d)' <=> MainServes(d)
    BY <1>1 DEF SelectSee, MainServes
  <2> QED
    BY <2>1, <2>2, ServiceSame
<1>2. CASE SelectTake
  <2>1. /\ UNCHANGED <<cur, pending, running>> /\ cur \in Clients
        /\ mainPc = "take" /\ mainPc' = "len"
        /\ status' = [status EXCEPT ![cur] = 2] /\ status \in [Clients -> {0, 1, 2}]
    BY <1>2 DEF SelectTake, poolVars, TypeOK
  <2>2. status[cur] = 1
    BY <2>1 DEF Service, TakeSees
  <2>3. ASSUME NEW c \in Clients
        PROVE  Active(c)' = Active(c) /\ (MainServes(c)' <=> c = cur) /\ ~ MainServes(c)
    BY <2>1 DEF Active, MainServes
  <2>4. TakeSees' /\ Distinct'
    BY <2>1 DEF Service, TakeSees, Distinct
  <2>5. Owned'
    <3> SUFFICES ASSUME NEW c \in Clients
                 PROVE  /\ status'[c] = 2 => (MainServes(c)' <=> Active(c)' = {})
                        /\ status'[c] # 2 => ~ MainServes(c)' /\ Active(c)' = {}
                        /\ \A k, m \in Active(c)' : k = m
      BY DEF Owned
    <3>1. CASE c = cur
      BY <2>1, <2>2, <2>3, <3>1 DEF Service, Owned
    <3>2. CASE c # cur
      BY <2>1, <2>3, <3>2 DEF Service, Owned
    <3> QED
      BY <3>1, <3>2
  <2> QED
    BY <2>4, <2>5 DEF Service
<1>3. CASE RecvLenPoll \/ RecvLenRead \/ RecvSqlPoll \/ RecvSqlRead \/ ReadNegative
  <2>1. UNCHANGED <<status, pending, running>> /\ TakeSees'
    BY <1>3 DEF RecvLenPoll, RecvLenRead, RecvSqlPoll, RecvSqlRead, ReadNegative, poolVars, TakeSees
  <2>2. ASSUME NEW d \in Clients PROVE MainServes(d)' <=> MainServes(d)
    BY <1>3 DEF RecvLenPoll, RecvLenRead, RecvSqlPoll, RecvSqlRead, ReadNegative, MainServes
  <2> QED
    BY <2>1, <2>2, ServiceSame
<1>4. CASE AddTask
  <2> DEFINE k == <<cur, TaskNo(cur) + 1>>
  <2>1. /\ mainPc = "add" /\ mainPc' = "select" /\ cur \in Clients /\ k \in TaskIds /\ k[1] = cur
        /\ UNCHANGED <<cur, status>>
    BY <1>4 DEF AddTask, TypeOK
  <2>2. pending' = Append(pending, k) /\ running' = running
    <3>1. Len(pending) < Capacity
      BY <2>1, RoomForTask
    <3> QED
      BY <1>4, <3>1 DEF AddTask, Pool!Accept
  <2> HIDE DEF k
  <2>3. Active(cur) = {} /\ status[cur] = 2
    BY <2>1 DEF Service, Owned, MainServes
  <2>4. /\ pending \in Seq(TaskIds) /\ Len(pending) \in Nat
        /\ DOMAIN pending = 1 .. Len(pending) /\ DOMAIN pending' = 1 .. Len(pending) + 1
        /\ pending'[Len(pending) + 1] = k
        /\ \A i \in DOMAIN pending : pending'[i] = pending[i]
    <3>1. pending \in Seq(TaskIds) /\ k \in TaskIds
      BY <2>1 DEF TypeOK
    <3> HIDE DEF TypeOK
    <3> QED
      BY <2>2, <3>1, AppendProperties, LenProperties
  <2>5. k \notin running /\ \A i \in DOMAIN pending : pending[i] # k
    BY <2>1, <2>3 DEF Active
  <2>6. InPool' = InPool \cup {k}
    BY <2>2, <2>4 DEF InPool
  <2>7. ASSUME NEW c \in Clients
        PROVE  Active(c)' = IF c = cur THEN {k} ELSE Active(c)
    <3>1. Active(c)' = {m \in InPool' : m[1] = c} /\ Active(c) = {m \in InPool : m[1] = c}
      BY DEF Active, InPool
    <3>2. CASE c = cur
      <4>1. {m \in InPool : m[1] = c} = {}
        BY <2>3, <3>1, <3>2
      <4> QED
        BY <2>1, <2>6, <3>1, <3>2, <4>1
    <3>3. CASE c # cur
      BY <2>1, <2>6, <3>1, <3>3
    <3> QED
      BY <3>2, <3>3
  <2>8. Distinct'
    BY <2>2, <2>4, <2>5 DEF Service, Distinct
  <2>9. TakeSees'
    BY <2>1 DEF TakeSees
  <2>10. Owned'
    <3> SUFFICES ASSUME NEW c \in Clients
                 PROVE  /\ status'[c] = 2 => (MainServes(c)' <=> Active(c)' = {})
                        /\ status'[c] # 2 => ~ MainServes(c)' /\ Active(c)' = {}
                        /\ \A m, n \in Active(c)' : m = n
      BY DEF Owned
    <3>1. ~ MainServes(c)' /\ status'[c] = status[c]
      BY <2>1 DEF MainServes
    <3>2. CASE c = cur
      BY <2>3, <2>7, <3>1, <3>2
    <3>3. CASE c # cur
      <4>1. ~ MainServes(c) /\ Active(c)' = Active(c)
        BY <2>7, <3>3 DEF MainServes
      <4> QED
        BY <3>1, <4>1 DEF Service, Owned
    <3> QED
      BY <3>2, <3>3
  <2> QED
    BY <2>8, <2>9, <2>10 DEF Service
<1> QED
  BY <1>1, <1>2, <1>3, <1>4 DEF MainLoop

\* A task keeps its client from Start to UnSelect, and is the only one that does.
LEMMA ServiceWorker ==
  ASSUME TypeOK, Service, Worker PROVE Service'
<1>1. CASE StartTask
  <2>1. /\ pending # <<>> /\ pending' = Tail(pending) /\ running' = running \cup {Head(pending)}
        /\ UNCHANGED <<status, mainPc, cur>>
    BY <1>1 DEF StartTask, Pool!Start, mainVars
  <2>2. pending \in Seq(TaskIds) /\ Len(pending) \in Nat \ {0} /\ DOMAIN pending = 1 .. Len(pending)
    BY <2>1, LenProperties, EmptySeq DEF TypeOK
  <2>3. /\ Head(pending) = pending[1] /\ DOMAIN pending' = 1 .. Len(pending) - 1
        /\ \A i \in 1 .. Len(pending) - 1 : pending'[i] = pending[i + 1]
    BY <2>1, <2>2, HeadTailProperties
  <2>4. InPool' = InPool
    <3>1. ASSUME NEW i \in DOMAIN pending PROVE pending[i] \in InPool'
      <4>1. CASE i = 1
        BY <2>1, <2>3, <4>1 DEF InPool
      <4>2. CASE i # 1
        <5>1. i - 1 \in DOMAIN pending' /\ pending'[i - 1] = pending[i]
          BY <2>2, <2>3, <4>2
        <5> QED
          BY <5>1 DEF InPool
      <4> QED
        BY <4>1, <4>2
    <3>2. ASSUME NEW i \in DOMAIN pending' PROVE pending'[i] \in InPool
      <4>1. i + 1 \in DOMAIN pending /\ pending'[i] = pending[i + 1]
        BY <2>2, <2>3
      <4> QED
        BY <4>1 DEF InPool
    <3>3. running \subseteq InPool' /\ running' \subseteq InPool
      BY <2>1, <2>2, <2>3 DEF InPool
    <3> QED
      BY <3>1, <3>2, <3>3 DEF InPool
  <2>5. ASSUME NEW c \in Clients
        PROVE  Active(c)' = Active(c) /\ (MainServes(c)' <=> MainServes(c))
    BY <2>1, <2>4 DEF Active, InPool, MainServes
  <2>6. Distinct'
    <3>1. ASSUME NEW i \in DOMAIN pending', NEW j \in DOMAIN pending', pending'[i] = pending'[j]
          PROVE  i = j
      <4>1. i + 1 \in DOMAIN pending /\ j + 1 \in DOMAIN pending /\ pending[i + 1] = pending[j + 1]
        BY <2>2, <2>3, <3>1
      <4>2. i + 1 = j + 1
        BY <4>1 DEF Service, Distinct
      <4> QED
        BY <2>2, <2>3, <4>2
    <3>2. ASSUME NEW i \in DOMAIN pending' PROVE pending'[i] \notin running'
      <4>1. 1 \in DOMAIN pending /\ i + 1 \in DOMAIN pending /\ pending'[i] = pending[i + 1] /\ i + 1 # 1
        BY <2>2, <2>3
      <4>2. pending[i + 1] # pending[1] /\ pending[i + 1] \notin running
        BY <4>1 DEF Service, Distinct
      <4> QED
        BY <2>1, <2>3, <4>1, <4>2
    <3> QED
      BY <3>1, <3>2 DEF Distinct
  <2>7. Owned'
    BY <2>1, <2>5 DEF Service, Owned
  <2>8. TakeSees'
    BY <2>1 DEF Service, TakeSees
  <2> QED
    BY <2>6, <2>7, <2>8 DEF Service
<1>2. ASSUME NEW k \in TaskIds, Reply(k) PROVE Service'
  BY <1>2, ServiceSame DEF Reply, Service, TakeSees, MainServes, mainVars, poolVars
<1>3. ASSUME NEW k \in TaskIds, UnSelect(k) PROVE Service'
  <2> DEFINE d == k[1]
  <2>1. /\ d \in Clients /\ k \in running /\ running' = running \ {k}
        /\ UNCHANGED <<pending, mainPc, cur>> /\ status \in [Clients -> {0, 1, 2}]
    BY <1>3 DEF UnSelect, Pool!Finish, mainVars, TaskIds, TypeOK
  <2>2. status'[d] \in {0, 1} /\ \A c \in Clients \ {d} : status'[c] = status[c]
    BY <1>3, <2>1 DEF UnSelect
  <2>3. k \in Active(d)
    BY <2>1 DEF Active
  <2>4. status[d] = 2 /\ ~ MainServes(d) /\ Active(d) = {k}
    BY <2>1, <2>3 DEF Service, Owned
  <2>5. InPool' = InPool \ {k}
    BY <2>1 DEF InPool, Service, Distinct
  <2>6. ASSUME NEW c \in Clients
        PROVE  Active(c)' = IF c = d THEN {} ELSE Active(c)
    <3>1. Active(c)' = {m \in InPool' : m[1] = c} /\ Active(c) = {m \in InPool : m[1] = c}
      BY DEF Active, InPool
    <3>2. CASE c = d
      BY <2>4, <2>5, <3>1, <3>2
    <3>3. CASE c # d
      BY <2>5, <3>1, <3>3
    <3> QED
      BY <3>2, <3>3
  <2>7. Distinct'
    BY <2>1 DEF Service, Distinct
  <2>8. TakeSees'
    BY <2>1, <2>2, <2>4 DEF Service, TakeSees, TypeOK
  <2>9. Owned'
    <3> HIDE DEF d
    <3> SUFFICES ASSUME NEW c \in Clients
                 PROVE  /\ status'[c] = 2 => (MainServes(c)' <=> Active(c)' = {})
                        /\ status'[c] # 2 => ~ MainServes(c)' /\ Active(c)' = {}
                        /\ \A m, n \in Active(c)' : m = n
      BY DEF Owned
    <3>1. MainServes(c)' <=> MainServes(c)
      BY <2>1 DEF MainServes
    <3>2. CASE c = d
      BY <2>2, <2>4, <2>6, <3>1, <3>2
    <3>3. CASE c # d
      BY <2>2, <2>6, <3>1, <3>3 DEF Service, Owned
    <3> QED
      BY <3>2, <3>3
  <2> QED
    BY <2>7, <2>8, <2>9 DEF Service
<1> QED
  BY <1>1, <1>2, <1>3 DEF Worker

-----------------------------------------------------------------------------
(* No lost wake-up. *)

\* A byte that is pushed before GetSize of UnSelect makes the status 1, one pushed
\* after it is reported by SetStatus.
LEMMA WakeupStep ==
  ASSUME TypeOK, Pushing, NoLostWakeup, [Next]_vars PROVE NoLostWakeup'
<1> SUFFICES ASSUME NEW c \in Clients, GetSize(c)' > 0, status'[c] = 0
             PROVE  recvConn' = c /\ recvPc' \in {"write", "status"}
  BY DEF NoLostWakeup
<1> USE DEF TypeOK
<1>1. ASSUME NEW d \in Clients, PacketArrives(d)
      PROVE  recvConn' = c /\ recvPc' \in {"write", "status"}
  BY <1>1 DEF PacketArrives, NoLostWakeup, GetSize
<1>2. CASE WriteByte
  <2>1. CASE c = recvConn
    BY <1>2, <2>1 DEF WriteByte
  <2>2. CASE c # recvConn
    <3>1. wr'[c] = wr[c] /\ rd'[c] = rd[c] /\ status'[c] = status[c]
      BY <1>2, <2>2 DEF WriteByte
    <3> QED
      BY <2>2, <3>1 DEF NoLostWakeup, GetSize
  <2> QED
    BY <2>1, <2>2
<1>3. CASE SetStatus
  <2>1. wr' = wr /\ rd' = rd /\ recvConn \in Clients
    BY <1>3 DEF SetStatus
  <2>2. status[c] = 0 /\ c # recvConn
    BY <1>3 DEF SetStatus
  <2> QED
    BY <2>1, <2>2 DEF NoLostWakeup, GetSize
<1>4. ASSUME UNCHANGED <<wr, status, recvVars>>, UNCHANGED rd \/ ReadSeen
      PROVE  recvConn' = c /\ recvPc' \in {"write", "status"}
  <2>1. rd'[c] >= rd[c] /\ rd[c] \in Nat /\ rd'[c] \in Nat /\ wr[c] \in Nat
    <3>1. CASE UNCHANGED rd
      BY <3>1
    <3>2. CASE ReadSeen
      <4>1. rd' = [rd EXCEPT ![cur] = rd[cur] + seen]
        BY <3>2 DEF ReadSeen
      <4>2. cur \in Clients /\ seen \in Nat /\ rd \in [Clients -> Nat] /\ wr \in [Clients -> Nat]
        BY <3>2 DEF ReadSeen
      <4>3. rd'[c] = IF c = cur THEN rd[c] + seen ELSE rd[c]
        BY <4>1, <4>2
      <4> QED
        BY <4>2, <4>3
    <3> QED
      BY <1>4, <3>1, <3>2
  <2>2. GetSize(c) > 0
    <3>1. wr[c] - rd'[c] > 0
      BY <1>4 DEF GetSize
    <3>2. \A a, b, d \in Nat : d >= b /\ a - d > 0 => a - b > 0
      OBVIOUS
    <3> QED
      BY <2>1, <3>1, <3>2 DEF GetSize
  <2> QED
    BY <1>4, <2>2 DEF NoLostWakeup, recvVars
<1>5. ASSUME NEW d \in Clients, SelectSee(d)
      PROVE  recvConn' = c /\ recvPc' \in {"write", "status"}
  BY <1>4, <1>5 DEF SelectSee
<1>6. CASE SelectTake
  BY <1>6 DEF SelectTake, NoLostWakeup, GetSize, recvVars
<1>7. CASE RecvLenPoll \/ RecvLenRead \/ RecvSqlPoll \/ RecvSqlRead \/ ReadNegative \/ AddTask
  BY <1>4, <1>7 DEF RecvLenPoll, RecvLenRead, RecvSqlPoll, RecvSqlRead, ReadNegative, AddTask
<1>8. CASE StartTask
  BY <1>4, <1>8 DEF StartTask
<1>9. ASSUME NEW k \in TaskIds, Reply(k)
      PROVE  recvConn' = c /\ recvPc' \in {"write", "status"}
  BY <1>4, <1>9 DEF Reply
<1>10. ASSUME NEW k \in TaskIds, UnSelect(k)
       PROVE  recvConn' = c /\ recvPc' \in {"write", "status"}
  <2>1. wr' = wr /\ rd' = rd /\ UNCHANGED <<recvConn, recvPc>> /\ GetSize(c) > 0
    BY <1>10 DEF UnSelect, recvVars, GetSize
  <2>2. status[c] = 0
    <3>1. status' = [status EXCEPT ![k[1]] = IF GetSize(k[1]) # 0 THEN 1 ELSE 0]
      BY <1>10 DEF UnSelect
    <3>2. CASE k[1] = c
      <4>1. GetSize(c) # 0
        BY <2>1 DEF GetSize
      <4> QED
        BY <3>1, <3>2, <4>1
    <3>3. CASE k[1] # c
      BY <3>1, <3>3
    <3> QED
      BY <3>2, <3>3
  <2> QED
    BY <2>1, <2>2 DEF NoLostWakeup
<1>11. CASE UNCHANGED vars
  BY <1>4, <1>11 DEF vars
<1> QED
  BY <1>1, <1>2, <1>3, <1>5, <1>6, <1>7, <1>8, <1>9, <1>10, <1>11
     DEF Next, RecvThread, MainLoop, Worker

-----------------------------------------------------------------------------
(* Whole requests. *)

TasksOf(c) == {k \in Pool!Known : k[1] = c}

\* The tasks of a client are numbered from 1.
TasksNumbered ==
  \A c \in Clients :
    /\ IsFiniteSet(TasksOf(c)) /\ TaskNo(c) \in Nat
    /\ TasksOf(c) = {<<c, i>> : i \in 1 .. TaskNo(c)}

\* How far the main loop has read into the request it is working on.
Offset(c) ==
  IF cur = c /\ mainPc \in {"sql", "sqlRead"} THEN Header
  ELSE IF cur = c /\ mainPc = "add" THEN RequestLen ELSE 0

\* What the main loop has read stands between two requests, and its locals are
\* those of the request it is working on.
InFrame ==
  /\ \A c \in Clients : rd[c] = TaskNo(c) * RequestLen + Offset(c)
  /\ mainPc = "lenRead" => seen = Header
  /\ mainPc \in {"sql", "sqlRead"} => nLen = Body
  /\ mainPc = "sqlRead" => seen = Body
  /\ mainPc = "add" => sql = [from |-> TaskNo(cur) * RequestLen + Header, size |-> Body]

Framed == TasksNumbered /\ WholeRequests /\ (~ short => InFrame)

\* Products with RequestLen.
LEMMA FrameArithmetic ==
  ASSUME NEW n \in Nat
  PROVE  /\ RequestLen \in Nat \ {0} /\ RequestLen = Header + Body
         /\ n * RequestLen \in Nat
         /\ (n + 1) * RequestLen = n * RequestLen + RequestLen
         /\ (n * RequestLen) % RequestLen = 0
<1>1. RequestLen \in Nat \ {0} /\ RequestLen = Header + Body
  BY DispatchAssumption DEF RequestLen
<1> HIDE DEF RequestLen
<1>2. n * RequestLen \in Nat
  BY <1>1
<1>3. (n + 1) * RequestLen = n * RequestLen + RequestLen
  BY <1>1
<1>4. (n * RequestLen) % RequestLen = 0
  BY <1>1
<1> QED
  BY <1>1, <1>2, <1>3, <1>4

\* Only AddTask makes a task known.
LEMMA KnownSame ==
  ASSUME TypeOK, Next, ~ AddTask PROVE Pool!Known' = Pool!Known /\ content' = content
<1>1. CASE UNCHANGED <<pending, running, done, lost, content>>
  BY <1>1 DEF Pool!Known
<1>2. ASSUME NEW k \in TaskIds, UnSelect(k) PROVE Pool!Known' = Pool!Known /\ content' = content
  <2>1. k \in running /\ running' = running \ {k} /\ done' = done \cup {k} /\ UNCHANGED <<pending, lost, content>>
    BY <1>2 DEF UnSelect, Pool!Finish, taskVars
  <2> QED
    BY <2>1 DEF Pool!Known
<1>3. CASE StartTask
  <2> DEFINE P == {pending[i] : i \in DOMAIN pending}
  <2>1. /\ pending # <<>> /\ pending' = Tail(pending) /\ running' = running \cup {Head(pending)}
        /\ UNCHANGED <<done, lost, content>>
    BY <1>3 DEF StartTask, Pool!Start, taskVars
  <2>2. pending \in Seq(TaskIds) /\ Len(pending) \in Nat \ {0} /\ DOMAIN pending = 1 .. Len(pending)
    BY <2>1, LenProperties, EmptySeq DEF TypeOK
  <2>3. /\ Head(pending) = pending[1] /\ DOMAIN pending' = 1 .. Len(pending) - 1
        /\ \A i \in 1 .. Len(pending) - 1 : pending'[i] = pending[i + 1]
    BY <2>1, <2>2, HeadTailProperties
  <2>4. P = P' \cup {Head(pending)}
    <3>1. ASSUME NEW i \in DOMAIN pending PROVE pending[i] \in P' \cup {Head(pending)}
      <4>1. CASE i = 1
        BY <2>3, <4>1
      <4>2. CASE i # 1
        <5>1. i - 1 \in DOMAIN pending' /\ pending'[i - 1] = pending[i]
          BY <2>2, <2>3, <4>2
        <5> QED
          BY <5>1
      <4> QED
        BY <4>1, <4>2
    <3>2. ASSUME NEW i \in DOMAIN pending' PROVE pending'[i] \in P
      <4>1. i + 1 \in DOMAIN pending /\ pending'[i] = pending[i + 1]
        BY <2>2, <2>3
      <4> QED
        BY <4>1
    <3>3. Head(pending) \in P
      BY <2>2, <2>3
    <3> QED
      BY <3>1, <3>2, <3>3
  <2>5. Pool!Known = P \cup running \cup done \cup lost /\ Pool!Known' = P' \cup running' \cup done' \cup lost'
    BY DEF Pool!Known
  <2> HIDE DEF P
  <2> QED
    BY <2>1, <2>4, <2>5
<1> QED
  BY <1>1, <1>2, <1>3
     DEF Next, RecvThread, MainLoop, Worker, PacketArrives, WriteByte, SetStatus, SelectSee,
         SelectTake, RecvLenPoll, RecvLenRead, RecvSqlPoll, RecvSqlRead, ReadNegative, Reply, poolVars, taskVars

\* A step that makes no task keeps their numbers and contents.
LEMMA FramedSame ==
  ASSUME TypeOK, Framed, Next, ~ AddTask, short => short', ~ short' => InFrame'
  PROVE  Framed'
<1>1. Pool!Known' = Pool!Known /\ content' = content
  BY KnownSame
<1>2. TasksNumbered'
  BY <1>1 DEF Framed, TasksNumbered, TasksOf, TaskNo
<1>3. WholeRequests'
  BY <1>1 DEF Framed, WholeRequests
<1> QED
  BY <1>2, <1>3 DEF Framed

\* A Recv that was not short read what it was asked for.
LEMMA PollWhole ==
  ASSUME TypeOK, NEW want \in Int, Poll(want), ~ short' PROVE ~ short /\ seen' = want
<1>1. ~ short /\ ~ (GetSize(cur) < want)
  BY Zenon DEF Poll
<1> QED
  BY <1>1 DEF Poll

\* The receive thread and the pool's threads read nothing.
LEMMA FramedOthers ==
  ASSUME TypeOK, Framed, RecvThread \/ Worker PROVE Framed'
<1>1. UNCHANGED <<rd, mainPc, cur, seen, nLen, sql, short>>
  BY DEF RecvThread, Worker, PacketArrives, WriteByte, SetStatus, StartTask, Reply, UnSelect, mainVars
<1>2. Next /\ ~ AddTask
  <2>1. ~ AddTask
    BY <1>1 DEF AddTask
  <2> QED
    BY <2>1 DEF Next
<1>3. ASSUME NEW c \in Clients PROVE TaskNo(c)' = TaskNo(c)
  BY <1>2, KnownSame DEF TaskNo
<1>4. ASSUME ~ short' PROVE InFrame'
  <2>1. InFrame
    BY <1>1, <1>4 DEF Framed
  <2>2. cur \in Clients
    BY DEF TypeOK
  <2> QED
    BY <1>1, <1>3, <2>1, <2>2 DEF InFrame, Offset
<1> QED
  BY <1>1, <1>2, <1>4, FramedSame

\* The main loop takes a request off the stream in the order Send put it there.
LEMMA FramedMain ==
  ASSUME TypeOK, Framed, MainLoop PROVE Framed'
<1> DEFINE n == TaskNo(cur)
<1>1. cur \in Clients /\ rd \in [Clients -> Nat] /\ wr \in [Clients -> Nat] /\ seen \in Int /\ nLen \in Int
  BY DEF TypeOK
<1>2. n \in Nat
  BY <1>1 DEF Framed, TasksNumbered
<1>3. /\ RequestLen \in Nat \ {0} /\ RequestLen = Header + Body /\ n * RequestLen \in Nat
      /\ (n + 1) * RequestLen = n * RequestLen + RequestLen
      /\ (n * RequestLen) % RequestLen = 0
  BY <1>2, FrameArithmetic
<1>4. Header \in Nat \ {0} /\ Body \in Nat \ {0}
  BY DispatchAssumption
<1>5. ASSUME ~ AddTask, NEW c \in Clients PROVE TaskNo(c)' = TaskNo(c)
  BY <1>5, KnownSame DEF TaskNo, Next
<1>6. ASSUME NEW c \in Clients, SelectSee(c) PROVE Framed'
  <2>1. ~ AddTask /\ UNCHANGED <<rd, short>> /\ mainPc = "select" /\ mainPc' = "take"
    BY <1>6 DEF SelectSee, AddTask
  <2>2. ASSUME ~ short' PROVE InFrame'
    <3>1. ASSUME NEW d \in Clients PROVE Offset(d) = 0 /\ Offset(d)' = 0
      BY <2>1 DEF Offset
    <3> QED
      BY <1>5, <2>1, <2>2, <3>1 DEF Framed, InFrame
  <2> QED
    BY <2>1, <2>2, FramedSame DEF Next
<1>7. CASE SelectTake
  <2>1. ~ AddTask /\ UNCHANGED <<rd, cur, short>> /\ mainPc = "take" /\ mainPc' = "len"
    BY <1>7 DEF SelectTake, AddTask
  <2>2. ASSUME ~ short' PROVE InFrame'
    <3>1. ASSUME NEW d \in Clients PROVE Offset(d) = 0 /\ Offset(d)' = 0
      BY <2>1 DEF Offset
    <3> QED
      BY <1>5, <2>1, <2>2, <3>1 DEF Framed, InFrame
  <2> QED
    BY <2>1, <2>2, FramedSame DEF Next
<1>8. CASE RecvLenPoll
  <2>1. ~ AddTask /\ UNCHANGED <<rd, cur>> /\ mainPc = "len" /\ mainPc' = "lenRead" /\ Poll(Header)
    BY <1>8 DEF RecvLenPoll, AddTask
  <2>2. ASSUME ~ short' PROVE InFrame'
    <3>1. ASSUME NEW d \in Clients PROVE Offset(d) = 0 /\ Offset(d)' = 0
      BY <2>1 DEF Offset
    <3>2. ~ short /\ seen' = Header
      BY <1>4, <2>1, <2>2, PollWhole
    <3> QED
      BY <1>5, <2>1, <3>1, <3>2 DEF Framed, InFrame
  <2>3. short => short'
    BY <2>1, Zenon DEF Poll
  <2> QED
    BY <2>1, <2>2, <2>3, FramedSame DEF Next
<1>9. CASE RecvLenRead
  <2>1. /\ ~ AddTask /\ UNCHANGED <<cur, seen, short>> /\ mainPc = "lenRead" /\ mainPc' = "sql"
        /\ rd' = [rd EXCEPT ![cur] = rd[cur] + seen] /\ nLen' \in Decoded
    BY <1>9 DEF RecvLenRead, AddTask, ReadSeen
  <2>2. ASSUME ~ short' PROVE InFrame'
    <3>1. InFrame /\ seen = Header
      BY <2>1, <2>2 DEF Framed, InFrame
    <3>2. rd[cur] = n * RequestLen
      BY <1>1, <1>3, <2>1, <3>1 DEF InFrame, Offset
    <3>3. nLen' = Body
      BY <1>3, <2>1, <3>1, <3>2 DEF Decoded
    <3>4. ASSUME NEW d \in Clients PROVE rd'[d] = TaskNo(d)' * RequestLen + Offset(d)'
      <4>1. CASE d = cur
        <5>1. rd'[d] = n * RequestLen + Header /\ Offset(d)' = Header
          BY <1>1, <2>1, <3>1, <3>2, <4>1 DEF Offset
        <5> QED
          BY <1>5, <2>1, <4>1, <5>1
      <4>2. CASE d # cur
        <5>1. rd'[d] = rd[d] /\ Offset(d) = 0 /\ Offset(d)' = 0
          BY <1>1, <2>1, <4>2 DEF Offset
        <5> QED
          BY <1>5, <2>1, <3>1, <5>1 DEF InFrame
      <4> QED
        BY <4>1, <4>2
    <3> QED
      BY <2>1, <3>3, <3>4 DEF InFrame
  <2> QED
    BY <2>1, <2>2, FramedSame DEF Next
<1>10. CASE RecvSqlPoll
  <2>1. ~ AddTask /\ UNCHANGED <<rd, cur, nLen>> /\ mainPc = "sql" /\ mainPc' = "sqlRead" /\ Poll(nLen)
    BY <1>10 DEF RecvSqlPoll, AddTask
  <2>2. ASSUME ~ short' PROVE InFrame'
    <3>1. ASSUME NEW d \in Clients PROVE Offset(d)' = Offset(d)
      BY <2>1 DEF Offset
    <3>2. ~ short /\ seen' = nLen
      BY <1>1, <2>1, <2>2, PollWhole
    <3> QED
      BY <1>5, <2>1, <3>1, <3>2 DEF Framed, InFrame
  <2>3. short => short'
    BY <2>1, Zenon DEF Poll
  <2> QED
    BY <2>1, <2>2, <2>3, FramedSame DEF Next
<1>11. CASE RecvSqlRead
  <2>1. /\ ~ AddTask /\ UNCHANGED <<cur, seen, short>> /\ mainPc = "sqlRead" /\ mainPc' = "add"
        /\ rd' = [rd EXCEPT ![cur] = rd[cur] + seen] /\ sql' = [from |-> rd[cur], size |-> seen]
    BY <1>11 DEF RecvSqlRead, AddTask, ReadSeen
  <2>2. ASSUME ~ short' PROVE InFrame'
    <3>1. InFrame /\ seen = Body
      BY <2>1, <2>2 DEF Framed, InFrame
    <3>2. rd[cur] = n * RequestLen + Header
      BY <1>1, <1>3, <2>1, <3>1 DEF InFrame, Offset
    <3>3. sql' = [from |-> n * RequestLen + Header, size |-> Body] /\ TaskNo(cur)' = n
      BY <1>1, <1>5, <2>1, <3>1, <3>2
    <3>4. ASSUME NEW d \in Clients PROVE rd'[d] = TaskNo(d)' * RequestLen + Offset(d)'
      <4>1. CASE d = cur
        <5>1. rd'[d] = (n * RequestLen + Header) + Body /\ Offset(d)' = RequestLen
          BY <1>1, <2>1, <3>1, <3>2, <4>1 DEF Offset
        <5>2. TaskNo(d)' = n
          BY <1>5, <2>1, <4>1
        <5> HIDE DEF n
        <5> QED
          BY <1>3, <1>4, <5>1, <5>2
      <4>2. CASE d # cur
        <5>1. rd'[d] = rd[d] /\ Offset(d) = 0 /\ Offset(d)' = 0
          BY <1>1, <2>1, <4>2 DEF Offset
        <5> QED
          BY <1>5, <2>1, <3>1, <5>1 DEF InFrame
      <4> QED
        BY <4>1, <4>2
    <3> QED
      BY <2>1, <3>3, <3>4 DEF InFrame
  <2> QED
    BY <2>1, <2>2, FramedSame DEF Next
<1>12. CASE AddTask
  <2> DEFINE k == <<cur, n + 1>>
  <2>1. /\ mainPc = "add" /\ mainPc' = "select" /\ UNCHANGED <<rd, cur, short>>
        /\ k \in TaskIds /\ content' = [content EXCEPT ![k] = sql]
    BY <1>12 DEF AddTask
  <2>2. k \notin Pool!Known /\ Pool!Known' = Pool!Known \cup {k}
    <3>1. Pool!Accept(k) \/ Pool!Drop(k)
      BY <1>12 DEF AddTask
    <3>2. CASE Pool!Drop(k)
      BY <3>2 DEF Pool!Drop, Pool!Known
    <3>3. CASE Pool!Accept(k)
      <4> HIDE DEF k
      <4>1. k \notin Pool!Known /\ pending' = Append(pending, k) /\ UNCHANGED <<running, done, lost>>
        BY <3>3 DEF Pool!Accept
      <4>2. pending \in Seq(TaskIds) /\ Len(pending) \in Nat
        BY LenProperties DEF TypeOK
      <4>3. /\ DOMAIN pending = 1 .. Len(pending) /\ DOMAIN pending' = 1 .. Len(pending) + 1
            /\ pending'[Len(pending) + 1] = k
            /\ \A i \in DOMAIN pending : pending'[i] = pending[i]
        BY <2>1, <4>1, <4>2, AppendProperties, LenProperties
      <4>4. {pending'[i] : i \in DOMAIN pending'} = {pending[i] : i \in DOMAIN pending} \cup {k}
        BY <4>2, <4>3
      <4> QED
        BY <4>1, <4>4 DEF Pool!Known
    <3> QED
      BY <3>1, <3>2, <3>3
  <2>3. /\ k[1] = cur /\ k[2] = n + 1
        /\ TasksOf(cur)' = TasksOf(cur) \cup {k} /\ k \notin TasksOf(cur)
        /\ \A d \in Clients \ {cur} : TasksOf(d)' = TasksOf(d)
    <3>1. k[1] = cur /\ k[2] = n + 1
      OBVIOUS
    <3> HIDE DEF k
    <3> QED
      BY <2>1, <2>2, <3>1 DEF TasksOf
  <2>4. IsFiniteSet(TasksOf(cur)') /\ TaskNo(cur)' = n + 1
    <3>1. IsFiniteSet(TasksOf(cur)) /\ Cardinality(TasksOf(cur)) = n
      BY <1>1 DEF Framed, TasksNumbered, TasksOf, TaskNo
    <3>2. IsFiniteSet(TasksOf(cur) \cup {k}) /\ Cardinality(TasksOf(cur) \cup {k}) = n + 1
      <4> HIDE DEF k, n
      <4> QED
        BY <1>2, <2>3, <3>1, FS_AddElement
    <3>3. TaskNo(cur)' = Cardinality(TasksOf(cur)')
      BY <2>1 DEF TaskNo, TasksOf
    <3> QED
      BY <2>3, <3>2, <3>3
  <2>5. ASSUME NEW d \in Clients \ {cur} PROVE TaskNo(d)' = TaskNo(d)
    BY <2>3 DEF TaskNo, TasksOf
  <2>6. TasksNumbered'
    <3> SUFFICES ASSUME NEW d \in Clients
                 PROVE  /\ IsFiniteSet(TasksOf(d)') /\ TaskNo(d)' \in Nat
                        /\ TasksOf(d)' = {<<d, i>> : i \in 1 .. TaskNo(d)'}
      BY DEF TasksNumbered
    <3>1. CASE d = cur
      <4>1. TasksOf(cur) = {<<cur, i>> : i \in 1 .. n}
        BY <1>1 DEF Framed, TasksNumbered
      <4>2. 1 .. n + 1 = (1 .. n) \cup {n + 1}
        BY <1>2
      <4>3. TasksOf(cur)' = {<<cur, i>> : i \in 1 .. n + 1}
        <5> HIDE DEF n
        <5> QED
          BY <2>3, <4>1, <4>2
      <4> QED
        BY <1>2, <2>1, <2>4, <3>1, <4>3
    <3>2. CASE d # cur
      BY <2>3, <2>5, <3>2 DEF Framed, TasksNumbered
    <3> QED
      BY <3>1, <3>2
  <2>7. ASSUME ~ short' PROVE InFrame'
    <3>1. InFrame
      BY <2>1, <2>7 DEF Framed
    <3>2. ASSUME NEW d \in Clients PROVE rd'[d] = TaskNo(d)' * RequestLen + Offset(d)'
      <4>1. Offset(d)' = 0
        BY <2>1 DEF Offset
      <4>2. CASE d = cur
        <5>1. rd'[d] = n * RequestLen + RequestLen
          BY <2>1, <3>1, <4>2 DEF InFrame, Offset
        <5>2. TaskNo(d)' = n + 1
          BY <2>1, <2>4, <4>2
        <5> HIDE DEF n
        <5> QED
          BY <1>3, <4>1, <5>1, <5>2
      <4>3. CASE d # cur
        BY <2>1, <2>5, <3>1, <4>1, <4>3 DEF InFrame, Offset
      <4> QED
        BY <4>2, <4>3
    <3> QED
      BY <2>1, <3>2 DEF InFrame
  <2>8. WholeRequests'
    <3> SUFFICES ASSUME ~ short', NEW m \in Pool!Known'
                 PROVE  content'[m] = [from |-> (m[2] - 1) * RequestLen + Header, size |-> Body]
      BY DEF WholeRequests
    <3>1. CASE m = k
      <4>1. content'[m] = sql
        BY <2>1, <3>1 DEF TypeOK
      <4>2. sql = [from |-> n * RequestLen + Header, size |-> Body]
        BY <2>1 DEF Framed, InFrame
      <4>3. m[2] - 1 = n
        BY <1>2, <2>3, <3>1
      <4> QED
        BY <4>1, <4>2, <4>3
    <3>2. CASE m # k
      <4>1. m \in Pool!Known /\ content'[m] = content[m]
        <5>1. m \in Pool!Known
          BY <2>2, <3>2
        <5>2. m \in TaskIds
          BY <5>1 DEF Pool!Known, TypeOK
        <5> HIDE DEF k
        <5> QED
          BY <2>1, <3>2, <5>1, <5>2 DEF TypeOK
      <4> QED
        BY <2>1, <4>1 DEF Framed, WholeRequests
    <3> QED
      BY <3>1, <3>2
  <2> QED
    BY <2>6, <2>7, <2>8 DEF Framed
<1>13. CASE ReadNegative
  <2>1. /\ ~ AddTask /\ short' = short /\ mainPc \in {"lenRead", "sqlRead"} /\ seen < 0
    BY <1>13 DEF ReadNegative, AddTask
  <2>2. short
    <3>1. ~ short => seen = Header \/ seen = Body
      BY <2>1 DEF Framed, InFrame
    <3>2. ~ (Header < 0) /\ ~ (Body < 0)
      BY <1>4
    <3> QED
      BY <2>1, <3>1, <3>2
  <2> QED
    BY <2>1, <2>2, FramedSame DEF Next
<1> QED
  BY <1>6, <1>7, <1>8, <1>9, <1>10, <1>11, <1>12, <1>13 DEF MainLoop

-----------------------------------------------------------------------------
(* The theorems. *)

DispatchInv == TypeOK /\ Pushing /\ Service /\ NoLostWakeup /\ Framed

\* Nothing received, nothing served: the invariant holds.
LEMMA DispatchInit == Init => DispatchInv
<1> SUFFICES ASSUME Init PROVE DispatchInv
  OBVIOUS
<1>1. TypeOK
  <2>1. pending \in Seq(TaskIds)
    BY DEF Init, Pool!Init
  <2>2. seen \in Int /\ nLen \in Int
    BY DEF Init
  <2> QED
    BY <2>1, <2>2 DEF Init, TypeOK, Pool!Init
<1>2. Pushing /\ NoLostWakeup
  BY DEF Init, Pushing, NoLostWakeup, GetSize
<1>3. Service
  <2>1. pending = <<>> /\ running = {} /\ DOMAIN pending = {}
    BY EmptySeq DEF Init, Pool!Init
  <2>2. ASSUME NEW c \in Clients PROVE Active(c) = {} /\ ~ MainServes(c) /\ status[c] = 0
    BY <2>1 DEF Active, MainServes, Init
  <2> QED
    BY <2>1, <2>2 DEF Init, Service, TakeSees, Distinct, Owned
<1>4. Framed
  <2>1. Pool!Known = {}
    <3>1. pending = <<>> /\ running = {} /\ done = {} /\ lost = {} /\ DOMAIN pending = {}
      BY EmptySeq DEF Init, Pool!Init
    <3> QED
      BY <3>1 DEF Pool!Known
  <2>2. ASSUME NEW c \in Clients PROVE TasksOf(c) = {} /\ TaskNo(c) = 0
    BY <2>1, FS_EmptySet DEF TasksOf, TaskNo
  <2>3. TasksNumbered
    BY <2>2, FS_EmptySet DEF TasksNumbered
  <2>4. WholeRequests
    BY <2>1 DEF WholeRequests
  <2>5. InFrame
    <3>1. RequestLen \in Nat /\ 0 * RequestLen = 0
      BY FrameArithmetic
    <3> QED
      BY <2>2, <3>1 DEF Init, InFrame, Offset
  <2> QED
    BY <2>3, <2>4, <2>5 DEF Framed
<1> QED
  BY <1>1, <1>2, <1>3, <1>4 DEF DispatchInv

\* Every step preserves the invariant.
LEMMA DispatchStep == DispatchInv /\ [Next]_vars => DispatchInv'
<1> SUFFICES ASSUME DispatchInv, [Next]_vars PROVE DispatchInv'
  OBVIOUS
<1>1. ASSUME UNCHANGED vars PROVE Service'
  BY <1>1, ServiceSame
     DEF vars, mainVars, poolVars, DispatchInv, Service, TakeSees, MainServes
<1>2. Service'
  BY <1>1, ServiceReceiver, ServiceMain, ServiceWorker DEF Next, DispatchInv
<1>3. ASSUME UNCHANGED vars PROVE Framed'
  <2>1. UNCHANGED <<rd, mainPc, cur, seen, nLen, sql, short, content, pending, running, done, lost>>
    BY <1>3 DEF vars, mainVars, poolVars, taskVars
  <2>2. Pool!Known' = Pool!Known
    BY <2>1 DEF Pool!Known
  <2> QED
    BY <2>1, <2>2 DEF DispatchInv, Framed, TasksNumbered, TasksOf, TaskNo, WholeRequests,
                      InFrame, Offset
<1>4. Framed'
  BY <1>3, FramedOthers, FramedMain DEF Next, DispatchInv
<1> QED
  BY <1>2, <1>4, TypeStep, WakeupStep DEF DispatchInv

\* DispatchInv holds in every reachable state.
THEOREM DispatchInvariant == Spec => []DispatchInv
  BY DispatchInit, DispatchStep, PTL DEF Spec

\* The state of receive thread, main loop and pool stays well formed.
THEOREM DispatchTypeCorrect == Spec => []TypeOK
<1>1. DispatchInv => TypeOK
  BY DEF DispatchInv
<1> QED
  BY <1>1, DispatchInvariant, PTL

\* m_nStatus = 2 is a lock: a client is served by the main loop or by exactly one task.
THEOREM DispatchExclusiveService == Spec => []ExclusiveService
<1>1. ASSUME Owned PROVE ExclusiveService
  <2> SUFFICES ASSUME NEW c \in Clients
      PROVE  /\ status[c] = 2 => \/ MainServes(c) /\ Active(c) = {}
                                 \/ ~ MainServes(c) /\ Cardinality(Active(c)) = 1
             /\ status[c] # 2 => ~ MainServes(c) /\ Active(c) = {}
    BY DEF ExclusiveService
  <2>1. ASSUME Active(c) # {} PROVE Cardinality(Active(c)) = 1
    <3>1. PICK k : k \in Active(c)
      BY <2>1
    <3>2. Active(c) = {k}
      BY <1>1, <3>1 DEF Owned
    <3>3. Cardinality({k}) = 1
      BY FS_Singleton
    <3> QED
      BY <3>2, <3>3
  <2> QED
    BY <1>1, <2>1 DEF Owned
<1>2. DispatchInv => ExclusiveService
  BY <1>1 DEF DispatchInv, Service
<1> QED
  BY <1>2, DispatchInvariant, PTL

\* However the receive thread's write falls between GetSize and the assignment of
\* UnSelect, data in a stream is reported.
THEOREM DispatchNoLostWakeup == Spec => []NoLostWakeup
<1>1. DispatchInv => NoLostWakeup
  BY DEF DispatchInv
<1> QED
  BY <1>1, DispatchInvariant, PTL

\* As long as no Recv came back short, every task executes one whole request, the
\* n-th task of a client its n-th request.
THEOREM DispatchWholeRequests == Spec => []WholeRequests
<1>1. DispatchInv => WholeRequests
  BY DEF DispatchInv, Framed
<1> QED
  BY <1>1, DispatchInvariant, PTL
=============================================================================
