------------------------------- MODULE Dispatch -------------------------------
(***************************************************************************)
(* How the server turns streams into tasks: the main loop of CServer (with *)
(* CTcpServer::Select and CTcpSocket::Recv), the part of RecvThreadProc    *)
(* that writes a packet to m_byteStream and sets m_nStatus, and            *)
(* CSqlTask::Execute with CTcpServer::UnSelect on the pool's threads.      *)
(*                                                                         *)
(* The transport is used through what TcpSocket is shown to implement: the *)
(* bytes of a client's requests arrive in order, packet by packet; the     *)
(* pool through TaskQueue, which ThreadPool implements.  A client sends a  *)
(* request (Header bytes of length, Body bytes of SQL) when all earlier    *)
(* ones have been answered.  A stream is the interval of byte positions    *)
(* (rd, wr]; GetSize, which takes no lock, sees it grow byte by byte.      *)
(***************************************************************************)
EXTENDS Integers, Sequences, FiniteSets

CONSTANTS
  Clients,      \* addresses in m_connectMap
  Header,       \* sizeof(nLen)
  Body,         \* bytes of a SQL text with its terminator
  DataLen,      \* DATA_LEN
  Capacity,     \* tasks the pool can hold before it drops one
  MaxRequests,  \* bound: requests of one client
  MaxTasks      \* bound: tasks made for one client

ASSUME DispatchAssumption ==
  /\ IsFiniteSet(Clients)
  /\ Header \in Nat \ {0} /\ Body \in Nat \ {0} /\ DataLen \in Nat \ {0}
  /\ Header <= DataLen
  /\ Capacity \in Nat /\ Capacity >= Cardinality(Clients)
  /\ MaxRequests \in Nat /\ MaxTasks \in Nat

VARIABLES
  wr, rd,      \* bytes written to and read from each m_byteStream so far
  status,      \* m_nStatus: 0 no data, 1 data, 2 being served
  recvPc,      \* the receive thread: "idle", "write" or "status"
  recvConn,    \* the connection it is working on
  left,        \* bytes of the packet still to be pushed
  mainPc,      \* where the main loop is; "crashed" when the process is gone
  cur,         \* addr: the connection Select returned
  seen,        \* nReadLen of the Recv call in progress
  nLen,        \* the length the main loop decoded
  sql,         \* buf: where in the stream it was read from, and how much
  pending, running, done, lost,  \* the pool: see TaskQueue
  content,     \* m_sql of each task
  replied,     \* tasks that have sent their answer
  answered,    \* answers each client has been sent
  short        \* history: some Recv returned less than it was asked for

poolVars == <<pending, running, done, lost>>
recvVars == <<recvPc, recvConn, left>>
mainVars == <<mainPc, cur, seen, nLen, sql, short>>
taskVars == <<content, replied, answered>>
vars == <<wr, rd, status, recvVars, mainVars, poolVars, taskVars>>

\* The n-th task made for client c.
TaskIds == Clients \X (1 .. MaxTasks)

Pool == INSTANCE TaskQueue WITH Tasks <- TaskIds

RequestLen == Header + Body

TypeOK ==
  /\ wr \in [Clients -> Nat] /\ rd \in [Clients -> Nat]
  /\ status \in [Clients -> {0, 1, 2}]
  /\ recvPc \in {"idle", "write", "status"} /\ recvConn \in Clients /\ left \in Nat
  /\ mainPc \in {"select", "take", "len", "lenRead", "sql", "sqlRead", "add", "crashed"}
  /\ cur \in Clients /\ seen \in Int /\ nLen \in Int
  /\ sql \in [from : Nat, size : Nat]
  /\ pending \in Seq(TaskIds) /\ running \subseteq TaskIds
  /\ done \subseteq TaskIds /\ lost \subseteq TaskIds
  /\ content \in [TaskIds -> [from : Nat, size : Nat]]
  /\ replied \subseteq TaskIds
  /\ answered \in [Clients -> Nat]
  /\ short \in BOOLEAN

\* Handshakes done, nothing received; recvConn and cur are arbitrary until used.
Init ==
  /\ wr = [c \in Clients |-> 0] /\ rd = [c \in Clients |-> 0]
  /\ status = [c \in Clients |-> 0]
  /\ recvPc = "idle" /\ recvConn \in Clients /\ left = 0
  /\ mainPc = "select" /\ cur \in Clients /\ seen = 0 /\ nLen = 0
  /\ sql = [from |-> 0, size |-> 0]
  /\ Pool!Init
  /\ content = [k \in TaskIds |-> [from |-> 0, size |-> 0]]
  /\ replied = {}
  /\ answered = [c \in Clients |-> 0]
  /\ short = FALSE

GetSize(c) == wr[c] - rd[c]

-----------------------------------------------------------------------------
(* The receive thread. *)

\* The packets Send cuts a request into: the length, then the SQL by DataLen.
PacketLen(pos) ==
  LET offset == pos % RequestLen
  IN  IF offset < Header THEN Header
      ELSE IF RequestLen - offset < DataLen THEN RequestLen - offset ELSE DataLen

\* The next packet of c arrives; the client sends one request at a time.
PacketArrives(c) ==
  /\ recvPc = "idle"
  /\ wr[c] \div RequestLen < MaxRequests
  /\ wr[c] \div RequestLen <= answered[c]
  /\ recvPc' = "write"
  /\ recvConn' = c
  /\ left' = PacketLen(wr[c])
  /\ UNCHANGED <<wr, rd, status, mainVars, poolVars, taskVars>>

\* m_byteStream.Write, under m_byteStreamLock: one push_back.
WriteByte ==
  /\ recvPc = "write"
  /\ wr' = [wr EXCEPT ![recvConn] = @ + 1]
  /\ left' = left - 1
  /\ recvPc' = IF left = 1 THEN "status" ELSE "write"
  /\ UNCHANGED <<rd, status, recvConn, mainVars, poolVars, taskVars>>

\* Mutant: the status is set without a look at the old one.
SetStatusAlways ==
  /\ recvPc = "status"
  /\ status' = [status EXCEPT ![recvConn] = 1]
  /\ recvPc' = "idle"
  /\ UNCHANGED <<wr, rd, recvConn, left, mainVars, poolVars, taskVars>>

\* Mutant: the status counts packets.
SetStatusCounts ==
  /\ recvPc = "status"
  /\ status' = [status EXCEPT ![recvConn] = @ + 1]
  /\ recvPc' = "idle"
  /\ UNCHANGED <<wr, rd, recvConn, left, mainVars, poolVars, taskVars>>

\* Under m_statusLock: report data on a connection nobody serves.
SetStatus ==
  /\ recvPc = "status"
  /\ status' = [status EXCEPT ![recvConn] = IF @ = 0 THEN 1 ELSE @]
  /\ recvPc' = "idle"
  /\ UNCHANGED <<wr, rd, recvConn, left, mainVars, poolVars, taskVars>>

StreamLockFree(c) == ~ (recvPc = "write" /\ recvConn = c)

-----------------------------------------------------------------------------
(* The main loop. *)

\* Select sees m_nStatus = 1, without a lock ...
SelectSee(c) ==
  /\ mainPc = "select"
  /\ status[c] = 1
  /\ mainPc' = "take"
  /\ cur' = c
  /\ UNCHANGED <<wr, rd, status, recvVars, seen, nLen, sql, short, poolVars, taskVars>>

\* ... and sets it to 2.
SelectTake ==
  /\ mainPc = "take"
  /\ status' = [status EXCEPT ![cur] = 2]
  /\ mainPc' = "len"
  /\ UNCHANGED <<wr, rd, recvVars, cur, seen, nLen, sql, short, poolVars, taskVars>>

\* The first half of Recv: poll GetSize until it is not 0, keep the minimum.
Poll(want) ==
  /\ GetSize(cur) > 0
  /\ seen' = IF GetSize(cur) < want THEN GetSize(cur) ELSE want
  /\ short' = (short \/ GetSize(cur) < want)

\* Mutant: Peek in place of Read.
PeekSeen ==
  /\ StreamLockFree(cur)
  /\ seen >= 0
  /\ rd' = rd

\* The second half: take that many bytes off the stream, under its lock.
ReadSeen ==
  /\ StreamLockFree(cur)
  /\ seen >= 0
  /\ rd' = [rd EXCEPT ![cur] = @ + seen]

\* Of a negative number of bytes: memcpy takes it for nearly 2^32 and the server crashes.
ReadNegative ==
  /\ mainPc \in {"lenRead", "sqlRead"}
  /\ StreamLockFree(cur)
  /\ seen < 0
  /\ mainPc' = "crashed"
  /\ UNCHANGED <<wr, rd, status, recvVars, cur, seen, nLen, sql, short, poolVars, taskVars>>

RecvLenPoll ==
  /\ mainPc = "len"
  /\ Poll(Header)
  /\ mainPc' = "lenRead"
  /\ UNCHANGED <<wr, rd, status, recvVars, cur, nLen, sql, poolVars, taskVars>>

\* The bytes read make up the length of a request only if they are its header;
\* otherwise nLen can be anything: -1 stands for the negative numbers, and more than
\* a stream ever holds is the same as all of it.
Decoded ==
  IF seen = Header /\ rd[cur] % RequestLen = 0 THEN {Body} ELSE -1 .. MaxRequests * RequestLen

RecvLenRead ==
  /\ mainPc = "lenRead"
  /\ ReadSeen
  /\ nLen' \in Decoded
  /\ mainPc' = "sql"
  /\ UNCHANGED <<wr, status, recvVars, cur, seen, sql, short, poolVars, taskVars>>

RecvSqlPoll ==
  /\ mainPc = "sql"
  /\ Poll(nLen)
  /\ mainPc' = "sqlRead"
  /\ UNCHANGED <<wr, rd, status, recvVars, cur, nLen, sql, poolVars, taskVars>>

RecvSqlRead ==
  /\ mainPc = "sqlRead"
  /\ ReadSeen
  /\ sql' = [from |-> rd[cur], size |-> seen]
  /\ mainPc' = "add"
  /\ UNCHANGED <<wr, status, recvVars, cur, seen, nLen, short, poolVars, taskVars>>

\* Tasks made for c so far.
TaskNo(c) == Cardinality({k \in Pool!Known : k[1] = c})

\* AddTask(new CSqlTask(addr, buf)), which the pool accepts or drops.
AddTask ==
  LET k == <<cur, TaskNo(cur) + 1>>
  IN  /\ mainPc = "add"
      /\ k \in TaskIds
      /\ content' = [content EXCEPT ![k] = sql]
      /\ IF Len(pending) < Capacity THEN Pool!Accept(k) ELSE Pool!Drop(k)
      /\ mainPc' = "select"
      /\ seen' = 0 /\ nLen' = 0 /\ sql' = [from |-> 0, size |-> 0]
      /\ UNCHANGED <<wr, rd, status, recvVars, cur, short, replied, answered>>

MainLoop ==
  \/ \E c \in Clients : SelectSee(c)
  \/ SelectTake \/ RecvLenPoll \/ RecvLenRead \/ RecvSqlPoll \/ RecvSqlRead \/ ReadNegative \/ AddTask

-----------------------------------------------------------------------------
(* The pool's threads: CSqlTask::Execute. *)

StartTask ==
  /\ Pool!Start
  /\ UNCHANGED <<wr, rd, status, recvVars, mainVars, taskVars>>

\* Query, and Send of the result.
Reply(k) ==
  /\ k \in running \ replied
  /\ replied' = replied \cup {k}
  /\ answered' = [answered EXCEPT ![k[1]] = @ + 1]
  /\ UNCHANGED <<wr, rd, status, recvVars, mainVars, poolVars, content>>

\* Mutant: UnSelect does not look at the stream.
UnSelectZero(k) ==
  /\ k \in running \cap replied
  /\ status' = [status EXCEPT ![k[1]] = 0]
  /\ Pool!Finish(k)
  /\ UNCHANGED <<wr, rd, recvVars, mainVars, taskVars>>

\* Mutant: Execute returns without UnSelect.
UnSelectForgotten(k) ==
  /\ k \in running \cap replied
  /\ Pool!Finish(k)
  /\ UNCHANGED <<wr, rd, status, recvVars, mainVars, taskVars>>

\* UnSelect, under m_statusLock, and the end of Execute.  A byte pushed between its
\* GetSize and its assignment commutes with the assignment.
UnSelect(k) ==
  /\ k \in running \cap replied
  /\ status' = [status EXCEPT ![k[1]] = IF GetSize(k[1]) # 0 THEN 1 ELSE 0]
  /\ Pool!Finish(k)
  /\ UNCHANGED <<wr, rd, recvVars, mainVars, taskVars>>

\* The threads of the process end with it.
Alive == mainPc # "crashed"

Worker == Alive /\ (StartTask \/ \E k \in TaskIds : Reply(k) \/ UnSelect(k))

RecvThread == Alive /\ ((\E c \in Clients : PacketArrives(c)) \/ WriteByte \/ SetStatus)

Next == RecvThread \/ MainLoop \/ Worker

Spec == Init /\ [][Next]_vars

\* All threads run, packets that were sent arrive, and Execute returns.
Fairness ==
  /\ \A c \in Clients : SF_vars(Alive /\ PacketArrives(c))
  /\ WF_vars(Alive /\ (WriteByte \/ SetStatus))
  /\ WF_vars(MainLoop)
  /\ WF_vars(Alive /\ StartTask)
  /\ \A k \in TaskIds : WF_vars(Alive /\ (Reply(k) \/ UnSelect(k)))

FairSpec == Spec /\ Fairness

-----------------------------------------------------------------------------
(* Properties. *)

\* The main loop works on c, from the moment Select has marked it.
MainServes(c) == cur = c /\ mainPc \in {"len", "lenRead", "sql", "sqlRead", "add", "crashed"}

\* The tasks of c that have not yet called UnSelect.
Active(c) == {k \in running \cup {pending[i] : i \in DOMAIN pending} : k[1] = c}

\* m_nStatus = 2 is a lock on the connection, although Select sets it without
\* m_statusLock: exactly then either the main loop reads from the connection or one
\* task of it is in the pool, so the requests of a client are executed one by one.
ExclusiveService ==
  \A c \in Clients :
    /\ status[c] = 2 => (MainServes(c) /\ Active(c) = {}) \/ (~ MainServes(c) /\ Cardinality(Active(c)) = 1)
    /\ status[c] # 2 => ~ MainServes(c) /\ Active(c) = {}

\* No lost wake-up: bytes in the stream of a connection with m_nStatus = 0 are bytes
\* the receive thread is about to report, however its write falls between the
\* GetSize and the assignment of UnSelect.
NoLostWakeup ==
  \A c \in Clients :
    GetSize(c) > 0 /\ status[c] = 0 => recvConn = c /\ recvPc \in {"write", "status"}

\* As long as no Recv came back short, the n-th task of a client is its n-th SQL
\* text, whole: length and text never get out of step.
WholeRequests ==
  ~ short => \A k \in Pool!Known :
    content[k] = [from |-> (k[2] - 1) * RequestLen + Header, size |-> Body]

\* m_nStatus = 1 means there is data (CTcpSocket.h:87).
StatusMeansData == \A c \in Clients : status[c] = 1 => GetSize(c) > 0

\* The main loop waits for the length of a request that has not been sent.
MainStuck == mainPc = "len" /\ GetSize(cur) = 0

\* Every request a client has begun to send is answered, unless a Recv came back
\* short or the main loop is stuck on a connection without data.
RequestsAnswered ==
  \A c \in Clients : \A n \in 1 .. MaxRequests :
    wr[c] > (n - 1) * RequestLen ~> answered[c] >= n \/ short \/ MainStuck
=============================================================================
