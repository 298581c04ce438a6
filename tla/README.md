# SchoolSystem: TLA+ models of the client/server core

SchoolSystem is a school administration program for Windows: an MFC client
(`SchoolSystem/`), a console server (`SchoolSystemServer/`) that executes the
client's SQL on MySQL (`MysqlDll/`), and between them a home-made reliable
transport over UDP (`TcpSocketDll/`).  The repository has no tests and no
documents besides the comments in the code; they are what the violation runs
quote.

## 1. Inventory

| Component | State | Operations | Correct when |
|---|---|---|---|
| Thread pool, `CThreadPool` | task queue, semaphore, quit event, critical section, two counters read without a lock, thread handles | `AddTask`, `ThreadProc`, destructor | every task runs once, in order, or is dropped at capacity or aborted; nobody pops an empty queue; nothing is used after it is freed |
| Transport, `CTcpSocket`, `CTcpClient`, `CTcpServer::Listen` | one socket; one send list and its lock; per peer two sequence numbers, a list of early packets, a byte stream | `Connect`, `Listen`, `Send`, send thread (20 ms passes, resends after 1000 ticks), receive thread (four packet types) | each direction is a FIFO stream whatever the network does; what is not acknowledged is resent |
| Dispatch, `CServer`, `CTcpServer::Select`/`UnSelect`, `CTcpSocket::Recv`, `CByteStream` | per client a stream and `m_nStatus` (0 no data, 1 data, 2 being served) | main loop, status update of the receive thread, `CSqlTask::Execute` | one request per client at a time, none forgotten, whole texts, everyone answered |
| MySQL access, `CMysql` | one `MYSQL*` used by all pool threads without a lock | `Init`, `Query` | a statement gets its own result, and leaves the handle ready |
| Answers, `SendResByteAry`, `ShowList` | a byte stream per direction | `Send` in pieces, `Recv` in the same pieces | server and client agree where an answer ends |
| Schema, `CServer::CreateTables` | tables class, student, course, select | `CreateTables`; the statements the client builds | every start completes the schema; keys hold |
| Client, `CSchoolSystemDlg` and four edit dialogs | current tab, list control, connection | insert, delete, update, select, joined select, `ShowList` | the list shows what the database holds |
| `CLock`, `CInitSocketLib` | a critical section; the socket library | lock, unlock | |

How they interact: a client's `SendSql` passes a length and a text to the
transport; the server's receive thread writes them to the client's stream and sets
its status; the main loop selects a client, reads one request and calls `AddTask`;
a pool thread executes it on MySQL, passes the answer to the transport and
unselects the client.  Threads per server process: main loop, send thread, receive
thread, pool threads.

What is hard: four kinds of threads share per-client records under three locks,
some accesses have none; datagrams are lost, duplicated and reordered; any socket
call can end a thread, once with a lock held; the pool's semaphore is released
before the task is in the queue.  `PROJECT.json` lists the hazards line by line.

## 2. Modules

| Module | Models |
|---|---|
| `ThreadPool` | `CThreadPool`, one owner thread and `MaxThreads` pool threads |
| `TaskQueue` | abstract: a bounded FIFO queue of tasks; `ThreadPool` implements it |
| `ThreadPoolProofs` | the proofs about `ThreadPool` |
| `TcpSocket` | `CTcpSocket`, `CTcpClient::Connect`, `CTcpServer::Listen` and the network |
| `FifoStream` | abstract: numbered chunks that arrive in order; `TcpSocket` implements it |
| `TcpSocketProofs` | the proofs about `TcpSocket`: order, numbering, refinement |
| `TcpRetentionProofs` | what its send and receive lists keep; extends `TcpSocketProofs` |
| `Dispatch` | main loop, `Select`, `Recv`, `UnSelect`, status and stream; composes `TaskQueue` as its pool |
| `DispatchProofs` | the proofs about `Dispatch` |
| `SqlConnection` | `CMysql::Query` and `CSqlTask::Execute` on the shared handle; libmysql as an external part |
| `AnswerStream` | the pieces of an answer, cut into packets by `Send`, and the `Recv` calls of the handlers |
| `ServerStart` | `CServer::Init`, `CMysql::Init`, `CreateTables`: starts that fail and are repeated |
| `SchoolSystem` | composes the last three: from a handler to the database and back |
| `AnswerStreamProofs` | packets and pieces of an answer put together again |
| `SchoolSystemProofs` | the proofs about the start and the shared handle, in `SchoolSystem` |
| `SchoolStreamProofs` | the proofs about the answers on their way to the handlers; extends `SchoolSystemProofs` |
| `SchoolDb` | the tables of `CreateTables` with their keys, and MySQL's answer to each statement |
| `SchoolClient` | `CSchoolSystemDlg`: tab, list and the seven handlers, over `SchoolDb` |
| `SchoolClientProofs` | the proofs about `SchoolClient` and the tables |
| `MC*` | instances for TLC |

Definitions named as mutants in their comment are wrong on purpose; they are not
used by the specifications, and replace a definition to show that a property can
fail.

### ThreadPool

Variables are the members of `CThreadPool` plus a program counter per thread and
history variables (`submitted`, `runs`, `dropped`, `aborted`).  `AddTask` is split
into `AddRelease` (semaphore, critical section entered), `AddPush` (push, section
left), `AddCheck` (the unlocked test) and `AddCreate`; `AddDrop` is the failing
`ReleaseSemaphore`.  `ThreadProc` is `IncIdle`, `WaitQuit`/`WaitTask`, `DecIdle`,
`Pop`, `Execute`; `PopEmpty` is the undefined `front()` of an empty queue, kept as a
state of its own so that its absence can be checked.  The destructor is
`DestroySignal`, `DestroyJoin`, `DestroyAbort`, `DestroyFree`.  `CreateThread` may
fail.  `EveryTaskSettles` allows for it as long as one thread exists; `PopFindsTask` and
`NoUseAfterFree` do not hold then, since the destructor's wait fails at once on a NULL
handle, and say so (`failed = {}`).

### TcpSocket

A link `<<e, p>>` is the `Conn` record of endpoint `e` for peer `p`.  `net` is the
set of datagrams in flight; a datagram stays in it when it is received, so it may
arrive any number of times, in any order, and `Lose` may remove it.  A chunk is one
packet's payload and is named by its position in the stream.  One pass of the send
thread and the handling of one datagram are actions: a pass holds `m_sendListLock`
and only adds datagrams, and what the receive thread changes besides is its own.
The resend timer is not measured, any packet already sent may be due again in a
pass.  Failing socket calls are separate actions, enabled by `Faults`:
`SendPassFails` leaves the lock locked (`LockFree`), `RecvFails`, `RecvReplyFails`
and `RecvAckBlocks` stop the receive thread, the others end `Connect` or `Listen`.

A client whose `Connect` has failed goes on to `SendSql` (`MaySend`): `OnInitDialog`
does not return after `EndDialog`.  Its ESTABLISH_1 then stays in the send list and is
sent again alongside its data.  (The packet is on `Connect`'s stack, which is gone; what
the memory holds by then is not modelled.)

`Timely` is the one restriction on the network: with `LateEstablish = FALSE` a copy
of ESTABLISH_1 does not arrive after data of its connection has been written, nor when
data is listed on a connection that has no numbers yet.  This also keeps out the
ESTABLISH_1 that a client resends after a failed `Connect`, once its data has got ahead
of it.  Data and acknowledgements are not restricted.  The run
`transport_late_establish` lifts it.

### Dispatch

A stream is an interval of byte positions between `rd` and `wr`.  The receive
thread pushes byte by byte (`WriteByte`) and sets the status in a second step
(`SetStatus`).  The main loop sees and takes a client in two steps, and every `Recv`
is a poll of the unlocked `GetSize` followed by a locked read, so torn lengths and
texts happen.  What a torn length decodes to is arbitrary (`Decoded`): any length up to
more than the stream can hold, or a negative one, which `CByteStream::Read` passes on to
`memcpy` and the process ends (`ReadNegative`, `Alive`).  Transport and
pool are used through `FifoStream`'s and `TaskQueue`'s promise.  A client sends its
next request when it has been answered, as the dialogs do.

### SqlConnection

`Execute` of a pool thread is a sequence of steps on the handle.  `mysql_query` is
`QuerySend` (the command is written and MySQL decides its reply) and `QueryRead` (the
first reply on the wire is read); then `UseResult`, `AffectedRows`, and either
`SendCount` or `SendFields`, `FetchRow`, `FetchEnd`, `SendRecords`.  The status of the
handle (`READY`, `GET_RESULT`, `USE_RESULT`), the announced result set, the affected
rows and the rows still to be read belong to the handle and not to a thread, as in
libmysql, so a thread finds there what another one has left.  A command on a handle
that is not ready is refused (`QueryRefused`, "commands out of sync").  What two threads inside
`mysql_query` do to the socket buffer is a data race: a thread gets some reply or the
library closes the connection (`QueryLost`).  `Overlap = FALSE` excludes it, to show
that the counts go wrong without it.  `mixed` records that two statements have met on the handle.

### AnswerStream

The unit is the byte, named by its piece and its position, so that a misplaced one is
visible.  `coming` holds the bytes passed to `Send` and not yet read.  How many of
them are in the stream when `Recv` looks at its size is arbitrary, at least one, and
that number is chosen when `Recv` returns: the receive thread only adds bytes, so this
is the same as letting them arrive one by one.  No caller looks at what `Recv`
returns; after a short one (`short`) the bytes taken for a length may decode to anything in `Misread`,
a negative length included (`RecvNegative`).  An empty text has no packet, which is
why `ShowList` returns early.  `Packets` cuts every piece as `Send` does, and
`SendPieces` puts the packets together again at once, so `DataLen` has no influence on
what the system does.  That this loses nothing, whatever the length, is
`PacketsKeepBytes`.

### ServerStart

One action per statement of `CreateTables`, in the order of the code and with the
tables each refers to; each may fail, and the process may be killed before any of them.
`schema` is what MySQL has kept, and survives.

### SchoolSystem

The server starts; then handlers send statements, threads execute them and handlers
read the answers.  `unread` is a client's stream at the server, a queue of whole
requests.  The main loop takes the first one (`Start`) only when the client's last one
has been unselected, which is `ExclusiveService`, and takes it whole, which is
`WholeRequests`; bytes arrive in order, which is `ImplementsFifoStream`.  All three
are proved about the modules they come from.  A handler that returned too early, after a
short `Recv`, may send its next statement while the last one is still in the stream or
being executed: it is executed all the same, and its answer is read as that of the next
one.  A user sends each statement once.

### SchoolDb and SchoolClient

A row is the tuple of its columns as text; a score is kept as the text MySQL prints
for the stored float (`Canonical`), and a search by score compares doubles
(`Matches`, `Exact`).  A statement yields the new tables and the number
`mysql_affected_rows` reports, -1 if it was refused: a duplicate key, a missing
reference, a record still referenced (the schema has no CASCADE).  What MySQL does
is external and modelled from the statements; comparison of texts is equality.

Each handler is one action up to `SendSql`; `Execute` or `ExecuteFails` is the
server's part, in one step; `ShowList`, `ShowListHangs` or `ShowResult` is the rest
of the handler.  The handler blocks the user interface in between, so a client has
one statement under way, and statements of different clients interleave.  That the
handler gets an answer at all is not assumed; no property of this module needs it.  `cols`
keeps what the columns of the list stand for, which the code does not: after the
joined query it is `"joined"` while `tab` is unchanged.  `outdated` is a history
variable: the tables another client has changed since a client last read them.  A cancelled dialog and a
click without a selected row change nothing and are stuttering.

## 3. Runs

| Run | Bounds | Shows |
|---|---|---|
| `pool` | 2 threads, 4 tasks, semaphore maximum 2 | permits balance, the idle counter is exact, `PopFindsTask`, `NoUseAfterFree`, refinement of `TaskQueue`; every task settles, the destructor returns |
| `transport` | 1 client, 3 chunks up, 2 down, lists of 3, any socket call may fail | order, sequence numbers, retention, the receive list, refinement of `FifoStream`, with dying threads and a lock never released |
| `transport_live` | 1 client, 2 up, 1 down, lossy network | what is sent arrives |
| `transport_stranded` | 1 client, violation | duplicates block the receive list |
| `transport_ack_of_other_peer` | 2 clients, violation | an ACK of one client unlists another client's answer |
| `transport_late_establish` | 1 client, violation | a late ESTABLISH_1 resets an open connection |
| `dispatch` | 2 clients, 2 requests each, 2 byte lengths, 1 byte texts | exclusive service, no lost wake-up, whole requests unless a read was short; everyone is answered, unless a read was short or the main loop is stuck |
| `dispatch_status` | 1 client, 2 requests, violation | status 1 on an empty stream |
| `client` | 2 clients, 3 handlers in total, 2 texts, 3 scores, empty and filled tables | constraints of the tables, columns of the list; a list is wrong only after another client has changed the table it shows |
| `client_delete_joined` | 1 client, violation | Delete after the joined query |
| `system` | 2 clients, 2 threads, 3 statements (two SELECTs), lengths of 2 bytes, packets of 2, names of 1, a row of 3 or none | a start completes any schema; answers are the client's own unless two queries met; server and client agree where an answer ends, and nobody waits for what nobody sends, unless a `Recv` was short |
| `sql_counts` | as `system`, `mysql_query` atomic, violation | the affected rows of a statement are lost to another thread's |

Why the bounds are enough to be interesting: two threads and a full semaphore give
every combination of stale idle counter, drop and destruction; three chunks are one
expected and two listed early, in either order and twice, which is enough to strand a
packet behind a duplicate (`transport_stranded` shows it with four); two clients and two
threads are the smallest case of a shared send list, of a shared
handle and of a main loop that serves the wrong one; two byte lengths can be torn into a rest
that passes for the length of another request, and make it possible to return from
`Recv` with half of one; a row of three bytes is a full packet and a remainder, and
no row an empty text.  Three handlers, on tables that are filled
already, are one client's read, another's change and a statement of the first that meets
the changed record; `client_delete_joined` has five.  Two texts make ids of different
tables coincide, which is what goes wrong after the joined query.

What the bounds leave out: with two chunks `transport_live` never gets to the stale
duplicate that `EventuallyDelivered` excepts; `transport` and `transport_stranded` do.  In
`system` no client has three statements, which it takes for a request to be overtaken
by the next one and a third to be mistaken for it; the theorems of section 5 cover any
number.

Deadlock is checked except where the bounded system comes to rest (the dispatch
runs, the lossy network, the user who stops clicking, `system` when every statement
has been sent) or a failed call stops it for good (`transport`).

Symmetry is used in `system`, over pool threads, and in `client`, over clients, which
are interchangeable in every definition and in the initial tables; neither run checks a
temporal property.

Fairness: threads that can run do run (weak); the owner of the pool finishes a call
it has begun but need not submit or destroy; a client's `Connect` and the server's
`Listen` happen; the send thread wakes every 20 ms, so a pass with every expired
packet happens (weak); a handshake or data packet that is in flight again and again
arrives (strong: UDP may lose it any finite number of times).  In `Dispatch` the arrival
of a packet stands for `Send` and network together, so its strong fairness also makes a
client go on to its next request, up to `MaxRequests`; `RequestsAnswered` speaks of
requests that have been begun and gains nothing from it.  Fairness is void once the
server has crashed (`Alive`).  None is assumed for acknowledgements, losses or failures,
nor in `SchoolClient` and `SchoolSystem`: that every statement is answered is not a fact
about this code, as findings 2 and 4 and the end of section 4 say.

## 4. Findings

1. `NothingStranded` (`CTcpSocket.cpp:224`): duplicates are listed twice; when the
   run before them has been written, the copy with the old number stays at the head
   and the traversal never gets past it.
2. `RepliesRetained` with two clients (`CTcpSocket.cpp:234`): both clients' answers
   carry the same numbers, and an acknowledgement removes whichever is first.
3. `NextRecvIsNext` (`CTcpSocket.cpp:129`): the receive thread reinitialises an open
   connection on a late ESTABLISH_1.
4. `StatusMeansData` (`CTcpSocket.cpp:174`): the receive thread's status update comes
   after the request it reports was answered; the main loop then waits in `Recv` for
   that client's next request and serves nobody else.
5. `DeletesSelectedRow` (`SchoolSystemDlg.cpp:336`): the joined query changes the
   list and not the tab, and Delete takes the first column for the tab's id.
6. `CountsOwnRows` (`CMysql.cpp:80`): `Query` reads the affected rows from the shared
   handle after `mysql_query`; another thread's query resets them in between, and the
   client of an executed statement is told that it failed.

Behaviour that the models have and the properties of the passing runs leave out, because
it follows from the code directly:

- A `sendto` that fails ends the send thread with `m_sendListLock` held
  (`CTcpSocket.cpp:79`, `SendPassFails`): nothing is sent any more, and `Send`, `Connect`
  and the handling of acknowledgements wait for the lock.  A `recvfrom` that fails ends
  the receive thread (`RecvFails`).  `EventuallyDelivered` is checked without failing calls.
- `Recv` returns what the stream holds when it looks (`CTcpSocket.cpp:45`), one packet or
  part of one, and no caller notices.  `ShowList` shows that part, and the rest is taken
  for the answer to the next statement: `InStep` and `NobodyWaitsForNothing` say nothing of
  a client with a short `Recv`, `WholeRequests` and `RequestsAnswered` nothing after a torn
  request.  The three invariants show that there is no other way to get out of step, apart
  from the next item and the last.
- A SELECT that MySQL refuses is answered by one number, -1, which `ShowList` takes for the
  length of the field names (`SchoolSystemDlg.cpp:60`); it then waits for more.
  `NobodyWaitsForNothing` leaves it out.
- The UPDATE of a selection has the edited ids in its WHERE clause and sets the score only
  (`SchoolSystemDlg.cpp:479`), so an edit of the ids changes another record or none, and
  the list shows it as done.  `ListShowsTable` leaves the tab of selections out.
- Nothing tells a client that another one has changed a table.  `ListShowsTable` says
  nothing of a list whose table has been changed since (`outdated`).
- After two queries have met on the handle (finding 6) answers may be anyone's: `InStep`,
  `NobodyWaitsForNothing` and `AnswersOwnStatement` end with `mixed`.  While the main loop
  waits on a connection without data (finding 4) `RequestsAnswered` says nothing.

## 5. Proofs

`ThreadPoolProofs` proves, for every number of threads, set of tasks and semaphore
maximum (`PoolAssumption`): `TypeOK`, `PermitsMatchQueue`, `PopFindsTask`,
`NoUseAfterFree` and `ImplementsTaskQueue`.  The inductive invariant `PoolInv` joins
them with `Shape` (what a program counter implies: a thread holds a task exactly when
it executes, slots beyond `m_nCurThreads` are empty, there is room when a thread is
being created).  `PopFindsTask` alone is not inductive: that a woken thread finds a
task rests on the balance of permits, and that it does not run into the destructor's
drain loop on `NoUseAfterFree`.  The lemmas `CountIn`, `CountOut`, `CountSame` say
how the number of threads in a set of program counters changes when one thread
moves.  For the refinement `Placed` says that a task is in one place only; a drop is
allowed by `TaskQueue` because permits and queue balance.

`IdleCounterExact` is part of `PoolInv` and a theorem as well.

`TcpSocketProofs` proves, for every number of clients, all bounds (`SocketAssumption`),
every set of failing calls, lossy or not, and under `~ LateEstablish`: `TypeOK`,
`InOrderDelivery`, `NextRecvIsNext` and `ImplementsFifoStream`.  `InOrderDelivery` is
not inductive: that the packet with the expected number carries the next chunk rests
on the numbering of packets that are still under way.  `SocketInv` therefore says of
every packet in a send list, on the network or in a receive list that its number is
the position of its chunk and that the chunk was sent (`NetSound`, `ListsSound`,
`EntriesSound`), that a receiver expects the next chunk or has had no handshake
(`Numbered`), and that the sender's counter is one ahead of what it has sent
(`ClientNumbers`, `ServerNumbers`).  Of an acknowledgement it
says only that it goes to a client that has sent data (so `Connect` cannot take it for
the second handshake), and the proof holds although acknowledgements unlist packets of
another client (finding 2).  `Timely` is used where ESTABLISH_1
arrives (`KeepRecvEstablish1`): finding 3 is what happens without it.  There is one lemma
per action; in the refinement `Send` is a `Write`, the arrival of the expected packet
with the run listed behind it an `Arrive`, and every other step is invisible.

`DispatchProofs` proves, for every number of clients, all sizes of lengths, texts and
packets, and a pool with room for one task of every client (`DispatchAssumption`):
`TypeOK`, `ExclusiveService`, `NoLostWakeup` and `WholeRequests`.  For the first two,
`Service` adds that nobody changes the status between the two halves of `Select`
(`TakeSees`) and that a task is in the pool once (`Distinct`).  `RoomForTask` is a
pigeonhole argument: every other client has at most one task in the pool and the one
being served none, so `AddTask` never discards one; otherwise its client would stay
at status 2 for ever.  A torn length, negative or not, and the crash that may follow are
part of the specification these theorems are about.  For `WholeRequests`, `Framed` relates the bytes read to the
number of tasks made: `rd = n * RequestLen` plus how far the main loop is in the
current request.

`TcpRetentionProofs` proves, under the same assumptions, `RequestsRetained`,
`RepliesRetained` for a server with one client (with two it is false, finding 2), and
`StrandedOnlyBehindDuplicate`.  Retention rests on a fact about the network:
`AcksHonest`, an acknowledgement in flight is of a chunk that is in the stream or in the
receive list, where it stays.  Since an acknowledgement only names a number, taking a
packet out of the send list is safe on a link whose owner has no other peer (`OnlyPeer`);
that is every client's link, and with one client the server's.  For the receive list
`DrainInv` adds that entries are in the order of their numbers, and that a client lists
nothing before it is open (`NothingEarly`); at the server the same is not so, because a
client may send after a failed `Connect`, and `Timely` takes its place.

`SchoolClientProofs` proves, for any number of clients, texts, scores and handlers, and
for initial tables that are finite and consistent (`ClientAssumption`): `TypeOK`, with the
keys and references of the tables, and `ListShowsTable`, for several clients up to the
changes that others make to the table shown.
`ListShowsTable` is not inductive, since after `Execute` the table is ahead of the list.
`ListFits` says of that time that the list about to be shown (`Changed`, or the rows of
the answer) shows the table.  Its cases are lemmas about `SchoolDb`: what an INSERT, DELETE
or UPDATE that is reported as a success does to a table, and that a refused one changes
nothing.

`AnswerStreamProofs` proves that `Send` loses nothing (`PacketsKeepBytes`): the packets of
a text, put one behind the other, are the text.  `FlattenSeq` is a recursive function on
an interval; instead of an induction the lemma `FlattenIs` takes the least index at which
two solutions of its equation differ.

`SchoolSystemProofs` proves, for every number of clients, threads and statements and all
lengths, `StartsFromAnySchema` and `AnswersOwnStatement`.  For the first, `CreatedSoFar`
says which tables exist before each statement of `CreateTables`.  For the second,
`HandleInv` has a part that holds whatever the threads do (`SqlInv`: what a program counter
says about a thread's result, and that one thread at most reads rows), one about the
requests in the streams (`Pending`: nobody has begun one of them, so no statement is
executed twice) and one that holds
until two queries meet (`Unmixed`): one thread at most is between the start of
`mysql_query` and the last row, the handle is ready when there is none, and otherwise
everything on it belongs to that thread's statement.

`SchoolStreamProofs` proves, from the same assumptions, `TypeOK`, `InStep` and
`NobodyWaitsForNothing`.  Neither of the last two is inductive, as both speak of a handler
that has read everything.  `StreamFits` says for every moment of a client with no short
`Recv` that what it has read followed by what is coming is what `Execute` has sent so far
(`Sent`), and that the position of the handler tells how much that is (`HandlerFits`), so
the length a `Recv` is asked for is the length of the piece that comes next.  `AskedFor`
adds that a thread still executing works for the statement its client waits for, and
`Awaited` the same of a request still in the stream: a handler returns only when its
request has been answered, so it finds the stream empty when it sends the next.  The
invariant was checked with TLC on the instance of `system` before it was proved.

Every invariant, and both refinements, of the passing runs are stated by a theorem.

Only model-checked: liveness (`EveryTaskSettles`, `DestructorReturns`,
`EventuallyDelivered`, `RequestsAnswered`), since the prover knows
neither fairness nor ENABLED; and the violations of section 4, which are counterexamples
of small instances.

## 6. Plan

1. *Done*: thread pool, transport and dispatch with refinements; tables and client; the
   shared handle, the framing of answers, the start of the server and their composition.
2. *Done*: a theorem for every invariant and refinement of a passing run.
3. Left: the interface between the modules.  `SchoolSystem` uses what is proved about
   `TcpSocket`, `Dispatch` and `ThreadPool` as guards of its actions; these could be
   stated as refinements of abstract specifications of their own, as `TaskQueue` is.

## 7. Not modelled

- `MySQL Server 5.7/include`, some 28000 of the repository's 30500 lines: the headers
  of MySQL's client library.  They declare, and do nothing; what the calls in
  `CMysql.cpp` do is modelled as an external part of `SqlConnection` and `SchoolDb`.
- Windows dialogs and painting, wording and logging, the MFC frame code, and
  `CInitSocketLib`, whose only state is inside Winsock.
- Sizes beyond the 0x1000 byte buffers and column lengths, quotes inside a text, NULL.
- The racing insertions into `m_connectMap`: a data race on a `std::map` has no bounded
  set of outcomes.
- A restart of the server while clients are connected: the code has no recovery, a
  client of the old process waits for ever.  The start itself is `ServerStart`.
- Failures of `CreateEvent`, `CreateSemaphore` and of the transport's `CreateThread`
  calls; wrap-around of the 32 bit sequence numbers (2^31 packets of one session).
