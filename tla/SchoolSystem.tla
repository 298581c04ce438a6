----------------------------- MODULE SchoolSystem -----------------------------
(***************************************************************************)
(* From a handler of the dialog to the database and back: the server       *)
(* starts (ServerStart), clients send statements, the threads of the pool  *)
(* execute them on the shared handle (SqlConnection) and send the answers, *)
(* the handlers read them (AnswerStream).                                  *)
(*                                                                         *)
(* The parts in between are used through what their modules show: requests *)
(* reach the pool whole and one of a client at a time (ExclusiveService    *)
(* and WholeRequests of Dispatch), packets arrive in order (FifoStream).   *)
(***************************************************************************)
EXTENDS ServerStart, SqlConnection, AnswerStream

CONSTANTS
  Client,     \* the client whose handler sends a statement
  FieldsLen,  \* bytes of the column names of a result
  RowLen      \* bytes of a row

ASSUME SystemAssumption ==
  /\ Client \in [Statements -> Clients]
  /\ FieldsLen \in Nat \ {0}
  /\ RowLen \in Nat \ {0}

VARIABLES
  asked,   \* the last statement each client has sent
  unread   \* the statements in each client's stream at the server, in order

vars == <<startVars, sqlVars, streamVars, asked, unread>>

\* Every component keeps its type, and no two threads execute for one client.
TypeOK ==
  /\ StartTypeOK
  /\ SqlTypeOK
  /\ StreamTypeOK
  /\ asked \in [Clients -> Statements \cup {NoStatement}]
  /\ unread \in [Clients -> Seq(Statements)]
  /\ \A w, v \in Workers :
       w # v /\ task[w] # NoStatement /\ task[v] # NoStatement =>
         Client[task[w]] # Client[task[v]]

Init ==
  /\ StartInit
  /\ SqlInit
  /\ StreamInit
  /\ asked = [c \in Clients |-> NoStatement]
  /\ unread = [c \in Clients |-> <<>>]

-----------------------------------------------------------------------------
(* Steps of one component. *)

\* The server comes up; a client that finds no server is not of interest here.
Boot == StartStep /\ UNCHANGED <<sqlVars, streamVars, asked, unread>>

\* A thread has begun to execute k.
Taken(k) == answer[k] # NoAnswer \/ \E w \in Workers : task[w] = k

\* A handler sends statement k; the user does not repeat one.
SendSql(c, k) ==
  /\ server = "up"
  /\ Client[k] = c
  /\ k \notin Range(unread[c]) /\ ~ Taken(k)
  /\ AwaitAnswer(c, k \in Selects)
  /\ asked' = [asked EXCEPT ![c] = k]
  /\ unread' = [unread EXCEPT ![c] = Append(@, k)]
  /\ UNCHANGED <<startVars, sqlVars>>

\* The main loop has read the next request of the client of k, and a thread has it.
Dispatched(w, k) ==
  LET c == Client[k]
  IN  /\ unread[c] # <<>> /\ Head(unread[c]) = k
      /\ unread' = [unread EXCEPT ![c] = Tail(@)]
      /\ StartExecute(w, k)
      /\ UNCHANGED <<startVars, streamVars, asked>>

\* Mutant: the status of the client is not looked at.
StartEarly(w, k) == Dispatched(w, k)

\* A request is taken up when UnSelect of the client's last one is done, though its
\* handler may have returned too early and sent another one since.
Start(w, k) ==
  /\ \A v \in Workers : task[v] # NoStatement => Client[task[v]] # Client[k]
  /\ Dispatched(w, k)

Query(w) ==
  /\ \/ QueryRefused(w)
     \/ QuerySend(w)
     \/ QueryRead(w)
     \/ QueryLost(w)
     \/ UseResult(w)
     \/ AffectedRows(w)
     \/ FetchRow(w)
     \/ FetchEnd(w)
     \/ EndExecute(w)
  /\ UNCHANGED <<startVars, streamVars, asked, unread>>

Receive(c) == ClientStep(c) /\ UNCHANGED <<startVars, sqlVars, asked, unread>>

-----------------------------------------------------------------------------
(* Steps of both: a thread passes a part of the answer to Send. *)

SendsTo(w, pieces) ==
  /\ SendPieces(Client[task[w]], pieces)
  /\ UNCHANGED <<handler, nBytes, got, short, startVars, asked, unread>>

CountPieces(k, n) == <<Piece("count", k, n)>>
FieldPieces(k) == <<Piece("flen", k, FieldsLen), Piece("fields", k, FieldsLen)>>
RecordPieces(k, n) == <<Piece("rlen", k, n * RowLen), Piece("records", k, n * RowLen)>>

AnswerCount(w) == SendCount(w) /\ SendsTo(w, CountPieces(nRet[w].of, nRet[w].n))

AnswerFields(w) == SendFields(w) /\ SendsTo(w, FieldPieces(res[w]))

AnswerRecords(w) == SendRecords(w) /\ SendsTo(w, RecordPieces(res[w], fetched[w]))

Execute(w) == Query(w) \/ AnswerCount(w) \/ AnswerFields(w) \/ AnswerRecords(w)

Next ==
  \/ Boot
  \/ \E c \in Clients, k \in Statements : SendSql(c, k)
  \/ \E w \in Workers, k \in Statements : Start(w, k)
  \/ \E w \in Workers : Execute(w)
  \/ \E c \in Clients : Receive(c)

Spec == Init /\ [][Next]_vars

-----------------------------------------------------------------------------
(* Properties. *)

\* The bytes of MySQL's reply to statement k.
OwnBytes(k) ==
  LET r == reply[k]
      pieces == IF r.kind = "rows" THEN FieldPieces(k) \o RecordPieces(k, r.n)
                ELSE CountPieces(IF r.kind = "error" THEN NoStatement ELSE k, r.n)
  IN  FlattenSeq([i \in DOMAIN pieces |-> Bytes(pieces[i])])

\* Server and client agree where an answer ends: a handler that returns has read the
\* whole reply to its own statement and nothing is left over for the next one, however
\* the answer was cut into packets and whatever came before, unless a Recv returned
\* too little or two queries met on the handle.
InStep ==
  \A c \in Clients :
    handler[c] = "idle" /\ asked[c] # NoStatement /\ ~ short[c] /\ ~ mixed =>
      got[c] = OwnBytes(asked[c]) /\ coming[c] = <<>>

\* No handler waits for bytes nobody will send: when its statement has been executed
\* and all bytes of the answer are read it has returned, after an empty result too.
\* The exceptions are a Recv that returned too little, two queries that met on the
\* handle, and a SELECT that MySQL refused: ShowList takes its -1 for a length.
NobodyWaitsForNothing ==
  \A c \in Clients :
    handler[c] # "idle" /\ answer[asked[c]] # NoAnswer /\ coming[c] = <<>> =>
      \/ short[c]
      \/ mixed
      \/ asked[c] \in Selects /\ reply[asked[c]].kind = "error"
=============================================================================
