----------------------------- MODULE SqlConnection -----------------------------
(***************************************************************************)
(* The one MYSQL handle of the server, CMysql::m_mysql, and the pool's     *)
(* threads that execute statements on it: CMysql::Query and                *)
(* CSqlTask::Execute with CServer::SendResByteAry.  Nothing locks the      *)
(* handle; ExclusiveService of module Dispatch only keeps the statements   *)
(* of one client apart.                                                    *)
(*                                                                         *)
(* libmysql is external, modelled by what its calls do to the handle.  Two *)
(* threads inside mysql_query at once share one socket buffer; a thread    *)
(* then gets the first reply there is, or the packets no longer fit and    *)
(* the library closes the connection, after which every call fails.        *)
(***************************************************************************)
EXTENDS Integers, Sequences

CONSTANTS
  Workers,      \* threads of the pool
  Statements,   \* statements the clients send
  Selects,      \* those that are SELECTs
  NoStatement,
  Overlap,      \* may two threads be inside mysql_query at once
  MaxRows       \* bound: rows of a result

ASSUME SqlAssumption ==
  /\ Selects \subseteq Statements
  /\ NoStatement \notin Statements
  /\ Overlap \in BOOLEAN
  /\ MaxRows \in Nat

VARIABLES
  pc,        \* where each thread is in Execute
  task,      \* the statement it executes
  nRet,      \* nRet of Execute: whose count it is, and the count
  res,       \* the statement whose result res points to
  fetched,   \* rows copied to buf
  status,    \* mysql->status
  fields,    \* mysql->fields: the statement whose result set is announced
  affected,  \* mysql->affected_rows
  wire,      \* replies of MySQL not yet read
  rows,      \* rows of the current result set not yet read
  lost,      \* the library has closed the connection
  reply,     \* history: what MySQL replied to each statement
  answer,    \* history: what Execute sent to the client
  mixed      \* history: a query was begun while another one used the handle

workerVars == <<pc, task, nRet, res, fetched>>
handleVars == <<status, fields, affected, wire, rows, lost>>
sqlVars == <<workerVars, handleVars, reply, answer, mixed>>

\* A number with the statement it stands for; an error and ~0 are -1.
Count(k, n) == [of |-> k, n |-> n]
NoCount == Count(NoStatement, -1)

NoReply == [kind |-> "none", of |-> NoStatement, n |-> -1]

\* MySQL executes k, or refuses it.
Replies(k) ==
  {[kind |-> "error", of |-> k, n |-> -1]} \cup
  IF k \in Selects THEN [kind : {"rows"}, of : {k}, n : 0 .. MaxRows]
                   ELSE [kind : {"ok"}, of : {k}, n : 0 .. 1]

NoAnswer == [kind |-> "none", of |-> NoStatement, n |-> -1]

SqlTypeOK ==
  /\ pc \in [Workers -> {"idle", "query", "read", "use", "affected", "answer", "fetch",
                         "records", "unselect"}]
  /\ task \in [Workers -> Statements \cup {NoStatement}]
  /\ res \in [Workers -> Statements \cup {NoStatement}]
  /\ fetched \in [Workers -> 0 .. MaxRows]
  /\ status \in {"READY", "GET_RESULT", "USE_RESULT"}
  /\ fields \in Statements \cup {NoStatement}
  /\ rows \in 0 .. MaxRows
  /\ lost \in BOOLEAN /\ mixed \in BOOLEAN

SqlInit ==
  /\ pc = [w \in Workers |-> "idle"]
  /\ task = [w \in Workers |-> NoStatement]
  /\ nRet = [w \in Workers |-> NoCount]
  /\ res = [w \in Workers |-> NoStatement]
  /\ fetched = [w \in Workers |-> 0]
  /\ status = "READY"
  /\ fields = NoStatement
  /\ affected = NoCount
  /\ wire = <<>>
  /\ rows = 0
  /\ lost = FALSE
  /\ reply = [k \in Statements |-> NoReply]
  /\ answer = [k \in Statements |-> NoAnswer]
  /\ mixed = FALSE

At(w, from, to) ==
  /\ pc[w] = from
  /\ pc' = [pc EXCEPT ![w] = to]

\* A thread of the pool begins Execute of statement k.
StartExecute(w, k) ==
  /\ At(w, "idle", "query")
  /\ task' = [task EXCEPT ![w] = k]
  /\ UNCHANGED <<nRet, res, fetched, handleVars, reply, answer, mixed>>

-----------------------------------------------------------------------------
(* CMysql::Query. *)

\* A thread between the beginning of its query and the last use of its result.
UsesHandle(w) == pc[w] \in {"read", "use", "affected"} \/ res[w] # NoStatement

BeginsQuery(w) == mixed' = (mixed \/ \E v \in Workers \ {w} : UsesHandle(v))

\* Query returns -1 with res still NULL.
QueryFails(w) ==
  /\ pc' = [pc EXCEPT ![w] = "answer"]
  /\ nRet' = [nRet EXCEPT ![w] = NoCount]
  /\ UNCHANGED <<task, res, fetched, answer>>

\* mysql_query: the command is out of sync, or the connection is gone.
QueryRefused(w) ==
  /\ pc[w] = "query"
  /\ lost \/ status # "READY"
  /\ QueryFails(w)
  /\ BeginsQuery(w)
  /\ UNCHANGED <<handleVars, reply>>

\* mysql_query: the command is written, and MySQL executes it.
QuerySend(w) ==
  /\ ~ lost
  /\ status = "READY"
  /\ Overlap \/ \A v \in Workers : pc[v] # "read"
  /\ At(w, "query", "read")
  /\ affected' = NoCount
  /\ \E r \in Replies(task[w]) :
       /\ wire' = Append(wire, r)
       /\ reply' = [reply EXCEPT ![task[w]] = r]
  /\ BeginsQuery(w)
  /\ UNCHANGED <<task, nRet, res, fetched, status, fields, rows, lost, answer>>

\* mysql_query: the first reply on the wire is read.
QueryRead(w) ==
  /\ pc[w] = "read"
  /\ ~ lost
  /\ status = "READY"
  /\ wire # <<>>
  /\ wire' = Tail(wire)
  /\ LET r == Head(wire)
     IN  \/ /\ r.kind = "error"
            /\ QueryFails(w)
            /\ fields' = NoStatement
            /\ UNCHANGED <<status, affected, rows>>
         \/ /\ r.kind = "ok"
            /\ At(w, "read", "use")
            /\ affected' = Count(r.of, r.n)
            /\ fields' = NoStatement
            /\ UNCHANGED <<task, nRet, res, fetched, answer, status, rows>>
         \/ /\ r.kind = "rows"
            /\ At(w, "read", "use")
            /\ status' = "GET_RESULT"
            /\ fields' = r.of
            /\ rows' = r.n
            /\ UNCHANGED <<task, nRet, res, fetched, answer, affected>>
  /\ UNCHANGED <<lost, reply, mixed>>

\* mysql_query: another thread reads from the socket at the same time or has rows
\* on the wire; the packets make no sense, and the library gives up.
QueryLost(w) ==
  /\ pc[w] = "read"
  /\ lost \/ status # "READY" \/ \E v \in Workers \ {w} : pc[v] = "read"
  /\ QueryFails(w)
  /\ lost' = TRUE
  /\ wire' = <<>>
  /\ fields' = NoStatement
  /\ UNCHANGED <<status, affected, rows, reply, mixed>>

\* mysql_use_result: whatever result set is announced on the handle.
UseResult(w) ==
  /\ At(w, "use", "affected")
  /\ IF fields # NoStatement /\ status = "GET_RESULT"
     THEN /\ res' = [res EXCEPT ![w] = fields]
          /\ fields' = NoStatement
          /\ status' = "USE_RESULT"
     ELSE UNCHANGED <<res, fields, status>>
  /\ UNCHANGED <<task, nRet, fetched, affected, wire, rows, lost, reply, answer, mixed>>

\* mysql_affected_rows: the number on the handle now.
AffectedRows(w) ==
  /\ At(w, "affected", "answer")
  /\ nRet' = [nRet EXCEPT ![w] = affected]
  /\ UNCHANGED <<task, res, fetched, handleVars, reply, answer, mixed>>

-----------------------------------------------------------------------------
(* The rest of CSqlTask::Execute. *)

\* res is NULL: the count is the answer.
SendCount(w) ==
  /\ res[w] = NoStatement
  /\ At(w, "answer", "unselect")
  /\ answer' = [answer EXCEPT ![task[w]] =
                  [kind |-> "count", of |-> nRet[w].of, n |-> nRet[w].n]]
  /\ UNCHANGED <<task, nRet, res, fetched, handleVars, reply, mixed>>

\* SendResByteAry sends the names of the columns ...
SendFields(w) ==
  /\ res[w] # NoStatement
  /\ At(w, "answer", "fetch")
  /\ UNCHANGED <<task, nRet, res, fetched, handleVars, reply, answer, mixed>>

\* ... copies the rows one by one ...
FetchRow(w) ==
  /\ pc[w] = "fetch"
  /\ ~ lost
  /\ status = "USE_RESULT"
  /\ rows > 0
  /\ rows' = rows - 1
  /\ fetched' = [fetched EXCEPT ![w] = @ + 1]
  /\ UNCHANGED <<pc, task, nRet, res, status, fields, affected, wire, lost, reply, answer, mixed>>

\* Mutant: the loop ends with the last row, not with the NULL behind it.
FetchEndOpen(w) ==
  /\ At(w, "fetch", "records")
  /\ rows = 0 \/ lost \/ status # "USE_RESULT"
  /\ UNCHANGED <<task, nRet, res, fetched, handleVars, reply, answer, mixed>>

\* ... until mysql_fetch_row returns NULL, which also makes the handle ready ...
FetchEnd(w) ==
  /\ At(w, "fetch", "records")
  /\ rows = 0 \/ lost \/ status # "USE_RESULT"
  /\ status' = "READY"
  /\ UNCHANGED <<task, nRet, res, fetched, fields, affected, wire, rows, lost, reply, answer, mixed>>

\* ... and sends them.
SendRecords(w) ==
  /\ At(w, "records", "unselect")
  /\ answer' = [answer EXCEPT ![task[w]] =
                  [kind |-> "rows", of |-> res[w], n |-> fetched[w]]]
  /\ res' = [res EXCEPT ![w] = NoStatement]
  /\ UNCHANGED <<task, nRet, fetched, handleVars, reply, mixed>>

\* UnSelect, and Execute returns.
EndExecute(w) ==
  /\ At(w, "unselect", "idle")
  /\ task' = [task EXCEPT ![w] = NoStatement]
  /\ nRet' = [nRet EXCEPT ![w] = NoCount]
  /\ fetched' = [fetched EXCEPT ![w] = 0]
  /\ UNCHANGED <<res, handleVars, reply, answer, mixed>>

-----------------------------------------------------------------------------
(* Properties. *)

\* What the client of k should be told.
OwnAnswer(k) ==
  IF reply[k].kind = "rows" THEN [kind |-> "rows", of |-> k, n |-> reply[k].n]
  ELSE [kind |-> "count", n |-> reply[k].n,
        of |-> IF reply[k].kind = "error" THEN NoStatement ELSE k]

\* Every statement leaves the handle ready for the next one: as long as no two
\* queries have met on it, every answer of Execute is MySQL's reply to the client's
\* own statement, a refused one and an empty result included.
AnswersOwnStatement ==
  ~ mixed => \A k \in Statements : answer[k].kind # "none" => answer[k] = OwnAnswer(k)

\* "Send the number of rows that the insert, delete or update affected"
\* (CServer.cpp:167): the number sent for a statement that MySQL has executed is the
\* number of rows it affected.
CountsOwnRows ==
  \A k \in Statements \ Selects :
    answer[k].kind = "count" /\ reply[k].kind = "ok" => answer[k] = OwnAnswer(k)
=============================================================================
