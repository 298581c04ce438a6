-------------------------- MODULE SchoolSystemProofs --------------------------
(***************************************************************************)
(* The whole system, for any number of clients, threads and statements,    *)
(* any lengths of rows, column names, ints and packets.                    *)
(***************************************************************************)
EXTENDS SchoolSystem, AnswerStreamProofs

-----------------------------------------------------------------------------
(* The start of the server. *)

\* What the statements before step have made sure of.
CreatedSoFar ==
  /\ step > 1 => "test" \in schema
  /\ step > 3 => "t_class" \in schema
  /\ step > 4 => "t_student" \in schema
  /\ step > 5 => "t_course" \in schema

StartInv ==
  /\ StartTypeOK
  /\ server = "init" => step = 1
  /\ server = "create" => step \in 1 .. 6 /\ CreatedSoFar
  /\ server \in {"listen", "up"} => schema = WholeSchema

\* The statements of CreateTables, one by one.
LEMMA DdlShape ==
  /\ Len(Ddl) = 6
  /\ Ddl[1].makes = {"test"} /\ Ddl[1].needs = {}
  /\ Ddl[2].makes = {} /\ Ddl[2].needs = {"test"}
  /\ Ddl[3].makes = {"t_class"} /\ Ddl[3].needs = {"test"}
  /\ Ddl[4].makes = {"t_student"} /\ Ddl[4].needs = {"test", "t_class"}
  /\ Ddl[5].makes = {"t_course"} /\ Ddl[5].needs = {"test"}
  /\ Ddl[6].makes = {"t_select"} /\ Ddl[6].needs = {"test", "t_course", "t_student"}
  /\ WholeSchema = {"test", "t_class", "t_student", "t_course", "t_select"}
<1>1. Len(Ddl) = 6 /\ DOMAIN Ddl = 1 .. 6
  BY DEF Ddl
<1>2. Ddl[1].makes = {"test"} /\ Ddl[1].needs = {}
  BY DEF Ddl
<1>3. Ddl[2].makes = {} /\ Ddl[2].needs = {"test"}
  BY DEF Ddl
<1>4. Ddl[3].makes = {"t_class"} /\ Ddl[3].needs = {"test"}
  BY DEF Ddl
<1>5. Ddl[4].makes = {"t_student"} /\ Ddl[4].needs = {"test", "t_class"}
  BY DEF Ddl
<1>6. Ddl[5].makes = {"t_course"} /\ Ddl[5].needs = {"test"}
  BY DEF Ddl
<1>7. Ddl[6].makes = {"t_select"} /\ Ddl[6].needs = {"test", "t_course", "t_student"}
  BY DEF Ddl
<1>8. \A i \in 1 .. 6 : i = 1 \/ i = 2 \/ i = 3 \/ i = 4 \/ i = 5 \/ i = 6
  OBVIOUS
<1>9. WholeSchema = {"test", "t_class", "t_student", "t_course", "t_select"}
  BY <1>1, <1>2, <1>3, <1>4, <1>5, <1>6, <1>7, <1>8 DEF WholeSchema
<1> QED
  BY <1>1, <1>2, <1>3, <1>4, <1>5, <1>6, <1>7, <1>9

\* One statement of CreateTables.
LEMMA CreateNextKeeps ==
  ASSUME StartInv, CreateNext
  PROVE  StartInv'
<1>1. /\ server = "create" /\ step \in 1 .. 6 /\ CreatedSoFar
      /\ schema \subseteq {"test", "t_class", "t_student", "t_course", "t_select"}
  BY DdlShape DEF StartInv, StartTypeOK, CreateNext
<1>2. /\ schema' = schema \cup Ddl[step].makes /\ step' = step + 1
      /\ server' = IF step = 6 THEN "listen" ELSE "create"
  BY DdlShape DEF CreateNext
<1>3. CASE step \in 1 .. 5
  <2>1. server' = "create" /\ step' \in 1 .. 6
    BY <1>2, <1>3
  <2>2. /\ CreatedSoFar'
        /\ schema' \subseteq {"test", "t_class", "t_student", "t_course", "t_select"}
    <3>1. CASE step = 1
      BY <1>1, <1>2, <3>1, DdlShape DEF CreatedSoFar
    <3>2. CASE step = 2
      BY <1>1, <1>2, <3>2, DdlShape DEF CreatedSoFar
    <3>3. CASE step = 3
      BY <1>1, <1>2, <3>3, DdlShape DEF CreatedSoFar
    <3>4. CASE step = 4
      BY <1>1, <1>2, <3>4, DdlShape DEF CreatedSoFar
    <3>5. CASE step = 5
      BY <1>1, <1>2, <3>5, DdlShape DEF CreatedSoFar
    <3> QED
      BY <1>3, <3>1, <3>2, <3>3, <3>4, <3>5
  <2> QED
    BY <2>1, <2>2, DdlShape DEF StartInv, StartTypeOK
<1>4. CASE step = 6
  <2>1. server' = "listen" /\ step' = 7
    BY <1>2, <1>4
  <2>2. schema' = {"test", "t_class", "t_student", "t_course", "t_select"}
    <3>1. "test" \in schema /\ "t_class" \in schema /\ "t_student" \in schema /\ "t_course" \in schema
      BY <1>1, <1>4 DEF CreatedSoFar
    <3>2. schema' = schema \cup {"t_select"}
      BY <1>2, <1>4, DdlShape
    <3> QED
      BY <1>1, <3>1, <3>2
  <2> QED
    BY <2>1, <2>2, DdlShape DEF StartInv, StartTypeOK
<1> QED
  BY <1>1, <1>3, <1>4

\* The steps of the start, and those that leave it alone.
LEMMA StartKeeps ==
  ASSUME StartInv, StartStep \/ UNCHANGED startVars
  PROVE  StartInv'
<1>1. CASE UNCHANGED startVars
  BY <1>1 DEF StartInv, StartTypeOK, CreatedSoFar, startVars
<1>2. CASE Launch
  BY <1>2, DdlShape DEF Launch, StartInv, StartTypeOK
<1>3. CASE InitMysql
  BY <1>3, DdlShape DEF InitMysql, StartInv, StartTypeOK, CreatedSoFar
<1>4. CASE CreateNext
  BY <1>4, CreateNextKeeps
<1>5. CASE CreateFails
  BY <1>5 DEF CreateFails, StartInv, StartTypeOK
<1>6. CASE Listen
  BY <1>6 DEF Listen, StartInv, StartTypeOK
<1>7. CASE StartFails
  BY <1>7 DEF StartFails, StartInv, StartTypeOK
<1> QED
  BY <1>1, <1>2, <1>3, <1>4, <1>5, <1>6, <1>7 DEF StartStep

\* Every other step leaves the start alone.
LEMMA StartSteps ==
  ASSUME [Next]_vars
  PROVE  StartStep \/ UNCHANGED startVars
BY DEF Next, vars, Boot, SendSql, Start, Dispatched, Execute, Query, AnswerCount, AnswerFields,
  AnswerRecords, SendsTo, Receive

\* The start keeps its invariant.
LEMMA StartInvariant == Spec => []StartInv
<1>1. Init => StartInv
  BY DdlShape DEF Init, StartInit, StartInv, StartTypeOK
<1>2. StartInv /\ [Next]_vars => StartInv'
  BY StartKeeps, StartSteps
<1> QED
  BY <1>1, <1>2, PTL DEF Spec

\* "Create the tables if they do not exist" (CServer.cpp:93): wherever earlier starts
\* were cut short, each statement of the next one finds what it refers to, and a server
\* that listens has the whole schema.
THEOREM SystemStartsFromAnySchema == Spec => []StartsFromAnySchema
<1>1. StartInv => StartsFromAnySchema
  <2>1. SUFFICES ASSUME StartInv, server = "create" PROVE Ddl[step].needs \subseteq schema
    BY DEF StartInv, StartsFromAnySchema
  <2>2. step \in 1 .. 6 /\ CreatedSoFar
    BY <2>1 DEF StartInv
  <2>3. CASE step = 1
    BY <2>3, DdlShape
  <2>4. CASE step = 2
    BY <2>2, <2>4, DdlShape DEF CreatedSoFar
  <2>5. CASE step = 3
    BY <2>2, <2>5, DdlShape DEF CreatedSoFar
  <2>6. CASE step = 4
    BY <2>2, <2>6, DdlShape DEF CreatedSoFar
  <2>7. CASE step = 5
    BY <2>2, <2>7, DdlShape DEF CreatedSoFar
  <2>8. CASE step = 6
    BY <2>2, <2>8, DdlShape DEF CreatedSoFar
  <2> QED
    BY <2>2, <2>3, <2>4, <2>5, <2>6, <2>7, <2>8
<1> QED
  BY <1>1, StartInvariant, PTL

-----------------------------------------------------------------------------
(* The threads of the pool, whether or not two of them have met on the handle. *)

Counts == [of : Statements \cup {NoStatement}, n : Int]

AllReplies ==
  {r \in [kind : {"error", "ok", "rows"}, of : Statements, n : Int] :
     r.kind = "rows" => r.n \in 0 .. MaxRows}

SqlTypes ==
  /\ SqlTypeOK
  /\ nRet \in [Workers -> Counts]
  /\ affected \in Counts
  /\ wire \in Seq(AllReplies)
  /\ DOMAIN reply = Statements /\ DOMAIN answer = Statements

\* A thread that may still read rows of a result set.
Holds(w) == res[w] # NoStatement /\ pc[w] \in {"affected", "answer", "fetch"}

\* Where a thread is in Execute tells whether it has a result and has answered; only
\* one that holds a result keeps the handle from the next query.
WorkerFits(w) ==
  /\ pc[w] = "idle" <=> task[w] = NoStatement
  /\ pc[w] \in {"idle", "query", "read", "use", "unselect"} => res[w] = NoStatement
  /\ pc[w] \in {"fetch", "records"} => res[w] # NoStatement
  /\ pc[w] \in {"idle", "query", "read", "use"} => fetched[w] = 0
  /\ Holds(w) => status = "USE_RESULT" /\ fetched[w] + rows <= MaxRows
  /\ pc[w] \notin {"idle", "unselect"} => answer[task[w]] = NoAnswer
  /\ pc[w] = "unselect" => answer[task[w]] # NoAnswer

\* Two threads execute for two clients, and one of them at most holds a result.
OneEach ==
  \A w, v \in Workers : w # v =>
    /\ task[w] # NoStatement /\ task[v] # NoStatement => Client[task[w]] # Client[task[v]]
    /\ ~ (Holds(w) /\ Holds(v))

SqlInv == SqlTypes /\ (\A w \in Workers : WorkerFits(w)) /\ OneEach

OnlyWorker(w) ==
  \A v \in Workers : v # w =>
    /\ pc'[v] = pc[v] /\ task'[v] = task[v] /\ nRet'[v] = nRet[v]
    /\ res'[v] = res[v] /\ fetched'[v] = fetched[v]

\* What MySQL replies to a statement.
LEMMA RepliesShape ==
  ASSUME NEW k \in Statements, NEW r \in Replies(k)
  PROVE  /\ r \in AllReplies /\ r.of = k /\ r.kind \in {"error", "ok", "rows"} /\ r.n \in Int
         /\ r.kind = "error" => r.n = -1
         /\ r.kind = "ok" => k \notin Selects
         /\ r.kind = "rows" => k \in Selects /\ r.n \in 0 .. MaxRows
BY SqlAssumption DEF Replies, AllReplies

\* Two threads have two tasks.
LEMMA TasksDiffer ==
  ASSUME SqlInv, NEW w \in Workers, NEW v \in Workers, v # w, task[w] # NoStatement
  PROVE  task[v] # task[w]
BY DEF SqlInv, OneEach

\* What a step of one thread leaves the others.
LEMMA OtherWorkers ==
  ASSUME SqlInv, NEW w \in Workers, SqlTypes', WorkerFits(w)', OnlyWorker(w),
         \/ task'[w] = task[w]
         \/ task'[w] = NoStatement
         \/ \A v \in Workers : v # w /\ task[v] # NoStatement => Client[task[v]] # Client[task'[w]],
         \A v \in Workers : v # w /\ Holds(v) => status' = status /\ rows' = rows /\ ~ Holds(w)',
         \A v \in Workers : v # w /\ task[v] # NoStatement => answer'[task[v]] = answer[task[v]]
  PROVE  SqlInv'
<1>1. ASSUME NEW v \in Workers, v # w PROVE WorkerFits(v)' /\ (Holds(v)' <=> Holds(v))
  <2>1. pc'[v] = pc[v] /\ task'[v] = task[v] /\ res'[v] = res[v] /\ fetched'[v] = fetched[v]
    BY <1>1 DEF OnlyWorker
  <2>2. WorkerFits(v)
    BY DEF SqlInv
  <2>3. Holds(v)' <=> Holds(v)
    BY <2>1 DEF Holds
  <2>4. task[v] # NoStatement => answer'[task[v]] = answer[task[v]]
    BY <1>1
  <2>5. Holds(v) => status' = status /\ rows' = rows
    BY <1>1
  <2> QED
    BY <2>1, <2>2, <2>3, <2>4, <2>5 DEF WorkerFits
<1>2. ASSUME NEW v \in Workers, v # w
      PROVE  /\ task'[w] # NoStatement /\ task'[v] # NoStatement => Client[task'[w]] # Client[task'[v]]
             /\ ~ (Holds(w)' /\ Holds(v)')
  <2>1. task'[v] = task[v]
    BY <1>2 DEF OnlyWorker
  <2>2. task[w] # NoStatement /\ task[v] # NoStatement => Client[task[w]] # Client[task[v]]
    BY <1>2 DEF SqlInv, OneEach
  <2> QED
    BY <1>1, <1>2, <2>1, <2>2
<1>3. ASSUME NEW u \in Workers, NEW v \in Workers, u # w, v # w, u # v
      PROVE  /\ task'[u] # NoStatement /\ task'[v] # NoStatement => Client[task'[u]] # Client[task'[v]]
             /\ ~ (Holds(u)' /\ Holds(v)')
  <2>1. task'[v] = task[v] /\ task'[u] = task[u]
    BY <1>3 DEF OnlyWorker
  <2> QED
    BY <1>1, <1>3, <2>1 DEF SqlInv, OneEach
<1>4. OneEach'
  BY <1>2, <1>3 DEF OneEach
<1> QED
  BY <1>1, <1>4 DEF SqlInv

\* A step that changes neither the result sets nor an answer leaves the others alone.
LEMMA OtherWorkersStay ==
  ASSUME SqlInv, NEW w \in Workers, SqlTypes', WorkerFits(w)', OnlyWorker(w), task' = task,
         status' = status, rows' = rows, answer' = answer, Holds(w)' => Holds(w)
  PROVE  SqlInv'
<1>1. \A v \in Workers : v # w /\ Holds(v) => status' = status /\ rows' = rows /\ ~ Holds(w)'
  BY DEF SqlInv, OneEach
<1> QED
  BY <1>1, OtherWorkers

\* Execute begins.
LEMMA SqlStart ==
  ASSUME SqlInv, NEW w \in Workers, NEW k \in Statements, Start(w, k), answer[k] = NoAnswer
  PROVE  SqlInv'
<1>1. SqlTypes /\ WorkerFits(w)
  BY DEF SqlInv
<1>2. /\ pc[w] = "idle" /\ pc' = [pc EXCEPT ![w] = "query"] /\ task' = [task EXCEPT ![w] = k]
      /\ nRet' = nRet /\ res' = res /\ fetched' = fetched /\ reply' = reply /\ answer' = answer
      /\ mixed' = mixed /\ UNCHANGED handleVars
      /\ \A v \in Workers : task[v] # NoStatement => Client[task[v]] # Client[k]
  BY DEF Start, Dispatched, StartExecute, At
<1>3. /\ pc'[w] = "query" /\ task'[w] = k /\ OnlyWorker(w)
  BY <1>1, <1>2 DEF SqlTypes, SqlTypeOK, OnlyWorker
<1>4. SqlTypes'
  BY <1>1, <1>2 DEF SqlTypes, SqlTypeOK, handleVars
<1>5. k # NoStatement
  BY SqlAssumption
<1>6. WorkerFits(w)'
  BY <1>1, <1>2, <1>3, <1>5 DEF WorkerFits, Holds
<1>7. \A v \in Workers : v # w /\ Holds(v) => status' = status /\ rows' = rows /\ ~ Holds(w)'
  BY <1>2, <1>3 DEF Holds, handleVars
<1> QED
  BY <1>2, <1>3, <1>4, <1>6, <1>7, OtherWorkers

\* mysql_query returns an error.
LEMMA SqlFails ==
  ASSUME SqlInv, NEW w \in Workers, pc[w] \in {"query", "read"}, QueryFails(w),
         status' = status, rows' = rows, SqlTypes'
  PROVE  SqlInv'
<1>1. SqlTypes /\ WorkerFits(w)
  BY DEF SqlInv
<1>2. /\ pc' = [pc EXCEPT ![w] = "answer"] /\ nRet' = [nRet EXCEPT ![w] = NoCount]
      /\ task' = task /\ res' = res /\ fetched' = fetched /\ answer' = answer
  BY DEF QueryFails
<1>3. pc'[w] = "answer" /\ OnlyWorker(w)
  BY <1>1, <1>2 DEF SqlTypes, SqlTypeOK, OnlyWorker
<1>4. res[w] = NoStatement /\ task[w] # NoStatement
  BY <1>1 DEF WorkerFits
<1>5. WorkerFits(w)' /\ ~ Holds(w)'
  BY <1>1, <1>2, <1>3, <1>4 DEF WorkerFits, Holds
<1> QED
  BY <1>2, <1>3, <1>5, OtherWorkersStay

\* A number with its statement.
LEMMA CountType ==
  /\ NoCount \in Counts
  /\ \A k \in Statements, n \in Int : Count(k, n) \in Counts
BY DEF NoCount, Count, Counts

\* The types after an error.
LEMMA FailsTypes ==
  ASSUME SqlTypes, NEW w \in Workers, QueryFails(w)
  PROVE  /\ pc' \in [Workers -> {"idle", "query", "read", "use", "affected", "answer", "fetch",
                                 "records", "unselect"}]
         /\ nRet' \in [Workers -> Counts]
         /\ task' = task /\ res' = res /\ fetched' = fetched /\ answer' = answer
BY CountType DEF SqlTypes, SqlTypeOK, QueryFails

\* mysql_query.
LEMMA SqlQuery ==
  ASSUME SqlInv, NEW w \in Workers, QueryRefused(w) \/ QuerySend(w) \/ QueryRead(w) \/ QueryLost(w)
  PROVE  SqlInv'
<1>1. SqlTypes /\ SqlTypeOK /\ WorkerFits(w)
  BY DEF SqlInv, SqlTypes
<1>2. BeginsQuery(w) => mixed' \in BOOLEAN
  BY DEF BeginsQuery
<1>3. CASE QueryRefused(w)
  <2>1. /\ pc[w] = "query" /\ QueryFails(w) /\ UNCHANGED handleVars /\ reply' = reply
        /\ mixed' \in BOOLEAN
    BY <1>2, <1>3 DEF QueryRefused
  <2>2. SqlTypes'
    BY <1>1, <2>1, FailsTypes DEF SqlTypes, SqlTypeOK, handleVars
  <2> QED
    BY <2>1, <2>2, SqlFails DEF handleVars
<1>4. CASE QuerySend(w)
  <2>1. /\ pc[w] = "query" /\ pc' = [pc EXCEPT ![w] = "read"]
        /\ affected' = NoCount /\ mixed' \in BOOLEAN
        /\ UNCHANGED <<task, nRet, res, fetched, status, fields, rows, lost, answer>>
    BY <1>2, <1>4 DEF QuerySend, At
  <2>2. task[w] \in Statements
    BY <1>1, <2>1 DEF WorkerFits, SqlTypeOK
  <2>3. PICK r \in Replies(task[w]) :
          wire' = Append(wire, r) /\ reply' = [reply EXCEPT ![task[w]] = r]
    BY <1>4 DEF QuerySend
  <2>4. r \in AllReplies
    BY <2>2, RepliesShape
  <2>5. wire' \in Seq(AllReplies) /\ DOMAIN reply' = Statements
    BY <1>1, <2>3, <2>4, AppendProperties DEF SqlTypes
  <2>6. SqlTypes'
    BY <1>1, <2>1, <2>5, CountType DEF SqlTypes, SqlTypeOK
  <2>7. pc'[w] = "read" /\ OnlyWorker(w)
    BY <1>1, <2>1 DEF SqlTypeOK, OnlyWorker
  <2>8. WorkerFits(w)' /\ ~ Holds(w)'
    BY <1>1, <2>1, <2>7 DEF WorkerFits, Holds
  <2> QED
    BY <2>1, <2>6, <2>7, <2>8, OtherWorkersStay
<1>5. CASE QueryRead(w)
  <2> DEFINE r == Head(wire)
  <2>1. /\ pc[w] = "read" /\ status = "READY" /\ wire # <<>> /\ wire' = Tail(wire)
        /\ lost' = lost /\ reply' = reply /\ mixed' = mixed
    BY <1>5 DEF QueryRead
  <2>2. r \in AllReplies /\ wire' \in Seq(AllReplies)
    BY <1>1, <2>1, HeadTailProperties DEF SqlTypes
  <2>3. r.kind \in {"error", "ok", "rows"} /\ r.of \in Statements /\ r.n \in Int
    BY <2>2 DEF AllReplies
  <2>4. r.kind = "rows" => r.n \in 0 .. MaxRows
    BY <2>2 DEF AllReplies
  <2>5. \A v \in Workers : ~ Holds(v)
    BY <2>1 DEF SqlInv, WorkerFits
  <2>6. CASE r.kind = "error" /\ QueryFails(w) /\ fields' = NoStatement /\ UNCHANGED <<status, affected, rows>>
    <3>1. SqlTypes'
      BY <1>1, <2>1, <2>2, <2>6, FailsTypes DEF SqlTypes, SqlTypeOK
    <3> QED
      BY <2>1, <2>6, <3>1, SqlFails
  <2>7. CASE /\ pc' = [pc EXCEPT ![w] = "use"]
             /\ UNCHANGED <<task, nRet, res, fetched, answer>>
             /\ \/ /\ affected' = Count(r.of, r.n) /\ fields' = NoStatement
                   /\ UNCHANGED <<status, rows>>
                \/ /\ r.kind = "rows" /\ status' = "GET_RESULT" /\ fields' = r.of /\ rows' = r.n
                   /\ UNCHANGED affected
    <3> HIDE DEF r
    <3>1. pc'[w] = "use" /\ OnlyWorker(w)
      BY <1>1, <2>7 DEF SqlTypeOK, OnlyWorker
    <3>2. pc' \in [Workers -> {"idle", "query", "read", "use", "affected", "answer", "fetch",
                               "records", "unselect"}]
      BY <1>1, <2>7 DEF SqlTypeOK
    <3>3. /\ affected' \in Counts /\ fields' \in Statements \cup {NoStatement}
          /\ status' \in {"READY", "GET_RESULT", "USE_RESULT"} /\ rows' \in 0 .. MaxRows
      BY <1>1, <2>3, <2>4, <2>7, CountType DEF SqlTypes, SqlTypeOK
    <3>4. SqlTypes'
      BY <1>1, <2>1, <2>2, <2>7, <3>2, <3>3 DEF SqlTypes, SqlTypeOK
    <3>5. WorkerFits(w)' /\ ~ Holds(w)'
      BY <1>1, <2>1, <2>7, <3>1 DEF WorkerFits, Holds
    <3> QED
      BY <2>5, <2>7, <3>1, <3>4, <3>5, OtherWorkers
  <2> QED
    BY <1>5, <2>6, <2>7 DEF QueryRead, At
<1>6. CASE QueryLost(w)
  <2>1. /\ pc[w] = "read" /\ QueryFails(w) /\ lost' = TRUE /\ wire' = <<>> /\ fields' = NoStatement
        /\ UNCHANGED <<status, affected, rows, reply, mixed>>
    BY <1>6 DEF QueryLost
  <2>2. SqlTypes'
    BY <1>1, <2>1, FailsTypes, EmptySeq DEF SqlTypes, SqlTypeOK
  <2> QED
    BY <2>1, <2>2, SqlFails
<1> QED
  BY <1>3, <1>4, <1>5, <1>6

\* The calls after mysql_query, and the end of Execute.
LEMMA SqlResult ==
  ASSUME SqlInv, NEW w \in Workers,
         UseResult(w) \/ AffectedRows(w) \/ FetchRow(w) \/ FetchEnd(w) \/ EndExecute(w)
  PROVE  SqlInv'
<1>1. SqlTypes /\ SqlTypeOK /\ WorkerFits(w)
  BY DEF SqlInv, SqlTypes
<1>2. CASE UseResult(w)
  <2>1. /\ pc[w] = "use" /\ pc' = [pc EXCEPT ![w] = "affected"]
        /\ UNCHANGED <<task, nRet, fetched, affected, wire, rows, lost, reply, answer, mixed>>
    BY <1>2 DEF UseResult, At
  <2>2. pc'[w] = "affected" /\ res[w] = NoStatement /\ fetched[w] = 0 /\ task[w] # NoStatement
    BY <1>1, <2>1 DEF SqlTypeOK, WorkerFits
  <2>3. CASE fields # NoStatement /\ status = "GET_RESULT"
    <3>1. res' = [res EXCEPT ![w] = fields] /\ fields' = NoStatement /\ status' = "USE_RESULT"
      BY <1>2, <2>3 DEF UseResult
    <3>2. OnlyWorker(w)
      BY <1>1, <2>1, <3>1 DEF SqlTypeOK, OnlyWorker
    <3>3. SqlTypes'
      BY <1>1, <2>1, <3>1 DEF SqlTypes, SqlTypeOK
    <3>4. \A v \in Workers : ~ Holds(v)
      BY <2>3 DEF SqlInv, WorkerFits
    <3>5. fetched'[w] + rows' <= MaxRows
      BY <1>1, <2>1, <2>2, SqlAssumption DEF SqlTypeOK
    <3>6. res'[w] # NoStatement
      BY <1>1, <2>3, <3>1 DEF SqlTypeOK
    <3>7. WorkerFits(w)'
      BY <1>1, <2>1, <2>2, <3>1, <3>5, <3>6 DEF WorkerFits, Holds
    <3> QED
      BY <2>1, <3>2, <3>3, <3>4, <3>7, OtherWorkers
  <2>4. CASE ~ (fields # NoStatement /\ status = "GET_RESULT")
    <3>1. UNCHANGED <<res, fields, status>>
      BY <1>2, <2>4 DEF UseResult
    <3>2. OnlyWorker(w)
      BY <1>1, <2>1, <3>1 DEF SqlTypeOK, OnlyWorker
    <3>3. SqlTypes'
      BY <1>1, <2>1, <3>1 DEF SqlTypes, SqlTypeOK
    <3>4. WorkerFits(w)' /\ ~ Holds(w)'
      BY <1>1, <2>1, <2>2, <3>1 DEF WorkerFits, Holds
    <3> QED
      BY <2>1, <3>1, <3>2, <3>3, <3>4, OtherWorkersStay
  <2> QED
    BY <2>3, <2>4
<1>3. CASE AffectedRows(w)
  <2>1. /\ pc[w] = "affected" /\ pc' = [pc EXCEPT ![w] = "answer"]
        /\ nRet' = [nRet EXCEPT ![w] = affected]
        /\ UNCHANGED <<task, res, fetched, handleVars, reply, answer, mixed>>
    BY <1>3 DEF AffectedRows, At
  <2>2. pc'[w] = "answer" /\ OnlyWorker(w)
    BY <1>1, <2>1 DEF SqlTypes, SqlTypeOK, OnlyWorker
  <2>3. SqlTypes'
    BY <1>1, <2>1 DEF SqlTypes, SqlTypeOK, handleVars
  <2>4. WorkerFits(w)' /\ (Holds(w)' => Holds(w))
    BY <1>1, <2>1, <2>2 DEF WorkerFits, Holds, handleVars
  <2> QED
    BY <2>1, <2>2, <2>3, <2>4, OtherWorkersStay DEF handleVars
<1>4. CASE FetchRow(w)
  <2>1. /\ pc[w] = "fetch" /\ rows > 0 /\ rows' = rows - 1
        /\ fetched' = [fetched EXCEPT ![w] = fetched[w] + 1]
        /\ UNCHANGED <<pc, task, nRet, res, status, fields, affected, wire, lost, reply, answer, mixed>>
    BY <1>4 DEF FetchRow
  <2>2. Holds(w) /\ fetched[w] + rows <= MaxRows
    BY <1>1, <2>1 DEF WorkerFits, Holds
  <2>3. fetched[w] \in Nat /\ rows \in Nat /\ MaxRows \in Nat
    BY <1>1, SqlAssumption DEF SqlTypeOK
  <2>4. rows' \in 0 .. MaxRows /\ fetched[w] + 1 \in 0 .. MaxRows /\ fetched[w] + 1 + rows' <= MaxRows
    BY <2>1, <2>2, <2>3
  <2>5. fetched'[w] = fetched[w] + 1 /\ fetched' \in [Workers -> 0 .. MaxRows] /\ OnlyWorker(w)
    BY <1>1, <2>1, <2>4 DEF SqlTypeOK, OnlyWorker
  <2>6. SqlTypes'
    BY <1>1, <2>1, <2>4, <2>5 DEF SqlTypes, SqlTypeOK
  <2>7. WorkerFits(w)'
    BY <1>1, <2>1, <2>4, <2>5 DEF WorkerFits, Holds
  <2>8. \A v \in Workers : v # w => ~ Holds(v)
    BY <2>2 DEF SqlInv, OneEach
  <2> QED
    BY <2>1, <2>5, <2>6, <2>7, <2>8, OtherWorkers
<1>5. CASE FetchEnd(w)
  <2>1. /\ pc[w] = "fetch" /\ pc' = [pc EXCEPT ![w] = "records"] /\ status' = "READY"
        /\ UNCHANGED <<task, nRet, res, fetched, fields, affected, wire, rows, lost, reply, answer, mixed>>
    BY <1>5 DEF FetchEnd, At
  <2>2. Holds(w)
    BY <1>1, <2>1 DEF WorkerFits, Holds
  <2>3. pc'[w] = "records" /\ OnlyWorker(w)
    BY <1>1, <2>1 DEF SqlTypeOK, OnlyWorker
  <2>4. SqlTypes'
    BY <1>1, <2>1 DEF SqlTypes, SqlTypeOK
  <2>5. WorkerFits(w)'
    BY <1>1, <2>1, <2>3 DEF WorkerFits, Holds
  <2>6. \A v \in Workers : v # w => ~ Holds(v)
    BY <2>2 DEF SqlInv, OneEach
  <2> QED
    BY <2>1, <2>3, <2>4, <2>5, <2>6, OtherWorkers
<1>6. CASE EndExecute(w)
  <2>1. /\ pc[w] = "unselect" /\ pc' = [pc EXCEPT ![w] = "idle"]
        /\ task' = [task EXCEPT ![w] = NoStatement] /\ nRet' = [nRet EXCEPT ![w] = NoCount]
        /\ fetched' = [fetched EXCEPT ![w] = 0]
        /\ UNCHANGED <<res, handleVars, reply, answer, mixed>>
    BY <1>6 DEF EndExecute, At
  <2>2. pc'[w] = "idle" /\ task'[w] = NoStatement /\ fetched'[w] = 0 /\ OnlyWorker(w)
    BY <1>1, <2>1 DEF SqlTypes, SqlTypeOK, OnlyWorker
  <2>3. fetched' \in [Workers -> 0 .. MaxRows]
    BY <1>1, <2>1, SqlAssumption DEF SqlTypeOK
  <2>4. SqlTypes'
    BY <1>1, <2>1, <2>3, CountType DEF SqlTypes, SqlTypeOK, handleVars
  <2>5. WorkerFits(w)' /\ ~ Holds(w)'
    BY <1>1, <2>1, <2>2 DEF WorkerFits, Holds
  <2> QED
    BY <2>1, <2>2, <2>4, <2>5, OtherWorkers DEF handleVars
<1> QED
  BY <1>2, <1>3, <1>4, <1>5, <1>6

\* The parts of the answer.
LEMMA SqlAnswer ==
  ASSUME SqlInv, NEW w \in Workers, SendCount(w) \/ SendFields(w) \/ SendRecords(w)
  PROVE  SqlInv'
<1>1. SqlTypes /\ SqlTypeOK /\ WorkerFits(w)
  BY DEF SqlInv, SqlTypes
<1>2. CASE SendFields(w)
  <2>1. /\ pc[w] = "answer" /\ pc' = [pc EXCEPT ![w] = "fetch"] /\ res[w] # NoStatement
        /\ UNCHANGED <<task, nRet, res, fetched, handleVars, reply, answer, mixed>>
    BY <1>2 DEF SendFields, At
  <2>2. pc'[w] = "fetch" /\ OnlyWorker(w)
    BY <1>1, <2>1 DEF SqlTypeOK, OnlyWorker
  <2>3. SqlTypes'
    BY <1>1, <2>1 DEF SqlTypes, SqlTypeOK, handleVars
  <2>4. WorkerFits(w)' /\ (Holds(w)' => Holds(w))
    BY <1>1, <2>1, <2>2 DEF WorkerFits, Holds, handleVars
  <2> QED
    BY <2>1, <2>2, <2>3, <2>4, OtherWorkersStay DEF handleVars
<1>3. ASSUME NEW a, a # NoAnswer, pc[w] \in {"answer", "records"},
             pc' = [pc EXCEPT ![w] = "unselect"], answer' = [answer EXCEPT ![task[w]] = a],
             res' = [res EXCEPT ![w] = NoStatement],
             UNCHANGED <<task, nRet, fetched, handleVars, reply, mixed>>
      PROVE  SqlInv'
  <2>1. task[w] \in Statements /\ task[w] # NoStatement
    BY <1>1, <1>3 DEF WorkerFits, SqlTypeOK
  <2>2. pc'[w] = "unselect" /\ res'[w] = NoStatement /\ OnlyWorker(w)
    BY <1>1, <1>3 DEF SqlTypeOK, OnlyWorker
  <2>3. /\ DOMAIN answer' = Statements /\ answer'[task[w]] = a
        /\ \A k \in Statements : k # task[w] => answer'[k] = answer[k]
    BY <1>1, <1>3, <2>1 DEF SqlTypes
  <2>4. SqlTypes'
    BY <1>1, <1>3, <2>3 DEF SqlTypes, SqlTypeOK, handleVars
  <2>5. WorkerFits(w)' /\ ~ Holds(w)'
    BY <1>1, <1>3, <2>1, <2>2, <2>3 DEF WorkerFits, Holds
  <2>6. ASSUME NEW v \in Workers, v # w, task[v] # NoStatement PROVE answer'[task[v]] = answer[task[v]]
    <3>1. task[v] \in Statements /\ task[v] # task[w]
      BY <1>1, <2>1, <2>6, TasksDiffer DEF SqlTypeOK
    <3> QED
      BY <2>3, <3>1
  <2> QED
    BY <1>3, <2>2, <2>4, <2>5, <2>6, OtherWorkers DEF handleVars
<1>4. CASE SendCount(w)
  <2> DEFINE a == [kind |-> "count", of |-> nRet[w].of, n |-> nRet[w].n]
  <2>1. /\ pc[w] = "answer" /\ pc' = [pc EXCEPT ![w] = "unselect"] /\ res[w] = NoStatement
        /\ answer' = [answer EXCEPT ![task[w]] = a]
        /\ UNCHANGED <<task, nRet, res, fetched, handleVars, reply, mixed>>
    BY <1>4 DEF SendCount, At
  <2>2. a # NoAnswer
    <3>1. a.kind # NoAnswer.kind
      BY DEF NoAnswer
    <3> QED
      BY <3>1
  <2> HIDE DEF a
  <2>3. res' = [res EXCEPT ![w] = NoStatement]
    BY <1>1, <2>1 DEF SqlTypeOK
  <2> QED
    BY <1>3, <2>1, <2>2, <2>3
<1>5. CASE SendRecords(w)
  <2> DEFINE a == [kind |-> "rows", of |-> res[w], n |-> fetched[w]]
  <2>1. /\ pc[w] = "records" /\ pc' = [pc EXCEPT ![w] = "unselect"]
        /\ res' = [res EXCEPT ![w] = NoStatement]
        /\ answer' = [answer EXCEPT ![task[w]] = a]
        /\ UNCHANGED <<task, nRet, fetched, handleVars, reply, mixed>>
    BY <1>5 DEF SendRecords, At
  <2>2. a # NoAnswer
    <3>1. a.kind # NoAnswer.kind
      BY DEF NoAnswer
    <3> QED
      BY <3>1
  <2> HIDE DEF a
  <2> QED
    BY <1>3, <2>1, <2>2
<1> QED
  BY <1>2, <1>4, <1>5

-----------------------------------------------------------------------------
(* As long as no two queries have met on the handle. *)

HandleReady == status = "READY" /\ fields = NoStatement /\ wire = <<>>

\* What the handle has for a thread that uses it, and what a thread knows of its
\* statement when it no longer does.
WorkerOwns(w) ==
  LET k == task[w]
      r == reply[k]
  IN  /\ pc[w] \notin {"idle", "query"} => r \in Replies(k)
      /\ pc[w] = "read" => status = "READY" /\ fields = NoStatement /\ wire = <<r>>
      /\ pc[w] = "use" =>
           /\ wire = <<>>
           /\ \/ /\ r.kind = "ok" /\ affected = Count(k, r.n)
                 /\ status = "READY" /\ fields = NoStatement
              \/ r.kind = "rows" /\ status = "GET_RESULT" /\ fields = k /\ rows = r.n
      /\ pc[w] = "affected" /\ res[w] = NoStatement =>
           HandleReady /\ r.kind = "ok" /\ affected = Count(k, r.n)
      /\ Holds(w) =>
           /\ res[w] = k /\ r.kind = "rows" /\ fetched[w] + rows = r.n
           /\ status = "USE_RESULT" /\ fields = NoStatement /\ wire = <<>>
      /\ pc[w] = "records" => HandleReady /\ res[w] = k /\ r.kind = "rows" /\ fetched[w] = r.n
      /\ pc[w] = "answer" /\ res[w] = NoStatement =>
           /\ r.kind \in {"ok", "error"}
           /\ nRet[w] = Count(IF r.kind = "error" THEN NoStatement ELSE k, r.n)

OneUser == \A w, v \in Workers : UsesHandle(w) /\ UsesHandle(v) => w = v

AnswersOwn ==
  \A k \in Statements : answer[k] # NoAnswer => answer[k] = OwnAnswer(k) /\ reply[k] \in Replies(k)

Unmixed ==
  /\ ~ lost
  /\ OneUser
  /\ (\A w \in Workers : ~ UsesHandle(w)) => HandleReady
  /\ \A w \in Workers : WorkerOwns(w)
  /\ AnswersOwn

\* A step of one thread.
LEMMA UnmixedStep ==
  ASSUME SqlInv, SqlInv', Unmixed, NEW w \in Workers, OnlyWorker(w), ~ lost',
         \A v \in Workers : v # w /\ UsesHandle(v) => UNCHANGED handleVars /\ ~ UsesHandle(w)',
         \A v \in Workers : v # w /\ task[v] # NoStatement => reply'[task[v]] = reply[task[v]],
         WorkerOwns(w)',
         (\A v \in Workers : v # w => ~ UsesHandle(v)) /\ ~ UsesHandle(w)' => HandleReady',
         AnswersOwn'
  PROVE  Unmixed'
<1>1. ASSUME NEW v \in Workers, v # w PROVE WorkerOwns(v)' /\ (UsesHandle(v)' <=> UsesHandle(v))
  <2>1. /\ pc'[v] = pc[v] /\ task'[v] = task[v] /\ nRet'[v] = nRet[v]
        /\ res'[v] = res[v] /\ fetched'[v] = fetched[v]
    BY <1>1 DEF OnlyWorker
  <2>2. UsesHandle(v)' <=> UsesHandle(v)
    BY <2>1 DEF UsesHandle
  <2>3. WorkerOwns(v) /\ WorkerFits(v)
    BY DEF SqlInv, Unmixed
  <2>4. CASE UsesHandle(v)
    <3>1. UNCHANGED <<status, fields, affected, wire, rows, lost>>
      BY <1>1, <2>4 DEF handleVars
    <3>2. task[v] # NoStatement
      BY <2>3, <2>4 DEF UsesHandle, WorkerFits
    <3>3. reply'[task[v]] = reply[task[v]]
      BY <1>1, <3>2
    <3> QED
      BY <2>1, <2>2, <2>3, <3>1, <3>3 DEF WorkerOwns, Holds, HandleReady
  <2>5. CASE ~ UsesHandle(v)
    <3>1. pc[v] \notin {"read", "use", "affected"} /\ res[v] = NoStatement
      BY <2>5 DEF UsesHandle
    <3>2. pc[v] \notin {"fetch", "records"} /\ ~ Holds(v)
      BY <2>3, <3>1 DEF WorkerFits, Holds
    <3>3. task[v] # NoStatement => reply'[task[v]] = reply[task[v]]
      BY <1>1
    <3>4. pc[v] # "idle" => task[v] # NoStatement
      BY <2>3 DEF WorkerFits
    <3> QED
      BY <2>1, <2>2, <2>3, <3>1, <3>2, <3>3, <3>4 DEF WorkerOwns, Holds
  <2> QED
    BY <2>4, <2>5
<1>2. OneUser'
  BY <1>1 DEF Unmixed, OneUser
<1>3. (\A v \in Workers : ~ UsesHandle(v)') => HandleReady'
  BY <1>1
<1>4. \A v \in Workers : WorkerOwns(v)'
  BY <1>1
<1> QED
  BY <1>2, <1>3, <1>4 DEF Unmixed

\* The only user of the handle makes a step.
LEMMA UserStep ==
  ASSUME SqlInv, SqlInv', Unmixed, NEW w \in Workers, OnlyWorker(w), UsesHandle(w), lost' = lost,
         reply' = reply, WorkerOwns(w)', UsesHandle(w)' \/ HandleReady', AnswersOwn'
  PROVE  Unmixed'
<1>1. \A v \in Workers : v # w => ~ UsesHandle(v)
  BY DEF Unmixed, OneUser
<1>2. ~ lost'
  BY DEF Unmixed
<1> QED
  BY <1>1, <1>2, UnmixedStep

\* A thread that does not use the handle makes a step without it.
LEMMA IdleStep ==
  ASSUME SqlInv, SqlInv', Unmixed, NEW w \in Workers, OnlyWorker(w), ~ UsesHandle(w), ~ UsesHandle(w)',
         UNCHANGED handleVars, reply' = reply, WorkerOwns(w)', AnswersOwn'
  PROVE  Unmixed'
<1>1. ~ lost'
  BY DEF Unmixed, handleVars
<1>2. (\A v \in Workers : v # w => ~ UsesHandle(v)) => HandleReady'
  <2>1. HandleReady => HandleReady'
    BY DEF HandleReady, handleVars
  <2> QED
    BY <2>1 DEF Unmixed
<1> QED
  BY <1>1, <1>2, UnmixedStep

\* Answers and replies that stay as they are.
LEMMA AnswersStay ==
  ASSUME Unmixed, answer' = answer, reply' = reply
  PROVE  AnswersOwn'
BY DEF Unmixed, AnswersOwn, OwnAnswer

\* A statement that has not been answered may get its reply.
LEMMA ReplyStays ==
  ASSUME Unmixed, NEW k \in Statements, answer[k] = NoAnswer, answer' = answer,
         NEW r, reply' = [reply EXCEPT ![k] = r], DOMAIN reply = Statements
  PROVE  AnswersOwn'
<1>1. \A j \in Statements : j # k => reply'[j] = reply[j]
  OBVIOUS
<1> QED
  BY <1>1 DEF Unmixed, AnswersOwn, OwnAnswer

\* Execute begins.
LEMMA UnmixedStart ==
  ASSUME SqlInv, SqlInv', Unmixed, NEW w \in Workers, NEW k \in Statements, Start(w, k)
  PROVE  Unmixed'
<1>1. /\ pc[w] = "idle" /\ pc' = [pc EXCEPT ![w] = "query"] /\ task' = [task EXCEPT ![w] = k]
      /\ nRet' = nRet /\ res' = res /\ fetched' = fetched /\ reply' = reply /\ answer' = answer
      /\ UNCHANGED handleVars
  BY DEF Start, Dispatched, StartExecute, At
<1>2. SqlTypeOK /\ WorkerFits(w)
  BY DEF SqlInv, SqlTypes
<1>3. pc'[w] = "query" /\ res[w] = NoStatement /\ OnlyWorker(w)
  BY <1>1, <1>2 DEF SqlTypeOK, OnlyWorker, WorkerFits
<1>4. ~ UsesHandle(w) /\ ~ UsesHandle(w)'
  BY <1>1, <1>3 DEF UsesHandle
<1>5. WorkerOwns(w)'
  BY <1>1, <1>3 DEF WorkerOwns, Holds
<1> QED
  BY <1>1, <1>3, <1>4, <1>5, IdleStep, AnswersStay

\* mysql_query.
LEMMA UnmixedQuery ==
  ASSUME SqlInv, SqlInv', Unmixed, NEW w \in Workers, ~ mixed',
         QueryRefused(w) \/ QuerySend(w) \/ QueryRead(w) \/ QueryLost(w)
  PROVE  Unmixed'
<1>1. SqlTypes /\ SqlTypeOK /\ WorkerFits(w) /\ WorkerOwns(w) /\ ~ lost
  BY DEF SqlInv, SqlTypes, Unmixed
<1>2. ASSUME pc[w] = "query", BeginsQuery(w)
      PROVE  (\A v \in Workers : ~ UsesHandle(v)) /\ HandleReady
  <2>1. \A v \in Workers : v # w => ~ UsesHandle(v)
    BY <1>2 DEF BeginsQuery
  <2>2. ~ UsesHandle(w)
    BY <1>1, <1>2 DEF UsesHandle, WorkerFits
  <2> QED
    BY <2>1, <2>2 DEF Unmixed
<1>3. CASE QueryRefused(w)
  BY <1>1, <1>2, <1>3 DEF QueryRefused, HandleReady
<1>4. CASE QuerySend(w)
  <2>1. /\ pc[w] = "query" /\ pc' = [pc EXCEPT ![w] = "read"] /\ BeginsQuery(w)
        /\ UNCHANGED <<task, nRet, res, fetched, status, fields, rows, lost, answer>>
    BY <1>4 DEF QuerySend, At
  <2>2. task[w] \in Statements /\ task[w] # NoStatement /\ answer[task[w]] = NoAnswer
    BY <1>1, <2>1 DEF WorkerFits, SqlTypeOK
  <2>3. PICK r \in Replies(task[w]) :
          wire' = Append(wire, r) /\ reply' = [reply EXCEPT ![task[w]] = r]
    BY <1>4 DEF QuerySend
  <2>4. (\A v \in Workers : ~ UsesHandle(v)) /\ HandleReady
    BY <1>2, <2>1
  <2>5. wire' = <<r>>
    BY <2>3, <2>4 DEF HandleReady
  <2>6. pc'[w] = "read" /\ OnlyWorker(w) /\ UsesHandle(w)'
    BY <1>1, <2>1 DEF SqlTypeOK, OnlyWorker, UsesHandle
  <2>7. /\ reply'[task[w]] = r
        /\ \A k \in Statements : k # task[w] => reply'[k] = reply[k]
    BY <1>1, <2>2, <2>3 DEF SqlTypes
  <2>8. WorkerOwns(w)'
    BY <2>1, <2>3, <2>4, <2>5, <2>6, <2>7 DEF WorkerOwns, HandleReady, Holds
  <2>9. ASSUME NEW v \in Workers, v # w, task[v] # NoStatement PROVE reply'[task[v]] = reply[task[v]]
    <3>1. task[v] \in Statements /\ task[v] # task[w]
      BY <1>1, <2>2, <2>9, TasksDiffer DEF SqlTypeOK
    <3> QED
      BY <2>7, <3>1
  <2>10. AnswersOwn'
    BY <1>1, <2>1, <2>2, <2>3, ReplyStays DEF SqlTypes
  <2> QED
    BY <1>1, <2>1, <2>4, <2>6, <2>8, <2>9, <2>10, UnmixedStep
<1>5. CASE QueryRead(w)
  <2> DEFINE k == task[w]
             r == reply[k]
  <2>1. pc[w] = "read" /\ wire' = Tail(wire) /\ lost' = lost /\ reply' = reply /\ mixed' = mixed
    BY <1>5 DEF QueryRead
  <2>2. /\ r \in Replies(k) /\ status = "READY" /\ fields = NoStatement /\ wire = <<r>>
        /\ k \in Statements /\ res[w] = NoStatement /\ UsesHandle(w) /\ fetched[w] = 0
    BY <1>1, <2>1 DEF WorkerOwns, WorkerFits, SqlTypeOK, UsesHandle
  <2>3. /\ r.of = k /\ r.kind \in {"error", "ok", "rows"} /\ (r.kind = "error" => r.n = -1)
    BY <2>2, RepliesShape
  <2> HIDE DEF r, k
  <2>4. Head(wire) = r /\ wire' = <<>>
    BY <2>1, <2>2
  <2>5. CASE r.kind = "error" /\ QueryFails(w) /\ fields' = NoStatement /\ UNCHANGED <<status, affected, rows>>
    <3>1. /\ pc' = [pc EXCEPT ![w] = "answer"] /\ nRet' = [nRet EXCEPT ![w] = NoCount]
          /\ task' = task /\ res' = res /\ fetched' = fetched /\ answer' = answer
      BY <2>5 DEF QueryFails
    <3>2. pc'[w] = "answer" /\ nRet'[w] = NoCount /\ OnlyWorker(w)
      BY <1>1, <3>1 DEF SqlTypes, SqlTypeOK, OnlyWorker
    <3>3. HandleReady'
      BY <2>2, <2>4, <2>5 DEF HandleReady
    <3>4. NoCount = Count(NoStatement, r.n)
      BY <2>3, <2>5 DEF NoCount
    <3>5. WorkerOwns(w)'
      BY <2>1, <2>2, <2>5, <3>1, <3>2, <3>4 DEF WorkerOwns, Holds, r, k
    <3> QED
      BY <2>1, <2>2, <3>1, <3>2, <3>3, <3>5, UserStep, AnswersStay
  <2>6. CASE /\ r.kind = "ok" /\ pc' = [pc EXCEPT ![w] = "use"]
             /\ affected' = Count(r.of, r.n) /\ fields' = NoStatement
             /\ UNCHANGED <<task, nRet, res, fetched, answer, status, rows>>
    <3>1. pc'[w] = "use" /\ OnlyWorker(w) /\ UsesHandle(w)'
      BY <1>1, <2>6 DEF SqlTypeOK, OnlyWorker, UsesHandle
    <3>2. WorkerOwns(w)'
      BY <2>1, <2>2, <2>3, <2>4, <2>6, <3>1 DEF WorkerOwns, Holds, r, k
    <3> QED
      BY <2>1, <2>2, <2>6, <3>1, <3>2, UserStep, AnswersStay
  <2>7. CASE /\ r.kind = "rows" /\ pc' = [pc EXCEPT ![w] = "use"]
             /\ status' = "GET_RESULT" /\ fields' = r.of /\ rows' = r.n
             /\ UNCHANGED <<task, nRet, res, fetched, answer, affected>>
    <3>1. pc'[w] = "use" /\ OnlyWorker(w) /\ UsesHandle(w)'
      BY <1>1, <2>7 DEF SqlTypeOK, OnlyWorker, UsesHandle
    <3>2. WorkerOwns(w)'
      BY <2>1, <2>2, <2>3, <2>4, <2>7, <3>1 DEF WorkerOwns, Holds, r, k
    <3> QED
      BY <2>1, <2>2, <2>7, <3>1, <3>2, UserStep, AnswersStay
  <2> QED
    BY <1>5, <2>4, <2>5, <2>6, <2>7 DEF QueryRead, At
<1>6. CASE QueryLost(w)
  <2>1. /\ pc[w] = "read"
        /\ lost \/ status # "READY" \/ \E v \in Workers \ {w} : pc[v] = "read"
    BY <1>6 DEF QueryLost
  <2>2. status = "READY" /\ UsesHandle(w)
    BY <1>1, <2>1 DEF WorkerOwns, UsesHandle
  <2>3. \A v \in Workers : pc[v] = "read" => UsesHandle(v)
    BY DEF UsesHandle
  <2> QED
    BY <1>1, <2>1, <2>2, <2>3 DEF Unmixed, OneUser
<1> QED
  BY <1>3, <1>4, <1>5, <1>6

\* The calls after mysql_query, and the end of Execute.
LEMMA UnmixedResult ==
  ASSUME SqlInv, SqlInv', Unmixed, NEW w \in Workers,
         UseResult(w) \/ AffectedRows(w) \/ FetchRow(w) \/ FetchEnd(w) \/ EndExecute(w)
  PROVE  Unmixed'
<1> DEFINE k == task[w]
           r == reply[k]
<1>1. SqlTypes /\ SqlTypeOK /\ WorkerFits(w) /\ WorkerOwns(w) /\ ~ lost
  BY DEF SqlInv, SqlTypes, Unmixed
<1>2. pc[w] # "idle" => k \in Statements /\ k # NoStatement
  BY <1>1 DEF WorkerFits, SqlTypeOK
<1> HIDE DEF k, r
<1>3. CASE UseResult(w)
  <2>1. /\ pc[w] = "use" /\ pc' = [pc EXCEPT ![w] = "affected"]
        /\ UNCHANGED <<task, nRet, fetched, affected, wire, rows, lost, reply, answer, mixed>>
    BY <1>3 DEF UseResult, At
  <2>2. /\ wire = <<>> /\ res[w] = NoStatement /\ fetched[w] = 0 /\ UsesHandle(w) /\ r \in Replies(k)
    BY <1>1, <2>1 DEF WorkerOwns, WorkerFits, UsesHandle, k, r
  <2>3. pc'[w] = "affected" /\ UsesHandle(w)'
    BY <1>1, <2>1 DEF SqlTypeOK, UsesHandle
  <2>4. CASE /\ r.kind = "ok" /\ affected = Count(k, r.n)
             /\ status = "READY" /\ fields = NoStatement
    <3>1. UNCHANGED <<res, fields, status>>
      BY <1>3, <2>4 DEF UseResult
    <3>2. OnlyWorker(w)
      BY <1>1, <2>1, <3>1 DEF SqlTypeOK, OnlyWorker
    <3>3. WorkerOwns(w)'
      BY <2>1, <2>2, <2>3, <2>4, <3>1 DEF WorkerOwns, Holds, HandleReady, k, r
    <3> QED
      BY <2>1, <2>2, <2>3, <3>2, <3>3, UserStep, AnswersStay
  <2>5. CASE r.kind = "rows" /\ status = "GET_RESULT" /\ fields = k /\ rows = r.n
    <3>1. res' = [res EXCEPT ![w] = k] /\ fields' = NoStatement /\ status' = "USE_RESULT"
      BY <1>2, <1>3, <2>1, <2>5 DEF UseResult
    <3>2. OnlyWorker(w) /\ res'[w] = k
      BY <1>1, <2>1, <3>1 DEF SqlTypeOK, OnlyWorker
    <3>3. fetched[w] + rows = r.n
      BY <1>1, <2>2, <2>5 DEF SqlTypeOK
    <3>4. WorkerOwns(w)'
      BY <1>2, <2>1, <2>2, <2>3, <2>5, <3>1, <3>2, <3>3 DEF WorkerOwns, Holds, HandleReady, k, r
    <3> QED
      BY <2>1, <2>2, <2>3, <3>2, <3>4, UserStep, AnswersStay
  <2> QED
    BY <1>1, <2>1, <2>4, <2>5 DEF WorkerOwns, k, r
<1>4. CASE AffectedRows(w)
  <2>1. /\ pc[w] = "affected" /\ pc' = [pc EXCEPT ![w] = "answer"]
        /\ nRet' = [nRet EXCEPT ![w] = affected]
        /\ UNCHANGED <<task, res, fetched, status, fields, affected, wire, rows, lost, reply, answer, mixed>>
    BY <1>4 DEF AffectedRows, At, handleVars
  <2>2. pc'[w] = "answer" /\ nRet'[w] = affected /\ OnlyWorker(w) /\ UsesHandle(w)
    BY <1>1, <2>1 DEF SqlTypes, SqlTypeOK, OnlyWorker, UsesHandle
  <2>3. CASE res[w] = NoStatement
    <3>1. HandleReady /\ r.kind = "ok" /\ affected = Count(k, r.n) /\ r \in Replies(k)
      BY <1>1, <2>1, <2>3 DEF WorkerOwns, k, r
    <3>2. HandleReady'
      BY <2>1, <3>1 DEF HandleReady
    <3>3. WorkerOwns(w)'
      BY <2>1, <2>2, <2>3, <3>1 DEF WorkerOwns, Holds, k, r
    <3> QED
      BY <2>1, <2>2, <3>2, <3>3, UserStep, AnswersStay
  <2>4. CASE res[w] # NoStatement
    <3>1. Holds(w) /\ UsesHandle(w)'
      BY <2>1, <2>4 DEF Holds, UsesHandle
    <3>2. WorkerOwns(w)'
      BY <1>1, <2>1, <2>2, <2>4, <3>1 DEF WorkerOwns, Holds
    <3> QED
      BY <2>1, <2>2, <3>1, <3>2, UserStep, AnswersStay
  <2> QED
    BY <2>3, <2>4
<1>5. CASE FetchRow(w)
  <2>1. /\ pc[w] = "fetch" /\ rows > 0 /\ rows' = rows - 1
        /\ fetched' = [fetched EXCEPT ![w] = fetched[w] + 1]
        /\ UNCHANGED <<pc, task, nRet, res, status, fields, affected, wire, lost, reply, answer, mixed>>
    BY <1>5 DEF FetchRow
  <2>2. Holds(w) /\ UsesHandle(w) /\ UsesHandle(w)'
    BY <1>1, <2>1 DEF WorkerFits, Holds, UsesHandle
  <2>3. fetched'[w] = fetched[w] + 1 /\ OnlyWorker(w)
    BY <1>1, <2>1 DEF SqlTypeOK, OnlyWorker
  <2>4. fetched[w] + rows = r.n
    BY <1>1, <2>2 DEF WorkerOwns, k, r
  <2>5. fetched'[w] + rows' = r.n
    <3>1. fetched[w] \in Int /\ rows \in Int
      BY <1>1 DEF SqlTypeOK
    <3> QED
      BY <2>1, <2>3, <2>4, <3>1
  <2>6. WorkerOwns(w)'
    BY <1>1, <2>1, <2>2, <2>5 DEF WorkerOwns, Holds, k, r
  <2> QED
    BY <2>1, <2>2, <2>3, <2>6, UserStep, AnswersStay
<1>6. CASE FetchEnd(w)
  <2>1. /\ pc[w] = "fetch" /\ pc' = [pc EXCEPT ![w] = "records"] /\ status' = "READY"
        /\ rows = 0 \/ lost \/ status # "USE_RESULT"
        /\ UNCHANGED <<task, nRet, res, fetched, fields, affected, wire, rows, lost, reply, answer, mixed>>
    BY <1>6 DEF FetchEnd, At
  <2>2. Holds(w) /\ UsesHandle(w) /\ UsesHandle(w)'
    BY <1>1, <2>1 DEF WorkerFits, Holds, UsesHandle
  <2>3. pc'[w] = "records" /\ OnlyWorker(w)
    BY <1>1, <2>1 DEF SqlTypeOK, OnlyWorker
  <2>4. /\ res[w] = k /\ r.kind = "rows" /\ fetched[w] + rows = r.n /\ r \in Replies(k)
        /\ status = "USE_RESULT" /\ fields = NoStatement /\ wire = <<>>
    BY <1>1, <2>1, <2>2 DEF WorkerOwns, k, r
  <2>5. fetched[w] = r.n
    <3>1. rows = 0 /\ fetched[w] \in Int
      BY <1>1, <2>1, <2>4 DEF SqlTypeOK
    <3> QED
      BY <2>4, <3>1
  <2>6. WorkerOwns(w)'
    BY <2>1, <2>3, <2>4, <2>5 DEF WorkerOwns, Holds, HandleReady, k, r
  <2> QED
    BY <2>1, <2>2, <2>3, <2>6, UserStep, AnswersStay
<1>7. CASE EndExecute(w)
  <2>1. /\ pc[w] = "unselect" /\ pc' = [pc EXCEPT ![w] = "idle"]
        /\ task' = [task EXCEPT ![w] = NoStatement] /\ nRet' = [nRet EXCEPT ![w] = NoCount]
        /\ fetched' = [fetched EXCEPT ![w] = 0]
        /\ UNCHANGED <<res, handleVars, reply, answer, mixed>>
    BY <1>7 DEF EndExecute, At
  <2>2. pc'[w] = "idle" /\ res[w] = NoStatement /\ OnlyWorker(w)
    BY <1>1, <2>1 DEF SqlTypes, SqlTypeOK, OnlyWorker, WorkerFits
  <2>3. ~ UsesHandle(w) /\ ~ UsesHandle(w)'
    BY <2>1, <2>2 DEF UsesHandle
  <2>4. WorkerOwns(w)'
    BY <2>1, <2>2 DEF WorkerOwns, Holds
  <2> QED
    BY <2>1, <2>2, <2>3, <2>4, IdleStep, AnswersStay
<1> QED
  BY <1>3, <1>4, <1>5, <1>6, <1>7

\* One more statement is answered as MySQL replied.
LEMMA AnswerGiven ==
  ASSUME Unmixed, NEW k \in Statements, DOMAIN answer = Statements, reply' = reply,
         reply[k] \in Replies(k), answer' = [answer EXCEPT ![k] = OwnAnswer(k)]
  PROVE  AnswersOwn'
<1>1. answer'[k] = OwnAnswer(k) /\ \A j \in Statements : j # k => answer'[j] = answer[j]
  OBVIOUS
<1>2. \A j : OwnAnswer(j)' = OwnAnswer(j)
  BY DEF OwnAnswer
<1> QED
  BY <1>1, <1>2 DEF Unmixed, AnswersOwn

\* The parts of the answer.
LEMMA UnmixedAnswer ==
  ASSUME SqlInv, SqlInv', Unmixed, NEW w \in Workers, SendCount(w) \/ SendFields(w) \/ SendRecords(w)
  PROVE  Unmixed'
<1> DEFINE k == task[w]
           r == reply[k]
<1>1. SqlTypes /\ SqlTypeOK /\ WorkerFits(w) /\ WorkerOwns(w) /\ DOMAIN answer = Statements
  BY DEF SqlInv, SqlTypes, Unmixed
<1>2. pc[w] # "idle" => k \in Statements /\ k # NoStatement
  BY <1>1 DEF WorkerFits, SqlTypeOK
<1> HIDE DEF k, r
<1>3. CASE SendFields(w)
  <2>1. /\ pc[w] = "answer" /\ pc' = [pc EXCEPT ![w] = "fetch"] /\ res[w] # NoStatement
        /\ UNCHANGED <<task, nRet, res, fetched, status, fields, affected, wire, rows, lost, reply, answer, mixed>>
    BY <1>3 DEF SendFields, At, handleVars
  <2>2. pc'[w] = "fetch" /\ OnlyWorker(w) /\ UsesHandle(w) /\ UsesHandle(w)' /\ Holds(w)
    BY <1>1, <2>1 DEF SqlTypeOK, OnlyWorker, UsesHandle, Holds
  <2>3. WorkerOwns(w)'
    BY <1>1, <2>1, <2>2 DEF WorkerOwns, Holds
  <2> QED
    BY <2>1, <2>2, <2>3, UserStep, AnswersStay
<1>4. CASE SendCount(w)
  <2> DEFINE a == [kind |-> "count", of |-> nRet[w].of, n |-> nRet[w].n]
  <2>1. /\ pc[w] = "answer" /\ pc' = [pc EXCEPT ![w] = "unselect"] /\ res[w] = NoStatement
        /\ answer' = [answer EXCEPT ![k] = a]
        /\ UNCHANGED <<task, nRet, res, fetched, handleVars, reply, mixed>>
    BY <1>4 DEF SendCount, At, k
  <2>2. /\ r \in Replies(k) /\ r.kind \in {"ok", "error"}
        /\ nRet[w] = Count(IF r.kind = "error" THEN NoStatement ELSE k, r.n)
    BY <1>1, <2>1 DEF WorkerOwns, k, r
  <2>3. a = OwnAnswer(k)
    BY <2>2 DEF OwnAnswer, Count, r
  <2> HIDE DEF a
  <2>4. pc'[w] = "unselect" /\ OnlyWorker(w)
    BY <1>1, <2>1 DEF SqlTypeOK, OnlyWorker
  <2>5. ~ UsesHandle(w) /\ ~ UsesHandle(w)'
    BY <2>1, <2>4 DEF UsesHandle
  <2>6. WorkerOwns(w)'
    BY <2>1, <2>2, <2>4 DEF WorkerOwns, Holds, k, r
  <2>7. AnswersOwn'
    <3>1. k \in Statements /\ reply' = reply /\ reply[k] \in Replies(k)
      BY <1>2, <2>1, <2>2 DEF r
    <3> QED
      BY <1>1, <2>1, <2>3, <3>1, AnswerGiven
  <2> QED
    BY <2>1, <2>4, <2>5, <2>6, <2>7, IdleStep
<1>5. CASE SendRecords(w)
  <2> DEFINE a == [kind |-> "rows", of |-> res[w], n |-> fetched[w]]
  <2>1. /\ pc[w] = "records" /\ pc' = [pc EXCEPT ![w] = "unselect"]
        /\ res' = [res EXCEPT ![w] = NoStatement]
        /\ answer' = [answer EXCEPT ![k] = a]
        /\ UNCHANGED <<task, nRet, fetched, status, fields, affected, wire, rows, lost, reply, mixed>>
    BY <1>5 DEF SendRecords, At, handleVars, k
  <2>2. r \in Replies(k) /\ r.kind = "rows" /\ res[w] = k /\ fetched[w] = r.n /\ HandleReady
    BY <1>1, <2>1 DEF WorkerOwns, k, r
  <2>3. a = OwnAnswer(k)
    BY <2>2 DEF OwnAnswer, r
  <2> HIDE DEF a
  <2>4. pc'[w] = "unselect" /\ res'[w] = NoStatement /\ OnlyWorker(w)
    BY <1>1, <2>1 DEF SqlTypeOK, OnlyWorker
  <2>5. UsesHandle(w) /\ HandleReady'
    BY <1>2, <2>1, <2>2 DEF UsesHandle, HandleReady
  <2>6. WorkerOwns(w)'
    BY <2>1, <2>2, <2>4 DEF WorkerOwns, Holds, k, r
  <2>7. AnswersOwn'
    <3>1. k \in Statements /\ reply' = reply /\ reply[k] \in Replies(k)
      BY <1>2, <2>1, <2>2 DEF r
    <3> QED
      BY <1>1, <2>1, <2>3, <3>1, AnswerGiven
  <2> QED
    BY <2>1, <2>4, <2>5, <2>6, <2>7, UserStep
<1> QED
  BY <1>3, <1>4, <1>5

-----------------------------------------------------------------------------
(* The invariant of the handle. *)

HandleFits == SqlInv /\ (~ mixed => Unmixed)

\* A step that leaves the threads and the handle alone.
LEMMA SqlUnchanged ==
  ASSUME HandleFits, UNCHANGED sqlVars
  PROVE  HandleFits'
<1>1. UNCHANGED <<pc, task, nRet, res, fetched, status, fields, affected, wire, rows, lost,
                  reply, answer, mixed>>
  BY DEF sqlVars, workerVars, handleVars
<1>2. SqlTypes'
  BY <1>1 DEF HandleFits, SqlInv, SqlTypes, SqlTypeOK
<1>3. ASSUME NEW w \in Workers PROVE WorkerFits(w)' /\ (WorkerOwns(w) => WorkerOwns(w)')
  <2>1. WorkerFits(w)
    BY DEF HandleFits, SqlInv
  <2> QED
    BY <1>1, <2>1 DEF WorkerFits, WorkerOwns, Holds, HandleReady
<1>4. OneEach'
  BY <1>1 DEF HandleFits, SqlInv, OneEach, Holds
<1>5. ASSUME ~ mixed' PROVE Unmixed'
  <2>1. Unmixed
    BY <1>1, <1>5 DEF HandleFits
  <2>2. AnswersOwn' /\ OneUser'
    BY <1>1, <2>1, AnswersStay DEF Unmixed, OneUser, UsesHandle
  <2>3. ~ lost' /\ ((\A w \in Workers : ~ UsesHandle(w)') => HandleReady')
    BY <1>1, <2>1 DEF Unmixed, UsesHandle, HandleReady
  <2> QED
    BY <1>3, <2>1, <2>2, <2>3 DEF Unmixed
<1> QED
  BY <1>2, <1>3, <1>4, <1>5 DEF HandleFits, SqlInv

\* A step of a thread.
LEMMA HandleExecute ==
  ASSUME HandleFits, NEW w \in Workers, Execute(w)
  PROVE  HandleFits'
<1>1. SqlInv
  BY DEF HandleFits
<1>2. CASE QueryRefused(w) \/ QuerySend(w) \/ QueryRead(w) \/ QueryLost(w)
  <2>1. SqlInv'
    BY <1>1, <1>2, SqlQuery
  <2>2. mixed => mixed'
    BY <1>2 DEF QueryRefused, QuerySend, QueryRead, QueryLost, BeginsQuery
  <2> QED
    BY <1>1, <1>2, <2>1, <2>2, UnmixedQuery DEF HandleFits
<1>3. CASE UseResult(w) \/ AffectedRows(w) \/ FetchRow(w) \/ FetchEnd(w) \/ EndExecute(w)
  <2>1. SqlInv'
    BY <1>1, <1>3, SqlResult
  <2>2. mixed => mixed'
    BY <1>3 DEF UseResult, AffectedRows, FetchRow, FetchEnd, EndExecute
  <2> QED
    BY <1>1, <1>3, <2>1, <2>2, UnmixedResult DEF HandleFits
<1>4. CASE SendCount(w) \/ SendFields(w) \/ SendRecords(w)
  <2>1. SqlInv'
    BY <1>1, <1>4, SqlAnswer
  <2>2. mixed => mixed'
    BY <1>4 DEF SendCount, SendFields, SendRecords
  <2> QED
    BY <1>1, <1>4, <2>1, <2>2, UnmixedAnswer DEF HandleFits
<1> QED
  BY <1>2, <1>3, <1>4 DEF Execute, Query, AnswerCount, AnswerFields, AnswerRecords

\* Statement k is begun: Taken(k) for the tasks and the answers given.
Begun(t, a, k) == a[k] # NoAnswer \/ \E w \in Workers : t[w] = k

\* The requests in the streams at the server: no thread has begun one of them, and no
\* client has sent one twice.
Pending ==
  /\ unread \in [Clients -> Seq(Statements)]
  /\ \A c \in Clients : \A i \in DOMAIN unread[c] :
       /\ Client[unread[c][i]] = c /\ ~ Begun(task, answer, unread[c][i])
       /\ \A j \in DOMAIN unread[c] : unread[c][i] = unread[c][j] => i = j

\* A step that begins nothing.
LEMMA PendingSame ==
  ASSUME Pending, unread' = unread, \A k \in Statements : Taken(k)' => Taken(k)
  PROVE  Pending'
<1>1. ASSUME NEW c \in Clients, NEW i \in DOMAIN unread[c]
      PROVE  ~ Begun(task', answer', unread[c][i])
  <2>1. unread[c] \in Seq(Statements) /\ ~ Begun(task, answer, unread[c][i])
    BY DEF Pending
  <2>2. unread[c][i] \in Statements
    BY <2>1
  <2> QED
    BY <2>1, <2>2 DEF Taken, Begun
<1> QED
  BY <1>1 DEF Pending

\* A thread executes what it has begun.
LEMMA PendingExecute ==
  ASSUME SqlInv, Pending, NEW w \in Workers, Execute(w)
  PROVE  Pending'
<1>1. SqlTypeOK /\ DOMAIN answer = Statements
  BY DEF SqlInv, SqlTypes
<1>2. unread' = unread
  BY DEF Execute, Query, AnswerCount, AnswerFields, AnswerRecords, SendsTo
<1>3. task' = task \/ task' = [task EXCEPT ![w] = NoStatement]
  BY DEF Execute, Query, AnswerCount, AnswerFields, AnswerRecords, QueryRefused, QuerySend, QueryRead,
    QueryLost, QueryFails, UseResult, AffectedRows, FetchRow, FetchEnd, EndExecute, SendCount,
    SendFields, SendRecords
<1>4. answer' = answer \/ \E a : answer' = [answer EXCEPT ![task[w]] = a]
  BY DEF Execute, Query, AnswerCount, AnswerFields, AnswerRecords, QueryRefused, QuerySend, QueryRead,
    QueryLost, QueryFails, UseResult, AffectedRows, FetchRow, FetchEnd, EndExecute, SendCount,
    SendFields, SendRecords
<1>5. ASSUME NEW k \in Statements, Taken(k)' PROVE Taken(k)
  <2>1. ASSUME NEW v \in Workers, task'[v] = k PROVE Taken(k)
    <3>1. task[v] = k
      BY <1>1, <1>3, <2>1, SqlAssumption DEF SqlTypeOK
    <3> QED
      BY <3>1 DEF Taken
  <2>2. ASSUME answer'[k] # NoAnswer PROVE Taken(k)
    <3>1. answer[k] # NoAnswer \/ task[w] = k
      BY <1>1, <1>4, <2>2
    <3> QED
      BY <3>1 DEF Taken
  <2> QED
    BY <1>5, <2>1, <2>2 DEF Taken
<1> QED
  BY <1>2, <1>5, PendingSame

\* A handler adds a request.
LEMMA PendingSend ==
  ASSUME Pending, NEW c \in Clients, NEW k \in Statements, SendSql(c, k)
  PROVE  Pending'
<1> DEFINE u == unread[c]
           x == Append(u, k)
<1>1. /\ ~ Taken(k) /\ Client[k] = c /\ k \notin Range(u) /\ task' = task /\ answer' = answer
      /\ unread' = [unread EXCEPT ![c] = x]
  BY DEF SendSql, sqlVars, workerVars
<1>2. /\ unread \in [Clients -> Seq(Statements)] /\ u \in Seq(Statements)
      /\ \A i \in DOMAIN u : ~ Begun(task, answer, u[i]) /\ Client[u[i]] = c /\ \A j \in DOMAIN u : u[i] = u[j] => i = j
  BY DEF Pending
<1>3. /\ x \in Seq(Statements) /\ Len(x) = Len(u) + 1 /\ x[Len(u) + 1] = k
      /\ Len(u) \in Nat /\ \A i \in 1 .. Len(u) : x[i] = u[i]
  BY <1>2
<1>4. \A i \in 1 .. Len(u) : u[i] # k /\ i \in DOMAIN u
  BY <1>1, <1>2 DEF Range
<1> HIDE DEF x, u
<1>5. DOMAIN x = 1 .. Len(u) + 1
  BY <1>3
<1>6. ASSUME NEW i \in DOMAIN x PROVE ~ Begun(task, answer, x[i]) /\ Client[x[i]] = c /\ \A j \in DOMAIN x : x[i] = x[j] => i = j
  <2>1. \A m \in DOMAIN x : m \in 1 .. Len(u) \/ m = Len(u) + 1
    BY <1>3, <1>5
  <2> QED
    BY <1>1, <1>2, <1>3, <1>4, <2>1 DEF Taken, Begun
<1>7. task' = task /\ answer' = answer
  BY <1>1
<1>8. /\ unread' \in [Clients -> Seq(Statements)] /\ unread'[c] = x
      /\ \A d \in Clients : d # c => unread'[d] = unread[d]
  BY <1>1, <1>2, <1>3
<1>9. ASSUME NEW d \in Clients, NEW i \in DOMAIN unread'[d]
      PROVE  /\ Client[unread'[d][i]] = d /\ ~ Begun(task', answer', unread'[d][i])
             /\ \A j \in DOMAIN unread'[d] : unread'[d][i] = unread'[d][j] => i = j
  <2>1. CASE d = c
    BY <1>6, <1>7, <1>8, <2>1
  <2>2. CASE d # c
    BY <1>7, <1>8, <1>9, <2>2 DEF Pending
  <2> QED
    BY <2>1, <2>2
<1> QED
  BY <1>8, <1>9 DEF Pending

\* A request that a thread begins is one that nobody has begun.
LEMMA PendingFirst ==
  ASSUME Pending, NEW w \in Workers, NEW k \in Statements, Start(w, k)
  PROVE  answer[k] = NoAnswer
<1> DEFINE c == Client[k]
           u == unread[c]
<1>1. c \in Clients
  BY SystemAssumption
<1>2. u \in Seq(Statements) /\ u # <<>> /\ Head(u) = k
  BY <1>1 DEF Start, Dispatched, Pending
<1>3. 1 \in DOMAIN u /\ u[1] = k
  BY <1>2
<1>4. ~ Begun(task, answer, k)
  BY <1>1, <1>3 DEF Pending
<1> QED
  BY <1>4 DEF Begun

\* The main loop takes a request from its stream.
LEMMA PendingStart ==
  ASSUME SqlInv, Pending, NEW w \in Workers, NEW k \in Statements, Start(w, k)
  PROVE  Pending'
<1> DEFINE c == Client[k]
           u == unread[c]
           x == Tail(u)
<1>1. c \in Clients
  BY SystemAssumption
<1>2. /\ u # <<>> /\ Head(u) = k /\ unread' = [unread EXCEPT ![c] = x]
      /\ task' = [task EXCEPT ![w] = k] /\ answer' = answer
      /\ \A v \in Workers : task[v] # NoStatement => Client[task[v]] # Client[k]
  BY DEF Start, Dispatched, StartExecute
<1>3. /\ unread \in [Clients -> Seq(Statements)] /\ u \in Seq(Statements)
      /\ \A i \in DOMAIN u : ~ Begun(task, answer, u[i]) /\ Client[u[i]] = c /\ \A j \in DOMAIN u : u[i] = u[j] => i = j
  BY <1>1 DEF Pending
<1> HIDE DEF u
<1>4. /\ x \in Seq(Statements) /\ Len(u) \in Nat /\ DOMAIN u = 1 .. Len(u) /\ u[1] = k
      /\ DOMAIN x = 1 .. Len(u) - 1 /\ \A i \in DOMAIN x : x[i] = u[i + 1]
  BY <1>2, <1>3
<1> HIDE DEF x
<1>5. ASSUME NEW j, j # k, Begun(task', answer', j) PROVE Begun(task, answer, j)
  <2>1. task \in [Workers -> Statements \cup {NoStatement}]
    BY DEF SqlInv, SqlTypes, SqlTypeOK
  <2> QED
    BY <1>2, <1>5, <2>1 DEF Begun
<1>6. ASSUME NEW i \in DOMAIN x PROVE ~ Begun(task', answer', x[i]) /\ Client[x[i]] = c /\ \A j \in DOMAIN x : x[i] = x[j] => i = j
  <2>1. \A m \in DOMAIN x : m \in Nat /\ m + 1 \in DOMAIN u /\ m + 1 # 1
    BY <1>4
  <2>2. x[i] = u[i + 1] /\ u[i + 1] # k /\ Client[x[i]] = c /\ ~ Begun(task, answer, x[i])
    BY <1>3, <1>4, <2>1
  <2>3. ASSUME NEW j \in DOMAIN x, x[i] = x[j] PROVE i = j
    <3>1. i + 1 = j + 1
      BY <1>3, <1>4, <2>1, <2>3
    <3> QED
      BY <2>1, <3>1
  <2> QED
    BY <1>5, <2>2, <2>3
<1>7. /\ unread' \in [Clients -> Seq(Statements)] /\ unread'[c] = x
      /\ \A d \in Clients : d # c => unread'[d] = unread[d]
  BY <1>1, <1>2, <1>3, <1>4
<1>8. ASSUME NEW d \in Clients, NEW i \in DOMAIN unread'[d]
      PROVE  /\ Client[unread'[d][i]] = d /\ ~ Begun(task', answer', unread'[d][i])
             /\ \A j \in DOMAIN unread'[d] : unread'[d][i] = unread'[d][j] => i = j
  <2>1. CASE d = c
    BY <1>6, <1>7, <2>1
  <2>2. CASE d # c
    <3>1. unread[d][i] # k
      BY <1>7, <1>8, <2>2 DEF Pending, c
    <3> QED
      BY <1>5, <1>7, <2>2, <3>1 DEF Pending
  <2> QED
    BY <2>1, <2>2
<1> QED
  BY <1>7, <1>8 DEF Pending

HandleInv == HandleFits /\ Pending

\* The handle keeps its invariant in every step.
LEMMA HandleKeeps ==
  ASSUME HandleInv, [Next]_vars
  PROVE  HandleInv'
<1> USE DEF HandleInv
<1>2. ASSUME NEW w \in Workers, NEW k \in Statements, Start(w, k) PROVE HandleInv'
  <2>1. SqlInv'
    BY <1>2, SqlStart, PendingFirst DEF HandleFits
  <2>2. mixed => mixed'
    BY <1>2 DEF Start, Dispatched, StartExecute
  <2> QED
    BY <1>2, <2>1, <2>2, UnmixedStart, PendingStart DEF HandleFits
<1>3. ASSUME NEW w \in Workers, Execute(w) PROVE HandleInv'
  BY <1>3, HandleExecute, PendingExecute DEF HandleFits
<1>1. CASE UNCHANGED sqlVars
  <2>1. HandleFits'
    BY <1>1, SqlUnchanged
  <2>2. CASE unread' = unread
    <3>1. \A k : Taken(k)' <=> Taken(k)
      BY <1>1 DEF Taken, sqlVars, workerVars
    <3> QED
      BY <2>1, <2>2, <3>1, PendingSame
  <2>3. ASSUME NEW c \in Clients, NEW k \in Statements, SendSql(c, k) PROVE HandleInv'
    BY <2>1, <2>3, PendingSend
  <2>4. CASE \E w \in Workers, k \in Statements : Start(w, k)
    BY <1>2, <2>4
  <2>5. CASE \E w \in Workers : Execute(w)
    BY <1>3, <2>5
  <2> QED
    BY <2>2, <2>3, <2>4, <2>5 DEF Next, vars, Boot, Receive
<1>4. \/ UNCHANGED sqlVars
      \/ \E w \in Workers, k \in Statements : Start(w, k)
      \/ \E w \in Workers : Execute(w)
  BY DEF Next, vars, Boot, SendSql, Receive
<1> QED
  BY <1>1, <1>2, <1>3, <1>4

\* It holds in the beginning.
LEMMA HandleInit ==
  ASSUME Init
  PROVE  HandleInv
<1>1. SqlInit
  BY DEF Init
<1>2. SqlTypes
  <2>1. SqlTypeOK
    <3>1. 0 \in 0 .. MaxRows
      BY SqlAssumption
    <3>2. lost \in BOOLEAN /\ mixed \in BOOLEAN
      BY <1>1, Zenon DEF SqlInit
    <3> QED
      BY <1>1, <3>1, <3>2 DEF SqlInit, SqlTypeOK
  <2>2. wire \in Seq(AllReplies)
    BY <1>1, EmptySeq DEF SqlInit
  <2> QED
    BY <1>1, <2>1, <2>2, CountType DEF SqlInit, SqlTypes
<1>3. \A w \in Workers : pc[w] = "idle" /\ task[w] = NoStatement /\ res[w] = NoStatement /\ fetched[w] = 0
  BY <1>1 DEF SqlInit
<1>4. \A w \in Workers : WorkerFits(w) /\ ~ Holds(w) /\ ~ UsesHandle(w) /\ WorkerOwns(w)
  BY <1>3 DEF WorkerFits, Holds, UsesHandle, WorkerOwns
<1>5. OneEach
  BY <1>3, <1>4 DEF OneEach
<1>6. HandleReady /\ ~ lost /\ AnswersOwn
  BY <1>1 DEF SqlInit, HandleReady, AnswersOwn
<1>7. Unmixed
  BY <1>4, <1>6 DEF Unmixed, OneUser
<1>8. Pending
  BY EmptySeq DEF Init, Pending
<1> QED
  BY <1>2, <1>4, <1>5, <1>7, <1>8 DEF HandleInv, HandleFits, SqlInv

\* The invariant of the handle and the threads.
LEMMA HandleInvariant == Spec => []HandleInv
<1>1. HandleInv /\ [Next]_vars => HandleInv'
  BY HandleKeeps
<1> QED
  BY <1>1, HandleInit, PTL DEF Spec

\* As long as no two queries have met on the handle, every answer of CSqlTask::Execute is
\* MySQL's reply to the client's own statement.
THEOREM SystemAnswersOwnStatement == Spec => []AnswersOwnStatement
<1>1. HandleInv => AnswersOwnStatement
  BY DEF HandleInv, HandleFits, Unmixed, AnswersOwn, AnswersOwnStatement, NoAnswer
<1> QED
  BY <1>1, HandleInvariant, PTL
=============================================================================
