------------------------------ MODULE ServerStart ------------------------------
(***************************************************************************)
(* The start of the server: CServer::Init with CMysql::Init,               *)
(* CServer::CreateTables and CTcpServer::Listen.  Any of their steps may   *)
(* fail, which ends the process, and the process may be killed between two *)
(* statements; what MySQL has created by then is there at the next start.  *)
(***************************************************************************)
EXTENDS Integers, Sequences

VARIABLES
  server,  \* "down", "init", "create", "listen" or "up"
  step,    \* the next statement of CreateTables
  schema   \* what exists in MySQL

startVars == <<server, step, schema>>

\* The statements of CreateTables in their order: what each one makes sure of, and
\* what must exist for MySQL to execute it.
Ddl ==
  <<[makes |-> {"test"},     needs |-> {}],
    [makes |-> {},           needs |-> {"test"}],
    [makes |-> {"t_class"},  needs |-> {"test"}],
    [makes |-> {"t_student"}, needs |-> {"test", "t_class"}],
    [makes |-> {"t_course"}, needs |-> {"test"}],
    [makes |-> {"t_select"}, needs |-> {"test", "t_course", "t_student"}]>>

WholeSchema == UNION {Ddl[i].makes : i \in DOMAIN Ddl}

StartTypeOK ==
  /\ server \in {"down", "init", "create", "listen", "up"}
  /\ step \in 1 .. Len(Ddl) + 1
  /\ schema \subseteq WholeSchema

StartInit ==
  /\ server = "down"
  /\ step = 1
  /\ schema = {}

\* main constructs CServer.
Launch ==
  /\ server = "down"
  /\ server' = "init"
  /\ step' = 1
  /\ UNCHANGED schema

\* CMysql::Init.
InitMysql ==
  /\ server = "init"
  /\ server' = "create"
  /\ UNCHANGED <<step, schema>>

\* A statement of CreateTables succeeds; IF NOT EXISTS makes it do so a second time.
CreateNext ==
  /\ server = "create"
  /\ Ddl[step].needs \subseteq schema
  /\ schema' = schema \cup Ddl[step].makes
  /\ step' = step + 1
  /\ server' = IF step = Len(Ddl) THEN "listen" ELSE "create"

\* Mutant: CreateTables does not look at what Query returns.
CreateFailsOn ==
  /\ server = "create"
  /\ step' = step + 1
  /\ server' = IF step = Len(Ddl) THEN "listen" ELSE "create"
  /\ UNCHANGED schema

\* MySQL refuses a statement: Init returns false, and main ends.
CreateFails ==
  /\ server = "create"
  /\ server' = "down"
  /\ UNCHANGED <<step, schema>>

Listen ==
  /\ server = "listen"
  /\ server' = "up"
  /\ UNCHANGED <<step, schema>>

\* CMysql::Init or Listen fails, or the process is killed before it serves.
StartFails ==
  /\ server \in {"init", "create", "listen"}
  /\ server' = "down"
  /\ UNCHANGED <<step, schema>>

StartStep == Launch \/ InitMysql \/ CreateNext \/ CreateFails \/ Listen \/ StartFails

\* "Create the tables if they do not exist" (CServer.cpp:93): wherever earlier starts
\* have ended, the next one finds what each statement refers to, and a server that
\* listens has the whole schema.
StartsFromAnySchema ==
  /\ server = "create" => Ddl[step].needs \subseteq schema
  /\ server = "up" => schema = WholeSchema
=============================================================================
