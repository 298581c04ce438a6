----------------------------- MODULE SchoolClient -----------------------------
(***************************************************************************)
(* The main dialog of the client, CSchoolSystemDlg: the tab control, the   *)
(* list control, and the handlers that build a statement, wait for its     *)
(* answer and change the list.  A handler runs on the user interface       *)
(* thread and blocks in Recv, so a client has one statement under way; the *)
(* statements of several clients interleave at the server.                 *)
(***************************************************************************)
EXTENDS SchoolDb, FiniteSets, SequencesExt

CONSTANTS
  Clients,
  InitialDbs,  \* contents the tables may have when the server starts
  Faults,      \* may contain "connect" and "query"
  MaxClicks    \* bound: handlers all clients together may start

ASSUME ClientAssumption ==
  /\ \A d \in InitialDbs :
       d \in Databases /\ Consistent(d) /\ \A t \in Tables : IsFiniteSet(d[t])
  /\ Faults \subseteq {"connect", "query"}
  /\ MaxClicks \in Nat

VARIABLES
  db,      \* the tables
  tab,     \* m_nCurTabSel
  cols,    \* the columns m_list shows: those of a table, or "joined"
  list,    \* the rows of m_list
  ui,      \* "start", "idle", "sent", "answered" or "hung"
  stmt,    \* the statement under way
  answer,  \* what Execute sent back
  clicks,  \* handlers started
  outdated \* history: <<c, t>> if another client has changed table t since c read it

vars == <<db, tab, cols, list, ui, stmt, answer, clicks, outdated>>

\* row: the values entered; where: the key in the WHERE clause or, for a SELECT, the
\* columns filled in; at: nCurSelRow.
Statement(op, t, row, where, at) ==
  [op |-> op, t |-> t, row |-> row, where |-> where, at |-> at]

NoStatement == Statement("none", "student", <<>>, <<>>, 0)
NoAnswer == [n |-> 0, rows |-> {}]

\* The tables keep their constraints, and between two handlers the list has the
\* columns of the current tab's table or those of the joined query.
TypeOK ==
  /\ db \in Databases /\ Consistent(db)
  /\ tab \in [Clients -> Tables]
  /\ cols \in [Clients -> Tables \cup {"joined"}]
  /\ \A c \in Clients : ui[c] = "idle" => cols[c] \in {tab[c], "joined"}
  /\ ui \in [Clients -> {"start", "idle", "sent", "answered", "hung"}]
  /\ clicks \in 0 .. MaxClicks
  /\ outdated \subseteq Clients \X Tables

Init ==
  /\ db \in InitialDbs
  /\ tab = [c \in Clients |-> "student"]
  /\ cols = [c \in Clients |-> "student"]
  /\ list = [c \in Clients |-> <<>>]
  /\ ui = [c \in Clients |-> "start"]
  /\ stmt = [c \in Clients |-> NoStatement]
  /\ answer = [c \in Clients |-> NoAnswer]
  /\ clicks = 0
  /\ outdated = {}

-----------------------------------------------------------------------------
(* The handlers, up to SendSql. *)

SendSql(c, s) ==
  /\ stmt' = [stmt EXCEPT ![c] = s]
  /\ ui' = [ui EXCEPT ![c] = "sent"]
  /\ UNCHANGED <<db, cols, list, answer, outdated>>

\* The user starts a handler.
Click(c) ==
  /\ ui[c] = "idle"
  /\ clicks < MaxClicks
  /\ clicks' = clicks + 1

\* Mutant: the switch falls back to the students.
SelectAllStudents(t) == Statement("select", "student", <<>>, <<>>, 0)

\* SELECT * FROM the table of a tab.
SelectAll(t) == Statement("select", t, <<>>, <<>>, 0)

\* Connect succeeds, and all students are shown.
OnInitDialog(c) ==
  /\ ui[c] = "start"
  /\ SendSql(c, SelectAll("student"))
  /\ UNCHANGED <<tab, clicks>>

\* Connect fails: after the message the handler goes on all the same, and ShowList
\* waits for an answer no receive thread will take.
OnInitDialogFails(c) ==
  /\ "connect" \in Faults
  /\ ui[c] = "start"
  /\ ui' = [ui EXCEPT ![c] = "hung"]
  /\ UNCHANGED <<db, tab, cols, list, stmt, answer, clicks, outdated>>

OnTcnSelchangeTab(c, t) ==
  /\ Click(c)
  /\ tab' = [tab EXCEPT ![c] = t]
  /\ SendSql(c, SelectAll(t))

OnBnClickedButtonInsert(c, row) ==
  /\ Click(c)
  /\ SendSql(c, Statement("insert", tab[c], row, <<>>, 0))
  /\ UNCHANGED tab

\* The id of the selected row is its first column; for a selection of a course the
\* second column is the other half of the key.
SelectedKey(c, i) ==
  IF tab[c] = "select" THEN <<list[c][i][1], list[c][i][2]>> ELSE <<list[c][i][1]>>

OnBnClickedButtonDelete(c, i) ==
  /\ Click(c)
  /\ SendSql(c, Statement("delete", tab[c], <<>>, SelectedKey(c, i), i))
  /\ UNCHANGED tab

\* The WHERE clause has the id of the selected row; for a selection of a course it
\* has the ids as they were left in the dialog.
UpdateKey(c, i, new) ==
  IF tab[c] = "select" THEN <<new[1], new[2]>> ELSE <<list[c][i][1]>>

OnBnClickedButtonUpdate(c, i, new) ==
  /\ Click(c)
  /\ SendSql(c, Statement("update", tab[c], new, UpdateKey(c, i, new), i))
  /\ UNCHANGED tab

\* cond: the fields of the dialog that were filled in.
OnBnClickedButtonSelect(c, cond) ==
  /\ Click(c)
  /\ SendSql(c, Statement("select", tab[c], <<>>, cond, 0))
  /\ UNCHANGED tab

OnBnClickedButtonUnionSelect(c) ==
  /\ Click(c)
  /\ SendSql(c, Statement("joined", tab[c], <<>>, <<>>, 0))
  /\ UNCHANGED tab

-----------------------------------------------------------------------------
(* The server executes a statement, and the handler gets the answer. *)

\* A SELECT of c brings c up to date with a table; a change that c makes leaves all
\* others behind.
Outdated(c, s, new) ==
  IF s.op = "select" THEN outdated \ {<<c, s.t>>}
  ELSE IF new # db THEN outdated \cup ((Clients \ {c}) \X {s.t})
  ELSE outdated

\* Query, and the affected rows or the result set.
Execute(c) ==
  LET s == stmt[c]
      o == CASE s.op = "insert" -> InsertInto(db, s.t, s.row)
             [] s.op = "delete" -> DeleteFrom(db, s.t, s.where)
             [] s.op = "update" -> UpdateRow(db, s.t, s.where, s.row)
             [] OTHER           -> Outcome(db, 0)
      rows == CASE s.op = "select" -> SelectFrom(db, s.t, s.where)
                [] s.op = "joined" -> JoinedRows(db)
                [] OTHER           -> {}
  IN  /\ ui[c] = "sent"
      /\ db' = o.db
      /\ outdated' = Outdated(c, s, o.db)
      /\ answer' = [answer EXCEPT ![c] = [n |-> o.n, rows |-> rows]]
      /\ ui' = [ui EXCEPT ![c] = "answered"]
      /\ UNCHANGED <<tab, cols, list, stmt, clicks>>

\* mysql_query fails for a reason of its own: -1 is sent, for a SELECT too.
ExecuteFails(c) ==
  /\ "query" \in Faults
  /\ ui[c] = "sent"
  /\ answer' = [answer EXCEPT ![c] = [n |-> -1, rows |-> {}]]
  /\ ui' = [ui EXCEPT ![c] = "answered"]
  /\ UNCHANGED <<db, tab, cols, list, stmt, clicks, outdated>>

Done(c) ==
  /\ ui' = [ui EXCEPT ![c] = "idle"]
  /\ stmt' = [stmt EXCEPT ![c] = NoStatement]
  /\ answer' = [answer EXCEPT ![c] = NoAnswer]
  /\ UNCHANGED <<db, tab, clicks, outdated>>

\* Recv returns the first word of the answer.
Answered(c) == ui[c] = "answered"

IsQuery(c) == stmt[c].op \in {"select", "joined"}

\* The list is filled with the columns and rows received, in the order of the server.
ShowList(c) ==
  /\ Answered(c)
  /\ IsQuery(c)
  /\ answer[c].n # -1
  /\ cols' = [cols EXCEPT ![c] = IF stmt[c].op = "joined" THEN "joined" ELSE stmt[c].t]
  /\ list' = [list EXCEPT ![c] = SetToSeq(answer[c].rows)]
  /\ Done(c)

\* -1 is taken for the size of the column names; the Recv that follows waits for
\* bytes that are never sent.  The list has been emptied.
ShowListHangs(c) ==
  /\ Answered(c)
  /\ IsQuery(c)
  /\ answer[c].n = -1
  /\ list' = [list EXCEPT ![c] = <<>>]
  /\ ui' = [ui EXCEPT ![c] = "hung"]
  /\ UNCHANGED <<db, tab, cols, stmt, answer, clicks, outdated>>

\* A new row has the values entered; further columns of a joined list stay empty.
NewItem(c) ==
  [i \in 1 .. (IF cols[c] = "joined" THEN 7 ELSE Len(stmt[c].row)) |->
     IF i <= Len(stmt[c].row) THEN stmt[c].row[i] ELSE ""]

\* The selected row gets the values entered; of a selection only the score is set.
EditedItem(c, row) ==
  [i \in DOMAIN row |->
     IF i <= Len(stmt[c].row) /\ (stmt[c].t = "select" => i = 3) THEN stmt[c].row[i] ELSE row[i]]

\* Mutant: a failed statement is taken for a success.
ReportsAnySuccess(c) == TRUE

\* nSuccess is not -1.
ReportsSuccess(c) == answer[c].n # -1

\* nSuccess tells whether the list is changed; otherwise a message is shown.
ShowResult(c) ==
  /\ Answered(c)
  /\ ~ IsQuery(c)
  /\ list' = [list EXCEPT ![c] =
       IF ~ ReportsSuccess(c) THEN @
       ELSE CASE stmt[c].op = "insert" -> <<NewItem(c)>> \o @
              [] stmt[c].op = "delete" -> RemoveAt(@, stmt[c].at)
              [] stmt[c].op = "update" -> [@ EXCEPT ![stmt[c].at] = EditedItem(c, @)]]
  /\ UNCHANGED cols
  /\ Done(c)

-----------------------------------------------------------------------------

\* The fields of the dialog a user may fill in for a search.
Conditions(t) ==
  UNION {{[i \in filled |-> row[i]] : filled \in SUBSET DOMAIN row} : row \in Rows(t)}

Handler(c) ==
  \/ OnInitDialog(c)
  \/ OnInitDialogFails(c)
  \/ \E t \in Tables : OnTcnSelchangeTab(c, t)
  \/ \E row \in Rows(tab[c]) : OnBnClickedButtonInsert(c, row)
  \/ \E i \in DOMAIN list[c] : OnBnClickedButtonDelete(c, i)
  \/ \E i \in DOMAIN list[c], new \in Rows(tab[c]) : OnBnClickedButtonUpdate(c, i, new)
  \/ \E cond \in Conditions(tab[c]) : OnBnClickedButtonSelect(c, cond)
  \/ OnBnClickedButtonUnionSelect(c)

Completion(c) == ShowList(c) \/ ShowListHangs(c) \/ ShowResult(c)

Next == \E c \in Clients : Handler(c) \/ Execute(c) \/ ExecuteFails(c) \/ Completion(c)

Spec == Init /\ [][Next]_vars

-----------------------------------------------------------------------------
(* Properties. *)

\* The key that a row of the list shows for a record of the current tab's table.
ShownKey(c, row) ==
  IF cols[c] # "joined" THEN Key(tab[c], row)
  ELSE CASE tab[c] = "student" -> <<row[1]>>
         [] tab[c] = "course"  -> <<row[5]>>
         [] tab[c] = "class"   -> <<row[3]>>
         [] tab[c] = "select"  -> <<row[1], row[5]>>

\* Between two handlers the rows of a student, course or class list are rows of the
\* table, unless another client has changed this table since it was read: each
\* handler's change of the list follows what its statement did to the table, and
\* nothing else than a change of the same table by another client outdates a list.
ListShowsTable ==
  \A c \in Clients :
    /\ ui[c] = "idle" /\ cols[c] = tab[c] /\ tab[c] # "select"
    /\ <<c, tab[c]>> \notin outdated
    => \A i \in DOMAIN list[c] : list[c][i] \in db[tab[c]]

\* "Select a row to delete" (SchoolSystemDlg.cpp:333): the statement names the record
\* the selected row shows.
DeletesSelectedRow ==
  \A c \in Clients :
    stmt[c].op = "delete" /\ ui[c] = "sent" =>
      stmt[c].where = ShownKey(c, list[c][stmt[c].at])
=============================================================================
