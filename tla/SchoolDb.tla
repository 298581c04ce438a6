------------------------------- MODULE SchoolDb -------------------------------
(***************************************************************************)
(* The database of the server as its clients see it: the four tables of    *)
(* CServer::CreateTables with their primary and foreign keys, and what     *)
(* MySQL answers to the statements the dialogs build.  A row is the tuple  *)
(* of its columns as text.  A statement yields the new database and the    *)
(* number mysql_affected_rows reports, or -1 for a statement that failed.  *)
(***************************************************************************)
EXTENDS Integers, Sequences

CONSTANTS
  Text,      \* texts a user types for ids and names
  Scores,    \* texts a user types for a score
  Canonical, \* the text MySQL prints for the float stored for a score
  Exact      \* scores that a float represents exactly

ASSUME ScoreAssumption ==
  /\ Canonical \in [Scores -> Scores]
  /\ \A x \in Scores : Canonical[Canonical[x]] = Canonical[x]
  /\ Exact \subseteq Scores

Tables == {"student", "course", "class", "select"}

\* The rows a dialog can enter, column by column.
Rows(t) ==
  CASE t = "student" -> Text \X Text \X Text
    [] t = "select"  -> Text \X Text \X Scores
    [] OTHER         -> Text \X Text

\* PRIMARY KEY.
Key(t, row) == IF t = "select" THEN <<row[1], row[2]>> ELSE <<row[1]>>

\* FOREIGN KEY: the table and key of every row that must exist.
References(t, row) ==
  CASE t = "student" -> {<<"class", <<row[3]>>>>}
    [] t = "select"  -> {<<"student", <<row[1]>>>>, <<"course", <<row[2]>>>>}
    [] OTHER         -> {}

\* A row as the table keeps it and a SELECT prints it.
Stored(t, row) == IF t = "select" THEN [row EXCEPT ![3] = Canonical[@]] ELSE row

\* The keys in use; the constraints of a row against the other tables.
Keys(db, t) == {Key(t, row) : row \in db[t]}

Referenced(db, t, key) ==
  \E u \in Tables : \E row \in db[u] : <<t, key>> \in References(u, row)

Dangling(db, t, row) == \E ref \in References(t, row) : ref[2] \notin Keys(db, ref[1])

Databases == [Tables -> SUBSET UNION {Rows(t) : t \in Tables}]

\* Keys are unique, and every foreign key has its record.
Consistent(db) ==
  \A t \in Tables :
    /\ \A row \in db[t] : row \in Rows(t) /\ row = Stored(t, row) /\ ~ Dangling(db, t, row)
    /\ \A r1, r2 \in db[t] : Key(t, r1) = Key(t, r2) => r1 = r2

\* What a statement leaves and reports.
Outcome(db, n) == [db |-> db, n |-> n]

\* A duplicate key or a dangling reference is an error.
InsertInto(db, t, row) ==
  IF Key(t, row) \in Keys(db, t) \/ Dangling(db, t, row)
  THEN Outcome(db, -1)
  ELSE Outcome([db EXCEPT ![t] = @ \cup {Stored(t, row)}], 1)

\* A record that is referenced cannot be deleted; one that is not there counts as 0.
DeleteFrom(db, t, key) ==
  IF key \notin Keys(db, t) THEN Outcome(db, 0)
  ELSE IF Referenced(db, t, key) THEN Outcome(db, -1)
  ELSE Outcome([db EXCEPT ![t] = {row \in @ : Key(t, row) # key}], 1)

\* A row that keeps all its values does not count as affected.
UpdateRow(db, t, key, new) ==
  LET moves == Key(t, new) # key
  IN  IF key \notin Keys(db, t) \/ (Stored(t, new) \in db[t] /\ ~ moves) THEN Outcome(db, 0)
      ELSE IF \/ Dangling(db, t, new)
              \/ moves /\ (Key(t, new) \in Keys(db, t) \/ Referenced(db, t, key))
      THEN Outcome(db, -1)
      ELSE Outcome([db EXCEPT ![t] = {row \in @ : Key(t, row) # key} \cup {Stored(t, new)}], 1)

\* column = text.  A score is compared as a double: a text like 9.1 differs from
\* the float stored for it.
Matches(t, row, i, text) ==
  IF t = "select" /\ i = 3 THEN text \in Exact /\ Canonical[text] = row[i] ELSE row[i] = text

\* WHERE true AND column = text, for the columns that were filled in.
SelectFrom(db, t, cond) == {row \in db[t] : \A i \in DOMAIN cond : Matches(t, row, i, cond[i])}

\* The joined query: a student j[1] with class name, course and score, seven columns.
JoinedRows(db) ==
  LET joined == {j \in db["student"] \X db["class"] \X db["select"] \X db["course"] :
                   j[1][3] = j[2][1] /\ j[3][1] = j[1][1] /\ j[3][2] = j[4][1]}
  IN  {<<j[1][1], j[1][2], j[1][3], j[2][2], j[3][2], j[4][2], j[3][3]>> : j \in joined}
=============================================================================
