---------------------------- MODULE MCSchoolClient ----------------------------
(* Small instances of SchoolClient for TLC. *)
EXTENDS SchoolClient

\* 9.50 is stored as a float and printed as 9.5; 9.1 has no exact float.
MCCanonical == [x \in {"9.5", "9.50", "9.1"} |-> IF x = "9.50" THEN "9.5" ELSE x]

Db(class, student, course, select) ==
  [t \in Tables |-> CASE t = "class" -> class [] t = "student" -> student
                      [] t = "course" -> course [] t = "select" -> select]

\* Empty tables, and a student of class b with a score in course b.
MCInitialDbs ==
  {Db({}, {}, {}, {}),
   Db({<<"b", "a">>}, {<<"a", "a", "b">>}, {<<"a", "b">>, <<"b", "a">>}, {<<"a", "b", "9.5">>})}

\* The clients are alike.
Symmetric == Permutations(Clients)
=============================================================================
