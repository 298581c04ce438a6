---------------------------- MODULE MCSchoolSystem ----------------------------
(* Small instances of SchoolSystem for TLC. *)
EXTENDS SchoolSystem

CONSTANTS c1, c2, q1, u1, q2

\* Client c1 has a SELECT and an UPDATE, client c2 a SELECT.
MCClient == [k \in Statements |-> IF k = q2 THEN c2 ELSE c1]

\* A length that decodes to a negative number, and one that happens to be right.
MCMisread == {-1, 1}

\* The threads of the pool are interchangeable.
MCSymmetry == Permutations(Workers)
=============================================================================
