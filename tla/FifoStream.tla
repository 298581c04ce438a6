------------------------------ MODULE FifoStream ------------------------------
(***************************************************************************)
(* What CTcpSocket promises the two ends of a connection: on every link a  *)
(* stream of chunks, numbered from 1, that the receiver gets in order,     *)
(* without gap and without repetition, some time after they were sent.     *)
(* TcpSocket is shown to implement this module.                            *)
(***************************************************************************)
EXTENDS Integers, Sequences

CONSTANT Links

VARIABLES
  written,  \* number of chunks passed to Send on each link
  read      \* chunks written to the receiver's stream

vars == <<written, read>>

Init ==
  /\ written = [l \in Links |-> 0]
  /\ read = [l \in Links |-> <<>>]

Write(l) ==
  /\ written'[l] > written[l]
  /\ written' = [written EXCEPT ![l] = written'[l]]
  /\ UNCHANGED read

Arrive(l) ==
  /\ \E k \in Len(read[l]) + 1 .. written[l] :
       read' = [read EXCEPT ![l] = [i \in 1 .. k |-> i]]
  /\ UNCHANGED written

Next == \E l \in Links : Write(l) \/ Arrive(l)

Spec == Init /\ [][Next]_vars
=============================================================================
