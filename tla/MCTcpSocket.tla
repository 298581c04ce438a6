------------------------------ MODULE MCTcpSocket ------------------------------
(* Small instances of TcpSocket for TLC. *)
EXTENDS TcpSocket
=============================================================================
