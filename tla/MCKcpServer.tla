---------------------------- MODULE MCKcpServer ----------------------------
(* A small instance of KcpServer for TLC. *)
EXTENDS KcpServer, TLC

CONSTANTS c1, c2, c3

MCConns    == {c1, c2, c3}
MCInitPool == <<c1, c2>>
=============================================================================
