--------------------------- MODULE MCTcpTransport ---------------------------
(***************************************************************************)
(* TLC instances of TcpTransport.  Three sockets: one for a first          *)
(* connection, one for a second (after an orderly disconnect(), or opened  *)
(* over a lost one), and one for an attempt that fails.                    *)
(***************************************************************************)
EXTENDS TcpTransport
=============================================================================
