--------------------------- MODULE MCTcpConnection ---------------------------
(* Small instances of TcpConnection; the bounds are in the configurations. *)
EXTENDS TcpConnection
==============================================================================
