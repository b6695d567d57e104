----------------------------- MODULE MCTcpFacade -----------------------------
(* Small instances of TcpFacade for TLC. *)
EXTENDS TcpFacade
=============================================================================
