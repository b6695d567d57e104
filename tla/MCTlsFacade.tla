----------------------------- MODULE MCTlsFacade -----------------------------
(* Small instances of TlsFacade for TLC. *)
EXTENDS TlsFacade
=============================================================================
