---------------------------- MODULE MCTcpWorker ----------------------------
(* Model checking of TcpWorker on small instances. *)
EXTENDS TcpWorker, TLC

Symmetry == Permutations(Fds) \cup Permutations(Slots)
=============================================================================
