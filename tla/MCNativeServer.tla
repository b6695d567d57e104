-------------------------- MODULE MCNativeServer ---------------------------
(* Model checking of NativeServer on small instances. *)
EXTENDS NativeServer
=============================================================================
