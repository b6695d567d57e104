--------------------------- MODULE MCEventQueue ----------------------------
(* Model checking of EventQueue on small instances. *)
EXTENDS EventQueue
=============================================================================
