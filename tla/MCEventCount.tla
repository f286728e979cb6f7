---------------------------- MODULE MCEventCount ----------------------------
(* EventCount with two notifiers and a small epoch that wraps. *)
EXTENDS EventCount
=============================================================================
