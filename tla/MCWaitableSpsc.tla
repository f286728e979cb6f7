--------------------------- MODULE MCWaitableSpsc ---------------------------
(* WaitableSpsc on a ring of two units whose cursors wrap after four. *)
EXTENDS WaitableSpsc
=============================================================================
