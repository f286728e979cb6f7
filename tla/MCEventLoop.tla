---------------------------- MODULE MCEventLoop ----------------------------
(* EventLoop with a view that leaves out what no step reads before it is    *)
(* written again: EventHandler's and ForceEventUpdates' locals outside of   *)
(* them, next_event_ts while all events are updated, and the accesses left  *)
(* when no instruction is running.                                          *)
EXTENDS EventLoop

Outside == pc \in {"idle", "loop", "force", "rebase"}

LiveView ==
  <<fast, pc, mem, dev, ring.time, ring.running,
    IF Outside THEN 0 ELSE ring.next,
    IF pc = "force" THEN at ELSE 0,
    IF pc = "dispatch" THEN best ELSE 0,
    IF pc \in {"dispatch", "force"} THEN after ELSE "first",
    IF Outside THEN 0 ELSE accesses>>
=============================================================================
