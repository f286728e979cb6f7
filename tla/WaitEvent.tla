------------------------------ MODULE WaitEvent ------------------------------
(***************************************************************************)
(* What an eventcount promises its one waiting thread: a wait that begins  *)
(* with prepare returns once anybody has notified the event since, and may *)
(* return earlier.  EventCount implements it; CdReader and RenderQueue     *)
(* wait on events of this kind.                                            *)
(***************************************************************************)

VARIABLES
  st,         \* the waiter: "running", "prepared" or "waiting"
  signalled   \* notified since the waiter prepared

vars == <<st, signalled>>

Init == st = "running" /\ signalled = FALSE

(* prepare_wait *)
Prepare == st = "running" /\ st' = "prepared" /\ signalled' = FALSE

(* notify, while the waiter holds a key *)
Signal == st # "running" /\ signalled' = TRUE /\ UNCHANGED st

(* cancel_wait *)
Cancel == st = "prepared" /\ st' = "running" /\ signalled' = FALSE

(* commit_wait and commit_wait_timeout begin... *)
Commit == st = "prepared" /\ st' = "waiting" /\ UNCHANGED signalled

(* ...and return, signalled or not. *)
Return == st = "waiting" /\ st' = "running" /\ signalled' = FALSE

Next == Prepare \/ Signal \/ Cancel \/ Commit \/ Return

(* A signalled wait returns; one nobody signals may last for ever. *)
Spec == Init /\ [][Next]_vars /\ WF_vars(signalled /\ Return)
=============================================================================
