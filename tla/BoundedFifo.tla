----------------------------- MODULE BoundedFifo -----------------------------
(***************************************************************************)
(* What a waitable single-producer single-consumer queue promises: a FIFO  *)
(* of at most Cap elements.  A write appends a prefix of what it was given *)
(* and a read takes a prefix of what is there, each in one step.           *)
(***************************************************************************)
EXTENDS Naturals, Sequences

CONSTANTS Data, Cap, MaxBatch

VARIABLES
  q,          \* the elements written and not yet read
  out,        \* what a read has just delivered
  cancelled

vars == <<q, out, cancelled>>

Batches == UNION {[1..n -> Data] : n \in 1..MaxBatch}

Init == q = <<>> /\ out = <<>> /\ cancelled = FALSE

Write(s) ==
  /\ Len(q) + Len(s) <= Cap
  /\ q' = q \o s
  /\ UNCHANGED <<out, cancelled>>

Read(n) ==
  /\ n <= Len(q)
  /\ out' = SubSeq(q, 1, n)
  /\ q' = SubSeq(q, n + 1, Len(q))
  /\ UNCHANGED cancelled

(* The reader has used what it was given. *)
Used == out # <<>> /\ out' = <<>> /\ UNCHANGED <<q, cancelled>>

Cancel == cancelled' = TRUE /\ UNCHANGED <<q, out>>

Next == (\E s \in Batches : Write(s)) \/ (\E n \in 1..MaxBatch : Read(n)) \/ Used \/ Cancel

Spec == Init /\ [][Next]_vars
=============================================================================
