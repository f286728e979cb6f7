---------------------------- MODULE SectorService ----------------------------
(***************************************************************************)
(* What the CD reader promises the emulated drive: a read of a sector ends *)
(* with that sector's content, or with a failure if the medium cannot read *)
(* it.  Read-ahead, caching and hints are not visible.                     *)
(***************************************************************************)
EXTENDS Integers

CONSTANTS
  Sectors,   \* the addresses that can be read
  Flaky      \* those the medium may fail to read

Failed == -1

VARIABLES st, want, answer
vars == <<st, want, answer>>

Init == st = "idle" /\ want = 0 /\ answer = Failed

Ask(l) == st = "idle" /\ st' = "asked" /\ want' = l /\ UNCHANGED answer

Answer ==
  /\ st = "asked" /\ st' = "answered"
  /\ answer' = want \/ (want \in Flaky /\ answer' = Failed)
  /\ UNCHANGED want

Done == st = "answered" /\ st' = "idle" /\ want' = 0 /\ answer' = Failed

Next == (\E l \in Sectors : Ask(l)) \/ Answer \/ Done

Spec == Init /\ [][Next]_vars /\ WF_vars(Answer) /\ WF_vars(Done)
=============================================================================
