--------------------------- MODULE MCRenderQueue ---------------------------
(* A small instance of RenderQueue for TLC. *)
EXTENDS RenderQueue

\* Nothing depends on the counters but their differences, on a ring position
\* but its distance from the entry to execute, or on which of the two frames
\* is which, on whether a plain command is a write or a reset; an executed
\* entry and a read word are never looked at again.
Owed == Minus(pushCount, popCount) + (IF ppc = "publish" THEN 1 ELSE 0)
Relative(e) ==
  <<IF e.op = "reset" THEN "write" ELSE e.op, e.arg, e.n, IF e.op = "draw" THEN e.frame = frame ELSE FALSE,
    IF e.op \in {"draw", "mode"} THEN e.mode ELSE "normal">>

QueueView ==
  LET entries == [i \in 0..QueueSize - 1 |->
        LET e == wq[(popCount + i) % QueueSize] IN
          IF i < Owed THEN <<Relative(e), Minus(e.seq, popCount)>> ELSE <<>>]
      cells == [i \in 0..BurstSize - 1 |->
        IF i < Minus(burstWrite, burstPop)
        THEN Minus(burst[(burstPop + i) % BurstSize], burstPop) ELSE CounterMod]
  IN << <<thread, ppc, [i \in DOMAIN todo |-> Relative(todo[i])], then, running, wakePending, line>>,
        IF ppc \in {"refresh", "park", "parked", "await", "awaitPrepare", "awaitWake", "retest"} THEN goal ELSE "space",
        Minus(pushCount, popCount), Minus(pushCount, popCached),
        Minus(drawPush, drawFinish), Minus(burstWrite, burstPop), Minus(burstWrite, burstCached),
        <<pmode, espec = NoFrame, espec = frame, interlaced>>,
        [l \in 0..Lines - 1 |-> lib[l] = frame], entries, cells, events,
        <<cpc, word, spins, busyWait, cmode>> >>
=============================================================================
