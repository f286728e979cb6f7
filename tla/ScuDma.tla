------------------------------- MODULE ScuDma -------------------------------
(* The SCU's DMA levels (mednafen/ss/scu.inc) and the event that runs       *)
(* them.  A level is started by an interrupt or by a write to its start     *)
(* register, moves its data whenever the SCU_DMA event is visited, as far   *)
(* as a time counter lets it, and restarts if it was started again          *)
(* meanwhile.  In the exact mode the event polls; in the fast modes an idle *)
(* DMA disables it and CheckDMAStart arms it again.  All times are 32-bit   *)
(* and move back by the length of the frame when a frame ends; here they    *)
(* have the range -Half..Half - 1.                                          *)
(*                                                                          *)
(* A transfer is Units units of Cost cycles each; an indirect transfer is   *)
(* the sum of its table's entries.  The other events of the machine are the *)
(* interrupts they raise, at any time.                                      *)
EXTENDS Integers

CONSTANTS
  Levels,        \* the DMA levels in use
  Factor,        \* what starts a level: an interrupt, or Write
  Write,         \* start factor 7, the write to the start register
  Units, Cost,   \* units of a transfer, cycles of a unit
  Gran,          \* DMA_UpdateTimingGran
  Half,          \* 2^31
  FrameLen,      \* cycles of a frame
  Stride,        \* cycles by which an instruction may pass an event
  FastModes,     \* values of SH2_FastDMAEvents to consider
  BusAccesses    \* the CPUs and their DMA reach the A and B bus

ASSUME DmaConstants ==
  /\ Levels \subseteq 0..2
  /\ {Units, Cost, Gran, Half, FrameLen, Stride} \subseteq Nat \ {0}
  /\ FastModes \subseteq BOOLEAN /\ FastModes # {}
  /\ BusAccesses \in BOOLEAN

\* A frame is some 480000 cycles and 2^31 far more; a unit costs some ten cycles
\* and Gran is 127.
ASSUME TimesFit ==
  /\ FrameLen + Stride + Gran + Cost <= Half
  /\ Cost <= Gran

VARIABLES
  fast,   \* SH2_FastDMAEvents
  phase,  \* "idle" between frames, "run" inside Emulate
  now,    \* SH7095_mem_timestamp
  dma     \* the levels, the counters and the event

vars == <<fast, phase, now, dma>>

Disabled == Half - 1   \* SS_EVENT_DISABLED_TS and the parked RunUntil
Unset    == -Half

Lesser(a, b)  == IF a < b THEN a ELSE b
Greater(a, b) == IF a > b THEN a ELSE b
Wrap(x)       == ((x + Half) % (2 * Half)) - Half
DivUp(a, b)   == (a + b - 1) \div b

\* go is GoGoGadget together with what StartDMATransfer will say of the
\* addresses in the registers; finish is 0 when the level is not waiting for it.
Level == [active : {-1, 0, 1}, go : {"no", "legal", "illegal"},
          left : 0..Units, finish : -Half..Half - 1]

Dma == [level : [Levels -> Level], counter : -Half..Half - 1,
        runUntil : -Half..Half - 1, event : 0..Half - 1,
        ret : -Half..Half - 1]

Interrupts  == {Factor[l] : l \in Levels} \ {Write}
Highest(S)  == CHOOSE l \in S : \A k \in S : k <= l
ActiveOf(d) == {l \in Levels : d.level[l].active # 0}

-----------------------------------------------------------------------------
\* SS_SetEventNT, as far as this event is concerned
Arm(d) == IF fast THEN [d EXCEPT !.event = now] ELSE d

\* A plausible bug: the event is not armed again.
MutCheckDMAStart(d, l) ==
  IF d.level[l].active = 0 /\ d.level[l].go = "legal"
  THEN [d EXCEPT !.level[l].go = "no", !.level[l].active = 1, !.level[l].left = Units]
  ELSE d

\* An illegal transfer only raises SCU_INT_DMA_ILL.
CheckDMAStart(d, l) ==
  CASE d.level[l].active # 0 \/ d.level[l].go = "no" -> d
    [] d.level[l].active = 0 /\ d.level[l].go = "illegal" -> [d EXCEPT !.level[l].go = "no"]
    [] d.level[l].active = 0 /\ d.level[l].go = "legal" ->
         Arm([d EXCEPT !.level[l].go = "no", !.level[l].active = 1,
                       !.level[l].left = Units])

Start(d, l, go) == CheckDMAStart([d EXCEPT !.level[l].go = go], l)

\* The end interrupts start nothing.
DoDMAEnd(d, l) ==
  CheckDMAStart([d EXCEPT !.level[l].active = 0, !.level[l].finish = 0], l)

\* UpdateDMAInner: move units until the counter reaches `until`.
Transfer(d, l, until) ==
  LET n    == Lesser(d.level[l].left, DivUp(until - d.counter, Cost))
      time == Wrap(d.counter + n * Cost)
  IN IF d.level[l].active < 1 \/ d.counter >= until THEN d
     ELSE IF n < d.level[l].left
     THEN [d EXCEPT !.level[l].left = @ - n, !.counter = time]
     ELSE [d EXCEPT !.level[l].left = 0, !.counter = time,
                    !.level[l].active = -1, !.level[l].finish = time]

\* A plausible bug: a level does not end at its very finish time.
MutTurn(d, l, ts) ==
  LET moved == Transfer(d, l, d.runUntil) IN
  IF d.ret # Unset \/ d.level[l].active = 0 \/ d.counter >= d.runUntil THEN d
  ELSE IF moved.level[l].active > 0 THEN moved
  ELSE IF ts > moved.level[l].finish THEN DoDMAEnd(moved, l)
  ELSE [moved EXCEPT !.ret = moved.level[l].finish]

\* One turn of the inner loop of SCU_UpdateDMA; ret is its early return.
Turn(d, l, ts) ==
  LET moved == Transfer(d, l, d.runUntil) IN
  IF d.ret # Unset \/ d.level[l].active = 0 \/ d.counter >= d.runUntil THEN d
  ELSE IF moved.level[l].active > 0 THEN moved
  ELSE IF ts >= moved.level[l].finish THEN DoDMAEnd(moved, l)
  ELSE [moved EXCEPT !.ret = moved.level[l].finish]

\* A level is restarted at most once: two turns are enough.
ServeLevel(d, l, ts) == IF l \in Levels THEN Turn(Turn(d, l, ts), l, ts) ELSE d

Serve(d, ts) == ServeLevel(ServeLevel(ServeLevel(d, 2, ts), 1, ts), 0, ts)

FirstCounter(d, ts) == Greater(Lesser(d.runUntil, ts), d.counter)

\* SCU_UpdateDMA; its result is in ret.
UpdateDMA(d, ts) ==
  LET served == Serve([d EXCEPT !.counter = FirstCounter(d, ts),
                                !.runUntil = ts + Gran,
                                !.ret = Unset], ts)
  IN IF ts < now THEN [d EXCEPT !.ret = now]
     ELSE IF served.ret # Unset THEN served
     ELSE IF fast /\ ActiveOf(served) = {}
     THEN [served EXCEPT !.runUntil = Disabled, !.ret = Disabled]
     ELSE [served EXCEPT !.ret = ts + Gran]

\* events[SS_EVENT_SCU_DMA].event_time = SCU_UpdateDMA(ts)
Schedule(d) == [d EXCEPT !.event = d.ret, !.ret = Unset]
Run(d, ts)  == Schedule(UpdateDMA(d, ts))

ForceEventUpdates(d) == IF d.event = Disabled THEN d ELSE Run(d, now)

\* A plausible bug: RunUntil is not put back.
MutForceFinish(d) ==
  LET l     == Highest(ActiveOf(d))
      moved == Transfer(d, l, Disabled)
      done  == IF moved.level[l].active < 0 THEN DoDMAEnd(moved, l) ELSE moved
  IN [done EXCEPT !.counter = Disabled, !.runUntil = Disabled]

\* ForceDMAFinish: the highest active level finishes at once.
ForceFinish(d) ==
  LET l     == Highest(ActiveOf(d))
      moved == Transfer(d, l, Disabled)
      done  == IF moved.level[l].active < 0 THEN DoDMAEnd(moved, l) ELSE moved
  IN [done EXCEPT !.counter = done.runUntil]

\* CheckDMASFByInt
StartLevelBy(d, l, int, go) ==
  IF l \in Levels /\ Factor[l] = int THEN Start(d, l, go) ELSE d

StartBy(d, int, go) ==
  StartLevelBy(StartLevelBy(StartLevelBy(d, 0, int, go), 1, int, go), 2, int, go)

AdjustTS(d, delta) ==
  [d EXCEPT !.counter = Wrap(@ - delta), !.runUntil = Wrap(@ - delta),
            !.level = [l \in Levels |->
               IF d.level[l].active < 0
               THEN [d.level[l] EXCEPT !.finish = Wrap(@ - delta)]
               ELSE d.level[l]],
            !.event = IF @ = Disabled THEN @ ELSE @ - delta]

\* The bound on starvation: a level that has moved its data is not kept from
\* ending, by the levels above it, for Half cycles (75 seconds).
NotStarved == \A l \in Levels : dma.level[l].active < 0 => dma.level[l].finish - now >= -Half

-----------------------------------------------------------------------------
\* SCU_Init, InitEvents
Init ==
  /\ fast \in FastModes
  /\ phase = "idle" /\ now = 0
  /\ dma = [level |-> [l \in Levels |-> [active |-> 0, go |-> "no", left |-> 0, finish |-> 0]],
            counter |-> 0, runUntil |-> 0, event |-> 0,
            ret |-> Unset]

BeginFrame ==
  /\ phase = "idle" /\ phase' = "run"
  /\ dma' = ForceEventUpdates(dma)
  /\ UNCHANGED <<fast, now>>

\* RunLoop goes round after SS_RequestEHLExit.
Reenter ==
  /\ phase = "run"
  /\ dma' = ForceEventUpdates(dma)
  /\ UNCHANGED <<fast, phase, now>>

\* Instructions; time does not pass an event by more than one of them.
Advance ==
  /\ phase = "run" /\ now < FrameLen /\ dma.event > now
  /\ \E step \in 1..Stride : now' = now + step
  /\ UNCHANGED <<fast, phase, dma>>

\* EventHandler finds the event due; a late visit is repeated at the CPU's time.
Visit ==
  /\ phase = "run" /\ dma.event <= now
  /\ dma' = Run(dma, dma.event)
  /\ UNCHANGED <<fast, phase, now>>

Interrupt ==
  /\ phase = "run"
  /\ \E int \in Interrupts, go \in {"legal", "illegal"} : dma' = StartBy(dma, int, go)
  /\ UNCHANGED <<fast, phase, now>>

\* The write access has handled the events due before it.
WriteStart(l) ==
  /\ phase = "run" /\ dma.event > now /\ Factor[l] = Write
  /\ \E go \in {"legal", "illegal"} :
       dma' = Run(Start(UpdateDMA(dma, now), l, go), now)
  /\ UNCHANGED <<fast, phase, now>>

\* A CPU, or an SH-2's DMA, reaches the A or the B bus.
CheckForceDMAFinish ==
  /\ BusAccesses /\ phase = "run" /\ ActiveOf(dma) # {}
  /\ dma' = ForceFinish(dma)
  /\ UNCHANGED <<fast, phase, now>>

\* The last update of all events, where devices updated after the DMA may
\* raise interrupts, and the step back of all times.
EndFrame ==
  /\ phase = "run" /\ now >= FrameLen /\ NotStarved
  /\ LET forced == ForceEventUpdates(dma) IN
       \E after \in {forced} \cup {StartBy(forced, int, "legal") : int \in Interrupts} :
         dma' = AdjustTS(after, now)
  /\ phase' = "idle" /\ now' = 0
  /\ UNCHANGED fast

Next ==
  \/ BeginFrame \/ Reenter \/ Advance \/ Visit \/ Interrupt
  \/ CheckForceDMAFinish \/ EndFrame
  \/ \E l \in Levels : WriteStart(l)

Spec == Init /\ [][Next]_vars

-----------------------------------------------------------------------------
\* The DMA's state has its type, at every step of the emulator.
TypeOK ==
  /\ fast \in FastModes
  /\ phase \in {"idle", "run"}
  /\ now \in 0..FrameLen + Stride
  /\ dma \in Dma

\* An active level will be visited: the event is enabled, and no further away
\* than the code's polling interval (scu.inc:3342, 3357, 3752-3759).
ActiveIsScheduled ==
  ActiveOf(dma) # {} => dma.event <= now + Gran + Cost - 1

\* In the exact mode the DMA never runs ahead of the machine by more than one
\* polling interval and one unit: a transfer takes its time, whatever
\* interrupts, writes and bus accesses come between (scu.inc:3731-3738, 3790).
NotAhead ==
  ~fast => dma.counter <= now + Gran + Cost - 1

\* Every due visit moves the highest active level, unless that has moved its
\* data and the time it ends at is still to come: together with
\* ActiveIsScheduled, a transfer that nothing outranks ends, whatever was
\* started, finished early or rescheduled before (scu.inc:3731-3748).
VisitMoves ==
  [][Visit /\ ~fast /\ dma.event = now /\ ActiveOf(dma) # {} =>
     LET top == Highest(ActiveOf(dma)) IN
       \/ dma.level[top].active < 0 /\ dma.level[top].finish > now
       \/ dma'.level[top] # dma.level[top]]_vars
=============================================================================
