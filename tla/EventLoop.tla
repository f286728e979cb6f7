----------------------------- MODULE EventLoop -----------------------------
(* The event scheduler and the frame loop of the emulated machine           *)
(* (mednafen/ss/ss.c): a list of event times, the cached next_event_ts the  *)
(* CPU loop compares with, the Running flag through which devices end the   *)
(* loop, and the devices that set each other's times from handlers, from    *)
(* register writes and from the update of all events at the loop's start    *)
(* and at the frame's end.                                                  *)
(*                                                                          *)
(* Modelled devices: the SCU's DMA, the SMPC, VDP1, VDP2 and the mid-frame  *)
(* input poll.  The other events (SH-2 DMA, DSP, CD block, sound, cartridge)*)
(* only set their own time, as the SMPC does here.  One clock stands for    *)
(* both CPUs: an instruction is any of them, with up to MaxAccess bus       *)
(* accesses.  What a device computes is left out; when it is to be called   *)
(* next is any of a few later times.                                        *)
EXTENDS Integers, FiniteSetsExt

CONSTANTS
  Phases,     \* of a VDP2 frame; the beam enters Bottom, then Last, then 0
  PhaseLen,   \* cycles of a phase
  Gran,       \* a device asks to be called at most Gran cycles later
  MaxAccess,  \* bus accesses of one instruction
  FastModes   \* values of SH2_FastDMAEvents to consider

ASSUME EventLoopConstants ==
  /\ {Phases, PhaseLen, Gran, MaxAccess} \subseteq Nat \ {0}
  /\ Phases > 2
  /\ FastModes \subseteq BOOLEAN /\ FastModes # {}

VARIABLES
  fast,    \* SH2_FastDMAEvents
  ring,    \* the event list, next_event_ts and Running
  dev,     \* the devices
  mem,     \* SH7095_mem_timestamp
  pc,      \* where the emulator thread is
  at,      \* the event to update next, in ForceEventUpdates
  best,    \* EventHandler's best_t
  after,   \* what EventHandler or ForceEventUpdates returns to
  accesses \* bus accesses the instruction has left

vars == <<fast, ring, dev, mem, pc, at, best, after, accesses>>

\* The modelled events, in their order in the list.
DMA     == 1
SMPC    == 2
VDP1    == 3
VDP2    == 4
MIDSYNC == 5
Events  == 1..5

Disabled == 2147483647   \* SS_EVENT_DISABLED_TS
Bottom   == Phases - 2   \* VPHASE_BOTTOM_BORDER
Last     == Phases - 1   \* the line that ends the frame

FrameCycles == Phases * PhaseLen

Ring == [time : [Events -> 0..Disabled], next : 0..Disabled, running : {-1, 0, 1}]

\* beam and lastts are VDP2's; on and pending are SlaveSH2On and
\* SlaveSH2Pending; drawing is VDP1's DrawingActive.
Dev == [beam : 0..FrameCycles - 1, lastts : Nat, on : BOOLEAN,
        pending : {-1, 0, 1}, drawing : BOOLEAN]

-----------------------------------------------------------------------------
\* FindNextEventTS
Earliest(time) == Min({time[e] : e \in Events})

\* A plausible bug: only the next event's own move is seen.
MutSetNTEarlier(r, e, t) ==
  [r EXCEPT !.time[e] = t,
            !.next = IF r.running <= 0 THEN 0
                     ELSE IF r.time[e] = r.next THEN Earliest([r.time EXCEPT ![e] = t])
                     ELSE r.next]

SetEventNT(r, e, t) ==
  [r EXCEPT !.time[e] = t,
            !.next = IF r.running <= 0 THEN 0
                     ELSE IF r.time[e] = r.next THEN Earliest([r.time EXCEPT ![e] = t])
                     ELSE IF t < r.next THEN t
                     ELSE r.next]

\* Plausible bugs: a frame's end is overwritten; the request is forgotten.
MutRequestEHLExit(r) == [r EXCEPT !.running = -1, !.next = 0]
MutNoEHLExit(r)      == r

RequestEHLExit(r) ==
  IF r.running # 0 THEN [time |-> r.time, next |-> 0, running |-> -1] ELSE r

\* A plausible bug: the frame's end does not override a pending request.
MutRequestMLExit(r) == IF r.running < 0 THEN r ELSE [r EXCEPT !.running = 0, !.next = 0]

RequestMLExit(r) == [time |-> r.time, next |-> 0, running |-> 0]

-----------------------------------------------------------------------------
(* Devices.  An outcome o has the ring, the devices, the time of the CPUs   *)
(* and the result of the call; an operator gives the set of the possible    *)
(* outcomes.                                                                *)
Bind(O, Op(_)) == UNION {Op(o) : o \in O}

\* SS_SetEventNT(&events[e], <the result>)
Set(e, O) == {[o EXCEPT !.ring = SetEventNT(o.ring, e, o.ret)] : o \in O}

Soon(o, ts) == {[o EXCEPT !.ret = ts + d] : d \in 1..Gran}

\* A plausible bug: the DMA event is armed in the exact mode as well.
MutByInterrupt(o) == {o, [o EXCEPT !.ring = SetEventNT(o.ring, DMA, o.mem)]}

\* An interrupt may start a DMA, which arms its event in the fast modes.
ByInterrupt(o) ==
  {o} \cup IF fast THEN {[o EXCEPT !.ring = SetEventNT(o.ring, DMA, o.mem)]} ELSE {}

\* VDP1_Update: the drawing may end.
VDP1Update(o, ts) ==
  Bind({o} \cup IF o.dev.drawing
                THEN ByInterrupt([o EXCEPT !.dev.drawing = FALSE]) ELSE {},
       LAMBDA p : Soon(p, ts))

\* AddHCounter: the phases the beam enters in `clocks` cycles
Entered(beam, clocks) ==
  {p \in {0, Bottom, Last} :
     \E i \in 1..clocks : (beam + i) % FrameCycles = p * PhaseLen}

\* IncVCounter for these phases, with SMPC_SetVBVS at both ends of the vertical
\* blank.  The order does not matter: all set the same time, and no request is
\* undone by what SetEventNT does.
IncVCounter(r, phases, ts) ==
  LET VBlank(q) == SetEventNT(q, SMPC, ts + 1)
      bottom == IF Bottom \in phases THEN VBlank(SetEventNT(r, MIDSYNC, ts + 1)) ELSE r
      last   == IF Last \in phases THEN RequestMLExit(bottom) ELSE bottom
  IN IF 0 \in phases THEN VBlank(last) ELSE last

Advance(o, ts, clocks) ==
  [o EXCEPT !.ring = IncVCounter(@, Entered(o.dev.beam, clocks), ts),
            !.dev.beam = (@ + clocks) % FrameCycles,
            !.dev.lastts = @ + clocks]

\* VDP1_SetHBVB leaving the vertical blank: the buffers may be swapped, which
\* ends the drawing and may start the next.
SwapBuffers(o, ts) ==
  {o, [o EXCEPT !.dev.drawing = FALSE]}
    \cup Set(VDP1, VDP1Update([o EXCEPT !.dev.drawing = TRUE], ts))

\* Cycles until the beam's next change, or until the SCU's timer.
UntilNext(beam) == 1..PhaseLen - (beam % PhaseLen)

\* VDP2_Update, with SCU_SetHBVB's interrupts
VDP2Update(o, ts) ==
  LET clocks == IF ts < o.dev.lastts THEN 0 ELSE ts - o.dev.lastts
      moved  == Advance(o, ts, clocks)
  IN Bind(Bind(IF 0 \in Entered(o.dev.beam, clocks) THEN SwapBuffers(moved, ts) ELSE {moved}, ByInterrupt),
          LAMBDA p : {[p EXCEPT !.ret = p.dev.lastts + n] : n \in UntilNext(p.dev.beam)})

\* SMPC_Update: nothing much, a poll of the inputs, or a command that turns
\* the slave SH-2 on or off.
SMPCUpdate(o, ts) ==
  LET commands ==
        { o,
          [o EXCEPT !.ring = SetEventNT(@, MIDSYNC, ts + 1)],
          [o EXCEPT !.dev.pending = IF o.dev.on THEN -1 ELSE 1, !.ring = RequestEHLExit(@)] }
  IN Bind(commands, LAMBDA p : Soon(p, ts))

\* Register writes, by a CPU or by the DMA.
WriteVDP2(o) ==
  Set(VDP2, Bind(VDP2Update(o, o.mem), LAMBDA p : VDP2Update(p, p.mem)))

VDP1Written(o) ==
  {o, [o EXCEPT !.dev.drawing = TRUE, !.ret = o.mem + 1]}                 \* PTMR
    \cup IF o.dev.drawing
         THEN {[o EXCEPT !.dev.drawing = FALSE, !.ret = o.mem + Gran]}    \* ENDR
         ELSE {}

WriteVDP1(o) ==
  Set(VDP1, Bind(Bind(Set(VDP2, VDP2Update(o, o.mem)),
                      LAMBDA p : VDP1Update(p, p.mem)), VDP1Written))

SMPCWritten(o) == {o, [o EXCEPT !.ret = o.mem + 1]}

WriteSMPC(o) ==
  Set(SMPC, Bind(Bind(Set(VDP2, VDP2Update(o, o.mem)),
                      LAMBDA p : SMPCUpdate(p, p.mem)), SMPCWritten))

WriteDMAStart(o) == Set(DMA, Bind(ByInterrupt(o), LAMBDA p : Soon(p, p.mem)))

\* SCU_UpdateDMA: not before the CPUs' time; may write to the video chips.
DMAUpdate(o, ts) ==
  IF ts < o.mem THEN {[o EXCEPT !.ret = o.mem]}
  ELSE Bind({o} \cup WriteVDP2(o) \cup WriteVDP1(o),
            LAMBDA p : Soon(p, ts) \cup IF fast THEN {[p EXCEPT !.ret = Disabled]} ELSE {})

\* event_handlers[e]
Handler(e, o, ts) ==
  CASE e = DMA     -> DMAUpdate(o, ts)
    [] e = SMPC    -> SMPCUpdate(o, ts)
    [] e = VDP1    -> VDP1Update(o, ts)
    [] e = VDP2    -> VDP2Update(o, ts)
    [] e = MIDSYNC -> {[o EXCEPT !.ret = Disabled]}

Here(time) == [ring |-> ring, dev |-> dev, mem |-> time, ret |-> 0]

\* events[e].event_time = event_handlers[e](ts)
Update(e, ts) ==
  \E o \in Handler(e, Here(mem), ts) :
    /\ ring' = [o.ring EXCEPT !.time[e] = o.ret]
    /\ dev' = o.dev

-----------------------------------------------------------------------------
\* InitEvents
Init ==
  /\ fast \in FastModes
  /\ ring = [time |-> [e \in Events |-> IF e = MIDSYNC THEN Disabled ELSE 0],
             next |-> 0, running |-> 0]
  /\ dev = [beam |-> 0, lastts |-> 0, on |-> FALSE, pending |-> 0, drawing |-> FALSE]
  /\ mem = 0 /\ pc = "idle" /\ at = 1 /\ best = 0 /\ after = "first"
  /\ accesses = MaxAccess

StartFrame ==
  /\ pc = "idle" /\ pc' = "loop"
  /\ UNCHANGED <<fast, ring, dev, mem, at, best, after, accesses>>

\* The head of RunLoop's outer loop: SMPC_ProcessSlaveOffOn, Running = true
EnterLoop ==
  /\ pc = "loop"
  /\ dev' = IF dev.pending = 0 THEN dev
            ELSE [dev EXCEPT !.on = dev.pending > 0, !.pending = 0]
  /\ ring' = [ring EXCEPT !.running = 1]
  /\ pc' = "force" /\ at' = 1 /\ after' = "first"
  /\ UNCHANGED <<fast, mem, best, accesses>>

\* ForceEventUpdates
ForceUpdate ==
  /\ pc = "force" /\ at \in Events
  /\ IF ring.time[at] = Disabled THEN UNCHANGED <<ring, dev>> ELSE Update(at, mem)
  /\ at' = at + 1
  /\ UNCHANGED <<fast, mem, pc, best, after, accesses>>

ForceDone ==
  /\ pc = "force" /\ at \notin Events
  /\ ring' = [ring EXCEPT !.next = IF ring.running > 0 THEN Earliest(ring.time) ELSE 0]
  /\ pc' = after /\ at' = 1
  /\ UNCHANGED <<fast, dev, mem, best, after, accesses>>

\* The outer loop goes round, or the frame is over and all events are updated
\* once more.
LeaveInner ==
  IF ring.running # 0
  THEN pc' = "loop" /\ UNCHANGED <<at, after>>
  ELSE pc' = "force" /\ at' = 1 /\ after' = "rebase"

\* EventHandler(time), returning to `then`
CallHandler(then) ==
  IF ring.running <= 0
  THEN /\ IF then = "write" THEN pc' = then /\ UNCHANGED <<at, after>> ELSE LeaveInner
       /\ UNCHANGED best
  ELSE pc' = "dispatch" /\ best' = ring.next /\ after' = then /\ UNCHANGED at

\* A bus access of an instruction: CheckEventsByMemTS
Access ==
  /\ pc \in {"first", "instr", "exec"} /\ accesses > 0
  /\ mem' = mem + 1 /\ accesses' = accesses - 1
  /\ IF mem' >= ring.next THEN CallHandler("write")
     ELSE pc' = "write" /\ UNCHANGED <<at, best, after>>
  /\ UNCHANGED <<fast, ring, dev>>

\* The access itself, which may cost time after the check
\* (VDP1_Write_CheckDrawSlowdown) and may write to a device.
Write ==
  /\ pc = "write" /\ pc' = "exec"
  /\ \E slow \in {0, 1} :
       /\ mem' = mem + slow
       /\ \E o \in {Here(mem')} \cup WriteVDP1(Here(mem'))
                     \cup (IF slow = 1 THEN {}
                           ELSE WriteVDP2(Here(mem)) \cup WriteSMPC(Here(mem))
                                  \cup WriteDMAStart(Here(mem))) :
            ring' = o.ring /\ dev' = o.dev
  /\ UNCHANGED <<fast, at, best, after, accesses>>

\* The end of the instruction: eff_ts against next_event_ts
Retire ==
  /\ pc \in {"first", "instr", "exec"}
  /\ mem' = mem + 1 /\ accesses' = MaxAccess
  /\ IF mem' < ring.next THEN pc' = "instr" /\ UNCHANGED <<at, best, after>>
     ELSE CallHandler("instr")
  /\ UNCHANGED <<fast, ring, dev>>

\* EventHandler's loop: the first event in the list with the time best_t.
\* Nothing stops the code's scan at the end of the list: were there no such
\* event, this step would not be enabled and TLC would report a deadlock.
Dispatch ==
  /\ pc = "dispatch" /\ best <= mem
  /\ \E e \in Events :
       /\ ring.time[e] = best /\ \A d \in 1..e - 1 : ring.time[d] # best
       /\ Update(e, best)
  /\ best' = Earliest(ring'.time)
  /\ UNCHANGED <<fast, mem, pc, at, after, accesses>>

DispatchDone ==
  /\ pc = "dispatch" /\ best > mem
  /\ ring' = [ring EXCEPT !.next = IF ring.running > 0 THEN best ELSE 0]
  /\ IF after = "write" \/ ring.running > 0
     THEN pc' = after /\ UNCHANGED <<at, after>>
     ELSE LeaveInner
  /\ UNCHANGED <<fast, dev, mem, best, accesses>>

\* RebaseTS and the devices' AdjustTS
Rebase ==
  /\ pc = "rebase" /\ pc' = "idle"
  /\ ring' = LET time == [e \in Events |-> IF ring.time[e] = Disabled THEN Disabled
                                           ELSE ring.time[e] - mem]
             IN [ring EXCEPT !.time = time, !.next = Earliest(time)]
  /\ dev' = [dev EXCEPT !.lastts = @ - mem]
  /\ mem' = 0
  /\ UNCHANGED <<fast, at, best, after, accesses>>

Next ==
  \/ StartFrame \/ EnterLoop \/ ForceUpdate \/ ForceDone \/ Access \/ Write \/ Retire
  \/ Dispatch \/ DispatchDone \/ Rebase

Spec == Init /\ [][Next]_vars

-----------------------------------------------------------------------------
\* The scheduler's state has its type; no device time goes below zero when a
\* frame's length is taken off.
TypeOK ==
  /\ fast \in FastModes
  /\ ring \in Ring /\ dev \in Dev
  /\ mem \in Nat /\ best \in 0..Disabled
  /\ pc \in {"idle", "loop", "force", "first", "instr", "exec", "write", "dispatch", "rebase"}
  /\ at \in 1..6 /\ after \in {"first", "instr", "write", "rebase"}
  /\ accesses \in 0..MaxAccess

\* Whoever changed which times, from where: when an instruction starts, every
\* event is in the future and the CPU loop will stop at the first of them
\* (ss.c:1115, 1443-1454).
NothingOverdue ==
  pc = "instr" => /\ ring.running > 0
                  /\ ring.next = Earliest(ring.time)
                  /\ \A e \in Events : ring.time[e] > mem

\* A request to end the frame is not lost to a later request to leave only
\* the inner loop (ss.c:1494-1507).
FrameEndSticks ==
  [][ring.running = 0 /\ pc # "loop" => ring'.running = 0]_vars

\* A change of the slave SH-2's power is done before the next instruction
\* (smpc.c:1296-1298, 1661-1662, 1670-1671).
SwitchIsPrompt == pc = "instr" => dev.pending = 0

\* At the end of a frame all events are in the future, as RebaseTS asserts
\* (ss.c:1434), in the exact mode.
RebaseAhead == pc = "rebase" /\ ~fast => \A e \in Events : ring.time[e] > mem

\* A frame lasts no longer than the beam takes for one, but for what may pass
\* between an event and the end of the instruction it falls into, twice: the
\* request to leave the loop is never missed for another frame.
MaxLate == 2 * MaxAccess + 1
FrameLength == mem <= FrameCycles + 2 * MaxLate
=============================================================================
