----------------------------- MODULE RenderQueue -----------------------------
(* The VDP2 render thread: mednafen/ss/vdp2_render.c, lines 5097-5773.       *)
(*                                                                           *)
(* The emulation thread (ppc) writes commands into a ring and the render     *)
(* thread (cpc) executes them in order.  Every cursor and counter runs freely *)
(* and is written by one thread, so the thread's own copy (PushLocal,        *)
(* PopLocal, DrawFinishLocal, BurstReadPos) equals what it last published    *)
(* and is not a variable here, and a ring position is the cursor modulo the  *)
(* ring.  The two threads park on two events of the kind WaitEvent states    *)
(* and EventCount implements: Wake has the render thread as its waiter,      *)
(* Drain the emulation thread.                                               *)
EXTENDS Naturals, Sequences

CONSTANTS
  QueueSize,        \* WQ_SIZE
  BurstSize,        \* BurstBufSize
  MaxBurst,         \* words of the longest burst
  CounterMod,       \* values of the 32-bit counters
  Lines,            \* VisibleLines
  BusyLine,         \* bwthresh
  Batch,            \* queued lines at which a parked consumer is woken
  SpinBudget,       \* polls before a busy-waiting consumer parks
  BusyWaitAllowed,  \* two hardware threads are online
  Calls             \* bound: the calls the emulator makes in a run

AllCalls == {"write", "burst", "draw", "mode", "reset", "frame", "state", "kill"}

ASSUME SizeAssumption ==
  /\ QueueSize \in Nat \ {0} /\ BurstSize \in Nat \ {0} /\ MaxBurst \in 1..BurstSize
  /\ CounterMod \in Nat /\ CounterMod > QueueSize + 2 /\ CounterMod > BurstSize
  /\ CounterMod % QueueSize = 0 /\ CounterMod % BurstSize = 0
ASSUME LineAssumption == Lines \in Nat \ {0} /\ BusyLine \in 0..Lines /\ Batch \in Nat
ASSUME SpinAssumption == SpinBudget \in Nat \ {0}
ASSUME FlagAssumption == BusyWaitAllowed \in BOOLEAN /\ Calls \subseteq AllCalls

VARIABLES
  thread,         \* RThread is there
  (* the emulation thread *)
  ppc,            \* where it is
  goal,           \* what it waits for: "space", "words", "draws" or "drained"
  todo,           \* the commands its call still has to queue
  then,           \* where its call goes on after them
  popCached,      \* Prod.WQ_PopCached
  burstCached,    \* Prod.BurstPopCached
  burstWrite,     \* Prod.BurstWritePos
  wakePending,    \* Prod.WakePending
  pmode,          \* ProducerDeinterlaceMode
  espec,          \* the frame whose surface is lent, or NoFrame
  interlaced,     \* espec->InterlaceOn
  frame,          \* which frame it is (two alternate)
  line,           \* CRTLineCounter
  (* shared *)
  wq,             \* WQ: ring position -> entry
  lib,            \* LIB: line -> the frame it was last filled in
  burst,          \* BurstBuf: cell -> the word's number in the stream of words
  pushCount, popCount, drawPush, drawFinish, burstPop,
  wakeSt, wakeSig, drainSt, drainSig,   \* WakeEvent, DrainEvent
  (* the render thread *)
  cpc,            \* where it is
  running,        \* Running: the command in hand is not EXIT
  word,           \* word of the burst it is at
  spins,
  busyWait,       \* DoBusyWait
  cmode           \* ConsumerDeinterlaceMode

producer == <<ppc, goal, todo, then, popCached, burstCached, wakePending, line>>
screen == <<pmode, espec, interlaced, frame, lib>>
ring == <<wq, pushCount, drawPush>>
words == <<burst, burstWrite>>
popped == <<popCount, drawFinish, burstPop>>
events == <<wakeSt, wakeSig, drainSt, drainSig>>
consumer == <<cpc, running, word, spins, busyWait, cmode>>
vars == <<thread, producer, screen, ring, words, popped, events, consumer>>

Wake == INSTANCE WaitEvent WITH st <- wakeSt, signalled <- wakeSig
Drain == INSTANCE WaitEvent WITH st <- drainSt, signalled <- drainSig

\* retro_eventcount_notify: without a waiter it changes nothing.
NotifyWake == IF wakeSt = "running" THEN UNCHANGED <<wakeSt, wakeSig>> ELSE Wake!Signal
NotifyDrain == IF drainSt = "running" THEN UNCHANGED <<drainSt, drainSig>> ELSE Drain!Signal

NoFrame == 2
Modes == {"normal", "progressive"}
Plus(a, b) == (a + b) % CounterMod
Minus(a, b) == (a + CounterMod - b) % CounterMod

\* A command, with what it must find when it is executed: the entry's number
\* in the stream of commands, the frame, and the mode then in force.
Command(op, arg, n) ==
  [op |-> op, arg |-> arg, n |-> n, seq |-> 0, frame |-> frame, mode |-> pmode]
Plain(op) == Command(op, 0, 0)
Empty == [op |-> "none", arg |-> 0, n |-> 0, seq |-> 0, frame |-> 0, mode |-> "normal"]

Init ==
  /\ thread = FALSE
  /\ ppc = "idle" /\ goal = "space" /\ todo = <<>> /\ then = "idle"
  /\ popCached = 0 /\ burstCached = 0 /\ burstWrite = 0 /\ wakePending = FALSE
  /\ pmode = "normal" /\ espec = NoFrame /\ interlaced = FALSE /\ frame = 0 /\ line = 0
  /\ wq = [i \in 0..QueueSize - 1 |-> Empty]
  /\ lib = [l \in 0..Lines - 1 |-> 0]
  /\ burst = [i \in 0..BurstSize - 1 |-> 0]
  /\ pushCount = 0 /\ popCount = 0 /\ drawPush = 0 /\ drawFinish = 0 /\ burstPop = 0
  /\ Wake!Init /\ Drain!Init
  /\ cpc = "off" /\ running = TRUE /\ word = 0 /\ spins = 0 /\ busyWait = FALSE /\ cmode = "normal"

-----------------------------------------------------------------------------
(* The calls of the emulation thread. *)

Ready(call) == ppc = "idle" /\ call \in Calls

\* WWQ of @commands, then on to @next.
Queue(commands, next) == ppc' = "push" /\ todo' = commands /\ then' = next

\* VDP2REND_Init.
StartThread ==
  /\ ppc = "idle" /\ ~thread
  /\ thread' = TRUE
  /\ popCached' = 0 /\ burstCached' = 0 /\ burstWrite' = 0 /\ wakePending' = FALSE
  /\ pushCount' = 0 /\ popCount' = 0 /\ drawPush' = 0 /\ drawFinish' = 0 /\ burstPop' = 0
  /\ busyWait' = FALSE
  /\ wakeSt' = "running" /\ wakeSig' = FALSE /\ drainSt' = "running" /\ drainSig' = FALSE
  /\ cpc' = "check" /\ running' = TRUE /\ word' = 0 /\ spins' = 0
  /\ UNCHANGED <<ppc, goal, todo, then, line, screen, wq, burst, cmode>>

\* VDP2REND_Write8_DB and VDP2REND_Write16_DB.
Write ==
  /\ Ready("write") /\ thread
  /\ Queue(<<Plain("write")>>, "idle")
  /\ UNCHANGED <<thread, goal, popCached, burstCached, wakePending, line, screen, ring, words, popped, events, consumer>>

\* VDP2REND_Reset.
Reset ==
  /\ Ready("reset") /\ thread
  /\ Queue(<<Plain("reset")>>, "idle")
  /\ UNCHANGED <<thread, goal, popCached, burstCached, wakePending, line, screen, ring, words, popped, events, consumer>>

\* The consumer's mode is written directly only when there is no thread.
SetDirectly == ~thread

SetDeinterlaceMode(m) ==
  /\ Ready("mode") /\ m # pmode
  /\ pmode' = m
  /\ IF SetDirectly
     THEN cmode' = m /\ UNCHANGED <<ppc, todo, then>>
     ELSE /\ Queue(<<[Plain("mode") EXCEPT !.mode = m]>>, "idle")
          /\ UNCHANGED cmode
  /\ UNCHANGED <<thread, goal, popCached, burstCached, wakePending, line, espec, interlaced, frame, lib,
                 ring, words, popped, events, cpc, running, word, spins, busyWait>>

StartFrame(double) ==
  /\ Ready("frame") /\ thread /\ espec = NoFrame
  /\ frame' = 1 - frame
  /\ espec' = 1 - frame /\ interlaced' = double /\ line' = 0
  /\ UNCHANGED <<thread, ppc, goal, todo, then, popCached, burstCached, wakePending, pmode, lib,
                 ring, words, popped, events, consumer>>

Progressive == pmode = "progressive" /\ interlaced

\* VDP2_Update fills LIB for a line, then VDP2REND_DrawLine queues it, as one
\* command for each field when both are drawn; the count goes up first.
DrawLine ==
  /\ Ready("draw") /\ espec # NoFrame /\ line < Lines
  /\ lib' = [lib EXCEPT ![line] = frame]
  /\ LET draw == Command("draw", line, 0)
         draws == IF Progressive THEN <<draw, draw>> ELSE <<draw>>
     IN /\ drawPush' = Plus(drawPush, Len(draws))
        /\ Queue(draws \o (IF line = BusyLine /\ BusyWaitAllowed
                           THEN <<Command("busywait", 1, 0)>> ELSE <<>>),
                 "lineWake")
  /\ UNCHANGED <<thread, goal, popCached, burstCached, wakePending, line, pmode, espec, interlaced, frame,
                 wq, pushCount, words, popped, events, consumer>>

\* The consumer is woken for the last lines, and for a batch of earlier ones.
LineWake ==
  /\ ppc = "lineWake"
  /\ LET queued == Minus(drawPush, drawFinish)
         own == IF Progressive THEN 2 ELSE 1
         full == queued > own /\ queued >= Batch /\ wakePending
         woken == IF line < BusyLine THEN full ELSE line = BusyLine \/ BusyWaitAllowed
     IN /\ wakePending' = IF line >= BusyLine THEN wakePending
                          ELSE IF queued <= own THEN TRUE
                          ELSE wakePending /\ ~full
        /\ IF woken THEN NotifyWake ELSE UNCHANGED <<wakeSt, wakeSig>>
  /\ line' = line + 1
  /\ ppc' = "idle"
  /\ UNCHANGED <<thread, goal, todo, then, popCached, burstCached, screen, ring, words, popped,
                 drainSt, drainSig, consumer>>

WordsFull(n) == Minus(burstWrite, burstCached) > BurstSize - n

\* VDP2REND_WriteBurst16_DB: the words first, then the command.
BeginBurst(n) ==
  /\ Ready("burst") /\ thread
  /\ todo' = <<Command("burst", 0, n)>>
  /\ ppc' = "burst" /\ then' = "idle"
  /\ UNCHANGED <<thread, goal, popCached, burstCached, wakePending, line, screen, ring, words, popped, events, consumer>>

BurstFull ==
  /\ ppc = "burst" /\ WordsFull(todo[1].n)
  /\ Drain!Prepare
  /\ goal' = "words" /\ ppc' = "refresh"
  /\ UNCHANGED <<thread, todo, then, popCached, burstCached, wakePending, line, screen, ring, words, popped,
                 wakeSt, wakeSig, consumer>>

CopyWords ==
  /\ ppc = "burst" /\ ~WordsFull(todo[1].n)
  /\ burst' = [c \in 0..BurstSize - 1 |->
       LET i == CHOOSE j \in 0..BurstSize - 1 : (burstWrite + j) % BurstSize = c
       IN IF i < todo[1].n THEN Plus(burstWrite, i) ELSE burst[c]]
  /\ burstWrite' = Plus(burstWrite, todo[1].n)
  /\ ppc' = "push"
  /\ UNCHANGED <<thread, goal, todo, then, popCached, burstCached, wakePending, line, screen, ring, popped, events, consumer>>

EndFrame ==
  /\ Ready("frame") /\ espec # NoFrame
  /\ ppc' = "await" /\ goal' = "draws"
  /\ UNCHANGED <<thread, todo, then, popCached, burstCached, wakePending, line, screen, ring, words, popped, events, consumer>>

\* espec = NULL, with the lines nobody drew filled in black before.
FrameDone ==
  /\ ppc = "frameDone"
  /\ espec' = NoFrame
  /\ ppc' = "idle"
  /\ UNCHANGED <<thread, goal, todo, then, popCached, burstCached, wakePending, line, pmode, interlaced, frame, lib,
                 ring, words, popped, events, consumer>>

\* VDP2REND_StateAction.
StateAction ==
  /\ Ready("state") /\ thread
  /\ ppc' = "await" /\ goal' = "drained"
  /\ UNCHANGED <<thread, todo, then, popCached, burstCached, wakePending, line, screen, ring, words, popped, events, consumer>>

\* The registers, VRAM and CRAM saved or loaded by the emulation thread.
StateDone ==
  /\ ppc = "state"
  /\ ppc' = "idle"
  /\ UNCHANGED <<thread, goal, todo, then, popCached, burstCached, wakePending, line, screen, ring, words, popped, events, consumer>>

Kill ==
  /\ Ready("kill") /\ thread /\ espec = NoFrame
  /\ Queue(<<Plain("exit")>>, "stop")
  /\ UNCHANGED <<thread, goal, popCached, burstCached, wakePending, line, screen, ring, words, popped, events, consumer>>

KillWake ==
  /\ ppc = "stop"
  /\ NotifyWake
  /\ ppc' = "join"
  /\ UNCHANGED <<thread, goal, todo, then, popCached, burstCached, wakePending, line, screen, ring, words, popped,
                 drainSt, drainSig, consumer>>

Join ==
  /\ ppc = "join" /\ cpc = "ended"
  /\ thread' = FALSE /\ cpc' = "off" /\ ppc' = "idle"
  /\ UNCHANGED <<goal, todo, then, popCached, burstCached, wakePending, line, screen, ring, words, popped, events,
                 running, word, spins, busyWait, cmode>>

-----------------------------------------------------------------------------
(* WWQ, and the waits of the emulation thread. *)

MutQueueFull == Minus(pushCount, popCached) > QueueSize
QueueFull == Minus(pushCount, popCached) = QueueSize

PushFull ==
  /\ ppc = "push" /\ QueueFull
  /\ Drain!Prepare
  /\ goal' = "space" /\ ppc' = "refresh"
  /\ UNCHANGED <<thread, todo, then, popCached, burstCached, wakePending, line, screen, ring, words, popped,
                 wakeSt, wakeSig, consumer>>

WriteEntry ==
  /\ ppc = "push" /\ ~QueueFull
  /\ wq' = [wq EXCEPT ![pushCount % QueueSize] = [Head(todo) EXCEPT !.seq = pushCount]]
  /\ ppc' = "publish"
  /\ UNCHANGED <<thread, goal, todo, then, popCached, burstCached, wakePending, line, screen, pushCount, drawPush,
                 words, popped, events, consumer>>

Publish ==
  /\ ppc = "publish"
  /\ pushCount' = Plus(pushCount, 1)
  /\ todo' = Tail(todo)
  /\ ppc' = IF Len(todo) > 1 THEN "push" ELSE then
  /\ UNCHANGED <<thread, goal, then, popCached, burstCached, wakePending, line, screen, wq, drawPush,
                 words, popped, events, consumer>>

\* The cached cursor brought up to date, once the wait is registered.
Refresh ==
  /\ ppc = "refresh"
  /\ IF goal = "space" THEN popCached' = popCount /\ UNCHANGED burstCached
                       ELSE burstCached' = burstPop /\ UNCHANGED popCached
  /\ LET full == IF goal = "space" THEN Minus(pushCount, popCount) = QueueSize
                 ELSE Minus(burstWrite, burstPop) > BurstSize - todo[1].n
     IN IF full THEN ppc' = "park" /\ UNCHANGED <<drainSt, drainSig>>
        ELSE Drain!Cancel /\ ppc' = IF goal = "space" THEN "push" ELSE "burst"
  /\ UNCHANGED <<thread, goal, todo, then, wakePending, line, screen, ring, words, popped,
                 wakeSt, wakeSig, consumer>>

Park ==
  /\ ppc = "park"
  /\ NotifyWake /\ Drain!Commit
  /\ ppc' = "parked"
  /\ UNCHANGED <<thread, goal, todo, then, popCached, burstCached, wakePending, line, screen, ring, words, popped, consumer>>

MutDrained == drawFinish = drawPush
Drained == popCount = pushCount

MutDrawn == Minus(drawPush, drawFinish) <= 1
Drawn == drawFinish = drawPush
GoalMet == IF goal = "draws" THEN Drawn ELSE Drained

\* EndFrame's and StateAction's loop: test, prepare, wake, test again, park.
AwaitOver ==
  /\ ppc = "await" /\ GoalMet
  /\ IF goal = "draws" THEN Queue(<<Command("busywait", 0, 0)>>, "frameDone")
                       ELSE ppc' = "state" /\ UNCHANGED <<todo, then>>
  /\ UNCHANGED <<thread, goal, popCached, burstCached, wakePending, line, screen, ring, words, popped, events, consumer>>

AwaitMore ==
  /\ ppc = "await" /\ ~GoalMet
  /\ ppc' = "awaitPrepare"
  /\ UNCHANGED <<thread, goal, todo, then, popCached, burstCached, wakePending, line, screen, ring, words, popped, events, consumer>>

AwaitPrepare ==
  /\ ppc = "awaitPrepare"
  /\ Drain!Prepare
  /\ ppc' = "awaitWake"
  /\ UNCHANGED <<thread, goal, todo, then, popCached, burstCached, wakePending, line, screen, ring, words, popped,
                 wakeSt, wakeSig, consumer>>

AwaitWake ==
  /\ ppc = "awaitWake"
  /\ NotifyWake
  /\ ppc' = "retest"
  /\ UNCHANGED <<thread, goal, todo, then, popCached, burstCached, wakePending, line, screen, ring, words, popped,
                 drainSt, drainSig, consumer>>

Retest ==
  /\ ppc = "retest"
  /\ IF GoalMet THEN Drain!Cancel /\ ppc' = "await"
                ELSE Drain!Commit /\ ppc' = "parked"
  /\ UNCHANGED <<thread, goal, todo, then, popCached, burstCached, wakePending, line, screen, ring, words, popped,
                 wakeSt, wakeSig, consumer>>

DrainReturn ==
  /\ ppc = "parked"
  /\ Drain!Return
  /\ ppc' = IF goal = "space" THEN "push" ELSE IF goal = "words" THEN "burst" ELSE "await"
  /\ UNCHANGED <<thread, goal, todo, then, popCached, burstCached, wakePending, line, screen, ring, words, popped,
                 wakeSt, wakeSig, consumer>>

-----------------------------------------------------------------------------
(* The render thread: RThreadEntry and ConsumeCommand. *)

Entry == wq[popCount % QueueSize]
Nothing == pushCount = popCount

\* DoBusyWait is on and the polls are not used up.
Polling == busyWait /\ spins + 1 < SpinBudget

Poll ==
  /\ cpc = "check" /\ Nothing /\ Polling
  /\ spins' = spins + 1
  /\ UNCHANGED <<thread, producer, screen, ring, words, popped, events, cpc, running, word, busyWait, cmode>>

Drowsy ==
  /\ cpc = "check" /\ Nothing /\ ~Polling
  /\ cpc' = "drowsy"
  /\ UNCHANGED <<thread, producer, screen, ring, words, popped, events, running, word, spins, busyWait, cmode>>

SleepPrepare ==
  /\ cpc = "drowsy"
  /\ Wake!Prepare
  /\ cpc' = "recheck"
  /\ UNCHANGED <<thread, producer, screen, ring, words, popped, drainSt, drainSig, running, word, spins, busyWait, cmode>>

MutSleepAnyway == TRUE
\* The queue is tested again once the wait is registered.
StillNothing == Nothing

Recheck ==
  /\ cpc = "recheck"
  /\ IF StillNothing THEN Wake!Commit /\ cpc' = "parked"
                     ELSE Wake!Cancel /\ cpc' = "check"
  /\ UNCHANGED <<thread, producer, screen, ring, words, popped, drainSt, drainSig, running, word, spins, busyWait, cmode>>

WakeReturn ==
  /\ cpc = "parked"
  /\ Wake!Return
  /\ cpc' = "check"
  /\ UNCHANGED <<thread, producer, screen, ring, words, popped, drainSt, drainSig, running, word, spins, busyWait, cmode>>

Begin ==
  /\ cpc = "check" /\ ~Nothing
  /\ running' = (Entry.op # "exit")
  /\ cpc' = "run"
  /\ UNCHANGED <<thread, producer, screen, ring, words, popped, events, word, spins, busyWait, cmode>>

\* ConsumeCommand's switch.
Run ==
  /\ cpc = "run"
  /\ cpc' = IF Entry.op = "draw" THEN "draw" ELSE IF Entry.op = "burst" THEN "words" ELSE "pop"
  /\ word' = 0
  /\ busyWait' = IF Entry.op = "busywait" THEN Entry.arg = 1 ELSE busyWait
  /\ cmode' = IF Entry.op = "mode" THEN Entry.mode ELSE cmode
  /\ UNCHANGED <<thread, producer, screen, ring, words, popped, events, running, spins>>

\* The line is in the surface.
DrawDone ==
  /\ cpc = "draw"
  /\ drawFinish' = Plus(drawFinish, 1)
  /\ cpc' = "drawn"
  /\ UNCHANGED <<thread, producer, screen, ring, words, popCount, burstPop, events, running, word, spins, busyWait, cmode>>

\* The load and the notification it decides are one step: the load's other
\* side is a wait that retests, and a later notification only wakes more.
DrawNotify ==
  /\ cpc = "drawn"
  /\ IF drawFinish = drawPush THEN NotifyDrain ELSE UNCHANGED <<drainSt, drainSig>>
  /\ cpc' = "pop"
  /\ UNCHANGED <<thread, producer, screen, ring, words, popped, wakeSt, wakeSig, running, word, spins, busyWait, cmode>>

NextWord ==
  /\ cpc = "words" /\ word < Entry.n
  /\ word' = word + 1
  /\ UNCHANGED <<thread, producer, screen, ring, words, popped, events, cpc, running, spins, busyWait, cmode>>

WordsDone ==
  /\ cpc = "words" /\ word = Entry.n
  /\ burstPop' = Plus(burstPop, Entry.n)
  /\ cpc' = "pop"
  /\ UNCHANGED <<thread, producer, screen, ring, words, popCount, drawFinish, events, running, word, spins, busyWait, cmode>>

Pop ==
  /\ cpc = "pop"
  /\ popCount' = Plus(popCount, 1)
  /\ cpc' = "popped"
  /\ UNCHANGED <<thread, producer, screen, ring, words, drawFinish, burstPop, events, running, word, spins, busyWait, cmode>>

\* A full drain and a full ring are answered once the queue is empty.
Notifies == popCount = pushCount

PopNotify ==
  /\ cpc = "popped"
  /\ IF Notifies THEN NotifyDrain ELSE UNCHANGED <<drainSt, drainSig>>
  /\ cpc' = IF running THEN "check" ELSE "ended"
  /\ spins' = 0
  /\ UNCHANGED <<thread, producer, screen, ring, words, popped, wakeSt, wakeSig, running, word, busyWait, cmode>>

-----------------------------------------------------------------------------
Call ==
  \/ StartThread \/ Write \/ Reset \/ DrawLine \/ EndFrame \/ StateAction \/ Kill
  \/ \E m \in Modes : SetDeinterlaceMode(m)
  \/ \E double \in BOOLEAN : StartFrame(double)
  \/ \E n \in 1..MaxBurst : BeginBurst(n)

\* What the emulation thread does inside a call, its waits apart.
ProducerRuns ==
  \/ LineWake \/ BurstFull \/ CopyWords \/ FrameDone \/ StateDone \/ KillWake \/ Join
  \/ PushFull \/ WriteEntry \/ Publish \/ Refresh \/ Park
  \/ AwaitOver \/ AwaitMore \/ AwaitPrepare \/ AwaitWake \/ Retest

ConsumerRuns ==
  \/ Poll \/ Drowsy \/ SleepPrepare \/ Recheck \/ Begin \/ Run \/ DrawDone \/ DrawNotify
  \/ NextWord \/ WordsDone \/ Pop \/ PopNotify

Next == Call \/ ProducerRuns \/ ConsumerRuns \/ DrainReturn \/ WakeReturn

Spec == Init /\ [][Next]_vars

-----------------------------------------------------------------------------
(* Properties *)

Ops == {"none", "write", "burst", "draw", "mode", "busywait", "reset", "exit"}
Counters == 0..CounterMod - 1
EntrySet == [op : Ops, arg : 0..Lines, n : 0..MaxBurst, seq : Counters, frame : {0, 1}, mode : Modes]
WaitStates == {"running", "prepared", "waiting"}

\* Every variable has its type.
TypeOK ==
  /\ thread \in BOOLEAN
  /\ ppc \in {"idle", "push", "publish", "refresh", "park", "parked", "await", "awaitPrepare", "awaitWake", "retest",
              "lineWake", "burst", "frameDone", "state", "stop", "join"}
  /\ goal \in {"space", "words", "draws", "drained"}
  /\ todo \in Seq(EntrySet) /\ Len(todo) <= 3 /\ then \in {"idle", "lineWake", "frameDone", "stop"}
  /\ popCached \in Counters /\ burstCached \in Counters /\ burstWrite \in Counters
  /\ wakePending \in BOOLEAN
  /\ pmode \in Modes /\ espec \in {0, 1, NoFrame} /\ interlaced \in BOOLEAN /\ frame \in {0, 1}
  /\ line \in 0..Lines
  /\ wq \in [0..QueueSize - 1 -> EntrySet] /\ lib \in [0..Lines - 1 -> {0, 1}]
  /\ burst \in [0..BurstSize - 1 -> Counters]
  /\ {pushCount, popCount, drawPush, drawFinish, burstPop} \subseteq Counters
  /\ wakeSt \in WaitStates /\ drainSt \in WaitStates /\ wakeSig \in BOOLEAN /\ drainSig \in BOOLEAN
  /\ cpc \in {"off", "check", "drowsy", "recheck", "parked", "run", "draw", "drawn", "words", "pop", "popped", "ended"}
  /\ running \in BOOLEAN /\ word \in 0..MaxBurst /\ spins \in 0..SpinBudget
  /\ busyWait \in BOOLEAN /\ cmode \in Modes

Executing == cpc \in {"run", "draw", "words"}

\* The command in the render thread's hands is the next one that was queued,
\* whole, and a burst is applied with the words it was queued with: neither a
\* later command nor later words have reached their rings before they were
\* read, and no word is missing.
CommandsIntact ==
  /\ Executing => Entry.seq = popCount
  /\ cpc = "words" /\ word < Entry.n =>
       burst[(burstPop + word) % BurstSize] = Plus(burstPop, word)

\* A line is drawn into the surface of the frame that queued it, while that
\* surface is lent, from the line information of that frame, and in the mode
\* in force when it was queued.
DrawSeesItsFrame ==
  cpc = "draw" =>
    /\ espec = Entry.frame
    /\ lib[Entry.arg] = Entry.frame
    /\ cmode = Entry.mode

\* A state is saved or loaded with every write applied and the render thread
\* not touching the registers and memories.
StateIsSettled ==
  ppc = "state" => Nothing /\ ~Executing /\ cpc # "pop"

\* The emulation thread is never left waiting for a render thread that sleeps
\* with nobody about to wake it, or that has gone: no notification is given
\* before its waiter waits, and none is left out.
AsleepForGood ==
  \/ cpc = "parked" /\ ~wakeSig
  \/ cpc \in {"off", "ended"}
NobodyStranded ==
  /\ ppc = "parked" /\ ~drainSig => ~AsleepForGood
  /\ ppc = "join" => ~(cpc = "parked" /\ ~wakeSig)
=============================================================================
