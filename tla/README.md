# A verification model of the Saturn core

TLA+ modules of the parts of beetle-saturn-libretro whose correctness depends on
the order in which things happen: the threads and the queues between them, the
saves, the scheduler that decides when each emulated device runs, and the devices
that are coroutines and state machines with several clients, the CD block, its
drive and the system manager. TLC checks them on small instances; TLAPS proves the
most important invariants for every value of the parameters. `PROJECT.json` names,
for every definition, the lines of the source it stands for, and lists the runs,
hazards, findings and theorems.

File and line references are to the repository. The code is built with `NDEBUG`
in release builds, so its `assert`s are comments there; where one states a
property it is named below.

## 1. The system

### Threads

The threaded build has four threads:

* the **emulation thread**: `retro_run` and everything of the emulated machine;
* the **CD worker** (`cdromif.c`), which reads sectors from the image;
* the **save writer** (`save_writer.c`), which writes battery-backed memory;
* the **render thread** (`vdp2_render.c`), which draws VDP2's lines.

Each of the last three talks to the emulation thread only, through
single-producer single-consumer rings. All waiting is on event counts
(`thread_eventcount.c`): the waitable queue of libretro-common has one for each
side, the CD worker one more, the render queue two.

```
                 retro_run (libretro.c)
                     |
   emulation thread: RunLoop -> EventHandler -> devices   (ss.c, scu, smpc, vdp1, vdp2, cdb, ...)
     |  request/hint words, eventcount     |  jobs            |  command ring, word ring, 2 eventcounts
     |  free/ready slot queues             |  done queue      |
   CD worker (cdromif.c)           save writer (save_writer.c)   render thread (vdp2_render.c)
     |                                     |                  |
   image backends                     save files           surface of the frame
```

### Components

What each keeps, does, and must guarantee. "Hard" is what makes it difficult to
test.

**Event count** (`mednafen/thread_eventcount.c`). State: an epoch and a word of
registered waiters. Operations: notify, prepare, cancel, commit (with or without
timeout), over a futex / `WaitOnAddress` or, where there is neither, timed sleeps.
One waiter, any notifiers. Hard: four atomic accesses on each side, in any order.
Correct if no notification between prepare and commit is missed.

**Waitable SPSC queue** (`libretro-common/queues/retro_spsc.c`,
`retro_waitable_spsc.c`). State: a ring, free-running head and tail, each side's
cached copy of the other's cursor, a cancelled flag, a wait object for each side.
Operations: write, read, availability, wait for units or for room, cancel. Hard:
wrap-around, a batch that crosses the end of the ring, a timeout racing a late
unit. Correct if it is a FIFO and no wait outlasts its condition.

**CD reader** (`mednafen/cdrom/cdromif.c`). State: a pool of sector slots that move
between a free list, a ready list, a direct-mapped cache, a reserve and two hands;
request and hint words with sequence numbers; the worker's read-ahead window.
Operations: read a sector, read only the subchannel, hint, close; the worker's
loop. Hard: read-ahead competes with demands for slots; hints and demands overtake
each other; shutdown at any point. Correct if a read returns the sector asked for,
no slot is shared or lost, and neither side waits for ever.

**Save writer** (`mednafen/save_writer.c`, `mednafen/ss/ss.c`, `libretro.c`).
State: for each saved memory a dirty flag, a failure flag and a countdown; the job
queue, the done queue, a count of jobs out; the file. Operations: the frame loop's
flush, submit with its synchronous fallbacks, reap, drain and stop on close. Hard:
every allocation, thread start, open, write and close can fail; the outcome comes
back long after the flush. Correct if nothing saved is silently forgotten, saves
of a file land in order, and closing leaves everything on disk.

**VDP2 render queue** (`mednafen/ss/vdp2_render.c`, from line 5097). State: the
command ring, the ring of burst words, line information, counters of lines queued
and drawn, two event counts, the frame's surface. Operations: register and memory
writes, bursts, lines, start and end of a frame, reset, state action, shutdown.
Hard: most commands are queued without a wake, and both sides may park. Correct
if each command is executed once, whole, in its frame, and every call returns.

**Event scheduler and frame loop** (`mednafen/ss/ss.c`). State: a list of event
times, the cached `next_event_ts`, `Running`. Operations: `SS_SetEventNT`, the two
exit requests, `EventHandler`, `ForceEventUpdates`, the CPU loop, `RebaseTS`.
Hard: any device's handler or register write may set any event, end the inner
loop or end the frame. Correct if no instruction runs past a due event and no
request is lost.

**SCU DMA** (`mednafen/ss/scu.inc`). State: three levels, a time counter, the
time it runs until, its event. Operations: start by interrupt or register,
update, early finish when a CPU touches the same bus, the step back of times at
a frame's end. Hard: two modes with different scheduling, marks stored among
times, 32-bit wrap. Correct if an active level is always visited and never runs
ahead of the machine.

**CD drive** (`mednafen/ss/cdb.c`: `Drive_Run`, the play, seek, scan, initialise and
authenticate commands, `CDB_SetDisc`, `CDB_Reset`). State: the phase, two counters,
the place of the pickup, the sector read ahead, the play (range, repeats), the
interrupt owed at its end. Hard: a play is paused when the buffers are full, by a
command, and at its end, by the sign of one field, a mark in another and a periodic
counter that runs beside the drive's own; commands may come in any phase. Correct
if the sectors of a play arrive once each and in order, and its end is announced
once.

**CD block's buffers and files** (`cdb.c`). State: 200 sector buffers linked into 24
partitions and a free list, filters and their connectors, one transfer to or from
the host, the file system code's search. Operations: the selector's commands, the
data transfer, resets that are carried out after their answer, the file system
code's and the MPEG card's use of the partitions. Hard: buffers run out while the
drive delivers; a transfer holds buffer numbers that a command deletes; lists are
relinked by hand in a dozen places. Correct if each buffer is in one list and each
partition is the sequence of sectors the commands made it.

**Disc tray and playlist** (`disc.c`, `libretro.c`). State: the images opened, the
current index, the ejected flag. Operations: the disk control interface, loading a
game, the reset switch. Hard: an image is closed in one module and used in another;
discs are swapped faster than the drive notices. Correct if the drive never holds a
closed image nor reads a disc under the contents of another.

**SMPC** (`mednafen/ss/smpc.c`). State: a coroutine (`SMPC_Update`) with its place,
command flags, output registers, the cursors of a report of the input ports, the
power of the slave and sound CPUs, the clock. Operations: the program's commands,
reads and answers, the lines and VBlanks of VDP2, the frame's start, the switch of
the slave in the CPU loop, the reset switch. Hard: a report longer than the registers
is handed over in packets that the program acknowledges while VBlank may cut it off;
clock and slave are changed by others, later. Correct if reports arrive whole, power
and clock are as asked, and every command ends.

**SCU interrupts** (`scu.inc`), **VDP1** and **VDP2 timing** (`vdp1.c`, `vdp2.c`):
devices of the scheduler. Correct if an interrupt is taken once, and framebuffers are
swapped, erased and drawn in the order of the registers.

**Save states** (`ss.c`, `state.c`): sections of all components, event times and a
versioned order. Hard: a load that fails half-way.

Others are sequential arithmetic or parsing: the SH-2s, 68000 and DSPs with their
code generators, rasterisation, SCSP, MPEG decoding, image formats, ECC, cheats,
options, vendored libraries. `PROJECT.json` lists each with the reason it is
left out.


## 2. Modules

| module | models | composed with |
|---|---|---|
| `WaitEvent` | abstract: what an event count promises its one waiter | |
| `EventCount` | `thread_eventcount.c`, every atomic access a step | implements `WaitEvent` |
| `BoundedFifo` | abstract: a FIFO with prefix writes and reads | |
| `WaitableSpsc` | `retro_spsc.c`, `retro_waitable_spsc.c` | waits on `WaitEvent`s, implements `BoundedFifo` |
| `SectorService` | abstract: a read ends with the sector, or with the image's error | |
| `CdReader` | `cdromif.c`, both threads | its queues are `BoundedFifo`s, its event a `WaitEvent`; implements `SectorService` |
| `SaveWriter` | `save_writer.c`, its callers in `ss.c`, the flush of `libretro.c` | its queues are `BoundedFifo`s |
| `RenderQueue` | `vdp2_render.c` from line 5097, both threads | two `WaitEvent`s by INSTANCE |
| `EventLoop` | the scheduler and the frame loop of `ss.c`, with the devices that set each other's times | |
| `ScuDma` | the DMA levels and their event, in `scu.inc` | stands alone: the rest of the machine is the interrupts and accesses it sees |
| `PlayService` | abstract: what the drive promises the program that plays a disc | |
| `CdDrive` | `Drive_Run` and the commands of `cdb.c` that move the drive | implements `PlayService` |
| `DiscTray` | `disc.c` and the loading of games | extends `CdDrive`, which holds one of its images |
| `SectorPool` | abstract: partitions are sequences of sectors, with room for so many | |
| `CdBlock` | the buffers, filters, transfer and files of `cdb.c` | implements `SectorPool` |
| `Smpc` | `SMPC_Update`, with the lines, frames, CPU loop and program around it | |
| `WaitableSpscProofs`, `CdBlockProofs`, `SaveWriterProofs`, `EventLoopProofs`, `ScuDmaProofs`, `DiscTrayProofs`, `RenderQueueProofs`, `SmpcProofs` | proofs | extend the component's module; `WaitableSpscProofs` also `EventCount` and `CdBlockProofs` also `CdReader`, whose names for state and specification are their own for that reason (`EventInit`, `EventSpec`, `ReaderInit`, `ReaderSpec`) |
| `MC...` | instances for TLC: values, views | extend the component's module |

The layers carry each other: `EventCount` is shown to implement `WaitEvent`, which
is what `WaitableSpsc`, `CdReader` and `RenderQueue` wait on; `WaitableSpsc` is
shown to implement `BoundedFifo`, which is what `CdReader` and `SaveWriter` put
their slots and jobs into; `CdReader` implements `SectorService`, so a sector that
`CdDrive` reads is there in one step; and the queue `CdDrive` stores sectors in is
one partition of `CdBlock`, which implements `SectorPool`. So the higher modules have
one step where the code has a call whose internals the lower module covers.

In each module an action is one step of one thread between two accesses to shared
memory; a stretch of code that touches only its own thread's variables is part of
the action before or after it. Definitions named `Mut...` are plausible wrong
versions of the definition that follows them; no specification uses them. Each
property is known to fail when the definition is replaced by one of them, so no
property holds by the shape of its module.

### How the modules correspond to the code

**EventCount.** `epoch` and `waiters` are the two words; `key` is the waiter's
local. The waiter runs the loop that all callers write (test, prepare, test again,
cancel or commit); `pending` is the predicate. `backend` chooses between
`address_park`, whose spin, arming (the exchange of `waiters` to 2), last check
and kernel wait are separate steps, and the timed-sleep backend. `lag`, an
auxiliary variable, counts the notifications since the key was read, and the guard
of `NotifyBump` keeps it below `EpochMod`: that 2^32 notifications do not fall
into one window is an assumption, named here and in the hazards.

**WaitableSpsc.** Every load or store of a cursor and every unit copied is a step.
A write is `BeginWrite`, `RefreshTail` (only if the cached tail leaves too little
room), `CopyIn` for each unit, `PublishHead`, `NotifyOther`; a read is the same
with the roles exchanged. A wait has a step for each test of the macro in
`retro_waitable_spsc.c:140`, including the deadline test that may happen at any
time. Calls without a caller in the core (grow, peek, skip, mirrored and frame
writes, zero-copy) are left out.

**CdReader.** Slots are numbers; a slot's data is the address whose content it
holds. `request`/`hint` say that the sequence number is new to the worker, which is
all it tests. `demanding` to `Answer` is the demand path of
`CDIF_MT_ReadRawSector`; `Drain`, `Take`, `Evict` and `GiveBack` are the absorption
of ready sectors into the cache. The worker's loop is `LoopHead` to `RecheckNews`
with `ReadSector` (which may fail for an address in `Flaky`) and `WaitFree`. The
wait of the worker for a free slot and a wait that returns late are one step.

**SaveWriter.** The contents of a saved memory are a version number, one more for
every frame that changes it. `file` is what is on disk, `Torn` from the open, which
truncates, until it has been written whole. `faults` bounds the failures, each of which is a nondeterministic
alternative: allocation, thread start, open, write, close. `epc` walks the flush of
each saver as `retro_run` does, and `CloseGame` (`closing`) as `ss.c` does. The
threaded writer's fallbacks (`WriteHere`, `Behind`) are in; the single-threaded
build is that fallback alone. The flags `saveFailed` and the counters are
statics, so they outlive a game; `LoadGame` leaves them as they are.

**RenderQueue.** `wq`, `burst` and `lib` are the rings and the line information;
each cursor is written by one side, and a thread's own copy of its own cursor is
not a second variable. `todo` holds the commands a call has still to queue. The
producer's waits (`Park` for room, `AwaitPrepare`/`AwaitWake` for draws and for a
drained queue) take prepare, test and commit as separate steps. A notify is one
step: its epoch bump and its wake are separated only by steps that change nothing
a waiter of this module reads, which is what `EventCount` shows. What a command
does to VDP2 is left out.

**EventLoop.** `ring` is the list of times, `next_event_ts` and `Running` (1, 0 for
a frame's end, -1 for leaving the inner loop); `pc` is the place in `Emulate`,
`RunLoop`, `ForceEventUpdates` or `EventHandler`. A device's handler is an operator
from an outcome (ring, devices, CPU time, result) to the set of possible outcomes,
so that handlers called from other handlers and from register writes compose as
calls do: a write to VDP1 updates VDP2, then VDP1, and sets both events. The
devices kept are those that set other devices' times or leave the loop; the others
set only their own time, as `SMPC` does here. What a device computes, and so when
it asks to be called next, is any of a few later times. One clock stands for the
two CPUs.

**ScuDma.** A level has its state (`active`: 1 moving, -1 waiting for its finish
time), the pending start (`go`), the bytes left as units and the finish time; the
time counter, `RunUntil` and the event complete it. Times are wrapped to a range
`-Half..Half - 1` as they are to 32 bits in the code, and step back at a frame's
end. The other devices are the interrupts they may raise at any time, and the CPUs
are the writes and bus accesses they may make.

**CdDrive.** A step is one expiry of `DriveCounter`, one of `PeriodicIdleCounter` or
one command. The counters themselves become an order, which is all that their values
decide: `idle` says whether the periodic update comes before the drive's next tick,
has come, or may come at any time. Positions are sector numbers counted from 1, so
that 0 stands for an empty `SecPreBuf` and a negative number for the one `Pause` has
withheld. The partition the sectors go to is one queue; the file system code's
authentication takes a sector from it by itself (`Authenticated`). Plays by track
and index, which become a range before the drive sees them, and the reports are left
out.

**DiscTray.** The front end calls between frames, so each call is one step, between
two steps of the drive. `open` is the set of images opened and not closed. `Settled`
excludes one moment, between a sector's arrival and its use by the authentication,
which are in the same update of the code.

**CdBlock.** `pool` holds the links of the buffers exactly as the code does, and the
list operators relink them as `Buffer_Allocate`, `Partition_LinkBuffer` and the others
do; `InTurn` is the code's loops, which do one such thing for each buffer of a list. A command up to its answer is one step; what it leaves to do after the answer
(`ResetSelPending`, `SWResetPending`) is another, and the drive's sectors, the card and
the host's port go on between them. Contents are what tells sectors apart, and a
filter's condition is the set of contents it lets through. `disturbed` is a history
variable: a command took a sector away from under a transfer that does not own it.

**Smpc.** `pc` is `SubPhase`. Where the code eats clocks the model takes any time up
to `MaxLate` phases of the beam; where it waits for a condition, which it polls and
which every access of the program updates first, nobody else moves once the condition
holds (`Suspended`). `wants`, `cont` and `brk` are the bits of the input registers,
kept apart. A device is the length of its report, a nibble its place in a report, so
that losing, doubling or overwriting one shows. `asked`, `report`, `blanked` and
`broken` are auxiliary. `SETTIME` stands for the commands that take time and change
nothing here, `NMIREQ` for those that take none.

## 3. What the runs check

All constants of an instance are in its `.cfg`. State counts are distinct states.

| run | module, config | states | shows |
|---|---|---|---|
| `event_count` | `MCEventCount`, `EventCount.cfg` | 32,460 | no wakeup is lost and the event implements `WaitEvent`, in both backends |
| `spsc_queue` | `MCWaitableSpsc`, `WaitableSpsc.cfg` | 601,528 | the queue is a FIFO, also across the wrap of its cursors, no cell is copied from both sides, waits end |
| `cd_reader` | `MCCdReader`, `CdReader.cfg` | 358,496 | no slot lost or shared, cached sectors are whole, reads, hints and close end, reads return their sector |
| `save_writer` | `MCSaveWriter`, `SaveWriter.cfg` | 292,604 | no job lost, no save silently given up, order kept, close complete, failures retried, saves land |
| `render_queue` | `MCRenderQueue`, `RenderQueue.cfg` | 2,285,009 | commands, bursts and lines reach the render thread whole, in their frame and mode; states are settled; nobody waits for a sleeper |
| `event_loop` | `MCEventLoop`, `EventLoop.cfg` | 1,710,787 | no event overdue, no exit request lost, frames end, times after a frame are ahead |
| `scu_dma` | `MCScuDma`, `ScuDma.cfg` | 49,819 | an active level has its event, keeps its pace and moves at each visit |
| `cd_drive` | `MCDiscTray`, `DiscTray.cfg` | 565,592 | the drive, under swaps, resets and commands in any phase, delivers the plays it was asked for and ends them; it never reads a closed image or the wrong disc |
| `cd_block` | `MCCdBlock`, `CdBlock.cfg` | 242,904 | buffers are neither lost nor shared, lists stay whole, partitions are the sequences the commands made |
| `smpc` | `MCSmpc`, `Smpc.cfg` | 54,930 | reports arrive whole in packets, power and clock are as asked, every command ends |
| `save_retry`, `drive_stall` | `MCSaveWriter`, `MCDiscTray` | | a counterexample each, see section 4 |

### The properties that matter

* `NoLostWakeup`, `ImplementsWaitEvent` (event count): the pairing of the
  waiter's increment and second look with the notifier's increment and load; and
  that a notified wait returns without a timeout, in the futex backend by the wake
  and in the sleeping one because it polls.
* `ImplementsFifo` (queue): steps of both threads, a unit at a time, are writes of
  a prefix and reads of a prefix of one FIFO. `NoSharedCell` is why;
  `WaitedIsReady` is what callers rely on after a wait.
* `SlotsConserved` (reader): one owner for each slot, a constant number in
  circulation (so no queue write is cut), a reserve that covers the cache's empty
  lines. `ImplementsSectorService` says that a read gives the sector asked for, or
  fails where the image may, and that it returns.
* `NothingForgotten` (saves): for each memory, its file is up to date, or it is
  dirty, or a save of it is on its way, or its saver knows of a failure.
  `SavesInOrder` covers the fallback overtaking the queue; `ClosedMeansSaved`
  everything `CloseGame` is for.
* `CommandsIntact`, `DrawSeesItsFrame`, `StateIsSettled`, `NobodyStranded` (render
  queue): each command carries, as auxiliary fields, the number, frame and mode it was
  queued with, and is compared when it is executed. `NobodyStranded` says that the
  emulation thread is never parked behind a render thread that sleeps with nobody
  about to wake it: as every other wait of a call is for a thread that has a step to
  take and a finite number of commands to execute, a call that could fail to return
  would have to violate it.
* `NothingOverdue`, `FrameEndSticks`, `SwitchIsPrompt`, `FrameLength`,
  `RebaseAhead` (event loop): the cached minimum is right at every instruction, and
  both exit requests, which share one variable, survive each other. `FrameLength`
  allows an instruction's length twice, once is not enough.
* `ActiveIsScheduled`, `NotAhead`, `VisitMoves` (DMA): together, a transfer goes on
  and ends, at its pace.
* `ImplementsPlayService` (drive): whatever the phase, each tick, periodic update,
  command and front-end call is a step of a much smaller machine: a play comes to its
  next sector, delivers it once while it is inside the range, repeats the range as
  often as asked, and announces its end once, after the last sector. `PlayEnds` is
  the other half: the announcement comes.
* `HeldImageIsOpen`, `TocIsOfTheDisc`, `DiscIsRead` (tray): the two modules' ideas of
  the disc agree whenever the drive uses one.
* `BuffersConserved`, `ImplementsSectorPool` (block): the hand-made lists are lists,
  and together they are the abstract partitions. `ReadsHeldSectors` concerns
  the two clients that nobody asked, the MPEG card and the drive.
* `PacketsWhole`, `PowerAsAsked`, `CommandsEnd` (SMPC): each relates what the program
  did over several steps to what the manager shows when it says it is done.

### Bounds, and why they are enough

* **EventCount**: two notifiers, one spin, an epoch of three values. Two notifiers
  give every interleaving of an obsolete and a current notification; the proof
  covers the rest.
* **WaitableSpsc**: two cells, cursors modulo 4, batches of at most 2, two kinds of
  data: a batch can fill the ring, wrap in its middle, and cross the cursors' wrap.
* **CdReader**: two addresses competing for one cache line, two slots in
  circulation, read-ahead of 2, one address that may fail. `Circulating` is 32 in
  the code for a window of 17; with one slot in circulation a hint can wait for
  ever behind a demand's read-ahead (`HintSeen` fails), so the instance must have at
  least two. Larger instances (three addresses; two cache lines) pass too, with 1.48
  and 1.35 million states. `LiveView` drops words no sequence number refers to and
  the contents of free slots and of the worker's: no step reads them before writing them.
* **SaveWriter**: two savers, queues of one job, two failures, one further game.
  `Jobs` is 16 in the code: a queue of one makes every submission meet a full
  queue. Safety was also checked with queues of two (757 thousand states), and
  `JobsConserved` is proved for all sizes.
* **RenderQueue**: rings of two, bursts of one word, two lines, counters that wrap. A
  call queues up to three commands, so each call meets a full ring in its middle.
  `QueueView` replaces cursors by their differences and frames by "this one or the
  other"; every guard and every property is a function of it, so it is a quotient by
  a bisimulation. The run is of `Spec` without fairness: its properties are invariants.
* **EventLoop**: a frame of three phases of three cycles, devices that ask for
  times up to two cycles ahead, one bus access an instruction, both DMA modes. An
  event can fall due before, in and after an access, in the middle of an
  instruction and at a phase's end. `LiveView` drops variables that are written
  before they are next read.
* **ScuDma**: two levels, transfers of two units of two cycles, a frame of three
  cycles and instructions of up to two, times of 20 values (so they wrap within a
  few frames). Three levels also pass (1.18 million states). `NotStarved` in
  `EndFrame` excludes one thing: that higher levels keep a finished one from
  ending for `Half` cycles, 75 seconds in the code.
* **DiscTray**: a program area of three sectors of which the middle one is audio, room
  for one sector, two discs in two slots; a play to the end of the disc with one repeat
  and an endless one from before its start; at most three commands and three calls of
  the front end in a behaviour. Room for one makes the drive pause for full
  buffers at every data sector. Three commands are enough for each pair of commands
  whose second meets what the first left undone, and a third after it.
  Three assumptions are constants: `Patient`, the host commands
  only a drive that is ready (the code's own `TODO` at `cdb.c:2048` says the other case
  is open); `LoadsEjected` FALSE, the front end closes the tray before it loads another
  game; `WaitsForPause`, see finding 2. With each the other way TLC finds the
  behaviours described in section 4.
* **CdBlock**: three buffers, the fewest with which a list has a middle to unlink, two
  partitions and filters, one kind of contents beside the blank sector; one command
  that changes filters or works on files, or one reset, in a behaviour (`MaxSettings`),
  but any number of the others. The buffers are symmetric because `EmptyPools` starts
  from the free list in any order.
* **Smpc**: four nibbles of output registers, reports of two, four or six: a report
  takes up to three packets, and the last may be exactly full. `MaxLate` 2 lets VBlank
  begin and end in one stretch of
  eaten clocks. `LiveView` drops what no step and no property reads before it is written.

`CHECK_DEADLOCK FALSE` is set for three modules: after `CloseGame` with no further game
the save writer has stopped; the drive stops when the bounds on commands and calls are
used up and the disc is out or paused; and the block stops for good when an
authentication waits for a sector while a transfer holds every buffer and the host may
give no further command (an observation of section 4).

### Fairness

* Threads run: weak fairness of each thread's enabled steps. The code relies on the
  operating system for no more.
* No timeout is relied on: in the queue, the reader and the render queue the
  return of a wait is fair only once it has been notified; unnotified returns are
  possible but never guaranteed. So the liveness results do not rest on the
  timeouts the code passes.
* The drive (`DriveFairness`): emulated time goes on, so ticks, periodic updates and
  the delayed part of a reset come; the file system code looks at its sector; the host
  takes sectors that are stored for it. The last is the program's duty, not the code's:
  a program that takes none leaves the drive in pause, as it should.
* The manager: it goes on when it can, phases of the beam pass, frames begin, and the CPU
  loop looks at the slave's switch. Nothing is asked of the program.
* The front end keeps calling `retro_run` (`RealFrame` in `SaveWriter`): the flush
  counts frames. It is never obliged to close a game or load another.
* Nothing makes the emulation thread call the CD reader or the render queue: the
  properties are about calls that were made.

## 4. Findings

1. **A failed write is not retried while the game runs** (`save_retry`,
   `ss.c:2447`). The flush clears the dirty flag when it hands the job over. When
   the write then fails, nothing looks until another save is handed over; a game
   that does not save again is written only by `CloseGame`. The comment at
   `ss.c:2167` says "the flush reports it, so the frame loop tries again". What
   does hold is `NothingForgotten` and `ReportedFailureIsRetried`.
2. **A play that keeps the pickup may never end** (`drive_stall`, `cdb.c:2775`). The
   pause command makes `SecPreBuf_In` negative while a sector is held; a play with bit 7
   set, given before the periodic update has turned that into a pause, leaves it
   negative. From then on no tick stores the sector and none reads another, and the
   drive stays in PLAY without `HIRQ_PEND`. With `WaitsForPause` TRUE (the program waits
   for the pause, as programs do) `PlayEnds` holds.

### Observations

Behaviours met while modelling that no run claims as a finding: most are outside what
a program does, or nobody promises otherwise.

* The worker is not alone at the backend (`cdromif.c:330`, against the comment at
  `cdromif.c:13`): a subchannel-only read calls the image's fast method on the emulation
  thread while the worker may be in `Read_Raw_Sector`. The present backends' fast
  methods read only what the open left constant.
* SCU DMA in the fast modes: an early finish copies the parked `RunUntil` into the time
  counter (`scu.inc:3790`, against the comment at `scu.inc:3754`), and later DMAs move
  nothing until time has caught up; the counter also wraps into the future after about
  75 idle seconds, as frames' lengths are taken from it while nothing refreshes it
  (`scu.inc:399`). A state saved with the idle event disabled and loaded in the exact
  mode leaves an active DMA without its event; and `RebaseTS`'s assertion can fail, so
  `RebaseAhead` is claimed for the exact mode only.
* The tray's flag is reset when the front end registers the interface (`disc.c:532`),
  not when a game is loaded, although `libretro.h:6804` calls the initial state closed. A
  front end that ejects, loads another game in the same session and replaces an image
  closes the image the drive holds: with `LoadsEjected` TRUE TLC finds
  `HeldImageIsOpen` violated in four steps. `disk_replace_image_index` itself never
  looks at the tray.
* The drive: commands given in the ejected phases or at startup skip the reading of the
  contents (`cdb.c:2048`, marked `TODO`); a play that keeps the pickup, or a scan, from
  STOPPED seeks to 0xFFFFFF for ever; a play that keeps the pickup may deliver one sector
  beyond its new range; a tray opened in the middle of an authentication leaves every
  command answered with 0xFFFF until a reset (`cdb.c:3884`, a `TODO` too), and so
  does an authentication while a transfer holds all buffers.
* The block: a Get Sector Data whose sectors are deleted, or taken by a reset or the
  file system code, goes on reading buffers that may have been given to new sectors; a
  stale `FLS.Abort` ends the next file operation; an unknown command clears
  `CommandPending` without `HIRQ_CMOK`.
* The SMPC: the reset of VDP2 inside a clock change leaves the manager's copy of VBlank
  as it was until the next line; a clock change does not wait for the slave's switch,
  which is in time only because the VBlanks it does wait for take longer (`ClockInv`).

## 5. Proofs

Each proof is of an inductive invariant `IInv`: it holds initially, every step
preserves it, and it implies the property. The assumptions are the modules' named
`ASSUME`s on their constants, which TLC evaluates in every run.

**WaitableSpscProofs**: `TypeCorrect`, `CursorsInOrderHolds`, `NoSharedCellHolds` and
`WaitedIsReadyHolds`, for any capacity, any width of the cursors that is a multiple
of it, any data and any size of the calls. Each side works from a copy of the other's
cursor that may be old; `CursorsInOrder`, which says it is old on the safe side only,
is part of the invariant, and `RoomInv` says that what a call was granted fits by
that copy, so it still fits by the cursor itself while the other side moves it. The
two grants together are then no more than the ring, and a lemma on remainders turns
cursors less than the capacity apart into different cells, also across the wrap.
`BatchInv` and `CopyInv` bound what a call publishes; `ReadyInv` says that a wait's
answer is forgotten by the next call, before the caller itself uses up the room.
`ImplementsFifoHolds` is the whole refinement of `BoundedFifo`, which asks for no
fairness. What each cell holds is a second invariant (`UnitsInv`): the cells between the
cursors are the units accepted and not yet delivered, in order, those a write in progress
has copied stand right behind them, and those a read has copied out are the units at the
head (`MoveInv`, `WriteInv`, `ReadInv`, `OutInv`). A unit copied into a free cell leaves
the others alone because cursors less than the capacity apart are different cells, and a
publication moves the boundary of the abstract queue by the very cells copied.

Of the event, in the same module: `EventTypeCorrect` and `NoLostWakeupHolds`, for any set of
notifiers, spin budget and width of the epoch, in both backends. `NoLostWakeup`
alone says nothing of a waiter about to sleep; the invariant adds that `waiters`
counts exactly the registered waiter (`CountInv`), that the epoch is the key plus
the notifications since (`EpochInv`), that a published predicate has a notification
that counts it or a notifier still to bump (`PublishInv`), and that a sleeper on a
moved epoch has a notifier about to wake it (`WakeInv`).
`WaitsAsPromised` is the safety half of the refinement of `WaitEvent`: the abstract
waiter is running, prepared or waiting by the place the real one is at, and the abstract
event is signalled when the epoch is no longer the key; each atomic step is then one of
the abstract actions or a stutter.

**SaveWriterProofs**: `TypeCorrect` and `JobsConservedHolds`, for any savers, queue
size, intervals and failures. The invariant ties the thread's existence to its
place (`ThreadInv`), says who holds a job and that a job is handed over only when
one fewer than the queue's size is out (`HandsInv`), and that a counter is at its
interval only inside the flush that resets it (`CounterInv`): the last is what
keeps the countdown in its type. On top of it stand `NothingForgottenHolds`,
`SavesInOrderHolds` and `ClosedMeansSavedHolds`, by a second invariant: the job being
submitted is the memory as it is (`EjobInv`); a stopped writer leaves nothing behind
(`StopInv`); no waiting job is older than its file or newer than its memory, and they
stand in the order of their versions (`OrderInv`); and a saver that a flush or
`CloseGame` has seen to is clean (`PassedInv`). The heart of it is `CleanKept`: no step
but a frame, a flush or a load makes a saver less clean. Opening a file truncates it,
and if the file was up to date then the job in hand is, by `OrderInv`, the very
version that was in it. The step needs that: `NothingForgotten` alone does
not say that the job about to truncate a file holds what it destroys.

**EventLoopProofs**: `NothingOverdueHolds`, `SwitchIsPromptHolds` and
`FrameEndSticksHolds`, for any frame, granularity and instruction length. The
devices are summed up in one relation, `Keeps`, between the state a device is
called with and each of its outcomes: `next_event_ts` stays right if it was right,
a pending switch has asked the loop to end, and requests are not undone. It is
transitive, so handlers that call handlers have it by composition; every operator
has a lemma. The invariant then says for each place of the loop what is known of
`next_event_ts`: right between instructions and inside one, unknown during a full
update and inside `EventHandler`, where `best` has the minimum instead. The
theorem needs no bound on what devices ask for.

`RebaseAheadHolds` and `FrameLengthHolds` need a second invariant, `FrameInv`, and one
assumption, `FrameFits`: twice a frame and two instructions are less than the time that
stands for never, 2^31 - 1 (a frame is some 480000 cycles). `FrameEnd` is when the beam
next enters its last line. VDP2's event is due no later than that, and while the loop
goes on that is within `FrameCycles` (`InFrame`); `Moves`, transitive like `Keeps`, says
that a device leaves it there unless the beam passes it, which ends the loop, and sets
no time that is not later than its own. `LengthInv` then bounds the clock at each place
by `Limit`, an instruction more once the loop is to end: an instruction runs after the
updates that end a frame (`EnterLoop` starts with one). For the rebase, `PassInv` says
of the round of updates before it that the events already called are in the future and
stay there: a later handler sets an earlier event only to the future.

**ScuDmaProofs**: `TypeCorrect`, `ActiveIsScheduledHolds`, `NotAheadHolds` and
`VisitMovesHolds`, for any levels, start factors and size of a transfer, and for any
lengths of a frame, an instruction, a polling interval and a unit that together fit in the
range of the times, a unit being no longer than the interval (`TimesFit`). The invariant,
`Sound`, says that a level at work has data left or an end that is near (`LevelsFit`), that
an event that polls or has something to do is near (`EventFits`), and that in the exact
mode nothing is parked and neither counter is a polling interval beyond the event
(`PaceFits`): the last is what gives a visit time to move data in, and it has to survive
the early finish, which copies one counter into the other, and the step back of all times,
which takes the counter below zero until the next frame's first update. The early return
at a finish time is the delicate path: `Going` says of the state after every turn of the
loop that the time to return is still to come and that the counter, which may have passed
it within the interval, has not passed the interval too. `Pushed` orders what a level goes
through, so that the second turn, or a lower level's, cannot undo what the first did. That
a level is not kept from its end for 2^31 cycles (`NotStarved`, a guard of `EndFrame`) is
assumed where times step back: its finish time would come round into the future.

**CdBlockProofs**: `BlockTypeCorrect`, `BuffersConservedHolds` and
`ReadsHeldSectorsHolds`, for any finite sets of buffers and partitions, any sectors,
conditions and commands. The links say nothing of what they link, so the invariant
(`IInv`) speaks of the lists: a pool is `Sound` when there are lists, one for each
partition and one of the free buffers, that are linked both ways, counted and have no
buffer in common (`Has`), with each buffer on the list that a map `w` from buffers to
lists says (`Lies`), but for those in the transfer's hands, which are unlinked. What a
command does is then what it does to `w`: each of the four operations on the lists is
shown to write what it must, whichever of its neighbours exist (`UnlinkWrites`), then to
make whole lists of whole lists (`UnlinkTakes`), then to keep a pool `Sound`
(`SoundUnlink`). A loop over the buffers of a list goes on while it takes them off the
list; `InTurnKeeps` carries a family of sets of pools through it, and `Walks` says that a
walk by `Next` meets all of a list, once, so that what a loop is given is `Distinct`.
`Kept` adds that what the host has still to read is in some partition; a command that
moves it along leaves it in one, and one that frees it is what `disturbed` records.

In the same module, `FiltersHaveOneInput`: every command that connects disconnects first,
so no filter is fed from two sides and the chain from the drive never returns to a filter
it went through. No run lists it, as it holds whatever the buffers do.

Of the threaded reader, in the same module: `SlotsConservedHolds` and
`ReadsReturnTheirSector`, for any size of the pool and of the cache, any image and any
read-ahead. A slot is in a thread's hand only between two steps of a move (`HandInv`), so
each move is a removal and an insertion of one slot among disjoint places; that a queue
has room is then a matter of counting (`Circulate`). `ReserveCoversCache` keeps the
reserve from underflowing and needs the cardinality of the empty lines. For the reads,
`DataInv` says that a slot the worker has let go holds its address's content or an error
the image may give, and `CallInv` which call the emulation thread is in; the second
theorem then shows that each step is a step or a stutter of `SectorService`, which is the
safety half of `ImplementsSectorService`.

**DiscTrayProofs**: `HeldImageIsOpenHolds` and `TocIsOfTheDiscHolds`, for any discs,
playlist, program area, room and number of commands and calls, assuming `Patient` and
not `LoadsEjected`. The invariant ties the front end's tray flag to the drive's
(`TrayInv`), says that no image is in two slots of the playlist, so that closing one
cannot close the other (`ListInv`), and which phases have a disc and have read it
(`PhaseInv`); `AuthInv` keeps an authentication interrupted by the tray from coming back
to a drive without a disc. `TypeCorrect` needs neither assumption.

`ImplementsPlayServiceHolds`, under the same assumptions, is the whole refinement of
`PlayService`, which asks for no fairness: every tick, periodic update, command and
swap is one action of the service or a stutter. It rests on `PlayInv`. The pickup is where
the drive reports it to be once it has come to the sector it seeks, a sector held since
before is the one it came to, and a seek that moves the pickup holds none (`PickupInv`);
so what is stored next is what the service is to deliver next. A sector that a pause
withholds is outside the play or belongs to a new one (`WithheldInv`): the update that
clears `repeated` would otherwise be an admission nobody asked for. And a drive that
pauses beyond its range with the interrupt still due has no passes left (`EndInv`): the
end is announced by a counter of the pause, several updates after it was decided on. TLC
checked `PlayInv` before it was proved. `WaitsForPause` is not needed: the play that
stalls (section 4) never does what the service forbids, it does nothing. `Patient`
is: a play that keeps the pickup, given to an ejected drive, keeps a sector the pickup has
left.

**RenderQueueProofs**: `TypeCorrect`, `CommandsIntactHolds`, `DrawSeesItsFrameHolds`,
`StateIsSettledHolds` and `NobodyStrandedHolds`, for any sizes of the rings, any width of
the counters that both divide, any number of lines, batches and spin budgets, and any set
of calls. The counters wrap, and a full ring and a wrapped one look alike to each thread;
so the invariant does not speak of the counters but of what they count. `SomeHistory` says
that there is a history of the commands asked for since the thread started, numbered
without end, with the words, the drawn lines and the mode that came before each
(`Stream`), and five limits in it: commands pushed, popped and asked for, the cached pop
count and the words queued. Each counter is its limit modulo `CounterMod` (`Cursors`,
`DrawCounts`, `WordCounts`), each ring holds the part between two limits (`Ring`,
`Cells`), the call in progress has the rest (`Pending`), and no line in between belongs
to a frame that has been given back (`Frames`). The limits are at most a ring apart, so
equal remainders mean equal limits: that is where the widths are used. A step moves
one limit or none, and only a call that begins extends the history. Beside it stands
`Control`: where each thread can be while the other is where it is (`Phases`, `Waits`,
`Settled`), and what a sleeper is owed (`Wakes`): an emulation thread that waits with
nothing left in the ring has its signal or finds the render thread just about to give it,
and a render thread that sleeps while the emulation thread has made its last test has
nothing to do. TLC checked the invariant, with the history computed from the state,
before it was proved.

**SmpcProofs**: `PowerAsAskedHolds`, `PacketsWholeHolds` and `TypeCorrect`, for any size
of the registers and of the reports. The first invariant, `IInv`, says for each place of
`SMPC_Update` what of power and clock is already as asked: all but what the command in
progress is to change (`GivenInv`, `PlainInv`, `SlaveInv`, `ClockInv`). A clock change
turns the slave off without waiting for it; that the slave is off when the command ends
follows from `Early`, which counts the phases of the beam since the change began against
`MaxLate`. The second, `PacketInv`, is the report's: what was read is a prefix of it, what
is left to write the end of it (`PrefixInv`, `WorkInv`), and the registers hold what lies
between, never more than they have room for, the cursor where the last nibble ended
(`FillInv`). That nothing is overwritten before it is read is the handshake's doing:
while a packet is announced or read but not answered, the program's bit is not the one
the manager waits for (`TurnInv`), so the wait before a new packet ends only when nothing
is announced. `CutInv` finds a reason for each report that ends early; a VBlank may have
been pending since before the command, and then no port has been read yet.

The modules' type invariants are conjuncts of these invariants, so the runs do not list
them.

Only model-checked: everything temporal (leads-to, and the fair halves of the
refinements to `WaitEvent` and `SectorService`), which the provers cannot do; and for now
the refinement of `SectorPool` by the block, for which the lemmas on lists
(`LinkPuts`, `UnlinkTakes` and the others) give the sequences exactly.

## 6. Not modelled

What the components of section 1 listed last do is arithmetic over pixels, samples
or fields, or parsing; a mistake there shows on the screen and does not depend on
an order. Within modelled components:

* the single-threaded builds, which are straight calls (the save writer's is its
  fallback), and the front end's options;
* memory ordering: each atomic access is one step in one order of all accesses.
  The event count uses sequentially consistent accesses where it needs them; in the
  rings, where publication is release and acquire and each cursor has one writer,
  that one order stands for all is assumed;
* `CDIF_Open`'s failures, `CDIF_ReadSector`'s decoding, sector contents other than
  which address they came from;
* ST-V boards, which save only when closed;
* in the drive, plays by track and index and the CD-DA samples; in the block, directory
  records, searches and size calculations, which change no list; in the SMPC, the clock
  of the day, the saved memory, the reset button's NMI, the direct mode of the ports,
  the two power flags that are only reported, and the devices' bits;
* that 2^32 notifications do not fall between a waiter's key and its wait is assumed
  (`EpochMod` in `EventCount`);
* in the event loop, whether a display line can be reached between the end of a
  frame's drawing and the end of the loop: it depends on real line lengths;
* `NDEBUG`-only differences.

## 7. Plan

What would come next, the most important first.

1. **Vdp1** swap, erase and draw: the framebuffer in display is never drawn into.
2. The SCU's interrupt level, masks and acknowledgement (`scu.inc`), composed with the
   devices that raise them: an interrupt is neither lost nor taken twice.
3. **StateFile**: what a load that fails half-way leaves.
4. Small: the serial EEPROM (`ak93c45.c`), the MPEG card's picture planes.
5. Events of `EventLoop`: the devices still represented by the SMPC, and two CPUs
   with their own clocks; `ScuDma` composed with it; `CdDrive` composed with `CdBlock` in
   place of its queue.

Proofs: the refinement of `SectorPool`, from the lists of `Has`.
