---------------------------- MODULE WaitableSpsc ----------------------------
(***************************************************************************)
(* libretro-common/queues/retro_spsc.c and retro_waitable_spsc.c: a ring   *)
(* with free-running cursors, one producer and one consumer, each of which *)
(* may wait for the other on an event of its own (WaitEvent).  An element  *)
(* of Data stands for one unit the callers transfer; every access to a     *)
(* cursor, and every unit copied, is one step.                             *)
(***************************************************************************)
EXTENDS Naturals, Sequences

CONSTANTS
  Data,       \* the units transferred
  Cap,        \* q->capacity, a power of two
  CursorMod,  \* the cursors are modulo this (2^64), a multiple of Cap
  MaxBatch    \* bound: units asked for by one call

ASSUME CapAssumption ==
  /\ Cap \in Nat /\ Cap > 0
  /\ CursorMod \in Nat /\ CursorMod > Cap /\ CursorMod % Cap = 0
  /\ MaxBatch \in Nat /\ MaxBatch > 0

VARIABLES
  head, tail,              \* q->head, q->tail
  cachedTail, cachedHead,  \* the producer's copy of tail, the consumer's of head
  buf,                     \* q->buffer
  cancelled,               \* q->cancelled
  sig,      \* sig[s]: side s waits, and has been notified since it prepared
  pc,       \* pc[s]: side s's next step
  batch,    \* what the write in progress still publishes
  asked,    \* asked[s]: units asked for by side s's call
  copied,   \* copied[s]: units copied so far
  dst,      \* the read's destination
  out,      \* what a read has just delivered
  ready     \* ready[s]: side s's last wait returned true, nothing since

cursors == <<head, tail, cachedTail, cachedHead>>
vars == <<cursors, buf, cancelled, sig, pc, batch, asked, copied, dst, out, ready>>

Producer == "producer"
Consumer == "consumer"
Sides == {Producer, Consumer}
Other(s) == IF s = Producer THEN Consumer ELSE Producer

WaitSteps == {"test", "cancelled?", "prepare", "retest", "recancelled?", "deadline", "lasttest", "waiting"}
Prepared == {"retest", "recancelled?", "deadline", "lasttest", "waiting"}
CallSteps == {"refresh", "copy", "publish", "notify", "cancel1", "cancel2"}

Batches == UNION {[1..n -> Data] : n \in 1..MaxBatch}

-----------------------------------------------------------------------------
(* Cursor arithmetic, modulo CursorMod. *)
Advance(c, n) == IF c + n >= CursorMod THEN c + n - CursorMod ELSE c + n
Dist(a, b) == IF a >= b THEN a - b ELSE a + CursorMod - b
Cell(c) == c % Cap

(* retro_spsc_write_avail and retro_spsc_read_avail *)
Avail(s) == IF s = Producer THEN Cap - Dist(head, tail) ELSE Dist(head, tail)

(* Room as the caller's private copy of the other cursor has it. *)
MutCachedAvail(s) == IF s = Producer THEN Cap ELSE Dist(cachedHead, tail)
CachedAvail(s) == IF s = Producer THEN Cap - Dist(head, cachedTail) ELSE Dist(cachedHead, tail)

Init ==
  /\ head = 0 /\ tail = 0 /\ cachedTail = 0 /\ cachedHead = 0
  /\ buf \in [0..Cap - 1 -> Data]
  /\ cancelled = FALSE
  /\ sig = [s \in Sides |-> FALSE]
  /\ pc = [s \in Sides |-> "idle"]
  /\ asked = [s \in Sides |-> 0] /\ copied = [s \in Sides |-> 0]
  /\ batch = <<>> /\ dst = <<>> /\ out = <<>>
  /\ ready = [s \in Sides |-> FALSE]

Goto(s, to) == pc' = [pc EXCEPT ![s] = to]
Step(s, from, to) == pc[s] = from /\ Goto(s, to)

(* retro_eventcount_notify on side s's event. *)
Signal(s) == sig' = [sig EXCEPT ![s] = @ \/ pc[s] \in Prepared]

(* A call of n units is done with those that fit; none is a return of 0. *)
Settle(s, n) ==
  /\ asked' = [asked EXCEPT ![s] = n]
  /\ Goto(s, IF n = 0 THEN "idle" ELSE "copy")

-----------------------------------------------------------------------------
(* Writing and reading. *)

(* retro_spsc_write and retro_spsc_read, up to the test of the cached     *)
(* cursor: only what the caller owns is looked at.                        *)
Begin(s, n) ==
  /\ pc[s] = "idle"
  /\ IF CachedAvail(s) < n
     THEN Goto(s, "refresh") /\ asked' = [asked EXCEPT ![s] = n]
     ELSE Settle(s, n)
  /\ ready' = [ready EXCEPT ![s] = FALSE]
  /\ UNCHANGED <<cursors, buf, cancelled, sig, copied, dst, out>>

BeginWrite(data) == Begin(Producer, Len(data)) /\ batch' = data
BeginRead(n) == Begin(Consumer, n) /\ UNCHANGED batch

Fits(room, n) == IF room < n THEN room ELSE n

(* The other side's cursor is loaded, and the call cut to what fits. *)
RefreshTail ==
  /\ pc[Producer] = "refresh"
  /\ cachedTail' = tail
  /\ Settle(Producer, Fits(Avail(Producer), asked[Producer]))
  /\ UNCHANGED <<head, tail, cachedHead, buf, cancelled, sig, batch, copied, dst, out, ready>>

RefreshHead ==
  /\ pc[Consumer] = "refresh"
  /\ cachedHead' = head
  /\ Settle(Consumer, Fits(Avail(Consumer), asked[Consumer]))
  /\ UNCHANGED <<head, tail, cachedTail, buf, cancelled, sig, batch, copied, dst, out, ready>>

MutLastUnit(s) == copied[s] + 2 >= asked[s]
LastUnit(s) == copied[s] + 1 = asked[s]

(* One unit copied; the copy of the last one leads to the publication. *)
CopyStep(s) ==
  /\ pc[s] = "copy"
  /\ copied' = [copied EXCEPT ![s] = @ + 1]
  /\ Goto(s, IF LastUnit(s) THEN "publish" ELSE "copy")
  /\ UNCHANGED <<cursors, cancelled, sig, batch, asked, out, ready>>

CopyIn ==
  /\ CopyStep(Producer)
  /\ buf' = [buf EXCEPT ![Cell(head + copied[Producer])] = batch[copied[Producer] + 1]]
  /\ UNCHANGED dst

CopyOut ==
  /\ CopyStep(Consumer)
  /\ dst' = Append(dst, buf[Cell(tail + copied[Consumer])])
  /\ UNCHANGED buf

(* The release store of the caller's cursor. *)
PublishHead ==
  /\ Step(Producer, "publish", "notify")
  /\ head' = Advance(head, asked[Producer])
  /\ batch' = <<>>
  /\ copied' = [copied EXCEPT ![Producer] = 0]
  /\ UNCHANGED <<tail, cachedTail, cachedHead, buf, cancelled, sig, asked, dst, out, ready>>

PublishTail ==
  /\ Step(Consumer, "publish", "notify")
  /\ tail' = Advance(tail, asked[Consumer])
  /\ out' = dst /\ dst' = <<>>
  /\ copied' = [copied EXCEPT ![Consumer] = 0]
  /\ UNCHANGED <<head, cachedTail, cachedHead, buf, cancelled, sig, batch, asked, ready>>

MutNotified(s) == s
Notified(s) == Other(s)

(* retro_eventcount_notify(readable) after a write, (writable) after a read *)
NotifyOther(s) ==
  /\ Step(s, "notify", "idle")
  /\ Signal(Notified(s))
  /\ out' = IF s = Consumer THEN <<>> ELSE out
  /\ asked' = [asked EXCEPT ![s] = 0]
  /\ UNCHANGED <<cursors, buf, cancelled, batch, copied, dst, ready>>

(* retro_waitable_spsc_cancel, by either side: store, then both notifies. *)
Cancel(s) ==
  /\ Step(s, "idle", "cancel1")
  /\ ~cancelled
  /\ cancelled' = TRUE
  /\ UNCHANGED <<cursors, buf, sig, batch, asked, copied, dst, out, ready>>

CancelNotify(s) ==
  /\ \/ Step(s, "cancel1", "cancel2") /\ Signal(Consumer)
     \/ Step(s, "cancel2", "idle") /\ Signal(Producer)
  /\ UNCHANGED <<cursors, buf, cancelled, batch, asked, copied, dst, out, ready>>

-----------------------------------------------------------------------------
(* RETRO_WAITABLE_SPSC_WAIT, on either side. *)

WaitFrame == UNCHANGED <<cursors, buf, cancelled, batch, copied, dst, out>>
Continue == UNCHANGED <<sig, asked, ready>>

Return(s, result) ==
  /\ Goto(s, "idle")
  /\ ready' = [ready EXCEPT ![s] = result]
  /\ asked' = [asked EXCEPT ![s] = IF result THEN @ ELSE 0]
  /\ sig' = [sig EXCEPT ![s] = FALSE]

BeginWait(s, n) ==
  /\ Step(s, "idle", "test")
  /\ asked' = [asked EXCEPT ![s] = n]
  /\ ready' = [ready EXCEPT ![s] = FALSE]
  /\ UNCHANGED <<cursors, buf, cancelled, sig, batch, copied, dst, out>>

(* The first test, and the polls with no timeout that end at it. *)
WaitTest(s) ==
  /\ pc[s] = "test"
  /\ \/ Avail(s) >= asked[s] /\ Return(s, TRUE)
     \/ Avail(s) < asked[s] /\ Return(s, FALSE)
     \/ Avail(s) < asked[s] /\ Goto(s, "cancelled?") /\ Continue
  /\ WaitFrame

WaitCancelled(s) ==
  /\ pc[s] = "cancelled?"
  /\ IF cancelled THEN Return(s, FALSE) ELSE Goto(s, "prepare") /\ Continue
  /\ WaitFrame

WaitPrepare(s) ==
  /\ Step(s, "prepare", "retest")
  /\ sig' = [sig EXCEPT ![s] = FALSE]
  /\ UNCHANGED <<asked, ready>>
  /\ WaitFrame

RetestGoes(s) == Avail(s) >= asked[s]

WaitRetest(s) ==
  /\ pc[s] = "retest"
  /\ IF RetestGoes(s) THEN Return(s, TRUE) ELSE Goto(s, "recancelled?") /\ Continue
  /\ WaitFrame

WaitRecancelled(s) ==
  /\ pc[s] = "recancelled?"
  /\ IF cancelled THEN Return(s, FALSE) ELSE Goto(s, "deadline") /\ Continue
  /\ WaitFrame

(* The clock is past the deadline, or the wait is committed. *)
WaitDeadline(s) ==
  /\ \/ Step(s, "deadline", "lasttest")
     \/ Step(s, "deadline", "waiting")
  /\ Continue
  /\ WaitFrame

MutWaitLastTest(s) ==
  /\ pc[s] = "lasttest"
  /\ Return(s, TRUE)
  /\ WaitFrame

WaitLastTest(s) ==
  /\ pc[s] = "lasttest"
  /\ Return(s, Avail(s) >= asked[s])
  /\ WaitFrame

(* commit_wait_timeout returns, when notified or earlier. *)
WaitReturn(s) ==
  /\ Step(s, "waiting", "prepare")
  /\ sig' = [sig EXCEPT ![s] = FALSE]
  /\ UNCHANGED <<asked, ready>>
  /\ WaitFrame

-----------------------------------------------------------------------------
Write == RefreshTail \/ CopyIn \/ PublishHead
Read == RefreshHead \/ CopyOut \/ PublishTail
Wait(s) == WaitTest(s) \/ WaitCancelled(s) \/ WaitPrepare(s) \/ WaitRetest(s)
             \/ WaitRecancelled(s) \/ WaitDeadline(s) \/ WaitLastTest(s)

Call ==
  \/ \E data \in Batches : BeginWrite(data)
  \/ \E n \in 1..MaxBatch : BeginRead(n)
  \/ \E s \in Sides, n \in 1..Fits(Cap, MaxBatch) : BeginWait(s, n)
  \/ \E s \in Sides : Cancel(s)

Run(s) ==
  \/ s = Producer /\ Write
  \/ s = Consumer /\ Read
  \/ NotifyOther(s) \/ CancelNotify(s) \/ Wait(s)
  \/ sig[s] /\ WaitReturn(s)

Next == Call \/ \E s \in Sides : Run(s) \/ WaitReturn(s)

(* A side completes the calls it makes; a wait that nobody notifies may    *)
(* last as long as its timeout, for which no bound is assumed.             *)
Spec == Init /\ [][Next]_vars /\ \A s \in Sides : WF_vars(Run(s))

-----------------------------------------------------------------------------
TypeOK ==
  /\ head \in 0..CursorMod - 1 /\ tail \in 0..CursorMod - 1
  /\ cachedTail \in 0..CursorMod - 1 /\ cachedHead \in 0..CursorMod - 1
  /\ buf \in [0..Cap - 1 -> Data]
  /\ cancelled \in BOOLEAN /\ sig \in [Sides -> BOOLEAN] /\ ready \in [Sides -> BOOLEAN]
  /\ pc \in [Sides -> {"idle"} \cup WaitSteps \cup CallSteps]
  /\ asked \in [Sides -> 0..MaxBatch] /\ copied \in [Sides -> 0..MaxBatch]
  /\ batch \in Seq(Data) /\ dst \in Seq(Data) /\ out \in Seq(Data)

(* retro_spsc.c line 400: 0 <= head - tail <= capacity, across the wrap of *)
(* the cursors; and a cached cursor is never ahead of the real one.        *)
CursorsInOrder ==
  /\ Dist(head, tail) <= Cap
  /\ Dist(head, tail) <= Dist(head, cachedTail) /\ Dist(head, cachedTail) <= Cap
  /\ Dist(cachedHead, tail) <= Dist(head, tail)

(* The cells a call in progress copies. *)
Copying(s) ==
  IF pc[s] \in {"copy", "publish"}
  THEN {Cell((IF s = Producer THEN head ELSE tail) + i) : i \in 0..asked[s] - 1}
  ELSE {}

(* No cell is copied in by one thread while the other copies it out. *)
NoSharedCell == Copying(Producer) \cap Copying(Consumer) = {}

(* A wait that returned true is good until its caller's next call: the   *)
(* other thread's steps only ever add to what the caller may do.         *)
WaitedIsReady == \A s \in Sides : ready[s] => Avail(s) >= asked[s]

(* Whoever waits for units that are there, or on a cancelled queue, gets *)
(* out without the help of the timeout.                                  *)
WaitEnds ==
  \A s \in Sides :
    (pc[s] \in WaitSteps /\ (cancelled \/ Avail(s) >= asked[s])) ~> pc[s] \notin WaitSteps

(* The ring is the FIFO of its published cells, and reads deliver from it. *)
Contents == [i \in 1..Dist(head, tail) |-> buf[Cell(tail + i - 1)]]

Fifo == INSTANCE BoundedFifo WITH q <- Contents

(* No unit is lost, duplicated, reordered or torn between the threads. *)
ImplementsFifo == Fifo!Spec
=============================================================================
