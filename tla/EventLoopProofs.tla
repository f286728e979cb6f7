-------------------------- MODULE EventLoopProofs --------------------------
(* Proofs about EventLoop, for any length of a frame, any granularity of    *)
(* the devices and any number of bus accesses of an instruction.            *)
(*                                                                          *)
(* What a device does, wherever it is called from, is summed up in Keeps:   *)
(* next_event_ts stays the earliest time of the list if it was that, and    *)
(* requests to leave the loop are not undone.  Each device's operator is    *)
(* shown to keep that, and the loop's actions follow.                       *)
(*                                                                          *)
(* The second part bounds the frame.  Moves sums up what a device does to   *)
(* the beam and to the times it sets, and FrameInv what that makes of the   *)
(* loop, if a frame is shorter than the time that stands for never.         *)
EXTENDS EventLoop, TLAPS

RingT   == [time : [Events -> Int], next : Int, running : {-1, 0, 1}]
DevT    == [beam : Int, lastts : Int, on : BOOLEAN, pending : {-1, 0, 1},
            drawing : BOOLEAN]
Outcome == [ring : RingT, dev : DevT, mem : Int, ret : Int]

\* next_event_ts is what the CPU loop needs it to be.
Settled(r) == r.next = IF r.running > 0 THEN Earliest(r.time) ELSE 0

\* A pending switch of the slave SH-2 has asked the loop to end.
Asked(o) == o.dev.pending # 0 => o.ring.running <= 0

Keeps(o, p) ==
  /\ p \in Outcome /\ p.mem = o.mem
  /\ Settled(o.ring) => Settled(p.ring)
  /\ Asked(o) => Asked(p)
  /\ o.ring.running <= 0 => p.ring.running <= 0
  /\ o.ring.running = 0 => p.ring.running = 0

-----------------------------------------------------------------------------
\* Earliest is the least time of the list (FindNextEventTS).
LEMMA EarliestIsLeast ==
  ASSUME NEW t \in [Events -> Int]
  PROVE  /\ Earliest(t) \in Int
         /\ \E e \in Events : t[e] = Earliest(t)
         /\ \A e \in Events : Earliest(t) <= t[e]
<1> DEFINE S == {t[e] : e \in Events}
<1>1. \E x \in S : \A y \in S : x <= y
  <2>1. \E e \in 1..5 : \A d \in 1..5 : t[e] <= t[d]
    <3>1. /\ t[1] \in Int /\ t[2] \in Int /\ t[3] \in Int /\ t[4] \in Int /\ t[5] \in Int
      BY DEF Events
    <3>2. \A d \in 1..5 : d = 1 \/ d = 2 \/ d = 3 \/ d = 4 \/ d = 5
      OBVIOUS
    <3> QED BY <3>1, <3>2
  <2> QED BY <2>1 DEF Events
<1>2. Earliest(t) \in S /\ \A y \in S : Earliest(t) <= y
  BY <1>1 DEF Earliest, Min
<1> QED BY <1>2

\* The least time is unique: a time of the list that none precedes is it.
LEMMA LeastIsEarliest ==
  ASSUME NEW t \in [Events -> Int], NEW d \in Events, \A e \in Events : t[d] <= t[e]
  PROVE  Earliest(t) = t[d]
BY EarliestIsLeast

\* SS_SetEventNT maintains next_event_ts and leaves Running alone.
LEMMA SetEventKeeps ==
  ASSUME NEW r \in RingT, NEW e \in Events, NEW t \in Int
  PROVE  /\ SetEventNT(r, e, t) \in RingT
         /\ SetEventNT(r, e, t).running = r.running
         /\ Settled(r) => Settled(SetEventNT(r, e, t))
<1> DEFINE q == SetEventNT(r, e, t)
           new == [r.time EXCEPT ![e] = t]
<1>1. r.time \in [Events -> Int] /\ new \in [Events -> Int]
  BY DEF RingT
<1>2. Earliest(new) \in Int
  BY <1>1, EarliestIsLeast
<1> DEFINE n == IF r.running <= 0 THEN 0
                ELSE IF r.time[e] = r.next THEN Earliest(new)
                ELSE IF t < r.next THEN t
                ELSE r.next
<1>a. n \in Int
  BY <1>2 DEF RingT
<1>b. q = [r EXCEPT !.time = new, !.next = n]
  BY Zenon DEF SetEventNT
<1>3. q \in RingT /\ q.running = r.running /\ q.time = new
  <2> HIDE DEF n, new, q
  <2> QED BY <1>a, <1>b, <1>1 DEF RingT
<1>4. ASSUME Settled(r) PROVE Settled(q)
  <2>1. CASE r.running <= 0
    BY <2>1, <1>3 DEF Settled, SetEventNT, RingT
  <2>2. CASE r.running > 0 /\ r.time[e] = r.next
    BY <2>2, <1>3 DEF Settled, SetEventNT, RingT
  <2>3. CASE r.running > 0 /\ r.time[e] # r.next /\ t < r.next
    <3>1. r.next = Earliest(r.time) /\ q.next = t
      BY <2>3, <1>4 DEF Settled, SetEventNT, RingT
    <3>2. \A d \in Events : new[e] <= new[d]
      BY <2>3, <3>1, <1>1, EarliestIsLeast
    <3>3. Earliest(new) = t
      BY <3>2, <1>1, LeastIsEarliest
    <3> QED BY <3>1, <3>3, <2>3, <1>3 DEF Settled
  <2>4. CASE r.running > 0 /\ r.time[e] # r.next /\ ~(t < r.next)
    <3>1. r.next = Earliest(r.time) /\ q.next = r.next
      BY <2>4, <1>4 DEF Settled, SetEventNT, RingT
    <3>2. PICK d \in Events : r.time[d] = Earliest(r.time)
      BY <1>1, EarliestIsLeast
    <3>3. d # e /\ new[d] = r.next
      BY <3>1, <3>2, <2>4, <1>1
    <3>4. \A c \in Events : new[d] <= new[c]
      <4> SUFFICES ASSUME NEW c \in Events PROVE r.next <= new[c]
        BY <3>3
      <4>1. CASE c = e
        BY <4>1, <2>4, <1>1, <3>1, EarliestIsLeast
      <4>2. CASE c # e
        BY <4>2, <3>1, <1>1, EarliestIsLeast
      <4> QED BY <4>1, <4>2
    <3>5. Earliest(new) = r.next
      BY <3>3, <3>4, <1>1, LeastIsEarliest
    <3> QED BY <3>1, <3>5, <2>4, <1>3 DEF Settled
  <2> QED BY <2>1, <2>2, <2>3, <2>4 DEF RingT
<1> QED BY <1>3, <1>4

\* SS_RequestEHLExit and SS_RequestMLExit leave next_event_ts at 0.
LEMMA ExitsKeep ==
  ASSUME NEW r \in RingT
  PROVE  /\ RequestEHLExit(r) \in RingT /\ RequestMLExit(r) \in RingT
         /\ RequestEHLExit(r).running <= 0 /\ RequestMLExit(r).running = 0
         /\ r.running = 0 => RequestEHLExit(r).running = 0
         /\ Settled(r) => Settled(RequestEHLExit(r))
         /\ Settled(RequestMLExit(r))
<1>1. RequestEHLExit(r) \in RingT /\ RequestMLExit(r) \in RingT
  BY DEF RequestEHLExit, RequestMLExit, RingT
<1>2. /\ RequestEHLExit(r).running <= 0 /\ RequestMLExit(r).running = 0
      /\ r.running = 0 => RequestEHLExit(r).running = 0
  BY DEF RequestEHLExit, RequestMLExit, RingT
<1>3. Settled(RequestMLExit(r))
  BY DEF RequestMLExit, RingT, Settled
<1>4. Settled(r) => Settled(RequestEHLExit(r))
  BY DEF RequestEHLExit, RingT, Settled
<1> QED BY <1>1, <1>2, <1>3, <1>4

LEMMA KeepsTransitive ==
  ASSUME NEW o, NEW p, NEW q, Keeps(o, p), Keeps(p, q)
  PROVE  Keeps(o, q)
BY DEF Keeps

LEMMA KeepsReflexive ==
  ASSUME NEW o \in Outcome
  PROVE  Keeps(o, o)
BY DEF Keeps

-----------------------------------------------------------------------------
(* The small steps the devices' operators are made of.                      *)

LEMMA RingStep ==
  ASSUME NEW o \in Outcome, NEW r \in RingT,
         Settled(o.ring) => Settled(r),
         o.ring.running <= 0 => r.running <= 0,
         o.ring.running = 0 => r.running = 0
  PROVE  Keeps(o, [o EXCEPT !.ring = r])
<1> DEFINE p == [o EXCEPT !.ring = r]
<1>1. p \in Outcome /\ p.ring = r /\ p.mem = o.mem /\ p.dev = o.dev
  BY DEF Outcome
<1> HIDE DEF p
<1>2. Keeps(o, p)
  BY <1>1 DEF Keeps, Asked
<1> QED BY <1>2 DEF p

LEMMA RetStep ==
  ASSUME NEW o \in Outcome, NEW x \in Int
  PROVE  Keeps(o, [o EXCEPT !.ret = x])
<1> DEFINE p == [o EXCEPT !.ret = x]
<1>1. p \in Outcome /\ p.ring = o.ring /\ p.mem = o.mem /\ p.dev = o.dev
  BY DEF Outcome
<1> HIDE DEF p
<1>2. Keeps(o, p)
  BY <1>1 DEF Keeps, Asked
<1> QED BY <1>2 DEF p

LEMMA DevStep ==
  ASSUME NEW o \in Outcome, NEW d \in DevT, d.pending = o.dev.pending
  PROVE  Keeps(o, [o EXCEPT !.dev = d])
<1> DEFINE p == [o EXCEPT !.dev = d]
<1>1. p \in Outcome /\ p.ring = o.ring /\ p.mem = o.mem /\ p.dev = d
  BY DEF Outcome
<1> HIDE DEF p
<1>2. Keeps(o, p)
  BY <1>1 DEF Keeps, Asked
<1> QED BY <1>2 DEF p

LEMMA DrawingStep ==
  ASSUME NEW o \in Outcome, NEW b \in BOOLEAN
  PROVE  Keeps(o, [o EXCEPT !.dev.drawing = b])
<1> DEFINE d == [o.dev EXCEPT !.drawing = b]
<1>1. o.dev \in DevT
  BY DEF Outcome
<1>2. d \in DevT /\ d.pending = o.dev.pending
  BY <1>1 DEF DevT
<1>3. [o EXCEPT !.dev.drawing = b] = [o EXCEPT !.dev = d]
  OBVIOUS
<1> QED BY <1>2, <1>3, DevStep

LEMMA SetStep ==
  ASSUME NEW o \in Outcome, NEW e \in Events, NEW t \in Int
  PROVE  Keeps(o, [o EXCEPT !.ring = SetEventNT(o.ring, e, t)])
<1>1. o.ring \in RingT
  BY DEF Outcome
<1> QED BY <1>1, SetEventKeeps, RingStep

\* SS_SetEventNT with the result of a call, for any of the call's outcomes
LEMMA SetKeeps ==
  ASSUME NEW o, NEW O, NEW e \in Events, \A q \in O : Keeps(o, q),
         NEW p \in Set(e, O)
  PROVE  Keeps(o, p)
<1>1. PICK q \in O : p = [q EXCEPT !.ring = SetEventNT(q.ring, e, q.ret)]
  BY DEF Set
<1>2. Keeps(o, q) /\ q \in Outcome /\ q.ret \in Int
  BY DEF Keeps, Outcome
<1>3. Keeps(q, p)
  BY <1>1, <1>2, SetStep
<1> QED BY <1>2, <1>3, KeepsTransitive

LEMMA SoonKeeps ==
  ASSUME NEW o \in Outcome, NEW ts \in Int, NEW p \in Soon(o, ts)
  PROVE  Keeps(o, p)
<1>1. Gran \in Nat
  BY EventLoopConstants
<1>2. PICK d \in 1..Gran : p = [o EXCEPT !.ret = ts + d]
  BY DEF Soon
<1>3. ts + d \in Int
  BY <1>1, <1>2
<1> QED BY <1>2, <1>3, RetStep

LEMMA ByInterruptKeeps ==
  ASSUME NEW o \in Outcome, NEW p \in ByInterrupt(o)
  PROVE  Keeps(o, p)
<1>1. p = o \/ p = [o EXCEPT !.ring = SetEventNT(o.ring, DMA, o.mem)]
  BY DEF ByInterrupt
<1>2. DMA \in Events /\ o.mem \in Int
  BY DEF DMA, Events, Outcome
<1> QED BY <1>1, <1>2, SetStep, KeepsReflexive

-----------------------------------------------------------------------------
(* The devices.                                                             *)

LEMMA VDP1UpdateKeeps ==
  ASSUME NEW o \in Outcome, NEW ts \in Int, NEW p \in VDP1Update(o, ts)
  PROVE  Keeps(o, p)
<1> DEFINE O == {o} \cup IF o.dev.drawing
                         THEN ByInterrupt([o EXCEPT !.dev.drawing = FALSE]) ELSE {}
<1>1. PICK q \in O : p \in Soon(q, ts)
  BY DEF VDP1Update, Bind
<1>2. Keeps(o, q)
  <2>1. CASE q = o
    BY <2>1, KeepsReflexive
  <2>2. CASE q \in ByInterrupt([o EXCEPT !.dev.drawing = FALSE])
    <3> DEFINE n == [o EXCEPT !.dev.drawing = FALSE]
    <3>1. Keeps(o, n)
      BY DrawingStep
    <3>2. n \in Outcome
      BY <3>1 DEF Keeps
    <3> HIDE DEF n
    <3>3. Keeps(n, q)
      BY <3>2, <2>2, ByInterruptKeeps DEF n
    <3> QED BY <3>1, <3>3, KeepsTransitive
  <2> QED BY <1>1, <2>1, <2>2
<1>3. Keeps(q, p)
  BY <1>1, <1>2, SoonKeeps DEF Keeps
<1> QED BY <1>2, <1>3, KeepsTransitive

\* IncVCounter, whatever phases the beam enters
LEMMA IncVCounterKeeps ==
  ASSUME NEW r \in RingT, NEW phases, NEW ts \in Int
  PROVE  /\ IncVCounter(r, phases, ts) \in RingT
         /\ Settled(r) => Settled(IncVCounter(r, phases, ts))
         /\ r.running <= 0 => IncVCounter(r, phases, ts).running <= 0
         /\ r.running = 0 => IncVCounter(r, phases, ts).running = 0
<1> DEFINE VBlank(q) == SetEventNT(q, SMPC, ts + 1)
           mid    == SetEventNT(r, MIDSYNC, ts + 1)
           bottom == IF Bottom \in phases THEN VBlank(mid) ELSE r
           last   == IF Last \in phases THEN RequestMLExit(bottom) ELSE bottom
           top    == IF 0 \in phases THEN VBlank(last) ELSE last
           Safe(q) == /\ q \in RingT
                      /\ Settled(r) => Settled(q)
                      /\ r.running <= 0 => q.running <= 0
                      /\ r.running = 0 => q.running = 0
<1>1. SMPC \in Events /\ MIDSYNC \in Events /\ ts + 1 \in Int
  BY DEF SMPC, MIDSYNC, Events
<1>2. ASSUME NEW q, Safe(q), NEW e \in Events PROVE Safe(SetEventNT(q, e, ts + 1))
  BY <1>1, <1>2, SetEventKeeps
<1>3. ASSUME NEW q, Safe(q) PROVE Safe(RequestMLExit(q))
  BY <1>3, ExitsKeep
<1>4. Safe(r)
  OBVIOUS
<1>5. Safe(bottom)
  <2>1. Safe(mid)
    BY <1>1, <1>2, <1>4
  <2>2. Safe(VBlank(mid))
    BY <1>1, <1>2, <2>1
  <2> QED BY <2>2, <1>4
<1>6. Safe(last)
  <2> HIDE DEF bottom, Safe
  <2>1. Safe(RequestMLExit(bottom))
    BY <1>3, <1>5
  <2> QED BY <2>1, <1>5
<1>7. Safe(top)
  <2> HIDE DEF last, Safe
  <2>1. Safe(VBlank(last))
    BY <1>1, <1>2, <1>6
  <2> QED BY <2>1, <1>6
<1>8. IncVCounter(r, phases, ts) = top
  BY DEF IncVCounter
<1> HIDE DEF top
<1> QED BY <1>7, <1>8

LEMMA AdvanceKeeps ==
  ASSUME NEW o \in Outcome, NEW ts \in Int, NEW clocks \in Int
  PROVE  Keeps(o, Advance(o, ts, clocks))
<1> DEFINE R == IncVCounter(o.ring, Entered(o.dev.beam, clocks), ts)
           B == (o.dev.beam + clocks) % FrameCycles
           L == o.dev.lastts + clocks
           d == [o.dev EXCEPT !.beam = B, !.lastts = L]
           q == [o EXCEPT !.dev = d]
<1>1. o.dev \in DevT /\ o.ring \in RingT
  BY DEF Outcome
<1>2. FrameCycles \in Nat \ {0}
  <2>1. Phases \in Nat \ {0} /\ PhaseLen \in Nat \ {0}
    BY EventLoopConstants
  <2> QED BY <2>1 DEF FrameCycles
<1>3. B \in Int /\ L \in Int
  BY <1>1, <1>2 DEF DevT
<1>4. d \in DevT /\ d.pending = o.dev.pending
  <2> HIDE DEF B, L
  <2> QED BY <1>1, <1>3 DEF DevT
<1>5. Keeps(o, q) /\ q.ring = o.ring
  <2> HIDE DEF d
  <2> QED BY <1>4, DevStep DEF Outcome
<1>6. q \in Outcome
  BY <1>5 DEF Keeps
<1>7. Keeps(q, [q EXCEPT !.ring = R])
  <2> HIDE DEF q
  <2> QED BY <1>1, <1>5, <1>6, IncVCounterKeeps, RingStep
<1>8. Advance(o, ts, clocks) = [q EXCEPT !.ring = R]
  <2> HIDE DEF R, B, L
  <2>1. Advance(o, ts, clocks) = [o EXCEPT !.ring = R, !.dev.beam = B, !.dev.lastts = L]
    BY DEF Advance, R, B, L
  <2>2. [o EXCEPT !.ring = R, !.dev.beam = B, !.dev.lastts = L] = [q EXCEPT !.ring = R]
    BY DEF Outcome
  <2> QED BY <2>1, <2>2
<1> HIDE DEF q, R
<1> QED BY <1>5, <1>7, <1>8, KeepsTransitive

LEMMA SwapBuffersKeeps ==
  ASSUME NEW o \in Outcome, NEW ts \in Int, NEW p \in SwapBuffers(o, ts)
  PROVE  Keeps(o, p)
<1> DEFINE n == [o EXCEPT !.dev.drawing = TRUE]
<1>1. \/ p = o
      \/ p = [o EXCEPT !.dev.drawing = FALSE]
      \/ p \in Set(VDP1, VDP1Update(n, ts))
  BY DEF SwapBuffers
<1>2. ASSUME p \in Set(VDP1, VDP1Update(n, ts)) PROVE Keeps(o, p)
  <2>1. Keeps(o, n)
    BY DrawingStep
  <2>2. n \in Outcome
    BY <2>1 DEF Keeps
  <2>3. VDP1 \in Events
    BY DEF VDP1, Events
  <2> HIDE DEF n
  <2>4. \A q \in VDP1Update(n, ts) : Keeps(n, q)
    BY <2>2, VDP1UpdateKeeps
  <2>5. Keeps(n, p)
    BY <1>2, <2>3, <2>4, SetKeeps
  <2> QED BY <2>1, <2>5, KeepsTransitive
<1> QED BY <1>1, <1>2, KeepsReflexive, DrawingStep

LEMMA VDP2UpdateKeeps ==
  ASSUME NEW o \in Outcome, NEW ts \in Int, NEW p \in VDP2Update(o, ts)
  PROVE  Keeps(o, p)
<1> DEFINE clocks == IF ts < o.dev.lastts THEN 0 ELSE ts - o.dev.lastts
           moved == Advance(o, ts, clocks)
           swapped == IF 0 \in Entered(o.dev.beam, clocks)
                      THEN SwapBuffers(moved, ts) ELSE {moved}
<1>1. clocks \in Int
  BY DEF Outcome, DevT
<1>2. Keeps(o, moved) /\ moved \in Outcome
  <2> HIDE DEF clocks
  <2> QED BY <1>1, AdvanceKeeps DEF Keeps
<1>3. PICK q \in Bind(swapped, ByInterrupt) :
        p \in {[q EXCEPT !.ret = q.dev.lastts + n] : n \in UntilNext(q.dev.beam)}
  BY DEF VDP2Update, Bind
<1>4. PICK s \in swapped : q \in ByInterrupt(s)
  BY <1>3 DEF Bind
<1>5. Keeps(moved, s) /\ s \in Outcome
  <2> HIDE DEF moved, clocks
  <2>1. s = moved \/ s \in SwapBuffers(moved, ts)
    BY <1>4
  <2>2. Keeps(moved, s)
    BY <1>2, <2>1, KeepsReflexive, SwapBuffersKeeps
  <2> QED BY <2>2 DEF Keeps
<1>6. Keeps(s, q) /\ q \in Outcome
  BY <1>4, <1>5, ByInterruptKeeps DEF Keeps
<1>7. PICK n \in UntilNext(q.dev.beam) : p = [q EXCEPT !.ret = q.dev.lastts + n]
  BY <1>3
<1>8. q.dev.lastts + n \in Int
  <2>1. q.dev.lastts \in Int
    BY <1>6 DEF Outcome, DevT
  <2>2. n \in Int
    BY <1>7 DEF UntilNext
  <2> QED BY <2>1, <2>2
<1>9. Keeps(q, p)
  BY <1>6, <1>7, <1>8, RetStep
<1> HIDE DEF moved, clocks
<1>10. Keeps(o, s)
  BY <1>2, <1>5, KeepsTransitive
<1> QED BY <1>10, <1>6, <1>9, KeepsTransitive

\* SMPC_Update: a switch is asked for, and the inner loop is to end.
LEMMA SwitchStep ==
  ASSUME NEW o \in Outcome, NEW v \in {-1, 1}
  PROVE  Keeps(o, [o EXCEPT !.dev.pending = v, !.ring = RequestEHLExit(@)])
<1> DEFINE d == [o.dev EXCEPT !.pending = v]
           R == RequestEHLExit(o.ring)
           p == [o EXCEPT !.dev = d, !.ring = R]
<1>1. o.dev \in DevT /\ o.ring \in RingT
  BY DEF Outcome
<1>2. d \in DevT
  <2>1. v \in {-1, 0, 1}
    OBVIOUS
  <2> QED BY <1>1, <2>1 DEF DevT
<1>3. R \in RingT /\ R.running <= 0
      /\ (o.ring.running = 0 => R.running = 0)
      /\ (Settled(o.ring) => Settled(R))
  BY <1>1, ExitsKeep
<1>4. [o EXCEPT !.dev.pending = v, !.ring = RequestEHLExit(@)] = p
  BY DEF Outcome
<1>5. p \in Outcome /\ p.ring = R /\ p.mem = o.mem
  <2> HIDE DEF d, R
  <2> QED BY <1>2, <1>3 DEF Outcome
<1> HIDE DEF p, R
<1>6. Keeps(o, p)
  BY <1>3, <1>5 DEF Keeps, Asked
<1> QED BY <1>4, <1>6

LEMMA SMPCUpdateKeeps ==
  ASSUME NEW o \in Outcome, NEW ts \in Int, NEW p \in SMPCUpdate(o, ts)
  PROVE  Keeps(o, p)
<1> DEFINE poll == [o EXCEPT !.ring = SetEventNT(@, MIDSYNC, ts + 1)]
           Switch(v) == [o EXCEPT !.dev.pending = v, !.ring = RequestEHLExit(@)]
<1>1. PICK q : /\ q \in {o, poll} \/ q = Switch(IF o.dev.on THEN -1 ELSE 1)
               /\ p \in Soon(q, ts)
  BY DEF SMPCUpdate, Bind
<1>2. Keeps(o, q)
  <2>1. Keeps(o, poll)
    BY SetStep DEF MIDSYNC, Events
  <2>2. Keeps(o, Switch(-1)) /\ Keeps(o, Switch(1))
    BY SwitchStep
  <2> HIDE DEF poll, Switch
  <2>3. Keeps(o, Switch(IF o.dev.on THEN -1 ELSE 1))
    BY <2>2
  <2> QED BY <1>1, <2>1, <2>3, KeepsReflexive
<1>3. Keeps(q, p)
  BY <1>1, <1>2, SoonKeeps DEF Keeps
<1> QED BY <1>2, <1>3, KeepsTransitive

LEMMA WriteVDP2Keeps ==
  ASSUME NEW o \in Outcome, NEW p \in WriteVDP2(o)
  PROVE  Keeps(o, p)
<1> DEFINE O == Bind(VDP2Update(o, o.mem), LAMBDA q : VDP2Update(q, q.mem))
<1>1. ASSUME NEW q \in O PROVE Keeps(o, q)
  <2>1. PICK s \in VDP2Update(o, o.mem) : q \in VDP2Update(s, s.mem)
    BY <1>1 DEF Bind
  <2>2. o.mem \in Int
    BY DEF Outcome
  <2>3. Keeps(o, s) /\ s \in Outcome /\ s.mem \in Int
    BY <2>1, <2>2, VDP2UpdateKeeps DEF Keeps, Outcome
  <2>4. Keeps(s, q)
    BY <2>1, <2>3, VDP2UpdateKeeps
  <2> QED BY <2>3, <2>4, KeepsTransitive
<1>2. p \in Set(VDP2, O) /\ VDP2 \in Events
  BY DEF WriteVDP2, VDP2, Events
<1> HIDE DEF O
<1> QED BY <1>1, <1>2, SetKeeps

\* The update of VDP2's event that precedes a write to VDP1 or the SMPC
LEMMA SetVDP2Keeps ==
  ASSUME NEW o \in Outcome, NEW p \in Set(VDP2, VDP2Update(o, o.mem))
  PROVE  Keeps(o, p) /\ p \in Outcome /\ p.mem \in Int
<1>1. o.mem \in Int /\ VDP2 \in Events
  BY DEF Outcome, VDP2, Events
<1>2. \A q \in VDP2Update(o, o.mem) : Keeps(o, q)
  BY <1>1, VDP2UpdateKeeps
<1>3. Keeps(o, p)
  BY <1>1, <1>2, SetKeeps
<1> QED BY <1>3 DEF Keeps, Outcome

LEMMA DrawingRetStep ==
  ASSUME NEW o \in Outcome, NEW b \in BOOLEAN, NEW x \in Int
  PROVE  Keeps(o, [o EXCEPT !.dev.drawing = b, !.ret = x])
<1> DEFINE q == [o EXCEPT !.dev.drawing = b]
<1>1. Keeps(o, q)
  BY DrawingStep
<1>2. Keeps(q, [q EXCEPT !.ret = x])
  <2>1. q \in Outcome
    BY <1>1 DEF Keeps
  <2> HIDE DEF q
  <2> QED BY <2>1, RetStep
<1>3. [o EXCEPT !.dev.drawing = b, !.ret = x] = [q EXCEPT !.ret = x]
  BY DEF Outcome
<1> HIDE DEF q
<1> QED BY <1>1, <1>2, <1>3, KeepsTransitive

LEMMA VDP1WrittenKeeps ==
  ASSUME NEW o \in Outcome, NEW p \in VDP1Written(o)
  PROVE  Keeps(o, p)
<1>1. o.mem \in Int /\ Gran \in Int
  BY EventLoopConstants DEF Outcome
<1>2. \/ p = o
      \/ p = [o EXCEPT !.dev.drawing = TRUE, !.ret = o.mem + 1]
      \/ p = [o EXCEPT !.dev.drawing = FALSE, !.ret = o.mem + Gran]
  BY DEF VDP1Written
<1>3. CASE p = o
  BY <1>3, KeepsReflexive
<1>4. CASE p = [o EXCEPT !.dev.drawing = TRUE, !.ret = o.mem + 1]
  <2>1. o.mem + 1 \in Int
    BY <1>1
  <2> QED BY <1>4, <2>1, DrawingRetStep
<1>5. CASE p = [o EXCEPT !.dev.drawing = FALSE, !.ret = o.mem + Gran]
  <2>1. o.mem + Gran \in Int
    BY <1>1
  <2> QED BY <1>5, <2>1, DrawingRetStep
<1> QED BY <1>2, <1>3, <1>4, <1>5

LEMMA WriteVDP1Keeps ==
  ASSUME NEW o \in Outcome, NEW p \in WriteVDP1(o)
  PROVE  Keeps(o, p)
<1> DEFINE A == Bind(Set(VDP2, VDP2Update(o, o.mem)), LAMBDA q : VDP1Update(q, q.mem))
           O == Bind(A, VDP1Written)
<1>1. ASSUME NEW q \in A PROVE Keeps(o, q)
  <2>1. PICK s \in Set(VDP2, VDP2Update(o, o.mem)) : q \in VDP1Update(s, s.mem)
    BY <1>1 DEF Bind
  <2>2. Keeps(o, s) /\ s \in Outcome /\ s.mem \in Int
    BY <2>1, SetVDP2Keeps
  <2>3. Keeps(s, q)
    BY <2>1, <2>2, VDP1UpdateKeeps
  <2> QED BY <2>2, <2>3, KeepsTransitive
<1>2. ASSUME NEW q \in O PROVE Keeps(o, q)
  <2>1. PICK s \in A : q \in VDP1Written(s)
    BY <1>2 DEF Bind
  <2>2. Keeps(o, s) /\ s \in Outcome
    BY <2>1, <1>1 DEF Keeps
  <2>3. Keeps(s, q)
    BY <2>1, <2>2, VDP1WrittenKeeps
  <2> QED BY <2>2, <2>3, KeepsTransitive
<1>3. p \in Set(VDP1, O) /\ VDP1 \in Events
  BY DEF WriteVDP1, VDP1, Events
<1> HIDE DEF O
<1> QED BY <1>2, <1>3, SetKeeps

LEMMA WriteSMPCKeeps ==
  ASSUME NEW o \in Outcome, NEW p \in WriteSMPC(o)
  PROVE  Keeps(o, p)
<1> DEFINE A == Bind(Set(VDP2, VDP2Update(o, o.mem)), LAMBDA q : SMPCUpdate(q, q.mem))
           O == Bind(A, SMPCWritten)
<1>1. ASSUME NEW q \in A PROVE Keeps(o, q)
  <2>1. PICK s \in Set(VDP2, VDP2Update(o, o.mem)) : q \in SMPCUpdate(s, s.mem)
    BY <1>1 DEF Bind
  <2>2. Keeps(o, s) /\ s \in Outcome /\ s.mem \in Int
    BY <2>1, SetVDP2Keeps
  <2>3. Keeps(s, q)
    BY <2>1, <2>2, SMPCUpdateKeeps
  <2> QED BY <2>2, <2>3, KeepsTransitive
<1>2. ASSUME NEW q \in O PROVE Keeps(o, q)
  <2>1. PICK s \in A : q \in SMPCWritten(s)
    BY <1>2 DEF Bind
  <2>2. Keeps(o, s) /\ s \in Outcome
    BY <2>1, <1>1 DEF Keeps
  <2>3. q = s \/ q = [s EXCEPT !.ret = s.mem + 1]
    BY <2>1 DEF SMPCWritten
  <2>4. s.mem \in Int
    BY <2>2 DEF Outcome
  <2>5. s.mem + 1 \in Int
    BY <2>4
  <2>6. Keeps(s, q)
    BY <2>2, <2>3, <2>5, KeepsReflexive, RetStep
  <2> QED BY <2>2, <2>6, KeepsTransitive
<1>3. p \in Set(SMPC, O) /\ SMPC \in Events
  BY DEF WriteSMPC, SMPC, Events
<1> HIDE DEF O
<1> QED BY <1>2, <1>3, SetKeeps

LEMMA WriteDMAStartKeeps ==
  ASSUME NEW o \in Outcome, NEW p \in WriteDMAStart(o)
  PROVE  Keeps(o, p)
<1> DEFINE O == Bind(ByInterrupt(o), LAMBDA q : Soon(q, q.mem))
<1>1. ASSUME NEW q \in O PROVE Keeps(o, q)
  <2>1. PICK s \in ByInterrupt(o) : q \in Soon(s, s.mem)
    BY <1>1 DEF Bind
  <2>2. Keeps(o, s) /\ s \in Outcome /\ s.mem \in Int
    BY <2>1, ByInterruptKeeps DEF Keeps, Outcome
  <2>3. Keeps(s, q)
    BY <2>1, <2>2, SoonKeeps
  <2> QED BY <2>2, <2>3, KeepsTransitive
<1>2. p \in Set(DMA, O) /\ DMA \in Events
  BY DEF WriteDMAStart, DMA, Events
<1> HIDE DEF O
<1> QED BY <1>1, <1>2, SetKeeps

LEMMA DMAUpdateKeeps ==
  ASSUME NEW o \in Outcome, NEW ts \in Int, NEW p \in DMAUpdate(o, ts)
  PROVE  Keeps(o, p)
<1>1. CASE ts < o.mem
  <2>1. p = [o EXCEPT !.ret = o.mem] /\ o.mem \in Int
    BY <1>1 DEF DMAUpdate, Outcome
  <2> QED BY <2>1, RetStep
<1>2. CASE ~(ts < o.mem)
  <2>1. PICK q \in {o} \cup WriteVDP2(o) \cup WriteVDP1(o) :
          p \in Soon(q, ts) \cup IF fast THEN {[q EXCEPT !.ret = Disabled]} ELSE {}
    BY <1>2 DEF DMAUpdate, Bind
  <2>2. Keeps(o, q) /\ q \in Outcome
    <3>1. Keeps(o, q)
      BY <2>1, KeepsReflexive, WriteVDP2Keeps, WriteVDP1Keeps
    <3> QED BY <3>1 DEF Keeps
  <2>3. p \in Soon(q, ts) \/ p = [q EXCEPT !.ret = Disabled]
    BY <2>1
  <2>4. Keeps(q, p)
    <3>1. Disabled \in Int
      BY DEF Disabled
    <3> QED BY <2>2, <2>3, <3>1, SoonKeeps, RetStep
  <2> QED BY <2>2, <2>4, KeepsTransitive
<1> QED BY <1>1, <1>2

\* Any event handler, called at any time
LEMMA HandlerKeeps ==
  ASSUME NEW e \in Events, NEW o \in Outcome, NEW ts \in Int, NEW p \in Handler(e, o, ts)
  PROVE  Keeps(o, p)
<1>1. \/ e = DMA /\ p \in DMAUpdate(o, ts)
      \/ e = SMPC /\ p \in SMPCUpdate(o, ts)
      \/ e = VDP1 /\ p \in VDP1Update(o, ts)
      \/ e = VDP2 /\ p \in VDP2Update(o, ts)
      \/ e = MIDSYNC /\ p \in {[o EXCEPT !.ret = Disabled]}
  BY DEF Handler, Events, DMA, SMPC, VDP1, VDP2, MIDSYNC
<1>2. ASSUME p \in {[o EXCEPT !.ret = Disabled]} PROVE Keeps(o, p)
  <2>1. Disabled \in Int
    BY DEF Disabled
  <2> QED BY <1>2, <2>1, RetStep
<1> QED BY <1>1, <1>2, DMAUpdateKeeps, SMPCUpdateKeeps, VDP1UpdateKeeps, VDP2UpdateKeeps

-----------------------------------------------------------------------------
(* The inductive invariant.  It says, for each place of the loop, what is   *)
(* known of next_event_ts: between EnterLoop and the first instruction and  *)
(* inside EventHandler it may be stale, and is recomputed before it is used.*)
Typed ==
  /\ ring \in RingT /\ dev \in DevT /\ mem \in Nat /\ best \in Int
  /\ pc \in {"idle", "loop", "force", "first", "instr", "exec", "write", "dispatch", "rebase"}

PlaceInv ==
  /\ pc \in {"first", "instr", "exec", "write"} => Settled(ring)
  /\ pc = "dispatch" => best = Earliest(ring.time) /\ after \in {"write", "instr"}
  /\ pc = "force" => after \in {"first", "rebase"}
  /\ pc = "instr" => ring.running > 0 /\ ring.next > mem

SwitchInv == dev.pending # 0 => ring.running <= 0

IInv == Typed /\ PlaceInv /\ SwitchInv

LEMMA InitIInv == Init => IInv
<1> SUFFICES ASSUME Init PROVE IInv
  OBVIOUS
<1>1. ring.time \in [Events -> Int] /\ ring.next = 0 /\ ring.running = 0
  BY DEF Init, Disabled
<1>2. ring \in RingT
  BY DEF Init, Disabled, RingT
<1>3. dev \in DevT /\ dev.pending = 0
  BY DEF Init, DevT
<1> QED BY <1>2, <1>3 DEF Init, IInv, Typed, PlaceInv, SwitchInv

\* The CPUs' point of view of a device: the ring and the devices it is given
LEMMA HereIsOutcome ==
  ASSUME IInv, NEW time \in Int
  PROVE  Here(time) \in Outcome /\ Asked(Here(time))
BY DEF IInv, Typed, SwitchInv, Here, Outcome, Asked

\* A handler called by EventHandler or ForceEventUpdates
LEMMA UpdateStep ==
  ASSUME IInv, NEW e \in Events, NEW ts \in Int, Update(e, ts)
  PROVE  /\ ring' \in RingT /\ dev' \in DevT /\ SwitchInv'
         /\ ring.running = 0 => ring'.running = 0
<1>1. PICK o \in Handler(e, Here(mem), ts) :
        ring' = [o.ring EXCEPT !.time[e] = o.ret] /\ dev' = o.dev
  BY DEF Update
<1>2. Here(mem) \in Outcome /\ Asked(Here(mem))
  BY HereIsOutcome DEF IInv, Typed
<1>3. Keeps(Here(mem), o)
  BY <1>1, <1>2, HandlerKeeps
<1>4. o \in Outcome /\ Asked(o) /\ (ring.running = 0 => o.ring.running = 0)
  BY <1>2, <1>3 DEF Keeps, Here
<1>5. o.ring \in RingT /\ o.dev \in DevT /\ o.ret \in Int
  BY <1>4 DEF Outcome
<1> DEFINE t == [o.ring.time EXCEPT ![e] = o.ret]
<1>6. t \in [Events -> Int]
  BY <1>5 DEF RingT
<1>7. ring' = [o.ring EXCEPT !.time = t]
  BY <1>1
<1>8. ring' \in RingT /\ ring'.running = o.ring.running
  <2> HIDE DEF t
  <2> QED BY <1>5, <1>6, <1>7 DEF RingT
<1> QED BY <1>1, <1>4, <1>5, <1>8 DEF SwitchInv, Asked

\* The inner loop is left for its next round or for the end of the frame.
LEMMA LeaveStep ==
  ASSUME LeaveInner
  PROVE  pc' \in {"loop", "force"} /\ (pc' = "force" => after' = "rebase")
BY DEF LeaveInner

\* EventHandler is entered with the earliest time, or not at all.
LEMMA CallStep ==
  ASSUME IInv, NEW then \in {"write", "instr"}, CallHandler(then),
         Settled(ring), UNCHANGED <<ring, dev>>, mem' \in Nat
  PROVE  IInv'
<1>1. CASE ring.running <= 0 /\ then = "write"
  BY <1>1 DEF CallHandler, IInv, Typed, PlaceInv, SwitchInv
<1>2. CASE ring.running <= 0 /\ then # "write"
  <2>1. LeaveInner /\ best' = best
    BY <1>2 DEF CallHandler
  <2> QED BY <2>1, LeaveStep DEF IInv, Typed, PlaceInv, SwitchInv
<1>3. CASE ~(ring.running <= 0)
  <2>1. pc' = "dispatch" /\ best' = ring.next /\ after' = then
    BY <1>3 DEF CallHandler
  <2>2. ring.running > 0
    BY <1>3 DEF IInv, Typed, RingT
  <2>3. ring.next = Earliest(ring.time) /\ ring.next \in Int
    BY <2>2 DEF Settled, IInv, Typed, RingT
  <2> QED BY <2>1, <2>3 DEF IInv, Typed, PlaceInv, SwitchInv
<1> QED BY <1>1, <1>2, <1>3

-----------------------------------------------------------------------------
(* Each action preserves the invariant.                                     *)

\* SMPC_ProcessSlaveOffOn
LEMMA PowerStep ==
  ASSUME NEW d \in DevT, NEW b \in BOOLEAN, NEW v \in {-1, 0, 1}
  PROVE  [d EXCEPT !.on = b, !.pending = v] \in DevT
         /\ [d EXCEPT !.on = b, !.pending = v].pending = v
BY DEF DevT

LEMMA EnterLoopStep == IInv /\ EnterLoop => IInv'
<1> SUFFICES ASSUME IInv, EnterLoop PROVE IInv'
  OBVIOUS
<1>1. ring' \in RingT
  BY DEF EnterLoop, IInv, Typed, RingT
<1>2. dev' \in DevT /\ dev'.pending = 0
  <2>1. dev \in DevT /\ (dev.pending > 0) \in BOOLEAN /\ 0 \in {-1, 0, 1}
    BY DEF IInv, Typed
  <2>2. \/ dev' = dev /\ dev.pending = 0
        \/ dev' = [dev EXCEPT !.on = dev.pending > 0, !.pending = 0]
    BY DEF EnterLoop
  <2>3. CASE dev' = [dev EXCEPT !.on = dev.pending > 0, !.pending = 0]
    BY <2>1, <2>3, PowerStep
  <2> QED BY <2>1, <2>2, <2>3
<1> QED BY <1>1, <1>2 DEF EnterLoop, IInv, Typed, PlaceInv, SwitchInv

LEMMA ForceStep == IInv /\ ForceUpdate => IInv'
<1> SUFFICES ASSUME IInv, ForceUpdate PROVE IInv'
  OBVIOUS
<1>1. ring' \in RingT /\ dev' \in DevT /\ SwitchInv'
  <2>1. CASE UNCHANGED <<ring, dev>>
    BY <2>1 DEF IInv, Typed, SwitchInv
  <2>2. CASE Update(at, mem)
    BY <2>2, UpdateStep DEF ForceUpdate, IInv, Typed
  <2> QED BY <2>1, <2>2 DEF ForceUpdate
<1> QED BY <1>1 DEF ForceUpdate, IInv, Typed, PlaceInv

LEMMA ForceDoneStep == IInv /\ ForceDone => IInv'
<1> SUFFICES ASSUME IInv, ForceDone PROVE IInv'
  OBVIOUS
<1> DEFINE n == IF ring.running > 0 THEN Earliest(ring.time) ELSE 0
<1>1. n \in Int
  BY EarliestIsLeast DEF IInv, Typed, RingT
<1>2. ring' = [ring EXCEPT !.next = n]
  BY DEF ForceDone
<1>3. ring' \in RingT /\ ring'.running = ring.running /\ ring'.time = ring.time /\ ring'.next = n
  <2> HIDE DEF n
  <2> QED BY <1>1, <1>2 DEF IInv, Typed, RingT
<1>4. Settled(ring')
  BY <1>3 DEF Settled
<1> HIDE DEF n
<1> QED BY <1>3, <1>4 DEF ForceDone, IInv, Typed, PlaceInv, SwitchInv

LEMMA AccessStep == IInv /\ Access => IInv'
<1> SUFFICES ASSUME IInv, Access PROVE IInv'
  OBVIOUS
<1>1. Settled(ring) /\ mem' \in Nat
  BY DEF Access, IInv, Typed, PlaceInv
<1>2. CASE mem' >= ring.next
  BY <1>1, <1>2, CallStep DEF Access
<1>3. CASE ~(mem' >= ring.next)
  BY <1>1, <1>3 DEF Access, IInv, Typed, PlaceInv, SwitchInv
<1> QED BY <1>2, <1>3

\* What a write does to the ring and the devices
LEMMA WrittenKeeps ==
  ASSUME IInv, Write
  PROVE  \E o : /\ Keeps(Here(mem'), o)
                /\ ring' = o.ring /\ dev' = o.dev
<1>1. PICK slow \in {0, 1} :
        /\ mem' = mem + slow
        /\ \E o \in {Here(mem')} \cup WriteVDP1(Here(mem'))
                     \cup (IF slow = 1 THEN {}
                           ELSE WriteVDP2(Here(mem)) \cup WriteSMPC(Here(mem))
                                  \cup WriteDMAStart(Here(mem))) :
             ring' = o.ring /\ dev' = o.dev
  BY DEF Write
<1>2. mem \in Int /\ mem' \in Int
  BY <1>1 DEF IInv, Typed
<1>3. Here(mem) \in Outcome /\ Here(mem') \in Outcome
  BY <1>2, HereIsOutcome
<1>4. PICK o \in {Here(mem')} \cup WriteVDP1(Here(mem'))
                     \cup (IF slow = 1 THEN {}
                           ELSE WriteVDP2(Here(mem)) \cup WriteSMPC(Here(mem))
                                  \cup WriteDMAStart(Here(mem))) :
         ring' = o.ring /\ dev' = o.dev
  BY <1>1
<1>5. CASE slow = 1
  BY <1>3, <1>4, <1>5, KeepsReflexive, WriteVDP1Keeps
<1>6. CASE slow = 0
  <2>1. Here(mem') = Here(mem)
    BY <1>1, <1>2, <1>6
  <2>2. Keeps(Here(mem), o)
    BY <1>3, <1>4, <2>1, KeepsReflexive, WriteVDP1Keeps, WriteVDP2Keeps, WriteSMPCKeeps,
       WriteDMAStartKeeps
  <2> QED BY <1>4, <2>1, <2>2
<1> QED BY <1>5, <1>6

LEMMA WriteStep == IInv /\ Write => IInv'
<1> SUFFICES ASSUME IInv, Write PROVE IInv'
  OBVIOUS
<1>1. PICK o : Keeps(Here(mem'), o) /\ ring' = o.ring /\ dev' = o.dev
  BY WrittenKeeps
<1>2. mem' \in Nat
  BY DEF Write, IInv, Typed
<1>3. Settled(ring)
  BY DEF Write, IInv, PlaceInv
<1>4. Asked(Here(mem'))
  BY <1>2, HereIsOutcome
<1>5. o \in Outcome /\ Settled(o.ring) /\ Asked(o)
  BY <1>1, <1>3, <1>4 DEF Keeps, Here
<1>6. ring' \in RingT /\ dev' \in DevT /\ Settled(ring') /\ SwitchInv'
  BY <1>1, <1>5 DEF Outcome, Asked, SwitchInv
<1> QED BY <1>2, <1>6 DEF Write, IInv, Typed, PlaceInv

LEMMA RetireStep == IInv /\ Retire => IInv'
<1> SUFFICES ASSUME IInv, Retire PROVE IInv'
  OBVIOUS
<1>1. Settled(ring) /\ mem' \in Nat
  BY DEF Retire, IInv, Typed, PlaceInv
<1>2. CASE mem' < ring.next
  <2>1. ring.running > 0
    BY <1>1, <1>2 DEF Settled
  <2>2. pc' = "instr" /\ UNCHANGED <<ring, dev, best>>
    BY <1>2 DEF Retire
  <2>3. ring.next > mem'
    BY <1>1, <1>2 DEF IInv, Typed, RingT
  <2> QED BY <1>1, <2>1, <2>2, <2>3 DEF IInv, Typed, PlaceInv, SwitchInv
<1>3. CASE ~(mem' < ring.next)
  BY <1>1, <1>3, CallStep DEF Retire
<1> QED BY <1>2, <1>3

LEMMA DispatchStep == IInv /\ Dispatch => IInv'
<1> SUFFICES ASSUME IInv, Dispatch PROVE IInv'
  OBVIOUS
<1>1. PICK e \in Events : Update(e, best)
  BY DEF Dispatch
<1>2. ring' \in RingT /\ dev' \in DevT /\ SwitchInv'
  BY <1>1, UpdateStep DEF IInv, Typed
<1>3. best' = Earliest(ring'.time) /\ best' \in Int
  BY <1>2, EarliestIsLeast DEF Dispatch, RingT
<1> QED BY <1>2, <1>3 DEF Dispatch, IInv, Typed, PlaceInv

LEMMA DispatchDoneStep == IInv /\ DispatchDone => IInv'
<1> SUFFICES ASSUME IInv, DispatchDone PROVE IInv'
  OBVIOUS
<1> DEFINE n == IF ring.running > 0 THEN best ELSE 0
<1>1. n \in Int
  BY DEF IInv, Typed
<1>2. ring' = [ring EXCEPT !.next = n]
  BY DEF DispatchDone
<1>3. ring' \in RingT /\ ring'.running = ring.running /\ ring'.time = ring.time /\ ring'.next = n
  <2> HIDE DEF n
  <2> QED BY <1>1, <1>2 DEF IInv, Typed, RingT
<1>4. best = Earliest(ring.time) /\ after \in {"write", "instr"} /\ best > mem
  BY DEF DispatchDone, IInv, PlaceInv
<1>5. Settled(ring')
  BY <1>3, <1>4 DEF Settled
<1>6. CASE after = "write" \/ ring.running > 0
  <2>1. pc' = after
    BY <1>6 DEF DispatchDone
  <2>2. pc' = "instr" => ring'.running > 0 /\ ring'.next > mem'
    BY <1>3, <1>4, <1>6, <2>1 DEF DispatchDone
  <2> HIDE DEF n
  <2> QED BY <1>3, <1>4, <1>5, <2>1, <2>2 DEF DispatchDone, IInv, Typed, PlaceInv, SwitchInv
<1>7. CASE ~(after = "write" \/ ring.running > 0)
  <2>1. LeaveInner
    BY <1>7 DEF DispatchDone
  <2> HIDE DEF n
  <2> QED BY <1>3, <2>1, LeaveStep DEF DispatchDone, IInv, Typed, PlaceInv, SwitchInv
<1> QED BY <1>6, <1>7

LEMMA RebaseStep == IInv /\ Rebase => IInv'
<1> SUFFICES ASSUME IInv, Rebase PROVE IInv'
  OBVIOUS
<1> DEFINE t == [e \in Events |-> IF ring.time[e] = Disabled THEN Disabled
                                 ELSE ring.time[e] - mem]
<1>1. t \in [Events -> Int]
  BY DEF IInv, Typed, RingT, Disabled
<1>2. ring' = [ring EXCEPT !.time = t, !.next = Earliest(t)]
  BY DEF Rebase
<1>3. ring' \in RingT /\ ring'.running = ring.running
  <2>1. Earliest(t) \in Int
    BY <1>1, EarliestIsLeast
  <2> HIDE DEF t
  <2> QED BY <1>1, <1>2, <2>1 DEF IInv, Typed, RingT
<1>4. dev' \in DevT /\ dev'.pending = dev.pending
  <2>1. dev.lastts - mem \in Int
    BY DEF IInv, Typed, DevT
  <2> QED BY <2>1 DEF Rebase, IInv, Typed, DevT
<1> QED BY <1>3, <1>4 DEF Rebase, IInv, Typed, PlaceInv, SwitchInv

LEMMA NextIInv == IInv /\ [Next]_vars => IInv'
<1> SUFFICES ASSUME IInv, [Next]_vars PROVE IInv'
  OBVIOUS
<1>1. CASE StartFrame
  BY <1>1 DEF StartFrame, IInv, Typed, PlaceInv, SwitchInv
<1>2. CASE UNCHANGED vars
  BY <1>2 DEF vars, IInv, Typed, PlaceInv, SwitchInv
<1> QED BY <1>1, <1>2, EnterLoopStep, ForceStep, ForceDoneStep, AccessStep, WriteStep, RetireStep,
           DispatchStep, DispatchDoneStep, RebaseStep DEF Next

LEMMA Invariant == Spec => []IInv
  BY InitIInv, NextIInv, PTL DEF Spec

-----------------------------------------------------------------------------
(* When an instruction starts, every event is in the future and the CPU loop *)
(* stops at the first of them, whoever changed the list, from wherever       *)
(* (ss.c:1115, 1443-1454).                                                   *)
THEOREM NothingOverdueHolds == Spec => []NothingOverdue
<1>1. IInv => NothingOverdue
  <2> SUFFICES ASSUME IInv, pc = "instr"
               PROVE  /\ ring.running > 0 /\ ring.next = Earliest(ring.time)
                      /\ \A e \in Events : ring.time[e] > mem
    BY DEF NothingOverdue
  <2>1. ring.running > 0 /\ ring.next > mem /\ Settled(ring)
    BY DEF IInv, PlaceInv
  <2>2. ring.next = Earliest(ring.time)
    BY <2>1 DEF Settled
  <2>3. ring.time \in [Events -> Int] /\ mem \in Int
    BY DEF IInv, Typed, RingT
  <2>4. \A e \in Events : Earliest(ring.time) <= ring.time[e] /\ ring.time[e] \in Int
    BY <2>3, EarliestIsLeast
  <2>5. Earliest(ring.time) \in Int
    BY <2>3, EarliestIsLeast
  <2> QED BY <2>1, <2>2, <2>3, <2>4, <2>5
<1> QED BY <1>1, Invariant, PTL

(* The slave SH-2 is switched before the next instruction: its request ends *)
(* the inner loop whatever else the devices do (smpc.c:1296-1298, 1661-1671).*)
THEOREM SwitchIsPromptHolds == Spec => []SwitchIsPrompt
<1>1. IInv => SwitchIsPrompt
  BY DEF IInv, Typed, PlaceInv, SwitchInv, SwitchIsPrompt, RingT
<1> QED BY <1>1, Invariant, PTL

(* No later request or handler undoes the request that ends the frame       *)
(* (ss.c:1494-1507).                                                        *)
THEOREM FrameEndSticksHolds == Spec => FrameEndSticks
<1> DEFINE Sticks == ring.running = 0 /\ pc # "loop" => ring'.running = 0
<1>1. ASSUME IInv, Next PROVE Sticks
  <2>1. CASE ForceUpdate
    <3>1. CASE Update(at, mem)
      BY <3>1, <2>1, <1>1, UpdateStep DEF ForceUpdate, IInv, Typed
    <3>2. CASE UNCHANGED <<ring, dev>>
      BY <3>2
    <3> QED BY <2>1, <3>1, <3>2 DEF ForceUpdate
  <2>2. CASE Dispatch
    <3>1. PICK e \in Events : Update(e, best)
      BY <2>2 DEF Dispatch
    <3> QED BY <3>1, <1>1, UpdateStep DEF IInv, Typed
  <2>3. CASE Write
    <3>1. PICK o : Keeps(Here(mem'), o) /\ ring' = o.ring
      BY <1>1, <2>3, WrittenKeeps
    <3> QED BY <3>1 DEF Keeps, Here
  <2>4. CASE EnterLoop
    BY <2>4 DEF EnterLoop
  <2>5. CASE ForceDone \/ DispatchDone \/ Rebase
    BY <1>1, <2>5 DEF ForceDone, DispatchDone, Rebase, IInv, Typed, RingT
  <2>6. CASE StartFrame \/ Access \/ Retire
    BY <2>6 DEF StartFrame, Access, Retire
  <2> QED BY <1>1, <2>1, <2>2, <2>3, <2>4, <2>5, <2>6 DEF Next
<1>2. IInv /\ [Next]_vars => [Sticks]_vars
  BY <1>1
<1> HIDE DEF Sticks
<1>3. Spec => [][Sticks]_vars
  BY <1>2, Invariant, PTL DEF Spec
<1> QED BY <1>3 DEF FrameEndSticks, Sticks

-----------------------------------------------------------------------------
(* The length of a frame and the round of all events at its end.            *)
(*                                                                          *)
(* VDP2 keeps its event no later than the end of the frame, so an           *)
(* instruction that runs past it is the last of the frame, but for one that *)
(* was due when all events were updated.  Moves says what a device does to  *)
(* that: the frame's end stays where it is unless the beam has passed it,   *)
(* which ends the loop, and each time it sets is later than its own.        *)

LastLine == Last * PhaseLen

\* Cycles until the beam next enters the last line, and when that is.
ToEnd(b) == IF b < LastLine THEN LastLine - b ELSE FrameCycles + LastLine - b
FrameEnd(d) == d.lastts + ToEnd(d.beam)

InFrame(o) ==
  /\ o.dev.beam \in 0..FrameCycles - 1 /\ 0 <= o.dev.lastts /\ o.dev.lastts <= o.mem
  /\ o.ring.time[VDP2] <= FrameEnd(o.dev)
  /\ o.ring.running # 0 => FrameEnd(o.dev) <= FrameCycles

\* Times are set to later than t, but for the DMA's in the fast modes.
Later(r, q, t) ==
  \A e \in Events : q.time[e] = r.time[e] \/ q.time[e] > t \/ (fast /\ e = DMA)

Moves(o, p, t) ==
  /\ p \in Outcome /\ p.mem = o.mem
  /\ o.dev.lastts <= p.dev.lastts
  /\ InFrame(o) => InFrame(p)
  /\ Later(o.ring, p.ring, t)

LEMMA FrameFacts ==
  /\ FrameCycles \in Nat \ {0} /\ LastLine \in Nat /\ PhaseLen \in Nat \ {0}
  /\ LastLine + PhaseLen = FrameCycles /\ PhaseLen <= LastLine
<1>1. Phases \in Nat /\ PhaseLen \in Nat /\ PhaseLen > 0 /\ Phases > 2
  BY EventLoopConstants
<1>2. LastLine = (Phases - 1) * PhaseLen /\ FrameCycles = Phases * PhaseLen
  BY DEF LastLine, Last, FrameCycles
<1>3. (Phases - 1) * PhaseLen \in Nat
  BY <1>1
<1>4. (Phases - 1) * PhaseLen + PhaseLen = Phases * PhaseLen
  BY <1>1
<1>5. (Phases - 1) * PhaseLen = (Phases - 2) * PhaseLen + PhaseLen /\ (Phases - 2) * PhaseLen \in Nat
  BY <1>1
<1> QED BY <1>1, <1>2, <1>3, <1>4, <1>5

LEMMA ToEndRange ==
  ASSUME NEW b \in 0..FrameCycles - 1
  PROVE  ToEnd(b) \in 1..FrameCycles
BY FrameFacts DEF ToEnd

LEMMA Remainder ==
  ASSUME NEW n \in Nat \ {0}, NEW x \in 0..n - 1
  PROVE  x % n = x
OBVIOUS

LEMMA WrapsOnce ==
  ASSUME NEW n \in Nat \ {0}, NEW x \in 0..n - 1
  PROVE  (n + x) % n = x
<1> DEFINE q == (n + x) \div n
           r == (n + x) % n
<1>1. q \in Int /\ r \in 0..n - 1 /\ n + x = n * q + r
  BY SMTT(60)
<1> HIDE DEF q, r
<1>2. q >= 2 => n * q >= 2 * n
  <2>1. q >= 2 => n * (q - 2) >= 0
    BY <1>1
  <2>2. n * q = n * (q - 2) + 2 * n
    BY <1>1
  <2>3. n * (q - 2) \in Int /\ 2 * n \in Int
    BY <1>1
  <2> QED BY <2>1, <2>2, <2>3
<1>3. q <= 0 => n * q <= 0
  <2>1. q <= 0 => n * (0 - q) >= 0
    BY <1>1
  <2>2. n * q = 0 - n * (0 - q)
    BY <1>1
  <2>3. n * (0 - q) \in Int
    BY <1>1
  <2> QED BY <2>1, <2>2, <2>3
<1>4. q = 1
  <2>1. n * q \in Int
    BY <1>1
  <2> QED BY <1>1, <1>2, <1>3, <2>1
<1>5. n * q = n
  BY <1>4
<1>6. r = x
  BY <1>1, <1>5
<1> QED BY <1>6 DEF r

\* While the beam has not come to the last line, it comes nearer to it.
LEMMA BeamMoves ==
  ASSUME NEW b \in 0..FrameCycles - 1, NEW c \in Nat, c < ToEnd(b)
  PROVE  ToEnd((b + c) % FrameCycles) = ToEnd(b) - c
<1>1. c < FrameCycles /\ b + c \in Nat /\ b + c < 2 * FrameCycles
  BY ToEndRange, FrameFacts
<1>3. CASE b + c < FrameCycles
  <2>1. (b + c) % FrameCycles = b + c
    BY <1>1, <1>3, FrameFacts, Remainder
  <2> QED BY <2>1, <1>1, <1>3, FrameFacts DEF ToEnd
<1>4. CASE ~(b + c < FrameCycles)
  <2>2. (b + c) - FrameCycles \in 0..FrameCycles - 1
    BY <1>1, <1>4, FrameFacts
  <2>3. b + c = FrameCycles + ((b + c) - FrameCycles)
    BY FrameFacts
  <2>1. (b + c) % FrameCycles = (b + c) - FrameCycles
    BY <2>2, <2>3, FrameFacts, WrapsOnce
  <2> QED BY <2>1, <1>1, <1>4, FrameFacts DEF ToEnd
<1> QED BY <1>3, <1>4

\* A beam that has gone far enough has come to it.
LEMMA BeamEnters ==
  ASSUME NEW b \in 0..FrameCycles - 1, NEW c \in Nat, c >= ToEnd(b)
  PROVE  Last \in Entered(b, c)
<1> DEFINE i == ToEnd(b)
<1>1. i \in 1..c
  BY ToEndRange, FrameFacts
<1>2. (b + i) % FrameCycles = LastLine
  <2>1. b + i = LastLine \/ b + i = FrameCycles + LastLine
    BY FrameFacts DEF ToEnd
  <2>2. LastLine \in 0..FrameCycles - 1
    BY FrameFacts
  <2>3. LastLine % FrameCycles = LastLine /\ (FrameCycles + LastLine) % FrameCycles = LastLine
    BY <2>2, FrameFacts, Remainder, WrapsOnce
  <2> QED BY <2>1, <2>3
<1> HIDE DEF i
<1> QED BY <1>1, <1>2 DEF Entered, LastLine

\* The next change of the beam is not after the end of the frame.
LEMMA NextChange ==
  ASSUME NEW b \in 0..FrameCycles - 1, NEW n \in UntilNext(b)
  PROVE  n \in Nat \ {0} /\ n <= ToEnd(b)
<1>1. b \in Nat /\ PhaseLen \in Nat \ {0}
  BY FrameFacts
<1> DEFINE q == b \div PhaseLen
           r == b % PhaseLen
<1>2. q \in Int /\ r \in 0..PhaseLen - 1 /\ b = PhaseLen * q + r
  BY <1>1, SMTT(60)
<1>3. n \in 1..PhaseLen - r
  BY DEF UntilNext
<1> HIDE DEF q, r
<1>4. CASE b < LastLine
  <2>1. LastLine = PhaseLen * (Phases - 1) /\ Phases - 1 \in Nat
    BY EventLoopConstants DEF LastLine, Last
  <2>2. q >= Phases - 1 => PhaseLen * q >= PhaseLen * (Phases - 1)
    BY <1>1, <1>2, <2>1
  <2>3. q + 1 <= Phases - 1
    <3>1. PhaseLen * q \in Int /\ PhaseLen * (Phases - 1) \in Int
      BY <1>1, <1>2, <2>1
    <3> QED BY <1>2, <1>4, <2>1, <2>2, <3>1
  <2>4. PhaseLen * (q + 1) <= PhaseLen * (Phases - 1)
    BY <1>1, <1>2, <2>1, <2>3
  <2>5. PhaseLen * (q + 1) = PhaseLen * q + PhaseLen
    BY <1>1, <1>2
  <2>6. PhaseLen - r <= LastLine - b
    BY <1>1, <1>2, <2>1, <2>4, <2>5, FrameFacts
  <2> QED BY <1>1, <1>2, <1>3, <1>4, <2>6, FrameFacts DEF ToEnd
<1>5. CASE ~(b < LastLine)
  BY <1>1, <1>2, <1>3, <1>5, FrameFacts DEF ToEnd
<1> QED BY <1>4, <1>5

-----------------------------------------------------------------------------
LEMMA MovesTransitive ==
  ASSUME NEW o, NEW p, NEW q, NEW t, Moves(o, p, t), Moves(p, q, t), o \in Outcome
  PROVE  Moves(o, q, t)
<1>1. o.dev.lastts \in Int /\ p.dev.lastts \in Int /\ q.dev.lastts \in Int
  BY DEF Moves, Outcome, DevT
<1>2. Later(o.ring, q.ring, t)
  BY DEF Moves, Later
<1> QED BY <1>1, <1>2 DEF Moves

\* A step that changes neither the times, nor the end of the loop, nor the beam.
LEMMA MovesStill ==
  ASSUME NEW o \in Outcome, NEW p \in Outcome, NEW t,
         p.mem = o.mem, p.ring.time = o.ring.time, p.dev.beam = o.dev.beam, p.dev.lastts = o.dev.lastts,
         o.ring.running = 0 => p.ring.running = 0
  PROVE  Moves(o, p, t)
<1>1. o.dev.lastts \in Int
  BY DEF Outcome, DevT
<1>2. FrameEnd(p.dev) = FrameEnd(o.dev)
  BY DEF FrameEnd
<1>3. InFrame(o) => InFrame(p)
  BY <1>2 DEF InFrame
<1>4. Later(o.ring, p.ring, t)
  BY DEF Later
<1> QED BY <1>1, <1>3, <1>4 DEF Moves

LEMMA RetMoves ==
  ASSUME NEW o \in Outcome, NEW x \in Int, NEW t
  PROVE  Moves(o, [o EXCEPT !.ret = x], t)
<1> DEFINE p == [o EXCEPT !.ret = x]
<1>1. p \in Outcome /\ p.ring = o.ring /\ p.mem = o.mem /\ p.dev = o.dev
  BY DEF Outcome
<1> HIDE DEF p
<1>2. Moves(o, p, t)
  BY <1>1, MovesStill
<1> QED BY <1>2 DEF p

LEMMA DrawingMoves ==
  ASSUME NEW o \in Outcome, NEW b \in BOOLEAN, NEW t
  PROVE  /\ Moves(o, [o EXCEPT !.dev.drawing = b], t)
         /\ [o EXCEPT !.dev.drawing = b].ret = o.ret
<1> DEFINE d == [o.dev EXCEPT !.drawing = b]
           p == [o EXCEPT !.dev.drawing = b]
<1>1. o.dev \in DevT
  BY DEF Outcome
<1>2. d \in DevT /\ d.beam = o.dev.beam /\ d.lastts = o.dev.lastts
  BY <1>1 DEF DevT
<1>3. p.dev = d /\ p.ring = o.ring /\ p.mem = o.mem /\ p.ret = o.ret /\ p = [o EXCEPT !.dev = d]
  BY DEF Outcome
<1>4. p \in Outcome
  BY <1>2, <1>3 DEF Outcome
<1> HIDE DEF p, d
<1>5. Moves(o, p, t)
  BY <1>2, <1>3, <1>4, MovesStill
<1> QED BY <1>3, <1>5 DEF p

\* SS_SetEventNT sets the one time.
LEMMA SetEventTimes ==
  ASSUME NEW r \in RingT, NEW e \in Events, NEW x \in Int
  PROVE  /\ SetEventNT(r, e, x) \in RingT
         /\ SetEventNT(r, e, x).running = r.running
         /\ SetEventNT(r, e, x).time = [r.time EXCEPT ![e] = x]
<1>1. SetEventNT(r, e, x) \in RingT /\ SetEventNT(r, e, x).running = r.running
  BY SetEventKeeps
<1> DEFINE new == [r.time EXCEPT ![e] = x]
           n == IF r.running <= 0 THEN 0
                ELSE IF r.time[e] = r.next THEN Earliest(new)
                ELSE IF x < r.next THEN x
                ELSE r.next
<1>2. SetEventNT(r, e, x) = [r EXCEPT !.time = new, !.next = n]
  BY Zenon DEF SetEventNT
<1> HIDE DEF n, new
<1>3. [r EXCEPT !.time = new, !.next = n].time = new
  BY DEF RingT
<1> QED BY <1>1, <1>2, <1>3 DEF new

\* An event's time is set: to later than t, and VDP2's not past the frame's end.
LEMMA SetMoves ==
  ASSUME NEW o \in Outcome, NEW e \in Events, NEW x \in Int, NEW t \in Int,
         x > t \/ (fast /\ e = DMA),
         e = VDP2 /\ InFrame(o) => x <= FrameEnd(o.dev)
  PROVE  Moves(o, [o EXCEPT !.ring = SetEventNT(o.ring, e, x)], t)
<1> DEFINE r == SetEventNT(o.ring, e, x)
           p == [o EXCEPT !.ring = r]
<1>1. o.ring \in RingT
  BY DEF Outcome
<1>2. r \in RingT /\ r.running = o.ring.running /\ r.time = [o.ring.time EXCEPT ![e] = x]
  BY <1>1, SetEventTimes
<1> HIDE DEF r
<1>3. p \in Outcome /\ p.ring = r /\ p.mem = o.mem /\ p.dev = o.dev
  BY <1>2 DEF Outcome
<1> HIDE DEF p
<1>4. o.ring.time \in [Events -> Int] /\ VDP2 \in Events
  BY <1>1 DEF RingT, VDP2, Events
<1>5. \A d \in Events : p.ring.time[d] = IF d = e THEN x ELSE o.ring.time[d]
  BY <1>2, <1>3, <1>4
<1>6. ASSUME InFrame(o) PROVE InFrame(p)
  <2>1. p.ring.time[VDP2] <= FrameEnd(p.dev)
    BY <1>3, <1>4, <1>5, <1>6 DEF InFrame
  <2> QED BY <1>2, <1>3, <1>6, <2>1 DEF InFrame
<1>7. Later(o.ring, p.ring, t)
  BY <1>5 DEF Later
<1>8. o.dev.lastts \in Int
  BY DEF Outcome, DevT
<1>9. Moves(o, p, t)
  BY <1>3, <1>6, <1>7, <1>8 DEF Moves
<1> QED BY <1>9 DEF p, r

LEMMA SetAllMoves ==
  ASSUME NEW o \in Outcome, NEW O, NEW e \in Events, NEW t \in Int,
         \A q \in O : /\ Moves(o, q, t) /\ q.ret > t
                      /\ e = VDP2 /\ InFrame(q) => q.ret <= FrameEnd(q.dev),
         NEW p \in Set(e, O)
  PROVE  Moves(o, p, t)
<1>1. PICK q \in O : p = [q EXCEPT !.ring = SetEventNT(q.ring, e, q.ret)]
  BY DEF Set
<1>2. /\ Moves(o, q, t) /\ q \in Outcome /\ q.ret \in Int /\ q.ret > t
      /\ e = VDP2 /\ InFrame(q) => q.ret <= FrameEnd(q.dev)
  BY DEF Moves, Outcome
<1>3. Moves(q, p, t)
  BY <1>1, <1>2, SetMoves
<1> QED BY <1>2, <1>3, MovesTransitive

LEMMA SoonMoves ==
  ASSUME NEW o \in Outcome, NEW ts \in Int, NEW t \in Int, t <= ts, NEW p \in Soon(o, ts)
  PROVE  Moves(o, p, t) /\ p \in Outcome /\ p.ret > t
<1>1. Gran \in Nat
  BY EventLoopConstants
<1>2. PICK d \in 1..Gran : p = [o EXCEPT !.ret = ts + d]
  BY DEF Soon
<1>3. ts + d \in Int /\ ts + d > t
  BY <1>1, <1>2
<1>4. p.ret = ts + d
  BY <1>2 DEF Outcome
<1>5. Moves(o, p, t)
  BY <1>2, <1>3, RetMoves
<1> QED BY <1>3, <1>4, <1>5 DEF Moves

LEMMA ByInterruptMoves ==
  ASSUME NEW o \in Outcome, NEW t \in Int, NEW p \in ByInterrupt(o)
  PROVE  Moves(o, p, t) /\ p \in Outcome
<1>1. CASE p = o
  BY <1>1, MovesStill DEF Moves
<1>2. CASE fast /\ p = [o EXCEPT !.ring = SetEventNT(o.ring, DMA, o.mem)]
  <2>1. DMA \in Events /\ DMA # VDP2 /\ o.mem \in Int
    BY DEF DMA, VDP2, Events, Outcome
  <2> QED BY <1>2, <2>1, SetMoves DEF Moves
<1> QED BY <1>1, <1>2 DEF ByInterrupt

LEMMA VDP1UpdateMoves ==
  ASSUME NEW o \in Outcome, NEW ts \in Int, NEW p \in VDP1Update(o, ts)
  PROVE  Moves(o, p, ts) /\ p \in Outcome /\ p.ret > ts
<1> DEFINE O == {o} \cup IF o.dev.drawing
                         THEN ByInterrupt([o EXCEPT !.dev.drawing = FALSE]) ELSE {}
<1>1. PICK q \in O : p \in Soon(q, ts)
  BY DEF VDP1Update, Bind
<1>2. Moves(o, q, ts) /\ q \in Outcome
  <2>1. CASE q = o
    BY <2>1, MovesStill
  <2>2. CASE q \in ByInterrupt([o EXCEPT !.dev.drawing = FALSE])
    <3> DEFINE n == [o EXCEPT !.dev.drawing = FALSE]
    <3>1. Moves(o, n, ts)
      BY DrawingMoves
    <3>2. n \in Outcome
      BY <3>1 DEF Moves
    <3> HIDE DEF n
    <3>3. Moves(n, q, ts) /\ q \in Outcome
      BY <3>2, <2>2, ByInterruptMoves DEF n
    <3> QED BY <3>1, <3>3, MovesTransitive
  <2> QED BY <1>1, <2>1, <2>2
<1>3. Moves(q, p, ts) /\ p \in Outcome /\ p.ret > ts
  BY <1>1, <1>2, SoonMoves
<1> QED BY <1>2, <1>3, MovesTransitive

\* IncVCounter sets the SMPC's time and the poll's, and ends the frame when the
\* beam enters the last line.
LEMMA IncVCounterMoves ==
  ASSUME NEW r \in RingT, NEW phases, NEW ts \in Int
  PROVE  /\ IncVCounter(r, phases, ts).time[VDP2] = r.time[VDP2]
         /\ Later(r, IncVCounter(r, phases, ts), ts)
         /\ Last \in phases => IncVCounter(r, phases, ts).running = 0
<1> DEFINE VBlank(q) == SetEventNT(q, SMPC, ts + 1)
           mid    == SetEventNT(r, MIDSYNC, ts + 1)
           bottom == IF Bottom \in phases THEN VBlank(mid) ELSE r
           last   == IF Last \in phases THEN RequestMLExit(bottom) ELSE bottom
           top    == IF 0 \in phases THEN VBlank(last) ELSE last
           Safe(q) == /\ q \in RingT /\ q.time[VDP2] = r.time[VDP2]
                      /\ \A e \in Events : q.time[e] = r.time[e] \/ q.time[e] > ts
<1>1. SMPC \in Events /\ MIDSYNC \in Events /\ VDP2 \in Events /\ SMPC # VDP2 /\ MIDSYNC # VDP2 /\ ts + 1 \in Int
  BY DEF SMPC, MIDSYNC, VDP2, Events
<1>2. ASSUME NEW q, Safe(q), NEW e \in Events, e # VDP2
      PROVE  Safe(SetEventNT(q, e, ts + 1)) /\ SetEventNT(q, e, ts + 1).running = q.running
  <2> DEFINE s == SetEventNT(q, e, ts + 1)
  <2>1. s \in RingT /\ s.running = q.running /\ s.time = [q.time EXCEPT ![e] = ts + 1]
    BY <1>1, <1>2, SetEventTimes
  <2> HIDE DEF s
  <2>2. q.time \in [Events -> Int]
    BY <1>2 DEF RingT
  <2>3. \A d \in Events : s.time[d] = IF d = e THEN ts + 1 ELSE q.time[d]
    BY <2>1, <2>2
  <2>4. Safe(s) /\ s.running = q.running
    BY <1>1, <1>2, <2>1, <2>3
  <2> QED BY <2>4 DEF s
<1>3. ASSUME NEW q, Safe(q) PROVE Safe(RequestMLExit(q)) /\ RequestMLExit(q).running = 0
  <2>1. RequestMLExit(q).time = q.time /\ RequestMLExit(q).running = 0
    BY DEF RequestMLExit
  <2>2. RequestMLExit(q) \in RingT
    BY <1>3, ExitsKeep
  <2> QED BY <1>3, <2>1, <2>2
<1>4. Safe(r)
  OBVIOUS
<1>5. Safe(bottom)
  <2>1. Safe(mid)
    BY <1>1, <1>2, <1>4
  <2>2. Safe(VBlank(mid))
    BY <1>1, <1>2, <2>1
  <2> QED BY <2>2, <1>4
<1>6. Safe(last) /\ (Last \in phases => last.running = 0)
  <2> HIDE DEF bottom, Safe
  <2>1. Safe(RequestMLExit(bottom)) /\ RequestMLExit(bottom).running = 0
    BY <1>3, <1>5
  <2> QED BY <2>1, <1>5
<1>7. Safe(top) /\ (Last \in phases => top.running = 0)
  <2> HIDE DEF last, Safe
  <2>1. Safe(VBlank(last)) /\ VBlank(last).running = last.running
    BY <1>1, <1>2, <1>6
  <2> QED BY <2>1, <1>6
<1>8. IncVCounter(r, phases, ts) = top
  BY DEF IncVCounter
<1> HIDE DEF top
<1> QED BY <1>7, <1>8 DEF Later

\* The beam moves: the end of the frame stays where it is, or the loop ends.
LEMMA AdvanceMoves ==
  ASSUME NEW o \in Outcome, NEW ts \in Int, NEW clocks \in Nat,
         InFrame(o) => o.dev.lastts + clocks <= o.mem
  PROVE  /\ Moves(o, Advance(o, ts, clocks), ts)
         /\ Advance(o, ts, clocks).dev.lastts = o.dev.lastts + clocks
<1> DEFINE b == o.dev.beam
           R == IncVCounter(o.ring, Entered(b, clocks), ts)
           B == (b + clocks) % FrameCycles
           L == o.dev.lastts + clocks
           d == [o.dev EXCEPT !.beam = B, !.lastts = L]
           p == Advance(o, ts, clocks)
<1>1. o.dev \in DevT /\ o.ring \in RingT /\ b \in Int /\ o.dev.lastts \in Int
  BY DEF Outcome, DevT
<1>2. p \in Outcome /\ p.mem = o.mem
  <2>1. Keeps(o, p)
    BY AdvanceKeeps
  <2> HIDE DEF p
  <2> QED BY <2>1 DEF Keeps
<1>3. p = [o EXCEPT !.ring = R, !.dev = d]
  <2> HIDE DEF R, B, L
  <2>1. p = [o EXCEPT !.ring = R, !.dev.beam = B, !.dev.lastts = L]
    BY DEF Advance, R, B, L
  <2>2. [o EXCEPT !.ring = R, !.dev.beam = B, !.dev.lastts = L] = [o EXCEPT !.ring = R, !.dev = d]
    BY DEF Outcome
  <2> QED BY <2>1, <2>2
<1>4. p.ring = R /\ p.dev = d
  <2> HIDE DEF p, R, d
  <2> QED BY <1>3 DEF Outcome
<1>5. d.beam = B /\ d.lastts = L
  <2> HIDE DEF B, L
  <2> QED BY <1>1 DEF DevT
<1>6. /\ R.time[VDP2] = o.ring.time[VDP2] /\ Later(o.ring, R, ts)
      /\ Last \in Entered(b, clocks) => R.running = 0
      /\ o.ring.running = 0 => R.running = 0
  BY <1>1, IncVCounterMoves, IncVCounterKeeps
<1>7. ASSUME InFrame(o) PROVE InFrame(p)
  <2>1. /\ b \in 0..FrameCycles - 1 /\ 0 <= o.dev.lastts /\ o.ring.time[VDP2] <= o.dev.lastts + ToEnd(b)
        /\ o.ring.running # 0 => o.dev.lastts + ToEnd(b) <= FrameCycles
        /\ o.ring.time[VDP2] \in Int
    BY <1>1, <1>7 DEF InFrame, FrameEnd, RingT, VDP2, Events
  <2>2. B \in 0..FrameCycles - 1
    BY <2>1, FrameFacts
  <2>3. ToEnd(b) \in 1..FrameCycles /\ ToEnd(B) \in 1..FrameCycles
    BY <2>1, <2>2, ToEndRange
  <2>4. o.ring.time[VDP2] <= L + ToEnd(B) /\ (R.running # 0 => L + ToEnd(B) <= FrameCycles)
    <3>1. CASE clocks < ToEnd(b)
      <4>1. ToEnd(B) = ToEnd(b) - clocks
        BY <2>1, <3>1, BeamMoves
      <4>2. L + ToEnd(B) = o.dev.lastts + ToEnd(b)
        BY <1>1, <2>3, <4>1
      <4> HIDE DEF L, B, R
      <4> QED BY <1>6, <2>1, <4>2
    <3>2. CASE ~(clocks < ToEnd(b))
      <4>1. R.running = 0
        BY <1>6, <2>1, <2>3, <3>2, BeamEnters
      <4>2. o.dev.lastts + ToEnd(b) <= L + ToEnd(B)
        BY <1>1, <2>3, <3>2
      <4> HIDE DEF B, R
      <4> QED BY <1>1, <2>1, <2>3, <4>1, <4>2
    <3> QED BY <3>1, <3>2
  <2>5. 0 <= L /\ L <= o.mem
    BY <1>1, <1>7, <2>1
  <2> HIDE DEF p, R, B, L, d
  <2> QED BY <1>2, <1>4, <1>5, <1>6, <2>2, <2>4, <2>5 DEF InFrame, FrameEnd
<1>8. o.dev.lastts <= L
  BY <1>1
<1> HIDE DEF p, R, B, d, L
<1>9. p.dev.lastts = L
  BY <1>4, <1>5
<1>10. Moves(o, p, ts)
  BY <1>2, <1>4, <1>6, <1>7, <1>8, <1>9 DEF Moves
<1> QED BY <1>9, <1>10 DEF p, L

LEMMA SwapBuffersMoves ==
  ASSUME NEW o \in Outcome, NEW ts \in Int, NEW p \in SwapBuffers(o, ts)
  PROVE  Moves(o, p, ts) /\ p \in Outcome
<1> DEFINE n == [o EXCEPT !.dev.drawing = TRUE]
           off == [o EXCEPT !.dev.drawing = FALSE]
<1>1. \/ p = o
      \/ p = off
      \/ p \in Set(VDP1, VDP1Update(n, ts))
  BY DEF SwapBuffers
<1>2. ASSUME p \in Set(VDP1, VDP1Update(n, ts)) PROVE Moves(o, p, ts)
  <2>1. Moves(o, n, ts)
    BY DrawingMoves
  <2>2. n \in Outcome
    BY <2>1 DEF Moves
  <2>3. VDP1 \in Events /\ VDP1 # VDP2
    BY DEF VDP1, VDP2, Events
  <2> HIDE DEF n
  <2>4. \A q \in VDP1Update(n, ts) : Moves(n, q, ts) /\ q.ret > ts
    BY <2>2, VDP1UpdateMoves
  <2>5. Moves(n, p, ts)
    BY <1>2, <2>2, <2>3, <2>4, SetAllMoves
  <2> QED BY <2>1, <2>5, MovesTransitive
<1>3. Moves(o, o, ts) /\ Moves(o, off, ts)
  BY MovesStill, DrawingMoves
<1> HIDE DEF off
<1>4. Moves(o, p, ts)
  BY <1>1, <1>2, <1>3
<1> QED BY <1>4 DEF Moves

\* VDP2_Update brings the beam to the time and asks for its next change.
LEMMA VDP2UpdateMoves ==
  ASSUME NEW o \in Outcome, NEW ts \in Int, ts <= o.mem, NEW p \in VDP2Update(o, ts)
  PROVE  /\ Moves(o, p, ts) /\ p \in Outcome
         /\ InFrame(o) => /\ ts <= p.dev.lastts
                          /\ p.ret > ts /\ p.ret <= FrameEnd(p.dev)
<1> DEFINE clocks == IF ts < o.dev.lastts THEN 0 ELSE ts - o.dev.lastts
           moved == Advance(o, ts, clocks)
           swapped == IF 0 \in Entered(o.dev.beam, clocks)
                      THEN SwapBuffers(moved, ts) ELSE {moved}
<1>1. o.dev.lastts \in Int /\ o.mem \in Int
  BY DEF Outcome, DevT
<1>2. clocks \in Nat /\ o.dev.lastts + clocks >= ts
  BY <1>1
<1>3. PICK q \in Bind(swapped, ByInterrupt) :
        p \in {[q EXCEPT !.ret = q.dev.lastts + n] : n \in UntilNext(q.dev.beam)}
  BY DEF VDP2Update, Bind
<1>4. PICK s \in swapped : q \in ByInterrupt(s)
  BY <1>3 DEF Bind
<1>5. PICK n \in UntilNext(q.dev.beam) : p = [q EXCEPT !.ret = q.dev.lastts + n]
  BY <1>3
<1>6. p = [q EXCEPT !.ret = q.dev.lastts + n] /\ n \in UntilNext(q.dev.beam)
  BY <1>5
<1>7. s = moved \/ s \in SwapBuffers(moved, ts)
  BY <1>4
<1>8. InFrame(o) => o.dev.lastts + clocks <= o.mem
  BY <1>1 DEF InFrame
<1>9. /\ Moves(o, p, ts) /\ p \in Outcome
      /\ InFrame(o) => ts <= p.dev.lastts /\ p.ret > ts /\ p.ret <= FrameEnd(p.dev)
  <2> HIDE DEF clocks
  <2>1. Moves(o, moved, ts) /\ moved \in Outcome /\ moved.dev.lastts = o.dev.lastts + clocks
    BY <1>2, <1>8, AdvanceMoves DEF Moves
  <2> HIDE DEF moved
  <2>2. Moves(moved, s, ts) /\ s \in Outcome
    BY <1>7, <2>1, MovesStill, SwapBuffersMoves
  <2>3. Moves(s, q, ts) /\ q \in Outcome
    BY <1>4, <2>2, ByInterruptMoves
  <2>4. Moves(o, q, ts)
    BY <2>1, <2>2, <2>3, MovesTransitive
  <2>5. q.dev.lastts \in Int /\ ts <= q.dev.lastts
    <3>1. moved.dev.lastts <= s.dev.lastts /\ s.dev.lastts <= q.dev.lastts
      BY <2>2, <2>3 DEF Moves
    <3>2. moved.dev.lastts \in Int /\ s.dev.lastts \in Int /\ q.dev.lastts \in Int
      BY <2>1, <2>2, <2>3 DEF Outcome, DevT
    <3> QED BY <1>2, <2>1, <3>1, <3>2
  <2>6. q.dev.lastts + n \in Int
    <3>1. n \in Int
      BY <1>6 DEF UntilNext
    <3> QED BY <2>5, <3>1
  <2>7. Moves(q, p, ts) /\ p.ret = q.dev.lastts + n /\ p.dev = q.dev
    BY <1>6, <2>3, <2>6, RetMoves DEF Outcome
  <2>8. ASSUME InFrame(o) PROVE p.ret > ts /\ p.ret <= FrameEnd(p.dev)
    <3>1. q.dev.beam \in 0..FrameCycles - 1
      BY <2>4, <2>8 DEF Moves, InFrame
    <3>2. n \in Nat \ {0} /\ n <= ToEnd(q.dev.beam)
      BY <1>6, <3>1, NextChange
    <3>3. ToEnd(q.dev.beam) \in Int
      BY <3>1, ToEndRange
    <3> QED BY <2>5, <2>7, <3>2, <3>3 DEF FrameEnd
  <2>9. Moves(o, p, ts)
    BY <2>4, <2>7, MovesTransitive
  <2> QED BY <2>5, <2>7, <2>8, <2>9 DEF Moves
<1> QED BY <1>9

LEMMA SMPCUpdateMoves ==
  ASSUME NEW o \in Outcome, NEW ts \in Int, NEW p \in SMPCUpdate(o, ts)
  PROVE  Moves(o, p, ts) /\ p \in Outcome /\ p.ret > ts
<1> DEFINE poll == [o EXCEPT !.ring = SetEventNT(@, MIDSYNC, ts + 1)]
           Switch(v) == [o EXCEPT !.dev.pending = v, !.ring = RequestEHLExit(@)]
<1>1. PICK q : /\ q \in {o, poll} \/ q = Switch(IF o.dev.on THEN -1 ELSE 1)
               /\ p \in Soon(q, ts)
  BY DEF SMPCUpdate, Bind
<1>2. Moves(o, q, ts) /\ q \in Outcome
  <2>1. Moves(o, o, ts)
    BY MovesStill
  <2>2. Moves(o, poll, ts)
    <3>1. MIDSYNC \in Events /\ MIDSYNC # VDP2 /\ ts + 1 \in Int /\ ts + 1 > ts
      BY DEF MIDSYNC, VDP2, Events
    <3> QED BY <3>1, SetMoves
  <2>3. ASSUME NEW v \in {-1, 1} PROVE Moves(o, Switch(v), ts)
    <3> DEFINE d == [o.dev EXCEPT !.pending = v]
               R == RequestEHLExit(o.ring)
               s == Switch(v)
    <3>1. o.dev \in DevT /\ o.ring \in RingT
      BY DEF Outcome
    <3>2. s \in Outcome
      <4>1. Keeps(o, s)
        BY SwitchStep
      <4> HIDE DEF s
      <4> QED BY <4>1 DEF Keeps
    <3>3. s = [o EXCEPT !.dev = d, !.ring = R]
      BY DEF Outcome
    <3>4. s.mem = o.mem /\ s.dev = d /\ s.ring = R
      <4> HIDE DEF s, d, R
      <4> QED BY <3>3 DEF Outcome
    <3>5. d.beam = o.dev.beam /\ d.lastts = o.dev.lastts
      BY <3>1 DEF DevT
    <3>6. R.time = o.ring.time /\ (o.ring.running = 0 => R.running = 0)
      BY DEF RequestEHLExit
    <3> HIDE DEF s, d, R
    <3>7. Moves(o, s, ts)
      BY <3>2, <3>4, <3>5, <3>6, MovesStill
    <3> QED BY <3>7 DEF s
  <2>4. Moves(o, Switch(IF o.dev.on THEN -1 ELSE 1), ts)
    <3> HIDE DEF Switch
    <3> QED BY <2>3
  <2> HIDE DEF poll, Switch
  <2>5. Moves(o, q, ts)
    BY <1>1, <2>1, <2>2, <2>4
  <2> QED BY <2>5 DEF Moves
<1>3. Moves(q, p, ts) /\ p \in Outcome /\ p.ret > ts
  BY <1>1, <1>2, SoonMoves
<1> QED BY <1>2, <1>3, MovesTransitive

\* VDP2's event set to what its update answers, for any of the update's outcomes
LEMMA SetVDP2Moves ==
  ASSUME NEW o \in Outcome, InFrame(o), NEW p \in Set(VDP2, VDP2Update(o, o.mem))
  PROVE  Moves(o, p, o.mem) /\ p \in Outcome /\ p.mem = o.mem /\ InFrame(p)
<1>1. o.mem \in Int /\ VDP2 \in Events
  BY DEF Outcome, VDP2, Events
<1>2. \A q \in VDP2Update(o, o.mem) : Moves(o, q, o.mem) /\ q.ret > o.mem /\ q.ret <= FrameEnd(q.dev)
  BY <1>1, VDP2UpdateMoves
<1>3. Moves(o, p, o.mem)
  BY <1>1, <1>2, SetAllMoves
<1> QED BY <1>3 DEF Moves

LEMMA WriteVDP2Moves ==
  ASSUME NEW o \in Outcome, InFrame(o), NEW p \in WriteVDP2(o)
  PROVE  Moves(o, p, o.mem) /\ p \in Outcome
<1> DEFINE O == Bind(VDP2Update(o, o.mem), LAMBDA q : VDP2Update(q, q.mem))
<1>1. o.mem \in Int /\ VDP2 \in Events
  BY DEF Outcome, VDP2, Events
<1>2. ASSUME NEW q \in O
      PROVE  Moves(o, q, o.mem) /\ q.ret > o.mem /\ q.ret <= FrameEnd(q.dev)
  <2>1. PICK s \in VDP2Update(o, o.mem) : q \in VDP2Update(s, s.mem)
    BY <1>2 DEF Bind
  <2>2. Moves(o, s, o.mem) /\ s \in Outcome
    BY <1>1, <2>1, VDP2UpdateMoves
  <2>3. InFrame(s) /\ s.mem = o.mem
    BY <2>2 DEF Moves
  <2>4. Moves(s, q, o.mem) /\ q.ret > o.mem /\ q.ret <= FrameEnd(q.dev)
    BY <1>1, <2>1, <2>2, <2>3, VDP2UpdateMoves
  <2> QED BY <2>2, <2>4, MovesTransitive
<1>3. p \in Set(VDP2, O)
  BY DEF WriteVDP2
<1> HIDE DEF O
<1>4. Moves(o, p, o.mem)
  BY <1>1, <1>2, <1>3, SetAllMoves
<1> QED BY <1>4 DEF Moves

LEMMA DrawingRetMoves ==
  ASSUME NEW o \in Outcome, NEW b \in BOOLEAN, NEW x \in Int, NEW t
  PROVE  /\ Moves(o, [o EXCEPT !.dev.drawing = b, !.ret = x], t)
         /\ [o EXCEPT !.dev.drawing = b, !.ret = x].ret = x
<1> DEFINE q == [o EXCEPT !.dev.drawing = b]
           p == [o EXCEPT !.dev.drawing = b, !.ret = x]
<1>1. Moves(o, q, t)
  BY DrawingMoves
<1>2. q \in Outcome
  BY <1>1 DEF Moves
<1>3. p = [q EXCEPT !.ret = x]
  BY DEF Outcome
<1> HIDE DEF q, p
<1>4. Moves(q, p, t) /\ p.ret = x
  BY <1>2, <1>3, RetMoves DEF Outcome
<1>5. Moves(o, p, t)
  BY <1>1, <1>4, MovesTransitive
<1> QED BY <1>4, <1>5 DEF p

LEMMA VDP1WrittenMoves ==
  ASSUME NEW o \in Outcome, o.ret > o.mem, NEW p \in VDP1Written(o)
  PROVE  Moves(o, p, o.mem) /\ p.ret > o.mem
<1>1. o.mem \in Int /\ o.mem + 1 \in Int /\ o.mem + 1 > o.mem /\ o.mem + Gran \in Int /\ o.mem + Gran > o.mem
  BY EventLoopConstants DEF Outcome
<1> DEFINE on  == [o EXCEPT !.dev.drawing = TRUE, !.ret = o.mem + 1]
           off == [o EXCEPT !.dev.drawing = FALSE, !.ret = o.mem + Gran]
<1>2. Moves(o, o, o.mem)
  BY MovesStill
<1>3. Moves(o, on, o.mem) /\ on.ret = o.mem + 1
  BY <1>1, DrawingRetMoves
<1>4. Moves(o, off, o.mem) /\ off.ret = o.mem + Gran
  BY <1>1, DrawingRetMoves
<1>5. p = o \/ p = on \/ p = off
  BY DEF VDP1Written
<1> HIDE DEF on, off
<1> QED BY <1>1, <1>2, <1>3, <1>4, <1>5

LEMMA WriteVDP1Moves ==
  ASSUME NEW o \in Outcome, InFrame(o), NEW p \in WriteVDP1(o)
  PROVE  Moves(o, p, o.mem) /\ p \in Outcome
<1> DEFINE A == Bind(Set(VDP2, VDP2Update(o, o.mem)), LAMBDA q : VDP1Update(q, q.mem))
           O == Bind(A, VDP1Written)
<1>1. o.mem \in Int
  BY DEF Outcome
<1>2. ASSUME NEW q \in A PROVE Moves(o, q, o.mem) /\ q \in Outcome /\ q.mem = o.mem /\ q.ret > o.mem
  <2>1. PICK s \in Set(VDP2, VDP2Update(o, o.mem)) : q \in VDP1Update(s, s.mem)
    BY <1>2 DEF Bind
  <2>2. Moves(o, s, o.mem) /\ s \in Outcome /\ s.mem = o.mem
    BY <2>1, SetVDP2Moves
  <2>3. Moves(s, q, o.mem) /\ q \in Outcome /\ q.ret > o.mem
    BY <1>1, <2>1, <2>2, VDP1UpdateMoves
  <2>4. Moves(o, q, o.mem)
    BY <2>2, <2>3, MovesTransitive
  <2> QED BY <2>3, <2>4 DEF Moves
<1>3. ASSUME NEW q \in O PROVE Moves(o, q, o.mem) /\ q.ret > o.mem
  <2>1. PICK s \in A : q \in VDP1Written(s)
    BY <1>3 DEF Bind
  <2>2. Moves(o, s, o.mem) /\ s \in Outcome /\ s.mem = o.mem /\ s.ret > o.mem
    BY <2>1, <1>2
  <2>3. Moves(s, q, o.mem) /\ q.ret > o.mem
    BY <2>1, <2>2, VDP1WrittenMoves
  <2> QED BY <2>2, <2>3, MovesTransitive
<1>4. p \in Set(VDP1, O) /\ VDP1 \in Events /\ VDP1 # VDP2
  BY DEF WriteVDP1, VDP1, VDP2, Events
<1> HIDE DEF O
<1>5. Moves(o, p, o.mem)
  BY <1>1, <1>3, <1>4, SetAllMoves
<1> QED BY <1>5 DEF Moves

LEMMA WriteSMPCMoves ==
  ASSUME NEW o \in Outcome, InFrame(o), NEW p \in WriteSMPC(o)
  PROVE  Moves(o, p, o.mem) /\ p \in Outcome
<1> DEFINE A == Bind(Set(VDP2, VDP2Update(o, o.mem)), LAMBDA q : SMPCUpdate(q, q.mem))
           O == Bind(A, SMPCWritten)
<1>1. o.mem \in Int
  BY DEF Outcome
<1>2. ASSUME NEW q \in A PROVE Moves(o, q, o.mem) /\ q \in Outcome /\ q.mem = o.mem /\ q.ret > o.mem
  <2>1. PICK s \in Set(VDP2, VDP2Update(o, o.mem)) : q \in SMPCUpdate(s, s.mem)
    BY <1>2 DEF Bind
  <2>2. Moves(o, s, o.mem) /\ s \in Outcome /\ s.mem = o.mem
    BY <2>1, SetVDP2Moves
  <2>3. Moves(s, q, o.mem) /\ q \in Outcome /\ q.ret > o.mem
    BY <1>1, <2>1, <2>2, SMPCUpdateMoves
  <2>4. Moves(o, q, o.mem)
    BY <2>2, <2>3, MovesTransitive
  <2> QED BY <2>3, <2>4 DEF Moves
<1>3. ASSUME NEW q \in O PROVE Moves(o, q, o.mem) /\ q.ret > o.mem
  <2>1. PICK s \in A : q \in SMPCWritten(s)
    BY <1>3 DEF Bind
  <2>2. Moves(o, s, o.mem) /\ s \in Outcome /\ s.mem = o.mem /\ s.ret > o.mem
    BY <2>1, <1>2
  <2>3. s.mem + 1 \in Int /\ s.mem + 1 > o.mem
    BY <1>1, <2>2
  <2>4. CASE q = s
    BY <2>2, <2>4
  <2>5. CASE q = [s EXCEPT !.ret = s.mem + 1]
    <3>1. Moves(s, q, o.mem) /\ q.ret = s.mem + 1
      BY <2>2, <2>3, <2>5, RetMoves DEF Outcome
    <3> QED BY <2>2, <2>3, <3>1, MovesTransitive
  <2>6. q = s \/ q = [s EXCEPT !.ret = s.mem + 1]
    BY <2>1 DEF SMPCWritten
  <2> QED BY <2>4, <2>5, <2>6
<1>4. p \in Set(SMPC, O) /\ SMPC \in Events /\ SMPC # VDP2
  BY DEF WriteSMPC, SMPC, VDP2, Events
<1> HIDE DEF O
<1>5. Moves(o, p, o.mem)
  BY <1>1, <1>3, <1>4, SetAllMoves
<1> QED BY <1>5 DEF Moves

LEMMA WriteDMAStartMoves ==
  ASSUME NEW o \in Outcome, NEW p \in WriteDMAStart(o)
  PROVE  Moves(o, p, o.mem) /\ p \in Outcome
<1> DEFINE O == Bind(ByInterrupt(o), LAMBDA q : Soon(q, q.mem))
<1>1. o.mem \in Int
  BY DEF Outcome
<1>2. ASSUME NEW q \in O PROVE Moves(o, q, o.mem) /\ q.ret > o.mem
  <2>1. PICK s \in ByInterrupt(o) : q \in Soon(s, s.mem)
    BY <1>2 DEF Bind
  <2>2. Moves(o, s, o.mem) /\ s \in Outcome
    BY <1>1, <2>1, ByInterruptMoves
  <2>3. s.mem = o.mem
    BY <2>2 DEF Moves
  <2>4. Moves(s, q, o.mem) /\ q.ret > o.mem
    BY <1>1, <2>1, <2>2, <2>3, SoonMoves
  <2> QED BY <2>2, <2>4, MovesTransitive
<1>3. p \in Set(DMA, O) /\ DMA \in Events /\ DMA # VDP2
  BY DEF WriteDMAStart, DMA, VDP2, Events
<1> HIDE DEF O
<1>4. Moves(o, p, o.mem)
  BY <1>1, <1>2, <1>3, SetAllMoves
<1> QED BY <1>4 DEF Moves

LEMMA DMAUpdateMoves ==
  ASSUME NEW o \in Outcome, InFrame(o), NEW ts \in Int, ts <= o.mem, NEW p \in DMAUpdate(o, ts)
  PROVE  Moves(o, p, ts) /\ (~fast /\ ts = o.mem => p.ret > ts)
<1>1. o.mem \in Int
  BY DEF Outcome
<1>2. CASE ts < o.mem
  <2>1. p = [o EXCEPT !.ret = o.mem] /\ o.mem \in Int
    BY <1>2 DEF DMAUpdate, Outcome
  <2> QED BY <1>1, <1>2, <2>1, RetMoves
<1>3. CASE ~(ts < o.mem)
  <2>1. PICK q \in {o} \cup WriteVDP2(o) \cup WriteVDP1(o) :
          p \in Soon(q, ts) \cup IF fast THEN {[q EXCEPT !.ret = Disabled]} ELSE {}
    BY <1>3 DEF DMAUpdate, Bind
  <2>2. ts = o.mem
    BY <1>1, <1>3
  <2>3. Moves(o, q, ts) /\ q \in Outcome
    <3>1. Moves(o, o, ts)
      BY MovesStill
    <3> QED BY <2>1, <2>2, <3>1, WriteVDP2Moves, WriteVDP1Moves
  <2>4. CASE p \in Soon(q, ts)
    <3>1. Moves(q, p, ts) /\ p.ret > ts
      BY <2>3, <2>4, SoonMoves
    <3> QED BY <2>3, <3>1, MovesTransitive
  <2>5. CASE fast /\ p = [q EXCEPT !.ret = Disabled]
    <3>1. Disabled \in Int
      BY DEF Disabled
    <3>2. Moves(q, p, ts)
      BY <2>3, <2>5, <3>1, RetMoves
    <3> QED BY <2>3, <2>5, <3>2, MovesTransitive
  <2> QED BY <2>1, <2>4, <2>5
<1> QED BY <1>2, <1>3

\* Any event handler, called at a time that is not after the CPUs'
LEMMA HandlerMoves ==
  ASSUME NEW e \in Events, NEW o \in Outcome, InFrame(o), NEW ts \in Int, ts <= o.mem,
         NEW p \in Handler(e, o, ts)
  PROVE  /\ Moves(o, p, ts)
         /\ e = VDP2 => ts <= p.dev.lastts /\ p.ret <= FrameEnd(p.dev)
         /\ p.ret > ts \/ p.ret = Disabled \/ (e = DMA /\ (fast \/ ts < o.mem))
<1>1. \/ e = DMA /\ p \in DMAUpdate(o, ts)
      \/ e = SMPC /\ p \in SMPCUpdate(o, ts)
      \/ e = VDP1 /\ p \in VDP1Update(o, ts)
      \/ e = VDP2 /\ p \in VDP2Update(o, ts)
      \/ e = MIDSYNC /\ p = [o EXCEPT !.ret = Disabled]
  BY DEF Handler, Events, DMA, SMPC, VDP1, VDP2, MIDSYNC
<1>2. DMA # VDP2 /\ SMPC # VDP2 /\ VDP1 # VDP2 /\ MIDSYNC # VDP2 /\ o.mem \in Int
  BY DEF DMA, SMPC, VDP1, VDP2, MIDSYNC, Outcome
<1>3. CASE e = DMA /\ p \in DMAUpdate(o, ts)
  <2>1. Moves(o, p, ts) /\ (~fast /\ ts = o.mem => p.ret > ts)
    BY <1>3, DMAUpdateMoves
  <2> QED BY <1>2, <1>3, <2>1
<1>4. CASE e = SMPC /\ p \in SMPCUpdate(o, ts)
  BY <1>2, <1>4, SMPCUpdateMoves
<1>5. CASE e = VDP1 /\ p \in VDP1Update(o, ts)
  BY <1>2, <1>5, VDP1UpdateMoves
<1>6. CASE e = VDP2 /\ p \in VDP2Update(o, ts)
  BY <1>2, <1>6, VDP2UpdateMoves
<1>7. CASE e = MIDSYNC /\ p = [o EXCEPT !.ret = Disabled]
  <2>1. Disabled \in Int
    BY DEF Disabled
  <2>2. Moves(o, p, ts)
    BY <1>7, <2>1, RetMoves
  <2>3. p.ret = Disabled
    BY <1>7 DEF Outcome
  <2> QED BY <1>2, <1>7, <2>2, <2>3
<1> QED BY <1>1, <1>3, <1>4, <1>5, <1>6, <1>7

-----------------------------------------------------------------------------
(* The second invariant.  Limit is how far the CPUs may get: to the end of  *)
(* the frame while the loop goes on, and an instruction further when it is  *)
(* to end, for the one that runs after all events were updated.             *)
Limit == FrameCycles + (IF ring.running = 0 THEN MaxLate ELSE 0)

Used == 2 * (MaxAccess - accesses)

InInstruction == pc \in {"exec", "write"} \/ (pc = "dispatch" /\ after = "write")

CountInv ==
  /\ at \in 1..6 /\ accesses \in 0..MaxAccess
  /\ ~InInstruction => accesses = MaxAccess

LengthInv ==
  /\ pc = "idle" => mem = 0
  /\ pc \in {"idle", "loop"} => FrameEnd(dev) <= FrameCycles /\ mem <= FrameCycles + MaxLate
  /\ pc = "force" /\ after = "first" => mem <= FrameCycles + MaxLate
  /\ pc \in {"first", "exec"} => mem <= Limit + Used
  /\ pc = "instr" => mem <= FrameCycles
  /\ pc = "write" \/ (pc = "dispatch" /\ after = "write") => mem < Limit + Used
  /\ pc = "dispatch" /\ after = "instr" => mem <= FrameCycles + MaxLate
  /\ pc = "rebase" \/ (pc = "force" /\ after = "rebase") =>
       ring.running = 0 /\ mem <= FrameCycles + 2 * MaxLate

\* In a round of all events, those before `at` are in the future.
Ahead(e) == ring.time[e] > mem \/ (fast /\ e = DMA)

PassInv ==
  /\ pc = "force" => \A e \in Events : e < at => Ahead(e)
  /\ pc = "force" /\ at > VDP2 => dev.lastts = mem
  /\ pc = "rebase" => dev.lastts = mem /\ \A e \in Events : Ahead(e)

FrameInv == InFrame(Here(mem)) /\ CountInv /\ LengthInv /\ PassInv

\* A frame is far shorter than the time that stands for never.
FrameFits == 2 * FrameCycles + 2 * MaxLate < Disabled

LEMMA LateFacts == MaxLate \in Nat /\ MaxAccess \in Nat /\ MaxLate = 2 * MaxAccess + 1
BY EventLoopConstants DEF MaxLate

\* What is known of the beam and the list between two steps
LEMMA FrameState ==
  ASSUME IInv, FrameInv
  PROVE  /\ mem \in Nat /\ dev.lastts \in 0..mem /\ dev.beam \in 0..FrameCycles - 1
         /\ ring.time[VDP2] \in Int /\ ring.time[VDP2] <= FrameEnd(dev)
         /\ FrameEnd(dev) \in Int /\ FrameEnd(dev) <= mem + FrameCycles
         /\ ring.running # 0 => FrameEnd(dev) <= FrameCycles
<1>1. /\ mem \in Nat /\ ring.time[VDP2] \in Int /\ dev.lastts \in Int
  BY DEF IInv, Typed, RingT, DevT, VDP2, Events
<1>2. /\ dev.beam \in 0..FrameCycles - 1 /\ 0 <= dev.lastts /\ dev.lastts <= mem
      /\ ring.time[VDP2] <= FrameEnd(dev)
      /\ ring.running # 0 => FrameEnd(dev) <= FrameCycles
  BY DEF FrameInv, InFrame, Here
<1>3. ToEnd(dev.beam) \in 1..FrameCycles
  BY <1>2, ToEndRange
<1>4. FrameEnd(dev) \in Int /\ FrameEnd(dev) <= mem + FrameCycles
  BY <1>1, <1>2, <1>3, FrameFacts DEF FrameEnd
<1> QED BY <1>1, <1>2, <1>4

LEMMA InitFrame == Init => FrameInv
<1> SUFFICES ASSUME Init PROVE FrameInv
  OBVIOUS
<1>1. /\ dev.beam = 0 /\ dev.lastts = 0 /\ mem = 0 /\ ring.time[VDP2] = 0 /\ ring.running = 0
      /\ pc = "idle" /\ at = 1 /\ accesses = MaxAccess
  BY DEF Init, VDP2, MIDSYNC, Events
<1>2. 0 \in 0..FrameCycles - 1
  BY FrameFacts
<1>3. ToEnd(0) \in 1..FrameCycles
  BY <1>2, ToEndRange
<1>4. FrameEnd(dev) = ToEnd(0)
  BY <1>1, <1>3 DEF FrameEnd
<1>5. InFrame(Here(mem))
  BY <1>1, <1>2, <1>3, <1>4 DEF InFrame, Here
<1>6. CountInv
  BY <1>1, LateFacts DEF CountInv, InInstruction
<1>7. LengthInv
  BY <1>1, <1>3, <1>4, FrameFacts, LateFacts DEF LengthInv
<1> QED BY <1>1, <1>5, <1>6, <1>7 DEF FrameInv, PassInv

\* A handler called at a time that is not after the CPUs'
LEMMA UpdateMoves ==
  ASSUME IInv, FrameInv, NEW e \in Events, NEW ts \in Int, ts <= mem, Update(e, ts), mem' = mem
  PROVE  /\ InFrame(Here(mem))' /\ dev.lastts <= dev'.lastts
         /\ \A d \in Events : d # e => ring'.time[d] = ring.time[d] \/ ring'.time[d] > ts \/ (fast /\ d = DMA)
         /\ ring'.time[e] > ts \/ ring'.time[e] = Disabled \/ (e = DMA /\ (fast \/ ts < mem))
         /\ e = VDP2 => ts <= dev'.lastts
         /\ ring.running = 0 => ring'.running = 0
<1> DEFINE h == Here(mem)
<1>1. PICK o \in Handler(e, h, ts) :
        ring' = [o.ring EXCEPT !.time[e] = o.ret] /\ dev' = o.dev
  BY DEF Update
<1>2. h \in Outcome /\ InFrame(h) /\ h.mem = mem /\ h.ring = ring /\ h.dev = dev
  BY HereIsOutcome DEF IInv, Typed, FrameInv, Here
<1> HIDE DEF h
<1>3. /\ Moves(h, o, ts)
      /\ e = VDP2 => ts <= o.dev.lastts /\ o.ret <= FrameEnd(o.dev)
      /\ o.ret > ts \/ o.ret = Disabled \/ (e = DMA /\ (fast \/ ts < mem))
  BY <1>1, <1>2, HandlerMoves
<1>4. o \in Outcome /\ o.mem = mem /\ InFrame(o) /\ dev.lastts <= o.dev.lastts /\ Later(ring, o.ring, ts)
  BY <1>2, <1>3 DEF Moves
<1>5. o.ring \in RingT /\ o.dev \in DevT /\ o.ret \in Int /\ o.ring.time \in [Events -> Int] /\ VDP2 \in Events
  BY <1>4 DEF Outcome, RingT, VDP2, Events
<1> DEFINE t == [o.ring.time EXCEPT ![e] = o.ret]
<1>6. ring' = [o.ring EXCEPT !.time = t]
  BY <1>1
<1>7. ring'.time = t /\ ring'.running = o.ring.running
  <2> HIDE DEF t
  <2> QED BY <1>5, <1>6 DEF RingT
<1>8. \A d \in Events : ring'.time[d] = IF d = e THEN o.ret ELSE o.ring.time[d]
  BY <1>5, <1>7
<1>9. ring'.time[VDP2] <= FrameEnd(dev')
  <2>1. o.ring.time[VDP2] <= FrameEnd(o.dev)
    BY <1>4 DEF InFrame
  <2> QED BY <1>1, <1>3, <1>5, <1>8, <2>1
<1>10. InFrame(Here(mem))'
  <2>1. /\ dev'.beam \in 0..FrameCycles - 1 /\ 0 <= dev'.lastts /\ dev'.lastts <= mem'
        /\ ring'.running # 0 => FrameEnd(dev') <= FrameCycles
    BY <1>1, <1>4, <1>7 DEF InFrame
  <2> QED BY <1>9, <2>1 DEF InFrame, Here
<1>11. \A d \in Events : d # e => ring'.time[d] = ring.time[d] \/ ring'.time[d] > ts \/ (fast /\ d = DMA)
  BY <1>4, <1>8 DEF Later
<1>12. ring'.time[e] = o.ret
  BY <1>8
<1>13. ring.running = 0 => ring'.running = 0
  BY UpdateStep
<1> QED BY <1>1, <1>3, <1>4, <1>10, <1>11, <1>12, <1>13

\* The inner loop is left, with the CPUs as far as they may have got.
LEMMA LeaveFrame ==
  ASSUME IInv, FrameInv, LeaveInner, UNCHANGED <<fast, dev>>, ring'.time = ring.time, ring'.running = ring.running,
         mem' \in Nat, mem <= mem', accesses' = MaxAccess, mem' <= Limit + MaxLate
  PROVE  FrameInv'
<1>1. ring.running # 0 => mem' <= FrameCycles + MaxLate
  BY FrameFacts, LateFacts DEF Limit
<1>2. mem' <= FrameCycles + 2 * MaxLate
  BY FrameFacts, LateFacts DEF Limit
<1>3. InFrame(Here(mem))'
  BY FrameState DEF InFrame, Here, FrameInv
<1>4. CASE ring.running # 0
  <2>1. pc' = "loop" /\ UNCHANGED <<at, after>>
    BY <1>4 DEF LeaveInner
  <2>2. FrameEnd(dev') <= FrameCycles
    BY <1>4, FrameState
  <2>3. CountInv'
    BY <2>1, LateFacts DEF CountInv, FrameInv, InInstruction
  <2>4. LengthInv'
    BY <1>1, <1>4, <2>1, <2>2 DEF LengthInv
  <2> QED BY <1>3, <2>1, <2>3, <2>4 DEF FrameInv, PassInv
<1>5. CASE ring.running = 0
  <2>1. pc' = "force" /\ at' = 1 /\ after' = "rebase"
    BY <1>5 DEF LeaveInner
  <2>2. CountInv'
    BY <2>1, LateFacts DEF CountInv, InInstruction
  <2>3. LengthInv'
    BY <1>2, <1>5, <2>1 DEF LengthInv
  <2>4. PassInv'
    <3>1. \A e \in Events : ~(e < 1)
      BY DEF Events
    <3> QED BY <2>1, <3>1 DEF PassInv, VDP2
  <2> QED BY <1>3, <2>2, <2>3, <2>4 DEF FrameInv
<1> QED BY <1>4, <1>5

\* EventHandler is called, from an access or from the end of an instruction.
LEMMA CallFrame ==
  ASSUME IInv, FrameInv, NEW then \in {"write", "instr"}, CallHandler(then), UNCHANGED <<fast, ring, dev>>,
         mem' \in Nat, mem <= mem', accesses' \in 0..MaxAccess,
         then = "write" => mem' < Limit + 2 * (MaxAccess - accesses'),
         then = "instr" => accesses' = MaxAccess /\ mem' <= Limit + MaxLate
  PROVE  FrameInv'
<1>1. InFrame(Here(mem))'
  BY FrameState DEF InFrame, Here, FrameInv
<1>2. Limit' = Limit
  BY DEF Limit
<1>3. CASE ring.running <= 0 /\ then = "write"
  <2>1. pc' = "write" /\ UNCHANGED <<at, after>>
    BY <1>3 DEF CallHandler
  <2>2. CountInv'
    BY <2>1 DEF CountInv, FrameInv, InInstruction
  <2>3. LengthInv'
    BY <1>2, <1>3, <2>1 DEF LengthInv, Used
  <2> QED BY <1>1, <2>1, <2>2, <2>3 DEF FrameInv, PassInv
<1>4. CASE ring.running <= 0 /\ then # "write"
  <2>1. LeaveInner /\ then = "instr"
    BY <1>4 DEF CallHandler
  <2> QED BY <2>1, LeaveFrame
<1>5. CASE ~(ring.running <= 0)
  <2>1. pc' = "dispatch" /\ after' = then /\ at' = at
    BY <1>5 DEF CallHandler
  <2>2. ring.running # 0 /\ Limit = FrameCycles
    BY <1>5, FrameFacts DEF Limit
  <2>3. CountInv'
    BY <2>1 DEF CountInv, FrameInv, InInstruction
  <2>4. LengthInv'
    <3>1. CASE then = "write"
      BY <1>2, <2>1, <3>1 DEF LengthInv, Used
    <3>2. CASE then = "instr"
      BY <2>1, <2>2, <3>2 DEF LengthInv
    <3> QED BY <3>1, <3>2
  <2> QED BY <1>1, <2>1, <2>3, <2>4 DEF FrameInv, PassInv
<1> QED BY <1>3, <1>4, <1>5

-----------------------------------------------------------------------------
(* Each action preserves it. *)

LEMMA EnterLoopFrame == IInv /\ FrameInv /\ EnterLoop => FrameInv'
<1> SUFFICES ASSUME IInv, FrameInv, EnterLoop PROVE FrameInv'
  OBVIOUS
<1>1. /\ pc = "loop" /\ pc' = "force" /\ at' = 1 /\ after' = "first" /\ UNCHANGED <<fast, mem, accesses>>
  BY DEF EnterLoop
<1>2. ring'.time = ring.time
  BY DEF EnterLoop, IInv, Typed, RingT
<1>3. dev'.beam = dev.beam /\ dev'.lastts = dev.lastts
  BY DEF EnterLoop, IInv, Typed, DevT
<1>4. FrameEnd(dev') = FrameEnd(dev)
  BY <1>3 DEF FrameEnd
<1>5. FrameEnd(dev) <= FrameCycles /\ mem <= FrameCycles + MaxLate
  BY <1>1 DEF FrameInv, LengthInv
<1>6. InFrame(Here(mem))'
  BY <1>1, <1>2, <1>3, <1>4, <1>5, FrameState DEF InFrame, Here
<1>7. CountInv'
  BY <1>1 DEF FrameInv, CountInv, InInstruction
<1>8. LengthInv'
  BY <1>1, <1>5 DEF LengthInv
<1>9. PassInv'
  <2>1. \A e \in Events : ~(e < 1)
    BY DEF Events
  <2> QED BY <1>1, <2>1 DEF PassInv, VDP2
<1> QED BY <1>6, <1>7, <1>8, <1>9 DEF FrameInv

LEMMA ForceFrame == FrameFits /\ IInv /\ FrameInv /\ ForceUpdate => FrameInv'
<1> SUFFICES ASSUME FrameFits, IInv, FrameInv, ForceUpdate PROVE FrameInv'
  OBVIOUS
<1>1. /\ pc = "force" /\ pc' = "force" /\ at \in Events /\ at' = at + 1 /\ after' = after
      /\ UNCHANGED <<fast, mem, accesses>> /\ after \in {"first", "rebase"}
  BY DEF ForceUpdate, IInv, PlaceInv
<1>2. mem \in Nat /\ mem <= FrameCycles + 2 * MaxLate
  BY <1>1, FrameState, LateFacts, FrameFacts DEF FrameInv, LengthInv
<1>3. mem < Disabled /\ mem + FrameCycles < Disabled
  BY <1>2, FrameFacts, LateFacts DEF FrameFits, Disabled
<1>4. /\ InFrame(Here(mem))' /\ dev.lastts <= dev'.lastts
      /\ \A d \in Events : d # at => ring'.time[d] = ring.time[d] \/ ring'.time[d] > mem \/ (fast /\ d = DMA)
      /\ ring'.time[at] > mem \/ (fast /\ at = DMA)
      /\ at = VDP2 => mem <= dev'.lastts
      /\ ring.running = 0 => ring'.running = 0
  <2>1. CASE ring.time[at] = Disabled
    <3>1. UNCHANGED <<ring, dev>>
      BY <2>1 DEF ForceUpdate
    <3>2. InFrame(Here(mem))'
      BY <1>1, <3>1 DEF FrameInv, InFrame, Here
    <3>3. at # VDP2
      BY <1>3, <2>1, FrameState, FrameFacts
    <3>4. dev.lastts <= dev'.lastts
      BY <3>1, FrameState
    <3> QED BY <1>3, <2>1, <3>1, <3>2, <3>3, <3>4
  <2>2. CASE ~(ring.time[at] = Disabled)
    <3>1. Update(at, mem)
      BY <2>2 DEF ForceUpdate
    <3>2. mem \in Int /\ mem <= mem /\ mem' = mem
      BY <1>1, <1>2
    <3>3. /\ InFrame(Here(mem))' /\ dev.lastts <= dev'.lastts
          /\ \A d \in Events : d # at => ring'.time[d] = ring.time[d] \/ ring'.time[d] > mem \/ (fast /\ d = DMA)
          /\ ring'.time[at] > mem \/ ring'.time[at] = Disabled \/ (at = DMA /\ (fast \/ mem < mem))
          /\ at = VDP2 => mem <= dev'.lastts
          /\ ring.running = 0 => ring'.running = 0
      BY <1>1, <3>1, <3>2, UpdateMoves
    <3>4. ring'.time[at] > mem \/ (fast /\ at = DMA)
      BY <1>2, <1>3, <3>3
    <3> QED BY <3>3, <3>4
  <2> QED BY <2>1, <2>2
<1>5. CountInv'
  <2>1. at' \in 1..6
    BY <1>1 DEF Events
  <2> QED BY <1>1, <2>1 DEF FrameInv, CountInv, InInstruction
<1>6. LengthInv'
  BY <1>1, <1>4 DEF FrameInv, LengthInv
<1>7. PassInv'
  <2>1. ASSUME NEW e \in Events, e < at' PROVE Ahead(e)'
    <3>1. CASE e = at
      BY <1>1, <1>4, <3>1 DEF Ahead
    <3>2. CASE e # at
      <4>1. e < at
        BY <1>1, <2>1, <3>2 DEF Events
      <4>2. ring.time[e] > mem \/ (fast /\ e = DMA)
        BY <1>1, <4>1 DEF FrameInv, PassInv, Ahead
      <4> QED BY <1>1, <1>4, <3>2, <4>2 DEF Ahead
    <3> QED BY <3>1, <3>2
  <2>2. ASSUME at' > VDP2 PROVE dev'.lastts = mem'
    <3>1. mem <= dev'.lastts
      <4>1. CASE at = VDP2
        BY <1>4, <4>1
      <4>2. CASE at # VDP2
        <5>1. at > VDP2
          BY <1>1, <2>2, <4>2 DEF Events, VDP2
        <5>2. dev.lastts = mem
          BY <1>1, <5>1 DEF FrameInv, PassInv
        <5> QED BY <1>4, <5>2
      <4> QED BY <4>1, <4>2
    <3>2. dev'.lastts <= mem /\ dev'.lastts \in Int
      <4>1. dev'.lastts <= mem'
        BY <1>4 DEF InFrame, Here
      <4>2. IInv'
        BY ForceStep
      <4> QED BY <1>1, <4>1, <4>2 DEF IInv, Typed, DevT
    <3> QED BY <1>1, <1>2, <3>1, <3>2
  <2> QED BY <1>1, <2>1, <2>2 DEF PassInv
<1> QED BY <1>4, <1>5, <1>6, <1>7 DEF FrameInv

LEMMA ForceDoneFrame == IInv /\ FrameInv /\ ForceDone => FrameInv'
<1> SUFFICES ASSUME IInv, FrameInv, ForceDone PROVE FrameInv'
  OBVIOUS
<1>1. /\ pc = "force" /\ at \notin Events /\ pc' = after /\ at' = 1 /\ UNCHANGED <<fast, dev, mem, accesses>>
      /\ after \in {"first", "rebase"} /\ after' = after
  BY DEF ForceDone, IInv, PlaceInv
<1>2. ring'.time = ring.time /\ ring'.running = ring.running
  BY DEF ForceDone, IInv, Typed, RingT
<1>3. InFrame(Here(mem))'
  BY <1>1, <1>2 DEF FrameInv, InFrame, Here
<1>4. CountInv'
  BY <1>1 DEF FrameInv, CountInv, InInstruction
<1>5. at = 6
  BY <1>1 DEF FrameInv, CountInv, Events
<1>6. dev.lastts = mem /\ \A e \in Events : Ahead(e)
  BY <1>1, <1>5 DEF FrameInv, PassInv, Events, VDP2
<1>7. LengthInv'
  <2>1. CASE after = "first"
    <3>1. mem <= FrameCycles + MaxLate
      BY <1>1, <2>1 DEF FrameInv, LengthInv
    <3>2. ring.running # 0 => mem <= FrameCycles
      <4>1. ring.time[VDP2] > mem
        BY <1>6 DEF Ahead, DMA, VDP2, Events
      <4> QED BY <4>1, FrameState, FrameFacts
    <3>3. mem <= Limit
      BY <3>1, <3>2, FrameFacts DEF Limit
    <3>4. Used = 0 /\ Used' = 0
      BY <1>1, LateFacts DEF FrameInv, CountInv, InInstruction, Used
    <3>5. Limit' = Limit /\ Limit \in Int
      BY <1>2, FrameFacts, LateFacts DEF Limit
    <3>6. mem' <= Limit' + Used'
      BY <1>1, <3>3, <3>4, <3>5, FrameState
    <3> QED BY <1>1, <2>1, <3>6 DEF LengthInv
  <2>2. CASE after = "rebase"
    BY <1>1, <1>2, <2>2 DEF FrameInv, LengthInv
  <2> QED BY <1>1, <2>1, <2>2
<1>8. PassInv'
  BY <1>1, <1>2, <1>6 DEF PassInv, Ahead
<1> QED BY <1>3, <1>4, <1>7, <1>8 DEF FrameInv

\* Between two instructions or accesses the CPUs are where they may be.
LEMMA InLimit ==
  ASSUME IInv, FrameInv, pc \in {"first", "instr", "exec"}
  PROVE  /\ mem \in Nat /\ Limit \in Int /\ Used \in Int /\ mem <= Limit + Used
         /\ accesses \in 0..MaxAccess /\ Used = 2 * (MaxAccess - accesses)
<1>1. mem \in Nat /\ accesses \in 0..MaxAccess /\ Limit \in Int /\ Used \in Int /\ Used >= 0
  BY FrameState, FrameFacts, LateFacts DEF FrameInv, CountInv, Limit, Used
<1>2. FrameCycles <= Limit
  BY FrameFacts, LateFacts DEF Limit
<1>3. CASE pc = "instr"
  <2>1. mem <= FrameCycles
    BY <1>3 DEF FrameInv, LengthInv
  <2> QED BY <1>1, <1>2, <2>1, FrameFacts DEF Used
<1>4. CASE pc # "instr"
  <2>1. mem <= Limit + Used
    BY <1>4 DEF FrameInv, LengthInv
  <2> QED BY <1>1, <2>1 DEF Used
<1> QED BY <1>3, <1>4

LEMMA AccessFrame == IInv /\ FrameInv /\ Access => FrameInv'
<1> SUFFICES ASSUME IInv, FrameInv, Access PROVE FrameInv'
  OBVIOUS
<1>1. /\ pc \in {"first", "instr", "exec"} /\ accesses > 0 /\ mem' = mem + 1 /\ accesses' = accesses - 1
      /\ UNCHANGED <<fast, ring, dev>>
  BY DEF Access
<1>2. /\ mem \in Nat /\ Limit \in Int /\ mem <= Limit + 2 * (MaxAccess - accesses) /\ accesses \in 0..MaxAccess
  BY <1>1, InLimit
<1>3. mem' \in Nat /\ mem <= mem' /\ accesses' \in 0..MaxAccess /\ mem' < Limit + 2 * (MaxAccess - accesses')
  BY <1>1, <1>2, LateFacts
<1>4. CASE mem' >= ring.next
  <2>1. CallHandler("write")
    BY <1>4 DEF Access
  <2> QED BY <1>1, <1>3, <2>1, CallFrame
<1>5. CASE ~(mem' >= ring.next)
  <2>1. pc' = "write" /\ UNCHANGED <<at, best, after>>
    BY <1>5 DEF Access
  <2>2. InFrame(Here(mem))'
    BY <1>1, <1>3, FrameState DEF InFrame, Here
  <2>3. CountInv'
    BY <1>3, <2>1 DEF FrameInv, CountInv, InInstruction
  <2>4. Limit' = Limit
    BY <1>1 DEF Limit
  <2>5. LengthInv'
    BY <1>3, <2>1, <2>4 DEF LengthInv, Used
  <2> QED BY <2>1, <2>2, <2>3, <2>5 DEF FrameInv, PassInv
<1> QED BY <1>4, <1>5

\* The bound moves no further than the limit does.
LEMMA StillWithin ==
  ASSUME NEW a \in Int, NEW b \in Int, NEW l \in Int, NEW k \in Int, NEW u \in Int,
         a < l + u, b <= a + 1, l <= k
  PROVE  b <= k + u
OBVIOUS

LEMMA WriteFrame == IInv /\ FrameInv /\ Write => FrameInv'
<1> SUFFICES ASSUME IInv, FrameInv, Write PROVE FrameInv'
  OBVIOUS
<1>1. PICK slow \in {0, 1} :
        /\ mem' = mem + slow
        /\ \E o \in {Here(mem')} \cup WriteVDP1(Here(mem'))
                     \cup (IF slow = 1 THEN {}
                           ELSE WriteVDP2(Here(mem)) \cup WriteSMPC(Here(mem))
                                  \cup WriteDMAStart(Here(mem))) :
             ring' = o.ring /\ dev' = o.dev
  BY DEF Write
<1>2. PICK o \in {Here(mem')} \cup WriteVDP1(Here(mem'))
                     \cup (IF slow = 1 THEN {}
                           ELSE WriteVDP2(Here(mem)) \cup WriteSMPC(Here(mem))
                                  \cup WriteDMAStart(Here(mem))) :
         ring' = o.ring /\ dev' = o.dev
  BY <1>1
<1>3. /\ pc = "write" /\ pc' = "exec" /\ UNCHANGED <<fast, at, best, after, accesses>>
  BY DEF Write
<1>4. mem \in Nat /\ mem' \in Nat /\ mem <= mem' /\ mem' <= mem + 1
  BY <1>1, FrameState
<1> DEFINE h == Here(mem')
<1>5. h \in Outcome /\ h.mem = mem' /\ h.ring = ring /\ h.dev = dev
  BY <1>4, HereIsOutcome DEF Here
<1>6. InFrame(h)
  BY <1>4, <1>5, FrameState DEF InFrame
<1>7. Moves(h, o, mem')
  <2>1. Moves(h, h, mem')
    BY <1>5, MovesStill
  <2>2. slow # 1 => h = Here(mem)
    BY <1>1, <1>4
  <2> HIDE DEF h
  <2>3. /\ o \in WriteVDP1(h) => Moves(h, o, mem')
        /\ o \in WriteVDP2(h) => Moves(h, o, mem')
        /\ o \in WriteSMPC(h) => Moves(h, o, mem')
        /\ o \in WriteDMAStart(h) => Moves(h, o, mem')
    BY <1>5, <1>6, WriteVDP1Moves, WriteVDP2Moves, WriteSMPCMoves, WriteDMAStartMoves
  <2>4. \/ o = h \/ o \in WriteVDP1(h)
        \/ slow # 1 /\ o \in WriteVDP2(h) \cup WriteSMPC(h) \cup WriteDMAStart(h)
    BY <1>2, <2>2 DEF h
  <2> QED BY <2>1, <2>3, <2>4
<1> HIDE DEF h
<1>8. InFrame(o) /\ o.mem = mem' /\ (ring'.running # 0 => ring.running # 0)
  <2>1. InFrame(o) /\ o.mem = mem'
    BY <1>5, <1>6, <1>7 DEF Moves
  <2>2. ring.running = 0 => ring'.running = 0
    <3>1. PICK w : Keeps(Here(mem'), w) /\ ring' = w.ring
      BY WrittenKeeps
    <3> QED BY <3>1 DEF Keeps, Here
  <2> QED BY <2>1, <2>2
<1>9. InFrame(Here(mem))'
  BY <1>2, <1>8 DEF InFrame, Here
<1>10. CountInv'
  BY <1>3 DEF FrameInv, CountInv, InInstruction
<1>11. LengthInv'
  <2>1. mem < Limit + Used
    BY <1>3 DEF FrameInv, LengthInv
  <2>2. Limit <= Limit' /\ Limit \in Int /\ Limit' \in Int
    BY <1>8, FrameFacts, LateFacts DEF Limit
  <2>3. Used' = Used /\ Used \in Int
    BY <1>3, LateFacts DEF Used, FrameInv, CountInv
  <2>4. mem' <= Limit' + Used'
    <3>1. mem \in Int /\ mem' \in Int
      BY <1>4
    <3> QED BY <1>4, <2>1, <2>2, <2>3, <3>1, StillWithin, Zenon
  <2> QED BY <1>3, <2>4 DEF LengthInv
<1> QED BY <1>3, <1>9, <1>10, <1>11 DEF FrameInv, PassInv

LEMMA RetireFrame == IInv /\ FrameInv /\ Retire => FrameInv'
<1> SUFFICES ASSUME IInv, FrameInv, Retire PROVE FrameInv'
  OBVIOUS
<1>1. /\ pc \in {"first", "instr", "exec"} /\ mem' = mem + 1 /\ accesses' = MaxAccess
      /\ UNCHANGED <<fast, ring, dev>>
  BY DEF Retire
<1>2. /\ mem \in Nat /\ Limit \in Int /\ mem <= Limit + 2 * (MaxAccess - accesses) /\ accesses \in 0..MaxAccess
  BY <1>1, InLimit
<1>3. mem' \in Nat /\ mem <= mem' /\ mem' <= Limit + MaxLate
  BY <1>1, <1>2, LateFacts
<1>4. CASE mem' < ring.next
  <2>1. pc' = "instr" /\ UNCHANGED <<at, best, after>>
    BY <1>4 DEF Retire
  <2>2. ring.running > 0 /\ ring.next = Earliest(ring.time)
    BY <1>1, <1>3, <1>4 DEF IInv, PlaceInv, Settled
  <2>3. ring.next <= ring.time[VDP2] /\ ring.next \in Int
    BY <2>2, EarliestIsLeast DEF IInv, Typed, RingT, VDP2, Events
  <2>4. mem' <= FrameCycles
    BY <1>3, <1>4, <2>2, <2>3, FrameState, FrameFacts
  <2>5. InFrame(Here(mem))'
    BY <1>1, <1>3, FrameState DEF InFrame, Here
  <2>6. CountInv'
    BY <1>1, <2>1, LateFacts DEF FrameInv, CountInv, InInstruction
  <2>7. LengthInv'
    BY <2>1, <2>4 DEF LengthInv
  <2> QED BY <2>1, <2>5, <2>6, <2>7 DEF FrameInv, PassInv
<1>5. CASE ~(mem' < ring.next)
  <2>1. CallHandler("instr")
    BY <1>5 DEF Retire
  <2>2. accesses' \in 0..MaxAccess
    BY <1>1, LateFacts
  <2> QED BY <1>1, <1>3, <2>1, <2>2, CallFrame
<1> QED BY <1>4, <1>5

LEMMA DispatchFrame == IInv /\ FrameInv /\ Dispatch => FrameInv'
<1> SUFFICES ASSUME IInv, FrameInv, Dispatch PROVE FrameInv'
  OBVIOUS
<1>1. /\ pc = "dispatch" /\ best <= mem /\ UNCHANGED <<fast, mem, pc, at, after, accesses>> /\ best \in Int
  BY DEF Dispatch, IInv, Typed
<1>2. PICK e \in Events : Update(e, best)
  BY DEF Dispatch
<1>3. InFrame(Here(mem))' /\ (ring.running = 0 => ring'.running = 0)
  BY <1>1, <1>2, UpdateMoves
<1>4. Limit <= Limit' /\ Limit \in Int /\ Limit' \in Int
  BY <1>3, FrameFacts, LateFacts DEF Limit
<1>5. Used' = Used /\ Used \in Int
  BY <1>1, LateFacts DEF Used, FrameInv, CountInv
<1>6. CountInv'
  BY <1>1 DEF FrameInv, CountInv, InInstruction
<1>7. LengthInv'
  <2>1. after = "write" => mem' < Limit' + Used'
    BY <1>1, <1>4, <1>5, FrameState DEF FrameInv, LengthInv
  <2>2. after = "instr" => mem' <= FrameCycles + MaxLate
    BY <1>1 DEF FrameInv, LengthInv
  <2> QED BY <1>1, <2>1, <2>2 DEF LengthInv
<1> QED BY <1>1, <1>3, <1>6, <1>7 DEF FrameInv, PassInv

LEMMA DispatchDoneFrame == IInv /\ FrameInv /\ DispatchDone => FrameInv'
<1> SUFFICES ASSUME IInv, FrameInv, DispatchDone PROVE FrameInv'
  OBVIOUS
<1>1. /\ pc = "dispatch" /\ best > mem /\ UNCHANGED <<fast, dev, mem, best, accesses>>
      /\ best = Earliest(ring.time) /\ after \in {"write", "instr"}
  BY DEF DispatchDone, IInv, PlaceInv
<1>2. ring'.time = ring.time /\ ring'.running = ring.running
  BY DEF DispatchDone, IInv, Typed, RingT
<1>3. InFrame(Here(mem))'
  BY <1>1, <1>2 DEF FrameInv, InFrame, Here
<1>4. Limit' = Limit /\ Used' = Used
  BY <1>1, <1>2 DEF Limit, Used
<1>5. CASE after = "write"
  <2>1. pc' = "write" /\ UNCHANGED <<at, after>>
    BY <1>5 DEF DispatchDone
  <2>2. CountInv'
    BY <1>1, <2>1 DEF FrameInv, CountInv, InInstruction
  <2>3. LengthInv'
    BY <1>1, <1>4, <1>5, <2>1 DEF FrameInv, LengthInv
  <2> QED BY <1>3, <2>1, <2>2, <2>3 DEF FrameInv, PassInv
<1>6. CASE after = "instr" /\ ring.running > 0
  <2>1. pc' = "instr" /\ UNCHANGED <<at, after>>
    BY <1>6 DEF DispatchDone
  <2>2. CountInv'
    BY <1>1, <1>6, <2>1 DEF FrameInv, CountInv, InInstruction
  <2>3. best <= ring.time[VDP2] /\ best \in Int
    BY <1>1, EarliestIsLeast DEF IInv, Typed, RingT, VDP2, Events
  <2>4. mem <= FrameCycles
    BY <1>1, <1>6, <2>3, FrameState, FrameFacts
  <2>5. LengthInv'
    BY <1>1, <2>1, <2>4 DEF LengthInv
  <2> QED BY <1>3, <2>1, <2>2, <2>5 DEF FrameInv, PassInv
<1>7. CASE after = "instr" /\ ~(ring.running > 0)
  <2>1. LeaveInner
    BY <1>7 DEF DispatchDone
  <2>2. accesses' = MaxAccess
    BY <1>1, <1>7 DEF FrameInv, CountInv, InInstruction
  <2>3. mem <= FrameCycles + MaxLate
    BY <1>1, <1>7 DEF FrameInv, LengthInv
  <2>4. mem' <= Limit + MaxLate
    BY <1>1, <2>3, FrameState, FrameFacts, LateFacts DEF Limit
  <2>5. mem' \in Nat /\ mem <= mem'
    BY <1>1, FrameState
  <2> QED BY <1>1, <1>2, <2>1, <2>2, <2>4, <2>5, LeaveFrame
<1> QED BY <1>1, <1>5, <1>6, <1>7

LEMMA RebaseFrame == FrameFits /\ IInv /\ FrameInv /\ Rebase => FrameInv'
<1> SUFFICES ASSUME FrameFits, IInv, FrameInv, Rebase PROVE FrameInv'
  OBVIOUS
<1>1. pc = "rebase" /\ pc' = "idle" /\ mem' = 0 /\ UNCHANGED <<fast, at, after, accesses>>
  BY DEF Rebase
<1>2. ring.running = 0 /\ mem <= FrameCycles + 2 * MaxLate /\ dev.lastts = mem
  BY <1>1 DEF FrameInv, LengthInv, PassInv
<1>3. ring.time[VDP2] # Disabled
  BY <1>2, FrameState, FrameFacts, LateFacts DEF FrameFits, Disabled
<1> DEFINE time == [e \in Events |-> IF ring.time[e] = Disabled THEN Disabled ELSE ring.time[e] - mem]
           n == Earliest(time)
<1>4. ring'.time = time /\ ring'.running = 0
  <2>1. ring' = [ring EXCEPT !.time = time, !.next = n]
    BY DEF Rebase
  <2> HIDE DEF time, n
  <2> QED BY <1>2, <2>1 DEF IInv, Typed, RingT
<1>5. ring'.time[VDP2] = ring.time[VDP2] - mem
  BY <1>3, <1>4 DEF VDP2, Events
<1>6. dev'.beam = dev.beam /\ dev'.lastts = 0
  <2>1. dev' = [dev EXCEPT !.lastts = dev.lastts - mem]
    BY DEF Rebase
  <2>2. dev'.beam = dev.beam /\ dev'.lastts = dev.lastts - mem
    BY <2>1 DEF IInv, Typed, DevT
  <2> QED BY <1>2, <2>2, FrameState
<1>7. dev.beam \in 0..FrameCycles - 1 /\ ToEnd(dev.beam) \in 1..FrameCycles
  BY FrameState, ToEndRange
<1>8. FrameEnd(dev) = mem + ToEnd(dev.beam) /\ FrameEnd(dev') = ToEnd(dev.beam)
  <2>1. FrameEnd(dev) = mem + ToEnd(dev.beam)
    BY <1>2 DEF FrameEnd
  <2>2. FrameEnd(dev') = 0 + ToEnd(dev.beam)
    BY <1>6 DEF FrameEnd
  <2> QED BY <1>7, <2>1, <2>2
<1>9. ring'.time[VDP2] <= FrameEnd(dev')
  BY <1>5, <1>7, <1>8, FrameState
<1>10. InFrame(Here(mem))'
  BY <1>1, <1>4, <1>6, <1>7, <1>9 DEF InFrame, Here
<1>11. CountInv'
  BY <1>1 DEF FrameInv, CountInv, InInstruction
<1>12. LengthInv'
  BY <1>1, <1>7, <1>8, FrameFacts, LateFacts DEF LengthInv
<1> QED BY <1>1, <1>10, <1>11, <1>12 DEF FrameInv, PassInv

LEMMA StillFrame == IInv /\ FrameInv /\ (StartFrame \/ UNCHANGED vars) => FrameInv'
<1> SUFFICES ASSUME IInv, FrameInv, StartFrame \/ UNCHANGED vars PROVE FrameInv'
  OBVIOUS
<1>1. /\ UNCHANGED <<fast, ring, dev, mem, at, best, after, accesses>>
      /\ pc' = pc \/ (pc = "idle" /\ pc' = "loop")
  BY DEF StartFrame, vars
<1>2. InFrame(Here(mem))'
  BY <1>1 DEF FrameInv, InFrame, Here
<1>3. CountInv'
  BY <1>1 DEF FrameInv, CountInv, InInstruction
<1>4. LengthInv'
  BY <1>1 DEF FrameInv, LengthInv, Limit, Used
<1>5. PassInv'
  BY <1>1 DEF FrameInv, PassInv, Ahead
<1> QED BY <1>2, <1>3, <1>4, <1>5 DEF FrameInv

LEMMA FrameInvariant == FrameFits => (Spec => []FrameInv)
<1> SUFFICES ASSUME FrameFits PROVE Spec => []FrameInv
  OBVIOUS
<1>1. IInv /\ FrameInv /\ [Next]_vars => FrameInv'
  BY EnterLoopFrame, ForceFrame, ForceDoneFrame, AccessFrame, WriteFrame, RetireFrame, DispatchFrame,
     DispatchDoneFrame, RebaseFrame, StillFrame DEF Next
<1> QED BY <1>1, InitFrame, Invariant, PTL DEF Spec

(* At the end of a frame all events are in the future, as RebaseTS asserts  *)
(* (ss.c:1434), in the exact mode: no handler of the last round is called   *)
(* by another one back into the present.                                    *)
THEOREM RebaseAheadHolds ==
  ASSUME FrameFits
  PROVE  Spec => []RebaseAhead
<1>1. FrameInv => RebaseAhead
  BY DEF FrameInv, PassInv, Ahead, RebaseAhead
<1> QED BY <1>1, FrameInvariant, PTL

(* A frame lasts no longer than the beam takes, but for two instructions:   *)
(* the request to leave the loop is not missed for another frame.           *)
THEOREM FrameLengthHolds ==
  ASSUME FrameFits
  PROVE  Spec => []FrameLength
<1>1. IInv /\ FrameInv => FrameLength
  <2> SUFFICES ASSUME IInv, FrameInv PROVE mem <= FrameCycles + 2 * MaxLate
    BY DEF FrameLength
  <2>1. mem \in Nat /\ Limit <= FrameCycles + MaxLate /\ Limit \in Int
    BY FrameState, FrameFacts, LateFacts DEF Limit
  <2>2. Used \in 0..MaxLate
    BY LateFacts DEF FrameInv, CountInv, Used
  <2>3. Limit + Used <= FrameCycles + 2 * MaxLate /\ FrameCycles + MaxLate <= FrameCycles + 2 * MaxLate
    BY <2>1, <2>2, FrameFacts, LateFacts
  <2>4. pc = "force" => after \in {"first", "rebase"}
    BY DEF IInv, PlaceInv
  <2>5. pc = "dispatch" => after \in {"write", "instr"}
    BY DEF IInv, PlaceInv
  <2>6. mem <= Limit + Used \/ mem <= FrameCycles + MaxLate \/ mem <= FrameCycles + 2 * MaxLate
    BY <2>1, <2>2, <2>4, <2>5, FrameFacts, LateFacts DEF FrameInv, LengthInv, IInv, Typed
  <2> QED BY <2>1, <2>2, <2>3, <2>6, FrameFacts, LateFacts
<1> QED BY <1>1, Invariant, FrameInvariant, PTL
=============================================================================
