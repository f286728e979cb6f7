------------------------- MODULE WaitableSpscProofs -------------------------
(* The queue is type correct, its cursors stay in order across their wrap,  *)
(* no cell is used from both sides, a wait's answer stays good, and the     *)
(* whole is the FIFO of BoundedFifo, for any capacity, any width of the     *)
(* cursors, any data and any size of the calls.                             *)
(*                                                                          *)
(* A call works from a cached cursor that may be old.  The invariant says   *)
(* that it is old on the safe side only, and that what a call in progress   *)
(* has been granted fits by that cached cursor.                             *)
(*                                                                          *)
(* The event a side waits on, EventCount, follows at the end: it loses no   *)
(* wakeup and does no step that WaitEvent does not allow.                   *)
EXTENDS WaitableSpsc, EventCount, Integers, TLAPS

CursorTyped ==
  /\ head \in 0..CursorMod - 1 /\ tail \in 0..CursorMod - 1
  /\ cachedTail \in 0..CursorMod - 1 /\ cachedHead \in 0..CursorMod - 1

DataTyped ==
  /\ buf \in [0..Cap - 1 -> Data]
  /\ batch \in Seq(Data) /\ dst \in Seq(Data) /\ out \in Seq(Data)

CallTyped ==
  /\ cancelled \in BOOLEAN /\ sig \in [Sides -> BOOLEAN] /\ ready \in [Sides -> BOOLEAN]
  /\ pc \in [Sides -> {"idle"} \cup WaitSteps \cup CallSteps]
  /\ asked \in [Sides -> 0..MaxBatch] /\ copied \in [Sides -> 0..MaxBatch]

Moving == {"copy", "publish"}

\* The units of a call are counted from none to all.
CopyInv ==
  \A s \in Sides : /\ pc[s] \notin Moving => copied[s] = 0
                   /\ pc[s] = "copy" => copied[s] < asked[s]

\* A write is never of more than it was given.
BatchInv == pc[Producer] \in {"refresh", "copy"} => asked[Producer] <= Len(batch)

\* What a call was granted fits by the caller's cached cursor.
RoomInv == \A s \in Sides : pc[s] \in Moving => asked[s] <= CachedAvail(s)

\* A wait's answer is forgotten by the caller's next call.
ReadyInv == \A s \in Sides : ready[s] => pc[s] \in {"idle", "cancel1", "cancel2"}

IInv ==
  /\ CursorTyped /\ DataTyped /\ CallTyped
  /\ CursorsInOrder /\ WaitedIsReady
  /\ CopyInv /\ BatchInv /\ RoomInv /\ ReadyInv

-----------------------------------------------------------------------------
(* Cursor arithmetic.                                                       *)

LEMMA DistTyped ==
  ASSUME NEW a \in 0..CursorMod - 1, NEW b \in 0..CursorMod - 1
  PROVE  Dist(a, b) \in 0..CursorMod - 1
BY CapAssumption DEF Dist

\* Moving the leading cursor by n within the ring adds n to the distance.
LEMMA AdvanceLead ==
  ASSUME NEW a \in 0..CursorMod - 1, NEW b \in 0..CursorMod - 1, NEW n \in Nat,
         Dist(a, b) + n <= Cap
  PROVE  /\ Advance(a, n) \in 0..CursorMod - 1
         /\ Dist(Advance(a, n), b) = Dist(a, b) + n
BY CapAssumption DEF Dist, Advance

\* Moving the trailing cursor by n towards the leading one takes n off it.
LEMMA AdvanceTrail ==
  ASSUME NEW a \in 0..CursorMod - 1, NEW b \in 0..CursorMod - 1, NEW n \in Nat,
         n <= Dist(a, b)
  PROVE  /\ Advance(b, n) \in 0..CursorMod - 1
         /\ Dist(a, Advance(b, n)) = Dist(a, b) - n
BY CapAssumption DEF Dist, Advance

\* The multiples of Cap that lie less than Cap apart from 0
LEMMA SmallMultiple ==
  ASSUME NEW m \in Nat \ {0}, NEW k \in Int, -m < m * k, m * k < m
  PROVE  k = 0
<1>1. k >= 1 => m * k >= m
  OBVIOUS
<1>2. k <= -1 => m * k <= -m
  OBVIOUS
<1> QED BY <1>1, <1>2

\* A natural number is its quotient and its remainder.
LEMMA Division ==
  ASSUME NEW m \in Nat \ {0}, NEW x \in Nat
  PROVE  /\ x % m \in 0..m - 1 /\ x \div m \in Int
         /\ m * (x \div m) + (x % m) = x
<1>1. m \in Int /\ m > 0 /\ x \in Int
  OBVIOUS
<1>2. x % m \in 0..m - 1
  BY <1>1
<1>3. x \div m \in Int
  BY <1>1
<1>4. m * (x \div m) + (x % m) = x
  BY ONLY <1>1, SMTT(60)
<1> QED BY ONLY <1>2, <1>3, <1>4

\* Cells less than the capacity apart are different cells.
LEMMA CellsDiffer ==
  ASSUME NEW a \in Nat, NEW b \in Nat, a < b, b - a < Cap
  PROVE  Cell(a) # Cell(b)
<1> SUFFICES ASSUME Cell(a) = Cell(b) PROVE FALSE
  OBVIOUS
<1>1. Cap \in Nat \ {0}
  BY CapAssumption
<1> DEFINE p == a \div Cap
           q == b \div Cap
           c == a % Cap
           d == b % Cap
<1>2. /\ p \in Int /\ c \in 0..Cap - 1 /\ Cap * p + c = a
      /\ q \in Int /\ d \in 0..Cap - 1 /\ Cap * q + d = b
  BY <1>1, Division
<1>3. c = d
  BY DEF Cell
<1> HIDE DEF p, q, c, d
<1>4. b - a = Cap * (q - p)
  BY <1>1, <1>2, <1>3
<1>5. q - p = 0
  BY <1>1, <1>2, <1>4, SmallMultiple
<1> QED BY <1>1, <1>4, <1>5

\* A cursor that wraps stays at its cell: CursorMod is a multiple of Cap.
LEMMA CellWraps ==
  ASSUME NEW a \in Nat
  PROVE  Cell(a + CursorMod) = Cell(a)
<1>1. Cap \in Nat \ {0} /\ CursorMod \in Nat /\ CursorMod % Cap = 0 /\ a + CursorMod \in Nat
  BY CapAssumption
<1> DEFINE p == a \div Cap
           q == (a + CursorMod) \div Cap
           k == CursorMod \div Cap
           c == a % Cap
           d == (a + CursorMod) % Cap
<1>2. /\ p \in Int /\ q \in Int /\ k \in Int /\ c \in 0..Cap - 1 /\ d \in 0..Cap - 1
      /\ Cap * p + c = a /\ Cap * q + d = a + CursorMod /\ Cap * k + (CursorMod % Cap) = CursorMod
  BY <1>1, Division
<1>3. Cell(a) = c /\ Cell(a + CursorMod) = d
  BY DEF Cell
<1> HIDE DEF p, q, k, c, d
<1>4. d - c = Cap * (p + k - q)
  BY <1>1, <1>2
<1>5. p + k - q = 0
  BY <1>1, <1>2, <1>4, SmallMultiple
<1> QED BY <1>1, <1>2, <1>3, <1>4, <1>5

\* A cell named from the head is the cell that far behind the published ones.
LEMMA HeadCell ==
  ASSUME CursorTyped, NEW i \in Nat
  PROVE  Cell(head + i) = Cell(tail + Dist(head, tail) + i)
<1>1. head \in Nat /\ tail \in Nat /\ CursorMod \in Nat
  BY CapAssumption DEF CursorTyped
<1>2. CASE head >= tail
  <2>1. tail + Dist(head, tail) = head
    BY <1>1, <1>2 DEF Dist
  <2> QED BY <2>1
<1>3. CASE ~(head >= tail)
  <2>1. tail + Dist(head, tail) + i = (head + i) + CursorMod /\ head + i \in Nat
    BY <1>1, <1>3 DEF Dist
  <2> QED BY <2>1, CellWraps
<1> QED BY <1>2, <1>3

LEMMA AvailTyped ==
  ASSUME IInv, NEW s \in Sides
  PROVE  Avail(s) \in 0..Cap /\ CachedAvail(s) \in 0..Cap /\ CachedAvail(s) <= Avail(s)
<1>1. /\ Dist(head, tail) \in 0..CursorMod - 1 /\ Dist(head, cachedTail) \in 0..CursorMod - 1
      /\ Dist(cachedHead, tail) \in 0..CursorMod - 1
  BY DistTyped DEF IInv, CursorTyped
<1>2. /\ Dist(head, tail) <= Cap /\ Dist(head, tail) <= Dist(head, cachedTail)
      /\ Dist(head, cachedTail) <= Cap /\ Dist(cachedHead, tail) <= Dist(head, tail)
  BY DEF IInv, CursorsInOrder
<1>3. CASE s = Producer
  BY <1>1, <1>2, <1>3, CapAssumption DEF Avail, CachedAvail
<1>4. CASE s = Consumer
  BY <1>1, <1>2, <1>4, CapAssumption DEF Avail, CachedAvail, Producer, Consumer
<1> QED BY <1>3, <1>4 DEF Sides

LEMMA InitIInv == Init => IInv
<1> SUFFICES ASSUME Init PROVE IInv
  OBVIOUS
<1> USE DEF Init
<1>1. CursorTyped
  BY CapAssumption DEF CursorTyped
<1>2. DataTyped
  BY DEF DataTyped
<1>3. CallTyped
  <2>1. 0 \in 0..MaxBatch
    BY CapAssumption
  <2>2. pc \in [Sides -> {"idle"} \cup WaitSteps \cup CallSteps]
    OBVIOUS
  <2> QED BY <2>1, <2>2 DEF CallTyped
<1>4. CursorsInOrder
  BY CapAssumption DEF CursorsInOrder, Dist
<1>5. WaitedIsReady /\ ReadyInv
  BY DEF WaitedIsReady, ReadyInv
<1>6. CopyInv /\ BatchInv /\ RoomInv
  BY DEF CopyInv, BatchInv, RoomInv, Moving, Producer, Sides
<1> QED BY <1>1, <1>2, <1>3, <1>4, <1>5, <1>6 DEF IInv

-----------------------------------------------------------------------------
(* A step of side s that touches no cursor and no unit: waiting, notifying, *)
(* cancelling.                                                              *)
LEMMA QuietStep ==
  ASSUME IInv, NEW s \in Sides,
         UNCHANGED <<cursors, buf, batch, copied, dst>>, out' \in Seq(Data),
         cancelled' \in BOOLEAN, sig' \in [Sides -> BOOLEAN],
         NEW x \in {"idle", "notify", "cancel1", "cancel2"} \cup WaitSteps, NEW n \in 0..MaxBatch, NEW b \in BOOLEAN,
         pc[s] \notin Moving, pc' = [pc EXCEPT ![s] = x],
         asked' = [asked EXCEPT ![s] = n], ready' = [ready EXCEPT ![s] = b],
         b => Avail(s) >= n /\ x \in {"idle", "cancel1", "cancel2"}
  PROVE  IInv'
<1> USE DEF IInv
<1>a. /\ pc'[s] = x /\ asked'[s] = n /\ ready'[s] = b
      /\ \A r \in Sides : r # s => pc'[r] = pc[r] /\ asked'[r] = asked[r] /\ ready'[r] = ready[r]
  BY DEF CallTyped
<1>b. x \notin Moving /\ x # "refresh" /\ x \in {"idle"} \cup WaitSteps \cup CallSteps
  BY DEF Moving, WaitSteps, CallSteps
<1>c. \A r \in Sides : Avail(r)' = Avail(r) /\ CachedAvail(r)' = CachedAvail(r)
  BY DEF cursors, Avail, CachedAvail
<1>1. CursorTyped' /\ CursorsInOrder'
  BY DEF cursors, CursorTyped, CursorsInOrder
<1>2. DataTyped'
  BY DEF DataTyped
<1>3. CallTyped'
  BY <1>b DEF CallTyped
<1>4. WaitedIsReady'
  BY <1>a, <1>c DEF WaitedIsReady
<1>5. CopyInv'
  BY <1>a, <1>b DEF CopyInv, Moving
<1>6. BatchInv'
  BY <1>a, <1>b DEF BatchInv, Moving, Sides
<1>7. RoomInv'
  BY <1>a, <1>b, <1>c DEF RoomInv
<1>8. ReadyInv'
  BY <1>a DEF ReadyInv
<1> QED BY <1>1, <1>2, <1>3, <1>4, <1>5, <1>6, <1>7, <1>8

LEMMA SignalTyped ==
  ASSUME IInv, NEW s \in Sides, Signal(s)
  PROVE  sig' \in [Sides -> BOOLEAN]
<1>1. sig \in [Sides -> BOOLEAN]
  BY DEF IInv, CallTyped
<1>2. (sig[s] \/ pc[s] \in Prepared) \in BOOLEAN
  BY <1>1
<1> QED BY <1>1, <1>2 DEF Signal

\* A wait that goes on, or gives its answer.
LEMMA WaitGoesOn ==
  ASSUME IInv, NEW s \in Sides, NEW x \in WaitSteps, WaitFrame,
         pc[s] \in WaitSteps, ready[s] = FALSE, Goto(s, x), UNCHANGED <<asked, ready>>,
         sig' \in [Sides -> BOOLEAN]
  PROVE  IInv'
<1>1. /\ asked' = [asked EXCEPT ![s] = asked[s]] /\ ready' = [ready EXCEPT ![s] = FALSE]
      /\ asked[s] \in 0..MaxBatch
  BY DEF IInv, CallTyped
<1>2. /\ pc[s] \notin Moving
      /\ x \in {"idle", "notify", "cancel1", "cancel2"} \cup WaitSteps
  BY DEF Moving, WaitSteps
<1>3. out' \in Seq(Data) /\ cancelled' \in BOOLEAN /\ UNCHANGED <<cursors, buf, batch, copied, dst>>
  BY DEF WaitFrame, IInv, DataTyped, CallTyped
<1>4. pc' = [pc EXCEPT ![s] = x]
  BY DEF Goto
<1> QED BY <1>1, <1>2, <1>3, <1>4, QuietStep

LEMMA WaitReturns ==
  ASSUME IInv, NEW s \in Sides, NEW b \in BOOLEAN, WaitFrame,
         pc[s] \in WaitSteps, Return(s, b), b => Avail(s) >= asked[s]
  PROVE  IInv'
<1> DEFINE n == IF b THEN asked[s] ELSE 0
<1>1. n \in 0..MaxBatch /\ (b => n = asked[s])
  BY CapAssumption DEF IInv, CallTyped
<1>2. asked' = [asked EXCEPT ![s] = n] /\ ready' = [ready EXCEPT ![s] = b]
  BY DEF Return
<1>3. pc[s] \notin Moving /\ pc' = [pc EXCEPT ![s] = "idle"]
  BY DEF Moving, WaitSteps, Return, Goto
<1>4. out' \in Seq(Data) /\ cancelled' \in BOOLEAN /\ UNCHANGED <<cursors, buf, batch, copied, dst>>
  BY DEF WaitFrame, IInv, DataTyped, CallTyped
<1>5. sig' \in [Sides -> BOOLEAN]
  BY DEF Return, IInv, CallTyped
<1> HIDE DEF n
<1> QED BY <1>1, <1>2, <1>3, <1>4, <1>5, QuietStep

LEMMA WaitingStep ==
  ASSUME IInv, NEW s \in Sides, Wait(s) \/ WaitReturn(s)
  PROVE  IInv'
<1>1. pc[s] \in WaitSteps => ready[s] = FALSE
  BY DEF IInv, ReadyInv, CallTyped, WaitSteps
<1>2. sig \in [Sides -> BOOLEAN] /\ Avail(s) \in Int /\ asked[s] \in Int
  <2>1. Avail(s) \in Int
    BY AvailTyped, CapAssumption
  <2>2. sig \in [Sides -> BOOLEAN] /\ asked[s] \in 0..MaxBatch
    BY DEF IInv, CallTyped
  <2> QED BY <2>1, <2>2
<1>3. CASE WaitTest(s)
  <2>1. pc[s] \in WaitSteps /\ WaitFrame /\ "cancelled?" \in WaitSteps
    BY <1>3 DEF WaitTest, WaitSteps
  <2>2. CASE Avail(s) >= asked[s] /\ Return(s, TRUE)
    BY <2>1, <2>2, WaitReturns
  <2>3. CASE Return(s, FALSE)
    BY <2>1, <2>3, WaitReturns
  <2>4. CASE Goto(s, "cancelled?") /\ Continue
    BY <1>1, <1>2, <2>1, <2>4, WaitGoesOn DEF Continue
  <2> QED BY <1>3, <2>2, <2>3, <2>4 DEF WaitTest
<1>4. CASE WaitCancelled(s)
  <2>1. pc[s] \in WaitSteps /\ WaitFrame /\ "prepare" \in WaitSteps
    BY <1>4 DEF WaitCancelled, WaitSteps
  <2>2. CASE Return(s, FALSE)
    BY <2>1, <2>2, WaitReturns
  <2>3. CASE Goto(s, "prepare") /\ Continue
    BY <1>1, <1>2, <2>1, <2>3, WaitGoesOn DEF Continue
  <2> QED BY <1>4, <2>2, <2>3 DEF WaitCancelled
<1>5. CASE WaitPrepare(s)
  <2>1. pc[s] \in WaitSteps /\ "retest" \in WaitSteps
    BY <1>5 DEF WaitPrepare, Step, WaitSteps
  <2>2. sig' \in [Sides -> BOOLEAN]
    BY <1>2, <1>5 DEF WaitPrepare
  <2> QED BY <1>1, <1>5, <2>1, <2>2, WaitGoesOn DEF WaitPrepare, Step
<1>6. CASE WaitRetest(s)
  <2>1. pc[s] \in WaitSteps /\ WaitFrame /\ "recancelled?" \in WaitSteps
    BY <1>6 DEF WaitRetest, WaitSteps
  <2>2. CASE RetestGoes(s) /\ Return(s, TRUE)
    BY <2>1, <2>2, WaitReturns DEF RetestGoes
  <2>3. CASE Goto(s, "recancelled?") /\ Continue
    BY <1>1, <1>2, <2>1, <2>3, WaitGoesOn DEF Continue
  <2> QED BY <1>6, <2>2, <2>3 DEF WaitRetest
<1>7. CASE WaitRecancelled(s)
  <2>1. pc[s] \in WaitSteps /\ WaitFrame /\ "deadline" \in WaitSteps
    BY <1>7 DEF WaitRecancelled, WaitSteps
  <2>2. CASE Return(s, FALSE)
    BY <2>1, <2>2, WaitReturns
  <2>3. CASE Goto(s, "deadline") /\ Continue
    BY <1>1, <1>2, <2>1, <2>3, WaitGoesOn DEF Continue
  <2> QED BY <1>7, <2>2, <2>3 DEF WaitRecancelled
<1>8. CASE WaitDeadline(s)
  <2>1. pc[s] \in WaitSteps /\ "lasttest" \in WaitSteps /\ "waiting" \in WaitSteps
    BY <1>8 DEF WaitDeadline, Step, WaitSteps
  <2>2. WaitFrame /\ Continue /\ (Goto(s, "lasttest") \/ Goto(s, "waiting"))
    BY <1>8 DEF WaitDeadline, Step
  <2> QED BY <1>1, <1>2, <2>1, <2>2, WaitGoesOn DEF Continue
<1>9. CASE WaitLastTest(s)
  <2>1. pc[s] \in WaitSteps /\ WaitFrame
    BY <1>9 DEF WaitLastTest, WaitSteps
  <2>2. (Avail(s) >= asked[s]) \in BOOLEAN /\ Return(s, Avail(s) >= asked[s])
    BY <1>2, <1>9 DEF WaitLastTest
  <2> QED BY <2>1, <2>2, WaitReturns
<1>10. CASE WaitReturn(s)
  <2>1. pc[s] \in WaitSteps /\ "prepare" \in WaitSteps
    BY <1>10 DEF WaitReturn, Step, WaitSteps
  <2>2. sig' \in [Sides -> BOOLEAN]
    BY <1>2, <1>10 DEF WaitReturn
  <2> QED BY <1>1, <1>10, <2>1, <2>2, WaitGoesOn DEF WaitReturn, Step
<1> QED BY <1>3, <1>4, <1>5, <1>6, <1>7, <1>8, <1>9, <1>10 DEF Wait

\* The other quiet steps: a wait begins, a call notifies, either side cancels.
LEMMA CallStep ==
  ASSUME IInv, NEW s \in Sides,
         \/ \E n \in 1..Fits(Cap, MaxBatch) : BeginWait(s, n)
         \/ NotifyOther(s) \/ Cancel(s) \/ CancelNotify(s)
  PROVE  IInv'
<1>1. /\ sig \in [Sides -> BOOLEAN] /\ cancelled \in BOOLEAN /\ out \in Seq(Data)
      /\ asked \in [Sides -> 0..MaxBatch] /\ ready \in [Sides -> BOOLEAN]
      /\ <<>> \in Seq(Data) /\ 0 \in 0..MaxBatch
  BY CapAssumption DEF IInv, CallTyped, DataTyped
<1>2. \A r \in Sides : Signal(r) => sig' \in [Sides -> BOOLEAN]
  BY SignalTyped
<1>3. ASSUME NEW n \in 1..Fits(Cap, MaxBatch), BeginWait(s, n) PROVE IInv'
  <2>1. n \in 0..MaxBatch /\ "test" \in WaitSteps
    BY CapAssumption DEF Fits, WaitSteps
  <2>2. pc[s] \notin Moving /\ pc' = [pc EXCEPT ![s] = "test"]
    BY <1>3 DEF BeginWait, Step, Goto, Moving
  <2>3. /\ asked' = [asked EXCEPT ![s] = n] /\ ready' = [ready EXCEPT ![s] = FALSE]
        /\ UNCHANGED <<cursors, buf, batch, copied, dst>>
        /\ out' \in Seq(Data) /\ cancelled' \in BOOLEAN /\ sig' \in [Sides -> BOOLEAN]
    BY <1>1, <1>3 DEF BeginWait
  <2> QED BY <2>1, <2>2, <2>3, QuietStep
<1>4. CASE NotifyOther(s)
  <2>1. pc[s] = "notify" /\ pc' = [pc EXCEPT ![s] = "idle"] /\ Other(s) \in Sides
    BY <1>4 DEF NotifyOther, Step, Goto, Other, Sides
  <2>2. ready[s] = FALSE
    BY <1>1, <2>1 DEF IInv, ReadyInv
  <2>3. sig' \in [Sides -> BOOLEAN]
    BY <1>2, <1>4, <2>1 DEF NotifyOther, Notified
  <2>4. /\ asked' = [asked EXCEPT ![s] = 0] /\ ready' = [ready EXCEPT ![s] = FALSE]
        /\ UNCHANGED <<cursors, buf, batch, copied, dst>>
        /\ out' \in Seq(Data) /\ cancelled' \in BOOLEAN
    BY <1>1, <1>4, <2>2 DEF NotifyOther
  <2>5. pc[s] \notin Moving
    BY <2>1 DEF Moving
  <2> QED BY <1>1, <2>1, <2>3, <2>4, <2>5, QuietStep
<1>5. CASE Cancel(s) \/ CancelNotify(s)
  <2>1. PICK x \in {"idle", "cancel1", "cancel2"} :
          pc[s] \in {"idle", "cancel1", "cancel2"} /\ pc' = [pc EXCEPT ![s] = x]
    BY <1>5 DEF Cancel, CancelNotify, Step, Goto
  <2>2. /\ sig' \in [Sides -> BOOLEAN] /\ cancelled' \in BOOLEAN /\ out' \in Seq(Data)
        /\ UNCHANGED <<cursors, buf, batch, copied, dst, asked, ready>>
    BY <1>1, <1>2, <1>5 DEF Cancel, CancelNotify, Sides
  <2>3. /\ asked' = [asked EXCEPT ![s] = asked[s]] /\ ready' = [ready EXCEPT ![s] = ready[s]]
        /\ asked[s] \in 0..MaxBatch /\ ready[s] \in BOOLEAN
    BY <1>1, <2>2
  <2>4. ready[s] => Avail(s) >= asked[s]
    BY DEF IInv, WaitedIsReady
  <2>5. pc[s] \notin Moving
    BY <2>1 DEF Moving
  <2> QED BY <2>1, <2>2, <2>3, <2>4, <2>5, QuietStep
<1> QED BY <1>3, <1>4, <1>5

-----------------------------------------------------------------------------
(* Writing and reading.                                                     *)

\* A call is granted n units that fit by the caller's cached cursor.
LEMMA SettleStep ==
  ASSUME IInv, NEW s \in Sides, NEW n \in 0..MaxBatch, Settle(s, n),
         CursorTyped', CursorsInOrder', DataTyped', n <= CachedAvail(s)',
         \A r \in Sides : Avail(r)' = Avail(r),
         \A r \in Sides : r # s => CachedAvail(r)' = CachedAvail(r),
         pc[s] \notin Moving, s = Producer => n <= Len(batch'), s # Producer => batch' = batch,
         UNCHANGED <<cancelled, sig, copied>>, ready' = [ready EXCEPT ![s] = FALSE]
  PROVE  IInv'
<1> USE DEF IInv
<1> DEFINE x == IF n = 0 THEN "idle" ELSE "copy"
<1>a. /\ pc' = [pc EXCEPT ![s] = x] /\ asked' = [asked EXCEPT ![s] = n]
      /\ x \in {"idle"} \cup CallSteps
  BY DEF Settle, Goto, CallSteps
<1>b. /\ pc'[s] = x /\ asked'[s] = n /\ ready'[s] = FALSE
      /\ \A r \in Sides : r # s => pc'[r] = pc[r] /\ asked'[r] = asked[r] /\ ready'[r] = ready[r]
  BY <1>a DEF CallTyped
<1>1. CallTyped'
  BY <1>a DEF CallTyped
<1>2. WaitedIsReady'
  BY <1>b DEF WaitedIsReady
<1>3. CopyInv'
  BY <1>b, CapAssumption DEF CopyInv, Moving
<1>4. BatchInv'
  BY <1>b DEF BatchInv, Sides
<1>5. RoomInv'
  BY <1>b DEF RoomInv, Moving
<1>6. ReadyInv'
  BY <1>b DEF ReadyInv
<1> QED BY <1>1, <1>2, <1>3, <1>4, <1>5, <1>6

LEMMA BeginStep ==
  ASSUME IInv, NEW s \in Sides, NEW n \in 0..MaxBatch, Begin(s, n), batch' \in Seq(Data),
         s = Producer => n <= Len(batch'), s # Producer => batch' = batch
  PROVE  IInv'
<1>1. /\ CursorTyped' /\ CursorsInOrder' /\ DataTyped'
      /\ \A r \in Sides : Avail(r)' = Avail(r) /\ CachedAvail(r)' = CachedAvail(r)
  BY DEF Begin, IInv, CursorTyped, CursorsInOrder, DataTyped, cursors, Avail, CachedAvail
<1>2. pc[s] \notin Moving /\ ready' = [ready EXCEPT ![s] = FALSE] /\ UNCHANGED <<cancelled, sig, copied>>
  BY DEF Begin, Moving
<1>3. CachedAvail(s) \in Int
  BY AvailTyped, CapAssumption
<1>4. CASE ~(CachedAvail(s) < n)
  <2>1. Settle(s, n) /\ n <= CachedAvail(s)'
    BY <1>1, <1>3, <1>4 DEF Begin
  <2> QED BY <1>1, <1>2, <2>1, SettleStep
<1>5. CASE CachedAvail(s) < n
  <2>1. pc' = [pc EXCEPT ![s] = "refresh"] /\ asked' = [asked EXCEPT ![s] = n]
    BY <1>5 DEF Begin, Goto
  <2>2. /\ pc'[s] = "refresh" /\ asked'[s] = n /\ ready'[s] = FALSE
        /\ \A r \in Sides : r # s => pc'[r] = pc[r] /\ asked'[r] = asked[r] /\ ready'[r] = ready[r]
    BY <1>2, <2>1 DEF IInv, CallTyped
  <2>3. CallTyped'
    BY <1>2, <2>1 DEF IInv, CallTyped, CallSteps
  <2>4. WaitedIsReady' /\ ReadyInv'
    BY <1>1, <2>2 DEF IInv, WaitedIsReady, ReadyInv
  <2>5. CopyInv'
    BY <1>2, <2>2 DEF IInv, CopyInv, Moving
  <2>6. BatchInv'
    BY <2>2 DEF IInv, BatchInv, Sides
  <2>7. RoomInv'
    BY <1>1, <2>2 DEF IInv, RoomInv, Moving
  <2> QED BY <1>1, <2>3, <2>4, <2>5, <2>6, <2>7 DEF IInv
<1> QED BY <1>4, <1>5

LEMMA BeginWriteStep ==
  ASSUME IInv, NEW data \in Batches, BeginWrite(data)
  PROVE  IInv'
<1>1. PICK n \in 1..MaxBatch : data \in [1..n -> Data]
  BY DEF Batches
<1>2. n \in Nat /\ n \in 0..MaxBatch
  BY <1>1, CapAssumption
<1>3. data \in Seq(Data) /\ Len(data) = n
  BY <1>1, <1>2
<1>4. batch' = data /\ Begin(Producer, n)
  BY <1>3 DEF BeginWrite
<1> QED BY <1>2, <1>3, <1>4, BeginStep DEF Sides

LEMMA BeginReadStep ==
  ASSUME IInv, NEW n \in 1..MaxBatch, BeginRead(n)
  PROVE  IInv'
<1>1. n \in 0..MaxBatch /\ batch' \in Seq(Data) /\ batch' = batch
  BY CapAssumption DEF BeginRead, IInv, DataTyped
<1>2. Consumer \in Sides /\ Consumer # Producer /\ Begin(Consumer, n)
  BY DEF BeginRead, Sides, Consumer, Producer
<1> QED BY <1>1, <1>2, BeginStep

LEMMA RefreshStep ==
  ASSUME IInv, RefreshTail \/ RefreshHead
  PROVE  IInv'
<1>1. /\ Producer \in Sides /\ Consumer \in Sides /\ Producer # Consumer
      /\ Sides = {Producer, Consumer}
  BY DEF Sides, Producer, Consumer
<1>2. \A s \in Sides : Avail(s) \in 0..Cap /\ asked[s] \in 0..MaxBatch
  BY AvailTyped DEF IInv, CallTyped
<1>3. \A s \in Sides : /\ Fits(Avail(s), asked[s]) \in 0..MaxBatch
                       /\ Fits(Avail(s), asked[s]) <= Avail(s)
                       /\ Fits(Avail(s), asked[s]) <= asked[s]
  BY <1>2, CapAssumption DEF Fits
<1>4. Dist(head, tail) \in 0..CursorMod - 1
  BY DistTyped DEF IInv, CursorTyped
<1>5. CASE RefreshTail
  <2>1. /\ pc[Producer] = "refresh" /\ Settle(Producer, Fits(Avail(Producer), asked[Producer]))
        /\ cachedTail' = tail /\ UNCHANGED <<head, tail, cachedHead, buf, cancelled, sig, batch, copied, dst, out, ready>>
    BY <1>5 DEF RefreshTail
  <2>2. CursorTyped' /\ DataTyped'
    BY <2>1 DEF IInv, CursorTyped, DataTyped
  <2>3. CursorsInOrder'
    BY <2>1, <1>4 DEF IInv, CursorsInOrder
  <2>4. /\ \A r \in Sides : Avail(r)' = Avail(r)
        /\ \A r \in Sides : r # Producer => CachedAvail(r)' = CachedAvail(r)
        /\ CachedAvail(Producer)' = Avail(Producer)
    BY <2>1 DEF Avail, CachedAvail
  <2>5. ready' = [ready EXCEPT ![Producer] = FALSE]
    BY <1>1, <2>1 DEF IInv, ReadyInv, CallTyped
  <2>6. Fits(Avail(Producer), asked[Producer]) <= Len(batch')
    BY <1>1, <1>2, <1>3, <2>1 DEF IInv, BatchInv, DataTyped
  <2>7. pc[Producer] \notin Moving
    BY <2>1 DEF Moving
  <2> QED BY <1>1, <1>3, <2>1, <2>2, <2>3, <2>4, <2>5, <2>6, <2>7, SettleStep
<1>6. CASE RefreshHead
  <2>1. /\ pc[Consumer] = "refresh" /\ Settle(Consumer, Fits(Avail(Consumer), asked[Consumer]))
        /\ cachedHead' = head /\ UNCHANGED <<head, tail, cachedTail, buf, cancelled, sig, batch, copied, dst, out, ready>>
    BY <1>6 DEF RefreshHead
  <2>2. CursorTyped' /\ DataTyped'
    BY <2>1 DEF IInv, CursorTyped, DataTyped
  <2>3. CursorsInOrder'
    BY <2>1, <1>4 DEF IInv, CursorsInOrder
  <2>4. /\ \A r \in Sides : Avail(r)' = Avail(r)
        /\ \A r \in Sides : r # Consumer => CachedAvail(r)' = CachedAvail(r)
        /\ CachedAvail(Consumer)' = Avail(Consumer)
    BY <1>1, <2>1 DEF Avail, CachedAvail
  <2>5. ready' = [ready EXCEPT ![Consumer] = FALSE]
    BY <1>1, <2>1 DEF IInv, ReadyInv, CallTyped
  <2>6. pc[Consumer] \notin Moving
    BY <2>1 DEF Moving
  <2> QED BY <1>1, <1>3, <2>1, <2>2, <2>3, <2>4, <2>5, <2>6, SettleStep
<1> QED BY <1>5, <1>6

\* A copied unit leaves the cursors alone.
LEMMA CopyCount ==
  ASSUME IInv, NEW s \in Sides, CopyStep(s), DataTyped'
  PROVE  IInv'
<1> USE DEF IInv
<1> DEFINE x == IF LastUnit(s) THEN "publish" ELSE "copy"
<1>1. /\ pc[s] = "copy" /\ pc' = [pc EXCEPT ![s] = x]
      /\ copied' = [copied EXCEPT ![s] = copied[s] + 1]
      /\ UNCHANGED <<cursors, cancelled, sig, batch, asked, out, ready>>
  BY DEF CopyStep, Goto
<1>2. copied[s] < asked[s] /\ copied[s] \in Nat /\ asked[s] \in 0..MaxBatch
  BY <1>1, CapAssumption DEF CopyInv, CallTyped
<1>3. copied[s] + 1 \in 0..MaxBatch
  BY <1>2, CapAssumption
<1>4. x \in CallSteps /\ x \in Moving /\ (x = "copy" => copied[s] + 1 < asked[s])
  BY <1>2 DEF CallSteps, Moving, LastUnit
<1>5. /\ pc'[s] = x /\ copied'[s] = copied[s] + 1
      /\ \A r \in Sides : r # s => pc'[r] = pc[r] /\ copied'[r] = copied[r]
  BY <1>1 DEF CallTyped
<1> HIDE DEF x
<1>6. CursorTyped' /\ CursorsInOrder'
  BY <1>1 DEF cursors, CursorTyped, CursorsInOrder
<1>7. CallTyped'
  BY <1>1, <1>3, <1>4 DEF CallTyped
<1>8. WaitedIsReady'
  BY <1>1 DEF WaitedIsReady, Avail, cursors
<1>9. CopyInv'
  BY <1>1, <1>4, <1>5 DEF CopyInv
<1>10. BatchInv'
  BY <1>1, <1>4, <1>5 DEF BatchInv, Moving, Sides
<1>11. RoomInv'
  BY <1>1, <1>5 DEF RoomInv, CachedAvail, cursors, Moving
<1>12. ReadyInv'
  BY <1>1, <1>5 DEF ReadyInv
<1> QED BY <1>6, <1>7, <1>8, <1>9, <1>10, <1>11, <1>12

LEMMA CellTyped ==
  ASSUME NEW c \in Nat
  PROVE  Cell(c) \in 0..Cap - 1
BY CapAssumption DEF Cell

LEMMA CopyBothStep ==
  ASSUME IInv, CopyIn \/ CopyOut
  PROVE  IInv'
<1> USE DEF IInv
<1>1. Producer \in Sides /\ Consumer \in Sides
  BY DEF Sides
<1>2. CASE CopyIn
  <2>1. pc[Producer] = "copy" /\ UNCHANGED <<batch, dst, out>>
    BY <1>2 DEF CopyIn, CopyStep
  <2>2. /\ copied[Producer] \in Nat /\ asked[Producer] \in Nat
        /\ copied[Producer] < asked[Producer] /\ asked[Producer] <= Len(batch)
    BY <1>1, <2>1, CapAssumption DEF CallTyped, CopyInv, BatchInv
  <2>3. batch[copied[Producer] + 1] \in Data
    BY <2>2 DEF DataTyped
  <2>4. head + copied[Producer] \in Nat
    BY <2>2, CapAssumption DEF CursorTyped
  <2>5. buf' \in [0..Cap - 1 -> Data]
    BY <1>2, <2>3, <2>4, CellTyped DEF CopyIn, DataTyped
  <2>6. DataTyped'
    BY <2>1, <2>5 DEF DataTyped
  <2> QED BY <1>1, <1>2, <2>6, CopyCount DEF CopyIn
<1>3. CASE CopyOut
  <2>1. UNCHANGED <<buf, batch, out>>
    BY <1>3 DEF CopyOut, CopyStep
  <2>2. tail + copied[Consumer] \in Nat
    BY <1>1, CapAssumption DEF CursorTyped, CallTyped
  <2>3. buf[Cell(tail + copied[Consumer])] \in Data
    BY <2>2, CellTyped DEF DataTyped
  <2>4. dst' \in Seq(Data)
    BY <1>3, <2>3 DEF CopyOut, DataTyped
  <2>5. DataTyped'
    BY <2>1, <2>4 DEF DataTyped
  <2> QED BY <1>1, <1>3, <2>5, CopyCount DEF CopyOut
<1> QED BY <1>2, <1>3

\* What a published call leaves to prove once the cursors are in order
LEMMA PublishStep ==
  ASSUME IInv, NEW s \in Sides, Step(s, "publish", "notify"),
         copied' = [copied EXCEPT ![s] = 0], UNCHANGED <<cancelled, sig, asked, ready>>,
         CursorTyped', CursorsInOrder', DataTyped',
         \A r \in Sides : r # s => Avail(r)' >= Avail(r) /\ CachedAvail(r)' = CachedAvail(r),
         s # Producer => batch' = batch
  PROVE  IInv'
<1> USE DEF IInv
<1>1. pc[s] = "publish" /\ pc' = [pc EXCEPT ![s] = "notify"]
  BY DEF Step, Goto
<1>2. /\ pc'[s] = "notify" /\ copied'[s] = 0
      /\ \A r \in Sides : r # s => pc'[r] = pc[r] /\ copied'[r] = copied[r]
  BY <1>1 DEF CallTyped
<1>3. CallTyped'
  BY <1>1, CapAssumption DEF CallTyped, CallSteps
<1>4. ready[s] = FALSE
  BY <1>1 DEF ReadyInv, CallTyped
<1>5. WaitedIsReady'
  <2> SUFFICES ASSUME NEW r \in Sides, ready[r] PROVE Avail(r)' >= asked[r]
    BY DEF WaitedIsReady
  <2>1. Avail(r)' >= Avail(r) /\ Avail(r) >= asked[r]
    BY <1>4 DEF WaitedIsReady
  <2>2. Avail(r) \in Int /\ asked[r] \in Int
    BY AvailTyped, CapAssumption DEF CallTyped
  <2>3. Avail(r)' \in Int
    BY DistTyped, CapAssumption DEF Avail, CursorTyped
  <2> QED BY <2>1, <2>2, <2>3
<1>6. CopyInv'
  BY <1>1, <1>2 DEF CopyInv, Moving
<1>7. BatchInv'
  BY <1>2 DEF BatchInv, Sides
<1>8. RoomInv'
  BY <1>2 DEF RoomInv, Moving
<1>9. ReadyInv'
  BY <1>2, <1>4 DEF ReadyInv
<1> QED BY <1>3, <1>5, <1>6, <1>7, <1>8, <1>9

LEMMA PublishBothStep ==
  ASSUME IInv, PublishHead \/ PublishTail
  PROVE  IInv'
<1> USE DEF IInv
<1>1. /\ Producer \in Sides /\ Consumer \in Sides /\ Producer # Consumer
      /\ \A r \in Sides : r = Producer \/ r = Consumer
  BY DEF Sides, Producer, Consumer
<1>2. /\ Dist(head, tail) \in 0..CursorMod - 1 /\ Dist(head, cachedTail) \in 0..CursorMod - 1
      /\ Dist(cachedHead, tail) \in 0..CursorMod - 1
  BY DistTyped DEF CursorTyped
<1>3. asked[Producer] \in Nat /\ asked[Consumer] \in Nat
  BY <1>1, CapAssumption DEF CallTyped
<1>4. CASE PublishHead
  <2> DEFINE n == asked[Producer]
  <2>1. Dist(head, cachedTail) + n <= Cap
    <3>1. n <= CachedAvail(Producer)
      BY <1>1, <1>4 DEF PublishHead, Step, RoomInv, Moving
    <3> QED BY <1>2, <1>3, <3>1, CapAssumption DEF CachedAvail
  <2>2. Dist(head, tail) + n <= Cap
    BY <1>2, <1>3, <2>1, CapAssumption DEF CursorsInOrder
  <2>3. /\ head' = Advance(head, n)
        /\ UNCHANGED <<tail, cachedTail, cachedHead, buf, cancelled, sig, asked, dst, out, ready>>
    BY <1>4 DEF PublishHead
  <2>4. /\ head' \in 0..CursorMod - 1
        /\ Dist(head', tail) = Dist(head, tail) + n
        /\ Dist(head', cachedTail) = Dist(head, cachedTail) + n
    BY <1>3, <2>1, <2>2, <2>3, AdvanceLead DEF CursorTyped
  <2> HIDE DEF n
  <2>5. n \in Nat
    BY <1>3 DEF n
  <2>6. CursorTyped'
    BY <2>3, <2>4 DEF CursorTyped
  <2>7. CursorsInOrder'
    BY <1>2, <2>1, <2>2, <2>3, <2>4, <2>5, CapAssumption DEF CursorsInOrder
  <2>8. DataTyped'
    BY <1>4, <2>3 DEF PublishHead, DataTyped
  <2>9. /\ Avail(Consumer)' >= Avail(Consumer)
        /\ CachedAvail(Consumer)' = CachedAvail(Consumer)
    BY <1>1, <1>2, <2>3, <2>4, <2>5 DEF Avail, CachedAvail
  <2> QED BY <1>1, <1>4, <2>3, <2>6, <2>7, <2>8, <2>9, PublishStep DEF PublishHead
<1>5. CASE PublishTail
  <2> DEFINE n == asked[Consumer]
  <2>1. n <= Dist(cachedHead, tail)
    <3>1. n <= CachedAvail(Consumer)
      BY <1>1, <1>5 DEF PublishTail, Step, RoomInv, Moving
    <3> QED BY <1>1, <3>1 DEF CachedAvail
  <2>2. n <= Dist(head, tail)
    BY <1>2, <1>3, <2>1 DEF CursorsInOrder
  <2>3. /\ tail' = Advance(tail, n)
        /\ UNCHANGED <<head, cachedTail, cachedHead, buf, cancelled, sig, batch, asked, ready>>
    BY <1>5 DEF PublishTail
  <2>4. /\ tail' \in 0..CursorMod - 1
        /\ Dist(head, tail') = Dist(head, tail) - n
        /\ Dist(cachedHead, tail') = Dist(cachedHead, tail) - n
    BY <1>3, <2>1, <2>2, <2>3, AdvanceTrail DEF CursorTyped
  <2> HIDE DEF n
  <2>5. n \in Nat
    BY <1>3 DEF n
  <2>6. CursorTyped'
    BY <2>3, <2>4 DEF CursorTyped
  <2>7. CursorsInOrder'
    BY <1>2, <2>1, <2>2, <2>3, <2>4, <2>5, CapAssumption DEF CursorsInOrder
  <2>8. DataTyped'
    BY <1>5, <2>3 DEF PublishTail, DataTyped
  <2>9. /\ Avail(Producer)' >= Avail(Producer)
        /\ CachedAvail(Producer)' = CachedAvail(Producer)
    BY <1>2, <2>3, <2>4, <2>5, CapAssumption DEF Avail, CachedAvail
  <2> QED BY <1>1, <1>5, <2>3, <2>6, <2>7, <2>8, <2>9, PublishStep DEF PublishTail
<1> QED BY <1>4, <1>5

-----------------------------------------------------------------------------
LEMMA NextIInv == IInv /\ [Next]_vars => IInv'
<1> SUFFICES ASSUME IInv, [Next]_vars PROVE IInv'
  OBVIOUS
<1>1. CASE UNCHANGED vars
  BY <1>1 DEF vars, cursors, IInv, CursorTyped, DataTyped, CallTyped, CursorsInOrder, WaitedIsReady,
              Avail, CachedAvail, CopyInv, BatchInv, RoomInv, ReadyInv
<1>2. CASE Call
  BY <1>2, BeginWriteStep, BeginReadStep, CallStep DEF Call
<1>3. ASSUME NEW s \in Sides, Run(s) PROVE IInv'
  BY <1>3, RefreshStep, CopyBothStep, PublishBothStep, CallStep, WaitingStep DEF Run, Write, Read
<1>4. ASSUME NEW s \in Sides, WaitReturn(s) PROVE IInv'
  BY <1>4, WaitingStep
<1> QED BY <1>1, <1>2, <1>3, <1>4 DEF Next

LEMMA Invariant == Spec => []IInv
  BY InitIInv, NextIInv, PTL DEF Spec

-----------------------------------------------------------------------------
(* Every variable keeps its type; in particular a call copies no more units *)
(* than it was given, from cells of the ring (retro_spsc.c:386-478).        *)
THEOREM TypeCorrect == Spec => []TypeOK
<1>1. IInv => TypeOK
  BY DEF IInv, TypeOK, CursorTyped, DataTyped, CallTyped
<1> QED BY <1>1, Invariant, PTL

(* The ring never holds more than its capacity, and neither thread's copy   *)
(* of the other's cursor is ahead of it, across the wrap of the cursors     *)
(* (retro_spsc.c:400).                                                      *)
THEOREM CursorsInOrderHolds == Spec => []CursorsInOrder
<1>1. IInv => CursorsInOrder
  BY DEF IInv
<1> QED BY <1>1, Invariant, PTL

(* What a wait has promised stays true until its caller's next call         *)
(* (retro_waitable_spsc.c:137-175).                                         *)
THEOREM WaitedIsReadyHolds == Spec => []WaitedIsReady
<1>1. IInv => WaitedIsReady
  BY DEF IInv
<1> QED BY <1>1, Invariant, PTL

(* No cell is copied in by one thread while the other copies it out: what    *)
(* the two calls have been granted together is no more than the ring         *)
(* (retro_spsc.c:448-456, 507-514).                                          *)
THEOREM NoSharedCellHolds == Spec => []NoSharedCell
<1>1. IInv => NoSharedCell
  <2> SUFFICES ASSUME IInv, NEW x \in Copying(Producer), x \in Copying(Consumer) PROVE FALSE
    BY DEF NoSharedCell
  <2>1. pc[Producer] \in Moving /\ pc[Consumer] \in Moving
    BY DEF Copying, Moving
  <2>2. PICK i \in 0..asked[Producer] - 1 : x = Cell(head + i)
    BY <2>1 DEF Copying, Moving
  <2>3. PICK j \in 0..asked[Consumer] - 1 : x = Cell(tail + j)
    BY <2>1 DEF Copying, Moving, Producer, Consumer
  <2> DEFINE D == Dist(head, tail)
  <2>4. Producer \in Sides /\ Consumer \in Sides /\ Consumer # Producer
    BY DEF Sides, Producer, Consumer
  <2>5. /\ head \in Nat /\ tail \in Nat /\ asked[Producer] \in Nat /\ asked[Consumer] \in Nat
        /\ D \in Nat /\ Cap \in Nat /\ CursorMod \in Nat
    BY <2>4, DistTyped, CapAssumption DEF IInv, CursorTyped, CallTyped
  <2>6. asked[Producer] <= Cap - D /\ asked[Consumer] <= D
    <3>1. \A s \in Sides : /\ asked[s] \in Nat /\ Avail(s) \in Nat /\ CachedAvail(s) \in Nat
                          /\ CachedAvail(s) <= Avail(s)
      BY AvailTyped, CapAssumption DEF IInv, CallTyped
    <3>2. asked[Producer] <= Avail(Producer) /\ asked[Consumer] <= Avail(Consumer)
      BY <2>1, <2>4, <3>1 DEF IInv, RoomInv
    <3> QED BY <2>4, <3>2 DEF Avail
  <2>7. i \in Nat /\ j \in Nat /\ D + i < Cap /\ j < D
    BY <2>5, <2>6
  <2>8. Cell(head + i) = Cell(tail + D + i)
    BY <2>7, HeadCell DEF IInv
  <2> HIDE DEF D
  <2>9. /\ tail + j \in Nat /\ tail + D + i \in Nat
        /\ tail + j < tail + D + i /\ (tail + D + i) - (tail + j) < Cap
    BY <2>5, <2>7
  <2>10. Cell(tail + j) # Cell(tail + D + i)
    BY <2>9, CellsDiffer
  <2> QED BY <2>2, <2>3, <2>8, <2>10
<1> QED BY <1>1, Invariant, PTL

-----------------------------------------------------------------------------
(* The queue is the FIFO of its published cells (BoundedFifo).  What a call  *)
(* in progress has copied is already where the FIFO will have it: the units  *)
(* written behind the published ones, the units read in front of the rest.   *)

\* A call that moves units moves at least one, and publishes all of them.
MoveInv ==
  \A s \in Sides : /\ pc[s] \in Moving => asked[s] > 0
                   /\ pc[s] = "publish" => copied[s] = asked[s]

WriteInv ==
  /\ pc[Producer] \in Moving \cup {"refresh"} => Len(batch) \in 1..MaxBatch
  /\ pc[Producer] \in Moving => asked[Producer] <= Len(batch)
  /\ \A i \in 1..copied[Producer] : batch[i] = buf[Cell(head + i - 1)]

ReadInv ==
  /\ Len(dst) = copied[Consumer]
  /\ \A i \in 1..copied[Consumer] : dst[i] = buf[Cell(tail + i - 1)]

\* What a read delivers is used before its caller's next call.
OutInv == out = <<>> \/ pc[Consumer] = "notify"

UnitsInv == MoveInv /\ WriteInv /\ ReadInv /\ OutInv

LEMMA TheSides ==
  /\ Producer \in Sides /\ Consumer \in Sides /\ Producer # Consumer
  /\ \A s \in Sides : s = Producer \/ s = Consumer
BY DEF Sides, Producer, Consumer

\* Reading n units moves every cell named from the tail by n.
LEMMA TailCell ==
  ASSUME CursorTyped, NEW n \in Nat, n < CursorMod, NEW i \in Nat
  PROVE  Cell(Advance(tail, n) + i) = Cell(tail + (n + i))
<1>1. tail \in Nat /\ tail < CursorMod /\ CursorMod \in Nat
  BY CapAssumption DEF CursorTyped
<1>2. CASE tail + n < CursorMod
  <2>1. Advance(tail, n) + i = tail + (n + i)
    BY <1>1, <1>2 DEF Advance
  <2> QED BY <2>1
<1>3. CASE ~(tail + n < CursorMod)
  <2>1. /\ Advance(tail, n) + i \in Nat
        /\ (Advance(tail, n) + i) + CursorMod = tail + (n + i)
    BY <1>1, <1>3 DEF Advance
  <2> QED BY <2>1, CellWraps
<1> QED BY <1>2, <1>3

\* What a write has been granted is free, what a read has been granted is
\* there.
LEMMA Granted ==
  ASSUME IInv, MoveInv
  PROVE  /\ Dist(head, tail) \in Nat /\ Dist(head, tail) <= Cap
         /\ asked[Producer] \in Nat /\ asked[Consumer] \in Nat
         /\ copied[Producer] \in Nat /\ copied[Consumer] \in Nat
         /\ \A s \in Sides : pc[s] \in Moving => copied[s] <= asked[s] /\ asked[s] <= Avail(s)
<1>1. Dist(head, tail) \in Nat /\ Dist(head, tail) <= Cap
  BY DistTyped, CapAssumption DEF IInv, CursorTyped, CursorsInOrder
<1>2. \A s \in Sides : asked[s] \in Nat /\ copied[s] \in Nat
  BY CapAssumption DEF IInv, CallTyped
<1>3. ASSUME NEW s \in Sides, pc[s] \in Moving PROVE copied[s] <= asked[s] /\ asked[s] <= Avail(s)
  <2>1. asked[s] <= CachedAvail(s)
    BY <1>3 DEF IInv, RoomInv
  <2>2. /\ CachedAvail(s) \in Int /\ Avail(s) \in Int
        /\ CachedAvail(s) <= Avail(s)
    BY AvailTyped, CapAssumption
  <2>3. copied[s] <= asked[s]
    BY <1>2, <1>3 DEF IInv, CopyInv, MoveInv, Moving
  <2> QED BY <1>2, <2>1, <2>2, <2>3
<1> QED BY <1>1, <1>2, <1>3, TheSides

\* A cell ahead of the units counted from the tail is none of theirs.
LEMMA AheadCell ==
  ASSUME CursorTyped, NEW n \in Nat, NEW j \in Nat, j < n, n < Cap
  PROVE  Cell(tail + j) # Cell(tail + n)
<1>1. /\ tail + j \in Nat /\ tail + n \in Nat
      /\ tail + j < tail + n /\ (tail + n) - (tail + j) < Cap
  BY CapAssumption DEF CursorTyped
<1> QED BY <1>1, CellsDiffer

LEMMA InitUnits == Init => UnitsInv
<1> SUFFICES ASSUME Init PROVE UnitsInv
  OBVIOUS
<1> USE DEF Init
<1>1. MoveInv
  BY DEF MoveInv, Moving
<1>2. WriteInv
  BY TheSides DEF WriteInv, Moving
<1>3. ReadInv
  BY TheSides DEF ReadInv
<1> QED BY <1>1, <1>2, <1>3 DEF UnitsInv, OutInv

\* A step of side s that copies and publishes nothing
LEMMA UnitsKept ==
  ASSUME IInv, UnitsInv, NEW s \in Sides,
         UNCHANGED <<head, tail, buf, copied, dst>>, s = Consumer => batch' = batch,
         pc[s] \notin Moving, pc'[s] # "publish", pc'[s] = "copy" => asked'[s] > 0,
         \A r \in Sides : r # s => pc'[r] = pc[r] /\ asked'[r] = asked[r],
         s = Producer /\ pc'[s] \in {"copy", "refresh"} => Len(batch') \in 1..MaxBatch,
         s = Producer /\ pc'[s] = "copy" => asked'[s] <= Len(batch'),
         \/ out' = out /\ (s = Consumer => pc[s] # "notify")
         \/ s = Consumer /\ out' = <<>>
  PROVE  UnitsInv'
<1>1. copied[s] = 0
  BY DEF IInv, CopyInv
<1>2. MoveInv'
  BY DEF UnitsInv, MoveInv, Moving
<1>3. WriteInv'
  <2>1. CASE s = Producer
    <3>1. 1..copied[Producer] = {}
      BY <1>1, <2>1
    <3> QED BY <2>1, <3>1 DEF WriteInv, Moving
  <2>2. CASE s = Consumer
    <3>1. pc'[Producer] = pc[Producer] /\ asked'[Producer] = asked[Producer]
      BY <2>2, TheSides
    <3> QED BY <2>2, <3>1 DEF UnitsInv, WriteInv
  <2> QED BY <2>1, <2>2, TheSides
<1>4. ReadInv'
  BY DEF UnitsInv, ReadInv
<1>5. OutInv'
  BY TheSides DEF UnitsInv, OutInv
<1> QED BY <1>2, <1>3, <1>4, <1>5 DEF UnitsInv

\* Two sequences of the same elements are equal.
LEMMA SeqEqual ==
  ASSUME NEW S, NEW s \in Seq(S), NEW t \in Seq(S), Len(s) = Len(t),
         \A i \in 1..Len(s) : s[i] = t[i]
  PROVE  s = t
OBVIOUS

LEMMA TheRest ==
  ASSUME NEW S, NEW s \in Seq(S), NEW n \in Nat, n <= Len(s)
  PROVE  SubSeq(s, n + 1, Len(s)) = [i \in 1..Len(s) - n |-> s[n + i]]
<1> DEFINE r == SubSeq(s, n + 1, Len(s))
<1>1. r \in Seq(S) /\ Len(r) = Len(s) - n /\ \A i \in 1..Len(s) - n : r[i] = s[n + i]
  OBVIOUS
<1> HIDE DEF r
<1>2. r = [i \in 1..Len(s) - n |-> r[i]]
  BY <1>1
<1> QED BY <1>1, <1>2 DEF r

LEMMA SeqAsFunction ==
  ASSUME NEW S, NEW s \in Seq(S)
  PROVE  s \in [1..Len(s) -> S]
OBVIOUS

LEMMA Joined ==
  ASSUME NEW S, NEW s \in Seq(S), NEW t \in Seq(S)
  PROVE  s \o t = [i \in 1..Len(s) + Len(t) |-> IF i <= Len(s) THEN s[i] ELSE t[i - Len(s)]]
<1> DEFINE r == s \o t
           f == [i \in 1..Len(s) + Len(t) |-> IF i <= Len(s) THEN s[i] ELSE t[i - Len(s)]]
<1>1. r \in Seq(S) /\ Len(r) = Len(s) + Len(t)
  OBVIOUS
<1>2. \A i \in 1..Len(s) + Len(t) : r[i] = f[i]
  OBVIOUS
<1>3. r = [i \in 1..Len(r) |-> r[i]]
  <2> HIDE DEF r
  <2> QED BY <1>1
<1> HIDE DEF r
<1>4. r = [i \in 1..Len(s) + Len(t) |-> r[i]]
  BY <1>1, <1>3
<1>5. f = [i \in 1..Len(s) + Len(t) |-> f[i]]
  OBVIOUS
<1> HIDE DEF f
<1>6. r = f
  BY <1>2, <1>4, <1>5
<1> QED BY <1>6 DEF r, f

LEMMA ContentsTyped ==
  ASSUME Dist(head, tail) \in Nat, tail \in Nat, buf \in [0..Cap - 1 -> Data]
  PROVE  /\ Contents \in Seq(Data) /\ Len(Contents) = Dist(head, tail)
         /\ \A i \in 1..Dist(head, tail) : Contents[i] = buf[Cell(tail + i - 1)]
<1>1. ASSUME NEW i \in 1..Dist(head, tail) PROVE buf[Cell(tail + i - 1)] \in Data
  <2>1. tail + i - 1 \in Nat
    OBVIOUS
  <2> QED BY <2>1, CellTyped
<1> QED BY <1>1 DEF Contents

-----------------------------------------------------------------------------
(* Each step keeps what is copied in its place, and is a step of the FIFO or *)
(* none of its business.                                                     *)

FifoStep == [Fifo!Next]_(Fifo!vars)

LEMMA Stutter ==
  ASSUME UNCHANGED <<head, tail, buf, out, cancelled>>
  PROVE  FifoStep
<1>1. UNCHANGED Contents
  BY DEF Contents
<1> QED BY <1>1 DEF FifoStep, Fifo!vars

LEMMA WaitUnits ==
  ASSUME IInv, UnitsInv, NEW s \in Sides, Wait(s) \/ WaitReturn(s)
  PROVE  UnitsInv' /\ FifoStep
<1> DEFINE Others == \A r \in Sides : r # s => pc'[r] = pc[r] /\ asked'[r] = asked[r]
           Quiet == pc'[s] \in WaitSteps \cup {"idle"} /\ Others
<1>0. /\ pc \in [Sides -> {"idle"} \cup WaitSteps \cup CallSteps]
      /\ asked \in [Sides -> 0..MaxBatch]
  BY DEF IInv, CallTyped
<1>1. ASSUME NEW x \in WaitSteps, Goto(s, x), asked' = asked PROVE Quiet
  BY <1>0, <1>1 DEF Goto
<1>2. ASSUME NEW b, Return(s, b) PROVE Quiet
  BY <1>0, <1>2 DEF Return, Goto
<1>3. {"test", "cancelled?", "prepare", "retest", "recancelled?", "deadline", "lasttest", "waiting"} = WaitSteps
  BY DEF WaitSteps
<1>4. pc[s] \in WaitSteps /\ WaitFrame /\ Quiet
  <2>1. CASE WaitTest(s)
    BY <1>1, <1>2, <1>3, <2>1 DEF WaitTest, Continue
  <2>2. CASE WaitCancelled(s) \/ WaitRecancelled(s) \/ WaitRetest(s)
    BY <1>1, <1>2, <1>3, <2>2 DEF WaitCancelled, WaitRecancelled, WaitRetest, Continue
  <2>3. CASE WaitPrepare(s) \/ WaitDeadline(s) \/ WaitReturn(s)
    BY <1>1, <1>3, <2>3 DEF WaitPrepare, WaitDeadline, WaitReturn, Step, Continue
  <2>4. CASE WaitLastTest(s)
    BY <1>2, <1>3, <2>4 DEF WaitLastTest
  <2> QED BY <2>1, <2>2, <2>3, <2>4 DEF Wait
<1> HIDE DEF Quiet
<1>5. pc'[s] \in WaitSteps \cup {"idle"} /\ Others
  BY <1>4 DEF Quiet
<1>6. /\ pc[s] \notin Moving /\ pc[s] # "notify"
      /\ pc'[s] \notin {"publish", "copy", "refresh"}
  BY <1>4, <1>5 DEF WaitSteps, Moving
<1>7. UNCHANGED <<head, tail, buf, copied, dst, batch, out, cancelled>>
  BY <1>4 DEF WaitFrame, cursors
<1> QED BY <1>5, <1>6, <1>7, UnitsKept, Stutter

LEMMA BeginUnits ==
  ASSUME IInv, UnitsInv, NEW s \in Sides, NEW n \in 1..MaxBatch, Begin(s, n),
         s = Producer => Len(batch') = n, s = Consumer => batch' = batch
  PROVE  UnitsInv' /\ FifoStep
<1>1. /\ pc'[s] \in {"refresh", "copy"} /\ asked'[s] = n
      /\ \A r \in Sides : r # s => pc'[r] = pc[r] /\ asked'[r] = asked[r]
  BY CapAssumption DEF Begin, Settle, Goto, IInv, CallTyped
<1>2. pc[s] = "idle" /\ UNCHANGED <<head, tail, buf, copied, dst, out, cancelled>>
  BY DEF Begin, cursors
<1>3. n \in Nat /\ n > 0 /\ n <= n
  BY CapAssumption
<1> QED BY <1>1, <1>2, <1>3, UnitsKept, Stutter DEF Moving

LEMMA CallUnits ==
  ASSUME IInv, UnitsInv, Call
  PROVE  UnitsInv' /\ FifoStep
<1>1. ASSUME NEW data \in Batches, BeginWrite(data) PROVE UnitsInv' /\ FifoStep
  <2>1. PICK n \in 1..MaxBatch : data \in [1..n -> Data]
    BY DEF Batches
  <2>2. Len(data) = n
    BY <2>1, CapAssumption
  <2>3. Begin(Producer, n) /\ batch' = data
    BY <1>1, <2>2 DEF BeginWrite
  <2> QED BY <2>2, <2>3, BeginUnits, TheSides
<1>2. ASSUME NEW n \in 1..MaxBatch, BeginRead(n) PROVE UnitsInv' /\ FifoStep
  BY <1>2, BeginUnits, TheSides DEF BeginRead
<1>3. ASSUME NEW s \in Sides, NEW n \in 1..Fits(Cap, MaxBatch), BeginWait(s, n) PROVE UnitsInv' /\ FifoStep
  <2>1. /\ pc'[s] = "test" /\ pc[s] = "idle"
        /\ \A r \in Sides : r # s => pc'[r] = pc[r] /\ asked'[r] = asked[r]
    BY <1>3 DEF BeginWait, Step, Goto, IInv, CallTyped
  <2>2. UNCHANGED <<head, tail, buf, copied, dst, batch, out, cancelled>>
    BY <1>3 DEF BeginWait, cursors
  <2> QED BY <2>1, <2>2, UnitsKept, Stutter DEF Moving
<1>4. ASSUME NEW s \in Sides, Cancel(s) PROVE UnitsInv' /\ FifoStep
  <2>1. /\ pc'[s] = "cancel1" /\ pc[s] = "idle"
        /\ \A r \in Sides : r # s => pc'[r] = pc[r] /\ asked'[r] = asked[r]
    BY <1>4 DEF Cancel, Step, Goto, IInv, CallTyped
  <2>2. UNCHANGED <<head, tail, buf, copied, dst, batch, out>> /\ cancelled' = TRUE
    BY <1>4 DEF Cancel, cursors
  <2>3. UnitsInv'
    BY <2>1, <2>2, UnitsKept DEF Moving
  <2>4. UNCHANGED Contents
    BY <2>2 DEF Contents
  <2>5. Fifo!Cancel
    BY <2>2, <2>4 DEF Fifo!Cancel
  <2> QED BY <2>3, <2>5 DEF FifoStep, Fifo!Next
<1> QED BY <1>1, <1>2, <1>3, <1>4 DEF Call

LEMMA NotifyUnits ==
  ASSUME IInv, UnitsInv, NEW s \in Sides, NotifyOther(s) \/ CancelNotify(s)
  PROVE  UnitsInv' /\ FifoStep
<1>1. CASE NotifyOther(s)
  <2>1. /\ pc'[s] = "idle" /\ pc[s] = "notify"
        /\ \A r \in Sides : r # s => pc'[r] = pc[r] /\ asked'[r] = asked[r]
    BY <1>1 DEF NotifyOther, Step, Goto, IInv, CallTyped
  <2>2. /\ UNCHANGED <<head, tail, buf, copied, dst, batch, cancelled>>
        /\ out' = IF s = Consumer THEN <<>> ELSE out
    BY <1>1 DEF NotifyOther, cursors
  <2>3. UnitsInv'
    BY <2>1, <2>2, UnitsKept DEF Moving
  <2>4. UNCHANGED Contents
    BY <2>2 DEF Contents
  <2>5. CASE out' = out
    <3>1. cancelled' = cancelled
      BY <2>2
    <3> QED BY <2>3, <2>4, <2>5, <3>1 DEF FifoStep, Fifo!vars
  <2>6. CASE out' # out
    <3>1. out # <<>> /\ out' = <<>> /\ cancelled' = cancelled
      BY <2>2, <2>6
    <3>2. Fifo!Used
      BY <2>4, <3>1 DEF Fifo!Used
    <3> QED BY <2>3, <3>2 DEF FifoStep, Fifo!Next
  <2> QED BY <2>3, <2>5, <2>6
<1>2. CASE CancelNotify(s)
  <2>1. /\ pc'[s] \in {"cancel2", "idle"} /\ pc[s] \in {"cancel1", "cancel2"}
        /\ \A r \in Sides : r # s => pc'[r] = pc[r]
    BY <1>2 DEF CancelNotify, Step, Goto, IInv, CallTyped
  <2>2. UNCHANGED <<head, tail, buf, copied, dst, batch, asked, out, cancelled>>
    BY <1>2 DEF CancelNotify, cursors
  <2> QED BY <2>1, <2>2, UnitsKept, Stutter DEF Moving
<1> QED BY <1>1, <1>2

LEMMA RefreshUnits ==
  ASSUME IInv, UnitsInv, RefreshTail \/ RefreshHead
  PROVE  UnitsInv' /\ FifoStep
<1>1. \A s \in Sides : Avail(s) \in 0..Cap /\ asked[s] \in 0..MaxBatch
  BY AvailTyped DEF IInv, CallTyped
<1>2. \A s \in Sides : /\ Fits(Avail(s), asked[s]) \in Nat
                       /\ Fits(Avail(s), asked[s]) <= asked[s]
  BY <1>1, CapAssumption DEF Fits
<1>3. PICK s \in Sides : /\ pc[s] = "refresh" /\ Settle(s, Fits(Avail(s), asked[s]))
                         /\ UNCHANGED <<head, tail, buf, copied, dst, batch, out, cancelled>>
  BY TheSides DEF RefreshTail, RefreshHead
<1> DEFINE n == Fits(Avail(s), asked[s])
<1>4. n \in Nat /\ n <= asked[s] /\ asked[s] \in Nat
  BY <1>1, <1>2, CapAssumption
<1> HIDE DEF n
<1>5. /\ asked'[s] = n /\ pc'[s] = IF n = 0 THEN "idle" ELSE "copy"
      /\ \A r \in Sides : r # s => pc'[r] = pc[r] /\ asked'[r] = asked[r]
  BY <1>3 DEF Settle, Goto, IInv, CallTyped, n
<1>6. /\ pc'[s] # "publish" /\ pc'[s] # "refresh" /\ pc[s] \notin Moving /\ pc[s] # "notify"
      /\ pc'[s] = "copy" => asked'[s] > 0
  BY <1>3, <1>4, <1>5 DEF Moving
<1>7. s = Producer => Len(batch') \in 1..MaxBatch /\ asked'[s] <= Len(batch')
  <2>1. ASSUME s = Producer PROVE Len(batch) \in 1..MaxBatch /\ asked[s] <= Len(batch)
    BY <1>3, <2>1 DEF UnitsInv, WriteInv, IInv, BatchInv
  <2> QED BY <1>3, <1>4, <1>5, <2>1, CapAssumption
<1> QED BY <1>3, <1>5, <1>6, <1>7, UnitsKept, Stutter

\* A unit copied in lands behind the published ones and those already copied.
LEMMA CopyInUnits ==
  ASSUME IInv, UnitsInv, CopyIn
  PROVE  UnitsInv' /\ FifoStep
<1> DEFINE D == Dist(head, tail)
           c == copied[Producer]
           n == asked[Producer]
<1>1. /\ pc[Producer] = "copy"
      /\ pc'[Producer] = (IF LastUnit(Producer) THEN "publish" ELSE "copy")
      /\ copied'[Producer] = c + 1
      /\ pc'[Consumer] = pc[Consumer] /\ copied'[Consumer] = copied[Consumer]
      /\ UNCHANGED <<head, tail, cancelled, batch, asked, dst, out>>
      /\ buf' = [buf EXCEPT ![Cell(head + c)] = batch[c + 1]]
  BY TheSides DEF CopyIn, CopyStep, Goto, cursors, IInv, CallTyped
<1>2. /\ D \in Nat /\ n \in Nat /\ c \in Nat /\ c < n /\ D + n <= Cap
      /\ copied[Consumer] \in Nat /\ copied[Consumer] <= D
  <2>1. /\ D \in Nat /\ n \in Nat /\ c \in Nat /\ n <= Cap - D /\ Cap \in Nat
    BY <1>1, Granted, TheSides, CapAssumption DEF UnitsInv, Avail, Moving
  <2>2. c < n
    BY <1>1, TheSides DEF IInv, CopyInv
  <2>3. copied[Consumer] \in Nat /\ copied[Consumer] <= D
    <3>1. CASE pc[Consumer] \in Moving
      BY <3>1, Granted, TheSides DEF UnitsInv, Avail
    <3>2. CASE pc[Consumer] \notin Moving
      BY <2>1, <3>2, TheSides DEF IInv, CopyInv
    <3> QED BY <3>1, <3>2
  <2> QED BY <2>1, <2>2, <2>3
<1>3. CursorTyped /\ buf \in [0..Cap - 1 -> Data] /\ head \in Nat /\ tail \in Nat
  BY CapAssumption DEF IInv, CursorTyped, DataTyped
<1>4. Cell(head + c) = Cell(tail + (D + c)) /\ Cell(head + c) \in 0..Cap - 1
  <2>1. Cell(head + c) = Cell(tail + D + c)
    BY <1>2, <1>3, HeadCell
  <2>2. tail + D + c = tail + (D + c) /\ head + c \in Nat
    BY <1>2, <1>3
  <2> QED BY <2>1, <2>2, CellTyped
<1> HIDE DEF D, c, n
<1>5. ASSUME NEW j \in Nat, j < D + c PROVE buf'[Cell(tail + j)] = buf[Cell(tail + j)]
  <2>1. D + c \in Nat /\ D + c < Cap
    BY <1>2, CapAssumption
  <2>2. Cell(tail + j) # Cell(head + c)
    BY <1>3, <1>4, <1>5, <2>1, AheadCell
  <2> QED BY <1>1, <1>3, <2>2
<1>6. MoveInv'
  <2>1. c + 1 = n \/ pc'[Producer] = "copy"
    BY <1>1 DEF LastUnit, c, n
  <2>2. asked'[Producer] = n /\ n > 0 /\ copied'[Producer] = c + 1
    BY <1>1, <1>2 DEF n
  <2>3. asked'[Consumer] = asked[Consumer]
    BY <1>1
  <2> QED BY <1>1, <2>1, <2>2, <2>3, TheSides DEF UnitsInv, MoveInv, Moving
<1>7. WriteInv'
  <2>1. Len(batch) \in 1..MaxBatch /\ n <= Len(batch)
    BY <1>1 DEF UnitsInv, WriteInv, Moving, n
  <2>2. ASSUME NEW i \in 1..c + 1 PROVE batch[i] = buf'[Cell(head + i - 1)]
    <3>1. CASE i = c + 1
      <4>1. head + i - 1 = head + c
        BY <1>2, <1>3, <3>1
      <4> QED BY <1>1, <1>3, <1>4, <3>1, <4>1
    <3>2. CASE i # c + 1
      <4>1. i \in 1..c /\ i - 1 \in Nat /\ i - 1 < c
        BY <1>2, <3>2
      <4>2. batch[i] = buf[Cell(head + i - 1)]
        BY <4>1 DEF UnitsInv, WriteInv, c
      <4>3. Cell(head + (i - 1)) = Cell(tail + (D + (i - 1)))
        <5>1. Cell(head + (i - 1)) = Cell(tail + D + (i - 1))
          BY <1>3, <4>1, HeadCell DEF D
        <5> QED BY <1>2, <1>3, <4>1, <5>1
      <4>4. buf'[Cell(tail + (D + (i - 1)))] = buf[Cell(tail + (D + (i - 1)))]
        BY <1>2, <1>5, <4>1
      <4>5. head + (i - 1) = head + i - 1
        BY <1>3, <4>1
      <4> QED BY <4>2, <4>3, <4>4, <4>5
    <3> QED BY <3>1, <3>2
  <2>3. batch' = batch /\ head' = head /\ copied'[Producer] = c + 1 /\ asked'[Producer] = n
    BY <1>1 DEF n
  <2> QED BY <2>1, <2>2, <2>3 DEF WriteInv
<1>8. ReadInv'
  <2>1. ASSUME NEW i \in 1..copied[Consumer] PROVE dst[i] = buf'[Cell(tail + i - 1)]
    <3>1. i - 1 \in Nat /\ i - 1 < D + c
      BY <1>2
    <3>2. dst[i] = buf[Cell(tail + i - 1)]
      BY DEF UnitsInv, ReadInv
    <3>3. tail + (i - 1) = tail + i - 1
      BY <1>3, <3>1
    <3> QED BY <1>5, <3>1, <3>2, <3>3
  <2>2. Len(dst) = copied[Consumer]
    BY DEF UnitsInv, ReadInv
  <2>3. dst' = dst /\ tail' = tail /\ copied'[Consumer] = copied[Consumer]
    BY <1>1
  <2> QED BY <2>1, <2>2, <2>3 DEF ReadInv
<1>9. OutInv'
  BY <1>1 DEF UnitsInv, OutInv
<1>10. UNCHANGED Contents
  <2>1. ASSUME NEW i \in 1..D PROVE buf'[Cell(tail + i - 1)] = buf[Cell(tail + i - 1)]
    <3>1. i - 1 \in Nat /\ i - 1 < D + c
      BY <1>2
    <3>2. tail + (i - 1) = tail + i - 1
      BY <1>3, <3>1
    <3> QED BY <1>5, <3>1, <3>2
  <2>2. head' = head /\ tail' = tail
    BY <1>1
  <2> QED BY <2>1, <2>2 DEF Contents, D
<1>11. FifoStep
  BY <1>1, <1>10 DEF FifoStep, Fifo!vars
<1> QED BY <1>6, <1>7, <1>8, <1>9, <1>11 DEF UnitsInv

\* A unit copied out is the next of those the read will take.
LEMMA CopyOutUnits ==
  ASSUME IInv, UnitsInv, CopyOut
  PROVE  UnitsInv' /\ FifoStep
<1> DEFINE c == copied[Consumer]
           n == asked[Consumer]
<1>1. /\ pc[Consumer] = "copy"
      /\ pc'[Consumer] = (IF LastUnit(Consumer) THEN "publish" ELSE "copy")
      /\ copied'[Consumer] = c + 1
      /\ pc'[Producer] = pc[Producer] /\ copied'[Producer] = copied[Producer]
      /\ UNCHANGED <<head, tail, buf, cancelled, batch, asked, out>>
      /\ dst' = Append(dst, buf[Cell(tail + c)])
  BY TheSides DEF CopyOut, CopyStep, Goto, cursors, IInv, CallTyped
<1>2. /\ c \in Nat /\ n \in Nat /\ c < n /\ tail \in Nat /\ dst \in Seq(Data)
      /\ buf \in [0..Cap - 1 -> Data]
  BY <1>1, Granted, TheSides, CapAssumption DEF UnitsInv, IInv, CopyInv, CursorTyped, DataTyped
<1>3. buf[Cell(tail + c)] \in Data
  <2>1. tail + c \in Nat
    BY <1>2
  <2> QED BY <1>2, <2>1, CellTyped
<1> HIDE DEF c, n
<1>4. MoveInv'
  <2>1. c + 1 = n \/ pc'[Consumer] = "copy"
    BY <1>1 DEF LastUnit, c, n
  <2>2. asked'[Consumer] = n /\ n > 0 /\ copied'[Consumer] = c + 1
    BY <1>1, <1>2 DEF n
  <2>3. asked'[Producer] = asked[Producer]
    BY <1>1
  <2> QED BY <1>1, <2>1, <2>2, <2>3, TheSides DEF UnitsInv, MoveInv, Moving
<1>5. WriteInv'
  BY <1>1 DEF UnitsInv, WriteInv
<1>6. ReadInv'
  <2>1. Len(dst) = c /\ \A i \in 1..c : dst[i] = buf[Cell(tail + i - 1)]
    BY DEF UnitsInv, ReadInv, c
  <2>2. Len(dst') = c + 1
    BY <1>1, <1>2, <1>3, <2>1
  <2>3. ASSUME NEW i \in 1..c + 1 PROVE dst'[i] = buf[Cell(tail + i - 1)]
    <3>1. CASE i = c + 1
      <4>1. dst'[i] = buf[Cell(tail + c)]
        BY <1>1, <1>2, <1>3, <2>1, <3>1
      <4>2. tail + i - 1 = tail + c
        BY <1>2, <3>1
      <4> QED BY <4>1, <4>2
    <3>2. CASE i # c + 1
      <4>1. i \in 1..c
        BY <1>2, <3>2
      <4>2. dst'[i] = dst[i]
        BY <1>1, <1>2, <1>3, <2>1, <4>1
      <4> QED BY <2>1, <4>1, <4>2
    <3> QED BY <3>1, <3>2
  <2>4. buf' = buf /\ tail' = tail /\ copied'[Consumer] = c + 1
    BY <1>1
  <2> QED BY <2>2, <2>3, <2>4 DEF ReadInv
<1>7. OutInv'
  BY <1>1 DEF UnitsInv, OutInv
<1>8. FifoStep
  BY <1>1, Stutter
<1> QED BY <1>4, <1>5, <1>6, <1>7, <1>8 DEF UnitsInv

\* What is published is the prefix of the batch that was copied in.
LEMMA PublishHeadUnits ==
  ASSUME IInv, UnitsInv, PublishHead
  PROVE  UnitsInv' /\ FifoStep
<1> DEFINE D == Dist(head, tail)
           n == asked[Producer]
           s == SubSeq(batch, 1, n)
<1>1. /\ pc[Producer] = "publish" /\ pc'[Producer] = "notify" /\ head' = Advance(head, n)
      /\ copied'[Producer] = 0
      /\ pc'[Consumer] = pc[Consumer] /\ copied'[Consumer] = copied[Consumer]
      /\ UNCHANGED <<tail, buf, cancelled, asked, dst, out>>
  BY TheSides DEF PublishHead, Step, Goto, IInv, CallTyped
<1>2. /\ D \in Nat /\ n \in Nat /\ D + n <= Cap /\ n > 0 /\ n <= Len(batch) /\ n <= MaxBatch
      /\ copied[Producer] = n
  <2>1. /\ D \in Nat /\ n \in Nat /\ n <= Cap - D /\ Cap \in Nat
    BY <1>1, Granted, TheSides, CapAssumption DEF UnitsInv, Avail, Moving
  <2>2. /\ n > 0 /\ n <= Len(batch) /\ copied[Producer] = n /\ n <= MaxBatch
    BY <1>1, TheSides DEF UnitsInv, MoveInv, WriteInv, Moving, IInv, CallTyped
  <2> QED BY <2>1, <2>2
<1>3. /\ CursorTyped /\ buf \in [0..Cap - 1 -> Data] /\ batch \in Seq(Data)
      /\ head \in Nat /\ tail \in Nat
  BY CapAssumption DEF IInv, CursorTyped, DataTyped
<1>4. \A i \in 1..n : batch[i] = buf[Cell(head + i - 1)]
  BY <1>2 DEF UnitsInv, WriteInv
<1>5. Dist(head', tail') = D + n
  BY <1>1, <1>2, AdvanceLead DEF IInv, CursorTyped
<1>6. /\ s \in Seq(Data) /\ Len(s) = n /\ \A i \in 1..n : s[i] = batch[i]
  BY <1>2, <1>3
<1>7. s \in Batches
  <2>1. n \in 1..MaxBatch
    BY <1>2, CapAssumption
  <2> HIDE DEF s, n
  <2>2. s \in [1..n -> Data]
    BY <1>6, SeqAsFunction
  <2> QED BY <2>1, <2>2 DEF Batches
<1> HIDE DEF n, s
<1>8. UnitsInv'
  <2>1. MoveInv'
    BY <1>1, TheSides DEF UnitsInv, MoveInv, Moving
  <2>2. WriteInv'
    BY <1>1 DEF WriteInv, Moving
  <2>3. ReadInv'
    BY <1>1 DEF UnitsInv, ReadInv
  <2>4. OutInv'
    BY <1>1 DEF UnitsInv, OutInv
  <2> QED BY <2>1, <2>2, <2>3, <2>4 DEF UnitsInv
<1> HIDE DEF D
<1>9. Contents \in Seq(Data) /\ Len(Contents) = D /\ \A i \in 1..D : Contents[i] = buf[Cell(tail + i - 1)]
  BY <1>2, <1>3, ContentsTyped DEF D
<1>10. Contents' = [i \in 1..D + n |-> buf[Cell(tail + i - 1)]]
  BY <1>1, <1>5 DEF Contents
<1>11. \A i \in 1..D + n : buf[Cell(tail + i - 1)] = IF i <= D THEN Contents[i] ELSE s[i - D]
  <2> SUFFICES ASSUME NEW i \in 1..D + n
               PROVE  buf[Cell(tail + i - 1)] = IF i <= D THEN Contents[i] ELSE s[i - D]
    OBVIOUS
  <2>1. CASE i <= D
    BY <1>2, <1>9, <2>1
  <2>2. CASE ~(i <= D)
    <3>1. i - D \in 1..n /\ i - D - 1 \in Nat
      BY <1>2, <2>2
    <3>2. s[i - D] = buf[Cell(head + (i - D) - 1)]
      BY <1>4, <1>6, <3>1
    <3>3. Cell(head + (i - D - 1)) = Cell(tail + D + (i - D - 1))
      BY <1>3, <3>1, HeadCell DEF D
    <3>4. head + (i - D - 1) = head + (i - D) - 1 /\ tail + D + (i - D - 1) = tail + i - 1
      BY <1>2, <1>3, <3>1
    <3> QED BY <2>2, <3>2, <3>3, <3>4
  <2> QED BY <2>1, <2>2
<1>12. Contents' = Contents \o s
  <2>1. Contents \o s = [i \in 1..D + n |-> IF i <= D THEN Contents[i] ELSE s[i - D]]
    <3>1. Contents \o s = [i \in 1..Len(Contents) + Len(s) |->
                             IF i <= Len(Contents) THEN Contents[i] ELSE s[i - Len(Contents)]]
      <4>1. Contents \in Seq(Data) /\ s \in Seq(Data)
        BY <1>6, <1>9
      <4> QED BY ONLY <4>1, Joined, Zenon
    <3>2. Len(Contents) = D /\ Len(s) = n
      BY <1>6, <1>9
    <3> QED BY ONLY <3>1, <3>2, Zenon
  <2> QED BY <1>10, <1>11, <2>1
<1>13. Len(Contents) + Len(s) <= Cap
  BY <1>2, <1>6, <1>9
<1>14. Fifo!Write(s)
  BY <1>1, <1>12, <1>13 DEF Fifo!Write
<1>15. s \in Fifo!Batches
  BY <1>7 DEF Fifo!Batches, Batches
<1> QED BY <1>8, <1>14, <1>15 DEF FifoStep, Fifo!Next

\* What is delivered is the prefix of the FIFO that was copied out.
LEMMA PublishTailUnits ==
  ASSUME IInv, UnitsInv, PublishTail
  PROVE  UnitsInv' /\ FifoStep
<1> DEFINE D == Dist(head, tail)
           n == asked[Consumer]
<1>1. /\ pc[Consumer] = "publish" /\ pc'[Consumer] = "notify" /\ tail' = Advance(tail, n)
      /\ copied'[Consumer] = 0 /\ out' = dst /\ dst' = <<>>
      /\ pc'[Producer] = pc[Producer] /\ copied'[Producer] = copied[Producer]
      /\ UNCHANGED <<head, buf, cancelled, asked, batch>>
  BY TheSides DEF PublishTail, Step, Goto, IInv, CallTyped
<1>2. /\ D \in Nat /\ n \in Nat /\ n <= D /\ D <= Cap /\ n > 0 /\ n <= MaxBatch
      /\ copied[Consumer] = n /\ n < CursorMod
  <2>1. /\ D \in Nat /\ n \in Nat /\ n <= D /\ D <= Cap
    BY <1>1, Granted, TheSides DEF UnitsInv, Avail, Moving
  <2>2. /\ n > 0 /\ copied[Consumer] = n /\ n <= MaxBatch
    BY <1>1, TheSides DEF UnitsInv, MoveInv, Moving, IInv, CallTyped
  <2> QED BY <2>1, <2>2, CapAssumption
<1>3. /\ CursorTyped /\ buf \in [0..Cap - 1 -> Data] /\ dst \in Seq(Data)
      /\ head \in Nat /\ tail \in Nat
  BY CapAssumption DEF IInv, CursorTyped, DataTyped
<1>4. Len(dst) = n /\ \A i \in 1..n : dst[i] = buf[Cell(tail + i - 1)]
  BY <1>2 DEF UnitsInv, ReadInv
<1>5. Dist(head', tail') = D - n
  BY <1>1, <1>2, AdvanceTrail DEF IInv, CursorTyped
<1> HIDE DEF n
<1>6. UnitsInv'
  <2>1. MoveInv'
    BY <1>1, TheSides DEF UnitsInv, MoveInv, Moving
  <2>2. WriteInv'
    BY <1>1 DEF UnitsInv, WriteInv
  <2>3. ReadInv'
    BY <1>1 DEF ReadInv
  <2>4. OutInv'
    BY <1>1 DEF OutInv
  <2> QED BY <2>1, <2>2, <2>3, <2>4 DEF UnitsInv
<1> HIDE DEF D
<1>7. Contents \in Seq(Data) /\ Len(Contents) = D /\ \A i \in 1..D : Contents[i] = buf[Cell(tail + i - 1)]
  BY <1>2, <1>3, ContentsTyped DEF D
<1>8. out' = SubSeq(Contents, 1, n)
  <2>1. \A i \in 1..n : dst[i] = Contents[i]
    <3>1. \A i \in 1..n : i \in 1..D
      BY <1>2
    <3> QED BY <1>4, <1>7, <3>1, Zenon
  <2>2. /\ SubSeq(Contents, 1, n) \in Seq(Data) /\ Len(SubSeq(Contents, 1, n)) = n
        /\ \A i \in 1..n : SubSeq(Contents, 1, n)[i] = Contents[i]
    BY <1>2, <1>7
  <2> QED BY <1>1, <1>3, <1>4, <2>1, <2>2, SeqEqual
<1>9. Contents' = SubSeq(Contents, n + 1, D)
  <2>1. Contents' = [i \in 1..D - n |-> buf[Cell(tail' + i - 1)]]
    BY <1>1, <1>5 DEF Contents
  <2>2. ASSUME NEW i \in 1..D - n PROVE buf[Cell(tail' + i - 1)] = Contents[n + i]
    <3>1. i - 1 \in Nat /\ n + i \in 1..D
      BY <1>2
    <3>2. Cell(tail' + (i - 1)) = Cell(tail + (n + (i - 1)))
      BY <1>1, <1>2, <1>3, <3>1, TailCell
    <3>3. Advance(tail, n) \in Nat
      BY <1>2, <1>3, CapAssumption DEF Advance, CursorTyped
    <3>4. tail' + (i - 1) = tail' + i - 1 /\ tail + (n + (i - 1)) = tail + (n + i) - 1
      BY <1>1, <1>2, <1>3, <3>1, <3>3
    <3> QED BY <1>7, <3>1, <3>2, <3>4
  <2>3. SubSeq(Contents, n + 1, D) = [i \in 1..D - n |-> Contents[n + i]]
    BY <1>2, <1>7, TheRest
  <2> QED BY <2>1, <2>2, <2>3
<1>10. Fifo!Read(n)
  BY <1>1, <1>2, <1>7, <1>8, <1>9 DEF Fifo!Read
<1>11. n \in 1..MaxBatch
  BY <1>2, CapAssumption
<1> QED BY <1>6, <1>10, <1>11 DEF FifoStep, Fifo!Next

-----------------------------------------------------------------------------
LEMMA NextUnits == IInv /\ UnitsInv /\ [Next]_vars => UnitsInv' /\ FifoStep
<1> SUFFICES ASSUME IInv, UnitsInv, [Next]_vars PROVE UnitsInv' /\ FifoStep
  OBVIOUS
<1>1. CASE UNCHANGED vars
  <2>1. UNCHANGED <<head, tail, buf, pc, batch, asked, copied, dst, out, cancelled>>
    BY <1>1 DEF vars, cursors
  <2>2. UnitsInv'
    BY <2>1 DEF UnitsInv, MoveInv, WriteInv, ReadInv, OutInv
  <2> QED BY <2>1, <2>2, Stutter
<1>2. CASE Call
  BY <1>2, CallUnits
<1>3. ASSUME NEW s \in Sides, Run(s) PROVE UnitsInv' /\ FifoStep
  BY <1>3, RefreshUnits, CopyInUnits, CopyOutUnits, PublishHeadUnits, PublishTailUnits,
     NotifyUnits, WaitUnits DEF Run, Write, Read
<1>4. ASSUME NEW s \in Sides, WaitReturn(s) PROVE UnitsInv' /\ FifoStep
  BY <1>4, WaitUnits
<1> QED BY <1>1, <1>2, <1>3, <1>4 DEF Next

(* The queue is a FIFO of its published cells: under every interleaving of  *)
(* the two threads' accesses and across the wrap of the cursors, a write     *)
(* appends a prefix of its data in one step and a read takes a prefix of     *)
(* what is there in one step (retro_spsc.c:386-530).                         *)
THEOREM ImplementsFifoHolds == Spec => ImplementsFifo
<1>1. Init => Fifo!Init
  <2> SUFFICES ASSUME Init PROVE Fifo!Init
    OBVIOUS
  <2>1. Dist(head, tail) = 0
    BY CapAssumption DEF Init, Dist
  <2>2. Contents = <<>>
    BY <2>1 DEF Contents
  <2> QED BY <2>2 DEF Init, Fifo!Init
<1>2. IInv /\ UnitsInv /\ [Next]_vars => [Fifo!Next]_(Fifo!vars)
  BY NextUnits DEF FifoStep
<1>3. IInv /\ UnitsInv /\ [Next]_vars => UnitsInv'
  BY NextUnits
<1>4. Spec => []UnitsInv
  BY <1>3, InitUnits, Invariant, PTL DEF Spec
<1> QED BY <1>1, <1>2, <1>4, Invariant, PTL DEF Spec, ImplementsFifo, Fifo!Spec

-----------------------------------------------------------------------------
(* The event each side waits on: EventCount is type correct, loses no       *)
(* wakeup and does no step that WaitEvent does not allow, for any set of    *)
(* notifiers, either backend, any spin budget and any width of the epoch.   *)

(* The waiter's steps between its second test of the predicate and the   *)
(* return of the wait.                                                   *)
Committed == InWindow /\ wpc # "retest"

(* Where lag notifications leave an epoch that started at the key. *)
Advanced == IF key + lag < EpochMod THEN key + lag ELSE key + lag - EpochMod

CountInv == waiters = Registered
SleepInv == asleep => wpc = "asleep"
EpochInv == InWindow => epoch = Advanced
WakeInv == (asleep /\ lag > 0) => \E n \in Notifiers : npc[n] \in {"load", "wake"}
PublishInv == (Committed /\ pending) => (lag > 0 \/ \E n \in Notifiers : npc[n] = "bump")

EventIInv == EventTypeOK /\ CountInv /\ SleepInv /\ EpochInv /\ WakeInv /\ PublishInv

LEMMA EventInitIInv == EventInit => EventIInv
<1> SUFFICES ASSUME EventInit PROVE EventIInv
  OBVIOUS
<1> USE DEF EventInit
<1>1. EventTypeOK
  <2>1. 0 \in 0..EpochMod - 1 /\ 0 \in 0..SpinBudget /\ 0 \in 0..2
    BY EpochAssumption, SpinAssumption
  <2>2. npc \in [Notifiers -> {"idle", "bump", "load", "wake"}]
    OBVIOUS
  <2>3. pending \in BOOLEAN /\ timed \in BOOLEAN /\ asleep \in BOOLEAN
    BY Zenon
  <2> QED BY <2>1, <2>2, <2>3, Zenon DEF EventTypeOK, WaiterSteps
<1>2. ~InWindow /\ CountInv
  BY DEF InWindow, CountInv, Registered
<1>3. SleepInv /\ EpochInv /\ WakeInv /\ PublishInv
  BY <1>2 DEF SleepInv, EpochInv, WakeInv, PublishInv, Committed
<1> QED BY <1>1, <1>2, <1>3 DEF EventIInv

(* The key and the epoch agree exactly while nothing has been notified. *)
LEMMA EpochAgrees == EventTypeOK /\ EpochInv /\ InWindow => (epoch = key <=> lag = 0)
  BY EpochAssumption DEF EventTypeOK, EpochInv, Advanced

LEMMA NotifierStep ==
  ASSUME EventIInv, NEW n \in Notifiers, Publish(n) \/ Notify(n)
  PROVE  EventIInv'
<1> USE EpochAssumption, SpinAssumption DEF EventIInv
<1>1. CASE Publish(n)
  BY <1>1 DEF Publish, NotifyStep, EventTypeOK, CountInv, SleepInv, EpochInv, Advanced,
              WakeInv, PublishInv, Registered, InWindow, Committed
<1>2. CASE NotifyBump(n)
  <2>1. EventTypeOK'
    BY <1>2 DEF NotifyBump, NotifyStep, EventTypeOK
  <2>2. CountInv' /\ SleepInv'
    BY <1>2 DEF NotifyBump, CountInv, SleepInv, Registered
  <2>3. EpochInv'
    BY <1>2 DEF NotifyBump, EpochInv, Advanced, InWindow, EventTypeOK
  <2>4. WakeInv'
    BY <1>2 DEF NotifyBump, NotifyStep, WakeInv, EventTypeOK
  <2>5. PublishInv'
    BY <1>2 DEF NotifyBump, PublishInv, Committed, InWindow, EventTypeOK
  <2> QED BY <2>1, <2>2, <2>3, <2>4, <2>5
<1>3. CASE NotifyLoad(n)
  <2>1. asleep => WakeNeeded
    BY DEF SleepInv, CountInv, Registered, WakeNeeded
  <2>2. WakeInv'
    BY <1>3, <2>1 DEF NotifyLoad, NotifyStep, WakeInv, EventTypeOK
  <2>3. PublishInv'
    BY <1>3 DEF NotifyLoad, NotifyStep, PublishInv, Committed, InWindow, EventTypeOK
  <2>4. EventTypeOK' /\ CountInv' /\ SleepInv' /\ EpochInv'
    BY <1>3 DEF NotifyLoad, NotifyStep, EventTypeOK, CountInv, SleepInv, EpochInv, Advanced,
                Registered, InWindow
  <2> QED BY <2>2, <2>3, <2>4
<1>4. CASE NotifyWake(n)
  BY <1>4 DEF NotifyWake, NotifyStep, EventTypeOK, CountInv, SleepInv, EpochInv, Advanced,
              WakeInv, PublishInv, Registered, InWindow, Committed
<1> QED BY <1>1, <1>2, <1>3, <1>4 DEF Notify

LEMMA WaiterStep ==
  ASSUME EventIInv, Waiter \/ EarlyReturn \/ SleepTimeout
  PROVE  EventIInv'
<1> USE EpochAssumption, SpinAssumption DEF EventIInv
<1> USE DEF EventTypeOK, WaiterSteps, WaitStep, CountInv, SleepInv, EpochInv, Advanced, WakeInv, PublishInv,
            Registered, InWindow, Committed
<1>1. CASE TestPredicate
  BY <1>1 DEF TestPredicate
<1>2. CASE PrepareRegister
  BY <1>2 DEF PrepareRegister
<1>3. CASE PrepareReadKey
  BY <1>3 DEF PrepareReadKey
<1>4. CASE RetestPredicate
  BY <1>4 DEF RetestPredicate, Retest
<1>5. CASE Spin
  BY <1>5 DEF Spin
<1>6. CASE Arm
  BY <1>6 DEF Arm, ArmedCount
<1>7. CASE KernelCheck
  BY <1>7 DEF KernelCheck
<1>8. CASE KernelWait
  BY <1>8, EpochAgrees DEF KernelWait, MayPark
<1>9. CASE Woken
  BY <1>9 DEF Woken
<1>10. CASE SleepPoll
  BY <1>10 DEF SleepPoll
<1>11. CASE Disarm
  BY <1>11 DEF Disarm
<1>12. CASE CancelWait
  BY <1>12 DEF CancelWait
<1>13. CASE EarlyReturn
  BY <1>13 DEF EarlyReturn
<1>14. CASE SleepTimeout
  BY <1>14 DEF SleepTimeout
<1> QED
  BY <1>1, <1>2, <1>3, <1>4, <1>5, <1>6, <1>7, <1>8, <1>9, <1>10, <1>11, <1>12, <1>13, <1>14 DEF Waiter

LEMMA EventNextIInv == EventIInv /\ [EventNext]_eventVars => EventIInv'
<1> SUFFICES ASSUME EventIInv, [EventNext]_eventVars PROVE EventIInv'
  OBVIOUS
<1>1. ASSUME NEW n \in Notifiers, Publish(n) \/ Notify(n) PROVE EventIInv'
  BY <1>1, NotifierStep
<1>2. CASE Waiter \/ EarlyReturn \/ SleepTimeout
  BY <1>2, WaiterStep
<1>3. CASE UNCHANGED eventVars
  BY <1>3 DEF eventVars, EventIInv, EventTypeOK, CountInv, SleepInv, EpochInv, Advanced, WakeInv, PublishInv,
              Registered, InWindow, Committed
<1> QED BY <1>1, <1>2, <1>3 DEF EventNext

LEMMA EventInvariant == EventSpec => []EventIInv
  BY EventInitIInv, EventNextIInv, PTL DEF EventSpec

-----------------------------------------------------------------------------
(* Every variable keeps its type; in particular the waiters word only ever *)
(* holds 0, 1 or 2, which the notifier's "waiters < 2" test relies on.     *)
THEOREM EventTypeCorrect == EventSpec => []EventTypeOK
<1>1. EventIInv => EventTypeOK
  BY DEF EventIInv
<1> QED BY <1>1, EventInvariant, PTL

(* No lost wakeup: the pairing of the waiter's increment and recheck with *)
(* the notifier's increment and load that address_park's comment claims.  *)
THEOREM NoLostWakeupHolds == EventSpec => []NoLostWakeup
<1>1. EventIInv => NoLostWakeup
  <2> SUFFICES ASSUME EventIInv, asleep PROVE NoLostWakeup
    BY DEF NoLostWakeup
  <2>1. InWindow /\ Committed
    BY DEF EventIInv, SleepInv, InWindow, Committed
  <2>2. epoch # key => lag > 0
    BY <2>1, EpochAgrees DEF EventIInv, EventTypeOK
  <2>3. pending => \E n \in Notifiers : npc[n] # "idle"
    BY <2>1 DEF EventIInv, WakeInv, PublishInv
  <2> QED BY <2>2, <2>3 DEF EventIInv, WakeInv, NoLostWakeup
<1> QED BY <1>1, EventInvariant, PTL

-----------------------------------------------------------------------------
(* The abstract event's state, as the instance has it. *)
St == IF ~InWindow THEN "running" ELSE IF wpc = "retest" THEN "prepared" ELSE "waiting"
Signalled == InWindow /\ lag > 0

EventStep == [Event!Next]_(Event!vars)

LEMMA EventStutter ==
  ASSUME St' = St, Signalled' = Signalled
  PROVE  EventStep
BY DEF St, Signalled, EventStep, Event!vars

(* A notification counts for the wait whose window it falls into. *)
LEMMA NotifierIsSignal ==
  ASSUME EventIInv, NEW n \in Notifiers, Publish(n) \/ Notify(n)
  PROVE  EventStep
<1>1. CASE Publish(n) \/ NotifyLoad(n) \/ NotifyWake(n)
  <2>1. wpc' = wpc /\ lag' = lag
    BY <1>1 DEF Publish, NotifyLoad, NotifyWake
  <2>2. St' = St /\ Signalled' = Signalled
    BY <2>1 DEF St, Signalled, InWindow
  <2> QED BY <2>2, EventStutter
<1>2. CASE NotifyBump(n)
  <2>1. /\ wpc' = wpc /\ lag' = (IF InWindow THEN lag + 1 ELSE lag) /\ lag \in Nat
    BY <1>2, EpochAssumption DEF NotifyBump, EventIInv, EventTypeOK
  <2>2. InWindow' = InWindow /\ St' = St
    BY <2>1 DEF InWindow, St
  <2>3. CASE ~InWindow
    <3>1. Signalled' = Signalled
      BY <2>2, <2>3 DEF Signalled
    <3> QED BY <2>2, <3>1, EventStutter
  <2>4. CASE InWindow
    <3>1. Signalled' = TRUE
      BY <2>1, <2>2, <2>4 DEF Signalled
    <3>2. St # "running"
      BY <2>4 DEF St
    <3>3. Event!Signal
      BY <2>2, <3>1, <3>2 DEF Event!Signal, St, Signalled
    <3> QED BY <3>3 DEF EventStep, Event!Next
  <2> QED BY <2>3, <2>4
<1> QED BY <1>1, <1>2 DEF Notify

(* The waiter opens its window with the key, and closes it where it decides *)
(* to return.                                                               *)
LEMMA WaiterIsEvent ==
  ASSUME EventIInv, Waiter \/ EarlyReturn \/ SleepTimeout
  PROVE  EventStep
<1> USE DEF InWindow, WaitStep
<1>1. CASE TestPredicate \/ PrepareRegister \/ Disarm \/ CancelWait
  <2>1. ~InWindow /\ ~InWindow'
    BY <1>1 DEF TestPredicate, PrepareRegister, Disarm, CancelWait
  <2> QED BY <2>1, EventStutter DEF St, Signalled
<1>2. CASE PrepareReadKey
  <2>1. St = "running" /\ St' = "prepared" /\ Signalled' = FALSE
    BY <1>2 DEF PrepareReadKey, St, Signalled
  <2>2. Event!Prepare
    BY <2>1 DEF Event!Prepare, St, Signalled
  <2> QED BY <2>2 DEF EventStep, Event!Next
<1>3. CASE RetestPredicate
  <2>1. St = "prepared" /\ lag' = lag /\ wpc' \in {"cancel", "spin"} /\ wpc = "retest"
    BY <1>3 DEF RetestPredicate, Retest, St
  <2>2. CASE wpc' = "cancel"
    <3>1. St' = "running" /\ Signalled' = FALSE
      BY <2>2 DEF St, Signalled
    <3>2. Event!Cancel
      BY <2>1, <3>1 DEF Event!Cancel, St, Signalled
    <3> QED BY <3>2 DEF EventStep, Event!Next
  <2>3. CASE wpc' = "spin"
    <3>1. St' = "waiting" /\ Signalled' = Signalled
      BY <2>1, <2>3 DEF St, Signalled
    <3>2. Event!Commit
      BY <2>1, <3>1 DEF Event!Commit, St, Signalled
    <3> QED BY <3>2 DEF EventStep, Event!Next
  <2> QED BY <2>1, <2>2, <2>3
<1>4. CASE Spin \/ Arm \/ KernelCheck \/ KernelWait \/ Woken \/ SleepPoll \/ EarlyReturn \/ SleepTimeout
  <2>1. /\ wpc \in {"spin", "arm", "kcheck", "kwait", "asleep", "poll"} /\ lag' = lag
        /\ wpc' \in {"spin", "arm", "kcheck", "kwait", "asleep", "poll", "cancel", "disarm"}
    BY <1>4 DEF Spin, Arm, KernelCheck, KernelWait, Woken, SleepPoll, EarlyReturn, SleepTimeout
  <2>2. St = "waiting"
    BY <2>1 DEF St
  <2>3. CASE InWindow'
    <3>1. St' = St /\ Signalled' = Signalled
      BY <2>1, <2>2, <2>3 DEF St, Signalled
    <3> QED BY <3>1, EventStutter
  <2>4. CASE ~InWindow'
    <3>1. St' = "running" /\ Signalled' = FALSE
      BY <2>4 DEF St, Signalled
    <3>2. Event!Return
      BY <2>2, <3>1 DEF Event!Return, St, Signalled
    <3> QED BY <3>2 DEF EventStep, Event!Next
  <2> QED BY <2>3, <2>4
<1> QED BY <1>1, <1>2, <1>3, <1>4 DEF Waiter

(* Each step of the two threads is a step of the abstract event or none of *)
(* its business: a wait begins with prepare, ends once, and counts every   *)
(* notification since.  This is the safety half of ImplementsWaitEvent.    *)
THEOREM WaitsAsPromised == EventSpec => Event!Init /\ [][Event!Next]_(Event!vars)
<1>1. EventInit => Event!Init
  BY DEF EventInit, Event!Init, InWindow
<1>2. EventIInv /\ [EventNext]_eventVars => [Event!Next]_(Event!vars)
  <2> SUFFICES ASSUME EventIInv, [EventNext]_eventVars PROVE EventStep
    BY DEF EventStep
  <2>1. ASSUME NEW n \in Notifiers, Publish(n) \/ Notify(n) PROVE EventStep
    BY <2>1, NotifierIsSignal
  <2>2. CASE Waiter \/ EarlyReturn \/ SleepTimeout
    BY <2>2, WaiterIsEvent
  <2>3. CASE UNCHANGED eventVars
    <3>1. wpc' = wpc /\ lag' = lag
      BY <2>3 DEF eventVars
    <3> QED BY <3>1, EventStutter DEF St, Signalled, InWindow
  <2> QED BY <2>1, <2>2, <2>3 DEF EventNext
<1> QED BY <1>1, <1>2, EventInvariant, PTL DEF EventSpec
=============================================================================
