---------------------------- MODULE ScuDmaProofs ----------------------------
(* The SCU's DMA, for any levels, factors, transfers and lengths of time    *)
(* that fit in the range of the times (TimesFit): an active level has its   *)
(* event coming (ActiveIsScheduledHolds), in the exact mode the DMA keeps   *)
(* pace with the machine (NotAheadHolds), and a visit moves the highest     *)
(* level on (VisitMovesHolds).                                              *)
(*                                                                          *)
(* The invariant says where the parked times can be: an active level and    *)
(* the exact mode have neither the event nor the counters parked.  One      *)
(* update is three levels of two turns each; what a turn keeps is stated    *)
(* once, against the time of the update.                                    *)
EXTENDS ScuDma, TLAPS

\* The clock passes the end of a frame by at most one instruction.
ClockInv ==
  /\ fast \in BOOLEAN /\ fast \in FastModes /\ now \in 0..FrameLen + Stride - 1
  /\ phase \in {"idle", "run"} /\ (phase = "idle" => now = 0)

\* The latest time a unit in progress can end
Horizon(ts) == ts + Gran + Cost - 1

\* A level has data left, or its end is near and not before `floor'.
LevelsFit(d, ts, floor) ==
  \A l \in Levels : /\ d.level[l].active = 1 => d.level[l].left > 0
                    /\ d.level[l].active = -1 => floor <= d.level[l].finish /\ d.level[l].finish <= Horizon(ts)

\* A polled event, or one with something to do, is near.
EventFits(d, ts) == ~fast \/ ActiveOf(d) # {} => d.event <= Horizon(ts)

\* In the exact mode nothing is parked.
PaceFits(d, ts) ==
  ~fast =>
    /\ d.runUntil \in 0..ts + Gran /\ d.runUntil < d.event + Gran
    /\ d.counter <= Horizon(ts) /\ d.counter < d.event + Gran
    /\ d.counter >= -(FrameLen + Stride - 1)

Sound(d, ts) ==
  /\ d \in Dma /\ d.ret = Unset
  /\ LevelsFit(d, ts, -Half) /\ EventFits(d, ts) /\ PaceFits(d, ts)

IInv ==
  /\ ClockInv /\ Sound(dma, now)
  /\ ~fast /\ phase = "run" => dma.counter >= 0
-----------------------------------------------------------------------------
(* Times. *)

Times == -Half..Half - 1

LEMMA TheConstants ==
  /\ Units \in Nat /\ Cost \in Nat /\ Gran \in Nat /\ Half \in Nat /\ FrameLen \in Nat /\ Stride \in Nat
  /\ Units > 0 /\ Cost > 0 /\ Gran > 0 /\ Half > 0 /\ FrameLen > 0 /\ Stride > 0
  /\ FrameLen + Stride + Gran + Cost <= Half /\ Cost <= Gran
  /\ Levels \subseteq 0..2
BY DmaConstants, TimesFit

LEMMA SomeTimes ==
  /\ 0 \in 0..Units /\ Units \in 0..Units
  /\ 0 \in Times /\ Unset \in Times /\ Disabled \in Times /\ Disabled \in 0..Half - 1 /\ Unset < 0
BY TheConstants DEF Times, Unset, Disabled

LEMMA Remainder ==
  ASSUME NEW x \in Int, NEW m \in Nat, m > 0
  PROVE  x % m \in 0..m - 1 /\ (x \in 0..m - 1 => x % m = x)
OBVIOUS

LEMMA WrapInTimes ==
  ASSUME NEW x \in Int
  PROVE  Wrap(x) \in Times /\ (x \in Times => Wrap(x) = x)
<1>1. 2 * Half \in Nat /\ 2 * Half > 0
  BY TheConstants
<1>2. (x + Half) % (2 * Half) \in 0..2 * Half - 1
  BY <1>1, TheConstants, Remainder
<1>3. x + Half \in 0..2 * Half - 1 => (x + Half) % (2 * Half) = x + Half
  BY <1>1, TheConstants, Remainder
<1> QED BY <1>2, <1>3, TheConstants DEF Wrap, Times

\* As many units as it takes, and the last ends less than a unit late.
LEMMA UnitsToGo ==
  ASSUME NEW a \in Nat, NEW b \in Nat, a > 0, b > 0
  PROVE  DivUp(a, b) \in Nat /\ DivUp(a, b) > 0 /\ DivUp(a, b) * b >= a /\ DivUp(a, b) * b <= a + b - 1
<1>1. \E q \in Int, r \in 0..b - 1 : a + b - 1 = q * b + r /\ q = (a + b - 1) \div b
  OBVIOUS
<1>2. PICK q \in Int, r \in 0..b - 1 : a + b - 1 = q * b + r /\ q = (a + b - 1) \div b
  BY <1>1
<1>3. q * b <= a + b - 1 /\ q * b >= a
  BY <1>2
<1>4. q > 0
  BY <1>3
<1> QED BY <1>2, <1>3, <1>4 DEF DivUp

LEMMA SomeUnits ==
  ASSUME NEW n \in Nat, NEW m \in Nat, n <= m
  PROVE  n * Cost \in Nat /\ n * Cost <= m * Cost
BY TheConstants
-----------------------------------------------------------------------------
(* One turn of a level.  Effects are stated field by field. *)

LevelIs(e, d, l, act, trigger, rest, end) ==
  /\ e.level[l] = [active |-> act, go |-> trigger, left |-> rest, finish |-> end]
  /\ \A k \in Levels : k # l => e.level[k] = d.level[k]

LEMMA DmaFields ==
  ASSUME NEW d \in Dma
  PROVE  /\ d.counter \in Times /\ d.runUntil \in Times /\ d.ret \in Times /\ d.event \in 0..Half - 1
         /\ d.level \in [Levels -> Level]
         /\ d = [level |-> d.level, counter |-> d.counter, runUntil |-> d.runUntil, event |-> d.event,
                 ret |-> d.ret]
         /\ \A l \in Levels :
              /\ d.level[l] \in Level
              /\ d.level[l].active \in {-1, 0, 1} /\ d.level[l].go \in {"no", "legal", "illegal"}
              /\ d.level[l].left \in 0..Units /\ d.level[l].finish \in Times
              /\ d.level[l] = [active |-> d.level[l].active, go |-> d.level[l].go,
                               left |-> d.level[l].left, finish |-> d.level[l].finish]
BY DEF Dma, Level, Times

\* e is d but for level l.
At(e, d, l, act, trigger, rest, end) ==
  /\ e \in Dma
  /\ e.counter = d.counter /\ e.runUntil = d.runUntil /\ e.event = d.event /\ e.ret = d.ret
  /\ LevelIs(e, d, l, act, trigger, rest, end)

\* Assignments to one field
LEMMA SetLevel ==
  ASSUME NEW d \in Dma, NEW l \in Levels
  PROVE  /\ \A x \in {-1, 0, 1} :
              At([d EXCEPT !.level[l].active = x], d, l, x, d.level[l].go, d.level[l].left, d.level[l].finish)
         /\ \A x \in {"no", "legal", "illegal"} :
              At([d EXCEPT !.level[l].go = x], d, l, d.level[l].active, x, d.level[l].left, d.level[l].finish)
         /\ \A x \in 0..Units :
              At([d EXCEPT !.level[l].left = x], d, l, d.level[l].active, d.level[l].go, x, d.level[l].finish)
         /\ \A x \in Times :
              At([d EXCEPT !.level[l].finish = x], d, l, d.level[l].active, d.level[l].go, d.level[l].left, x)
BY DEF Dma, Level, Times, LevelIs, At

LEMMA SetTimes ==
  ASSUME NEW d \in Dma
  PROVE  /\ \A t \in Times :
              LET e == [d EXCEPT !.counter = t]
              IN e \in Dma /\ e = [d EXCEPT !.counter = t] /\ e.counter = t /\ e.level = d.level
                 /\ e.runUntil = d.runUntil /\ e.event = d.event /\ e.ret = d.ret
         /\ \A t \in Times :
              LET e == [d EXCEPT !.runUntil = t]
              IN e \in Dma /\ e.counter = d.counter /\ e.level = d.level
                 /\ e.runUntil = t /\ e.event = d.event /\ e.ret = d.ret
         /\ \A t \in Times :
              LET e == [d EXCEPT !.ret = t]
              IN e \in Dma /\ e.counter = d.counter /\ e.level = d.level
                 /\ e.runUntil = d.runUntil /\ e.event = d.event /\ e.ret = t
         /\ \A t \in 0..Half - 1 :
              LET e == [d EXCEPT !.event = t]
              IN e \in Dma /\ e.counter = d.counter /\ e.level = d.level
                 /\ e.runUntil = d.runUntil /\ e.event = t /\ e.ret = d.ret
BY DEF Dma, Times

LEMMA LevelFields ==
  ASSUME NEW e, NEW d, NEW l, NEW act, NEW trigger, NEW rest, NEW end, LevelIs(e, d, l, act, trigger, rest, end)
  PROVE  /\ e.level[l].active = act /\ e.level[l].go = trigger
         /\ e.level[l].left = rest /\ e.level[l].finish = end
BY DEF LevelIs

LEMMA TransferRests ==
  ASSUME NEW d, NEW l, NEW until, d.level[l].active < 1 \/ d.counter >= until
  PROVE  Transfer(d, l, until) = d
BY DEF Transfer

\* n units are moved, by the time t.
Moved(e, d, l, n, t) ==
  /\ e \in Dma /\ e.counter = t /\ e.runUntil = d.runUntil /\ e.event = d.event /\ e.ret = d.ret
  /\ IF n < d.level[l].left
     THEN LevelIs(e, d, l, 1, d.level[l].go, d.level[l].left - n, d.level[l].finish)
     ELSE LevelIs(e, d, l, -1, d.level[l].go, 0, t)

LEMMA TransferMoves ==
  ASSUME NEW d \in Dma, NEW l \in Levels, NEW until \in Int, until <= Disabled,
         d.level[l].active = 1, d.level[l].left > 0, d.counter < until
  PROVE  \E n \in 1..Units, t \in Times :
           /\ n <= d.level[l].left /\ Moved(Transfer(d, l, until), d, l, n, t)
           /\ until <= Half - Cost => d.counter < t /\ t <= until + Cost - 1
<1> USE TheConstants, DmaFields
<1> DEFINE todo == DivUp(until - d.counter, Cost)
           left == d.level[l].left
           n    == Lesser(left, todo)
           t    == Wrap(d.counter + n * Cost)
<1>1. until - d.counter \in Nat /\ until - d.counter > 0
  BY DEF Times
<1>2. todo \in Nat /\ todo > 0 /\ todo * Cost <= until - d.counter + Cost - 1
  BY <1>1, UnitsToGo
<1>3. left \in 1..Units
  <2>1. d.level[l].left \in 0..Units
    BY DmaFields
  <2> QED BY <2>1
<1> HIDE DEF todo, left
<1>4. n \in 1..Units /\ n <= left /\ n <= todo
  BY <1>2, <1>3 DEF Lesser
<1> HIDE DEF n
<1>5. n * Cost \in Nat /\ n * Cost <= todo * Cost /\ n * Cost >= 1
  <2>1. n * Cost \in Nat /\ n * Cost <= todo * Cost
    BY <1>2, <1>4, SomeUnits
  <2>2. 1 * Cost <= n * Cost
    BY <1>4, SomeUnits
  <2> QED BY <2>1, <2>2
<1>6. t \in Times
  BY <1>5, WrapInTimes DEF Times
<1>7. until <= Half - Cost => d.counter < t /\ t <= until + Cost - 1
  <2> SUFFICES ASSUME until <= Half - Cost PROVE d.counter < t /\ t <= until + Cost - 1
    OBVIOUS
  <2>1. d.counter + n * Cost \in Times
    BY <1>2, <1>5 DEF Times
  <2>2. t = d.counter + n * Cost
    BY <2>1, WrapInTimes DEF Times
  <2> QED BY <1>2, <1>5, <2>2 DEF Times
<1> HIDE DEF t
<1>8. ~(d.level[l].active < 1 \/ d.counter >= until)
  BY DEF Times
<1>9. CASE n < left
  <2> DEFINE e1 == [d EXCEPT !.level[l].left = left - n]
             e2 == [e1 EXCEPT !.counter = t]
  <2>1. Transfer(d, l, until) = [d EXCEPT !.level[l].left = left - n, !.counter = t]
    BY <1>8, <1>9, Zenon DEF Transfer, n, t, left, todo
  <2>2. Transfer(d, l, until) = e2
    BY <2>1
  <2>3. left - n \in 0..Units
    BY <1>3, <1>4
  <2>4. At(e1, d, l, 1, d.level[l].go, left - n, d.level[l].finish)
    BY <2>3, SetLevel
  <2> HIDE DEF e1
  <2>5. e2 \in Dma /\ e2.counter = t /\ e2.level = e1.level /\ e2.runUntil = d.runUntil
        /\ e2.event = d.event /\ e2.ret = d.ret
    BY <1>6, <2>4, SetTimes DEF At
  <2> HIDE DEF e2
  <2>6. Moved(e2, d, l, n, t)
    BY <1>9, <2>4, <2>5 DEF Moved, At, LevelIs, left
  <2> QED BY <1>4, <1>6, <1>7, <2>2, <2>6 DEF left
<1>10. CASE ~(n < left)
  <2> DEFINE e1 == [d EXCEPT !.level[l].left = 0]
             e2 == [e1 EXCEPT !.counter = t]
             e3 == [e2 EXCEPT !.level[l].active = -1]
             e4 == [e3 EXCEPT !.level[l].finish = t]
  <2>1. Transfer(d, l, until) = [d EXCEPT !.level[l].left = 0, !.counter = t,
                                          !.level[l].active = -1, !.level[l].finish = t]
    BY <1>8, <1>10, Zenon DEF Transfer, n, t, left, todo
  <2>2. Transfer(d, l, until) = e4
    BY <2>1
  <2>3. At(e1, d, l, 1, d.level[l].go, 0, d.level[l].finish)
    BY SetLevel, SomeTimes
  <2> HIDE DEF e1
  <2>4. e2 \in Dma /\ e2.counter = t /\ e2.level = e1.level /\ e2.runUntil = d.runUntil
        /\ e2.event = d.event /\ e2.ret = d.ret
    BY <1>6, <2>3, SetTimes DEF At
  <2> HIDE DEF e2
  <2>5. At(e3, e2, l, -1, e2.level[l].go, e2.level[l].left, e2.level[l].finish)
    BY <2>4, SetLevel
  <2> HIDE DEF e3
  <2>6. At(e4, e3, l, e3.level[l].active, e3.level[l].go, e3.level[l].left, t)
    BY <1>6, <2>5, SetLevel DEF At
  <2> HIDE DEF e4
  <2>7. LevelIs(e4, d, l, -1, d.level[l].go, 0, t)
    BY <2>3, <2>4, <2>5, <2>6 DEF At, LevelIs
  <2>8. Moved(e4, d, l, n, t)
    BY <1>10, <2>4, <2>5, <2>6, <2>7 DEF Moved, At, left
  <2> QED BY <1>4, <1>6, <1>7, <2>2, <2>8 DEF left
<1> QED BY <1>9, <1>10

\* What CheckDMAStart makes of a level: nothing, or a start, armed in the fast modes.
Checked(e, d, l) ==
  /\ e \in Dma /\ e.counter = d.counter /\ e.runUntil = d.runUntil /\ e.ret = d.ret
  /\ \/ e = d /\ (d.level[l].active # 0 \/ d.level[l].go = "no")
     \/ /\ d.level[l].active = 0 /\ d.level[l].go = "illegal" /\ e.event = d.event
        /\ LevelIs(e, d, l, 0, "no", d.level[l].left, d.level[l].finish)
     \/ /\ d.level[l].active = 0 /\ d.level[l].go = "legal"
        /\ e.event = IF fast THEN now ELSE d.event
        /\ LevelIs(e, d, l, 1, "no", Units, d.level[l].finish)

LEMMA StartChecked ==
  ASSUME NEW d \in Dma, NEW l \in Levels, now \in 0..Half - 1
  PROVE  Checked(CheckDMAStart(d, l), d, l)
<1> USE TheConstants, DmaFields
<1>1. CASE d.level[l].active # 0 \/ d.level[l].go = "no"
  BY <1>1 DEF CheckDMAStart, Checked
<1>2. CASE d.level[l].active = 0 /\ d.level[l].go = "illegal"
  <2> DEFINE e == [d EXCEPT !.level[l].go = "no"]
  <2>1. CheckDMAStart(d, l) = e
    BY <1>2 DEF CheckDMAStart
  <2>2. At(e, d, l, 0, "no", d.level[l].left, d.level[l].finish)
    BY <1>2, SetLevel
  <2> QED BY <1>2, <2>1, <2>2 DEF Checked, At
<1>3. CASE d.level[l].active = 0 /\ d.level[l].go = "legal"
  <2> DEFINE e1 == [d EXCEPT !.level[l].go = "no"]
             e2 == [e1 EXCEPT !.level[l].active = 1]
             e3 == [e2 EXCEPT !.level[l].left = Units]
             e4 == Arm(e3)
  <2>1. CheckDMAStart(d, l)
          = Arm([d EXCEPT !.level[l].go = "no", !.level[l].active = 1, !.level[l].left = Units])
    BY <1>3 DEF CheckDMAStart
  <2>2. e3 = [d EXCEPT !.level[l].go = "no", !.level[l].active = 1, !.level[l].left = Units]
    OBVIOUS
  <2>3. CheckDMAStart(d, l) = e4
    BY <2>1, <2>2, Zenon
  <2>4. At(e1, d, l, 0, "no", d.level[l].left, d.level[l].finish)
    BY <1>3, SetLevel
  <2> HIDE DEF e1
  <2>5. At(e2, e1, l, 1, e1.level[l].go, e1.level[l].left, e1.level[l].finish)
    BY <2>4, SetLevel DEF At
  <2> HIDE DEF e2
  <2>6. At(e3, e2, l, e2.level[l].active, e2.level[l].go, Units, e2.level[l].finish)
    BY <2>5, SetLevel, SomeTimes DEF At
  <2> HIDE DEF e3
  <2>7. At(e3, d, l, 1, "no", Units, d.level[l].finish)
    BY <2>4, <2>5, <2>6 DEF At, LevelIs
  <2>8. /\ e4 \in Dma /\ e4.counter = d.counter /\ e4.runUntil = d.runUntil /\ e4.ret = d.ret
        /\ e4.level = e3.level /\ e4.event = IF fast THEN now ELSE d.event
    BY <2>7, SetTimes DEF Arm, At
  <2> HIDE DEF e4
  <2>9. LevelIs(e4, d, l, 1, "no", Units, d.level[l].finish)
    BY <2>7, <2>8 DEF At, LevelIs
  <2> QED BY <1>3, <2>3, <2>8, <2>9 DEF Checked
<1> QED BY <1>1, <1>2, <1>3

\* The end of a level, which may start it again
Ended(e, d, l) ==
  /\ e \in Dma /\ e.counter = d.counter /\ e.runUntil = d.runUntil /\ e.ret = d.ret
  /\ \/ /\ d.level[l].go # "legal" /\ e.event = d.event
        /\ LevelIs(e, d, l, 0, "no", d.level[l].left, 0)
     \/ /\ d.level[l].go = "legal" /\ e.event = IF fast THEN now ELSE d.event
        /\ LevelIs(e, d, l, 1, "no", Units, 0)

LEMMA EndEnds ==
  ASSUME NEW d \in Dma, NEW l \in Levels, now \in 0..Half - 1
  PROVE  Ended(DoDMAEnd(d, l), d, l)
<1> USE TheConstants, DmaFields
<1> DEFINE e1 == [d EXCEPT !.level[l].active = 0]
           e2 == [e1 EXCEPT !.level[l].finish = 0]
<1>1. DoDMAEnd(d, l) = CheckDMAStart([d EXCEPT !.level[l].active = 0, !.level[l].finish = 0], l)
  BY DEF DoDMAEnd
<1>2. e2 = [d EXCEPT !.level[l].active = 0, !.level[l].finish = 0]
  OBVIOUS
<1>3. DoDMAEnd(d, l) = CheckDMAStart(e2, l)
  BY <1>1, <1>2, Zenon
<1>4. At(e1, d, l, 0, d.level[l].go, d.level[l].left, d.level[l].finish)
  BY SetLevel
<1> HIDE DEF e1
<1>5. At(e2, e1, l, e1.level[l].active, e1.level[l].go, e1.level[l].left, 0)
  BY <1>4, SetLevel, SomeTimes DEF At
<1> HIDE DEF e2
<1>6. At(e2, d, l, 0, d.level[l].go, d.level[l].left, 0)
  BY <1>4, <1>5 DEF At, LevelIs
<1>7. Checked(CheckDMAStart(e2, l), e2, l)
  BY <1>6, StartChecked DEF At
<1>8. /\ e2.level[l].active = 0 /\ e2.level[l].go = d.level[l].go /\ e2.level[l].left = d.level[l].left
      /\ e2.level[l].finish = 0
  BY <1>6, LevelFields DEF At
<1>9. d.level[l].go \in {"no", "legal", "illegal"}
  OBVIOUS
<1> QED BY <1>3, <1>6, <1>7, <1>8, <1>9 DEF Checked, Ended, At, LevelIs
-----------------------------------------------------------------------------
(* An update at time ts: what is so after every turn. *)

\* The levels' finish times are not before `floor' and not beyond the horizon;
\* an early return is at a time to come, and the counter is not far beyond it.
Going(d, ts, floor) ==
  /\ d \in Dma /\ d.runUntil = ts + Gran
  /\ \A l \in Levels : /\ d.level[l].active = 1 => d.level[l].left > 0
                       /\ d.level[l].active = -1 => floor <= d.level[l].finish /\ d.level[l].finish <= Horizon(ts)
  /\ d.ret = Unset \/ (ts < d.ret /\ d.ret <= Horizon(ts) /\ (d.counter <= d.ret \/ d.counter < ts + Gran))

Paced(d, ts) == 0 <= d.counter /\ d.counter <= Horizon(ts)

\* A level that was active in state a has been moved on in state b.
Pushed(b, a) ==
  \/ b.go = "no" /\ a.go # "no"
  \/ b.go = a.go /\ (b.active = 0 \/ (a.active = 1 /\ (b.active = -1 \/ b.left < a.left)))

LEMMA PushedIsMoved ==
  ASSUME NEW a \in Level, NEW b \in Level, a.active # 0, Pushed(b, a)
  PROVE  b # a
BY TheConstants DEF Pushed, Level

Clock == now \in 0..FrameLen + Stride - 1

\* The level before its end is looked at: as it was, or moved to its end
Came(m, d, l) ==
  \/ m = d /\ d.level[l].active = -1
  \/ /\ d.level[l].active = 1
     /\ \E t \in Times : d.counter < t /\ t <= d.runUntil + Cost - 1 /\ Moved(m, d, l, d.level[l].left, t)

LEMMA LastStep ==
  ASSUME NEW ts \in Int, now \in 0..Half - 1, NEW m \in Dma, NEW l \in Levels, ~(m.level[l].active > 0), NEW e,
         e = IF m.level[l].active > 0 THEN m
             ELSE IF ts >= m.level[l].finish THEN DoDMAEnd(m, l)
             ELSE [m EXCEPT !.ret = m.level[l].finish]
  PROVE  \/ ts >= m.level[l].finish /\ Ended(e, m, l)
         \/ ts < m.level[l].finish /\ e = [m EXCEPT !.ret = m.level[l].finish]
<1>1. m.level[l].finish \in Times
  BY DmaFields
<1>2. CASE ts >= m.level[l].finish
  BY <1>2, EndEnds
<1>3. CASE ~(ts >= m.level[l].finish)
  BY <1>1, <1>3, TheConstants DEF Times
<1> QED BY <1>2, <1>3

LEMMA TurnCases ==
  ASSUME NEW ts \in 0..FrameLen + Stride - 1, NEW floor \in Int, floor <= ts, Clock,
         NEW d, Going(d, ts, floor), NEW l \in Levels
  PROVE  \/ Turn(d, l, ts) = d /\ (d.ret # Unset \/ d.level[l].active = 0 \/ d.counter >= d.runUntil)
         \/ /\ d.ret = Unset /\ d.counter < d.runUntil
            /\ \/ /\ d.level[l].active = 1
                  /\ \E n \in 1..Units, t \in Times :
                       /\ n < d.level[l].left /\ d.counter < t /\ t <= d.runUntil + Cost - 1
                       /\ Moved(Turn(d, l, ts), d, l, n, t)
               \/ \E m \in Dma :
                    /\ Came(m, d, l)
                    /\ \/ ts >= m.level[l].finish /\ Ended(Turn(d, l, ts), m, l)
                       \/ ts < m.level[l].finish /\ Turn(d, l, ts) = [m EXCEPT !.ret = m.level[l].finish]
<1> USE TheConstants
<1>1. d \in Dma /\ d.runUntil = ts + Gran /\ ts + Gran <= Half - Cost /\ ts + Gran <= Disabled
      /\ now \in 0..Half - 1
  BY DEF Going, Disabled, Clock
<1>2. CASE d.ret # Unset \/ d.level[l].active = 0 \/ d.counter >= d.runUntil
  BY <1>2 DEF Turn
<1>3. CASE ~(d.ret # Unset \/ d.level[l].active = 0 \/ d.counter >= d.runUntil)
  <2> DEFINE m == Transfer(d, l, d.runUntil)
  <2>1. Turn(d, l, ts) = IF m.level[l].active > 0 THEN m
                         ELSE IF ts >= m.level[l].finish THEN DoDMAEnd(m, l)
                         ELSE [m EXCEPT !.ret = m.level[l].finish]
    BY <1>3, Zenon DEF Turn
  <2>0. d.counter \in Int /\ d.runUntil \in Int /\ d.level[l].active \in {-1, 0, 1} /\ d.level[l].left \in 0..Units
    <3>1. d.counter \in Times /\ d.runUntil \in Times
      BY <1>1, DmaFields
    <3>2. d.level[l].active \in {-1, 0, 1} /\ d.level[l].left \in 0..Units
      BY <1>1, DmaFields
    <3> QED BY <3>1, <3>2 DEF Times
  <2>2. d.ret = Unset /\ d.counter < d.runUntil /\ d.level[l].active \in {-1, 1}
    BY <1>3, <2>0
  <2>3. CASE d.level[l].active = -1
    <3>1. m = d
      BY <2>3, TransferRests
    <3>2. Came(m, d, l) /\ m \in Dma /\ ~(m.level[l].active > 0)
      BY <1>1, <2>3, <3>1 DEF Came
    <3> HIDE DEF m
    <3>3. \/ ts >= m.level[l].finish /\ Ended(Turn(d, l, ts), m, l)
          \/ ts < m.level[l].finish /\ Turn(d, l, ts) = [m EXCEPT !.ret = m.level[l].finish]
      BY <1>1, <2>1, <3>2, LastStep
    <3> QED BY <2>2, <3>2, <3>3
  <2>4. CASE d.level[l].active = 1
    <3>1. d.level[l].left > 0
      BY <2>4 DEF Going
    <3>2. PICK n \in 1..Units, t \in Times :
             /\ n <= d.level[l].left /\ Moved(m, d, l, n, t)
             /\ d.counter < t /\ t <= d.runUntil + Cost - 1
      BY <1>1, <2>2, <2>4, <3>1, TransferMoves
    <3> HIDE DEF m
    <3>3. CASE n < d.level[l].left
      <4>1. m.level[l].active = 1
        BY <3>2, <3>3, LevelFields DEF Moved
      <4>2. Turn(d, l, ts) = m
        BY <2>1, <4>1
      <4> QED BY <2>2, <2>4, <3>2, <3>3, <4>2
    <3>4. CASE ~(n < d.level[l].left)
      <4>1. n = d.level[l].left
        <5>1. \A x \in 1..Units, y \in 0..Units : x <= y /\ ~(x < y) => x = y
          BY TheConstants
        <5> QED BY <2>0, <3>2, <3>4, <5>1, Zenon
      <4>2. m.level[l].active = -1 /\ m \in Dma
        BY <3>2, <3>4, LevelFields DEF Moved
      <4>3. Came(m, d, l)
        BY <2>4, <3>2, <4>1 DEF Came
      <4>4. ~(m.level[l].active > 0)
        BY <4>2
      <4>5. \/ ts >= m.level[l].finish /\ Ended(Turn(d, l, ts), m, l)
            \/ ts < m.level[l].finish /\ Turn(d, l, ts) = [m EXCEPT !.ret = m.level[l].finish]
        BY <1>1, <2>1, <4>2, <4>4, LastStep
      <4> QED BY <2>2, <4>2, <4>3, <4>5
    <3> QED BY <3>3, <3>4
  <2> QED BY <2>2, <2>3, <2>4
<1> QED BY <1>2, <1>3

\* The same, field by field: what one turn makes of the state.
LEMMA CameFields ==
  ASSUME NEW ts \in 0..FrameLen + Stride - 1, NEW floor \in Int, floor <= ts,
         NEW d, Going(d, ts, floor), d.ret = Unset, d.counter < d.runUntil, NEW l \in Levels, NEW m \in Dma, Came(m, d, l)
  PROVE  /\ m.level[l].active = -1 /\ m.level[l].go = d.level[l].go
         /\ m.runUntil = d.runUntil /\ m.ret = Unset
         /\ \A k \in Levels : k # l => m.level[k] = d.level[k]
         /\ m.counter >= d.counter /\ m.counter <= Horizon(ts)
         /\ m.level[l].finish <= Horizon(ts)
         /\ m.level[l].finish >= floor \/ m.level[l].finish <= ts
         /\ m.counter < ts + Gran \/ m.counter = m.level[l].finish
<1> USE TheConstants
<1>0. d \in Dma /\ d.runUntil = ts + Gran
  BY DEF Going
<1>1. d.counter \in Int
  <2>1. d.counter \in Times
    BY <1>0, DmaFields
  <2> QED BY <2>1 DEF Times
<1>2. CASE m = d /\ d.level[l].active = -1
  BY <1>0, <1>1, <1>2 DEF Going, Horizon
<1>3. CASE /\ d.level[l].active = 1
           /\ \E t \in Times : d.counter < t /\ t <= d.runUntil + Cost - 1 /\ Moved(m, d, l, d.level[l].left, t)
  <2>1. PICK t \in Times : d.counter < t /\ t <= d.runUntil + Cost - 1 /\ Moved(m, d, l, d.level[l].left, t)
    BY <1>3
  <2>2. d.level[l].left \in 0..Units
    BY <1>0, DmaFields
  <2>3. /\ m.counter = t /\ m.runUntil = d.runUntil /\ m.ret = d.ret
        /\ LevelIs(m, d, l, -1, d.level[l].go, 0, t)
    BY <2>1, <2>2 DEF Moved
  <2>4. /\ m.level[l].active = -1 /\ m.level[l].go = d.level[l].go /\ m.level[l].finish = t
        /\ \A k \in Levels : k # l => m.level[k] = d.level[k]
    BY <2>3, LevelFields DEF LevelIs
  <2>5. t <= Horizon(ts) /\ t \in Int
    BY <1>0, <2>1 DEF Times, Horizon
  <2> QED BY <1>1, <2>1, <2>3, <2>4, <2>5
<1> QED BY <1>2, <1>3 DEF Came

LEMMA TurnGoes ==
  ASSUME NEW ts \in 0..FrameLen + Stride - 1, NEW floor \in Int, floor <= ts, Clock,
         NEW d, Going(d, ts, floor), NEW l \in Levels
  PROVE  /\ Going(Turn(d, l, ts), ts, floor)
         /\ Paced(d, ts) => Paced(Turn(d, l, ts), ts)
         /\ \A k \in Levels : k # l => Turn(d, l, ts).level[k] = d.level[k]
         /\ \A a \in Level : Pushed(d.level[l], a) => Pushed(Turn(d, l, ts).level[l], a)
         /\ d.ret = Unset /\ d.counter < d.runUntil /\ (d.level[l].active = 1 \/ (d.level[l].active = -1 /\ d.level[l].finish <= ts))
              => Pushed(Turn(d, l, ts).level[l], d.level[l])
<1> USE TheConstants
<1> DEFINE e == Turn(d, l, ts)
<1>0. d \in Dma /\ d.runUntil = ts + Gran
  BY DEF Going
<1>1. /\ d.counter \in Int /\ d.level[l].active \in {-1, 0, 1} /\ d.level[l].go \in {"no", "legal", "illegal"}
      /\ d.level[l].left \in 0..Units /\ d.level[l].finish \in Int
  <2>1. d.counter \in Times /\ d.level[l].finish \in Times
    BY <1>0, DmaFields
  <2>2. /\ d.level[l].active \in {-1, 0, 1} /\ d.level[l].go \in {"no", "legal", "illegal"}
        /\ d.level[l].left \in 0..Units
    BY <1>0, DmaFields
  <2> QED BY <2>1, <2>2 DEF Times
<1>2. CASE e = d /\ (d.ret # Unset \/ d.level[l].active = 0 \/ d.counter >= d.runUntil)
  BY <1>0, <1>1, <1>2
<1>3. ASSUME d.ret = Unset, d.counter < d.runUntil, d.level[l].active = 1,
             NEW n \in 1..Units, NEW t \in Times, n < d.level[l].left, d.counter < t, t <= d.runUntil + Cost - 1,
             Moved(e, d, l, n, t)
      PROVE  /\ Going(e, ts, floor) /\ (Paced(d, ts) => Paced(e, ts))
             /\ \A k \in Levels : k # l => e.level[k] = d.level[k]
             /\ \A a \in Level : Pushed(d.level[l], a) => Pushed(e.level[l], a)
             /\ Pushed(e.level[l], d.level[l])
  <2> HIDE DEF e
  <2>1. /\ e \in Dma /\ e.counter = t /\ e.runUntil = d.runUntil /\ e.ret = d.ret
        /\ LevelIs(e, d, l, 1, d.level[l].go, d.level[l].left - n, d.level[l].finish)
    BY <1>3 DEF Moved
  <2>2. /\ e.level[l].active = 1 /\ e.level[l].go = d.level[l].go /\ e.level[l].left = d.level[l].left - n
        /\ \A k \in Levels : k # l => e.level[k] = d.level[k]
    BY <2>1, LevelFields DEF LevelIs
  <2>3. t \in Int /\ t <= Horizon(ts)
    BY <1>0, <1>3 DEF Times, Horizon
  <2>4. e.level[l].left > 0 /\ e.level[l].left < d.level[l].left
    BY <1>1, <1>3, <2>2
  <2>5. Going(e, ts, floor)
    BY <1>3, <2>1, <2>2, <2>4 DEF Going
  <2>6. Paced(d, ts) => Paced(e, ts)
    BY <1>1, <1>3, <2>1, <2>3 DEF Paced
  <2>7. ASSUME NEW a \in Level, Pushed(d.level[l], a) PROVE Pushed(e.level[l], a)
    <3>1. a.left \in Int
      BY DEF Level
    <3> QED BY <1>1, <1>3, <2>2, <2>4, <2>7, <3>1 DEF Pushed
  <2>8. Pushed(e.level[l], d.level[l])
    BY <1>3, <2>2, <2>4 DEF Pushed
  <2> QED BY <2>2, <2>5, <2>6, <2>7, <2>8
<1>4. ASSUME d.ret = Unset, d.counter < d.runUntil, NEW m \in Dma, Came(m, d, l),
             \/ ts >= m.level[l].finish /\ Ended(e, m, l)
             \/ ts < m.level[l].finish /\ e = [m EXCEPT !.ret = m.level[l].finish]
      PROVE  /\ Going(e, ts, floor) /\ (Paced(d, ts) => Paced(e, ts))
             /\ \A k \in Levels : k # l => e.level[k] = d.level[k]
             /\ \A a \in Level : Pushed(d.level[l], a) => Pushed(e.level[l], a)
             /\ (d.level[l].active = 1 \/ (d.level[l].active = -1 /\ d.level[l].finish <= ts)) => Pushed(e.level[l], d.level[l])
  <2> HIDE DEF e
  <2>1. /\ m.level[l].active = -1 /\ m.level[l].go = d.level[l].go
        /\ m.runUntil = d.runUntil /\ m.ret = Unset
        /\ \A k \in Levels : k # l => m.level[k] = d.level[k]
        /\ m.counter >= d.counter /\ m.counter <= Horizon(ts)
        /\ m.level[l].finish <= Horizon(ts)
        /\ m.level[l].finish >= floor \/ m.level[l].finish <= ts
        /\ m.counter < ts + Gran \/ m.counter = m.level[l].finish
    BY <1>4, CameFields
  <2>2. m.counter \in Int /\ m.level[l].finish \in Int
    <3>1. m.counter \in Times /\ m.level[l].finish \in Times
      BY DmaFields
    <3> QED BY <3>1 DEF Times
  <2>3. d.level[l].active \in {-1, 1}
    BY <1>4 DEF Came
  <2>4. d.level[l].active = -1 => m = d
    BY <1>4 DEF Came
  <2>5. CASE ts >= m.level[l].finish /\ Ended(e, m, l)
    <3>1. e \in Dma /\ e.counter = m.counter /\ e.runUntil = m.runUntil /\ e.ret = m.ret
      BY <2>5 DEF Ended
    <3>2. /\ e.level[l].go = "no"
          /\ \/ m.level[l].go # "legal" /\ e.level[l].active = 0
             \/ m.level[l].go = "legal" /\ e.level[l].active = 1 /\ e.level[l].left = Units
          /\ \A k \in Levels : k # l => e.level[k] = m.level[k]
      BY <2>5, LevelFields DEF Ended, LevelIs
    <3>3. \A k \in Levels : k # l => e.level[k] = d.level[k]
      BY <2>1, <3>2
    <3>4. Going(e, ts, floor)
      BY <1>0, <1>4, <2>1, <3>1, <3>2, <3>3 DEF Going
    <3>5. Paced(d, ts) => Paced(e, ts)
      BY <1>1, <2>1, <2>2, <3>1 DEF Paced
    <3>6. \A a \in Level : Pushed(d.level[l], a) => Pushed(e.level[l], a)
      BY <2>1, <2>3, <3>2 DEF Pushed
    <3>7. Pushed(e.level[l], d.level[l])
      BY <2>1, <3>2 DEF Pushed
    <3> QED BY <3>3, <3>4, <3>5, <3>6, <3>7
  <2>6. CASE ts < m.level[l].finish /\ e = [m EXCEPT !.ret = m.level[l].finish]
    <3>0. m.level[l].finish \in Times
      BY DmaFields
    <3>1. /\ e \in Dma /\ e.counter = m.counter /\ e.level = m.level /\ e.runUntil = m.runUntil
          /\ e.ret = m.level[l].finish
      BY <2>6, <3>0, SetTimes
    <3>2. m.level[l].finish >= floor
      BY <2>1, <2>2, <2>6
    <3>3. Going(e, ts, floor)
      <4>1. \A k \in Levels : /\ e.level[k].active = 1 => e.level[k].left > 0
                              /\ e.level[k].active = -1 => floor <= e.level[k].finish /\ e.level[k].finish <= Horizon(ts)
        <5>1. \A k \in Levels : k # l => e.level[k] = d.level[k]
          BY <2>1, <3>1
        <5>2. e.level[l].active = -1 /\ e.level[l].finish >= floor /\ e.level[l].finish <= Horizon(ts)
          BY <2>1, <3>1, <3>2
        <5>3. ASSUME NEW k \in Levels
              PROVE  /\ e.level[k].active = 1 => e.level[k].left > 0
                     /\ e.level[k].active = -1 => floor <= e.level[k].finish /\ e.level[k].finish <= Horizon(ts)
          <6>1. CASE k = l
            BY <2>2, <5>2, <6>1
          <6>2. CASE k # l
            BY <5>1, <6>2 DEF Going
          <6> QED BY <6>1, <6>2
        <5> QED BY <5>3, Zenon
      <4>2. ts < e.ret /\ e.ret <= Horizon(ts) /\ (e.counter <= e.ret \/ e.counter < ts + Gran)
        BY <2>1, <2>2, <2>6, <3>1
      <4> QED BY <1>0, <2>1, <3>1, <4>1, <4>2 DEF Going
    <3>4. Paced(d, ts) => Paced(e, ts)
      BY <1>1, <2>1, <2>2, <3>1 DEF Paced
    <3>5. ASSUME NEW a \in Level, Pushed(d.level[l], a) PROVE Pushed(e.level[l], a)
      BY <2>1, <2>3, <2>4, <3>1, <3>5 DEF Pushed
    <3>6. d.level[l].active = 1 => Pushed(e.level[l], d.level[l])
      BY <2>1, <3>1 DEF Pushed
    <3>7. d.level[l].active = -1 => ts < d.level[l].finish
      BY <2>4, <2>6
    <3> QED BY <1>1, <2>1, <3>1, <3>3, <3>4, <3>5, <3>6, <3>7
  <2> QED BY <1>4, <2>5, <2>6
<1> QED BY <1>2, <1>3, <1>4, TurnCases
-----------------------------------------------------------------------------
(* The update of all levels. *)

LEMMA ServeLevelGoes ==
  ASSUME NEW ts \in 0..FrameLen + Stride - 1, NEW floor \in Int, floor <= ts, Clock,
         NEW d, Going(d, ts, floor), NEW l
  PROVE  /\ Going(ServeLevel(d, l, ts), ts, floor)
         /\ Paced(d, ts) => Paced(ServeLevel(d, l, ts), ts)
         /\ \A k \in Levels : k # l => ServeLevel(d, l, ts).level[k] = d.level[k]
         /\ \A k \in Levels, a \in Level :
              Pushed(d.level[k], a) => Pushed(ServeLevel(d, l, ts).level[k], a)
         /\ l \in Levels /\ d.ret = Unset /\ d.counter < d.runUntil
            /\ (d.level[l].active = 1 \/ (d.level[l].active = -1 /\ d.level[l].finish <= ts))
              => Pushed(ServeLevel(d, l, ts).level[l], d.level[l])
         /\ l \in Levels /\ d.level[l].active = 0 => ServeLevel(d, l, ts) = d
         /\ l \notin Levels => ServeLevel(d, l, ts) = d
<1>1. CASE l \notin Levels
  BY <1>1 DEF ServeLevel
<1>2. CASE l \in Levels
  <2> DEFINE e == Turn(d, l, ts)
             f == Turn(e, l, ts)
  <2>1. ServeLevel(d, l, ts) = f
    BY <1>2 DEF ServeLevel
  <2>2. /\ Going(e, ts, floor) /\ (Paced(d, ts) => Paced(e, ts))
        /\ \A k \in Levels : k # l => e.level[k] = d.level[k]
        /\ \A a \in Level : Pushed(d.level[l], a) => Pushed(e.level[l], a)
        /\ d.ret = Unset /\ d.counter < d.runUntil /\ (d.level[l].active = 1 \/ (d.level[l].active = -1 /\ d.level[l].finish <= ts))
             => Pushed(e.level[l], d.level[l])
    BY <1>2, TurnGoes
  <2>3. d.level[l].active = 0 => e = d /\ f = d
    BY DEF Turn
  <2> HIDE DEF e
  <2>4. /\ Going(f, ts, floor) /\ (Paced(e, ts) => Paced(f, ts))
        /\ \A k \in Levels : k # l => f.level[k] = e.level[k]
        /\ \A a \in Level : Pushed(e.level[l], a) => Pushed(f.level[l], a)
    BY <1>2, <2>2, TurnGoes
  <2>5. d.level[l] \in Level
    BY <1>2, DmaFields DEF Going
  <2> HIDE DEF f
  <2>6. \A k \in Levels : k # l => f.level[k] = d.level[k]
    BY <2>2, <2>4
  <2>7. \A k \in Levels, a \in Level : Pushed(d.level[k], a) => Pushed(f.level[k], a)
    BY <2>2, <2>4, <2>6
  <2>8. /\ d.ret = Unset /\ d.counter < d.runUntil /\ (d.level[l].active = 1 \/ (d.level[l].active = -1 /\ d.level[l].finish <= ts))
             => Pushed(f.level[l], d.level[l])
    BY <2>2, <2>4, <2>5
  <2> QED BY <1>2, <2>1, <2>2, <2>3, <2>4, <2>6, <2>7, <2>8
<1> QED BY <1>1, <1>2

LEMMA ServeGoes ==
  ASSUME NEW ts \in 0..FrameLen + Stride - 1, NEW floor \in Int, floor <= ts, Clock,
         NEW d, Going(d, ts, floor)
  PROVE  /\ Going(Serve(d, ts), ts, floor)
         /\ Paced(d, ts) => Paced(Serve(d, ts), ts)
         /\ \A l \in Levels :
              /\ \A k \in Levels : k > l => d.level[k].active = 0
              /\ d.ret = Unset /\ d.counter < d.runUntil
              /\ d.level[l].active = 1 \/ (d.level[l].active = -1 /\ d.level[l].finish <= ts)
              => Pushed(Serve(d, ts).level[l], d.level[l])
<1> USE TheConstants
<1> DEFINE e == ServeLevel(d, 2, ts)
           f == ServeLevel(e, 1, ts)
           g == ServeLevel(f, 0, ts)
<1>1. Serve(d, ts) = g
  BY DEF Serve
<1>2. /\ Going(e, ts, floor) /\ (Paced(d, ts) => Paced(e, ts))
      /\ \A k \in Levels, a \in Level : Pushed(d.level[k], a) => Pushed(e.level[k], a)
      /\ 2 \in Levels /\ d.ret = Unset /\ d.counter < d.runUntil
         /\ (d.level[2].active = 1 \/ (d.level[2].active = -1 /\ d.level[2].finish <= ts))
              => Pushed(e.level[2], d.level[2])
      /\ 2 \in Levels /\ d.level[2].active = 0 => e = d
      /\ 2 \notin Levels => e = d
  BY ServeLevelGoes
<1> HIDE DEF e
<1>3. /\ Going(f, ts, floor) /\ (Paced(e, ts) => Paced(f, ts))
      /\ \A k \in Levels, a \in Level : Pushed(e.level[k], a) => Pushed(f.level[k], a)
      /\ 1 \in Levels /\ e.ret = Unset /\ e.counter < e.runUntil
         /\ (e.level[1].active = 1 \/ (e.level[1].active = -1 /\ e.level[1].finish <= ts))
              => Pushed(f.level[1], e.level[1])
      /\ 1 \in Levels /\ e.level[1].active = 0 => f = e
      /\ 1 \notin Levels => f = e
  BY <1>2, ServeLevelGoes
<1> HIDE DEF f
<1>4. /\ Going(g, ts, floor) /\ (Paced(f, ts) => Paced(g, ts))
      /\ \A k \in Levels, a \in Level : Pushed(f.level[k], a) => Pushed(g.level[k], a)
      /\ 0 \in Levels /\ f.ret = Unset /\ f.counter < f.runUntil
         /\ (f.level[0].active = 1 \/ (f.level[0].active = -1 /\ f.level[0].finish <= ts))
              => Pushed(g.level[0], f.level[0])
  BY <1>3, ServeLevelGoes
<1> HIDE DEF g
<1>5. ASSUME NEW l \in Levels, \A k \in Levels : k > l => d.level[k].active = 0,
             d.ret = Unset, d.counter < d.runUntil,
             d.level[l].active = 1 \/ (d.level[l].active = -1 /\ d.level[l].finish <= ts)
      PROVE  Pushed(g.level[l], d.level[l])
  <2>1. l \in {0, 1, 2} /\ d.level[l] \in Level
    BY DmaFields DEF Going
  <2>2. CASE l = 2
    BY <1>2, <1>3, <1>4, <1>5, <2>1, <2>2
  <2>3. CASE l = 1
    <3>1. e = d
      BY <1>2, <1>5, <2>3
    <3> QED BY <1>3, <1>4, <1>5, <2>1, <2>3, <3>1
  <2>4. CASE l = 0
    <3>1. e = d
      BY <1>2, <1>5, <2>4
    <3>2. f = d
      BY <1>3, <1>5, <2>4, <3>1
    <3> QED BY <1>4, <1>5, <2>1, <2>4, <3>2
  <2> QED BY <2>1, <2>2, <2>3, <2>4
<1> QED BY <1>1, <1>2, <1>3, <1>4, <1>5
-----------------------------------------------------------------------------
(* SCU_UpdateDMA at the machine's time, and the event it sets. *)

\* The exact mode's counters before an update
Unparked(d) == d.runUntil >= 0 /\ d.counter <= Horizon(now)

\* When the next update is: soon, or never for want of work
NextTime(d, time) ==
  \/ now < time /\ time <= Horizon(now)
  \/ fast /\ ActiveOf(d) = {} /\ time = Disabled

Updated(e, d, floor) ==
  /\ e \in Dma /\ LevelsFit(e, now, floor) /\ NextTime(e, e.ret)
  /\ ~fast /\ Unparked(d) => e.runUntil = now + Gran /\ Paced(e, now) /\ e.counter < e.ret + Gran

LEMMA UpdateGoes ==
  ASSUME Clock, NEW floor \in Int, floor <= now, NEW d \in Dma, LevelsFit(d, now, floor)
  PROVE  Updated(UpdateDMA(d, now), d, floor)
<1> USE TheConstants
<1> DEFINE c  == FirstCounter(d, now)
           s1 == [d EXCEPT !.counter = c]
           s2 == [s1 EXCEPT !.runUntil = now + Gran]
           s3 == [s2 EXCEPT !.ret = Unset]
           e  == Serve(s3, now)
<1>0. d.counter \in Times /\ d.runUntil \in Times
  BY DmaFields
<1>1. now \in 0..FrameLen + Stride - 1 /\ now \in Times /\ now + Gran \in Times /\ now + Gran \in 0..Half - 1
      /\ Horizon(now) \in 0..Half - 1 /\ Unset < now /\ ~(now < now)
  BY DEF Clock, Times, Horizon, Unset
<1>2. c \in Times /\ (Unparked(d) => 0 <= c /\ c <= Horizon(now))
  BY <1>0, <1>1 DEF FirstCounter, Greater, Lesser, Times, Unparked, Horizon
<1> HIDE DEF c
<1>3. s1 \in Dma /\ s1.counter = c /\ s1.level = d.level
  BY <1>2, SetTimes
<1> HIDE DEF s1
<1>4. s2 \in Dma /\ s2.counter = c /\ s2.level = d.level /\ s2.runUntil = now + Gran
  BY <1>1, <1>3, SetTimes
<1>5. [d EXCEPT !.counter = FirstCounter(d, now), !.runUntil = now + Gran, !.ret = Unset] = s3
  BY DEF s1, c
<1> HIDE DEF s2
<1>6. s3 \in Dma /\ s3.counter = c /\ s3.level = d.level /\ s3.runUntil = now + Gran /\ s3.ret = Unset
  BY <1>4, SomeTimes, SetTimes
<1> HIDE DEF s3
<1>7. Going(s3, now, floor)
  BY <1>6 DEF Going, LevelsFit
<1>8. Going(e, now, floor) /\ (Paced(s3, now) => Paced(e, now))
  BY <1>1, <1>7, ServeGoes
<1>9. Unparked(d) => Paced(e, now)
  BY <1>2, <1>6, <1>8 DEF Paced
<1>10. UpdateDMA(d, now) = IF e.ret # Unset THEN e
                           ELSE IF fast /\ ActiveOf(e) = {} THEN [e EXCEPT !.runUntil = Disabled, !.ret = Disabled]
                           ELSE [e EXCEPT !.ret = now + Gran]
  BY <1>1, <1>5 DEF UpdateDMA
<1> HIDE DEF e
<1>11. /\ e \in Dma /\ e.runUntil = now + Gran /\ LevelsFit(e, now, floor)
       /\ e.ret # Unset => now < e.ret /\ e.ret <= Horizon(now) /\ (e.counter <= e.ret \/ e.counter < now + Gran)
  BY <1>8 DEF Going, LevelsFit
<1>12. e.counter \in Int /\ e.ret \in Int
  <2>1. e.counter \in Times /\ e.ret \in Times
    BY <1>11, DmaFields
  <2> QED BY <2>1 DEF Times
<1>13. CASE e.ret # Unset
  <2>1. UpdateDMA(d, now) = e
    BY <1>10, <1>13
  <2>2. e.counter < e.ret + Gran
    BY <1>1, <1>11, <1>12, <1>13
  <2> QED BY <1>9, <1>11, <1>13, <2>1, <2>2 DEF Updated, NextTime
<1>14. CASE e.ret = Unset /\ fast /\ ActiveOf(e) = {}
  <2> DEFINE f1 == [e EXCEPT !.runUntil = Disabled]
             f2 == [f1 EXCEPT !.ret = Disabled]
  <2>1. [e EXCEPT !.runUntil = Disabled, !.ret = Disabled] = f2
    OBVIOUS
  <2>2. UpdateDMA(d, now) = f2
    BY <1>10, <1>14, <2>1
  <2>3. f1 \in Dma /\ f1.level = e.level
    BY <1>11, SomeTimes, SetTimes
  <2> HIDE DEF f1
  <2>4. f2 \in Dma /\ f2.level = e.level /\ f2.ret = Disabled
    BY <2>3, SomeTimes, SetTimes
  <2> HIDE DEF f2
  <2>5. LevelsFit(f2, now, floor) /\ ActiveOf(f2) = {}
    BY <1>11, <1>14, <2>4 DEF LevelsFit, ActiveOf
  <2> QED BY <1>14, <2>2, <2>4, <2>5 DEF Updated, NextTime
<1>15. CASE e.ret = Unset /\ ~(fast /\ ActiveOf(e) = {})
  <2> DEFINE f == [e EXCEPT !.ret = now + Gran]
  <2>1. UpdateDMA(d, now) = f
    BY <1>10, <1>15
  <2>2. /\ f \in Dma /\ f.level = e.level /\ f.counter = e.counter /\ f.runUntil = e.runUntil
        /\ f.ret = now + Gran
    BY <1>1, <1>11, SetTimes
  <2> HIDE DEF f
  <2>3. LevelsFit(f, now, floor)
    BY <1>11, <2>2, Zenon DEF LevelsFit
  <2>4. NextTime(f, f.ret)
    BY <1>1, <2>2 DEF NextTime, Horizon
  <2>5. Paced(e, now) => Paced(f, now) /\ f.counter < f.ret + Gran
    BY <1>1, <1>12, <2>2 DEF Paced, Horizon
  <2> QED BY <1>9, <1>11, <2>1, <2>2, <2>3, <2>4, <2>5 DEF Updated
<1> QED BY <1>13, <1>14, <1>15

\* After a visit
Settled(r, d, floor) ==
  /\ r \in Dma /\ r.ret = Unset /\ LevelsFit(r, now, floor) /\ NextTime(r, r.event)
  /\ ~fast /\ Unparked(d) => r.runUntil = now + Gran /\ Paced(r, now) /\ r.counter < r.event + Gran

LEMMA RunNow ==
  ASSUME Clock, NEW floor \in Int, floor <= now, NEW d \in Dma, LevelsFit(d, now, floor)
  PROVE  Settled(Run(d, now), d, floor)
<1> USE TheConstants
<1> DEFINE e  == UpdateDMA(d, now)
           r1 == [e EXCEPT !.event = e.ret]
           r2 == [r1 EXCEPT !.ret = Unset]
<1>1. Updated(e, d, floor)
  BY UpdateGoes
<1> HIDE DEF e
<1>2. Run(d, now) = r2
  BY DEF Run, Schedule, e
<1>3. e.ret \in 0..Half - 1
  <2>1. e.ret \in Times
    BY <1>1, DmaFields DEF Updated
  <2> QED BY <1>1, <2>1, SomeTimes DEF Updated, NextTime, Clock, Times
<1>4. /\ r1 \in Dma /\ r1.event = e.ret /\ r1.level = e.level /\ r1.counter = e.counter /\ r1.runUntil = e.runUntil
  BY <1>1, <1>3, SetTimes DEF Updated
<1> HIDE DEF r1
<1>5. /\ r2 \in Dma /\ r2.event = e.ret /\ r2.level = e.level /\ r2.counter = e.counter /\ r2.runUntil = e.runUntil
      /\ r2.ret = Unset
  BY <1>4, SomeTimes, SetTimes
<1> HIDE DEF r2
<1>6. LevelsFit(r2, now, floor) /\ NextTime(r2, r2.event)
  BY <1>1, <1>5 DEF Updated, LevelsFit, NextTime, ActiveOf
<1>7. ~fast /\ Unparked(d) => r2.runUntil = now + Gran /\ Paced(r2, now) /\ r2.counter < r2.event + Gran
  BY <1>1, <1>5 DEF Updated, Paced
<1> QED BY <1>2, <1>5, <1>6, <1>7 DEF Settled
-----------------------------------------------------------------------------
(* A start, and the end of a frame. *)

\* What a start leaves: the counters; in the fast modes a new transfer has the
\* event now.
Started(e, d) ==
  /\ e \in Dma /\ e.counter = d.counter /\ e.runUntil = d.runUntil /\ e.ret = d.ret
  /\ e.event = d.event \/ (fast /\ e.event = now)
  /\ ActiveOf(e) = ActiveOf(d) \/ ~fast \/ e.event = now
  /\ \A floor \in Int : LevelsFit(d, now, floor) => LevelsFit(e, now, floor)

LEMMA StartedTwice ==
  ASSUME NEW d, NEW e, NEW f, Started(e, d), Started(f, e)
  PROVE  Started(f, d)
BY DEF Started

LEMMA StartStarts ==
  ASSUME now \in 0..Half - 1, NEW d \in Dma, NEW l \in Levels, NEW trigger \in {"legal", "illegal"}
  PROVE  Started(Start(d, l, trigger), d)
<1> USE TheConstants
<1> DEFINE e1 == [d EXCEPT !.level[l].go = trigger]
           e  == Start(d, l, trigger)
<1>1. At(e1, d, l, d.level[l].active, trigger, d.level[l].left, d.level[l].finish)
  BY SetLevel
<1>2. e = CheckDMAStart(e1, l)
  BY DEF Start
<1> HIDE DEF e1, e
<1>3. Checked(e, e1, l)
  BY <1>1, <1>2, StartChecked DEF At
<1>4. /\ e1.level[l].active = d.level[l].active /\ e1.level[l].go = trigger
      /\ e1.level[l].left = d.level[l].left /\ e1.level[l].finish = d.level[l].finish
      /\ \A k \in Levels : k # l => e1.level[k] = d.level[k]
  BY <1>1, LevelFields DEF At, LevelIs
<1>5. e \in Dma /\ e.counter = d.counter /\ e.runUntil = d.runUntil /\ e.ret = d.ret
  BY <1>1, <1>3 DEF Checked, At
<1>6. \A k \in Levels : k # l => e.level[k] = d.level[k]
  BY <1>3, <1>4 DEF Checked, LevelIs
<1>7. \/ e.level[l].active = d.level[l].active /\ e.level[l].left = d.level[l].left
         /\ e.level[l].finish = d.level[l].finish /\ e.event = d.event
      \/ d.level[l].active = 0 /\ e.level[l].active = 1 /\ e.level[l].left = Units
         /\ e.event = IF fast THEN now ELSE d.event
  <2>1. CASE e = e1
    BY <1>1, <1>4, <2>1 DEF At
  <2>2. CASE /\ e1.level[l].active = 0 /\ e.event = e1.event
             /\ LevelIs(e, e1, l, 0, "no", e1.level[l].left, e1.level[l].finish)
    BY <1>1, <1>4, <2>2, LevelFields DEF At
  <2>3. CASE /\ e1.level[l].active = 0 /\ e.event = IF fast THEN now ELSE e1.event
             /\ LevelIs(e, e1, l, 1, "no", Units, e1.level[l].finish)
    BY <1>1, <1>4, <2>3, LevelFields DEF At
  <2> QED BY <1>3, <2>1, <2>2, <2>3 DEF Checked
<1>8. \A floor \in Int : LevelsFit(d, now, floor) => LevelsFit(e, now, floor)
  <2> SUFFICES ASSUME NEW floor \in Int, LevelsFit(d, now, floor), NEW k \in Levels
               PROVE  /\ e.level[k].active = 1 => e.level[k].left > 0
                      /\ e.level[k].active = -1 => floor <= e.level[k].finish /\ e.level[k].finish <= Horizon(now)
    BY Zenon DEF LevelsFit
  <2>1. /\ d.level[k].active = 1 => d.level[k].left > 0
        /\ d.level[k].active = -1 => floor <= d.level[k].finish /\ d.level[k].finish <= Horizon(now)
    BY DEF LevelsFit
  <2>2. CASE k = l
    BY <1>7, <2>1, <2>2
  <2>3. CASE k # l
    BY <1>6, <2>1, <2>3
  <2> QED BY <2>2, <2>3
<1>9. ActiveOf(e) = ActiveOf(d) \/ (d.level[l].active = 0 /\ e.event = IF fast THEN now ELSE d.event)
  BY <1>6, <1>7 DEF ActiveOf
<1> QED BY <1>5, <1>7, <1>8, <1>9 DEF Started, e

LEMMA StartByStarts ==
  ASSUME now \in 0..Half - 1, NEW d \in Dma, NEW int, NEW trigger \in {"legal", "illegal"}
  PROVE  Started(StartBy(d, int, trigger), d)
<1>1. ASSUME NEW e \in Dma, NEW l PROVE Started(StartLevelBy(e, l, int, trigger), e)
  BY <1>1, StartStarts DEF StartLevelBy, Started
<1> DEFINE e == StartLevelBy(d, 0, int, trigger)
           f == StartLevelBy(e, 1, int, trigger)
           g == StartLevelBy(f, 2, int, trigger)
<1>2. Started(e, d)
  BY <1>1
<1> HIDE DEF e
<1>3. Started(f, e)
  BY <1>1, <1>2 DEF Started
<1> HIDE DEF f
<1>4. Started(g, f)
  BY <1>1, <1>3 DEF Started
<1>5. StartBy(d, int, trigger) = g
  BY DEF StartBy, e, f
<1> HIDE DEF g
<1> QED BY <1>2, <1>3, <1>4, <1>5, StartedTwice

LEMMA HighestIsActive ==
  ASSUME NEW d, ActiveOf(d) # {}
  PROVE  /\ Highest(ActiveOf(d)) \in Levels /\ d.level[Highest(ActiveOf(d))].active # 0
         /\ \A k \in Levels : k > Highest(ActiveOf(d)) => d.level[k].active = 0
<1> USE TheConstants
<1> DEFINE S == ActiveOf(d)
<1>1. S \subseteq 0..2
  BY DEF ActiveOf
<1>2. \E l \in S : \A k \in S : k <= l
  <2> HIDE DEF S
  <2>1. CASE 2 \in S
    BY <1>1, <2>1
  <2>2. CASE 2 \notin S /\ 1 \in S
    BY <1>1, <2>2
  <2>3. CASE 2 \notin S /\ 1 \notin S
    BY <1>1, <2>3 DEF S
  <2> QED BY <2>1, <2>2, <2>3
<1>3. Highest(S) \in S /\ \A k \in S : k <= Highest(S)
  BY <1>2 DEF Highest
<1>4. \A k \in Levels : k > Highest(S) => k \notin S
  <2> HIDE DEF S
  <2>1. Highest(S) \in 0..2
    BY <1>1, <1>3
  <2> QED BY <2>1, <1>3
<1>5. S \subseteq Levels /\ \A k \in Levels : k \in S <=> d.level[k].active # 0
  BY DEF ActiveOf
<1> HIDE DEF S
<1>6. Highest(S) \in Levels /\ d.level[Highest(S)].active # 0
  BY <1>3, <1>5
<1>7. \A k \in Levels : k > Highest(S) => d.level[k].active = 0
  BY <1>4, <1>5
<1> QED BY <1>6, <1>7 DEF S

\* ForceDMAFinish
Forced(e, d) ==
  /\ e \in Dma /\ e.counter = d.runUntil /\ e.runUntil = d.runUntil /\ e.ret = d.ret
  /\ e.event = d.event \/ (fast /\ e.event = now)
  /\ \A floor \in Int : LevelsFit(d, now, floor) => LevelsFit(e, now, floor)

LEMMA ForceForces ==
  ASSUME now \in 0..Half - 1, NEW d \in Dma, ActiveOf(d) # {}, LevelsFit(d, now, -Half)
  PROVE  Forced(ForceFinish(d), d)
<1> USE TheConstants
<1> DEFINE l     == Highest(ActiveOf(d))
           moved == Transfer(d, l, Disabled)
           done  == IF moved.level[l].active < 0 THEN DoDMAEnd(moved, l) ELSE moved
           e     == [done EXCEPT !.counter = done.runUntil]
<1>1. l \in Levels /\ d.level[l].active # 0
  BY HighestIsActive
<1>2. ForceFinish(d) = e
  BY DEF ForceFinish
<1> HIDE DEF l
<1>3. /\ moved \in Dma /\ moved.runUntil = d.runUntil /\ moved.event = d.event /\ moved.ret = d.ret
      /\ \A k \in Levels : k # l => moved.level[k] = d.level[k]
      /\ \/ moved.level[l].active = 1 /\ moved.level[l].left > 0
         \/ moved.level[l].active = -1
  <2>0. /\ d.level[l].active \in {-1, 1} /\ d.counter \in Int /\ Disabled \in Int /\ d.level[l].left \in 0..Units
        /\ d.level[l].active = 1 => d.level[l].left > 0
    <3>1. d.counter \in Times
      BY DmaFields
    <3>2. d.level[l].active \in {-1, 0, 1} /\ d.level[l].left \in 0..Units
      BY <1>1, DmaFields
    <3>3. d.level[l].active = 1 => d.level[l].left > 0
      BY <1>1 DEF LevelsFit
    <3> QED BY <1>1, <3>1, <3>2, <3>3 DEF Times, Disabled
  <2>1. CASE d.level[l].active = -1 \/ d.counter >= Disabled
    <3>1. moved = d
      BY <2>1, TransferRests
    <3> QED BY <2>0, <3>1
  <2>2. CASE d.level[l].active = 1 /\ d.counter < Disabled
    <3>1. PICK n \in 1..Units, t \in Times : n <= d.level[l].left /\ Moved(moved, d, l, n, t)
      BY <1>1, <2>0, <2>2, TransferMoves
    <3> HIDE DEF moved
    <3>2. /\ moved \in Dma /\ moved.runUntil = d.runUntil /\ moved.event = d.event /\ moved.ret = d.ret
      BY <3>1 DEF Moved
    <3>3. CASE n < d.level[l].left
      <4>1. LevelIs(moved, d, l, 1, d.level[l].go, d.level[l].left - n, d.level[l].finish)
        BY <3>1, <3>3 DEF Moved
      <4>2. moved.level[l].active = 1 /\ moved.level[l].left = d.level[l].left - n
        BY <4>1, LevelFields
      <4> QED BY <2>0, <3>2, <3>3, <4>1, <4>2 DEF LevelIs
    <3>4. CASE ~(n < d.level[l].left)
      <4>1. LevelIs(moved, d, l, -1, d.level[l].go, 0, t)
        BY <3>1, <3>4 DEF Moved
      <4>2. moved.level[l].active = -1
        BY <4>1, LevelFields
      <4> QED BY <3>2, <4>1, <4>2 DEF LevelIs
    <3> QED BY <3>3, <3>4
  <2> QED BY <2>0, <2>1, <2>2
<1> HIDE DEF moved
<1>4. /\ done \in Dma /\ done.runUntil = d.runUntil /\ done.ret = d.ret
      /\ done.event = d.event \/ (fast /\ done.event = now)
      /\ \A k \in Levels : k # l => done.level[k] = d.level[k]
      /\ \/ done.level[l].active = 1 /\ done.level[l].left > 0
         \/ done.level[l].active = 0
  <2>1. CASE moved.level[l].active < 0
    <3>1. Ended(done, moved, l)
      BY <1>1, <1>3, <2>1, EndEnds
    <3> HIDE DEF done
    <3>2. \/ done.level[l].active = 0 /\ done.event = moved.event
          \/ done.level[l].active = 1 /\ done.level[l].left = Units
             /\ done.event = IF fast THEN now ELSE moved.event
      BY <3>1, LevelFields DEF Ended
    <3>3. \A k \in Levels : k # l => done.level[k] = moved.level[k]
      BY <3>1 DEF Ended, LevelIs
    <3> QED BY <1>3, <3>1, <3>2, <3>3 DEF Ended
  <2>2. CASE ~(moved.level[l].active < 0)
    BY <1>3, <2>2
  <2> QED BY <2>1, <2>2
<1> HIDE DEF done
<1>5. /\ e \in Dma /\ e.counter = d.runUntil /\ e.level = done.level /\ e.runUntil = d.runUntil
      /\ e.event = done.event /\ e.ret = d.ret
  <2>1. done.runUntil \in Times
    BY <1>4, DmaFields
  <2> QED BY <1>4, <2>1, SetTimes
<1> HIDE DEF e
<1>6. \A floor \in Int : LevelsFit(d, now, floor) => LevelsFit(e, now, floor)
  <2> SUFFICES ASSUME NEW floor \in Int, LevelsFit(d, now, floor), NEW k \in Levels
               PROVE  /\ e.level[k].active = 1 => e.level[k].left > 0
                      /\ e.level[k].active = -1 => floor <= e.level[k].finish /\ e.level[k].finish <= Horizon(now)
    BY Zenon DEF LevelsFit
  <2>1. /\ d.level[k].active = 1 => d.level[k].left > 0
        /\ d.level[k].active = -1 => floor <= d.level[k].finish /\ d.level[k].finish <= Horizon(now)
    BY DEF LevelsFit
  <2>2. CASE k = l
    BY <1>4, <1>5, <2>2
  <2>3. CASE k # l
    BY <1>4, <1>5, <2>1, <2>3
  <2> QED BY <2>2, <2>3
<1> QED BY <1>2, <1>4, <1>5, <1>6 DEF Forced

\* AdjustTS: the levels that wait for their end have their time moved.
Adjusted(e, d, delta) ==
  /\ e \in Dma /\ e.ret = d.ret
  /\ e.counter = Wrap(d.counter - delta) /\ e.runUntil = Wrap(d.runUntil - delta)
  /\ e.event = IF d.event = Disabled THEN Disabled ELSE d.event - delta
  /\ \A l \in Levels : /\ e.level[l].active = d.level[l].active /\ e.level[l].left = d.level[l].left
                       /\ d.level[l].active = -1 => e.level[l].finish = Wrap(d.level[l].finish - delta)

LEMMA AdjustAdjusts ==
  ASSUME NEW d \in Dma, NEW delta \in Nat, d.event = Disabled \/ delta <= d.event
  PROVE  Adjusted(AdjustTS(d, delta), d, delta)
<1> USE TheConstants
<1> DEFINE cc == Wrap(d.counter - delta)
           rr == Wrap(d.runUntil - delta)
           lv == [l \in Levels |-> IF d.level[l].active < 0
                                   THEN [d.level[l] EXCEPT !.finish = Wrap(@ - delta)]
                                   ELSE d.level[l]]
           ev == IF d.event = Disabled THEN Disabled ELSE d.event - delta
           e1 == [d EXCEPT !.counter = cc]
           e2 == [e1 EXCEPT !.runUntil = rr]
           e3 == [e2 EXCEPT !.level = lv]
           e4 == [e3 EXCEPT !.event = ev]
<1>0. /\ d.counter \in Int /\ d.runUntil \in Int /\ d.event \in 0..Half - 1
      /\ \A l \in Levels : d.level[l].finish \in Int /\ d.level[l].active \in {-1, 0, 1} /\ d.level[l] \in Level
  <2>1. d.counter \in Times /\ d.runUntil \in Times /\ d.event \in 0..Half - 1
    BY DmaFields
  <2>2. \A l \in Levels : d.level[l].finish \in Times /\ d.level[l].active \in {-1, 0, 1} /\ d.level[l] \in Level
    BY DmaFields
  <2>3. d.counter \in Int /\ d.runUntil \in Int
    BY <2>1 DEF Times
  <2>4. \A l \in Levels : d.level[l].finish \in Int
    <3>1. Times \subseteq Int
      BY DEF Times
    <3> QED BY <2>2, <3>1, Zenon
  <2> QED BY <2>1, <2>2, <2>3, <2>4
<1>1. cc \in Times /\ rr \in Times
  BY <1>0, WrapInTimes
<1>2. ev \in 0..Half - 1
  BY <1>0, SomeTimes
<1>3. /\ lv \in [Levels -> Level]
      /\ \A l \in Levels : /\ lv[l].active = d.level[l].active /\ lv[l].left = d.level[l].left
                           /\ d.level[l].active = -1 => lv[l].finish = Wrap(d.level[l].finish - delta)
  <2>1. ASSUME NEW l \in Levels
        PROVE  /\ lv[l] \in Level /\ lv[l].active = d.level[l].active /\ lv[l].left = d.level[l].left
               /\ d.level[l].active = -1 => lv[l].finish = Wrap(d.level[l].finish - delta)
    <3> DEFINE w == Wrap(d.level[l].finish - delta)
    <3>1. w \in Times
      BY <1>0, WrapInTimes
    <3>2. lv[l] = IF d.level[l].active < 0 THEN [d.level[l] EXCEPT !.finish = w] ELSE d.level[l]
      OBVIOUS
    <3> HIDE DEF lv, w
    <3>3. d.level[l] \in Level
      BY <1>0
    <3>4. CASE d.level[l].active < 0
      <4>1. lv[l] = [d.level[l] EXCEPT !.finish = w]
        BY <3>2, <3>4
      <4>2. /\ [d.level[l] EXCEPT !.finish = w] \in Level
            /\ [d.level[l] EXCEPT !.finish = w].active = d.level[l].active
            /\ [d.level[l] EXCEPT !.finish = w].left = d.level[l].left
            /\ [d.level[l] EXCEPT !.finish = w].finish = w
        BY <3>1, <3>3 DEF Level, Times
      <4> QED BY <4>1, <4>2 DEF w
    <3>5. CASE ~(d.level[l].active < 0)
      BY <1>0, <3>2, <3>3, <3>5
    <3> QED BY <3>4, <3>5
  <2> HIDE DEF lv
  <2>2. lv = [l \in Levels |-> lv[l]]
    BY DEF lv
  <2> QED BY <2>1, <2>2
<1>4. AdjustTS(d, delta) = e4
  <2>1. AdjustTS(d, delta) = [d EXCEPT !.counter = cc, !.runUntil = rr, !.level = lv, !.event = ev]
    BY DEF AdjustTS
  <2> HIDE DEF cc, rr, lv, ev
  <2>2. [d EXCEPT !.counter = cc, !.runUntil = rr, !.level = lv, !.event = ev] = e4
    OBVIOUS
  <2> QED BY <2>1, <2>2
<1> HIDE DEF cc, rr, lv, ev
<1>5. e1 \in Dma /\ e1.counter = cc /\ e1.event = d.event /\ e1.ret = d.ret
  BY <1>1, SetTimes
<1> HIDE DEF e1
<1>6. e2 \in Dma /\ e2.counter = cc /\ e2.runUntil = rr /\ e2.event = d.event /\ e2.ret = d.ret
  BY <1>1, <1>5, SetTimes
<1> HIDE DEF e2
<1>7. e3 \in Dma /\ e3.counter = cc /\ e3.runUntil = rr /\ e3.event = d.event /\ e3.ret = d.ret /\ e3.level = lv
  BY <1>3, <1>6 DEF Dma
<1> HIDE DEF e3
<1>8. e4 \in Dma /\ e4.counter = cc /\ e4.runUntil = rr /\ e4.event = ev /\ e4.ret = d.ret /\ e4.level = lv
  BY <1>2, <1>7, SetTimes
<1> HIDE DEF e4
<1> QED BY <1>3, <1>4, <1>8 DEF Adjusted, cc, rr, ev
-----------------------------------------------------------------------------
(* The invariant, operation by operation. *)

LEMMA NoFloor ==
  ASSUME NEW d \in Dma, NEW ts, NEW floor, LevelsFit(d, ts, floor)
  PROVE  LevelsFit(d, ts, -Half)
<1>1. \A x \in Times : -Half <= x
  BY TheConstants DEF Times
<1> QED BY <1>1, DmaFields, Zenon DEF LevelsFit

LEMMA ClockRuns ==
  ASSUME ClockInv
  PROVE  Clock /\ now \in 0..Half - 1 /\ Horizon(now) < Disabled /\ now <= Horizon(now)
BY TheConstants DEF ClockInv, Clock, Horizon, Disabled

LEMMA SoundTimes ==
  ASSUME NEW d \in Dma
  PROVE  d.counter \in Int /\ d.runUntil \in Int /\ d.event \in 0..Half - 1
<1>1. d.counter \in Times /\ d.runUntil \in Times /\ d.event \in 0..Half - 1
  BY DmaFields
<1> QED BY <1>1 DEF Times

\* The update of a sound state, or one whose counters are not parked
LEMMA RunSound ==
  ASSUME ClockInv, NEW d \in Dma, NEW floor \in Int, floor <= now, LevelsFit(d, now, floor), ~fast => Unparked(d)
  PROVE  /\ Sound(Run(d, now), now) /\ LevelsFit(Run(d, now), now, floor)
         /\ ~fast => Run(d, now).counter >= 0 /\ Run(d, now).runUntil = now + Gran
         /\ NextTime(Run(d, now), Run(d, now).event)
<1> USE TheConstants
<1> DEFINE r == Run(d, now)
<1>0. Clock /\ now \in 0..Half - 1 /\ Horizon(now) < Disabled /\ fast \in BOOLEAN
  BY ClockRuns DEF ClockInv
<1>1. Settled(r, d, floor)
  BY <1>0, RunNow
<1> HIDE DEF r
<1>2. r \in Dma /\ r.ret = Unset /\ LevelsFit(r, now, floor) /\ NextTime(r, r.event)
  BY <1>1 DEF Settled
<1>3. ~fast => r.runUntil = now + Gran /\ Paced(r, now) /\ r.counter < r.event + Gran
  BY <1>1 DEF Settled
<1>4. LevelsFit(r, now, -Half)
  BY <1>2, NoFloor
<1>5. r.counter \in Int /\ r.runUntil \in Int /\ r.event \in 0..Half - 1
  BY <1>2, SoundTimes
<1>6. EventFits(r, now)
  BY <1>2 DEF EventFits, NextTime
<1>7. PaceFits(r, now)
  BY <1>0, <1>2, <1>3, <1>5 DEF PaceFits, NextTime, Paced
<1> QED BY <1>2, <1>3, <1>4, <1>6, <1>7 DEF Sound, Paced, r

LEMMA StartedSound ==
  ASSUME ClockInv, NEW d, Sound(d, now), NEW e, Started(e, d)
  PROVE  /\ Sound(e, now) /\ e.counter = d.counter /\ e.runUntil = d.runUntil
         /\ e.event = d.event \/ (fast /\ e.event = now)
         /\ \A floor \in Int : LevelsFit(d, now, floor) => LevelsFit(e, now, floor)
<1> USE TheConstants
<1>0. now <= Horizon(now) /\ fast \in BOOLEAN
  BY ClockRuns DEF ClockInv
<1>1. e \in Dma /\ e.ret = Unset /\ e.counter = d.counter /\ e.runUntil = d.runUntil
  BY DEF Started, Sound
<1>2. e.event = d.event \/ (fast /\ e.event = now)
  BY DEF Started
<1>3. -Half \in Int
  OBVIOUS
<1>4. LevelsFit(e, now, -Half)
  BY <1>3 DEF Started, Sound
<1>5. EventFits(e, now)
  BY <1>0 DEF Started, Sound, EventFits
<1>6. PaceFits(e, now)
  BY <1>1, <1>2 DEF Sound, PaceFits
<1> QED BY <1>1, <1>2, <1>4, <1>5, <1>6 DEF Sound, Started

LEMMA Unparks ==
  ASSUME NEW d, Sound(d, now), ~fast
  PROVE  Unparked(d)
<1>1. d \in Dma /\ d.runUntil \in 0..now + Gran /\ d.counter <= Horizon(now)
  BY DEF Sound, PaceFits
<1> QED BY <1>1 DEF Unparked

\* ForceEventUpdates; the event is not visited when there is nothing to do.
LEMMA ForceSound ==
  ASSUME IInv, NEW floor \in Int, floor <= now, LevelsFit(dma, now, floor)
  PROVE  LET f == ForceEventUpdates(dma)
         IN /\ Sound(f, now) /\ LevelsFit(f, now, floor)
            /\ ~fast => f.counter >= 0 /\ f.runUntil = now + Gran
            /\ f.event = Disabled \/ now < f.event
<1> USE TheConstants
<1> DEFINE f == ForceEventUpdates(dma)
<1>0. ClockInv /\ Sound(dma, now) /\ dma \in Dma
  BY DEF IInv, Sound
<1>1. CASE dma.event = Disabled
  <2>1. f = dma
    BY <1>1 DEF ForceEventUpdates
  <2>2. fast
    <3>1. dma.event <= Horizon(now) \/ fast
      BY <1>0 DEF Sound, EventFits
    <3>2. Horizon(now) < Disabled /\ Horizon(now) \in Int /\ Disabled \in Int
      BY <1>0, ClockRuns DEF ClockInv, Horizon, Disabled
    <3> QED BY <1>1, <3>1, <3>2
  <2> QED BY <1>0, <1>1, <2>1, <2>2
<1>2. CASE dma.event # Disabled
  <2>1. f = Run(dma, now)
    BY <1>2 DEF ForceEventUpdates
  <2>2. ~fast => Unparked(dma)
    BY <1>0, Unparks
  <2>3. /\ Sound(f, now) /\ LevelsFit(f, now, floor)
        /\ ~fast => f.counter >= 0 /\ f.runUntil = now + Gran
        /\ NextTime(f, f.event)
    BY <1>0, <2>1, <2>2, RunSound
  <2> QED BY <2>3 DEF NextTime
<1> QED BY <1>1, <1>2

\* The same state, seen later
LEMMA SoundLater ==
  ASSUME NEW d, NEW ts \in Int, NEW later \in Int, ts <= later, Sound(d, ts)
  PROVE  Sound(d, later)
<1> USE TheConstants
<1>0. d \in Dma /\ d.ret = Unset /\ d.counter \in Int /\ d.runUntil \in Int /\ d.event \in 0..Half - 1
  BY SoundTimes DEF Sound
<1>1. Horizon(ts) <= Horizon(later) /\ Horizon(ts) \in Int /\ Horizon(later) \in Int
  BY DEF Horizon
<1>2. LevelsFit(d, later, -Half)
  <2>1. \A l \in Levels : d.level[l].finish \in Int
    <3>1. Times \subseteq Int
      BY DEF Times
    <3> QED BY <1>0, <3>1, DmaFields, Zenon
  <2>2. LevelsFit(d, ts, -Half)
    BY DEF Sound
  <2>3. ASSUME NEW l \in Levels, d.level[l].finish <= Horizon(ts) PROVE d.level[l].finish <= Horizon(later)
    BY <1>1, <2>1, <2>3
  <2> QED BY <2>2, <2>3, Zenon DEF LevelsFit
<1>3. EventFits(d, later)
  BY <1>0, <1>1 DEF Sound, EventFits
<1>4. PaceFits(d, later)
  BY <1>0, <1>1 DEF Sound, PaceFits
<1> QED BY <1>0, <1>2, <1>3, <1>4 DEF Sound

\* A visit before its time only puts the event at the machine's time.
LEMMA RunLate ==
  ASSUME ClockInv, NEW d, Sound(d, now), d.event < now
  PROVE  Sound(Run(d, d.event), now) /\ Run(d, d.event).counter = d.counter
<1> USE TheConstants
<1> DEFINE e1 == [d EXCEPT !.ret = now]
           e2 == [e1 EXCEPT !.event = now]
           e3 == [e2 EXCEPT !.ret = Unset]
           r  == Run(d, d.event)
<1>0. d \in Dma /\ d.ret = Unset /\ d.counter \in Int /\ d.runUntil \in Int /\ d.event \in 0..Half - 1
  BY SoundTimes DEF Sound
<1>00. now \in Times /\ now \in 0..Half - 1 /\ now <= Horizon(now) /\ fast \in BOOLEAN
  BY ClockRuns DEF Times, ClockInv
<1>1. UpdateDMA(d, d.event) = e1
  BY DEF UpdateDMA
<1>2. e1 \in Dma /\ e1.counter = d.counter /\ e1.level = d.level /\ e1.runUntil = d.runUntil /\ e1.ret = now
  BY <1>0, <1>00, SetTimes
<1>3. r = e3
  <2> HIDE DEF e1
  <2>1. Schedule(e1) = e3
    BY <1>2 DEF Schedule
  <2> QED BY <1>1, <2>1 DEF Run
<1> HIDE DEF e1
<1>4. e2 \in Dma /\ e2.counter = d.counter /\ e2.level = d.level /\ e2.runUntil = d.runUntil /\ e2.event = now
  BY <1>00, <1>2, SetTimes
<1> HIDE DEF e2
<1>5. /\ e3 \in Dma /\ e3.counter = d.counter /\ e3.level = d.level /\ e3.runUntil = d.runUntil
      /\ e3.event = now /\ e3.ret = Unset
  BY <1>4, SomeTimes, SetTimes
<1> HIDE DEF e3
<1>6. LevelsFit(e3, now, -Half)
  <2>1. LevelsFit(d, now, -Half)
    BY DEF Sound
  <2> QED BY <1>5, <2>1, Zenon DEF LevelsFit
<1>7. EventFits(e3, now)
  BY <1>00, <1>5 DEF EventFits
<1>8. PaceFits(e3, now)
  BY <1>0, <1>00, <1>5 DEF Sound, PaceFits
<1> QED BY <1>3, <1>5, <1>6, <1>7, <1>8 DEF Sound

LEMMA ForcedSound ==
  ASSUME ClockInv, NEW d, Sound(d, now), ActiveOf(d) # {}
  PROVE  Sound(ForceFinish(d), now) /\ (~fast => ForceFinish(d).counter >= 0)
<1> USE TheConstants
<1> DEFINE e == ForceFinish(d)
<1>0. d \in Dma /\ d.ret = Unset /\ d.counter \in Int /\ d.runUntil \in Int /\ d.event \in 0..Half - 1
      /\ LevelsFit(d, now, -Half)
  BY SoundTimes DEF Sound
<1>00. now \in 0..Half - 1 /\ now <= Horizon(now) /\ fast \in BOOLEAN
  BY ClockRuns DEF ClockInv
<1>1. Forced(e, d)
  BY <1>0, <1>00, ForceForces
<1> HIDE DEF e
<1>2. /\ e \in Dma /\ e.counter = d.runUntil /\ e.runUntil = d.runUntil /\ e.ret = Unset
      /\ e.event = d.event \/ (fast /\ e.event = now)
      /\ LevelsFit(e, now, -Half)
  BY <1>0, <1>1 DEF Forced
<1>3. d.event <= Horizon(now)
  BY DEF Sound, EventFits
<1>4. EventFits(e, now)
  BY <1>00, <1>2, <1>3 DEF EventFits
<1>5. ~fast => d.runUntil \in 0..now + Gran /\ d.runUntil < d.event + Gran
  BY DEF Sound, PaceFits
<1>6. PaceFits(e, now)
  BY <1>0, <1>00, <1>2, <1>5 DEF PaceFits, Horizon
<1> QED BY <1>2, <1>4, <1>5, <1>6 DEF Sound, e

\* The step back of all times at the end of the frame
LEMMA AdjustSound ==
  ASSUME ClockInv, NEW d, Sound(d, now), LevelsFit(d, now, now - Half),
         ~fast => d.counter >= 0 /\ d.runUntil = now + Gran /\ now < d.event,
         d.event = Disabled \/ now <= d.event
  PROVE  Sound(AdjustTS(d, now), 0)
<1> USE TheConstants
<1> DEFINE e == AdjustTS(d, now)
<1>0. d \in Dma /\ d.ret = Unset /\ d.counter \in Int /\ d.runUntil \in Int /\ d.event \in 0..Half - 1
  BY SoundTimes DEF Sound
<1>00. now \in 0..FrameLen + Stride - 1 /\ now \in Nat /\ fast \in BOOLEAN /\ Horizon(now) < Disabled
  BY ClockRuns DEF ClockInv
<1>1. Adjusted(e, d, now)
  BY <1>0, <1>00, AdjustAdjusts
<1> HIDE DEF e
<1>2. /\ e \in Dma /\ e.ret = Unset /\ e.counter = Wrap(d.counter - now) /\ e.runUntil = Wrap(d.runUntil - now)
      /\ e.event = IF d.event = Disabled THEN Disabled ELSE d.event - now
  BY <1>0, <1>1 DEF Adjusted
<1>3. /\ \A l \in Levels : /\ e.level[l].active = d.level[l].active /\ e.level[l].left = d.level[l].left
                           /\ d.level[l].active = -1 => e.level[l].finish = Wrap(d.level[l].finish - now)
  BY <1>1 DEF Adjusted
<1>4. LevelsFit(e, 0, -Half)
  <2>1. ASSUME NEW l \in Levels, d.level[l].active = -1
        PROVE  -Half <= e.level[l].finish /\ e.level[l].finish <= Horizon(0)
    <3>1. now - Half <= d.level[l].finish /\ d.level[l].finish <= Horizon(now)
      BY <2>1 DEF LevelsFit
    <3>2. d.level[l].finish \in Times
      BY <1>0, DmaFields
    <3>3. d.level[l].finish - now \in Times
      BY <1>00, <3>1, <3>2 DEF Times, Horizon
    <3>4. e.level[l].finish = d.level[l].finish - now
      BY <1>3, <2>1, <3>3, WrapInTimes DEF Times
    <3> QED BY <1>00, <3>1, <3>2, <3>4 DEF Times, Horizon
  <2>2. \A l \in Levels : d.level[l].active = 1 => d.level[l].left > 0
    BY DEF LevelsFit
  <2>3. ASSUME NEW l \in Levels, e.level[l].active = 1 PROVE e.level[l].left > 0
    BY <1>3, <2>2, <2>3
  <2>4. ASSUME NEW l \in Levels, e.level[l].active = -1
        PROVE  -Half <= e.level[l].finish /\ e.level[l].finish <= Horizon(0)
    BY <1>3, <2>1, <2>4
  <2> QED BY <2>3, <2>4, Zenon DEF LevelsFit
<1>5. ActiveOf(e) = ActiveOf(d)
  BY <1>3 DEF ActiveOf
<1>6. EventFits(e, 0)
  <2> SUFFICES ASSUME ~fast \/ ActiveOf(d) # {} PROVE e.event <= Horizon(0)
    BY <1>5 DEF EventFits
  <2>1. d.event <= Horizon(now)
    BY DEF Sound, EventFits
  <2>2. d.event # Disabled
    BY <1>0, <1>00, <2>1 DEF Horizon, Disabled
  <2> QED BY <1>0, <1>00, <1>2, <2>1, <2>2 DEF Horizon
<1>7. PaceFits(e, 0)
  <2> SUFFICES ASSUME ~fast
               PROVE  /\ e.runUntil \in 0..0 + Gran /\ e.runUntil < e.event + Gran
                      /\ e.counter <= Horizon(0) /\ e.counter < e.event + Gran
                      /\ e.counter >= -(FrameLen + Stride - 1)
    BY DEF PaceFits
  <2>1. d.counter >= 0 /\ d.runUntil = now + Gran /\ now < d.event /\ d.event <= Horizon(now)
        /\ d.counter <= Horizon(now) /\ d.counter < d.event + Gran
    BY DEF Sound, EventFits, PaceFits
  <2>2. d.event # Disabled
    BY <1>0, <1>00, <2>1 DEF Horizon, Disabled
  <2>3. d.counter - now \in Times /\ d.runUntil - now \in Times
    BY <1>0, <1>00, <2>1 DEF Times, Horizon
  <2>4. e.counter = d.counter - now /\ e.runUntil = Gran /\ e.event = d.event - now
    BY <1>0, <1>00, <1>2, <2>1, <2>2, <2>3, WrapInTimes DEF Times
  <2> QED BY <1>0, <1>00, <2>1, <2>4 DEF Horizon
<1> QED BY <1>2, <1>4, <1>6, <1>7 DEF Sound, e

\* In the exact mode a visit in time moves the highest level on, unless that
\* only waits for its end.
LEMMA RunMoves ==
  ASSUME ClockInv, NEW d, Sound(d, now), ~fast, d.event = now, ActiveOf(d) # {},
         NEW top, top = Highest(ActiveOf(d)), ~(d.level[top].active < 0 /\ d.level[top].finish > now)
  PROVE  Run(d, now).level[top] # d.level[top]
<1> USE TheConstants
<1> DEFINE c  == FirstCounter(d, now)
           s1 == [d EXCEPT !.counter = c]
           s2 == [s1 EXCEPT !.runUntil = now + Gran]
           s3 == [s2 EXCEPT !.ret = Unset]
           e  == Serve(s3, now)
           u  == UpdateDMA(d, now)
           r1 == [u EXCEPT !.event = u.ret]
           r2 == [r1 EXCEPT !.ret = Unset]
<1>0. d \in Dma /\ d.counter \in Int /\ d.runUntil \in Int /\ LevelsFit(d, now, -Half)
  BY SoundTimes DEF Sound
<1>00. /\ Clock /\ now \in 0..FrameLen + Stride - 1 /\ now \in Times /\ now + Gran \in Times
       /\ -Half \in Int /\ -Half <= now
  BY ClockRuns DEF ClockInv, Times
<1>1. c \in Times /\ c < now + Gran
  <2>1. d.counter < now + Gran /\ d.counter \in Times
    BY <1>0, DmaFields DEF Sound, PaceFits
  <2>2. d.runUntil \in Times
    BY <1>0, DmaFields
  <2> QED BY <1>00, <2>1, <2>2 DEF FirstCounter, Greater, Lesser, Times
<1> HIDE DEF c
<1>2. s1 \in Dma /\ s1.counter = c /\ s1.level = d.level
  BY <1>0, <1>1, SetTimes
<1>3. [d EXCEPT !.counter = FirstCounter(d, now), !.runUntil = now + Gran, !.ret = Unset] = s3
  BY DEF c
<1> HIDE DEF s1
<1>4. s2 \in Dma /\ s2.counter = c /\ s2.level = d.level /\ s2.runUntil = now + Gran
  BY <1>00, <1>2, SetTimes
<1> HIDE DEF s2
<1>5. s3 \in Dma /\ s3.counter = c /\ s3.level = d.level /\ s3.runUntil = now + Gran /\ s3.ret = Unset
  BY <1>4, SomeTimes, SetTimes
<1> HIDE DEF s3
<1>6. Going(s3, now, -Half)
  BY <1>0, <1>5 DEF Going, LevelsFit
<1>7. top \in Levels /\ d.level[top].active # 0 /\ \A k \in Levels : k > top => d.level[k].active = 0
  BY HighestIsActive
<1>8. d.level[top].active = 1 \/ (d.level[top].active = -1 /\ d.level[top].finish <= now)
  <2>1. d.level[top].active \in {-1, 0, 1} /\ d.level[top].finish \in Times
    BY <1>0, <1>7, DmaFields
  <2> QED BY <1>7, <1>00, <2>1 DEF Times
<1>9. Pushed(e.level[top], d.level[top]) /\ Going(e, now, -Half)
  <2>1. s3.counter < s3.runUntil
    BY <1>1, <1>5
  <2> QED BY <1>00, <1>5, <1>6, <1>7, <1>8, <2>1, ServeGoes
<1>10. e \in Dma
  BY <1>9 DEF Going
<1>11. e.level[top] # d.level[top]
  <2>1. d.level[top] \in Level /\ e.level[top] \in Level
    BY <1>0, <1>7, <1>10, DmaFields
  <2> QED BY <1>7, <1>9, <2>1, PushedIsMoved
<1>12. u = IF e.ret # Unset THEN e ELSE [e EXCEPT !.ret = now + Gran]
  BY <1>3, <1>00 DEF UpdateDMA, Clock
<1> HIDE DEF e
<1>13. u \in Dma /\ u.level = e.level
  BY <1>10, <1>12, <1>00, SetTimes
<1>14. Run(d, now) = r2
  BY DEF Run, Schedule
<1> HIDE DEF u
<1>15. r2.level = u.level
  BY <1>13 DEF Dma
<1> QED BY <1>11, <1>13, <1>14, <1>15

LEMMA InitIInv == Init => IInv
<1> USE TheConstants
<1> SUFFICES ASSUME Init PROVE IInv
  OBVIOUS
<1>1. fast \in FastModes /\ fast \in BOOLEAN /\ phase = "idle" /\ now = 0
  BY DmaConstants DEF Init
<1> DEFINE lv == [l \in Levels |-> [active |-> 0, go |-> "no", left |-> 0, finish |-> 0]]
<1>2. dma = [level |-> lv, counter |-> 0, runUntil |-> 0, event |-> 0, ret |-> Unset]
  BY DEF Init
<1>3. lv \in [Levels -> Level] /\ \A l \in Levels : lv[l].active = 0
  BY DEF Level
<1> HIDE DEF lv
<1>4. /\ dma.level = lv /\ dma.counter = 0 /\ dma.runUntil = 0 /\ dma.event = 0 /\ dma.ret = Unset
      /\ dma \in Dma
  BY <1>2, <1>3, SomeTimes DEF Dma, Times
<1>5. \A l \in Levels : dma.level[l].active = 0
  BY <1>3, <1>4
<1>8. LevelsFit(dma, now, -Half)
  <2>1. ~(0 = 1) /\ ~(0 = -1)
    OBVIOUS
  <2> QED BY <1>5, <2>1, Zenon DEF LevelsFit
<1>6. ActiveOf(dma) = {} /\ dma.event <= Horizon(now)
  <2>1. ActiveOf(dma) = {}
    BY <1>5 DEF ActiveOf
  <2> QED BY <1>1, <1>4, <2>1 DEF Horizon
<1>7. PaceFits(dma, now)
  BY <1>1, <1>4 DEF PaceFits, Horizon
<1> QED BY <1>1, <1>4, <1>8, <1>6, <1>7 DEF IInv, ClockInv, Sound, EventFits

\* Steps at the same time of the machine
LEMMA SameTime ==
  ASSUME IInv, UNCHANGED <<fast, now>>, phase' = phase \/ (phase = "idle" /\ phase' = "run"),
         Sound(dma', now), ~fast => dma'.counter >= 0
  PROVE  IInv'
<1>1. Sound(dma, now)' <=> Sound(dma', now)
  BY DEF Sound, LevelsFit, EventFits, PaceFits, ActiveOf, Horizon
<1>2. ClockInv'
  BY DEF IInv, ClockInv
<1> QED BY <1>1, <1>2 DEF IInv

LEMMA NextIInv == IInv /\ [Next]_vars => IInv'
<1> USE TheConstants
<1> SUFFICES ASSUME IInv, [Next]_vars PROVE IInv'
  OBVIOUS
<1>0. /\ ClockInv /\ Sound(dma, now) /\ dma \in Dma /\ LevelsFit(dma, now, -Half)
      /\ now \in 0..FrameLen + Stride - 1 /\ now \in 0..Half - 1 /\ -Half \in Int /\ -Half <= now
      /\ ~fast => Unparked(dma)
      /\ dma.counter \in Int /\ dma.event \in 0..Half - 1
  BY ClockRuns, SoundTimes, Unparks DEF IInv, Sound, ClockInv
<1>1. ASSUME dma' = ForceEventUpdates(dma), UNCHANGED <<fast, now>>,
             phase' = phase \/ (phase = "idle" /\ phase' = "run")
      PROVE  IInv'
  BY <1>0, <1>1, ForceSound, SameTime
<1>2. CASE BeginFrame
  BY <1>1, <1>2 DEF BeginFrame
<1>3. CASE Reenter
  BY <1>1, <1>3 DEF Reenter
<1>4. CASE Advance
  <2>1. PICK step \in 1..Stride : now' = now + step
    BY <1>4 DEF Advance
  <2>2. now' \in 0..FrameLen + Stride - 1 /\ now <= now' /\ now' \in Int /\ UNCHANGED <<fast, phase, dma>>
        /\ phase = "run"
    BY <1>0, <1>4, <2>1 DEF Advance
  <2>3. Sound(dma, now')
    BY <1>0, <2>2, SoundLater
  <2>4. Sound(dma, now)' <=> Sound(dma, now')
    BY <2>2 DEF Sound, LevelsFit, EventFits, PaceFits, ActiveOf, Horizon
  <2>5. ClockInv'
    BY <2>2 DEF IInv, ClockInv
  <2> QED BY <2>2, <2>3, <2>4, <2>5 DEF IInv
<1>5. CASE Visit
  <2>1. /\ phase = "run" /\ dma.event <= now /\ dma' = Run(dma, dma.event) /\ UNCHANGED <<fast, phase, now>>
    BY <1>5 DEF Visit
  <2>2. CASE dma.event = now
    BY <1>0, <2>1, <2>2, RunSound, SameTime
  <2>3. CASE dma.event < now
    <3>1. Sound(dma', now) /\ dma'.counter = dma.counter
      BY <1>0, <2>1, <2>3, RunLate
    <3>2. ~fast => dma.counter >= 0
      BY <2>1 DEF IInv
    <3> QED BY <2>1, <3>1, <3>2, SameTime
  <2> QED BY <1>0, <2>1, <2>2, <2>3
<1>6. CASE Interrupt
  <2>1. PICK int \in Interrupts, trigger \in {"legal", "illegal"} : dma' = StartBy(dma, int, trigger)
    BY <1>6 DEF Interrupt
  <2>2. Started(dma', dma)
    BY <1>0, <2>1, StartByStarts
  <2>3. Sound(dma', now) /\ dma'.counter = dma.counter
    BY <1>0, <2>2, StartedSound
  <2>4. phase = "run" /\ UNCHANGED <<fast, phase, now>>
    BY <1>6 DEF Interrupt
  <2>5. ~fast => dma.counter >= 0
    BY <2>4 DEF IInv
  <2> QED BY <2>3, <2>4, <2>5, SameTime
<1>7. ASSUME NEW l \in Levels, WriteStart(l) PROVE IInv'
  <2>1. PICK trigger \in {"legal", "illegal"} : dma' = Run(Start(UpdateDMA(dma, now), l, trigger), now)
    BY <1>7 DEF WriteStart
  <2>2. phase = "run" /\ UNCHANGED <<fast, phase, now>>
    BY <1>7 DEF WriteStart
  <2> DEFINE u == UpdateDMA(dma, now)
             s == Start(u, l, trigger)
  <2>3. Updated(u, dma, -Half)
    BY <1>0, ClockRuns, UpdateGoes
  <2> HIDE DEF u
  <2>4. Started(s, u)
    BY <1>0, <1>7, <2>3, StartStarts DEF Updated
  <2>5. s \in Dma /\ LevelsFit(s, now, -Half)
    BY <1>0, <2>3, <2>4 DEF Updated, Started
  <2>6. ~fast => Unparked(s)
    <3>1. ~fast => u.runUntil = now + Gran /\ Paced(u, now)
      BY <1>0, <2>3 DEF Updated
    <3>2. s.counter = u.counter /\ s.runUntil = u.runUntil
      BY <2>4 DEF Started
    <3> QED BY <1>0, <3>1, <3>2 DEF Unparked, Paced
  <2> HIDE DEF s
  <2>7. dma' = Run(s, now)
    BY <2>1 DEF s, u
  <2> QED BY <1>0, <2>2, <2>5, <2>6, <2>7, RunSound, SameTime
<1>8. CASE CheckForceDMAFinish
  <2>1. ActiveOf(dma) # {} /\ dma' = ForceFinish(dma) /\ UNCHANGED <<fast, phase, now>>
    BY <1>8 DEF CheckForceDMAFinish
  <2> QED BY <1>0, <2>1, ForcedSound, SameTime
<1>9. CASE EndFrame
  <2> DEFINE f == ForceEventUpdates(dma)
  <2>1. PICK after \in {f} \cup {StartBy(f, int, "legal") : int \in Interrupts} : dma' = AdjustTS(after, now)
    BY <1>9 DEF EndFrame
  <2>2. NotStarved /\ phase' = "idle" /\ now' = 0 /\ UNCHANGED fast
    BY <1>9 DEF EndFrame
  <2>3. LevelsFit(dma, now, now - Half)
    <3> SUFFICES ASSUME NEW l \in Levels
                 PROVE  /\ dma.level[l].active = 1 => dma.level[l].left > 0
                        /\ dma.level[l].active = -1
                             => now - Half <= dma.level[l].finish /\ dma.level[l].finish <= Horizon(now)
      BY Zenon DEF LevelsFit
    <3>1. dma.level[l].finish \in Int
      <4>1. dma.level[l].finish \in Times
        BY <1>0, DmaFields
      <4> QED BY <4>1 DEF Times
    <3>2. dma.level[l].active = -1 => dma.level[l].finish - now >= -Half
      BY <2>2 DEF NotStarved
    <3>3. /\ dma.level[l].active = 1 => dma.level[l].left > 0
          /\ dma.level[l].active = -1 => dma.level[l].finish <= Horizon(now)
      BY <1>0 DEF LevelsFit
    <3> QED BY <1>0, <3>1, <3>2, <3>3
  <2>4. now - Half \in Int /\ now - Half <= now
    BY <1>0
  <2>5. /\ Sound(f, now) /\ LevelsFit(f, now, now - Half)
        /\ ~fast => f.counter >= 0 /\ f.runUntil = now + Gran
        /\ f.event = Disabled \/ now < f.event
    BY <2>3, <2>4, ForceSound
  <2> HIDE DEF f
  <2>6. f \in Dma /\ f.event \in 0..Half - 1
    BY <2>5, SoundTimes DEF Sound
  <2>7. after = f \/ Started(after, f)
    BY <1>0, <2>1, <2>6, StartByStarts
  <2>8. /\ Sound(after, now) /\ after.counter = f.counter /\ after.runUntil = f.runUntil
        /\ after.event = f.event \/ (fast /\ after.event = now)
        /\ LevelsFit(after, now, now - Half)
    BY <1>0, <2>4, <2>5, <2>7, StartedSound
  <2>9. ~fast => now < f.event
    <3>1. ~fast => f.event <= Horizon(now)
      BY <2>5 DEF Sound, EventFits
    <3>2. Horizon(now) < Disabled /\ Horizon(now) \in Int /\ Disabled \in Int
      BY <1>0, ClockRuns DEF Horizon, Disabled
    <3> QED BY <2>5, <2>6, <3>1, <3>2
  <2>10. after.event = Disabled \/ now <= after.event
    BY <1>0, <2>5, <2>6, <2>8
  <2>11. Sound(dma', 0)
    BY <1>0, <2>1, <2>5, <2>8, <2>9, <2>10, AdjustSound
  <2>12. Sound(dma, now)' <=> Sound(dma', 0)
    BY <2>2 DEF Sound, LevelsFit, EventFits, PaceFits, ActiveOf, Horizon
  <2>13. ClockInv'
    BY <2>2 DEF IInv, ClockInv
  <2> QED BY <2>2, <2>11, <2>12, <2>13 DEF IInv
<1>10. CASE UNCHANGED vars
  BY <1>10 DEF vars, IInv, ClockInv, Sound, LevelsFit, EventFits, PaceFits, ActiveOf, Horizon
<1> QED BY <1>2, <1>3, <1>4, <1>5, <1>6, <1>7, <1>8, <1>9, <1>10 DEF Next

\* IInv holds of every behaviour (SCU_UpdateDMA and what reschedules it).
LEMMA Invariant == Spec => []IInv
BY InitIInv, NextIInv, PTL DEF Spec

\* The DMA's state has its type: no time leaves its range, and the counters of
\* a frame are back in it when the next begins (scu.inc:3290-3381, 3735-3790).
THEOREM TypeCorrect == Spec => []TypeOK
<1>1. IInv => TypeOK
  BY TheConstants DEF IInv, ClockInv, Sound, TypeOK
<1> QED BY <1>1, Invariant, PTL

\* An active level will be visited, soon (scu.inc:3342, 3357, 3752-3759).
THEOREM ActiveIsScheduledHolds == Spec => []ActiveIsScheduled
<1>1. IInv => ActiveIsScheduled
  BY TheConstants DEF IInv, Sound, EventFits, ActiveIsScheduled, Horizon
<1> QED BY <1>1, Invariant, PTL

\* The exact mode keeps pace with the machine (scu.inc:3731-3738, 3790).
THEOREM NotAheadHolds == Spec => []NotAhead
<1>1. IInv => NotAhead
  BY TheConstants DEF IInv, Sound, PaceFits, NotAhead, Horizon
<1> QED BY <1>1, Invariant, PTL

\* A due visit moves the highest active level on (scu.inc:3731-3748).
THEOREM VisitMovesHolds == Spec => VisitMoves
<1>1. IInv /\ [Next]_vars =>
        [Visit /\ ~fast /\ dma.event = now /\ ActiveOf(dma) # {} =>
           LET top == Highest(ActiveOf(dma)) IN
             \/ dma.level[top].active < 0 /\ dma.level[top].finish > now
             \/ dma'.level[top] # dma.level[top]]_vars
  <2> SUFFICES ASSUME IInv, Visit, ~fast, dma.event = now, ActiveOf(dma) # {},
                      NEW top, top = Highest(ActiveOf(dma)),
                      ~(dma.level[top].active < 0 /\ dma.level[top].finish > now)
               PROVE  dma'.level[top] # dma.level[top]
    OBVIOUS
  <2>1. dma' = Run(dma, now)
    BY DEF Visit
  <2> QED BY <2>1, RunMoves DEF IInv
<1> QED BY <1>1, Invariant, PTL DEF Spec, VisitMoves
=============================================================================
