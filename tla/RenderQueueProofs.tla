-------------------------- MODULE RenderQueueProofs ---------------------------
(* The render thread executes every command whole, in its turn, with the     *)
(* words, the mode and the frame it was queued with; a state is settled when *)
(* it is saved; and neither thread is left asleep.  For any sizes of the     *)
(* rings, any width of the counters that both rings divide, any number of    *)
(* lines and any calls.                                                      *)
(*                                                                           *)
(* The counters wrap, so the invariant does not speak of them but of what    *)
(* they count: it says that there is a history of the commands queued since  *)
(* the thread started, numbered from 0 without an end, of which the counters *)
(* and the rings show a part.  Command j of it is E[j]; B[j] words, D[j]     *)
(* lines and the mode M[j] came before it.  The history is a stream of which *)
(* C commands are popped, P pushed and T asked for; every step of the two    *)
(* threads moves one of these limits or leaves them, and none changes what   *)
(* lies between them.                                                        *)
EXTENDS RenderQueue, Integers, TLAPS

\* The types, in parts.
CallTyped ==
  /\ thread \in BOOLEAN
  /\ ppc \in {"idle", "push", "publish", "refresh", "park", "parked", "await", "awaitPrepare", "awaitWake", "retest",
              "lineWake", "burst", "frameDone", "state", "stop", "join"}
  /\ goal \in {"space", "words", "draws", "drained"}
  /\ wakePending \in BOOLEAN /\ line \in 0..Lines
TodoTyped ==
  /\ todo \in Seq(EntrySet) /\ Len(todo) <= 3 /\ then \in {"idle", "lineWake", "frameDone", "stop"}
ScreenTyped ==
  /\ pmode \in Modes /\ espec \in {0, 1, NoFrame} /\ interlaced \in BOOLEAN /\ frame \in {0, 1}
  /\ lib \in [0..Lines - 1 -> {0, 1}]
CounterTyped ==
  /\ popCached \in Counters /\ burstCached \in Counters /\ burstWrite \in Counters
  /\ {pushCount, popCount, drawPush, drawFinish, burstPop} \subseteq Counters
RingTyped ==
  /\ wq \in [0..QueueSize - 1 -> EntrySet] /\ burst \in [0..BurstSize - 1 -> Counters]
EventTyped ==
  /\ wakeSt \in WaitStates /\ drainSt \in WaitStates /\ wakeSig \in BOOLEAN /\ drainSig \in BOOLEAN
ConsumerTyped ==
  /\ cpc \in {"off", "check", "drowsy", "recheck", "parked", "run", "draw", "drawn", "words", "pop", "popped", "ended"}
  /\ running \in BOOLEAN /\ word \in 0..MaxBurst /\ spins \in 0..SpinBudget
  /\ busyWait \in BOOLEAN /\ cmode \in Modes

-----------------------------------------------------------------------------
(* Where the threads are. *)

\* A call has commands left to queue.
Queueing ==
  \/ ppc \in {"push", "publish", "burst"}
  \/ ppc \in {"refresh", "park", "parked"} /\ goal \in {"space", "words"}
\* The words of the burst it queues are not in their ring yet.
Uncopied ==
  \/ ppc = "burst"
  \/ ppc \in {"refresh", "park", "parked"} /\ goal = "words"
\* The exit command is asked for.
Leaving ==
  \/ ppc \in {"stop", "join"}
  \/ todo # <<>> /\ then = "stop"

\* The render thread has a command, has switched on it, has drawn its line.
Holding == cpc \in {"run", "draw", "drawn", "words", "pop"}
Ran == cpc \in {"draw", "drawn", "words", "pop"}
Drew == cpc \in {"drawn", "pop"}
\* It has popped the exit command.
Gone == cpc \in {"popped", "ended"} /\ ~running

Phases ==
  /\ ~thread => ppc = "idle" /\ espec = NoFrame
  /\ cpc = "off" <=> ~thread
  /\ Queueing <=> todo # <<>>
  /\ ppc \in {"refresh", "park"} => goal \in {"space", "words"}
  /\ ppc \in {"await", "awaitPrepare", "awaitWake", "retest"} => goal \in {"draws", "drained"}
  /\ cpc \in {"check", "drowsy", "recheck", "parked"} => running = TRUE
  /\ cpc = "ended" => running = FALSE

\* Each waiter's event is in the state its place in the loop says.
Waits ==
  /\ drainSt = (IF ppc \in {"refresh", "park", "awaitWake", "retest"} THEN "prepared"
                ELSE IF ppc = "parked" THEN "waiting" ELSE "running")
  /\ wakeSt = (IF cpc = "recheck" THEN "prepared" ELSE IF cpc = "parked" THEN "waiting" ELSE "running")

Calling ==
  /\ Uncopied => Len(todo) = 1 /\ todo[1].op = "burst" /\ then = "idle"
  /\ ppc = "lineWake" => line < Lines
  /\ todo # <<>> /\ then = "lineWake" => line < Lines
  /\ Leaving => espec = NoFrame
  /\ espec \in {frame, NoFrame}

\* The two waits for the render thread are over for good.
Settled ==
  /\ ppc = "frameDone" => drawPush = drawFinish
  /\ todo # <<>> /\ then = "frameDone" => drawPush = drawFinish
  /\ ppc = "state" => pushCount = popCount

\* Nobody sleeps through what it waits for.
Wakes ==
  /\ ppc \in {"park", "parked"} /\ ~drainSig /\ Nothing => cpc = "popped"
  /\ ppc \in {"retest", "parked", "join"} /\ cpc = "parked" /\ ~wakeSig => Nothing

Control == Phases /\ Waits /\ Calling /\ Settled /\ Wakes

-----------------------------------------------------------------------------
(* The history.  What it says of the commands C to T - 1: *)

WordsOf(e) == IF e.op = "burst" THEN e.n ELSE 0
DrawsOf(e) == IF e.op = "draw" THEN 1 ELSE 0

Links(j, E, B, D, M) ==
  /\ B[j + 1] = B[j] + WordsOf(E[j])
  /\ D[j + 1] = D[j] + DrawsOf(E[j])
  /\ M[j + 1] = E[j].mode
  /\ E[j].op # "mode" => M[j + 1] = M[j]
  /\ E[j].seq = j % CounterMod
  /\ E[j].op = "draw" => E[j].arg < Lines

Typed(E, B, D, M) ==
  E \in [Nat -> EntrySet] /\ B \in [Nat -> Nat] /\ D \in [Nat -> Nat] /\ M \in [Nat -> Modes]

Stream(C, T, E, B, D, M) ==
  /\ Typed(E, B, D, M)
  /\ C <= T
  /\ \A j \in C..T - 1 : Links(j, E, B, D, M)
  /\ \A j \in C..T - 1 : E[j].op = "exit" => j = T - 1
  /\ \A i \in C..T : \A j \in i..T : B[i] <= B[j] /\ D[i] <= D[j] /\ D[j] <= D[i] + (j - i)

\* The ring's cursors; the producer's copy of the consumer's is the K-th.
Cursors(P, C, K) ==
  /\ K <= C /\ C <= P /\ P <= K + QueueSize
  /\ ppc = "publish" => P < K + QueueSize
  /\ popCached = K % CounterMod /\ popCount = C % CounterMod /\ pushCount = P % CounterMod

\* What is in the ring, and what is still to be queued.
Ring(P, C, E) ==
  /\ \A j \in C..P - 1 : wq[j % QueueSize] = E[j]
  /\ ppc = "publish" => wq[P % QueueSize] = E[P]
Pending(P, T, E) ==
  /\ T = P + Len(todo)
  /\ \A i \in 1..Len(todo) : E[P + i - 1] = [todo[i] EXCEPT !.seq = (P + i - 1) % CounterMod]

\* The lines asked for and drawn.
Finished(C, D) == IF Drew THEN D[C + 1] ELSE D[C]
DrawCounts(P, C, T, D) ==
  /\ drawPush = D[T] % CounterMod
  /\ drawFinish = Finished(C, D) % CounterMod
  /\ D[T] <= D[P] + 2

\* The words copied in and read; the producer's copy of the latter is L.
WordsIn(P, T, B) == IF Uncopied THEN B[P] ELSE B[T]
WordsRead(C, B) == IF cpc = "pop" THEN B[C + 1] ELSE B[C]
WordCounts(P, C, T, L, B) ==
  /\ burstWrite = WordsIn(P, T, B) % CounterMod
  /\ burstPop = WordsRead(C, B) % CounterMod
  /\ burstCached = L % CounterMod
  /\ L <= WordsRead(C, B) /\ WordsIn(P, T, B) <= L + BurstSize
Cells(P, C, T, B) ==
  \A k \in WordsRead(C, B)..WordsIn(P, T, B) - 1 : burst[k % BurstSize] = k % CounterMod

\* The modes at both ends.
ModeEnds(C, T, M) == pmode = M[T] /\ cmode = IF Ran THEN M[C + 1] ELSE M[C]

\* A line asked for and not drawn is of the frame whose surface is lent.
Frames(C, T, E) ==
  \A j \in (IF Drew THEN C + 1 ELSE C)..T - 1 : E[j].op = "draw" =>
    E[j].frame = frame /\ espec = frame /\ lib[E[j].arg] = frame

\* The command in the render thread's hands.
InHand(P, C, E) ==
  /\ Holding => C < P /\ running = (E[C].op # "exit")
  /\ cpc \in {"draw", "drawn"} => E[C].op = "draw"
  /\ cpc = "words" => E[C].op = "burst" /\ word <= E[C].n

\* The exit command is the last.
Exits(C, T, E) ==
  /\ \A j \in C..T - 1 : E[j].op = "exit" => Leaving
  /\ Leaving => (C < T /\ E[T - 1].op = "exit") \/ Gone
  /\ Gone => C = T /\ ppc \in {"stop", "join"}
  /\ cpc = "off" => C = T

History(P, C, T, K, L, E, B, D, M) ==
  /\ Stream(C, T, E, B, D, M)
  /\ Cursors(P, C, K) /\ Ring(P, C, E) /\ Pending(P, T, E)
  /\ DrawCounts(P, C, T, D) /\ WordCounts(P, C, T, L, B) /\ Cells(P, C, T, B)
  /\ ModeEnds(C, T, M) /\ Frames(C, T, E) /\ InHand(P, C, E) /\ Exits(C, T, E)

SomeHistory ==
  \E P, C, T, K, L \in Nat : \E E, B, D, M : History(P, C, T, K, L, E, B, D, M)

IInv == TypeOK /\ Control /\ SomeHistory

-----------------------------------------------------------------------------
(* Counters and what they count. *)

LEMMA Division ==
  ASSUME NEW m \in Nat \ {0}, NEW x \in Nat
  PROVE  /\ x % m \in 0..m - 1 /\ x \div m \in Int
         /\ x = m * (x \div m) + (x % m)
<1>1. m \in Int /\ m > 0 /\ x \in Int
  OBVIOUS
<1>2. x % m \in 0..m - 1
  BY <1>1
<1>3. x \div m \in Int
  BY <1>1
<1>4. x = m * (x \div m) + (x % m)
  BY ONLY <1>1, SMTT(60)
<1> QED BY ONLY <1>2, <1>3, <1>4

\* The multiples of m that lie less than m apart from 0.
LEMMA SmallMultiple ==
  ASSUME NEW m \in Nat \ {0}, NEW k \in Int, -m < m * k, m * k < m
  PROVE  k = 0
<1>1. k >= 1 => m * k >= m
  OBVIOUS
<1>2. k <= -1 => m * k <= -m
  OBVIOUS
<1> QED BY <1>1, <1>2

\* Numbers a multiple of m apart have the same remainder.
LEMMA SameRemainder ==
  ASSUME NEW m \in Nat \ {0}, NEW x \in Nat, NEW y \in Nat, NEW k \in Int, x = y + m * k
  PROVE  x % m = y % m
<1> DEFINE p == x \div m
           q == y \div m
           c == x % m
           d == y % m
<1>1. /\ p \in Int /\ c \in 0..m - 1 /\ x = m * p + c
      /\ q \in Int /\ d \in 0..m - 1 /\ y = m * q + d
  BY Division
<1> HIDE DEF p, q, c, d
<1>2. c - d = m * (q + k - p)
  BY <1>1
<1>3. q + k - p = 0
  BY <1>1, <1>2, SmallMultiple
<1>4. c = d
  BY <1>1, <1>2, <1>3
<1> QED BY <1>4 DEF c, d

\* Different numbers less than m apart have different remainders.
LEMMA RemaindersDiffer ==
  ASSUME NEW m \in Nat \ {0}, NEW x \in Nat, NEW y \in Nat, x < y, y - x < m
  PROVE  x % m # y % m
<1> SUFFICES ASSUME x % m = y % m PROVE FALSE
  OBVIOUS
<1> DEFINE p == x \div m
           q == y \div m
           c == x % m
           d == y % m
<1>1. /\ p \in Int /\ c \in 0..m - 1 /\ x = m * p + c
      /\ q \in Int /\ d \in 0..m - 1 /\ y = m * q + d
      /\ c = d
  BY Division
<1> HIDE DEF p, q, c, d
<1>2. y - x = m * (q - p)
  BY <1>1
<1>3. q - p = 0
  BY <1>1, <1>2, SmallMultiple
<1> QED BY <1>2, <1>3

\* A remainder is its own remainder.
LEMMA SmallRemainder ==
  ASSUME NEW m \in Nat \ {0}, NEW x \in 0..m - 1
  PROVE  x % m = x
OBVIOUS

LEMMA Sizes ==
  /\ QueueSize \in Nat \ {0} /\ BurstSize \in Nat \ {0} /\ CounterMod \in Nat \ {0}
  /\ MaxBurst \in 1..BurstSize
  /\ CounterMod > QueueSize + 2 /\ CounterMod > BurstSize
  /\ CounterMod % QueueSize = 0 /\ CounterMod % BurstSize = 0
BY SizeAssumption

\* A counter that is advanced is the remainder of what it counts.
LEMMA Counted ==
  ASSUME NEW a \in Nat, NEW n \in Nat
  PROVE  /\ a % CounterMod \in Counters
         /\ Plus(a % CounterMod, n) = (a + n) % CounterMod
<1>1. /\ a % CounterMod \in 0..CounterMod - 1 /\ a \div CounterMod \in Int
      /\ a = CounterMod * (a \div CounterMod) + (a % CounterMod)
  BY Sizes, Division
<1> DEFINE r == a % CounterMod
           k == a \div CounterMod
<1>2. r \in Nat /\ r + n \in Nat /\ a + n \in Nat /\ k \in Int /\ CounterMod \in Nat \ {0}
  BY <1>1, Sizes
<1>3. a = CounterMod * k + r
  BY <1>1
<1> HIDE DEF r, k
<1>4. a + n = (r + n) + CounterMod * k
  BY <1>2, <1>3
<1>5. (a + n) % CounterMod = (r + n) % CounterMod
  BY <1>2, <1>4, SameRemainder
<1> QED BY <1>1, <1>5 DEF Plus, Counters, r

\* The distance of two counters is that of what they count.
LEMMA Distance ==
  ASSUME NEW a \in Nat, NEW b \in Nat, b <= a, a - b < CounterMod
  PROVE  Minus(a % CounterMod, b % CounterMod) = a - b
<1> DEFINE r == a % CounterMod
           s == b % CounterMod
           p == a \div CounterMod
           q == b \div CounterMod
<1>1. /\ r \in 0..CounterMod - 1 /\ s \in 0..CounterMod - 1 /\ p \in Int /\ q \in Int
      /\ a = CounterMod * p + r /\ b = CounterMod * q + s /\ CounterMod \in Nat \ {0}
  BY Sizes, Division
<1> HIDE DEF r, s, p, q
<1>2. /\ r + CounterMod - s \in Nat /\ a - b \in 0..CounterMod - 1 /\ a - b \in Nat
      /\ 1 - p + q \in Int
      /\ r + CounterMod - s = (a - b) + CounterMod * (1 - p + q)
  BY <1>1
<1>3. (r + CounterMod - s) % CounterMod = (a - b) % CounterMod
  BY <1>1, <1>2, SameRemainder
<1>4. (a - b) % CounterMod = a - b
  BY <1>1, <1>2, SmallRemainder
<1> QED BY <1>3, <1>4 DEF Minus, r, s

\* The cell of a counter is the cell of what it counts.
LEMMA CellOf ==
  ASSUME NEW a \in Nat, NEW size \in Nat \ {0}, CounterMod % size = 0
  PROVE  (a % CounterMod) % size = a % size
<1> DEFINE r == a % CounterMod
           k == a \div CounterMod
           n == CounterMod \div size
<1>1. /\ r \in Nat /\ k \in Int /\ a = CounterMod * k + r
      /\ n \in Int /\ CounterMod = size * n + (CounterMod % size)
  BY Sizes, Division
<1>2. CounterMod = size * n
  BY <1>1
<1> DEFINE j == n * k
<1> HIDE DEF r, k, n
<1>3. a = r + size * j /\ j \in Int /\ r \in Nat
  BY <1>1, <1>2
<1> HIDE DEF j
<1>4. a % size = r % size
  BY ONLY <1>3, SameRemainder, a \in Nat, size \in Nat \ {0}
<1> QED BY <1>4 DEF r

LEMMA CounterSmall ==
  ASSUME NEW a \in Counters, NEW n \in Nat
  PROVE  /\ a \in Nat /\ a < CounterMod /\ Plus(a, n) \in Counters
         /\ a % QueueSize \in 0..QueueSize - 1
<1>1. a \in Nat /\ a < CounterMod /\ a + n \in Nat
  BY Sizes DEF Counters
<1>2. (a + n) % CounterMod \in 0..CounterMod - 1
  BY <1>1, Sizes, Division
<1>3. a % QueueSize \in 0..QueueSize - 1
  BY <1>1, Sizes, Division
<1> QED BY <1>1, <1>2, <1>3 DEF Plus, Counters

\* From any position, each cell of the burst ring is at one distance.
LEMMA FindCell ==
  ASSUME NEW w \in Nat, NEW c \in 0..BurstSize - 1
  PROVE  /\ (CHOOSE j \in 0..BurstSize - 1 : (w + j) % BurstSize = c) \in 0..BurstSize - 1
         /\ (w + (CHOOSE j \in 0..BurstSize - 1 : (w + j) % BurstSize = c)) % BurstSize = c
<1>1. \E j \in 0..BurstSize - 1 : (w + j) % BurstSize = c
  <2> DEFINE r == w % BurstSize
             k == w \div BurstSize
  <2>1. r \in 0..BurstSize - 1 /\ k \in Int /\ w = BurstSize * k + r /\ BurstSize \in Nat \ {0}
    BY Sizes, Division
  <2> HIDE DEF r, k
  <2>2. CASE r <= c
    <3>1. c - r \in 0..BurstSize - 1 /\ w + (c - r) = c + BurstSize * k
      BY <2>1, <2>2
    <3>2. w + (c - r) \in Nat /\ c \in Nat
      BY <3>1
    <3>3. (w + (c - r)) % BurstSize = c % BurstSize
      BY <2>1, <3>1, <3>2, SameRemainder
    <3>4. c % BurstSize = c
      BY <2>1, SmallRemainder
    <3> QED BY <3>1, <3>3, <3>4
  <2>3. CASE r > c
    <3>1. c + BurstSize - r \in 0..BurstSize - 1 /\ w + (c + BurstSize - r) = c + BurstSize * (k + 1)
      BY <2>1, <2>3
    <3>2. w + (c + BurstSize - r) \in Nat /\ c \in Nat /\ k + 1 \in Int
      BY <3>1, <2>1
    <3>3. (w + (c + BurstSize - r)) % BurstSize = c % BurstSize
      BY <2>1, <3>1, <3>2, SameRemainder
    <3>4. c % BurstSize = c
      BY <2>1, SmallRemainder
    <3> QED BY <3>1, <3>3, <3>4
  <2> QED BY <2>1, <2>2, <2>3
<1> QED BY <1>1

-----------------------------------------------------------------------------
(* The history grows at its end. *)

\* The stream with command e after it; with the first n of the commands s.
Longer(C, T, e, E, B, D, M, E1, B1, D1, M1) ==
  /\ Stream(C, T + 1, E1, B1, D1, M1)
  /\ E1[T] = [e EXCEPT !.seq = T % CounterMod]
  /\ M1[T + 1] = e.mode
  /\ \A j \in 0..T - 1 : E1[j] = E[j]
  /\ \A j \in 0..T : B1[j] = B[j] /\ D1[j] = D[j] /\ M1[j] = M[j]
Grown(C, T, n, s, E, B, D, M, E1, B1, D1, M1) ==
  /\ Stream(C, T + n, E1, B1, D1, M1)
  /\ \A i \in 1..n : E1[T + i - 1] = [s[i] EXCEPT !.seq = (T + i - 1) % CounterMod]
  /\ n > 0 => M1[T + n] = s[n].mode
  /\ \A j \in 0..T - 1 : E1[j] = E[j]
  /\ \A j \in 0..T : B1[j] = B[j] /\ D1[j] = D[j] /\ M1[j] = M[j]

\* What a call queues, in mode m: one to three commands, a change of the mode
\* alone, the exit command last.
Commands(s, m) ==
  /\ s \in Seq(EntrySet) /\ Len(s) \in 1..3
  /\ \A i \in 1..Len(s) : /\ s[i].op = "exit" => i = Len(s)
                          /\ s[i].op = "draw" => s[i].arg < Lines
  /\ \/ \A i \in 1..Len(s) : s[i].op # "mode" /\ s[i].mode = m
     \/ Len(s) = 1 /\ s[1].op = "mode"
NoExit(C, T, E) == \A j \in C..T - 1 : E[j].op # "exit"

LEMMA EmptyEntry == Empty \in EntrySet
BY Sizes, LineAssumption DEF Empty, EntrySet, Ops, Counters, Modes

LEMMA Extend ==
  ASSUME NEW C \in Nat, NEW T \in Nat, NEW E, NEW B, NEW D, NEW M, Stream(C, T, E, B, D, M),
         NoExit(C, T, E),
         NEW e \in EntrySet, e.op # "mode" => e.mode = M[T], e.op = "draw" => e.arg < Lines
  PROVE  \E E1, B1, D1, M1 :
           Longer(C, T, e, E, B, D, M, E1, B1, D1, M1)
<1> DEFINE e1 == [e EXCEPT !.seq = T % CounterMod]
           E1 == [E EXCEPT ![T] = e1]
           B1 == [B EXCEPT ![T + 1] = B[T] + WordsOf(e)]
           D1 == [D EXCEPT ![T + 1] = D[T] + DrawsOf(e)]
           M1 == [M EXCEPT ![T + 1] = e.mode]
<1>0. Typed(E, B, D, M)
  BY DEF Stream
<1>1. /\ T % CounterMod \in Counters /\ WordsOf(e) \in Nat /\ DrawsOf(e) \in {0, 1} /\ e.mode \in Modes
  BY Counted, Sizes DEF WordsOf, DrawsOf, EntrySet
<1>2. e1 \in EntrySet
  BY <1>1 DEF EntrySet
<1>3. /\ e1.op = e.op /\ e1.mode = e.mode /\ e1.arg = e.arg /\ e1.n = e.n /\ e1.seq = T % CounterMod
      /\ WordsOf(e1) = WordsOf(e) /\ DrawsOf(e1) = DrawsOf(e)
  BY DEF EntrySet, WordsOf, DrawsOf
<1> HIDE DEF e1
<1>4. Typed(E1, B1, D1, M1)
  BY <1>0, <1>1, <1>2 DEF Typed
<1>5. /\ E1[T] = e1 /\ B1[T + 1] = B[T] + WordsOf(e) /\ D1[T + 1] = D[T] + DrawsOf(e) /\ M1[T + 1] = e.mode
      /\ \A j \in 0..T - 1 : E1[j] = E[j]
      /\ \A j \in 0..T : B1[j] = B[j] /\ D1[j] = D[j] /\ M1[j] = M[j]
  BY <1>0, <1>1, <1>2 DEF Typed
<1> HIDE DEF E1, B1, D1, M1
<1>6. \A j \in C..T : Links(j, E1, B1, D1, M1)
  <2> SUFFICES ASSUME NEW j \in C..T PROVE Links(j, E1, B1, D1, M1)
    OBVIOUS
  <2>1. CASE j = T
    BY <2>1, <1>3, <1>5 DEF Links
  <2>2. CASE j < T
    <3>1. Links(j, E, B, D, M) /\ j \in 0..T - 1 /\ j \in 0..T /\ j + 1 \in 0..T
      BY <2>2 DEF Stream
    <3> QED BY <3>1, <1>5 DEF Links
  <2> QED BY <2>1, <2>2
<1>7. \A j \in C..T : E1[j].op = "exit" => j = T
  BY <1>5 DEF NoExit
<1>8. \A i \in C..T + 1 : \A j \in i..T + 1 : B1[i] <= B1[j] /\ D1[i] <= D1[j] /\ D1[j] <= D1[i] + (j - i)
  <2> SUFFICES ASSUME NEW i \in C..T + 1, NEW j \in i..T + 1
               PROVE  B1[i] <= B1[j] /\ D1[i] <= D1[j] /\ D1[j] <= D1[i] + (j - i)
    OBVIOUS
  <2>1. CASE i = T + 1
    BY <2>1, <1>4 DEF Typed
  <2>2. CASE j < T + 1
    BY <2>2, <1>5 DEF Stream
  <2>3. CASE i < T + 1 /\ j = T + 1
    <3>1. B[i] <= B[T] /\ D[i] <= D[T] /\ D[T] <= D[i] + (T - i)
      BY <2>3 DEF Stream
    <3>2. B[i] \in Nat /\ B[T] \in Nat /\ D[i] \in Nat /\ D[T] \in Nat
      BY <2>3, <1>0 DEF Typed
    <3>3. B1[i] = B[i] /\ D1[i] = D[i]
      BY <2>3, <1>5
    <3> QED BY <3>1, <3>2, <3>3, <2>3, <1>1, <1>5
  <2> QED BY <2>1, <2>2, <2>3
<1>9. Stream(C, T + 1, E1, B1, D1, M1)
  BY <1>4, <1>6, <1>7, <1>8 DEF Stream
<1>10. Longer(C, T, e, E, B, D, M, E1, B1, D1, M1)
  BY <1>5, <1>9 DEF Longer, e1
<1> QED BY <1>10

\* The commands of a call, one to three of them.
LEMMA ExtendAll ==
  ASSUME NEW C \in Nat, NEW T \in Nat, NEW E, NEW B, NEW D, NEW M, Stream(C, T, E, B, D, M), NoExit(C, T, E),
         NEW s, Commands(s, M[T])
  PROVE  \E E1, B1, D1, M1 :
           Grown(C, T, Len(s), s, E, B, D, M, E1, B1, D1, M1)
<1> DEFINE Made(n) == \E E1, B1, D1, M1 :
                        Grown(C, T, n, s, E, B, D, M, E1, B1, D1, M1)
<1>1. /\ Len(s) \in 1..3
      /\ \A i \in 1..Len(s) : /\ s[i] \in EntrySet
                              /\ s[i].op = "exit" => i = Len(s)
                              /\ s[i].op = "draw" => s[i].arg < Lines
  BY DEF Commands
<1>2. Made(0)
  <2>1. Grown(C, T, 0, s, E, B, D, M, E, B, D, M)
    BY DEF Grown
  <2> HIDE DEF Grown
  <2> QED BY <2>1
<1> HIDE DEF Made
<1>3. ASSUME NEW n \in 0..2, n + 1 <= Len(s), Made(n)
      PROVE  Made(n + 1)
  <2>1. PICK E1, B1, D1, M1 :
           Grown(C, T, n, s, E, B, D, M, E1, B1, D1, M1)
    BY <1>3 DEF Made
  <2>a. n + 1 \in 1..Len(s) /\ n \in Nat /\ Len(s) \in Nat
    BY <1>1, <1>3
  <2>2. /\ s[n + 1] \in EntrySet /\ (s[n + 1].op = "draw" => s[n + 1].arg < Lines)
        /\ n + 1 \in 1..Len(s) /\ n \in Nat /\ Len(s) \in Nat
    BY <1>1, <2>a
  <2>3. s[n + 1].op # "mode" => s[n + 1].mode = M1[T + n]
    <3>1. CASE n = 0
      <4>1. M1[T] = M[T] /\ T + n = T
        BY <3>1, <2>1 DEF Grown
      <4> QED BY <3>1, <4>1, <2>2 DEF Commands
    <3>2. CASE n > 0
      <4>1. n \in 1..Len(s) /\ Len(s) # 1
        BY <3>2, <2>2
      <4>2. M1[T + n] = s[n].mode /\ s[n].mode = M[T] /\ s[n + 1].mode = M[T]
        BY <4>1, <2>1, <2>2, <3>2 DEF Grown, Commands
      <4> QED BY <4>2
    <3> QED BY <3>1, <3>2, <2>2
  <2>4. NoExit(C, T + n, E1)
    <3> SUFFICES ASSUME NEW j \in C..(T + n) - 1 PROVE E1[j].op # "exit"
      BY DEF NoExit
    <3>1. CASE j < T
      <4>1. j \in C..T - 1 /\ j \in 0..T - 1
        BY <3>1
      <4> QED BY <4>1, <2>1 DEF Grown, NoExit
    <3>2. CASE j >= T
      <4>1. PICK i \in 1..n : i = j - T + 1
        BY <3>2, <2>2
      <4>2. i \in 1..Len(s) /\ i # Len(s) /\ T + i - 1 = j
        BY <4>1, <2>2
      <4>3. E1[j] = [s[i] EXCEPT !.seq = j % CounterMod]
        BY <4>2, <2>1 DEF Grown
      <4>4. s[i] \in EntrySet /\ s[i].op # "exit"
        BY <4>2, <1>1
      <4> QED BY <4>3, <4>4 DEF EntrySet
    <3> QED BY <3>1, <3>2
  <2>5. T + n \in Nat /\ (T + n) + 1 = T + (n + 1) /\ Stream(C, T + n, E1, B1, D1, M1)
    BY <2>1, <2>2 DEF Grown
  <2>6. PICK E2, B2, D2, M2 :
           Longer(C, T + n, s[n + 1], E1, B1, D1, M1, E2, B2, D2, M2)
    BY <2>2, <2>3, <2>4, <2>5, Extend
  <2>7. Stream(C, T + (n + 1), E2, B2, D2, M2) /\ M2[T + (n + 1)] = s[n + 1].mode
    BY <2>5, <2>6 DEF Longer
  <2>8. \A i \in 1..n + 1 : E2[T + i - 1] = [s[i] EXCEPT !.seq = (T + i - 1) % CounterMod]
    <3> SUFFICES ASSUME NEW i \in 1..n + 1
                 PROVE  E2[T + i - 1] = [s[i] EXCEPT !.seq = (T + i - 1) % CounterMod]
      OBVIOUS
    <3>1. CASE i = n + 1
      <4>1. T + i - 1 = T + n
        BY <3>1, <2>2
      <4> QED BY <3>1, <4>1, <2>6 DEF Longer
    <3>2. CASE i # n + 1
      <4>1. i \in 1..n /\ T + i - 1 \in 0..(T + n) - 1
        BY <3>2, <2>2
      <4>2. E2[T + i - 1] = E1[T + i - 1]
        BY <4>1, <2>6 DEF Longer
      <4> QED BY <4>1, <4>2, <2>1 DEF Grown
    <3> QED BY <3>1, <3>2
  <2>9. /\ \A j \in 0..T - 1 : E2[j] = E[j]
        /\ \A j \in 0..T : B2[j] = B[j] /\ D2[j] = D[j] /\ M2[j] = M[j]
    <3>1. \A j \in 0..T : j \in 0..T + n /\ (j \in 0..T - 1 => j \in 0..(T + n) - 1)
      BY <2>2
    <3> QED BY <3>1, <2>1, <2>6 DEF Grown, Longer
  <2>10. Grown(C, T, n + 1, s, E, B, D, M, E2, B2, D2, M2)
    BY <2>7, <2>8, <2>9 DEF Grown
  <2> HIDE DEF Grown
  <2> QED BY <2>10 DEF Made
<1>4. Made(1) /\ (Len(s) >= 2 => Made(2))
  <2>1. Made(0 + 1)
    BY <1>1, <1>2, <1>3
  <2>2. Made(1)
    BY <2>1
  <2>3. Len(s) >= 2 => Made(1 + 1)
    BY <1>1, <2>2, <1>3
  <2> QED BY <2>2, <2>3
<1>5. Len(s) >= 3 => Made(3)
  <2>1. Len(s) >= 3 => Made(2 + 1)
    BY <1>1, <1>3, <1>4
  <2> QED BY <2>1
<1>6. Made(Len(s))
  <2>1. Len(s) = 1 \/ Len(s) = 2 \/ Len(s) = 3
    BY <1>1
  <2>2. CASE Len(s) = 1
    BY <2>2, <1>4
  <2>3. CASE Len(s) = 2
    BY <2>3, <1>4
  <2>4. CASE Len(s) = 3
    BY <2>4, <1>5
  <2> QED BY <2>1, <2>2, <2>3, <2>4
<1> QED BY <1>6 DEF Made
-----------------------------------------------------------------------------
(* Every step keeps the types. *)

TypeParts == CallTyped /\ TodoTyped /\ ScreenTyped /\ CounterTyped /\ RingTyped /\ EventTyped /\ ConsumerTyped

LEMMA TypesAreParts == TypeOK <=> TypeParts
BY DEF TypeOK, TypeParts, CallTyped, TodoTyped, ScreenTyped, CounterTyped, RingTyped, EventTyped, ConsumerTyped

LEMMA CommandTyped ==
  ASSUME TypeParts, NEW op \in Ops, NEW arg \in 0..Lines, NEW n \in 0..MaxBurst
  PROVE  Command(op, arg, n) \in EntrySet
BY Sizes DEF TypeParts, ScreenTyped, Command, EntrySet, Counters

LEMMA EntryTyped ==
  ASSUME TypeParts
  PROVE  /\ Entry \in EntrySet /\ pushCount % QueueSize \in 0..QueueSize - 1
         /\ Entry.n \in 0..MaxBurst /\ Entry.mode \in Modes
<1>1. popCount \in Counters /\ pushCount \in Counters
  BY DEF TypeParts, CounterTyped
<1>2. popCount % QueueSize \in 0..QueueSize - 1 /\ pushCount % QueueSize \in 0..QueueSize - 1
  BY <1>1, CounterSmall
<1>3. Entry \in EntrySet
  BY <1>2 DEF TypeParts, RingTyped, Entry
<1> QED BY <1>2, <1>3 DEF EntrySet

LEMMA CallStep ==
  ASSUME TypeParts, Calling, [Next]_vars
  PROVE  CallTyped'
<1> USE LineAssumption DEF TypeParts
<1>1. CASE \/ Poll \/ Drowsy \/ SleepPrepare \/ Recheck \/ Begin \/ Run \/ DrawDone \/ DrawNotify
           \/ NextWord \/ WordsDone \/ Pop \/ PopNotify \/ WakeReturn
  BY <1>1 DEF Poll, Drowsy, SleepPrepare, Recheck, Begin, Run, DrawDone, DrawNotify, NextWord, WordsDone, Pop,
     PopNotify, WakeReturn, producer, CallTyped
<1>2. CASE StartThread
  BY <1>2 DEF StartThread, CallTyped
<1>3. CASE Write
  BY <1>3 DEF Write, Ready, Queue, Plain, Command, CallTyped
<1>4. CASE Reset
  BY <1>4 DEF Reset, Ready, Queue, Plain, Command, CallTyped
<1>5. CASE DrawLine
  BY <1>5 DEF DrawLine, Ready, Queue, Command, Progressive, Plus, NoFrame, CallTyped
<1>6. CASE EndFrame
  BY <1>6 DEF EndFrame, Ready, NoFrame, CallTyped
<1>7. CASE StateAction
  BY <1>7 DEF StateAction, Ready, CallTyped
<1>8. CASE Kill
  BY <1>8 DEF Kill, Ready, Queue, Plain, NoFrame, Command, CallTyped
<1>9. CASE \E m \in Modes : SetDeinterlaceMode(m)
  BY <1>9 DEF SetDeinterlaceMode, Ready, Queue, Plain, SetDirectly, Command, CallTyped
<1>10. CASE \E double \in BOOLEAN : StartFrame(double)
  BY <1>10 DEF StartFrame, Ready, NoFrame, CallTyped
<1>11. CASE \E n \in 1..MaxBurst : BeginBurst(n)
  BY <1>11 DEF BeginBurst, Ready, Command, CallTyped
<1>12. CASE LineWake
  <2>1. line + 1 \in 0..Lines
    BY <1>12 DEF LineWake, Calling, CallTyped
  <2>2. /\ wakePending' \in BOOLEAN /\ thread' = thread /\ goal' = goal
        /\ ppc' = "idle" /\ line' = line + 1
    BY <1>12 DEF LineWake, CallTyped
  <2> QED BY <2>1, <2>2 DEF CallTyped
<1>13. CASE BurstFull
  BY <1>13 DEF BurstFull, WordsFull, Drain!Prepare, Minus, CallTyped
<1>14. CASE CopyWords
  BY <1>14 DEF CopyWords, WordsFull, Plus, Minus, CallTyped
<1>15. CASE FrameDone
  BY <1>15 DEF FrameDone, NoFrame, CallTyped
<1>16. CASE StateDone
  BY <1>16 DEF StateDone, CallTyped
<1>17. CASE KillWake
  BY <1>17 DEF KillWake, NotifyWake, Wake!Signal, CallTyped
<1>18. CASE Join
  BY <1>18 DEF Join, CallTyped
<1>19. CASE PushFull
  BY <1>19 DEF PushFull, QueueFull, Drain!Prepare, Minus, CallTyped
<1>20. CASE WriteEntry
  BY <1>20 DEF WriteEntry, QueueFull, Minus, CallTyped
<1>21. CASE Publish
  <2>1. ppc' \in {"push", "idle", "lineWake", "frameDone", "stop"}
    BY <1>21 DEF Publish, TodoTyped
  <2> QED BY <1>21, <2>1 DEF Publish, CallTyped
<1>22. CASE Refresh
  BY <1>22 DEF Refresh, Minus, Drain!Cancel, CallTyped
<1>23. CASE Park
  BY <1>23 DEF Park, NotifyWake, Drain!Commit, Wake!Signal, CallTyped
<1>24. CASE AwaitOver
  BY <1>24 DEF AwaitOver, Queue, Command, GoalMet, Drained, Drawn, CallTyped
<1>25. CASE AwaitMore
  BY <1>25 DEF AwaitMore, GoalMet, Drained, Drawn, CallTyped
<1>26. CASE AwaitPrepare
  BY <1>26 DEF AwaitPrepare, Drain!Prepare, CallTyped
<1>27. CASE AwaitWake
  BY <1>27 DEF AwaitWake, NotifyWake, Wake!Signal, CallTyped
<1>28. CASE Retest
  BY <1>28 DEF Retest, GoalMet, Drain!Cancel, Drain!Commit, Drained, Drawn, CallTyped
<1>29. CASE DrainReturn
  BY <1>29 DEF DrainReturn, Drain!Return, CallTyped
<1>30. CASE UNCHANGED vars
  BY <1>30 DEF vars, producer, CallTyped
<1> QED
  BY <1>1, <1>2, <1>3, <1>4, <1>5, <1>6, <1>7, <1>8, <1>9, <1>10, <1>11, <1>12, <1>13, <1>14, <1>15,
     <1>16, <1>17, <1>18, <1>19, <1>20, <1>21, <1>22, <1>23, <1>24, <1>25, <1>26, <1>27, <1>28, <1>29,
     <1>30
     DEF Next, Call, ProducerRuns, ConsumerRuns

LEMMA TodoStep ==
  ASSUME TypeParts, Phases, [Next]_vars
  PROVE  TodoTyped'
<1> USE DEF TypeParts
<1>1. CASE \/ StartThread \/ EndFrame \/ StateAction \/ (\E double \in BOOLEAN : StartFrame(double))
           \/ LineWake \/ BurstFull \/ CopyWords \/ FrameDone \/ StateDone \/ KillWake \/ Join
           \/ PushFull \/ WriteEntry \/ Refresh \/ Park \/ AwaitMore \/ AwaitPrepare \/ AwaitWake
           \/ Retest \/ Poll \/ Drowsy \/ SleepPrepare \/ Recheck \/ Begin \/ Run \/ DrawDone
           \/ DrawNotify \/ NextWord \/ WordsDone \/ Pop \/ PopNotify \/ DrainReturn \/ WakeReturn
  BY <1>1 DEF StartThread, EndFrame, StateAction, StartFrame, LineWake, BurstFull, CopyWords, FrameDone,
     StateDone, KillWake, Join, PushFull, WriteEntry, Refresh, Park, AwaitMore, AwaitPrepare, AwaitWake,
     Retest, Poll, Drowsy, SleepPrepare, Recheck, Begin, Run, DrawDone, DrawNotify, NextWord, WordsDone,
     Pop, PopNotify, DrainReturn, WakeReturn, producer, TodoTyped
<1>2. CASE Write
  <2>1. Command("write", 0, 0) \in EntrySet
    BY CommandTyped, LineAssumption, Sizes DEF Ops
  <2>2. todo' = <<Command("write", 0, 0)>> /\ then' = "idle"
    BY <1>2 DEF Write, Queue, Plain
  <2> QED BY <2>1, <2>2 DEF TodoTyped
<1>3. CASE Reset
  <2>1. Command("reset", 0, 0) \in EntrySet
    BY CommandTyped, LineAssumption, Sizes DEF Ops
  <2>2. todo' = <<Command("reset", 0, 0)>> /\ then' = "idle"
    BY <1>3 DEF Reset, Queue, Plain
  <2> QED BY <2>1, <2>2 DEF TodoTyped
<1>4. CASE DrawLine
  <2>1. /\ Command("draw", line, 0) \in EntrySet /\ Command("busywait", 1, 0) \in EntrySet
    BY CommandTyped, LineAssumption, Sizes DEF Ops, CallTyped
  <2> DEFINE draw == Command("draw", line, 0)
             draws == IF Progressive THEN <<draw, draw>> ELSE <<draw>>
             wait == IF line = BusyLine /\ BusyWaitAllowed THEN <<Command("busywait", 1, 0)>> ELSE <<>>
  <2>2. /\ draws \in Seq(EntrySet) /\ Len(draws) <= 2
        /\ wait \in Seq(EntrySet) /\ Len(wait) <= 1
    BY <2>1
  <2>3. todo' = draws \o wait /\ then' = "lineWake"
    BY <1>4 DEF DrawLine, Queue
  <2> HIDE DEF draws, wait
  <2> QED BY <2>2, <2>3 DEF TodoTyped
<1>5. CASE Kill
  <2>1. Command("exit", 0, 0) \in EntrySet
    BY CommandTyped, LineAssumption, Sizes DEF Ops
  <2>2. todo' = <<Command("exit", 0, 0)>> /\ then' = "stop"
    BY <1>5 DEF Kill, Queue, Plain
  <2> QED BY <2>1, <2>2 DEF TodoTyped
<1>6. CASE \E m \in Modes : SetDeinterlaceMode(m)
  <2>1. PICK m \in Modes : SetDeinterlaceMode(m)
    BY <1>6
  <2>2. Command("mode", 0, 0) \in EntrySet
    BY CommandTyped, LineAssumption, Sizes DEF Ops
  <2>3. [Command("mode", 0, 0) EXCEPT !.mode = m] \in EntrySet
    BY <2>2 DEF EntrySet
  <2>4. CASE SetDirectly
    BY <2>1, <2>4 DEF SetDeinterlaceMode, TodoTyped
  <2>5. CASE ~SetDirectly
    <3>1. todo' = <<[Command("mode", 0, 0) EXCEPT !.mode = m]>> /\ then' = "idle"
      BY <2>1, <2>5 DEF SetDeinterlaceMode, Queue, Plain
    <3> QED BY <2>3, <3>1 DEF TodoTyped
  <2> QED BY <2>4, <2>5
<1>7. CASE \E n \in 1..MaxBurst : BeginBurst(n)
  <2>1. PICK n \in 1..MaxBurst : BeginBurst(n)
    BY <1>7
  <2>2. Command("burst", 0, n) \in EntrySet
    BY CommandTyped, LineAssumption, Sizes DEF Ops
  <2> QED BY <2>1, <2>2 DEF BeginBurst, TodoTyped
<1>8. CASE Publish
  <2>1. todo # <<>> /\ todo' = Tail(todo) /\ then' = then
    BY <1>8 DEF Publish, Phases, Queueing
  <2> QED BY <2>1 DEF TodoTyped
<1>9. CASE AwaitOver
  <2>1. Command("busywait", 0, 0) \in EntrySet
    BY CommandTyped, LineAssumption, Sizes DEF Ops
  <2>2. CASE goal = "draws"
    <3>1. todo' = <<Command("busywait", 0, 0)>> /\ then' = "frameDone"
      BY <1>9, <2>2 DEF AwaitOver, Queue
    <3> QED BY <2>1, <3>1 DEF TodoTyped
  <2>3. CASE goal # "draws"
    BY <1>9, <2>3 DEF AwaitOver, TodoTyped
  <2> QED BY <2>2, <2>3
<1>10. CASE UNCHANGED vars
  BY <1>10 DEF vars, producer, TodoTyped
<1> QED
  BY <1>1, <1>2, <1>3, <1>4, <1>5, <1>6, <1>7, <1>8, <1>9, <1>10
     DEF Next, Call, ProducerRuns, ConsumerRuns

LEMMA ScreenStep ==
  ASSUME TypeParts, [Next]_vars
  PROVE  ScreenTyped'
<1> USE DEF TypeParts, NoFrame
<1>1. CASE \/ StartThread \/ Write \/ Reset \/ EndFrame \/ StateAction \/ Kill
           \/ (\E n \in 1..MaxBurst : BeginBurst(n)) \/ LineWake \/ BurstFull \/ CopyWords \/ StateDone
           \/ KillWake \/ Join \/ PushFull \/ WriteEntry \/ Publish \/ Refresh \/ Park \/ AwaitOver
           \/ AwaitMore \/ AwaitPrepare \/ AwaitWake \/ Retest \/ Poll \/ Drowsy \/ SleepPrepare
           \/ Recheck \/ Begin \/ Run \/ DrawDone \/ DrawNotify \/ NextWord \/ WordsDone \/ Pop
           \/ PopNotify \/ DrainReturn \/ WakeReturn
  BY <1>1 DEF StartThread, Write, Reset, EndFrame, StateAction, Kill, BeginBurst, LineWake, BurstFull, CopyWords,
     StateDone, KillWake, Join, PushFull, WriteEntry, Publish, Refresh, Park, AwaitOver, AwaitMore,
     AwaitPrepare, AwaitWake, Retest, Poll, Drowsy, SleepPrepare, Recheck, Begin, Run, DrawDone,
     DrawNotify, NextWord, WordsDone, Pop, PopNotify, DrainReturn, WakeReturn, screen, ScreenTyped
<1>2. CASE DrawLine
  BY <1>2 DEF DrawLine, Ready, Queue, Command, Progressive, Plus, NoFrame, ScreenTyped
<1>3. CASE \E m \in Modes : SetDeinterlaceMode(m)
  BY <1>3 DEF SetDeinterlaceMode, Ready, Queue, Plain, SetDirectly, Command, ScreenTyped
<1>4. CASE \E double \in BOOLEAN : StartFrame(double)
  BY <1>4 DEF StartFrame, Ready, NoFrame, ScreenTyped
<1>5. CASE FrameDone
  BY <1>5 DEF FrameDone, NoFrame, ScreenTyped
<1>6. CASE UNCHANGED vars
  BY <1>6 DEF vars, screen, ScreenTyped
<1> QED
  BY <1>1, <1>2, <1>3, <1>4, <1>5, <1>6
     DEF Next, Call, ProducerRuns, ConsumerRuns

LEMMA CounterStep ==
  ASSUME TypeParts, Phases, [Next]_vars
  PROVE  CounterTyped'
<1> USE DEF TypeParts
<1>a. \A a \in Counters, n \in Nat : Plus(a, n) \in Counters
  BY CounterSmall
<1>b. 0 \in Counters
  BY Sizes DEF Counters
<1>c. Entry.n \in Nat
  BY EntryTyped, Sizes
<1>1. CASE \/ Write \/ Reset \/ EndFrame \/ StateAction \/ Kill
           \/ (\E m \in Modes : SetDeinterlaceMode(m)) \/ (\E double \in BOOLEAN : StartFrame(double))
           \/ (\E n \in 1..MaxBurst : BeginBurst(n)) \/ LineWake \/ BurstFull \/ FrameDone \/ StateDone
           \/ KillWake \/ Join \/ PushFull \/ WriteEntry \/ Park \/ AwaitOver \/ AwaitMore
           \/ AwaitPrepare \/ AwaitWake \/ Retest \/ Poll \/ Drowsy \/ SleepPrepare \/ Recheck \/ Begin
           \/ Run \/ DrawNotify \/ NextWord \/ PopNotify \/ DrainReturn \/ WakeReturn
  BY <1>1 DEF Write, Reset, EndFrame, StateAction, Kill, SetDeinterlaceMode, StartFrame, BeginBurst, LineWake,
     BurstFull, FrameDone, StateDone, KillWake, Join, PushFull, WriteEntry, Park, AwaitOver, AwaitMore,
     AwaitPrepare, AwaitWake, Retest, Poll, Drowsy, SleepPrepare, Recheck, Begin, Run, DrawNotify,
     NextWord, PopNotify, DrainReturn, WakeReturn, ring, words, popped, producer, CounterTyped
<1>2. CASE StartThread
  BY <1>2, <1>b DEF StartThread, CounterTyped
<1>3. CASE DrawLine
  <2> DEFINE draw == Command("draw", line, 0)
             draws == IF Progressive THEN <<draw, draw>> ELSE <<draw>>
  <2>1. Len(draws) \in Nat
    OBVIOUS
  <2>2. drawPush' = Plus(drawPush, Len(draws))
    BY <1>3 DEF DrawLine
  <2> HIDE DEF draws
  <2> QED BY <1>3, <1>a, <2>1, <2>2 DEF DrawLine, words, popped, CounterTyped
<1>4. CASE CopyWords
  <2>1. 1 \in 1..Len(todo)
    BY <1>4 DEF CopyWords, TodoTyped, Phases, Queueing
  <2>2. todo[1] \in EntrySet
    BY <2>1 DEF TodoTyped
  <2>3. todo[1].n \in Nat
    BY <2>2, Sizes DEF EntrySet
  <2> QED BY <1>4, <1>a, <2>3 DEF CopyWords, ring, popped, CounterTyped
<1>5. CASE Publish
  BY <1>5, <1>a DEF Publish, words, popped, CounterTyped
<1>6. CASE Refresh
  BY <1>6 DEF Refresh, Minus, Drain!Cancel, ring, words, popped, CounterTyped
<1>7. CASE DrawDone
  BY <1>7, <1>a DEF DrawDone, producer, ring, words, CounterTyped
<1>8. CASE WordsDone
  BY <1>8, <1>a, <1>c DEF WordsDone, producer, ring, words, CounterTyped
<1>9. CASE Pop
  BY <1>9, <1>a DEF Pop, producer, ring, words, CounterTyped
<1>10. CASE UNCHANGED vars
  BY <1>10 DEF vars, producer, ring, words, popped, CounterTyped
<1> QED
  BY <1>1, <1>2, <1>3, <1>4, <1>5, <1>6, <1>7, <1>8, <1>9, <1>10
     DEF Next, Call, ProducerRuns, ConsumerRuns

LEMMA RingStep ==
  ASSUME TypeParts, Phases, [Next]_vars
  PROVE  RingTyped'
<1> USE DEF TypeParts
<1>1. CASE \/ StartThread \/ Write \/ Reset \/ DrawLine \/ EndFrame \/ StateAction \/ Kill
           \/ (\E m \in Modes : SetDeinterlaceMode(m)) \/ (\E double \in BOOLEAN : StartFrame(double))
           \/ (\E n \in 1..MaxBurst : BeginBurst(n)) \/ LineWake \/ BurstFull \/ FrameDone \/ StateDone
           \/ KillWake \/ Join \/ PushFull \/ Publish \/ Refresh \/ Park \/ AwaitOver \/ AwaitMore
           \/ AwaitPrepare \/ AwaitWake \/ Retest \/ Poll \/ Drowsy \/ SleepPrepare \/ Recheck \/ Begin
           \/ Run \/ DrawDone \/ DrawNotify \/ NextWord \/ WordsDone \/ Pop \/ PopNotify \/ DrainReturn
           \/ WakeReturn
  BY <1>1 DEF StartThread, Write, Reset, DrawLine, EndFrame, StateAction, Kill, SetDeinterlaceMode, StartFrame,
     BeginBurst, LineWake, BurstFull, FrameDone, StateDone, KillWake, Join, PushFull, Publish, Refresh,
     Park, AwaitOver, AwaitMore, AwaitPrepare, AwaitWake, Retest, Poll, Drowsy, SleepPrepare, Recheck,
     Begin, Run, DrawDone, DrawNotify, NextWord, WordsDone, Pop, PopNotify, DrainReturn, WakeReturn,
     ring, words, RingTyped
<1>2. CASE CopyWords
  <2> DEFINE At(c) == CHOOSE j \in 0..BurstSize - 1 : (burstWrite + j) % BurstSize = c
             Word(c) == IF At(c) < todo[1].n THEN Plus(burstWrite, At(c)) ELSE burst[c]
  <2>1. burst' = [c \in 0..BurstSize - 1 |-> Word(c)] /\ wq' = wq
    BY <1>2 DEF CopyWords, ring
  <2>2. \A c \in 0..BurstSize - 1 : Word(c) \in Counters
    <3> SUFFICES ASSUME NEW c \in 0..BurstSize - 1 PROVE Word(c) \in Counters
      OBVIOUS
    <3>1. PICK i \in 0..BurstSize - 1 : At(c) = i
      BY FindCell DEF CounterTyped, Counters
    <3>2. Plus(burstWrite, i) \in Counters
      BY CounterSmall DEF CounterTyped
    <3>3. burst[c] \in Counters
      BY DEF RingTyped
    <3> HIDE DEF At
    <3> QED BY <3>1, <3>2, <3>3
  <2> HIDE DEF Word
  <2> QED BY <2>1, <2>2 DEF RingTyped
<1>3. CASE WriteEntry
  <2>1. /\ pushCount % QueueSize \in 0..QueueSize - 1
        /\ todo # <<>>
    BY <1>3, EntryTyped DEF WriteEntry, Phases, Queueing
  <2>2. Head(todo) \in EntrySet /\ pushCount \in Counters
    BY <2>1 DEF TodoTyped, CounterTyped
  <2>3. [Head(todo) EXCEPT !.seq = pushCount] \in EntrySet
    BY <2>2 DEF EntrySet
  <2> QED BY <1>3, <2>3 DEF WriteEntry, words, RingTyped
<1>4. CASE UNCHANGED vars
  BY <1>4 DEF vars, ring, words, RingTyped
<1> QED
  BY <1>1, <1>2, <1>3, <1>4
     DEF Next, Call, ProducerRuns, ConsumerRuns

LEMMA EventStep ==
  ASSUME TypeParts, [Next]_vars
  PROVE  EventTyped'
<1> USE DEF TypeParts, WaitStates
<1>1. CASE \/ Write \/ Reset \/ DrawLine \/ EndFrame \/ StateAction \/ Kill
           \/ (\E m \in Modes : SetDeinterlaceMode(m)) \/ (\E double \in BOOLEAN : StartFrame(double))
           \/ (\E n \in 1..MaxBurst : BeginBurst(n)) \/ CopyWords \/ FrameDone \/ StateDone \/ Join
           \/ WriteEntry \/ Publish \/ AwaitOver \/ AwaitMore \/ Poll \/ Drowsy \/ Begin \/ Run
           \/ DrawDone \/ NextWord \/ WordsDone \/ Pop
  BY <1>1 DEF Write, Reset, DrawLine, EndFrame, StateAction, Kill, SetDeinterlaceMode, StartFrame, BeginBurst,
     CopyWords, FrameDone, StateDone, Join, WriteEntry, Publish, AwaitOver, AwaitMore, Poll, Drowsy,
     Begin, Run, DrawDone, NextWord, WordsDone, Pop, events, EventTyped
<1>2. CASE StartThread
  BY <1>2 DEF StartThread, EventTyped
<1>3. CASE LineWake
  BY <1>3 DEF LineWake, NotifyWake, Progressive, Minus, Wake!Signal, EventTyped
<1>4. CASE BurstFull
  BY <1>4 DEF BurstFull, WordsFull, Drain!Prepare, Minus, EventTyped
<1>5. CASE KillWake
  BY <1>5 DEF KillWake, NotifyWake, Wake!Signal, EventTyped
<1>6. CASE PushFull
  BY <1>6 DEF PushFull, QueueFull, Drain!Prepare, Minus, EventTyped
<1>7. CASE Refresh
  BY <1>7 DEF Refresh, Minus, Drain!Cancel, EventTyped
<1>8. CASE Park
  BY <1>8 DEF Park, NotifyWake, Drain!Commit, Wake!Signal, EventTyped
<1>9. CASE AwaitPrepare
  BY <1>9 DEF AwaitPrepare, Drain!Prepare, EventTyped
<1>10. CASE AwaitWake
  BY <1>10 DEF AwaitWake, NotifyWake, Wake!Signal, EventTyped
<1>11. CASE Retest
  BY <1>11 DEF Retest, GoalMet, Drain!Cancel, Drain!Commit, Drained, Drawn, EventTyped
<1>12. CASE SleepPrepare
  BY <1>12 DEF SleepPrepare, Wake!Prepare, EventTyped
<1>13. CASE Recheck
  BY <1>13 DEF Recheck, StillNothing, Wake!Cancel, Wake!Commit, Nothing, EventTyped
<1>14. CASE DrawNotify
  BY <1>14 DEF DrawNotify, NotifyDrain, Drain!Signal, EventTyped
<1>15. CASE PopNotify
  BY <1>15 DEF PopNotify, NotifyDrain, Notifies, Drain!Signal, EventTyped
<1>16. CASE DrainReturn
  BY <1>16 DEF DrainReturn, Drain!Return, EventTyped
<1>17. CASE WakeReturn
  BY <1>17 DEF WakeReturn, Wake!Return, EventTyped
<1>18. CASE UNCHANGED vars
  BY <1>18 DEF vars, events, EventTyped
<1> QED
  BY <1>1, <1>2, <1>3, <1>4, <1>5, <1>6, <1>7, <1>8, <1>9, <1>10, <1>11, <1>12, <1>13, <1>14, <1>15,
     <1>16, <1>17, <1>18
     DEF Next, Call, ProducerRuns, ConsumerRuns

LEMMA ConsumerStep ==
  ASSUME TypeParts, [Next]_vars
  PROVE  ConsumerTyped'
<1> USE DEF TypeParts
<1>a. Entry.n \in 0..MaxBurst /\ Entry.mode \in Modes
  BY EntryTyped
<1>1. CASE \/ Write \/ Reset \/ DrawLine \/ EndFrame \/ StateAction \/ Kill
           \/ (\E double \in BOOLEAN : StartFrame(double)) \/ (\E n \in 1..MaxBurst : BeginBurst(n))
           \/ LineWake \/ BurstFull \/ CopyWords \/ FrameDone \/ StateDone \/ KillWake \/ PushFull
           \/ WriteEntry \/ Publish \/ Refresh \/ Park \/ AwaitOver \/ AwaitMore \/ AwaitPrepare
           \/ AwaitWake \/ Retest \/ DrainReturn
  BY <1>1 DEF Write, Reset, DrawLine, EndFrame, StateAction, Kill, StartFrame, BeginBurst, LineWake, BurstFull,
     CopyWords, FrameDone, StateDone, KillWake, PushFull, WriteEntry, Publish, Refresh, Park, AwaitOver,
     AwaitMore, AwaitPrepare, AwaitWake, Retest, DrainReturn, consumer, ConsumerTyped
<1>2. CASE StartThread
  <2>1. 0 \in 0..MaxBurst /\ 0 \in 0..SpinBudget
    BY Sizes, SpinAssumption
  <2> QED BY <1>2, <2>1 DEF StartThread, ConsumerTyped
<1>3. CASE \E m \in Modes : SetDeinterlaceMode(m)
  BY <1>3 DEF SetDeinterlaceMode, ConsumerTyped
<1>4. CASE Join
  BY <1>4 DEF Join, ConsumerTyped
<1>5. CASE Poll
  BY <1>5, SpinAssumption DEF Poll, Polling, ConsumerTyped
<1>6. CASE Drowsy
  BY <1>6 DEF Drowsy, Nothing, Polling, ConsumerTyped
<1>7. CASE SleepPrepare
  BY <1>7 DEF SleepPrepare, Wake!Prepare, ConsumerTyped
<1>8. CASE Recheck
  BY <1>8 DEF Recheck, StillNothing, Wake!Cancel, Wake!Commit, Nothing, ConsumerTyped
<1>9. CASE Begin
  BY <1>9 DEF Begin, ConsumerTyped
<1>10. CASE Run
  <2>1. /\ cpc' \in {"draw", "words", "pop"} /\ word' = 0 /\ running' = running /\ spins' = spins
        /\ busyWait' \in BOOLEAN /\ cmode' \in Modes
    <3>1. (Entry.arg = 1) \in BOOLEAN
      OBVIOUS
    <3> QED BY <1>10, <1>a, <3>1 DEF Run, ConsumerTyped
  <2> QED BY <2>1, Sizes DEF ConsumerTyped
<1>11. CASE DrawDone
  BY <1>11 DEF DrawDone, Plus, ConsumerTyped
<1>12. CASE DrawNotify
  BY <1>12 DEF DrawNotify, NotifyDrain, Drain!Signal, ConsumerTyped
<1>13. CASE NextWord
  <2>1. word + 1 \in 0..MaxBurst
    BY <1>13, <1>a, Sizes DEF NextWord, ConsumerTyped
  <2> QED BY <1>13, <2>1 DEF NextWord, ConsumerTyped
<1>14. CASE WordsDone
  BY <1>14 DEF WordsDone, Entry, Plus, ConsumerTyped
<1>15. CASE Pop
  BY <1>15 DEF Pop, Plus, ConsumerTyped
<1>16. CASE PopNotify
  BY <1>16, SpinAssumption DEF PopNotify, ConsumerTyped
<1>17. CASE WakeReturn
  BY <1>17 DEF WakeReturn, Wake!Return, ConsumerTyped
<1>18. CASE UNCHANGED vars
  BY <1>18 DEF vars, consumer, ConsumerTyped
<1> QED
  BY <1>1, <1>2, <1>3, <1>4, <1>5, <1>6, <1>7, <1>8, <1>9, <1>10, <1>11, <1>12, <1>13, <1>14, <1>15,
     <1>16, <1>17, <1>18
     DEF Next, Call, ProducerRuns, ConsumerRuns

LEMMA TypeStep ==
  ASSUME TypeOK, Phases, Calling, [Next]_vars
  PROVE  TypeOK'
<1>1. TypeParts
  BY TypesAreParts
<1>2. /\ CallTyped' /\ TodoTyped' /\ ScreenTyped' /\ CounterTyped' /\ RingTyped' /\ EventTyped' /\ ConsumerTyped'
  BY <1>1, CallStep, TodoStep, ScreenStep, CounterStep, RingStep, EventStep, ConsumerStep
<1> QED BY <1>2 DEF TypeOK, CallTyped, TodoTyped, ScreenTyped, CounterTyped, RingTyped, EventTyped, ConsumerTyped

-----------------------------------------------------------------------------
(* What the history says of the state. *)

LEMMA DrawsFit ==
  ASSUME NEW P \in Nat, NEW C \in Nat, NEW T \in Nat, NEW K \in Nat, NEW L \in Nat, NEW E, NEW B, NEW D, NEW M,
         History(P, C, T, K, L, E, B, D, M)
  PROVE  /\ K <= C /\ C <= P /\ P <= T /\ P <= K + QueueSize
         /\ Finished(C, D) \in Nat /\ D[T] \in Nat
         /\ Finished(C, D) <= D[T] /\ D[T] - Finished(C, D) < CounterMod
<1>1. K <= C /\ C <= P /\ P <= K + QueueSize
  BY DEF History, Cursors
<1>2. P <= T
  BY DEF History, Pending
<1>3. Drew => C < P
  BY DEF History, InHand, Holding, Drew
<1>4. D \in [Nat -> Nat]
  BY DEF History, Stream, Typed
<1>5. D[C] <= D[P] /\ D[P] <= D[C] + (P - C) /\ D[T] <= D[P] + 2 /\ D[C] <= D[T]
  <2>1. C \in C..T /\ P \in C..T /\ T \in C..T /\ P \in P..T
    BY <1>1, <1>2
  <2> QED BY <2>1 DEF History, Stream, DrawCounts
<1>6. Drew => D[C] <= D[C + 1] /\ D[C + 1] <= D[T]
  <2> SUFFICES ASSUME Drew PROVE D[C] <= D[C + 1] /\ D[C + 1] <= D[T]
    OBVIOUS
  <2>1. C \in C..T /\ C + 1 \in C..T /\ T \in C + 1..T
    BY <1>2, <1>3
  <2> QED BY <2>1 DEF History, Stream
<1>7. D[C] \in Nat /\ D[P] \in Nat /\ D[T] \in Nat /\ D[C + 1] \in Nat
  BY <1>4
<1>8. D[T] - D[C] < CounterMod
  BY <1>1, <1>5, <1>7, Sizes
<1> QED BY <1>1, <1>2, <1>5, <1>6, <1>7, <1>8, Sizes DEF Finished

LEMMA CursorsAre ==
  ASSUME NEW P \in Nat, NEW C \in Nat, NEW T \in Nat, NEW K \in Nat, NEW L \in Nat, NEW E, NEW B, NEW D, NEW M,
         History(P, C, T, K, L, E, B, D, M)
  PROVE  /\ Minus(pushCount, popCount) = P - C
         /\ Minus(pushCount, popCached) = P - K
         /\ Nothing <=> P = C
         /\ C < P => Entry = E[C]
         /\ drawPush = drawFinish <=> D[T] = Finished(C, D)
<1>1. /\ popCached = K % CounterMod /\ popCount = C % CounterMod /\ pushCount = P % CounterMod
      /\ K <= C /\ C <= P /\ P <= K + QueueSize
  BY DEF History, Cursors
<1>2. Minus(pushCount, popCount) = P - C /\ Minus(pushCount, popCached) = P - K
  BY <1>1, Distance, Sizes
<1>3. Minus(popCount, popCount) = 0
  BY <1>1, Distance, Sizes
<1>4. Nothing <=> P = C
  BY <1>1, <1>2, <1>3 DEF Nothing
<1>5. C < P => Entry = E[C]
  <2> SUFFICES ASSUME C < P PROVE Entry = E[C]
    OBVIOUS
  <2>1. wq[C % QueueSize] = E[C]
    BY <1>1 DEF History, Ring
  <2>2. popCount % QueueSize = C % QueueSize
    BY <1>1, CellOf, Sizes
  <2> QED BY <2>1, <2>2 DEF Entry
<1>6. drawPush = drawFinish <=> D[T] = Finished(C, D)
  <2>1. drawPush = D[T] % CounterMod /\ drawFinish = Finished(C, D) % CounterMod
    BY DEF History, DrawCounts
  <2>3. /\ Finished(C, D) \in Nat /\ D[T] \in Nat
        /\ Finished(C, D) <= D[T] /\ D[T] - Finished(C, D) < CounterMod
    BY DrawsFit
  <2>4. Finished(C, D) - Finished(C, D) < CounterMod /\ Finished(C, D) - Finished(C, D) = 0
    BY <2>3, Sizes
  <2>2. Minus(drawPush, drawFinish) = D[T] - Finished(C, D) /\ Minus(drawFinish, drawFinish) = 0
    BY <2>1, <2>3, <2>4, Distance
  <2> QED BY <2>1, <2>2, <2>3
<1> QED BY <1>2, <1>4, <1>5, <1>6

\* No line is owed once the counts agree.
LEMMA NothingToDraw ==
  ASSUME NEW P \in Nat, NEW C \in Nat, NEW T \in Nat, NEW K \in Nat, NEW L \in Nat, NEW E, NEW B, NEW D, NEW M,
         History(P, C, T, K, L, E, B, D, M), drawPush = drawFinish,
         NEW j \in (IF Drew THEN C + 1 ELSE C)..T - 1
  PROVE  E[j].op # "draw"
<1> SUFFICES ASSUME E[j].op = "draw" PROVE FALSE
  OBVIOUS
<1>1. D[T] = Finished(C, D) /\ D \in [Nat -> Nat] /\ C <= T
  <2>1. D[T] = Finished(C, D)
    BY CursorsAre
  <2>2. D \in [Nat -> Nat] /\ C <= T
    BY DEF History, Stream, Typed
  <2> QED BY <2>1, <2>2
<1>2. j \in C..T - 1 /\ j + 1 \in C..T /\ T \in j + 1..T /\ j \in Nat
  BY <1>1
<1>3. D[j + 1] = D[j] + 1 /\ D[j + 1] <= D[T]
  BY <1>2 DEF History, Stream, Links, DrawsOf
<1>4. Finished(C, D) <= D[j]
  <2>1. CASE Drew
    <3>1. C + 1 \in C..T /\ j \in C + 1..T
      BY <1>2, <2>1
    <3> QED BY <2>1, <3>1 DEF History, Stream, Finished
  <2>2. CASE ~Drew
    <3>1. C \in C..T /\ j \in C..T
      BY <1>2, <2>2
    <3> QED BY <2>2, <3>1 DEF History, Stream, Finished
  <2> QED BY <2>1, <2>2
<1>5. D[j] \in Nat /\ D[j + 1] \in Nat /\ D[T] \in Nat
  BY <1>1, <1>2
<1> QED BY <1>1, <1>3, <1>4, <1>5

LEMMA StateFacts ==
  ASSUME TypeOK, Control, SomeHistory
  PROVE  /\ Holding => ~Nothing
         /\ todo = <<>> /\ drawPush # drawFinish => ~Nothing
         /\ cpc = "draw" => drawPush # drawFinish
         /\ Uncopied /\ Minus(burstWrite, burstPop) > BurstSize - todo[1].n => ~Nothing
         /\ Minus(pushCount, popCount) = QueueSize => ~Nothing
         /\ ppc \in {"stop", "join"} /\ cpc \notin {"popped", "ended"} => ~Nothing
         /\ cpc = "popped" /\ ~running => ppc \in {"stop", "join"}
<1>1. PICK P \in Nat, C \in Nat, T \in Nat, K \in Nat, L \in Nat : \E E, B, D, M : History(P, C, T, K, L, E, B, D, M)
  BY DEF SomeHistory
<1>2. PICK E, B, D, M : History(P, C, T, K, L, E, B, D, M)
  BY <1>1
<1>3. /\ Nothing <=> P = C
      /\ Minus(pushCount, popCount) = P - C
      /\ drawPush = drawFinish <=> D[T] = Finished(C, D)
  BY <1>2, CursorsAre
<1>4. /\ K <= C /\ C <= P /\ P <= T /\ P <= K + QueueSize
      /\ Finished(C, D) \in Nat /\ D[T] \in Nat /\ Finished(C, D) <= D[T]
  BY <1>2, DrawsFit
<1>5. Holding => C < P
  BY <1>2 DEF History, InHand
<1>6. T = P + Len(todo)
  BY <1>2 DEF History, Pending
<1>7. todo = <<>> /\ drawPush # drawFinish => ~Nothing
  <2> SUFFICES ASSUME todo = <<>>, Nothing PROVE D[T] = Finished(C, D)
    BY <1>3
  <2>1. T = C
    BY <1>3, <1>4, <1>6
  <2>2. ~Drew
    BY <1>3, <1>5 DEF Holding, Drew
  <2> QED BY <2>1, <2>2 DEF Finished
<1>8. cpc = "draw" => drawPush # drawFinish
  <2> SUFFICES ASSUME cpc = "draw", drawPush = drawFinish PROVE FALSE
    OBVIOUS
  <2>1. E[C].op = "draw" /\ C < T /\ ~Drew
    BY <1>2, <1>4, <1>5 DEF History, InHand, Drew, Holding
  <2>2. C \in (IF Drew THEN C + 1 ELSE C)..T - 1
    BY <2>1
  <2> QED BY <1>2, <2>1, <2>2, NothingToDraw
<1>9. Uncopied /\ Minus(burstWrite, burstPop) > BurstSize - todo[1].n => ~Nothing
  <2> SUFFICES ASSUME Uncopied, Nothing PROVE ~(Minus(burstWrite, burstPop) > BurstSize - todo[1].n)
    OBVIOUS
  <2>1. P = C /\ cpc # "pop"
    BY <1>3, <1>5 DEF Holding
  <2>2. burstWrite = B[C] % CounterMod /\ burstPop = B[C] % CounterMod /\ B[C] \in Nat
    BY <1>2, <2>1 DEF History, WordCounts, WordsIn, WordsRead, Stream, Typed
  <2>3. Minus(burstWrite, burstPop) = 0
    BY <2>2, Distance, Sizes
  <2>4. todo[1] \in EntrySet
    <3>1. Len(todo) = 1
      BY DEF Control, Calling
    <3>2. todo \in Seq(EntrySet)
      BY DEF TypeOK
    <3> QED BY <3>1, <3>2
  <2>5. todo[1].n \in 0..MaxBurst
    BY <2>4 DEF EntrySet
  <2> QED BY <2>3, <2>5, Sizes
<1>10. Minus(pushCount, popCount) = QueueSize => ~Nothing
  BY <1>3, Sizes
<1>11. ppc \in {"stop", "join"} /\ cpc \notin {"popped", "ended"} => ~Nothing
  <2> SUFFICES ASSUME ppc \in {"stop", "join"}, cpc \notin {"popped", "ended"} PROVE P # C
    BY <1>3
  <2>1. C < T
    BY <1>2 DEF History, Exits, Leaving, Gone
  <2>2. todo = <<>>
    BY DEF Control, Phases, Queueing
  <2> QED BY <1>6, <2>1, <2>2
<1>12. cpc = "popped" /\ ~running => ppc \in {"stop", "join"}
  BY <1>2 DEF History, Exits, Gone
<1> QED BY <1>3, <1>5, <1>7, <1>8, <1>9, <1>10, <1>11, <1>12

-----------------------------------------------------------------------------
(* Every step keeps the threads in step. *)

LEMMA PublishMoves ==
  ASSUME TypeOK, Control, Publish
  PROVE  /\ Len(todo) > 1 => ppc' = "push" /\ todo' # <<>>
         /\ Len(todo) <= 1 => ppc' = then /\ todo' = <<>>
         /\ ppc' \in {"push", "idle", "lineWake", "frameDone", "stop"}
         /\ todo # <<>>
<1>1. todo # <<>> /\ todo \in Seq(EntrySet) /\ then \in {"idle", "lineWake", "frameDone", "stop"}
  BY DEF Publish, Control, Phases, Queueing, TypeOK
<1>2. Len(Tail(todo)) = Len(todo) - 1 /\ Len(todo) \in Nat /\ Tail(todo) \in Seq(EntrySet)
  BY <1>1
<1>3. Len(todo) > 1 => Tail(todo) # <<>>
  <2>1. \A s : s = <<>> => Len(s) = 0
    OBVIOUS
  <2>2. Tail(todo) = <<>> => Len(Tail(todo)) = 0
    BY ONLY <2>1, Zenon
  <2> QED BY <1>2, <2>2
<1>4. Len(todo) <= 1 => Tail(todo) = <<>>
  <2>1. Len(todo) # 0
    BY <1>1
  <2>2. Len(todo) <= 1 => Len(Tail(todo)) = 0
    BY <1>2, <2>1
  <2> QED BY <1>2, <2>2
<1> QED BY <1>1, <1>3, <1>4 DEF Publish

LEMMA PhaseStep ==
  ASSUME TypeOK, Control, SomeHistory, [Next]_vars
  PROVE  Phases'
<1> USE DEF Control
<1>a. CallTyped /\ TodoTyped /\ ScreenTyped /\ EventTyped /\ ConsumerTyped
  BY TypesAreParts DEF TypeParts
<1> USE <1>a
<1>1. CASE \/ Poll \/ NextWord
  BY <1>1 DEF Poll, NextWord, producer, screen, Phases, Queueing
<1>2. CASE StartThread
  BY <1>2 DEF StartThread, screen, Phases, Queueing
<1>3. CASE Write
  BY <1>3 DEF Write, Ready, Queue, Plain, Command, screen, consumer, Phases, Queueing
<1>4. CASE Reset
  BY <1>4 DEF Reset, Ready, Queue, Plain, Command, screen, consumer, Phases, Queueing
<1>5. CASE DrawLine
  BY <1>5 DEF DrawLine, Ready, Queue, Command, Progressive, Plus, NoFrame, consumer, Phases, Queueing
<1>6. CASE EndFrame
  BY <1>6 DEF EndFrame, Ready, NoFrame, screen, consumer, Phases, Queueing
<1>7. CASE StateAction
  BY <1>7 DEF StateAction, Ready, screen, consumer, Phases, Queueing
<1>8. CASE Kill
  BY <1>8 DEF Kill, Ready, Queue, Plain, NoFrame, Command, screen, consumer, Phases, Queueing
<1>9. CASE \E m \in Modes : SetDeinterlaceMode(m)
  <2>1. PICK m \in Modes : SetDeinterlaceMode(m)
    BY <1>9
  <2>2. CASE thread
    BY <2>1, <2>2 DEF SetDeinterlaceMode, Ready, Queue, SetDirectly, Phases, Queueing
  <2>3. CASE ~thread
    BY <2>1, <2>3 DEF SetDeinterlaceMode, Ready, SetDirectly, Phases, Queueing
  <2> QED BY <2>2, <2>3
<1>10. CASE \E double \in BOOLEAN : StartFrame(double)
  BY <1>10 DEF StartFrame, Ready, NoFrame, consumer, Phases, Queueing
<1>11. CASE \E n \in 1..MaxBurst : BeginBurst(n)
  BY <1>11 DEF BeginBurst, Ready, Command, screen, consumer, Phases, Queueing
<1>12. CASE LineWake
  BY <1>12 DEF LineWake, NotifyWake, Progressive, Minus, Wake!Signal, screen, consumer, Phases, Queueing
<1>13. CASE BurstFull
  BY <1>13 DEF BurstFull, WordsFull, Drain!Prepare, Minus, screen, consumer, Phases, Queueing
<1>14. CASE CopyWords
  BY <1>14 DEF CopyWords, WordsFull, Plus, Minus, screen, consumer, Phases, Queueing
<1>15. CASE FrameDone
  BY <1>15 DEF FrameDone, NoFrame, consumer, Phases, Queueing
<1>16. CASE StateDone
  BY <1>16 DEF StateDone, screen, consumer, Phases, Queueing
<1>17. CASE KillWake
  BY <1>17 DEF KillWake, NotifyWake, Wake!Signal, screen, consumer, Phases, Queueing
<1>18. CASE Join
  BY <1>18 DEF Join, screen, Phases, Queueing, Calling, Leaving
<1>19. CASE PushFull
  BY <1>19 DEF PushFull, QueueFull, Drain!Prepare, Minus, screen, consumer, Phases, Queueing
<1>20. CASE WriteEntry
  BY <1>20 DEF WriteEntry, QueueFull, Minus, screen, consumer, Phases, Queueing
<1>21. CASE Publish
  <2>1. UNCHANGED <<thread, espec, cpc, goal, running>>
    BY <1>21 DEF Publish, screen, consumer
  <2>2. Queueing' <=> todo' # <<>>
    <3>1. CASE Len(todo) > 1
      BY <1>21, <3>1, PublishMoves DEF Queueing
    <3>2. CASE ~(Len(todo) > 1)
      <4>1. Len(todo) <= 1
        BY <3>2 DEF TodoTyped
      <4>2. ppc' = then /\ todo' = <<>> /\ ppc' \in {"push", "idle", "lineWake", "frameDone", "stop"}
        BY <1>21, <4>1, PublishMoves
      <4> QED BY <4>2 DEF Queueing, TodoTyped
    <3> QED BY <3>1, <3>2
  <2>3. ppc' \in {"push", "idle", "lineWake", "frameDone", "stop"} /\ thread' = thread /\ ppc = "publish"
    BY <1>21, <2>1, PublishMoves DEF Publish
  <2> QED BY <1>21, <2>1, <2>2, <2>3 DEF Phases, Publish
<1>22. CASE Refresh
  BY <1>22 DEF Refresh, Minus, Drain!Cancel, screen, consumer, Phases, Queueing
<1>23. CASE Park
  BY <1>23 DEF Park, NotifyWake, Drain!Commit, Wake!Signal, screen, consumer, Phases, Queueing
<1>24. CASE AwaitOver
  BY <1>24 DEF AwaitOver, Queue, Command, GoalMet, Drained, Drawn, screen, consumer, Phases, Queueing
<1>25. CASE AwaitMore
  BY <1>25 DEF AwaitMore, GoalMet, Drained, Drawn, screen, consumer, Phases, Queueing
<1>26. CASE AwaitPrepare
  BY <1>26 DEF AwaitPrepare, Drain!Prepare, screen, consumer, Phases, Queueing
<1>27. CASE AwaitWake
  BY <1>27 DEF AwaitWake, NotifyWake, Wake!Signal, screen, consumer, Phases, Queueing
<1>28. CASE Retest
  BY <1>28 DEF Retest, GoalMet, Drain!Cancel, Drain!Commit, Drained, Drawn, screen, consumer, Phases, Queueing
<1>29. CASE Drowsy
  BY <1>29 DEF Drowsy, Nothing, Polling, producer, screen, Phases, Queueing
<1>30. CASE SleepPrepare
  BY <1>30 DEF SleepPrepare, Wake!Prepare, producer, screen, Phases, Queueing
<1>31. CASE Recheck
  BY <1>31 DEF Recheck, StillNothing, Wake!Cancel, Wake!Commit, Nothing, producer, screen, Phases, Queueing
<1>32. CASE Begin
  BY <1>32 DEF Begin, Entry, Nothing, producer, screen, Phases, Queueing
<1>33. CASE Run
  BY <1>33 DEF Run, Entry, producer, screen, Phases, Queueing
<1>34. CASE DrawDone
  BY <1>34 DEF DrawDone, Plus, producer, screen, Phases, Queueing
<1>35. CASE DrawNotify
  BY <1>35 DEF DrawNotify, NotifyDrain, Drain!Signal, producer, screen, Phases, Queueing
<1>36. CASE WordsDone
  BY <1>36 DEF WordsDone, Entry, Plus, producer, screen, Phases, Queueing
<1>37. CASE Pop
  BY <1>37 DEF Pop, Plus, producer, screen, Phases, Queueing
<1>38. CASE PopNotify
  BY <1>38 DEF PopNotify, NotifyDrain, Notifies, Drain!Signal, producer, screen, Phases, Queueing
<1>39. CASE DrainReturn
  BY <1>39 DEF DrainReturn, Drain!Return, screen, consumer, Phases, Queueing, CallTyped
<1>40. CASE WakeReturn
  BY <1>40 DEF WakeReturn, Wake!Return, producer, screen, Phases, Queueing
<1>41. CASE UNCHANGED vars
  BY <1>41 DEF vars, producer, screen, consumer, Phases, Queueing
<1> QED
  BY <1>1, <1>2, <1>3, <1>4, <1>5, <1>6, <1>7, <1>8, <1>9, <1>10, <1>11, <1>12, <1>13, <1>14, <1>15,
     <1>16, <1>17, <1>18, <1>19, <1>20, <1>21, <1>22, <1>23, <1>24, <1>25, <1>26, <1>27, <1>28, <1>29,
     <1>30, <1>31, <1>32, <1>33, <1>34, <1>35, <1>36, <1>37, <1>38, <1>39, <1>40, <1>41
     DEF Next, Call, ProducerRuns, ConsumerRuns

LEMMA WaitStep ==
  ASSUME TypeOK, Control, SomeHistory, [Next]_vars
  PROVE  Waits'
<1> USE DEF Control
<1>a. CallTyped /\ TodoTyped /\ ScreenTyped /\ EventTyped /\ ConsumerTyped
  BY TypesAreParts DEF TypeParts
<1> USE <1>a
<1>1. CASE \/ (\E double \in BOOLEAN : StartFrame(double)) \/ Poll \/ NextWord
  BY <1>1 DEF StartFrame, Poll, NextWord, events, consumer, producer, Waits
<1>2. CASE StartThread
  BY <1>2 DEF StartThread, Waits
<1>3. CASE Write
  BY <1>3 DEF Write, Ready, Queue, Plain, Command, events, consumer, Waits
<1>4. CASE Reset
  BY <1>4 DEF Reset, Ready, Queue, Plain, Command, events, consumer, Waits
<1>5. CASE DrawLine
  BY <1>5 DEF DrawLine, Ready, Queue, Command, Progressive, Plus, NoFrame, events, consumer, Waits
<1>6. CASE EndFrame
  BY <1>6 DEF EndFrame, Ready, NoFrame, events, consumer, Waits
<1>7. CASE StateAction
  BY <1>7 DEF StateAction, Ready, events, consumer, Waits
<1>8. CASE Kill
  BY <1>8 DEF Kill, Ready, Queue, Plain, NoFrame, Command, events, consumer, Waits
<1>9. CASE \E m \in Modes : SetDeinterlaceMode(m)
  BY <1>9 DEF SetDeinterlaceMode, Ready, Queue, Plain, SetDirectly, Command, events, Waits
<1>10. CASE \E n \in 1..MaxBurst : BeginBurst(n)
  BY <1>10 DEF BeginBurst, Ready, Command, events, consumer, Waits
<1>11. CASE LineWake
  BY <1>11 DEF LineWake, NotifyWake, Progressive, Minus, Wake!Signal, consumer, Waits
<1>12. CASE BurstFull
  BY <1>12 DEF BurstFull, WordsFull, Drain!Prepare, Minus, consumer, Waits
<1>13. CASE CopyWords
  BY <1>13 DEF CopyWords, WordsFull, Plus, Minus, events, consumer, Waits
<1>14. CASE FrameDone
  BY <1>14 DEF FrameDone, NoFrame, events, consumer, Waits
<1>15. CASE StateDone
  BY <1>15 DEF StateDone, events, consumer, Waits
<1>16. CASE KillWake
  BY <1>16 DEF KillWake, NotifyWake, Wake!Signal, consumer, Waits
<1>17. CASE Join
  BY <1>17 DEF Join, events, Waits
<1>18. CASE PushFull
  BY <1>18 DEF PushFull, QueueFull, Drain!Prepare, Minus, consumer, Waits
<1>19. CASE WriteEntry
  BY <1>19 DEF WriteEntry, QueueFull, Minus, events, consumer, Waits
<1>20. CASE Publish
  BY <1>20, PublishMoves DEF Publish, events, consumer, Waits
<1>21. CASE Refresh
  BY <1>21 DEF Refresh, Minus, Drain!Cancel, consumer, Waits
<1>22. CASE Park
  BY <1>22 DEF Park, NotifyWake, Drain!Commit, Wake!Signal, consumer, Waits
<1>23. CASE AwaitOver
  BY <1>23 DEF AwaitOver, Queue, Command, GoalMet, Drained, Drawn, events, consumer, Waits
<1>24. CASE AwaitMore
  BY <1>24 DEF AwaitMore, GoalMet, Drained, Drawn, events, consumer, Waits
<1>25. CASE AwaitPrepare
  BY <1>25 DEF AwaitPrepare, Drain!Prepare, consumer, Waits
<1>26. CASE AwaitWake
  BY <1>26 DEF AwaitWake, NotifyWake, Wake!Signal, consumer, Waits
<1>27. CASE Retest
  BY <1>27 DEF Retest, GoalMet, Drain!Cancel, Drain!Commit, Drained, Drawn, consumer, Waits
<1>28. CASE Drowsy
  BY <1>28 DEF Drowsy, Nothing, Polling, producer, events, Waits
<1>29. CASE SleepPrepare
  BY <1>29 DEF SleepPrepare, Wake!Prepare, producer, Waits
<1>30. CASE Recheck
  BY <1>30 DEF Recheck, StillNothing, Wake!Cancel, Wake!Commit, Nothing, producer, Waits
<1>31. CASE Begin
  BY <1>31 DEF Begin, Entry, Nothing, producer, events, Waits
<1>32. CASE Run
  BY <1>32 DEF Run, Entry, producer, events, Waits
<1>33. CASE DrawDone
  BY <1>33 DEF DrawDone, Plus, producer, events, Waits
<1>34. CASE DrawNotify
  BY <1>34 DEF DrawNotify, NotifyDrain, Drain!Signal, producer, Waits
<1>35. CASE WordsDone
  BY <1>35 DEF WordsDone, Entry, Plus, producer, events, Waits
<1>36. CASE Pop
  BY <1>36 DEF Pop, Plus, producer, events, Waits
<1>37. CASE PopNotify
  BY <1>37 DEF PopNotify, NotifyDrain, Notifies, Drain!Signal, producer, Waits
<1>38. CASE DrainReturn
  BY <1>38 DEF DrainReturn, Drain!Return, consumer, Waits
<1>39. CASE WakeReturn
  BY <1>39 DEF WakeReturn, Wake!Return, producer, Waits
<1>40. CASE UNCHANGED vars
  BY <1>40 DEF vars, producer, events, consumer, Waits
<1> QED
  BY <1>1, <1>2, <1>3, <1>4, <1>5, <1>6, <1>7, <1>8, <1>9, <1>10, <1>11, <1>12, <1>13, <1>14, <1>15,
     <1>16, <1>17, <1>18, <1>19, <1>20, <1>21, <1>22, <1>23, <1>24, <1>25, <1>26, <1>27, <1>28, <1>29,
     <1>30, <1>31, <1>32, <1>33, <1>34, <1>35, <1>36, <1>37, <1>38, <1>39, <1>40
     DEF Next, Call, ProducerRuns, ConsumerRuns

LEMMA CallingStep ==
  ASSUME TypeOK, Control, SomeHistory, [Next]_vars
  PROVE  Calling'
<1> USE DEF Control
<1>a. CallTyped /\ TodoTyped /\ ScreenTyped /\ EventTyped /\ ConsumerTyped
  BY TypesAreParts DEF TypeParts
<1> USE <1>a
<1>1. CASE \/ StartThread \/ Poll \/ Drowsy \/ SleepPrepare \/ Recheck \/ Begin \/ Run \/ DrawDone
           \/ DrawNotify \/ NextWord \/ WordsDone \/ Pop \/ PopNotify \/ WakeReturn
  BY <1>1 DEF StartThread, Poll, Drowsy, SleepPrepare, Recheck, Begin, Run, DrawDone, DrawNotify, NextWord,
     WordsDone, Pop, PopNotify, WakeReturn, screen, producer, Calling, Uncopied, Leaving
<1>2. CASE Write
  BY <1>2 DEF Write, Ready, Queue, Plain, Command, screen, Calling, Uncopied, Leaving
<1>3. CASE Reset
  BY <1>3 DEF Reset, Ready, Queue, Plain, Command, screen, Calling, Uncopied, Leaving
<1>4. CASE DrawLine
  BY <1>4 DEF DrawLine, Ready, Queue, Command, Progressive, Plus, NoFrame, Calling, Uncopied, Leaving
<1>5. CASE EndFrame
  BY <1>5 DEF EndFrame, Ready, NoFrame, screen, Calling, Uncopied, Leaving
<1>6. CASE StateAction
  BY <1>6 DEF StateAction, Ready, screen, Calling, Uncopied, Leaving
<1>7. CASE Kill
  BY <1>7 DEF Kill, Ready, Queue, Plain, NoFrame, Command, screen, Calling, Uncopied, Leaving
<1>8. CASE \E m \in Modes : SetDeinterlaceMode(m)
  BY <1>8 DEF SetDeinterlaceMode, Ready, Queue, Plain, SetDirectly, Command, Calling, Uncopied, Leaving
<1>9. CASE \E double \in BOOLEAN : StartFrame(double)
  BY <1>9 DEF StartFrame, Ready, NoFrame, Calling, Uncopied, Leaving, Phases, Queueing, ScreenTyped
<1>10. CASE \E n \in 1..MaxBurst : BeginBurst(n)
  BY <1>10 DEF BeginBurst, Ready, Command, screen, Calling, Uncopied, Leaving
<1>11. CASE LineWake
  <2>1. todo = <<>> /\ todo' = todo /\ ppc' = "idle" /\ UNCHANGED <<goal, then, espec, frame>>
    BY <1>11 DEF LineWake, Phases, Queueing, screen
  <2> QED BY <1>11, <2>1 DEF Calling, Uncopied, Leaving
<1>12. CASE BurstFull
  BY <1>12 DEF BurstFull, WordsFull, Drain!Prepare, Minus, screen, Calling, Uncopied, Leaving
<1>13. CASE CopyWords
  BY <1>13 DEF CopyWords, WordsFull, Plus, Minus, screen, Calling, Uncopied, Leaving
<1>14. CASE FrameDone
  BY <1>14 DEF FrameDone, NoFrame, Calling, Uncopied, Leaving
<1>15. CASE StateDone
  BY <1>15 DEF StateDone, screen, Calling, Uncopied, Leaving
<1>16. CASE KillWake
  BY <1>16 DEF KillWake, NotifyWake, Wake!Signal, screen, Calling, Uncopied, Leaving
<1>17. CASE Join
  BY <1>17 DEF Join, screen, Calling, Uncopied, Leaving
<1>18. CASE PushFull
  BY <1>18 DEF PushFull, QueueFull, Drain!Prepare, Minus, screen, Calling, Uncopied, Leaving
<1>19. CASE WriteEntry
  BY <1>19 DEF WriteEntry, QueueFull, Minus, screen, Calling, Uncopied, Leaving
<1>20. CASE Publish
  <2>1. UNCHANGED <<goal, then, line, espec, frame>>
    BY <1>20 DEF Publish, screen
  <2>2. Leaving' => Leaving
    BY <1>20, PublishMoves, <2>1 DEF Leaving
  <2> QED BY <1>20, <2>1, <2>2, PublishMoves DEF Calling, Uncopied
<1>21. CASE Refresh
  <2>1. ppc = "refresh" /\ ppc' \in {"park", "push", "burst"} /\ (goal = "space" => ppc' # "burst")
        /\ UNCHANGED <<goal, todo, then, line, espec, frame>>
    BY <1>21 DEF Refresh, screen
  <2>2. Uncopied' => Uncopied
    BY <2>1 DEF Uncopied, Phases
  <2>3. Leaving' <=> Leaving
    BY <2>1 DEF Leaving
  <2> QED BY <2>1, <2>2, <2>3 DEF Calling
<1>22. CASE Park
  BY <1>22 DEF Park, NotifyWake, Drain!Commit, Wake!Signal, screen, Calling, Uncopied, Leaving
<1>23. CASE AwaitOver
  BY <1>23 DEF AwaitOver, Queue, Command, GoalMet, Drained, Drawn, screen, Calling, Uncopied, Leaving
<1>24. CASE AwaitMore
  BY <1>24 DEF AwaitMore, GoalMet, Drained, Drawn, screen, Calling, Uncopied, Leaving
<1>25. CASE AwaitPrepare
  BY <1>25 DEF AwaitPrepare, Drain!Prepare, screen, Calling, Uncopied, Leaving
<1>26. CASE AwaitWake
  BY <1>26 DEF AwaitWake, NotifyWake, Wake!Signal, screen, Calling, Uncopied, Leaving
<1>27. CASE Retest
  <2>1. ppc = "retest" /\ ppc' \in {"await", "parked"} /\ UNCHANGED <<goal, todo, then, line, espec, frame>>
    BY <1>27 DEF Retest, screen
  <2>2. ~Uncopied' /\ (Leaving' <=> Leaving)
    BY <2>1 DEF Uncopied, Leaving, Phases
  <2> QED BY <2>1, <2>2 DEF Calling
<1>28. CASE DrainReturn
  BY <1>28 DEF DrainReturn, Drain!Return, screen, Calling, Uncopied, Leaving
<1>29. CASE UNCHANGED vars
  BY <1>29 DEF vars, producer, screen, Calling, Uncopied, Leaving
<1> QED
  BY <1>1, <1>2, <1>3, <1>4, <1>5, <1>6, <1>7, <1>8, <1>9, <1>10, <1>11, <1>12, <1>13, <1>14, <1>15,
     <1>16, <1>17, <1>18, <1>19, <1>20, <1>21, <1>22, <1>23, <1>24, <1>25, <1>26, <1>27, <1>28, <1>29
     DEF Next, Call, ProducerRuns, ConsumerRuns

LEMMA SettledStep ==
  ASSUME TypeOK, Control, SomeHistory, [Next]_vars
  PROVE  Settled'
<1> USE DEF Control
<1>a. CallTyped /\ TodoTyped /\ ScreenTyped /\ EventTyped /\ ConsumerTyped
  BY TypesAreParts DEF TypeParts
<1> USE <1>a
<1>1. CASE \/ (\E double \in BOOLEAN : StartFrame(double)) \/ Poll \/ Drowsy \/ SleepPrepare \/ Recheck
           \/ Begin \/ Run \/ DrawNotify \/ NextWord \/ WordsDone \/ PopNotify \/ WakeReturn
  BY <1>1 DEF StartFrame, Poll, Drowsy, SleepPrepare, Recheck, Begin, Run, DrawNotify, NextWord, WordsDone,
     PopNotify, WakeReturn, ring, popped, producer, Settled
<1>2. CASE StartThread
  BY <1>2 DEF StartThread, Settled
<1>3. CASE Write
  BY <1>3 DEF Write, Ready, Queue, Plain, Command, ring, popped, Settled
<1>4. CASE Reset
  BY <1>4 DEF Reset, Ready, Queue, Plain, Command, ring, popped, Settled
<1>5. CASE DrawLine
  BY <1>5 DEF DrawLine, Ready, Queue, Command, Progressive, Plus, NoFrame, popped, Settled
<1>6. CASE EndFrame
  BY <1>6 DEF EndFrame, Ready, NoFrame, ring, popped, Settled
<1>7. CASE StateAction
  BY <1>7 DEF StateAction, Ready, ring, popped, Settled
<1>8. CASE Kill
  BY <1>8 DEF Kill, Ready, Queue, Plain, NoFrame, Command, ring, popped, Settled
<1>9. CASE \E m \in Modes : SetDeinterlaceMode(m)
  BY <1>9 DEF SetDeinterlaceMode, Ready, Queue, Plain, SetDirectly, Command, ring, popped, Settled
<1>10. CASE \E n \in 1..MaxBurst : BeginBurst(n)
  BY <1>10 DEF BeginBurst, Ready, Command, ring, popped, Settled
<1>11. CASE LineWake
  BY <1>11 DEF LineWake, NotifyWake, Progressive, Minus, Wake!Signal, ring, popped, Settled
<1>12. CASE BurstFull
  BY <1>12 DEF BurstFull, WordsFull, Drain!Prepare, Minus, ring, popped, Settled
<1>13. CASE CopyWords
  BY <1>13 DEF CopyWords, WordsFull, Plus, Minus, ring, popped, Settled
<1>14. CASE FrameDone
  BY <1>14 DEF FrameDone, NoFrame, ring, popped, Settled
<1>15. CASE StateDone
  BY <1>15 DEF StateDone, ring, popped, Settled
<1>16. CASE KillWake
  BY <1>16 DEF KillWake, NotifyWake, Wake!Signal, ring, popped, Settled
<1>17. CASE Join
  BY <1>17 DEF Join, ring, popped, Settled
<1>18. CASE PushFull
  BY <1>18 DEF PushFull, QueueFull, Drain!Prepare, Minus, ring, popped, Settled
<1>19. CASE WriteEntry
  BY <1>19 DEF WriteEntry, QueueFull, Minus, popped, Settled
<1>20. CASE Publish
  <2>1. UNCHANGED <<then, drawPush, drawFinish, popCount>>
    BY <1>20 DEF Publish, popped
  <2> QED BY <1>20, <2>1, PublishMoves DEF Settled
<1>21. CASE Refresh
  BY <1>21 DEF Refresh, Minus, Drain!Cancel, ring, popped, Settled
<1>22. CASE Park
  BY <1>22 DEF Park, NotifyWake, Drain!Commit, Wake!Signal, ring, popped, Settled
<1>23. CASE AwaitOver
  BY <1>23 DEF AwaitOver, Queue, Command, GoalMet, Drained, Drawn, ring, popped, Settled
<1>24. CASE AwaitMore
  BY <1>24 DEF AwaitMore, GoalMet, Drained, Drawn, ring, popped, Settled
<1>25. CASE AwaitPrepare
  BY <1>25 DEF AwaitPrepare, Drain!Prepare, ring, popped, Settled
<1>26. CASE AwaitWake
  BY <1>26 DEF AwaitWake, NotifyWake, Wake!Signal, ring, popped, Settled
<1>27. CASE Retest
  BY <1>27 DEF Retest, GoalMet, Drain!Cancel, Drain!Commit, Drained, Drawn, ring, popped, Settled
<1>28. CASE DrawDone
  <2>1. drawPush # drawFinish
    BY <1>28, StateFacts DEF DrawDone
  <2> QED BY <1>28, <2>1 DEF DrawDone, producer, ring, Settled
<1>29. CASE Pop
  <2>1. pushCount # popCount
    BY <1>29, StateFacts DEF Pop, Holding, Nothing
  <2> QED BY <1>29, <2>1 DEF Pop, producer, ring, Settled
<1>30. CASE DrainReturn
  BY <1>30 DEF DrainReturn, Drain!Return, ring, popped, Settled
<1>31. CASE UNCHANGED vars
  BY <1>31 DEF vars, producer, ring, popped, Settled
<1> QED
  BY <1>1, <1>2, <1>3, <1>4, <1>5, <1>6, <1>7, <1>8, <1>9, <1>10, <1>11, <1>12, <1>13, <1>14, <1>15,
     <1>16, <1>17, <1>18, <1>19, <1>20, <1>21, <1>22, <1>23, <1>24, <1>25, <1>26, <1>27, <1>28, <1>29,
     <1>30, <1>31
     DEF Next, Call, ProducerRuns, ConsumerRuns

LEMMA WakesStep ==
  ASSUME TypeOK, Control, SomeHistory, [Next]_vars
  PROVE  Wakes'
<1> USE DEF Control
<1>a. CallTyped /\ TodoTyped /\ ScreenTyped /\ EventTyped /\ ConsumerTyped
  BY TypesAreParts DEF TypeParts
<1> USE <1>a
<1>1. CASE \/ (\E double \in BOOLEAN : StartFrame(double)) \/ Poll \/ NextWord
  BY <1>1 DEF StartFrame, Poll, NextWord, ring, popped, events, consumer, producer, Wakes, Nothing
<1>2. CASE StartThread
  BY <1>2 DEF StartThread, Wakes, Nothing
<1>3. CASE Write
  BY <1>3 DEF Write, Ready, Queue, Plain, Command, ring, popped, events, consumer, Wakes, Nothing
<1>4. CASE Reset
  BY <1>4 DEF Reset, Ready, Queue, Plain, Command, ring, popped, events, consumer, Wakes, Nothing
<1>5. CASE DrawLine
  BY <1>5 DEF DrawLine, Ready, Queue, Command, Progressive, Plus, NoFrame, popped, events, consumer, Wakes,
     Nothing
<1>6. CASE EndFrame
  BY <1>6 DEF EndFrame, Ready, NoFrame, ring, popped, events, consumer, Wakes, Nothing
<1>7. CASE StateAction
  BY <1>7 DEF StateAction, Ready, ring, popped, events, consumer, Wakes, Nothing
<1>8. CASE Kill
  BY <1>8 DEF Kill, Ready, Queue, Plain, NoFrame, Command, ring, popped, events, consumer, Wakes, Nothing
<1>9. CASE \E m \in Modes : SetDeinterlaceMode(m)
  BY <1>9 DEF SetDeinterlaceMode, Ready, Queue, Plain, SetDirectly, Command, ring, popped, events, Wakes,
     Nothing
<1>10. CASE \E n \in 1..MaxBurst : BeginBurst(n)
  BY <1>10 DEF BeginBurst, Ready, Command, ring, popped, events, consumer, Wakes, Nothing
<1>11. CASE LineWake
  BY <1>11 DEF LineWake, NotifyWake, Progressive, Minus, Wake!Signal, ring, popped, consumer, Wakes, Nothing
<1>12. CASE BurstFull
  BY <1>12 DEF BurstFull, WordsFull, Drain!Prepare, Minus, ring, popped, consumer, Wakes, Nothing
<1>13. CASE CopyWords
  BY <1>13 DEF CopyWords, WordsFull, Plus, Minus, ring, popped, events, consumer, Wakes, Nothing
<1>14. CASE FrameDone
  BY <1>14 DEF FrameDone, NoFrame, ring, popped, events, consumer, Wakes, Nothing
<1>15. CASE StateDone
  BY <1>15 DEF StateDone, ring, popped, events, consumer, Wakes, Nothing
<1>16. CASE KillWake
  <2>1. Nothing => cpc \in {"popped", "ended"}
    BY <1>16, StateFacts DEF KillWake
  <2>2. UNCHANGED <<cpc, drainSig, pushCount, popCount>> /\ ppc' = "join"
    BY <1>16 DEF KillWake, ring, popped, consumer
  <2>3. cpc = "parked" => wakeSig' = TRUE
    BY <1>16 DEF KillWake, NotifyWake, Wake!Signal, Waits
  <2> QED BY <2>1, <2>2, <2>3 DEF Wakes, Nothing
<1>17. CASE Join
  BY <1>17 DEF Join, ring, popped, events, Wakes, Nothing
<1>18. CASE PushFull
  BY <1>18 DEF PushFull, QueueFull, Drain!Prepare, Minus, ring, popped, consumer, Wakes, Nothing
<1>19. CASE WriteEntry
  BY <1>19 DEF WriteEntry, QueueFull, Minus, popped, events, consumer, Wakes, Nothing
<1>20. CASE Publish
  BY <1>20, PublishMoves DEF Wakes
<1>21. CASE Refresh
  <2>1. UNCHANGED <<cpc, pushCount, popCount, wakeSig>> /\ ppc' \in {"park", "push", "burst"}
    BY <1>21 DEF Refresh, ring, popped, consumer
  <2>2. ppc' = "park" => ~Nothing
    BY <1>21, StateFacts DEF Refresh, Uncopied, Phases
  <2> QED BY <2>1, <2>2 DEF Wakes, Nothing
<1>22. CASE Park
  <2>1. UNCHANGED <<cpc, drainSig, pushCount, popCount>> /\ ppc' = "parked" /\ ppc = "park"
    BY <1>22 DEF Park, Drain!Commit, ring, popped, consumer
  <2>2. cpc = "parked" => wakeSig' = TRUE
    BY <1>22 DEF Park, NotifyWake, Wake!Signal, Waits
  <2> QED BY <2>1, <2>2 DEF Wakes, Nothing
<1>23. CASE AwaitOver
  BY <1>23 DEF AwaitOver, Queue, Command, GoalMet, Drained, Drawn, ring, popped, events, consumer, Wakes, Nothing
<1>24. CASE AwaitMore
  BY <1>24 DEF AwaitMore, GoalMet, Drained, Drawn, ring, popped, events, consumer, Wakes, Nothing
<1>25. CASE AwaitPrepare
  BY <1>25 DEF AwaitPrepare, Drain!Prepare, ring, popped, consumer, Wakes, Nothing
<1>26. CASE AwaitWake
  <2>1. UNCHANGED <<cpc, drainSig, pushCount, popCount>> /\ ppc' = "retest"
    BY <1>26 DEF AwaitWake, ring, popped, consumer
  <2>2. cpc = "parked" => wakeSig' = TRUE
    BY <1>26 DEF AwaitWake, NotifyWake, Wake!Signal, Waits
  <2> QED BY <2>1, <2>2 DEF Wakes, Nothing
<1>27. CASE Retest
  <2>1. UNCHANGED <<cpc, pushCount, popCount, wakeSig>> /\ ppc' \in {"await", "parked"} /\ ppc = "retest"
    BY <1>27 DEF Retest, ring, popped, consumer
  <2>2. ppc' = "parked" => ~Nothing
    BY <1>27, StateFacts DEF Retest, GoalMet, Drawn, Drained, Nothing, Phases, Queueing
  <2> QED BY <2>1, <2>2 DEF Wakes, Nothing
<1>28. CASE Drowsy
  BY <1>28 DEF Drowsy, Nothing, Polling, producer, ring, popped, events, Wakes
<1>29. CASE SleepPrepare
  BY <1>29 DEF SleepPrepare, Wake!Prepare, producer, ring, popped, Wakes, Nothing
<1>30. CASE Recheck
  BY <1>30 DEF Recheck, StillNothing, Wake!Cancel, Wake!Commit, Nothing, producer, ring, popped, Wakes
<1>31. CASE Begin
  BY <1>31 DEF Begin, Entry, Nothing, producer, ring, popped, events, Wakes
<1>32. CASE Run
  BY <1>32 DEF Run, Entry, producer, ring, popped, events, Wakes, Nothing
<1>33. CASE DrawDone
  BY <1>33 DEF DrawDone, Plus, producer, ring, events, Wakes, Nothing
<1>34. CASE DrawNotify
  BY <1>34 DEF DrawNotify, NotifyDrain, Drain!Signal, producer, ring, popped, Wakes, Nothing
<1>35. CASE WordsDone
  BY <1>35 DEF WordsDone, Entry, Plus, producer, ring, events, Wakes, Nothing
<1>36. CASE Pop
  BY <1>36 DEF Pop, Plus, producer, ring, events, Wakes, Nothing
<1>37. CASE PopNotify
  <2>1. UNCHANGED <<ppc, pushCount, popCount, wakeSig>> /\ cpc' \in {"check", "ended"}
    BY <1>37 DEF PopNotify, producer, ring, popped
  <2>2. Nothing /\ ppc \in {"park", "parked"} => drainSig' = TRUE
    BY <1>37 DEF PopNotify, Notifies, Nothing, NotifyDrain, Drain!Signal, Waits
  <2> QED BY <2>1, <2>2 DEF Wakes, Nothing
<1>38. CASE DrainReturn
  BY <1>38 DEF DrainReturn, Drain!Return, ring, popped, consumer, Wakes, Nothing
<1>39. CASE WakeReturn
  BY <1>39 DEF WakeReturn, Wake!Return, producer, ring, popped, Wakes, Nothing
<1>40. CASE UNCHANGED vars
  BY <1>40 DEF vars, producer, ring, popped, events, consumer, Wakes, Nothing
<1> QED
  BY <1>1, <1>2, <1>3, <1>4, <1>5, <1>6, <1>7, <1>8, <1>9, <1>10, <1>11, <1>12, <1>13, <1>14, <1>15,
     <1>16, <1>17, <1>18, <1>19, <1>20, <1>21, <1>22, <1>23, <1>24, <1>25, <1>26, <1>27, <1>28, <1>29,
     <1>30, <1>31, <1>32, <1>33, <1>34, <1>35, <1>36, <1>37, <1>38, <1>39, <1>40
     DEF Next, Call, ProducerRuns, ConsumerRuns

LEMMA ControlStep ==
  ASSUME TypeOK, Control, SomeHistory, [Next]_vars
  PROVE  Control'
<1>1. Phases' /\ Waits' /\ Calling' /\ Settled' /\ Wakes'
  BY PhaseStep, WaitStep, CallingStep, SettledStep, WakesStep
<1> QED BY <1>1 DEF Control

-----------------------------------------------------------------------------
(* The parts of the history that a step leaves alone. *)

LEMMA KeepStream ==
  ASSUME NEW C, NEW T, NEW E, NEW B, NEW D, NEW M, Stream(C, T, E, B, D, M)
  PROVE  Stream(C, T, E, B, D, M)'
BY DEF Stream, Typed, Links, WordsOf, DrawsOf, EntrySet, Ops, Modes, Counters

LEMMA KeepCursors ==
  ASSUME NEW P, NEW C, NEW K, Cursors(P, C, K), UNCHANGED <<popCached, pushCount, popCount>>, ppc' # "publish"
  PROVE  Cursors(P, C, K)'
BY DEF Cursors

LEMMA KeepRing ==
  ASSUME NEW P, NEW C, NEW E, Ring(P, C, E), UNCHANGED wq, ppc' # "publish"
  PROVE  Ring(P, C, E)'
BY DEF Ring

LEMMA KeepPending ==
  ASSUME NEW P, NEW T, NEW E, Pending(P, T, E), UNCHANGED todo
  PROVE  Pending(P, T, E)'
BY DEF Pending

LEMMA KeepDrawCounts ==
  ASSUME NEW P, NEW C, NEW T, NEW D, DrawCounts(P, C, T, D), UNCHANGED <<drawPush, drawFinish>>, Drew' <=> Drew
  PROVE  DrawCounts(P, C, T, D)'
BY DEF DrawCounts, Finished

LEMMA KeepWordCounts ==
  ASSUME NEW P, NEW C, NEW T, NEW L, NEW B, WordCounts(P, C, T, L, B),
         UNCHANGED <<burstWrite, burstPop, burstCached>>, Uncopied' <=> Uncopied, cpc' = "pop" <=> cpc = "pop"
  PROVE  WordCounts(P, C, T, L, B)'
BY DEF WordCounts, WordsIn, WordsRead

LEMMA KeepCells ==
  ASSUME NEW P, NEW C, NEW T, NEW B, Cells(P, C, T, B),
         UNCHANGED burst, Uncopied' <=> Uncopied, cpc' = "pop" <=> cpc = "pop"
  PROVE  Cells(P, C, T, B)'
<1>1. WordsIn(P, T, B)' = WordsIn(P, T, B) /\ WordsRead(C, B)' = WordsRead(C, B)
  BY DEF WordsIn, WordsRead
<1> QED BY <1>1 DEF Cells

LEMMA KeepModeEnds ==
  ASSUME NEW C, NEW T, NEW M, ModeEnds(C, T, M), UNCHANGED <<pmode, cmode>>, Ran' <=> Ran
  PROVE  ModeEnds(C, T, M)'
BY DEF ModeEnds

LEMMA KeepFrames ==
  ASSUME NEW C, NEW T, NEW E, Frames(C, T, E), UNCHANGED <<frame, espec, lib>>, Drew' <=> Drew
  PROVE  Frames(C, T, E)'
BY DEF Frames

LEMMA KeepInHand ==
  ASSUME NEW P, NEW C, NEW E, InHand(P, C, E), UNCHANGED consumer
  PROVE  InHand(P, C, E)'
BY DEF InHand, Holding, consumer

LEMMA KeepExits ==
  ASSUME NEW C, NEW T, NEW E, Exits(C, T, E), Leaving' <=> Leaving, Gone' <=> Gone,
         ppc \in {"stop", "join"} => ppc' \in {"stop", "join"}, cpc' = "off" => cpc = "off"
  PROVE  Exits(C, T, E)'
BY DEF Exits

\* A step of the emulation thread, of the render thread, seen from the other.
LEMMA ProducerOnly ==
  ASSUME UNCHANGED consumer
  PROVE  /\ (Drew' <=> Drew) /\ (Ran' <=> Ran) /\ (Gone' <=> Gone) /\ (Holding' <=> Holding)
         /\ (cpc' = "pop" <=> cpc = "pop") /\ (cpc' = "off" <=> cpc = "off") /\ cmode' = cmode
BY DEF consumer, Drew, Ran, Gone, Holding
LEMMA ConsumerOnly ==
  ASSUME UNCHANGED <<producer, screen, ring, words>>
  PROVE  /\ (Uncopied' <=> Uncopied) /\ (Leaving' <=> Leaving) /\ UNCHANGED <<ppc, todo, pmode, frame, espec, lib>>
         /\ UNCHANGED <<popCached, burstCached, wq, pushCount, drawPush, burst, burstWrite>>
BY DEF producer, screen, ring, words, Uncopied, Leaving

LEMMA HistoryMade ==
  ASSUME NEW P \in Nat, NEW C \in Nat, NEW T \in Nat, NEW K \in Nat, NEW L \in Nat, NEW E, NEW B, NEW D, NEW M,
         History(P, C, T, K, L, E, B, D, M)'
  PROVE  SomeHistory'
BY DEF SomeHistory

-----------------------------------------------------------------------------
(* The steps that neither queue, copy nor execute. *)

LEMMA ProducerQuiet ==
  ASSUME NEW P, NEW C, NEW T, NEW K, NEW L, NEW E, NEW B, NEW D, NEW M, History(P, C, T, K, L, E, B, D, M),
         UNCHANGED <<screen, ring, words, popped, consumer>>, UNCHANGED <<todo, then, popCached, burstCached>>,
         ppc' # "publish", Uncopied' <=> Uncopied, ppc \in {"stop", "join"} <=> ppc' \in {"stop", "join"}
  PROVE  History(P, C, T, K, L, E, B, D, M)'
<1>1. /\ UNCHANGED <<pmode, espec, frame, lib, wq, pushCount, drawPush, burst, burstWrite>>
      /\ UNCHANGED <<popCount, drawFinish, burstPop>> /\ (Leaving' <=> Leaving)
  BY DEF screen, ring, words, popped, Leaving
<1>2. /\ Stream(C, T, E, B, D, M)' /\ Cursors(P, C, K)' /\ Ring(P, C, E)' /\ Pending(P, T, E)'
  BY <1>1, KeepStream, KeepCursors, KeepRing, KeepPending DEF History
<1>3. DrawCounts(P, C, T, D)' /\ WordCounts(P, C, T, L, B)' /\ Cells(P, C, T, B)'
  BY <1>1, ProducerOnly, KeepDrawCounts, KeepWordCounts, KeepCells DEF History
<1>4. ModeEnds(C, T, M)' /\ Frames(C, T, E)' /\ InHand(P, C, E)' /\ Exits(C, T, E)'
  BY <1>1, ProducerOnly, KeepModeEnds, KeepFrames, KeepInHand, KeepExits DEF History
<1> QED BY <1>2, <1>3, <1>4 DEF History

LEMMA ConsumerQuiet ==
  ASSUME NEW P, NEW C, NEW T, NEW K, NEW L, NEW E, NEW B, NEW D, NEW M, History(P, C, T, K, L, E, B, D, M),
         UNCHANGED <<producer, screen, ring, words, popped>>, UNCHANGED <<running, cmode>>,
         ~Holding, ~Holding', Gone' <=> Gone, cpc' # "off", ppc' # "publish" \/ ppc = "publish"
  PROVE  History(P, C, T, K, L, E, B, D, M)'
<1>1. /\ UNCHANGED <<ppc, todo, pmode, frame, espec, lib, popCached, burstCached, wq, pushCount, drawPush>>
      /\ UNCHANGED <<burst, burstWrite, popCount, drawFinish, burstPop>>
      /\ (Uncopied' <=> Uncopied) /\ (Leaving' <=> Leaving)
  BY ConsumerOnly DEF popped
<1>2. /\ ~Drew /\ ~Drew' /\ ~Ran /\ ~Ran' /\ cpc # "pop" /\ cpc' # "pop" /\ cpc' \notin {"draw", "drawn", "words"}
  BY DEF Holding, Drew, Ran
<1>3. Stream(C, T, E, B, D, M)' /\ Pending(P, T, E)'
  BY <1>1, KeepStream, KeepPending DEF History
<1>4. Cursors(P, C, K)' /\ Ring(P, C, E)'
  BY <1>1 DEF History, Cursors, Ring
<1>5. DrawCounts(P, C, T, D)' /\ WordCounts(P, C, T, L, B)' /\ Cells(P, C, T, B)'
  BY <1>1, <1>2, KeepDrawCounts, KeepWordCounts, KeepCells DEF History
<1>6. ModeEnds(C, T, M)' /\ Frames(C, T, E)' /\ Exits(C, T, E)'
  BY <1>1, <1>2, KeepModeEnds, KeepFrames, KeepExits DEF History
<1>7. InHand(P, C, E)'
  BY <1>2 DEF InHand
<1> QED BY <1>3, <1>4, <1>5, <1>6, <1>7 DEF History

LEMMA QuietStep ==
  ASSUME Control, SomeHistory,
         \/ EndFrame \/ StateAction \/ LineWake \/ BurstFull \/ StateDone \/ KillWake \/ PushFull \/ Park
         \/ (AwaitOver /\ goal # "draws") \/ AwaitMore \/ AwaitPrepare \/ AwaitWake \/ Retest \/ DrainReturn
         \/ Poll \/ Drowsy \/ SleepPrepare \/ Recheck \/ WakeReturn \/ PopNotify
         \/ UNCHANGED vars
  PROVE  SomeHistory'
<1>1. PICK P \in Nat, C \in Nat, T \in Nat, K \in Nat, L \in Nat : \E E, B, D, M : History(P, C, T, K, L, E, B, D, M)
  BY DEF SomeHistory
<1>2. PICK E, B, D, M : History(P, C, T, K, L, E, B, D, M)
  BY <1>1
<1> DEFINE Same == History(P, C, T, K, L, E, B, D, M)'
<1> SUFFICES Same
  BY HistoryMade
<1>3. CASE \/ EndFrame \/ StateAction \/ LineWake \/ BurstFull \/ StateDone \/ KillWake \/ PushFull \/ Park
           \/ (AwaitOver /\ goal # "draws") \/ AwaitMore \/ AwaitPrepare \/ AwaitWake \/ Retest \/ DrainReturn
  <2>1. UNCHANGED <<screen, ring, words, popped, consumer>> /\ UNCHANGED <<todo, then, popCached, burstCached>>
    BY <1>3 DEF EndFrame, StateAction, LineWake, BurstFull, StateDone, KillWake, PushFull, Park, AwaitOver,
       AwaitMore, AwaitPrepare, AwaitWake, Retest, DrainReturn
  <2>2. /\ ppc' # "publish" /\ (ppc \in {"stop", "join"} <=> ppc' \in {"stop", "join"})
        /\ Uncopied' <=> Uncopied
    BY <1>3 DEF EndFrame, StateAction, LineWake, BurstFull, StateDone, KillWake, PushFull, Park, AwaitOver,
       AwaitMore, AwaitPrepare, AwaitWake, Retest, DrainReturn, Ready, Uncopied, Control, Phases, Drain!Return
  <2> QED BY <1>2, <2>1, <2>2, ProducerQuiet
<1>4. CASE Poll \/ Drowsy \/ SleepPrepare \/ Recheck \/ WakeReturn \/ PopNotify
  <2>1. UNCHANGED <<producer, screen, ring, words, popped>> /\ UNCHANGED <<running, cmode>>
    BY <1>4 DEF Poll, Drowsy, SleepPrepare, Recheck, WakeReturn, PopNotify
  <2>2. ~Holding /\ ~Holding' /\ (Gone' <=> Gone) /\ cpc' # "off"
    BY <1>4, <2>1 DEF Poll, Drowsy, SleepPrepare, Recheck, WakeReturn, PopNotify, Holding, Gone, Control, Phases
  <2>3. ppc' = ppc
    BY <2>1 DEF producer
  <2> QED BY <1>2, <2>1, <2>2, <2>3, ConsumerQuiet
<1>5. CASE UNCHANGED vars
  <2>1. UNCHANGED <<screen, ring, words, popped, consumer>> /\ UNCHANGED <<producer, ppc, goal, todo, then, popCached, burstCached>>
    BY <1>5 DEF vars, producer
  <2>2. UNCHANGED <<pmode, espec, frame, lib, wq, pushCount, drawPush, burst, burstWrite, popCount, drawFinish, burstPop>>
    BY <2>1 DEF screen, ring, words, popped
  <2>3. Stream(C, T, E, B, D, M)' /\ Pending(P, T, E)'
    BY <1>2, <2>1, KeepStream, KeepPending DEF History
  <2>4. Cursors(P, C, K)' /\ Ring(P, C, E)'
    BY <1>2, <2>1, <2>2 DEF History, Cursors, Ring
  <2>5. (Uncopied' <=> Uncopied) /\ (Leaving' <=> Leaving)
    BY <2>1 DEF Uncopied, Leaving
  <2>6. DrawCounts(P, C, T, D)' /\ WordCounts(P, C, T, L, B)' /\ Cells(P, C, T, B)'
    BY <1>2, <2>1, <2>2, <2>5, ProducerOnly, KeepDrawCounts, KeepWordCounts, KeepCells DEF History
  <2>7. ModeEnds(C, T, M)' /\ Frames(C, T, E)' /\ InHand(P, C, E)' /\ Exits(C, T, E)'
    BY <1>2, <2>1, <2>2, <2>5, ProducerOnly, KeepModeEnds, KeepFrames, KeepInHand, KeepExits DEF History
  <2> QED BY <2>3, <2>4, <2>6, <2>7 DEF History
<1> QED BY <1>3, <1>4, <1>5

-----------------------------------------------------------------------------
(* The calls that queue commands. *)

\* The lines among the commands s.
DrawsIn(s) ==
  DrawsOf(s[1]) + (IF Len(s) >= 2 THEN DrawsOf(s[2]) ELSE 0) + (IF Len(s) >= 3 THEN DrawsOf(s[3]) ELSE 0)

LEMMA GrownEnds ==
  ASSUME NEW C \in Nat, NEW T \in Nat, C <= T, NEW s, NEW m, Commands(s, m),
         NEW E, NEW B, NEW D, NEW M, NEW E1, NEW B1, NEW D1, NEW M1,
         Typed(E, B, D, M), Grown(C, T, Len(s), s, E, B, D, M, E1, B1, D1, M1)
  PROVE  /\ D1[T + Len(s)] = D[T] + DrawsIn(s) /\ DrawsIn(s) \in Nat
         /\ (\A i \in 1..Len(s) : s[i].op # "burst") => B1[T + Len(s)] = B[T]
         /\ M1[T + Len(s)] = s[Len(s)].mode
<1>1. /\ Len(s) \in 1..3 /\ Len(s) \in Nat
      /\ \A i \in 1..Len(s) : s[i] \in EntrySet
  BY DEF Commands
<1>2. /\ D1[T] = D[T] /\ B1[T] = B[T] /\ D[T] \in Nat /\ B[T] \in Nat
      /\ M1[T + Len(s)] = s[Len(s)].mode
  <2>1. M1[T + Len(s)] = s[Len(s)].mode
    BY <1>1 DEF Grown
  <2>2. D1[T] = D[T] /\ B1[T] = B[T]
    BY DEF Grown
  <2>3. D[T] \in Nat /\ B[T] \in Nat
    BY DEF Typed
  <2> QED BY <2>1, <2>2, <2>3
<1>3. ASSUME NEW i \in 1..Len(s)
      PROVE  /\ D1[T + i] = D1[T + (i - 1)] + DrawsOf(s[i])
             /\ s[i].op # "burst" => B1[T + i] = B1[T + (i - 1)]
             /\ DrawsOf(s[i]) \in {0, 1}
  <2>1. T + i - 1 \in C..(T + Len(s)) - 1 /\ T + i - 1 = T + (i - 1) /\ (T + i - 1) + 1 = T + i
    BY <1>1
  <2>2. Links(T + i - 1, E1, B1, D1, M1) /\ E1[T + i - 1] = [s[i] EXCEPT !.seq = (T + i - 1) % CounterMod]
    BY <2>1, <1>1 DEF Grown, Stream
  <2>3. E1[T + i - 1].op = s[i].op
    BY <2>2, <1>1 DEF EntrySet
  <2>4. T + (i - 1) \in Nat
    BY <1>1
  <2>5. B1[T + (i - 1)] \in Nat
    BY <2>4 DEF Grown, Stream, Typed
  <2> QED BY <2>1, <2>2, <2>3, <2>5 DEF Links, WordsOf, DrawsOf
<1>4. /\ D1[T + 1] = D1[T] + DrawsOf(s[1]) /\ DrawsOf(s[1]) \in {0, 1}
      /\ s[1].op # "burst" => B1[T + 1] = B1[T]
  <2>1. 1 \in 1..Len(s) /\ T + (1 - 1) = T
    BY <1>1
  <2> QED BY <2>1, <1>3
<1>5. Len(s) >= 2 => /\ D1[T + 2] = D1[T + 1] + DrawsOf(s[2]) /\ DrawsOf(s[2]) \in {0, 1}
                     /\ s[2].op # "burst" => B1[T + 2] = B1[T + 1]
  <2>1. T + (2 - 1) = T + 1 /\ (Len(s) >= 2 => 2 \in 1..Len(s))
    BY <1>1
  <2> QED BY <2>1, <1>3
<1>6. Len(s) >= 3 => /\ D1[T + 3] = D1[T + 2] + DrawsOf(s[3]) /\ DrawsOf(s[3]) \in {0, 1}
                     /\ s[3].op # "burst" => B1[T + 3] = B1[T + 2]
  <2>1. T + (3 - 1) = T + 2 /\ (Len(s) >= 3 => 3 \in 1..Len(s))
    BY <1>1
  <2> QED BY <2>1, <1>3
<1> HIDE DEF DrawsOf
<1>7. D1[T + Len(s)] = D[T] + DrawsIn(s) /\ DrawsIn(s) \in Nat
  <2>1. CASE Len(s) = 1
    BY <2>1, <1>2, <1>4 DEF DrawsIn
  <2>2. CASE Len(s) = 2
    BY <2>2, <1>2, <1>4, <1>5 DEF DrawsIn
  <2>3. CASE Len(s) = 3
    BY <2>3, <1>2, <1>4, <1>5, <1>6 DEF DrawsIn
  <2> QED BY <1>1, <2>1, <2>2, <2>3
<1>8. (\A i \in 1..Len(s) : s[i].op # "burst") => B1[T + Len(s)] = B[T]
  <2> SUFFICES ASSUME \A i \in 1..Len(s) : s[i].op # "burst" PROVE B1[T + Len(s)] = B[T]
    OBVIOUS
  <2>1. s[1].op # "burst" /\ (Len(s) >= 2 => s[2].op # "burst") /\ (Len(s) >= 3 => s[3].op # "burst")
    BY <1>1
  <2>2. CASE Len(s) = 1
    BY <2>1, <2>2, <1>2, <1>4
  <2>3. CASE Len(s) = 2
    BY <2>1, <2>3, <1>2, <1>4, <1>5
  <2>4. CASE Len(s) = 3
    BY <2>1, <2>4, <1>2, <1>4, <1>5, <1>6
  <2> QED BY <1>1, <2>2, <2>3, <2>4
<1> QED BY <1>2, <1>7, <1>8

\* What a call that queues the commands s sets: a burst is alone and its words
\* come first, the exit command ends the thread.
Queues(s) ==
  /\ todo' = s /\ Commands(s, pmode) /\ DrawsIn(s) <= 2
  /\ ppc \in {"idle", "await"} /\ todo = <<>>
  /\ \/ ppc' = "push" /\ \A i \in 1..Len(s) : s[i].op # "burst"
     \/ ppc' = "burst"
  /\ then' = "stop" <=> s[Len(s)].op = "exit"
  /\ pmode' = s[Len(s)].mode /\ drawPush' = Plus(drawPush, DrawsIn(s))
  /\ \A i \in 1..Len(s) : s[i].op = "draw" => s[i].frame = frame /\ espec = frame /\ lib'[s[i].arg] = frame
  /\ \A l \in 0..Lines - 1 : lib'[l] \in {lib[l], frame}
  /\ UNCHANGED <<popCached, burstCached, frame, espec, wq, pushCount>>
  /\ UNCHANGED <<words, popped, consumer>>

LEMMA QueueStep ==
  ASSUME SomeHistory, cpc # "off", NEW s, Queues(s)
  PROVE  SomeHistory'
<1>1. PICK P \in Nat, C \in Nat, T \in Nat, K \in Nat, L \in Nat : \E E, B, D, M : History(P, C, T, K, L, E, B, D, M)
  BY DEF SomeHistory
<1>2. PICK E, B, D, M : History(P, C, T, K, L, E, B, D, M)
  BY <1>1
<1>3. P = T /\ C <= P
  BY <1>2 DEF Queues, History, Pending, Cursors
<1>4. /\ ~Leaving /\ ~Uncopied /\ ~Gone /\ ppc \notin {"stop", "join"} /\ ppc' \in {"push", "burst"}
      /\ Uncopied' <=> ppc' = "burst"
      /\ Len(s) \in 1..3 /\ todo' # <<>>
  <2>1. ~Leaving /\ ~Uncopied /\ ppc \notin {"stop", "join"} /\ ppc' \in {"push", "burst"}
    BY DEF Queues, Leaving, Uncopied
  <2>2. ~Gone
    BY <1>2, <2>1 DEF History, Exits
  <2>3. Len(s) \in 1..3 /\ todo' = s
    BY DEF Queues, Commands
  <2>4. todo' # <<>>
    BY <2>3
  <2>5. Uncopied' <=> ppc' = "burst"
    BY <2>1 DEF Uncopied
  <2> QED BY <2>1, <2>2, <2>3, <2>4, <2>5
<1>5. Stream(C, T, E, B, D, M) /\ NoExit(C, T, E) /\ Commands(s, M[T]) /\ Typed(E, B, D, M)
  BY <1>2, <1>4 DEF History, Exits, ModeEnds, NoExit, Queues, Stream
<1>6. PICK E1, B1, D1, M1 : Grown(C, T, Len(s), s, E, B, D, M, E1, B1, D1, M1)
  BY <1>5, ExtendAll
<1> DEFINE T1 == T + Len(s)
<1>7. /\ D1[T1] = D[T] + DrawsIn(s) /\ DrawsIn(s) \in Nat /\ DrawsIn(s) <= 2
      /\ ~Uncopied' => B1[T1] = B[T]
      /\ M1[T1] = pmode'
  <2>1. C <= T
    BY <1>3
  <2>2. /\ D1[T + Len(s)] = D[T] + DrawsIn(s) /\ DrawsIn(s) \in Nat
        /\ (\A i \in 1..Len(s) : s[i].op # "burst") => B1[T + Len(s)] = B[T]
        /\ M1[T + Len(s)] = s[Len(s)].mode
    BY <1>5, <1>6, <2>1, GrownEnds
  <2> QED BY <2>2, <1>4 DEF Queues
<1>8. /\ Stream(C, T1, E1, B1, D1, M1) /\ T1 \in Nat /\ T < T1
      /\ \A i \in 1..Len(s) : E1[T + i - 1] = [s[i] EXCEPT !.seq = (T + i - 1) % CounterMod]
      /\ \A j \in 0..T - 1 : E1[j] = E[j]
      /\ \A j \in 0..T : B1[j] = B[j] /\ D1[j] = D[j] /\ M1[j] = M[j]
  <2>1. T1 \in Nat /\ T < T1
    BY <1>4
  <2> QED BY <2>1, <1>6 DEF Grown
<1> HIDE DEF T1
<1>9. Holding => C < T
  BY <1>2, <1>3 DEF History, InHand
<1>10. ASSUME NEW j \in T..T1 - 1
       PROVE  \E i \in 1..Len(s) : j = T + i - 1 /\ E1[j] = [s[i] EXCEPT !.seq = j % CounterMod]
  <2>1. j - T + 1 \in 1..Len(s) /\ T + (j - T + 1) - 1 = j
    BY <1>4 DEF T1
  <2> QED BY <2>1, <1>8
<1>11. UNCHANGED <<popCount, drawFinish, burstPop, burst, burstWrite>>
  BY DEF Queues, words, popped
<1>12. Stream(C, T1, E1, B1, D1, M1)' /\ Cursors(P, C, K)'
  BY <1>2, <1>4, <1>8, <1>11, KeepStream, KeepCursors DEF Queues, History
<1>13. Ring(P, C, E1)'
  <2>1. \A j \in C..P - 1 : wq'[j % QueueSize] = E1[j]
    BY <1>2, <1>3, <1>8 DEF History, Ring, Queues
  <2> QED BY <2>1, <1>4 DEF Ring
<1>14. Pending(P, T1, E1)'
  <2>1. T1 = P + Len(s) /\ todo' = s
    BY <1>3 DEF T1, Queues
  <2> QED BY <2>1, <1>3, <1>8 DEF Pending
<1>15. DrawCounts(P, C, T1, D1)'
  <2>1. D1[C] = D[C] /\ (Drew => D1[C + 1] = D[C + 1]) /\ D1[P] = D[T] /\ D[T] \in Nat
    <3>1. D[T] \in Nat
      BY <1>5 DEF Typed
    <3> QED BY <3>1, <1>3, <1>8, <1>9 DEF Drew, Holding
  <2>2. drawPush = D[T] % CounterMod /\ drawFinish = Finished(C, D) % CounterMod
    BY <1>2 DEF History, DrawCounts
  <2>3. Plus(D[T] % CounterMod, DrawsIn(s)) = (D[T] + DrawsIn(s)) % CounterMod
    BY <1>7, <2>1, Counted
  <2>4. drawPush' = D1[T1] % CounterMod
    BY <1>7, <2>2, <2>3 DEF Queues
  <2>5. Finished(C, D1)' = Finished(C, D)
    BY <2>1, ProducerOnly DEF Finished, Queues
  <2> QED BY <1>7, <1>11, <2>1, <2>2, <2>4, <2>5 DEF DrawCounts
<1>16. WordsIn(P, T1, B1)' = WordsIn(P, T, B) /\ WordsRead(C, B1)' = WordsRead(C, B)
  <2>1. B1[P] = B[T] /\ B1[C] = B[C] /\ (cpc = "pop" => B1[C + 1] = B[C + 1])
    BY <1>3, <1>8, <1>9 DEF Holding
  <2>2. WordsIn(P, T1, B1)' = B[T] /\ WordsIn(P, T, B) = B[T]
    BY <1>4, <1>7, <2>1 DEF WordsIn
  <2> QED BY <2>1, <2>2, ProducerOnly DEF WordsRead, Queues
<1>17. WordCounts(P, C, T1, L, B1)' /\ Cells(P, C, T1, B1)'
  BY <1>2, <1>11, <1>16 DEF History, WordCounts, Cells, Queues
<1>18. ModeEnds(C, T1, M1)'
  <2>1. M1[C] = M[C] /\ (Ran => M1[C + 1] = M[C + 1])
    BY <1>3, <1>8, <1>9 DEF Ran, Holding
  <2>2. (Ran' <=> Ran) /\ cmode' = cmode
    BY ProducerOnly DEF Queues
  <2> QED BY <1>2, <1>7, <2>1, <2>2 DEF History, ModeEnds
<1>19. Frames(C, T1, E1)'
  <2>1. Drew' <=> Drew
    BY ProducerOnly DEF Queues
  <2> SUFFICES ASSUME NEW j \in (IF Drew THEN C + 1 ELSE C)..T1 - 1, E1[j].op = "draw"
               PROVE  E1[j].frame = frame' /\ espec' = frame' /\ lib'[E1[j].arg] = frame'
    BY <2>1 DEF Frames
  <2>2. CASE j < T
    <3>1. E1[j] = E[j] /\ j \in (IF Drew THEN C + 1 ELSE C)..T - 1 /\ j \in C..T - 1
      BY <2>2, <1>8
    <3>2. E[j].frame = frame /\ espec = frame /\ lib[E[j].arg] = frame /\ E[j].arg < Lines
      BY <1>2, <3>1 DEF History, Frames, Stream, Links
    <3>3. E[j] \in EntrySet
      BY <1>5, <3>1 DEF Typed
    <3>4. E[j].arg \in 0..Lines - 1
      BY <3>2, <3>3, LineAssumption DEF EntrySet
    <3> QED BY <3>1, <3>2, <3>4 DEF Queues
  <2>3. CASE j >= T
    <3>1. j \in T..T1 - 1
      BY <2>3, <1>8, <1>3
    <3>2. PICK i \in 1..Len(s) : E1[j] = [s[i] EXCEPT !.seq = j % CounterMod]
      BY <3>1, <1>10
    <3>3. s[i] \in EntrySet
      BY DEF Queues, Commands
    <3>4. s[i].op = E1[j].op /\ s[i].frame = E1[j].frame /\ s[i].arg = E1[j].arg
      BY <3>2, <3>3 DEF EntrySet
    <3> QED BY <3>4 DEF Queues
  <2> QED BY <2>2, <2>3, <1>3, <1>8
<1>20. InHand(P, C, E1)'
  <2>1. Holding => E1[C] = E[C]
    BY <1>3, <1>8, <1>9
  <2>2. cpc' = cpc /\ running' = running /\ word' = word /\ (Holding' <=> Holding)
    BY DEF Queues, consumer, Holding
  <2> QED BY <1>2, <2>1, <2>2 DEF History, InHand, Holding
<1>21. Exits(C, T1, E1)'
  <2>1. (Gone' <=> Gone) /\ cpc' = cpc
    BY DEF Queues, consumer, Gone
  <2>2. Leaving' <=> s[Len(s)].op = "exit"
    BY <1>4 DEF Leaving, Queues
  <2>3. E1[T1 - 1].op = s[Len(s)].op
    <3>1. Len(s) \in 1..Len(s) /\ T1 - 1 = T + Len(s) - 1
      BY <1>4 DEF T1
    <3>2. E1[T1 - 1] = [s[Len(s)] EXCEPT !.seq = (T1 - 1) % CounterMod]
      BY <3>1, <1>8
    <3>3. s \in Seq(EntrySet)
      BY DEF Queues, Commands
    <3>4. s[Len(s)] \in EntrySet
      BY <3>1, <3>3
    <3> QED BY <3>2, <3>4 DEF EntrySet
  <2>4. \A j \in C..T1 - 1 : E1[j].op = "exit" => j = T1 - 1
    BY <1>8 DEF Stream
  <2>5. C < T1
    BY <1>3, <1>8
  <2> QED BY <1>4, <2>1, <2>2, <2>3, <2>4, <2>5 DEF Exits
<1>22. History(P, C, T1, K, L, E1, B1, D1, M1)'
  BY <1>12, <1>13, <1>14, <1>15, <1>17, <1>18, <1>19, <1>20, <1>21 DEF History
<1> QED BY <1>8, <1>22, HistoryMade

LEMMA QueueOne ==
  ASSUME TypeParts, NEW e \in EntrySet, e.op # "draw", e.op # "mode" => e.mode = pmode,
         ppc \in {"idle", "await"}, todo = <<>>, todo' = <<e>>, pmode' = e.mode,
         ppc' = (IF e.op = "burst" THEN "burst" ELSE "push"), then' = "stop" <=> e.op = "exit",
         UNCHANGED <<popCached, burstCached, frame, espec, lib>>, UNCHANGED <<ring, words, popped, consumer>>
  PROVE  Queues(<<e>>)
<1>1. /\ <<e>> \in Seq(EntrySet) /\ Len(<<e>>) = 1 /\ <<e>>[1] = e
      /\ \A i \in 1..Len(<<e>>) : i = 1
  OBVIOUS
<1> DEFINE s == <<e>>
<1> HIDE DEF s
<1>2. s \in Seq(EntrySet) /\ Len(s) = 1 /\ s[1] = e /\ todo' = s
  BY <1>1 DEF s
<1>3. Commands(s, pmode)
  BY <1>2 DEF Commands
<1>4. DrawsIn(s) = 0
  BY <1>2 DEF DrawsIn, DrawsOf
<1>5. Plus(drawPush, 0) = drawPush
  <2>1. drawPush \in 0..CounterMod - 1 /\ drawPush + 0 = drawPush
    BY Sizes DEF TypeParts, CounterTyped, Counters
  <2> QED BY <2>1, Sizes, SmallRemainder DEF Plus
<1>6. wq' = wq /\ pushCount' = pushCount /\ drawPush' = drawPush
  BY DEF ring
<1>7. Queues(s)
  BY <1>2, <1>3, <1>4, <1>5, <1>6 DEF Queues
<1> QED BY <1>7 DEF s

LEMMA Joined ==
  ASSUME NEW S, NEW s \in Seq(S), NEW t \in Seq(S)
  PROVE  /\ s \o t \in Seq(S) /\ Len(s \o t) = Len(s) + Len(t)
         /\ \A i \in 1..Len(s) : (s \o t)[i] = s[i]
         /\ \A i \in 1..Len(t) : (s \o t)[Len(s) + i] = t[i]
OBVIOUS

LEMMA LinesQueued ==
  ASSUME TypeOK, Control, DrawLine
  PROVE  \E s : Queues(s)
<1> DEFINE d == Command("draw", line, 0)
           b == Command("busywait", 1, 0)
           draws == IF Progressive THEN <<d, d>> ELSE <<d>>
           busy == line = BusyLine /\ BusyWaitAllowed
           s == draws \o (IF busy THEN <<b>> ELSE <<>>)
<1>1. TypeParts
  BY TypesAreParts
<1>2. d \in EntrySet /\ b \in EntrySet
  <2>1. line \in 0..Lines /\ 1 \in 0..Lines /\ 0 \in 0..MaxBurst
    BY <1>1, Sizes, LineAssumption DEF TypeParts, CallTyped
  <2>2. "draw" \in Ops /\ "busywait" \in Ops
    BY DEF Ops
  <2> QED BY <1>1, <2>1, <2>2, CommandTyped
<1>3. /\ d.op = "draw" /\ d.arg = line /\ d.frame = frame /\ d.mode = pmode
      /\ b.op = "busywait" /\ b.mode = pmode
  BY DEF Command
<1>4. /\ ppc = "idle" /\ espec # NoFrame /\ line < Lines /\ lib' = [lib EXCEPT ![line] = frame]
      /\ drawPush' = Plus(drawPush, Len(draws)) /\ todo' = s /\ ppc' = "push" /\ then' = "lineWake"
      /\ UNCHANGED <<popCached, burstCached, frame, espec, wq, pushCount, pmode>>
      /\ UNCHANGED <<words, popped, consumer>>
  BY DEF DrawLine, Ready, Queue
<1> HIDE DEF d, b
<1>5. /\ Len(draws) \in 1..2 /\ s \in Seq(EntrySet) /\ Len(s) \in 1..3 /\ Len(draws) <= Len(s)
      /\ \A i \in 1..Len(s) : s[i] = IF i <= Len(draws) THEN d ELSE b
  <2> DEFINE tail == IF busy THEN <<b>> ELSE <<>>
  <2>1. draws \in Seq(EntrySet) /\ Len(draws) \in 1..2 /\ \A i \in 1..Len(draws) : draws[i] = d
    <3>1. CASE Progressive
      <4>1. draws = <<d, d>>
        BY <3>1
      <4> HIDE DEF draws
      <4> QED BY <4>1, <1>2
    <3>2. CASE ~Progressive
      <4>1. draws = <<d>>
        BY <3>2
      <4> HIDE DEF draws
      <4> QED BY <4>1, <1>2
    <3> QED BY <3>1, <3>2
  <2>2. tail \in Seq(EntrySet) /\ Len(tail) \in 0..1 /\ \A i \in 1..Len(tail) : tail[i] = b
    BY <1>2
  <2> HIDE DEF tail, draws, busy
  <2>3. /\ s \in Seq(EntrySet) /\ Len(s) = Len(draws) + Len(tail)
        /\ \A i \in 1..Len(draws) : s[i] = draws[i]
        /\ \A i \in 1..Len(tail) : s[Len(draws) + i] = tail[i]
    <3>1. s = draws \o tail
      BY DEF tail
    <3> HIDE DEF s
    <3> QED BY <3>1, <2>1, <2>2, Joined
  <2> HIDE DEF s
  <2>4. ASSUME NEW i \in 1..Len(s) PROVE s[i] = IF i <= Len(draws) THEN d ELSE b
    <3>1. CASE i <= Len(draws)
      BY <3>1, <2>1, <2>3
    <3>2. CASE i > Len(draws)
      <4>1. i - Len(draws) \in 1..Len(tail) /\ Len(draws) + (i - Len(draws)) = i
        BY <3>2, <2>1, <2>2, <2>3
      <4>2. s[Len(draws) + (i - Len(draws))] = b
        BY <4>1, <2>2, <2>3
      <4> QED BY <3>2, <4>1, <4>2, <2>1
    <3> QED BY <3>1, <3>2, <2>1
  <2>5. Len(s) \in 1..3 /\ Len(draws) <= Len(s)
    <3>1. \A x \in 1..2 : \A y \in 0..1 : x + y \in 1..3 /\ x <= x + y
      OBVIOUS
    <3>2. Len(draws) + Len(tail) \in 1..3 /\ Len(draws) <= Len(draws) + Len(tail)
      BY <2>1, <2>2, <3>1, Zenon
    <3> QED BY <2>3, <3>2, Zenon
  <2> QED BY <2>1, <2>3, <2>4, <2>5
<1> HIDE DEF s, draws, busy
<1>7. Commands(s, pmode)
  BY <1>3, <1>4, <1>5 DEF Commands
<1>8. DrawsIn(s) = Len(draws)
  <2>1. DrawsOf(d) = 1 /\ DrawsOf(b) = 0
    BY <1>3 DEF DrawsOf
  <2>2. /\ s[1] = d
        /\ Len(s) >= 2 => s[2] = IF 2 <= Len(draws) THEN d ELSE b
        /\ Len(s) >= 3 => s[3] = b
    <3>1. /\ 1 \in 1..Len(s) /\ (Len(s) >= 2 => 2 \in 1..Len(s)) /\ (Len(s) >= 3 => 3 \in 1..Len(s))
          /\ 1 <= Len(draws) /\ ~(3 <= Len(draws))
      <4>1. \A x \in 1..2 : 1 <= x /\ ~(3 <= x)
        OBVIOUS
      <4>2. \A x \in 1..3 : 1 \in 1..x /\ (x >= 2 => 2 \in 1..x) /\ (x >= 3 => 3 \in 1..x)
        OBVIOUS
      <4> QED BY <1>5, <4>1, <4>2, Zenon
    <3> QED BY <3>1, <1>5
  <2>3. Len(draws) = 1 \/ Len(draws) = 2
    BY <1>5
  <2>4. CASE Len(draws) = 1
    BY <2>1, <2>2, <2>4, <1>5 DEF DrawsIn
  <2>5. CASE Len(draws) = 2
    BY <2>1, <2>2, <2>5, <1>5 DEF DrawsIn
  <2> QED BY <2>3, <2>4, <2>5
<1>9. todo = <<>>
  BY <1>4 DEF Control, Phases, Queueing
<1>10. frame = espec
  BY <1>4 DEF Control, Calling
<1>11. line \in 0..Lines - 1 /\ lib \in [0..Lines - 1 -> {0, 1}]
  BY <1>1, <1>4, LineAssumption DEF TypeParts, CallTyped, ScreenTyped
<1>12. lib'[line] = frame /\ \A l \in 0..Lines - 1 : lib'[l] \in {lib[l], frame}
  BY <1>4, <1>11
<1>13. s[Len(s)].mode = pmode /\ s[Len(s)].op # "exit" /\ \A i \in 1..Len(s) : s[i].op # "burst"
  <2>1. Len(s) \in 1..Len(s)
    BY <1>5
  <2>2. \A i \in 1..Len(s) : s[i] = d \/ s[i] = b
    BY <1>5
  <2> QED BY <2>1, <2>2, <1>3
<1>14. \A i \in 1..Len(s) : s[i].op = "draw" => s[i].frame = frame /\ espec = frame /\ lib'[s[i].arg] = frame
  BY <1>3, <1>5, <1>10, <1>12
<1>15. Queues(s)
  BY <1>4, <1>5, <1>7, <1>8, <1>9, <1>12, <1>13, <1>14 DEF Queues
<1> QED BY <1>15

LEMMA CallsQueue ==
  ASSUME TypeOK, Control, SomeHistory,
         \/ Write \/ Reset \/ Kill \/ (AwaitOver /\ goal = "draws") \/ DrawLine
         \/ \E n \in 1..MaxBurst : BeginBurst(n)
         \/ thread /\ \E m \in Modes : SetDeinterlaceMode(m)
  PROVE  SomeHistory'
<1>1. TypeParts /\ frame \in {0, 1} /\ pmode \in Modes
  BY TypesAreParts DEF TypeParts, ScreenTyped
<1>2. /\ 0 \in 0..Lines /\ 0 \in 0..MaxBurst
      /\ \A op \in Ops : Command(op, 0, 0) \in EntrySet /\ Command(op, 0, 0).op = op
      /\ \A op \in Ops : Command(op, 0, 0).mode = pmode
  <2>1. 0 \in 0..Lines /\ 0 \in 0..MaxBurst
    BY Sizes, LineAssumption
  <2> QED BY <1>1, <2>1, CommandTyped DEF Command
<1>3. ppc \in {"idle", "await"} => todo = <<>>
  BY DEF Control, Phases, Queueing
<1>4. (\E s : Queues(s)) /\ cpc # "off"
  <2>1. CASE Write
    <3>1. Queues(<<Plain("write")>>)
      <4> DEFINE e == Plain("write")
      <4>1. e \in EntrySet /\ e.op = "write" /\ e.mode = pmode
        BY <1>2 DEF Plain, Ops
      <4>2. /\ ppc \in {"idle", "await"} /\ todo' = <<e>> /\ pmode' = pmode /\ ppc' = "push" /\ then' = "idle"
            /\ UNCHANGED <<popCached, burstCached, frame, espec, lib>> /\ UNCHANGED <<ring, words, popped, consumer>>
        BY <2>1 DEF Write, Ready, Queue, screen
      <4> HIDE DEF e
      <4>3. Queues(<<e>>)
        BY <4>1, <4>2, <1>1, <1>3, QueueOne
      <4> QED BY <4>3 DEF e
    <3> QED BY <2>1, <3>1 DEF Write, Control, Phases
  <2>2. CASE Reset
    <3>1. Queues(<<Plain("reset")>>)
      <4> DEFINE e == Plain("reset")
      <4>1. e \in EntrySet /\ e.op = "reset" /\ e.mode = pmode
        BY <1>2 DEF Plain, Ops
      <4>2. /\ ppc \in {"idle", "await"} /\ todo' = <<e>> /\ pmode' = pmode /\ ppc' = "push" /\ then' = "idle"
            /\ UNCHANGED <<popCached, burstCached, frame, espec, lib>> /\ UNCHANGED <<ring, words, popped, consumer>>
        BY <2>2 DEF Reset, Ready, Queue, screen
      <4> HIDE DEF e
      <4>3. Queues(<<e>>)
        BY <4>1, <4>2, <1>1, <1>3, QueueOne
      <4> QED BY <4>3 DEF e
    <3> QED BY <2>2, <3>1 DEF Reset, Control, Phases
  <2>3. CASE Kill
    <3>1. Queues(<<Plain("exit")>>)
      <4> DEFINE e == Plain("exit")
      <4>1. e \in EntrySet /\ e.op = "exit" /\ e.mode = pmode
        BY <1>2 DEF Plain, Ops
      <4>2. /\ ppc \in {"idle", "await"} /\ todo' = <<e>> /\ pmode' = pmode /\ ppc' = "push" /\ then' = "stop"
            /\ UNCHANGED <<popCached, burstCached, frame, espec, lib>> /\ UNCHANGED <<ring, words, popped, consumer>>
        BY <2>3 DEF Kill, Ready, Queue, screen
      <4> HIDE DEF e
      <4>3. Queues(<<e>>)
        BY <4>1, <4>2, <1>1, <1>3, QueueOne
      <4> QED BY <4>3 DEF e
    <3> QED BY <2>3, <3>1 DEF Kill, Control, Phases
  <2>4. CASE AwaitOver /\ goal = "draws"
    <3>1. Queues(<<Command("busywait", 0, 0)>>)
      <4> DEFINE e == Command("busywait", 0, 0)
      <4>1. e \in EntrySet /\ e.op = "busywait" /\ e.mode = pmode
        BY <1>2 DEF Ops
      <4>2. /\ ppc \in {"idle", "await"} /\ todo' = <<e>> /\ pmode' = pmode /\ ppc' = "push" /\ then' = "frameDone"
            /\ UNCHANGED <<popCached, burstCached, frame, espec, lib>> /\ UNCHANGED <<ring, words, popped, consumer>>
        BY <2>4 DEF AwaitOver, Queue, screen
      <4> HIDE DEF e
      <4>3. Queues(<<e>>)
        BY <4>1, <4>2, <1>1, <1>3, QueueOne
      <4> QED BY <4>3 DEF e
    <3> QED BY <2>4, <3>1 DEF AwaitOver, Control, Phases
  <2>5. CASE DrawLine
    <3>1. \E s : Queues(s)
      BY <2>5, LinesQueued
    <3> QED BY <2>5, <3>1 DEF DrawLine, Control, Phases
  <2>6. CASE \E n \in 1..MaxBurst : BeginBurst(n)
    <3>1. PICK n \in 1..MaxBurst : BeginBurst(n)
      BY <2>6
    <3> DEFINE e == Command("burst", 0, n)
    <3>2. e \in EntrySet /\ e.op = "burst" /\ e.mode = pmode
      <4>1. n \in 0..MaxBurst /\ "burst" \in Ops
        BY Sizes DEF Ops
      <4> QED BY <1>1, <1>2, <4>1, CommandTyped DEF Command
    <3>3. /\ ppc \in {"idle", "await"} /\ todo' = <<e>> /\ pmode' = pmode /\ ppc' = "burst" /\ then' = "idle"
          /\ UNCHANGED <<popCached, burstCached, frame, espec, lib>> /\ UNCHANGED <<ring, words, popped, consumer>>
      BY <3>1 DEF BeginBurst, Ready, screen
    <3> HIDE DEF e
    <3>4. Queues(<<e>>)
      BY <3>2, <3>3, <1>1, <1>3, QueueOne
    <3> QED BY <3>1, <3>4 DEF BeginBurst, Control, Phases
  <2>7. CASE thread /\ \E m \in Modes : SetDeinterlaceMode(m)
    <3>1. PICK m \in Modes : SetDeinterlaceMode(m)
      BY <2>7
    <3> DEFINE e == [Plain("mode") EXCEPT !.mode = m]
    <3>2. e \in EntrySet /\ e.op = "mode" /\ e.mode = m
      <4>1. Command("mode", 0, 0) \in EntrySet /\ Command("mode", 0, 0).op = "mode"
        BY <1>2 DEF Ops
      <4> QED BY <4>1 DEF Plain, EntrySet
    <3>3. /\ ppc \in {"idle", "await"} /\ todo' = <<e>> /\ pmode' = m /\ ppc' = "push" /\ then' = "idle"
          /\ UNCHANGED <<popCached, burstCached, frame, espec, lib>> /\ UNCHANGED <<ring, words, popped, consumer>>
      BY <2>7, <3>1 DEF SetDeinterlaceMode, SetDirectly, Ready, Queue, consumer
    <3> HIDE DEF e
    <3>4. Queues(<<e>>)
      BY <3>2, <3>3, <1>1, <1>3, QueueOne
    <3> QED BY <2>7, <3>4 DEF Control, Phases
  <2> QED BY <2>1, <2>2, <2>3, <2>4, <2>5, <2>6, <2>7
<1> QED BY <1>4, QueueStep

-----------------------------------------------------------------------------
(* What else the emulation thread does. *)

\* A thread that starts has an empty history.
LEMMA EmptyStream ==
  ASSUME NEW m \in Modes
  PROVE  \E E, B, M : Stream(0, 0, E, B, B, M) /\ B[0] = 0 /\ M[0] = m
<1> DEFINE E == [j \in Nat |-> Empty]
           B == [j \in Nat |-> 0]
           M == [j \in Nat |-> m]
<1>1. Typed(E, B, B, M)
  BY EmptyEntry DEF Typed
<1>2. B[0] = 0 /\ M[0] = m
  OBVIOUS
<1> HIDE DEF E, B, M
<1>3. \A j \in 0..0 - 1 : FALSE
  OBVIOUS
<1>4. \A i \in 0..0 : \A j \in i..0 : i = 0 /\ j = 0
  OBVIOUS
<1>5. Stream(0, 0, E, B, B, M)
  BY <1>1, <1>2, <1>3, <1>4 DEF Stream
<1> QED BY <1>2, <1>5

LEMMA InitHistory ==
  ASSUME Init
  PROVE  SomeHistory
<1>2. PICK E, B, M : Stream(0, 0, E, B, B, M) /\ B[0] = 0 /\ M[0] = "normal"
  BY EmptyStream DEF Modes
<1>3. 0 % CounterMod = 0
  BY Sizes, SmallRemainder
<1>4. /\ cmode = "normal" /\ pmode = "normal" /\ todo = <<>> /\ ppc = "idle" /\ cpc = "off"
      /\ pushCount = 0 /\ popCount = 0 /\ popCached = 0 /\ drawPush = 0 /\ drawFinish = 0
      /\ burstWrite = 0 /\ burstPop = 0 /\ burstCached = 0
  BY DEF Init
<1>5. Cursors(0, 0, 0) /\ Ring(0, 0, E) /\ Pending(0, 0, E)
  <2>1. Cursors(0, 0, 0)
    BY <1>3, <1>4, Sizes DEF Cursors
  <2>2. Ring(0, 0, E)
    BY <1>4 DEF Ring
  <2>3. Len(todo) = 0
    BY <1>4
  <2>4. Pending(0, 0, E)
    BY <2>3 DEF Pending
  <2> QED BY <2>1, <2>2, <2>4
<1>6. ~Drew /\ ~Ran /\ ~Holding /\ ~Gone /\ ~Leaving /\ cpc # "pop"
  BY <1>4 DEF Drew, Ran, Holding, Gone, Leaving
<1>7. DrawCounts(0, 0, 0, B)
  BY <1>2, <1>3, <1>4, <1>6 DEF DrawCounts, Finished
<1>8. WordsIn(0, 0, B) = 0 /\ WordsRead(0, B) = 0
  BY <1>2, <1>6 DEF WordsIn, WordsRead
<1>9. WordCounts(0, 0, 0, 0, B)
  BY <1>3, <1>4, <1>8, Sizes DEF WordCounts
<1>10. Cells(0, 0, 0, B)
  <2>1. \A k \in 0..0 - 1 : FALSE
    OBVIOUS
  <2> QED BY <1>8, <2>1 DEF Cells
<1>11. ModeEnds(0, 0, M) /\ Frames(0, 0, E) /\ InHand(0, 0, E) /\ Exits(0, 0, E)
  <2>1. \A j \in 0..0 - 1 : FALSE
    OBVIOUS
  <2> QED BY <1>2, <1>4, <1>6, <2>1 DEF ModeEnds, Frames, InHand, Exits
<1>12. History(0, 0, 0, 0, 0, E, B, B, M)
  BY <1>2, <1>5, <1>7, <1>9, <1>10, <1>11 DEF History
<1> QED BY <1>12 DEF SomeHistory

LEMMA StartHistory ==
  ASSUME TypeOK, Control, SomeHistory, StartThread
  PROVE  SomeHistory'
<1>a. PICK P \in Nat, C \in Nat, T \in Nat, K \in Nat, L \in Nat : \E E, B, D, M : History(P, C, T, K, L, E, B, D, M)
  BY DEF SomeHistory
<1>b. pmode = cmode
  <2>1. PICK E, B, D, M : History(P, C, T, K, L, E, B, D, M)
    BY <1>a
  <2>2. cpc = "off"
    BY DEF StartThread, Control, Phases
  <2> QED BY <2>1, <2>2 DEF History, Exits, ModeEnds, Ran
<1>1. cmode \in Modes
  BY TypesAreParts DEF TypeParts, ConsumerTyped
<1>2. PICK E, B, M : Stream(0, 0, E, B, B, M) /\ B[0] = 0 /\ M[0] = cmode
  BY <1>1, EmptyStream
<1>3. 0 % CounterMod = 0
  BY Sizes, SmallRemainder
<1>4. /\ cmode' = cmode /\ pmode' = cmode /\ todo' = <<>> /\ ppc' = "idle" /\ cpc' = "check"
      /\ pushCount' = 0 /\ popCount' = 0 /\ popCached' = 0 /\ drawPush' = 0 /\ drawFinish' = 0
      /\ burstWrite' = 0 /\ burstPop' = 0 /\ burstCached' = 0
  BY <1>b DEF StartThread, screen, Control, Phases, Queueing
<1>5. Cursors(0, 0, 0)' /\ Ring(0, 0, E)' /\ Pending(0, 0, E)'
  <2>1. Cursors(0, 0, 0)'
    BY <1>3, <1>4, Sizes DEF Cursors
  <2>2. Ring(0, 0, E)'
    BY <1>4 DEF Ring
  <2>3. Len(todo') = 0
    BY <1>4
  <2>4. Pending(0, 0, E)'
    BY <2>3 DEF Pending
  <2> QED BY <2>1, <2>2, <2>4
<1>6. ~Drew' /\ ~Ran' /\ ~Holding' /\ ~Gone' /\ ~Leaving' /\ cpc' # "pop"
  BY <1>4 DEF Drew, Ran, Holding, Gone, Leaving
<1>7. DrawCounts(0, 0, 0, B)'
  BY <1>2, <1>3, <1>4, <1>6 DEF DrawCounts, Finished
<1>8. WordsIn(0, 0, B)' = 0 /\ WordsRead(0, B)' = 0
  BY <1>2, <1>6 DEF WordsIn, WordsRead
<1>9. WordCounts(0, 0, 0, 0, B)'
  BY <1>3, <1>4, <1>8, Sizes DEF WordCounts
<1>10. Cells(0, 0, 0, B)'
  <2>1. \A k \in 0..0 - 1 : FALSE
    OBVIOUS
  <2> QED BY <1>8, <2>1 DEF Cells
<1>11. ModeEnds(0, 0, M)' /\ Frames(0, 0, E)' /\ InHand(0, 0, E)' /\ Exits(0, 0, E)'
  <2>1. \A j \in 0..0 - 1 : FALSE
    OBVIOUS
  <2> QED BY <1>2, <1>4, <1>6, <2>1 DEF ModeEnds, Frames, InHand, Exits
<1>12. Stream(0, 0, E, B, B, M)'
  BY <1>2, KeepStream
<1>13. History(0, 0, 0, 0, 0, E, B, B, M)'
  BY <1>5, <1>7, <1>9, <1>10, <1>11, <1>12 DEF History
<1> QED BY <1>13, HistoryMade

\* With no thread the mode is changed at both ends.
LEMMA ModeHistory ==
  ASSUME TypeOK, Control, SomeHistory, NEW m \in Modes, SetDeinterlaceMode(m), ~thread
  PROVE  SomeHistory'
<1>1. PICK P \in Nat, C \in Nat, T \in Nat, K \in Nat, L \in Nat : \E E, B, D, M : History(P, C, T, K, L, E, B, D, M)
  BY DEF SomeHistory
<1>2. PICK E, B, D, M : History(P, C, T, K, L, E, B, D, M)
  BY <1>1
<1> DEFINE M1 == [M EXCEPT ![C] = m]
<1>3. cpc = "off" /\ todo = <<>> /\ ppc = "idle"
  BY DEF SetDeinterlaceMode, Ready, Control, Phases, Queueing
<1>4. C = T
  BY <1>2, <1>3 DEF History, Exits
<1>5. /\ pmode' = m /\ cmode' = m /\ UNCHANGED <<ppc, todo, then, popCached, burstCached, espec, frame, lib>>
      /\ UNCHANGED <<wq, pushCount, drawPush, burst, burstWrite, popCount, drawFinish, burstPop, cpc, running, word>>
      /\ UNCHANGED goal
  BY DEF SetDeinterlaceMode, SetDirectly, ring, words, popped
<1>6. Typed(E, B, D, M)
  BY <1>2 DEF History, Stream
<1>7. Typed(E, B, D, M1) /\ M1[C] = m
  BY <1>6 DEF Typed
<1> HIDE DEF M1
<1>8. Stream(C, T, E, B, D, M1)
  <2>1. \A j \in C..T - 1 : FALSE
    BY <1>4
  <2>2. \A i \in C..T : \A j \in i..T : B[i] <= B[j] /\ D[i] <= D[j] /\ D[j] <= D[i] + (j - i)
    BY <1>2 DEF History, Stream
  <2> QED BY <1>4, <1>7, <2>1, <2>2 DEF Stream
<1>9. (Uncopied' <=> Uncopied) /\ (Leaving' <=> Leaving) /\ (Drew' <=> Drew) /\ (Gone' <=> Gone) /\ ~Ran'
  BY <1>3, <1>5 DEF Uncopied, Leaving, Drew, Gone, Ran
<1>10. /\ Stream(C, T, E, B, D, M1)' /\ Cursors(P, C, K)' /\ Ring(P, C, E)' /\ Pending(P, T, E)'
  BY <1>2, <1>3, <1>5, <1>8, KeepStream, KeepCursors, KeepRing, KeepPending DEF History
<1>11. DrawCounts(P, C, T, D)' /\ WordCounts(P, C, T, L, B)' /\ Cells(P, C, T, B)'
  BY <1>2, <1>5, <1>9, KeepDrawCounts, KeepWordCounts, KeepCells DEF History
<1>12. ModeEnds(C, T, M1)'
  BY <1>4, <1>5, <1>7, <1>9 DEF ModeEnds
<1>13. Frames(C, T, E)' /\ Exits(C, T, E)'
  BY <1>2, <1>5, <1>9, KeepFrames, KeepExits DEF History
<1>14. InHand(P, C, E)'
  BY <1>3, <1>5 DEF InHand, Holding
<1> QED BY <1>10, <1>11, <1>12, <1>13, <1>14, HistoryMade DEF History

\* No line is owed when a frame is begun or ended.
LEMMA FrameHistory ==
  ASSUME TypeOK, Control, SomeHistory, FrameDone \/ \E double \in BOOLEAN : StartFrame(double)
  PROVE  SomeHistory'
<1>1. PICK P \in Nat, C \in Nat, T \in Nat, K \in Nat, L \in Nat : \E E, B, D, M : History(P, C, T, K, L, E, B, D, M)
  BY DEF SomeHistory
<1>2. PICK E, B, D, M : History(P, C, T, K, L, E, B, D, M)
  BY <1>1
<1>3. /\ UNCHANGED <<todo, then, popCached, burstCached, ring, words, popped, consumer, pmode, lib>>
      /\ ppc \in {"idle", "frameDone"} /\ ppc' = "idle"
  BY DEF FrameDone, StartFrame, Ready
<1>4. \A j \in (IF Drew THEN C + 1 ELSE C)..T - 1 : E[j].op # "draw"
  <2>1. CASE FrameDone
    <3>1. drawPush = drawFinish
      BY <2>1 DEF FrameDone, Control, Settled
    <3> QED BY <1>2, <3>1, NothingToDraw
  <2>2. CASE \E double \in BOOLEAN : StartFrame(double)
    <3>1. espec = NoFrame /\ frame \in {0, 1}
      BY <2>2, TypesAreParts DEF StartFrame, TypeParts, ScreenTyped
    <3> QED BY <1>2, <3>1 DEF History, Frames, NoFrame
  <2> QED BY <2>1, <2>2
<1>5. /\ UNCHANGED <<wq, pushCount, drawPush, burst, burstWrite, popCount, drawFinish, burstPop>>
      /\ ~Uncopied /\ ~Uncopied' /\ (Leaving' <=> Leaving)
  BY <1>3 DEF ring, words, popped, Uncopied, Leaving
<1>6. /\ Stream(C, T, E, B, D, M)' /\ Cursors(P, C, K)' /\ Ring(P, C, E)' /\ Pending(P, T, E)'
  BY <1>2, <1>3, <1>5, KeepStream, KeepCursors, KeepRing, KeepPending DEF History
<1>7. DrawCounts(P, C, T, D)' /\ WordCounts(P, C, T, L, B)' /\ Cells(P, C, T, B)'
  BY <1>2, <1>3, <1>5, ProducerOnly, KeepDrawCounts, KeepWordCounts, KeepCells DEF History
<1>8. Frames(C, T, E)'
  BY <1>3, <1>4, ProducerOnly DEF Frames
<1>9. ModeEnds(C, T, M)' /\ InHand(P, C, E)'
  BY <1>2, <1>3, ProducerOnly, KeepModeEnds, KeepInHand DEF History
<1>10. Exits(C, T, E)'
  BY <1>2, <1>3, <1>5, ProducerOnly, KeepExits DEF History
<1> QED BY <1>6, <1>7, <1>8, <1>9, <1>10, HistoryMade DEF History

LEMMA RefreshHistory ==
  ASSUME TypeOK, Control, SomeHistory, Refresh
  PROVE  SomeHistory'
<1>1. PICK P \in Nat, C \in Nat, T \in Nat, K \in Nat, L \in Nat : \E E, B, D, M : History(P, C, T, K, L, E, B, D, M)
  BY DEF SomeHistory
<1>2. PICK E, B, D, M : History(P, C, T, K, L, E, B, D, M)
  BY <1>1
<1>3. /\ UNCHANGED <<todo, then, goal, screen, ring, words, popped, consumer>>
      /\ ppc = "refresh" /\ ppc' \in {"park", "push", "burst"} /\ goal \in {"space", "words"}
      /\ goal = "space" => popCached' = popCount /\ burstCached' = burstCached /\ ppc' # "burst"
      /\ goal = "words" => burstCached' = burstPop /\ popCached' = popCached /\ ppc' # "push"
  BY DEF Refresh, Control, Phases
<1>4. /\ UNCHANGED <<pmode, espec, frame, lib, wq, pushCount, drawPush, burst, burstWrite, popCount, drawFinish, burstPop>>
      /\ (Uncopied' <=> Uncopied) /\ (Leaving' <=> Leaving)
  BY <1>3 DEF screen, ring, words, popped, Uncopied, Leaving
<1>5. Stream(C, T, E, B, D, M)' /\ Ring(P, C, E)' /\ Pending(P, T, E)'
  BY <1>2, <1>3, <1>4, KeepStream, KeepRing, KeepPending DEF History
<1>6. DrawCounts(P, C, T, D)' /\ Cells(P, C, T, B)' /\ ModeEnds(C, T, M)' /\ Frames(C, T, E)'
  BY <1>2, <1>3, <1>4, ProducerOnly, KeepDrawCounts, KeepCells, KeepModeEnds, KeepFrames DEF History
<1>7. InHand(P, C, E)' /\ Exits(C, T, E)'
  BY <1>2, <1>3, <1>4, ProducerOnly, KeepInHand, KeepExits DEF History
<1>8. CASE goal = "space"
  <2>1. Cursors(P, C, C)'
    <3>1. Cursors(P, C, K)
      BY <1>2 DEF History
    <3> QED BY <1>3, <1>4, <1>8, <3>1, Sizes DEF Cursors
  <2>2. WordCounts(P, C, T, L, B)'
    BY <1>2, <1>3, <1>4, <1>8, ProducerOnly, KeepWordCounts DEF History
  <2>3. History(P, C, T, C, L, E, B, D, M)'
    BY <1>5, <1>6, <1>7, <2>1, <2>2 DEF History
  <2> QED BY <2>3, HistoryMade
<1>9. CASE goal = "words"
  <2>1. Cursors(P, C, K)'
    BY <1>2, <1>3, <1>4, <1>9, KeepCursors DEF History
  <2>2. PICK L1 : L1 = WordsRead(C, B)
    OBVIOUS
  <2>3. L1 \in Nat /\ WordsIn(P, T, B) \in Nat
    BY <1>2, <2>2 DEF WordsRead, WordsIn, History, Stream, Typed
  <2>4. WordsRead(C, B)' = L1 /\ WordsIn(P, T, B)' = WordsIn(P, T, B)
    BY <1>3, <1>4, <2>2, ProducerOnly DEF WordsRead, WordsIn
  <2>5. WordCounts(P, C, T, L, B)
    BY <1>2 DEF History
  <2>6. WordCounts(P, C, T, L1, B)'
    BY <1>3, <1>4, <1>9, <2>2, <2>3, <2>4, <2>5, Sizes DEF WordCounts
  <2>7. History(P, C, T, K, L1, E, B, D, M)'
    BY <1>5, <1>6, <1>7, <2>1, <2>6 DEF History
  <2> QED BY <2>3, <2>7, HistoryMade
<1> QED BY <1>3, <1>8, <1>9

LEMMA JoinHistory ==
  ASSUME TypeOK, Control, SomeHistory, Join
  PROVE  SomeHistory'
<1>1. PICK P \in Nat, C \in Nat, T \in Nat, K \in Nat, L \in Nat : \E E, B, D, M : History(P, C, T, K, L, E, B, D, M)
  BY DEF SomeHistory
<1>2. PICK E, B, D, M : History(P, C, T, K, L, E, B, D, M)
  BY <1>1
<1>3. /\ UNCHANGED <<goal, todo, then, popCached, burstCached, screen, ring, words, popped, running, word, cmode>>
      /\ ppc = "join" /\ ppc' = "idle" /\ cpc = "ended" /\ cpc' = "off"
  BY DEF Join
<1>4. /\ UNCHANGED <<pmode, espec, frame, lib, wq, pushCount, drawPush, burst, burstWrite, popCount, drawFinish, burstPop>>
      /\ ~Uncopied /\ ~Uncopied' /\ ~Leaving' /\ Gone /\ ~Gone' /\ ~Drew /\ ~Drew' /\ ~Ran /\ ~Ran' /\ ~Holding'
  BY <1>3 DEF screen, ring, words, popped, Uncopied, Leaving, Gone, Drew, Ran, Holding, Control, Phases, Queueing
<1>5. C = T
  BY <1>2, <1>4 DEF History, Exits
<1>6. Stream(C, T, E, B, D, M)' /\ Cursors(P, C, K)' /\ Ring(P, C, E)' /\ Pending(P, T, E)'
  BY <1>2, <1>3, <1>4, KeepStream, KeepCursors, KeepRing, KeepPending DEF History
<1>7. DrawCounts(P, C, T, D)' /\ WordCounts(P, C, T, L, B)' /\ Cells(P, C, T, B)'
  BY <1>2, <1>3, <1>4, KeepDrawCounts, KeepWordCounts, KeepCells DEF History
<1>8. ModeEnds(C, T, M)' /\ Frames(C, T, E)'
  BY <1>2, <1>3, <1>4, KeepModeEnds, KeepFrames DEF History
<1>9. InHand(P, C, E)'
  BY <1>3, <1>4 DEF InHand
<1>10. Exits(C, T, E)'
  <2>1. \A j \in C..T - 1 : FALSE
    BY <1>5
  <2> QED BY <1>4, <1>5, <2>1 DEF Exits
<1> QED BY <1>6, <1>7, <1>8, <1>9, <1>10, HistoryMade DEF History

-----------------------------------------------------------------------------
(* The emulation thread fills the rings. *)

\* The cell of the word i places on is that of the counter i places on.
LEMMA CellFrom ==
  ASSUME NEW a \in Nat, NEW i \in Nat
  PROVE  ((a % CounterMod) + i) % BurstSize = (a + i) % BurstSize
<1> DEFINE r == a % CounterMod
           k == a \div CounterMod
           n == CounterMod \div BurstSize
<1>1. /\ r \in 0..CounterMod - 1 /\ k \in Int /\ a = CounterMod * k + r
      /\ n \in Int /\ CounterMod = BurstSize * n + (CounterMod % BurstSize)
      /\ CounterMod \in Nat \ {0} /\ BurstSize \in Nat \ {0}
  BY Sizes, Division
<1>2. CounterMod = BurstSize * n
  BY <1>1, Sizes
<1> DEFINE j == n * k
<1> HIDE DEF r, k, n
<1>3. a = r + BurstSize * j /\ j \in Int /\ r \in Nat
  BY <1>1, <1>2
<1> HIDE DEF j
<1>4. a + i = (r + i) + BurstSize * j /\ r + i \in Nat /\ a + i \in Nat
  <2> DEFINE q == BurstSize * j
  <2>1. a = r + q /\ q \in Int
    BY <1>1, <1>3
  <2> HIDE DEF q
  <2>2. a + i = (r + i) + q /\ r + i \in Nat /\ a + i \in Nat
    BY <2>1, <1>3
  <2> QED BY <2>2 DEF q
<1>5. (a + i) % BurstSize = (r + i) % BurstSize
  <2>1. BurstSize \in Nat \ {0} /\ j \in Int /\ a + i = (r + i) + BurstSize * j /\ r + i \in Nat /\ a + i \in Nat
    BY <1>1, <1>3, <1>4
  <2> QED BY ONLY <2>1, SameRemainder
<1> QED BY <1>5 DEF r

Copies(n) ==
  burst' = [c \in 0..BurstSize - 1 |->
    LET i == CHOOSE j \in 0..BurstSize - 1 : (burstWrite + j) % BurstSize = c
    IN IF i < n THEN Plus(burstWrite, i) ELSE burst[c]]

\* The n words that CopyWords puts in follow those that are in the ring.
LEMMA WordsCopied ==
  ASSUME NEW w \in Nat, NEW b \in Nat, NEW n \in Nat, NEW l \in Nat, burstWrite = w % CounterMod,
         l <= w, w + n <= l + BurstSize, b >= l, n <= BurstSize,
         \A k \in b..w - 1 : burst[k % BurstSize] = k % CounterMod, Copies(n)
  PROVE  \A k \in b..w + n - 1 : burst'[k % BurstSize] = k % CounterMod
<1> SUFFICES ASSUME NEW k \in b..w + n - 1 PROVE burst'[k % BurstSize] = k % CounterMod
  OBVIOUS
<1> DEFINE c == k % BurstSize
           i == CHOOSE j \in 0..BurstSize - 1 : (burstWrite + j) % BurstSize = c
<1>1. k \in Nat /\ BurstSize \in Nat \ {0} /\ CounterMod \in Nat \ {0}
  BY Sizes
<1>2. c \in 0..BurstSize - 1
  BY <1>1, Division
<1>3. burst'[c] = IF i < n THEN Plus(burstWrite, i) ELSE burst[c]
  BY <1>2 DEF Copies
<1>4. burstWrite \in Nat
  BY <1>1, Division
<1> HIDE DEF c
<1>5. i \in 0..BurstSize - 1 /\ (burstWrite + i) % BurstSize = c
  BY <1>2, <1>4, FindCell
<1> HIDE DEF i
<1>6. i \in Nat /\ w + i \in Nat /\ (w + i) % BurstSize = k % BurstSize
  <2>1. i \in Nat /\ w + i \in Nat
    BY <1>5
  <2>2. (burstWrite + i) % BurstSize = (w + i) % BurstSize
    BY <2>1, CellFrom
  <2> QED BY <2>1, <2>2, <1>5 DEF c
<1>7. CASE k < w
  <2>1. ~(i < n)
    <3> SUFFICES ASSUME i < n PROVE FALSE
      OBVIOUS
    <3>1. k < w + i /\ (w + i) - k < BurstSize
      BY <1>1, <1>6, <1>7
    <3> QED BY <3>1, <1>1, <1>6, RemaindersDiffer
  <2>2. burst[c] = k % CounterMod
    <3>1. k \in b..w - 1
      BY <1>1, <1>7
    <3>2. burst[k % BurstSize] = k % CounterMod
      BY <3>1
    <3> QED BY <3>2 DEF c
  <2> QED BY <2>1, <2>2, <1>3 DEF c
<1>8. CASE k >= w
  <2> DEFINE d == k - w
  <2>1. d \in Nat /\ d < n /\ k = w + d
    BY <1>1, <1>8
  <2> HIDE DEF d
  <2>2. i = d
    <3>1. ~(i < d)
      <4> SUFFICES ASSUME i < d PROVE FALSE
        OBVIOUS
      <4>1. w + i < k /\ k - (w + i) < BurstSize
        BY <1>1, <1>6, <2>1
      <4> QED BY <4>1, <1>1, <1>6, RemaindersDiffer
    <3>2. ~(d < i)
      <4> SUFFICES ASSUME d < i PROVE FALSE
        OBVIOUS
      <4>1. k < w + i /\ (w + i) - k < BurstSize
        BY <1>1, <1>5, <1>6, <2>1
      <4> QED BY <4>1, <1>1, <1>6, RemaindersDiffer
    <3> QED BY <3>1, <3>2, <2>1, <1>6
  <2>3. Plus(burstWrite, i) = (w + i) % CounterMod
    BY <1>6, Counted
  <2> QED BY <2>1, <2>2, <2>3, <1>3 DEF c
<1> QED BY <1>1, <1>7, <1>8

LEMMA CopyHistory ==
  ASSUME TypeOK, Control, SomeHistory, CopyWords
  PROVE  SomeHistory'
<1>1. PICK P \in Nat, C \in Nat, T \in Nat, K \in Nat, L \in Nat : \E E, B, D, M : History(P, C, T, K, L, E, B, D, M)
  BY DEF SomeHistory
<1>2. PICK E, B, D, M : History(P, C, T, K, L, E, B, D, M)
  BY <1>1
<1> DEFINE n == todo[1].n
           b == WordsRead(C, B)
           w == B[P]
<1>3. /\ UNCHANGED <<todo, then, popCached, burstCached, screen, ring, popped, consumer>>
      /\ ppc = "burst" /\ ppc' = "push" /\ ~WordsFull(n) /\ burstWrite' = Plus(burstWrite, n)
      /\ Copies(n)
  BY DEF CopyWords, Copies
<1>4. /\ UNCHANGED <<pmode, espec, frame, lib, wq, pushCount, drawPush, popCount, drawFinish, burstPop>>
      /\ Uncopied /\ ~Uncopied' /\ (Leaving' <=> Leaving)
  BY <1>3 DEF screen, ring, popped, Uncopied, Leaving
<1>5. Len(todo) = 1 /\ todo[1].op = "burst" /\ todo \in Seq(EntrySet)
  BY <1>4 DEF Control, Calling, TypeOK
<1>6. todo[1] \in EntrySet /\ n \in 0..MaxBurst /\ n \in Nat /\ n <= BurstSize
  <2>1. todo[1] \in EntrySet
    <3>1. Len(todo) = 1
      BY <1>5
    <3>2. todo \in Seq(EntrySet)
      BY <1>5
    <3> QED BY <3>1, <3>2
  <2> QED BY <2>1, Sizes DEF EntrySet
<1>7. T = P + 1 /\ E[P].op = "burst" /\ E[P].n = n /\ C <= P
  <2>1. T = P + 1 /\ E[P + 1 - 1] = [todo[1] EXCEPT !.seq = (P + 1 - 1) % CounterMod]
    BY <1>2, <1>5 DEF History, Pending
  <2>2. E[P] = [todo[1] EXCEPT !.seq = P % CounterMod]
    BY <2>1
  <2>3. C <= P
    BY <1>2 DEF History, Cursors
  <2> QED BY <2>1, <2>2, <2>3, <1>5, <1>6 DEF EntrySet
<1>8. B[T] = w + n /\ w \in Nat /\ b \in Nat /\ b <= w
  <2>1. P \in C..T - 1 /\ P + 1 = T /\ P \in C..T /\ C \in C..T /\ (cpc = "pop" => C + 1 \in C..T /\ P \in C + 1..T)
    BY <1>2, <1>7 DEF History, InHand, Holding
  <2>2. Links(P, E, B, D, M) /\ B[C] <= B[P] /\ (cpc = "pop" => B[C + 1] <= B[P])
    BY <1>2, <2>1, <1>7 DEF History, Stream
  <2>3. B \in [Nat -> Nat]
    BY <1>2 DEF History, Stream, Typed
  <2>4. b \in Nat /\ w \in Nat
    BY <2>3 DEF WordsRead
  <2> QED BY <2>1, <2>2, <2>4, <1>7 DEF WordsRead, Links, WordsOf
<1> HIDE DEF n, b, w
<1>9. /\ burstWrite = w % CounterMod /\ burstPop = b % CounterMod /\ burstCached = L % CounterMod
      /\ L <= b /\ w <= L + BurstSize
  BY <1>2, <1>4 DEF History, WordCounts, WordsIn, b, w
<1>10. w + n <= L + BurstSize
  <2>1. L <= w /\ w - L < CounterMod
    BY <1>8, <1>9, Sizes
  <2>2. Minus(burstWrite, burstCached) = w - L
    BY <2>1, <1>8, <1>9, Distance
  <2>3. ~(w - L > BurstSize - n)
    BY <2>2, <1>3 DEF WordsFull
  <2> QED BY <2>3, <1>6, <1>8, Sizes
<1>11. WordsIn(P, T, B)' = w + n /\ WordsRead(C, B)' = b
  BY <1>3, <1>4, <1>8, ProducerOnly DEF WordsIn, WordsRead, b
<1>12. WordCounts(P, C, T, L, B)'
  <2>1. Plus(burstWrite, n) = (w + n) % CounterMod
    BY <1>6, <1>8, <1>9, Counted
  <2> QED BY <2>1, <1>3, <1>4, <1>9, <1>10, <1>11 DEF WordCounts
<1>13. Cells(P, C, T, B)'
  <2>1. \A k \in b..w - 1 : burst[k % BurstSize] = k % CounterMod
    BY <1>2, <1>4 DEF History, Cells, WordsIn, b, w
  <2>2. L <= w /\ b >= L
    BY <1>8, <1>9
  <2>3. \A k \in b..w + n - 1 : burst'[k % BurstSize] = k % CounterMod
    <3>1. /\ n \in Nat /\ w \in Nat /\ b \in Nat /\ burstWrite = w % CounterMod
          /\ L <= w /\ w + n <= L + BurstSize /\ b >= L /\ n <= BurstSize /\ Copies(n)
      BY <2>2, <1>3, <1>6, <1>8, <1>9, <1>10
    <3> QED BY ONLY <2>1, <3>1, L \in Nat, WordsCopied
  <2>4. WordsRead(C, B)'..WordsIn(P, T, B)' - 1 = b..w + n - 1
    BY <1>6, <1>8, <1>11
  <2> QED BY <2>3, <2>4 DEF Cells
<1>14. Stream(C, T, E, B, D, M)' /\ Cursors(P, C, K)' /\ Ring(P, C, E)' /\ Pending(P, T, E)'
  BY <1>2, <1>3, <1>4, KeepStream, KeepCursors, KeepRing, KeepPending DEF History
<1>15. DrawCounts(P, C, T, D)' /\ ModeEnds(C, T, M)' /\ Frames(C, T, E)'
  BY <1>2, <1>3, <1>4, ProducerOnly, KeepDrawCounts, KeepModeEnds, KeepFrames DEF History
<1>16. InHand(P, C, E)' /\ Exits(C, T, E)'
  BY <1>2, <1>3, <1>4, ProducerOnly, KeepInHand, KeepExits DEF History
<1> QED BY <1>12, <1>13, <1>14, <1>15, <1>16, HistoryMade DEF History

LEMMA WriteHistory ==
  ASSUME TypeOK, Control, SomeHistory, WriteEntry
  PROVE  SomeHistory'
<1>1. PICK P \in Nat, C \in Nat, T \in Nat, K \in Nat, L \in Nat : \E E, B, D, M : History(P, C, T, K, L, E, B, D, M)
  BY DEF SomeHistory
<1>2. PICK E, B, D, M : History(P, C, T, K, L, E, B, D, M)
  BY <1>1
<1> DEFINE e == [todo[1] EXCEPT !.seq = pushCount]
           p == pushCount % QueueSize
<1>3. /\ UNCHANGED <<todo, then, popCached, burstCached, screen, pushCount, drawPush, words, popped, consumer>>
      /\ ppc = "push" /\ ppc' = "publish" /\ ~QueueFull /\ wq' = [wq EXCEPT ![p] = e]
  BY DEF WriteEntry
<1>4. /\ UNCHANGED <<pmode, espec, frame, lib, burst, burstWrite, popCount, drawFinish, burstPop>>
      /\ ~Uncopied /\ ~Uncopied' /\ (Leaving' <=> Leaving)
  BY <1>3 DEF screen, words, popped, Uncopied, Leaving
<1>5. P < K + QueueSize /\ K <= C /\ C <= P
  <2>1. Minus(pushCount, popCached) = P - K /\ K <= C /\ C <= P /\ P <= K + QueueSize
    BY <1>2, CursorsAre, DrawsFit
  <2> QED BY <2>1, <1>3, Sizes DEF QueueFull
<1>6. p = P % QueueSize /\ p \in 0..QueueSize - 1 /\ E[P] = e
  <2>1. pushCount = P % CounterMod
    BY <1>2 DEF History, Cursors
  <2>2. p = P % QueueSize
    BY <2>1, CellOf, Sizes
  <2>3. P % QueueSize \in 0..QueueSize - 1
    BY Division, Sizes
  <2>4. 1 \in 1..Len(todo)
    BY <1>3 DEF Control, Phases, Queueing, TypeOK
  <2>5. E[P + 1 - 1] = [todo[1] EXCEPT !.seq = (P + 1 - 1) % CounterMod] /\ P + 1 - 1 = P
    <3>1. \A i \in 1..Len(todo) : E[P + i - 1] = [todo[i] EXCEPT !.seq = (P + i - 1) % CounterMod]
      BY <1>2 DEF History, Pending
    <3>2. E[P + 1 - 1] = [todo[1] EXCEPT !.seq = (P + 1 - 1) % CounterMod]
      BY <2>4, <3>1
    <3> QED BY <3>2
  <2> QED BY <2>1, <2>2, <2>3, <2>5
<1> HIDE DEF e, p
<1>7. wq \in [0..QueueSize - 1 -> EntrySet]
  BY DEF TypeOK
<1>8. Ring(P, C, E)'
  <2>1. wq'[P % QueueSize] = E[P]
    BY <1>3, <1>6, <1>7
  <2>2. ASSUME NEW j \in C..P - 1 PROVE wq'[j % QueueSize] = E[j]
    <3>1. j \in Nat /\ j < P /\ P - j < QueueSize /\ QueueSize \in Nat \ {0}
      BY <1>5, Sizes
    <3>2. j % QueueSize # p /\ j % QueueSize \in 0..QueueSize - 1
      BY <3>1, <1>6, RemaindersDiffer, Division
    <3>3. wq[j % QueueSize] = E[j]
      BY <1>2 DEF History, Ring
    <3> QED BY <3>2, <3>3, <1>3, <1>7
  <2> QED BY <2>1, <2>2 DEF Ring
<1>9. Cursors(P, C, K)'
  BY <1>2, <1>3, <1>4, <1>5 DEF History, Cursors
<1>10. Stream(C, T, E, B, D, M)' /\ Pending(P, T, E)'
  BY <1>2, <1>3, KeepStream, KeepPending DEF History
<1>11. DrawCounts(P, C, T, D)' /\ WordCounts(P, C, T, L, B)' /\ Cells(P, C, T, B)'
  BY <1>2, <1>3, <1>4, ProducerOnly, KeepDrawCounts, KeepWordCounts, KeepCells DEF History
<1>12. ModeEnds(C, T, M)' /\ Frames(C, T, E)' /\ InHand(P, C, E)'
  BY <1>2, <1>3, <1>4, ProducerOnly, KeepModeEnds, KeepFrames, KeepInHand DEF History
<1>13. Exits(C, T, E)'
  BY <1>2, <1>3, <1>4, ProducerOnly, KeepExits DEF History
<1> QED BY <1>8, <1>9, <1>10, <1>11, <1>12, <1>13, HistoryMade DEF History

LEMMA PublishHistory ==
  ASSUME TypeOK, Control, SomeHistory, Publish
  PROVE  SomeHistory'
<1>1. PICK P \in Nat, C \in Nat, T \in Nat, K \in Nat, L \in Nat : \E E, B, D, M : History(P, C, T, K, L, E, B, D, M)
  BY DEF SomeHistory
<1>2. PICK E, B, D, M : History(P, C, T, K, L, E, B, D, M)
  BY <1>1
<1>3. /\ UNCHANGED <<goal, then, popCached, burstCached, screen, wq, drawPush, words, popped, consumer>>
      /\ ppc = "publish" /\ pushCount' = Plus(pushCount, 1) /\ todo' = Tail(todo)
  BY DEF Publish
<1>4. /\ ppc' \in {"push", "idle", "lineWake", "frameDone", "stop"} /\ todo # <<>>
      /\ Len(todo) > 1 => ppc' = "push" /\ todo' # <<>>
      /\ Len(todo) <= 1 => ppc' = then /\ todo' = <<>>
  BY PublishMoves
<1>5. Len(todo) \in Nat /\ todo \in Seq(EntrySet) /\ then \in {"idle", "lineWake", "frameDone", "stop"}
  BY DEF TypeOK
<1>6. /\ UNCHANGED <<pmode, espec, frame, lib, burst, burstWrite, popCount, drawFinish, burstPop>>
      /\ ~Uncopied /\ ~Uncopied'
  BY <1>3, <1>4 DEF screen, words, popped, Uncopied
<1>7. Leaving' <=> Leaving
  <2>1. Leaving <=> then = "stop"
    BY <1>3, <1>4 DEF Leaving
  <2>2. CASE Len(todo) > 1
    BY <2>1, <2>2, <1>3, <1>4 DEF Leaving
  <2>3. CASE Len(todo) <= 1
    BY <2>1, <2>3, <1>3, <1>4, <1>5 DEF Leaving
  <2> QED BY <2>2, <2>3, <1>5
<1>8. /\ P < K + QueueSize /\ K <= C /\ C <= P /\ P < T
      /\ popCached = K % CounterMod /\ popCount = C % CounterMod /\ pushCount = P % CounterMod
  <2>1. T = P + Len(todo)
    BY <1>2 DEF History, Pending
  <2>2. Len(todo) # 0
    BY <1>4, <1>5
  <2>3. P < T
    BY <2>1, <2>2, <1>5
  <2> QED BY <1>2, <1>3, <2>3 DEF History, Cursors
<1>9. Cursors(P + 1, C, K)'
  <2>1. Plus(pushCount, 1) = (P + 1) % CounterMod
    BY <1>8, Counted
  <2> QED BY <2>1, <1>3, <1>4, <1>6, <1>8, Sizes DEF Cursors
<1>10. Ring(P + 1, C, E)'
  <2>1. \A j \in C..(P + 1) - 1 : j = P \/ j \in C..P - 1
    BY <1>8
  <2>2. \A j \in C..(P + 1) - 1 : wq'[j % QueueSize] = E[j]
    BY <1>2, <1>3, <2>1 DEF History, Ring
  <2> QED BY <2>2, <1>4 DEF Ring
<1>11. Pending(P + 1, T, E)'
  <2>1. /\ T = P + Len(todo) /\ Len(Tail(todo)) = Len(todo) - 1
        /\ \A i \in 1..Len(todo) - 1 : Tail(todo)[i] = todo[i + 1]
    BY <1>2, <1>4, <1>5 DEF History, Pending
  <2>2. T = (P + 1) + Len(todo')
    <3>1. Len(todo') = Len(todo) - 1
      BY <2>1, <1>3
    <3> QED BY <2>1, <3>1, <1>5
  <2>3. ASSUME NEW i \in 1..Len(todo')
        PROVE  E[(P + 1) + i - 1] = [todo'[i] EXCEPT !.seq = ((P + 1) + i - 1) % CounterMod]
    <3>1. i + 1 \in 1..Len(todo) /\ i \in 1..Len(todo) - 1 /\ P + (i + 1) - 1 = (P + 1) + i - 1
      BY <2>1, <1>3, <1>5
    <3>2. todo'[i] = todo[i + 1]
      BY <3>1, <2>1, <1>3
    <3>3. E[P + (i + 1) - 1] = [todo[i + 1] EXCEPT !.seq = (P + (i + 1) - 1) % CounterMod]
      BY <1>2, <3>1 DEF History, Pending
    <3> QED BY <3>1, <3>2, <3>3
  <2> QED BY <2>2, <2>3 DEF Pending
<1>12. DrawCounts(P + 1, C, T, D)'
  <2>1. P \in C..T /\ P + 1 \in P..T /\ P + 1 \in Nat
    BY <1>8
  <2>2. D[P] <= D[P + 1] /\ D[P] \in Nat /\ D[P + 1] \in Nat /\ D[T] \in Nat
    BY <1>2, <2>1 DEF History, Stream, Typed
  <2>3. DrawCounts(P, C, T, D)
    BY <1>2 DEF History
  <2>4. D[T] <= D[P + 1] + 2
    BY <2>2, <2>3 DEF DrawCounts
  <2>5. Finished(C, D)' = Finished(C, D)
    BY <1>3, ProducerOnly DEF Finished
  <2> QED BY <2>3, <2>4, <2>5, <1>3, <1>6 DEF DrawCounts
<1>13. WordsIn(P + 1, T, B)' = WordsIn(P, T, B) /\ WordsRead(C, B)' = WordsRead(C, B)
  BY <1>3, <1>6, ProducerOnly DEF WordsIn, WordsRead
<1>14. WordCounts(P + 1, C, T, L, B)' /\ Cells(P + 1, C, T, B)'
  BY <1>2, <1>3, <1>6, <1>13 DEF History, WordCounts, Cells
<1>15. Stream(C, T, E, B, D, M)' /\ ModeEnds(C, T, M)' /\ Frames(C, T, E)'
  BY <1>2, <1>3, <1>6, ProducerOnly, KeepStream, KeepModeEnds, KeepFrames DEF History
<1>16. InHand(P + 1, C, E)'
  <2>1. Holding => C < P + 1
    BY <1>8
  <2> QED BY <1>2, <1>3, <2>1 DEF History, InHand, Holding, consumer
<1>17. Exits(C, T, E)'
  <2>1. ppc \notin {"stop", "join"}
    BY <1>3
  <2> QED BY <1>2, <1>3, <1>7, <2>1, ProducerOnly, KeepExits DEF History
<1>18. History(P + 1, C, T, K, L, E, B, D, M)'
  BY <1>9, <1>10, <1>11, <1>12, <1>14, <1>15, <1>16, <1>17 DEF History
<1>19. P + 1 \in Nat
  OBVIOUS
<1> QED BY <1>18, <1>19, HistoryMade

-----------------------------------------------------------------------------
(* The render thread executes the command at the front. *)

\* What the render thread leaves alone in every step.
LEMMA FrontStep ==
  ASSUME NEW P, NEW C, NEW T, NEW K, NEW L, NEW E, NEW B, NEW D, NEW M, History(P, C, T, K, L, E, B, D, M),
         UNCHANGED <<producer, screen, ring, words>>
  PROVE  /\ Stream(C, T, E, B, D, M)' /\ Ring(P, C, E)' /\ Pending(P, T, E)'
         /\ popCount' = popCount => Cursors(P, C, K)'
         /\ ~Gone /\ ~Gone' /\ cpc # "off" /\ cpc' # "off" => Exits(C, T, E)'
<1>1. UNCHANGED <<ppc, todo, popCached, wq, pushCount>> /\ (Leaving' <=> Leaving)
  BY ConsumerOnly
<1>2. Stream(C, T, E, B, D, M)' /\ Pending(P, T, E)'
  BY <1>1, KeepStream, KeepPending DEF History
<1>3. Ring(P, C, E)' /\ (popCount' = popCount => Cursors(P, C, K)')
  BY <1>1 DEF History, Ring, Cursors
<1>4. ~Gone /\ ~Gone' /\ cpc # "off" /\ cpc' # "off" => Exits(C, T, E)'
  BY <1>1, KeepExits DEF History
<1> QED BY <1>2, <1>3, <1>4

\* The command in hand, with what the history says comes before and after it.
LEMMA FrontCommand ==
  ASSUME NEW P \in Nat, NEW C \in Nat, NEW T \in Nat, NEW K \in Nat, NEW L \in Nat, NEW E, NEW B, NEW D, NEW M,
         History(P, C, T, K, L, E, B, D, M), Holding
  PROVE  C < P /\ C < T /\ Entry = E[C] /\ E[C] \in EntrySet
<1>1. C < P
  BY DEF History, InHand
<1>2. P <= T
  BY DrawsFit
<1>3. Entry = E[C]
  BY <1>1, CursorsAre
<1>4. E[C] \in EntrySet
  BY DEF History, Stream, Typed
<1> QED BY <1>1, <1>2, <1>3, <1>4

LEMMA FrontWords ==
  ASSUME NEW P \in Nat, NEW C \in Nat, NEW T \in Nat, NEW K \in Nat, NEW L \in Nat, NEW E, NEW B, NEW D, NEW M,
         History(P, C, T, K, L, E, B, D, M), C < T
  PROVE  B[C] \in Nat /\ B[C + 1] = B[C] + WordsOf(E[C]) /\ WordsOf(E[C]) \in Nat
<1>1. C \in C..T - 1
  OBVIOUS
<1>2. Links(C, E, B, D, M) /\ Typed(E, B, D, M)
  BY <1>1 DEF History, Stream
<1>3. E[C] \in EntrySet /\ B[C] \in Nat
  BY <1>2 DEF Typed
<1>4. WordsOf(E[C]) \in Nat
  BY <1>3, Sizes DEF WordsOf, EntrySet
<1> QED BY <1>2, <1>3, <1>4 DEF Links

LEMMA FrontDraws ==
  ASSUME NEW P \in Nat, NEW C \in Nat, NEW T \in Nat, NEW K \in Nat, NEW L \in Nat, NEW E, NEW B, NEW D, NEW M,
         History(P, C, T, K, L, E, B, D, M), C < T
  PROVE  D[C] \in Nat /\ D[C + 1] = D[C] + DrawsOf(E[C])
<1>1. C \in C..T - 1
  OBVIOUS
<1>2. Links(C, E, B, D, M) /\ Typed(E, B, D, M)
  BY <1>1 DEF History, Stream
<1> QED BY <1>2 DEF Links, Typed

LEMMA FrontMode ==
  ASSUME NEW P \in Nat, NEW C \in Nat, NEW T \in Nat, NEW K \in Nat, NEW L \in Nat, NEW E, NEW B, NEW D, NEW M,
         History(P, C, T, K, L, E, B, D, M), C < T
  PROVE  M[C + 1] = E[C].mode /\ (E[C].op # "mode" => M[C + 1] = M[C])
<1>1. C \in C..T - 1
  OBVIOUS
<1>2. Links(C, E, B, D, M) /\ Typed(E, B, D, M)
  BY <1>1 DEF History, Stream
<1> QED BY <1>2 DEF Links

LEMMA BeginHistory ==
  ASSUME TypeOK, Control, SomeHistory, Begin
  PROVE  SomeHistory'
<1>1. PICK P \in Nat, C \in Nat, T \in Nat, K \in Nat, L \in Nat : \E E, B, D, M : History(P, C, T, K, L, E, B, D, M)
  BY DEF SomeHistory
<1>2. PICK E, B, D, M : History(P, C, T, K, L, E, B, D, M)
  BY <1>1
<1>3. /\ UNCHANGED <<producer, screen, ring, words, popped, cmode, word>>
      /\ cpc = "check" /\ cpc' = "run" /\ ~Nothing /\ running' = (Entry.op # "exit")
  BY DEF Begin
<1>4. C < P /\ Entry = E[C]
  <2>1. P # C /\ C <= P
    BY <1>2, <1>3, CursorsAre, DrawsFit
  <2> QED BY <1>2, <2>1, CursorsAre
<1>5. /\ UNCHANGED <<drawPush, drawFinish, burstWrite, burstPop, burstCached, burst, pmode, frame, espec, lib, popCount>>
      /\ (Uncopied' <=> Uncopied)
      /\ ~Drew /\ ~Drew' /\ ~Ran /\ ~Ran' /\ ~Gone /\ ~Gone'
  BY <1>3, ConsumerOnly DEF popped, Drew, Ran, Gone
<1>6. Stream(C, T, E, B, D, M)' /\ Ring(P, C, E)' /\ Pending(P, T, E)' /\ Cursors(P, C, K)' /\ Exits(C, T, E)'
  BY <1>2, <1>3, <1>5, FrontStep
<1>7. DrawCounts(P, C, T, D)' /\ WordCounts(P, C, T, L, B)' /\ Cells(P, C, T, B)'
  BY <1>2, <1>3, <1>5, KeepDrawCounts, KeepWordCounts, KeepCells DEF History
<1>8. ModeEnds(C, T, M)' /\ Frames(C, T, E)'
  BY <1>2, <1>3, <1>5, KeepModeEnds, KeepFrames DEF History
<1>9. InHand(P, C, E)'
  BY <1>3, <1>4 DEF InHand
<1> QED BY <1>6, <1>7, <1>8, <1>9, HistoryMade DEF History

LEMMA RunHistory ==
  ASSUME TypeOK, Control, SomeHistory, Run
  PROVE  SomeHistory'
<1>1. PICK P \in Nat, C \in Nat, T \in Nat, K \in Nat, L \in Nat : \E E, B, D, M : History(P, C, T, K, L, E, B, D, M)
  BY DEF SomeHistory
<1>2. PICK E, B, D, M : History(P, C, T, K, L, E, B, D, M)
  BY <1>1
<1>3. /\ UNCHANGED <<producer, screen, ring, words, popped, running>>
      /\ cpc = "run" /\ word' = 0
      /\ cpc' = IF Entry.op = "draw" THEN "draw" ELSE IF Entry.op = "burst" THEN "words" ELSE "pop"
      /\ cmode' = IF Entry.op = "mode" THEN Entry.mode ELSE cmode
  BY DEF Run
<1>4. /\ C < P /\ Entry = E[C] /\ E[C] \in EntrySet
      /\ B[C] \in Nat /\ B[C + 1] = B[C] + WordsOf(E[C])
      /\ D[C] \in Nat /\ D[C + 1] = D[C] + DrawsOf(E[C])
      /\ M[C + 1] = E[C].mode /\ (E[C].op # "mode" => M[C + 1] = M[C])
      /\ running = (E[C].op # "exit")
  <2>a. Holding
    BY <1>3 DEF Holding
  <2>1. C < P /\ C < T /\ Entry = E[C] /\ E[C] \in EntrySet
    BY <1>2, <2>a, FrontCommand
  <2>3. running = (E[C].op # "exit")
    BY <1>2, <2>a DEF History, InHand
  <2>2. B[C] \in Nat /\ B[C + 1] = B[C] + WordsOf(E[C])
    BY <1>2, <2>1, FrontWords
  <2>4. D[C] \in Nat /\ D[C + 1] = D[C] + DrawsOf(E[C])
    BY <1>2, <2>1, FrontDraws
  <2>5. M[C + 1] = E[C].mode /\ (E[C].op # "mode" => M[C + 1] = M[C])
    BY <1>2, <2>1, FrontMode
  <2> QED BY <2>1, <2>2, <2>3, <2>4, <2>5
<1>5. /\ UNCHANGED <<drawPush, drawFinish, burstWrite, burstPop, burstCached, burst, pmode, frame, espec, lib, popCount>>
      /\ (Uncopied' <=> Uncopied)
      /\ ~Drew /\ (Drew' <=> cpc' = "pop") /\ ~Ran /\ Ran' /\ ~Gone /\ ~Gone'
      /\ cpc # "off" /\ cpc' # "off"
  BY <1>3, ConsumerOnly DEF popped, Drew, Ran, Gone
<1>6. Stream(C, T, E, B, D, M)' /\ Ring(P, C, E)' /\ Pending(P, T, E)' /\ Cursors(P, C, K)' /\ Exits(C, T, E)'
  BY <1>2, <1>3, <1>5, FrontStep
<1>7. cpc' = "pop" => B[C + 1] = B[C] /\ D[C + 1] = D[C]
  BY <1>3, <1>4 DEF WordsOf, DrawsOf
<1>8. Finished(C, D)' = Finished(C, D) /\ WordsRead(C, B)' = WordsRead(C, B) /\ WordsIn(P, T, B)' = WordsIn(P, T, B)
  BY <1>3, <1>5, <1>7 DEF Finished, WordsRead, WordsIn
<1>9. DrawCounts(P, C, T, D)' /\ WordCounts(P, C, T, L, B)' /\ Cells(P, C, T, B)'
  BY <1>2, <1>5, <1>8 DEF History, DrawCounts, WordCounts, Cells
<1>10. ModeEnds(C, T, M)'
  BY <1>2, <1>3, <1>4, <1>5 DEF History, ModeEnds
<1>11. Frames(C, T, E)'
  <2> SUFFICES ASSUME NEW j \in C..T - 1, E[j].op = "draw"
               PROVE  E[j].frame = frame' /\ espec' = frame' /\ lib'[E[j].arg] = frame'
    BY <1>5 DEF Frames
  <2> QED BY <1>2, <1>5 DEF History, Frames
<1>12. InHand(P, C, E)'
  <2>1. cpc' = "words" => E[C].op = "burst" /\ word' <= E[C].n
    BY <1>3, <1>4, Sizes DEF EntrySet
  <2> QED BY <1>3, <1>4, <2>1 DEF InHand
<1> QED BY <1>6, <1>9, <1>10, <1>11, <1>12, HistoryMade DEF History

LEMMA DrawHistory ==
  ASSUME TypeOK, Control, SomeHistory, DrawDone \/ DrawNotify
  PROVE  SomeHistory'
<1>1. PICK P \in Nat, C \in Nat, T \in Nat, K \in Nat, L \in Nat : \E E, B, D, M : History(P, C, T, K, L, E, B, D, M)
  BY DEF SomeHistory
<1>2. PICK E, B, D, M : History(P, C, T, K, L, E, B, D, M)
  BY <1>1
<1>3. /\ UNCHANGED <<producer, screen, ring, words, popCount, burstPop, running, word, cmode>>
      /\ \/ cpc = "draw" /\ cpc' = "drawn" /\ drawFinish' = Plus(drawFinish, 1)
         \/ cpc = "drawn" /\ cpc' = "pop" /\ drawFinish' = drawFinish
  BY DEF DrawDone, DrawNotify, popped
<1>4. /\ C < P /\ E[C].op = "draw" /\ D[C] \in Nat /\ D[C + 1] = D[C] + 1
      /\ B[C] \in Nat /\ B[C + 1] = B[C] /\ running = (E[C].op # "exit")
  <2>1. Holding
    BY <1>3 DEF Holding
  <2>2. E[C].op = "draw"
    BY <1>2, <1>3 DEF History, InHand
  <2>3. C < P /\ C < T
    BY <1>2, <2>1, FrontCommand
  <2>5. running = (E[C].op # "exit")
    BY <1>2, <2>1 DEF History, InHand
  <2>4. B[C] \in Nat /\ B[C + 1] = B[C] + WordsOf(E[C])
    BY <1>2, <2>3, FrontWords
  <2>6. D[C] \in Nat /\ D[C + 1] = D[C] + DrawsOf(E[C])
    BY <1>2, <2>3, FrontDraws
  <2> QED BY <2>2, <2>3, <2>4, <2>5, <2>6 DEF WordsOf, DrawsOf
<1>5. /\ UNCHANGED <<drawPush, burstWrite, burstPop, burstCached, burst, pmode, frame, espec, lib>>
      /\ (Uncopied' <=> Uncopied) /\ Drew' /\ (Drew <=> cpc = "drawn") /\ Ran /\ Ran' /\ ~Gone /\ ~Gone'
      /\ cpc # "off" /\ cpc' # "off"
  BY <1>3, ConsumerOnly DEF Drew, Ran, Gone
<1>6. Stream(C, T, E, B, D, M)' /\ Ring(P, C, E)' /\ Pending(P, T, E)' /\ Cursors(P, C, K)' /\ Exits(C, T, E)'
  BY <1>2, <1>3, <1>5, FrontStep
<1>7. DrawCounts(P, C, T, D)'
  <2>1. DrawCounts(P, C, T, D)
    BY <1>2 DEF History
  <2>2. Plus(D[C] % CounterMod, 1) = (D[C] + 1) % CounterMod
    BY <1>4, Counted
  <2>3. drawFinish' = D[C + 1] % CounterMod
    BY <1>3, <1>4, <1>5, <2>1, <2>2 DEF DrawCounts, Finished
  <2> QED BY <1>5, <2>1, <2>3 DEF DrawCounts, Finished
<1>8. WordsRead(C, B)' = WordsRead(C, B) /\ WordsIn(P, T, B)' = WordsIn(P, T, B)
  BY <1>3, <1>4, <1>5 DEF WordsRead, WordsIn
<1>9. WordCounts(P, C, T, L, B)' /\ Cells(P, C, T, B)'
  BY <1>2, <1>5, <1>8 DEF History, WordCounts, Cells
<1>10. ModeEnds(C, T, M)'
  BY <1>2, <1>3, <1>5, KeepModeEnds DEF History
<1>11. Frames(C, T, E)'
  <2> SUFFICES ASSUME NEW j \in C + 1..T - 1, E[j].op = "draw"
               PROVE  E[j].frame = frame' /\ espec' = frame' /\ lib'[E[j].arg] = frame'
    BY <1>5 DEF Frames
  <2>1. j \in (IF Drew THEN C + 1 ELSE C)..T - 1
    OBVIOUS
  <2> QED BY <1>2, <1>5, <2>1 DEF History, Frames
<1>12. InHand(P, C, E)'
  BY <1>3, <1>4 DEF InHand
<1> QED BY <1>6, <1>7, <1>9, <1>10, <1>11, <1>12, HistoryMade DEF History

LEMMA WordHistory ==
  ASSUME TypeOK, Control, SomeHistory, NextWord
  PROVE  SomeHistory'
<1>1. PICK P \in Nat, C \in Nat, T \in Nat, K \in Nat, L \in Nat : \E E, B, D, M : History(P, C, T, K, L, E, B, D, M)
  BY DEF SomeHistory
<1>2. PICK E, B, D, M : History(P, C, T, K, L, E, B, D, M)
  BY <1>1
<1>3. /\ UNCHANGED <<producer, screen, ring, words, popped, cpc, running, cmode>>
      /\ cpc = "words" /\ word < Entry.n /\ word' = word + 1
  BY DEF NextWord
<1>4. C < P /\ Entry = E[C] /\ E[C] \in EntrySet /\ E[C].op = "burst" /\ running = (E[C].op # "exit")
  <2>1. Holding
    BY <1>3 DEF Holding
  <2>2. E[C].op = "burst"
    BY <1>2, <1>3 DEF History, InHand
  <2>3. C < P /\ Entry = E[C] /\ E[C] \in EntrySet
    BY <1>2, <2>1, FrontCommand
  <2>4. running = (E[C].op # "exit")
    BY <1>2, <2>1 DEF History, InHand
  <2> QED BY <2>2, <2>3, <2>4
<1>5. /\ UNCHANGED <<drawPush, drawFinish, burstWrite, burstPop, burstCached, burst, pmode, frame, espec, lib, popCount>>
      /\ (Uncopied' <=> Uncopied) /\ (Drew' <=> Drew) /\ (Ran' <=> Ran) /\ ~Gone /\ ~Gone'
  BY <1>3, ConsumerOnly DEF popped, Drew, Ran, Gone
<1>6. Stream(C, T, E, B, D, M)' /\ Ring(P, C, E)' /\ Pending(P, T, E)' /\ Cursors(P, C, K)' /\ Exits(C, T, E)'
  BY <1>2, <1>3, <1>5, FrontStep
<1>7. DrawCounts(P, C, T, D)' /\ WordCounts(P, C, T, L, B)' /\ Cells(P, C, T, B)'
  BY <1>2, <1>3, <1>5, KeepDrawCounts, KeepWordCounts, KeepCells DEF History
<1>8. ModeEnds(C, T, M)' /\ Frames(C, T, E)'
  BY <1>2, <1>3, <1>5, KeepModeEnds, KeepFrames DEF History
<1>9. InHand(P, C, E)'
  <2>1. word' <= E[C].n
    <3>1. word \in 0..MaxBurst /\ E[C].n \in 0..MaxBurst
      BY <1>4 DEF TypeOK, EntrySet
    <3> QED BY <1>3, <1>4, <3>1, Sizes
  <2> QED BY <1>3, <1>4, <2>1 DEF InHand
<1> QED BY <1>6, <1>7, <1>8, <1>9, HistoryMade DEF History

LEMMA WordsHistory ==
  ASSUME TypeOK, Control, SomeHistory, WordsDone
  PROVE  SomeHistory'
<1>1. PICK P \in Nat, C \in Nat, T \in Nat, K \in Nat, L \in Nat : \E E, B, D, M : History(P, C, T, K, L, E, B, D, M)
  BY DEF SomeHistory
<1>2. PICK E, B, D, M : History(P, C, T, K, L, E, B, D, M)
  BY <1>1
<1>3. /\ UNCHANGED <<producer, screen, ring, words, popCount, drawFinish, running, word, cmode>>
      /\ cpc = "words" /\ cpc' = "pop" /\ burstPop' = Plus(burstPop, Entry.n)
  BY DEF WordsDone
<1>4. /\ C < P /\ C < T /\ Entry = E[C] /\ E[C].op = "burst" /\ E[C].n \in Nat /\ running = (E[C].op # "exit")
      /\ D[C] \in Nat /\ D[C + 1] = D[C]
      /\ B[C] \in Nat /\ B[C + 1] = B[C] + E[C].n
  <2>1. Holding
    BY <1>3 DEF Holding
  <2>2. E[C].op = "burst"
    BY <1>2, <1>3 DEF History, InHand
  <2>3. C < P /\ C < T /\ Entry = E[C]
    BY <1>2, <2>1, FrontCommand
  <2>5. running = (E[C].op # "exit")
    BY <1>2, <2>1 DEF History, InHand
  <2>4. B[C] \in Nat /\ B[C + 1] = B[C] + WordsOf(E[C]) /\ WordsOf(E[C]) \in Nat
    BY <1>2, <2>3, FrontWords
  <2>6. D[C] \in Nat /\ D[C + 1] = D[C] + DrawsOf(E[C])
    BY <1>2, <2>3, FrontDraws
  <2> QED BY <2>2, <2>3, <2>4, <2>5, <2>6 DEF WordsOf, DrawsOf
<1>5. /\ UNCHANGED <<drawPush, drawFinish, burstWrite, burstCached, burst, pmode, frame, espec, lib>>
      /\ (Uncopied' <=> Uncopied) /\ Drew' /\ ~Drew /\ Ran /\ Ran' /\ ~Gone /\ ~Gone'
      /\ cpc # "off" /\ cpc' # "off"
  BY <1>3, ConsumerOnly DEF Drew, Ran, Gone
<1>6. Stream(C, T, E, B, D, M)' /\ Ring(P, C, E)' /\ Pending(P, T, E)' /\ Cursors(P, C, K)' /\ Exits(C, T, E)'
  BY <1>2, <1>3, <1>5, FrontStep
<1>7. DrawCounts(P, C, T, D)'
  BY <1>2, <1>4, <1>5 DEF History, DrawCounts, Finished
<1>8. WordsRead(C, B) = B[C] /\ WordsRead(C, B)' = B[C + 1] /\ WordsIn(P, T, B)' = WordsIn(P, T, B)
  BY <1>3, <1>5 DEF WordsRead, WordsIn
<1>9. WordCounts(P, C, T, L, B)'
  <2>1. WordCounts(P, C, T, L, B)
    BY <1>2 DEF History
  <2>2. Plus(B[C] % CounterMod, E[C].n) = (B[C] + E[C].n) % CounterMod
    BY <1>4, Counted
  <2>3. burstPop' = B[C + 1] % CounterMod
    BY <1>3, <1>4, <1>8, <2>1, <2>2 DEF WordCounts
  <2>4. L <= B[C + 1]
    BY <1>4, <1>8, <2>1 DEF WordCounts
  <2> QED BY <1>5, <1>8, <2>1, <2>3, <2>4 DEF WordCounts
<1>10. Cells(P, C, T, B)'
  <2> SUFFICES ASSUME NEW k \in B[C + 1]..WordsIn(P, T, B) - 1
               PROVE  burst[k % BurstSize] = k % CounterMod
    BY <1>5, <1>8 DEF Cells
  <2>1. WordsIn(P, T, B) \in Nat
    BY <1>2 DEF WordsIn, History, Stream, Typed
  <2>2. k \in B[C]..WordsIn(P, T, B) - 1
    BY <1>4, <2>1
  <2> QED BY <1>2, <1>8, <2>2 DEF History, Cells
<1>11. ModeEnds(C, T, M)'
  BY <1>2, <1>3, <1>5, KeepModeEnds DEF History
<1>12. Frames(C, T, E)'
  <2> SUFFICES ASSUME NEW j \in C + 1..T - 1, E[j].op = "draw"
               PROVE  E[j].frame = frame' /\ espec' = frame' /\ lib'[E[j].arg] = frame'
    BY <1>5 DEF Frames
  <2>1. j \in (IF Drew THEN C + 1 ELSE C)..T - 1
    OBVIOUS
  <2> QED BY <1>2, <1>5, <2>1 DEF History, Frames
<1>13. InHand(P, C, E)'
  BY <1>3, <1>4 DEF InHand
<1> QED BY <1>6, <1>7, <1>9, <1>10, <1>11, <1>12, <1>13, HistoryMade DEF History

LEMMA PopHistory ==
  ASSUME TypeOK, Control, SomeHistory, Pop
  PROVE  SomeHistory'
<1>1. PICK P \in Nat, C \in Nat, T \in Nat, K \in Nat, L \in Nat : \E E, B, D, M : History(P, C, T, K, L, E, B, D, M)
  BY DEF SomeHistory
<1>2. PICK E, B, D, M : History(P, C, T, K, L, E, B, D, M)
  BY <1>1
<1>3. /\ UNCHANGED <<producer, screen, ring, words, drawFinish, burstPop, running, word, cmode>>
      /\ cpc = "pop" /\ cpc' = "popped" /\ popCount' = Plus(popCount, 1)
  BY DEF Pop
<1>4. C < P /\ C < T /\ P <= T /\ running = (E[C].op # "exit")
  <2>1. Holding
    BY <1>3 DEF Holding
  <2>2. C < P /\ C < T
    BY <1>2, <2>1, FrontCommand
  <2>3. running = (E[C].op # "exit")
    BY <1>2, <2>1 DEF History, InHand
  <2>4. P <= T
    BY <1>2, DrawsFit
  <2> QED BY <2>2, <2>3, <2>4
<1>5. /\ UNCHANGED <<ppc, todo, pushCount, popCached, wq>>
      /\ UNCHANGED <<drawPush, drawFinish, burstWrite, burstPop, burstCached, burst, pmode, frame, espec, lib>>
      /\ (Uncopied' <=> Uncopied) /\ (Leaving' <=> Leaving)
      /\ Drew /\ ~Drew' /\ Ran /\ ~Ran' /\ ~Gone /\ (Gone' <=> ~running)
  BY <1>3, ConsumerOnly DEF Drew, Ran, Gone
<1>6. Stream(C + 1, T, E, B, D, M)'
  <2>1. Stream(C + 1, T, E, B, D, M)
    <3>1. Stream(C, T, E, B, D, M)
      BY <1>2 DEF History
    <3>2. \A j \in C + 1..T - 1 : j \in C..T - 1
      OBVIOUS
    <3>3. \A j \in C + 1..T : j \in C..T
      OBVIOUS
    <3> HIDE DEF Links
    <3> QED BY <3>1, <3>2, <3>3, <1>4 DEF Stream
  <2> QED BY <2>1, KeepStream
<1>7. Cursors(P, C + 1, K)'
  <2>1. Plus(C % CounterMod, 1) = (C + 1) % CounterMod
    BY Counted
  <2> QED BY <1>2, <1>3, <1>4, <1>5, <2>1 DEF History, Cursors
<1>8. Ring(P, C + 1, E)'
  BY <1>2, <1>5 DEF History, Ring
<1>9. Pending(P, T, E)'
  BY <1>2, <1>5, KeepPending DEF History
<1>10. /\ Finished(C + 1, D)' = Finished(C, D) /\ WordsRead(C + 1, B)' = WordsRead(C, B)
       /\ WordsIn(P, T, B)' = WordsIn(P, T, B)
  BY <1>3, <1>5 DEF Finished, WordsRead, WordsIn
<1>11. DrawCounts(P, C + 1, T, D)' /\ WordCounts(P, C + 1, T, L, B)' /\ Cells(P, C + 1, T, B)'
  BY <1>2, <1>5, <1>10 DEF History, DrawCounts, WordCounts, Cells
<1>12. ModeEnds(C + 1, T, M)'
  BY <1>2, <1>3, <1>5 DEF History, ModeEnds
<1>13. Frames(C + 1, T, E)'
  BY <1>2, <1>5 DEF History, Frames
<1>14. InHand(P, C + 1, E)'
  BY <1>3 DEF InHand, Holding
<1>15. Exits(C + 1, T, E)'
  <2>1. \A j \in C + 1..T - 1 : j \in C..T - 1
    OBVIOUS
  <2>2. \A j \in C + 1..T - 1 : E[j].op = "exit" => Leaving
    BY <1>2, <2>1 DEF History, Exits
  <2>3. CASE running
    <3>1. E[C].op # "exit"
      BY <1>4, <2>3
    <3>2. Leaving => C + 1 < T /\ E[T - 1].op = "exit"
      <4> SUFFICES ASSUME Leaving PROVE C + 1 < T /\ E[T - 1].op = "exit"
        OBVIOUS
      <4>1. E[T - 1].op = "exit"
        BY <1>2, <1>5 DEF History, Exits
      <4>2. C # T - 1
        BY <3>1, <4>1
      <4> QED BY <1>4, <4>1, <4>2
    <3> QED BY <1>3, <1>5, <2>2, <2>3, <3>2 DEF Exits
  <2>4. CASE ~running
    <3>1. E[C].op = "exit" /\ C \in C..T - 1
      <4>1. E[C].op = "exit"
        BY <1>4, <2>4, Zenon
      <4> QED BY <1>4, <4>1
    <3>2. C + 1 = T /\ Leaving
      BY <1>2, <1>4, <3>1 DEF History, Stream, Exits
    <3>3. todo = <<>>
      <4>1. T = P + Len(todo) /\ todo \in Seq(EntrySet)
        BY <1>2 DEF History, Pending, TypeOK
      <4>2. Len(todo) = 0
        BY <1>4, <3>2, <4>1
      <4> QED BY <4>1, <4>2
    <3>4. ppc \in {"stop", "join"}
      BY <3>2, <3>3 DEF Leaving
    <3> QED BY <1>3, <1>5, <2>2, <2>4, <3>2, <3>4 DEF Exits
  <2> QED BY <2>3, <2>4
<1>16. History(P, C + 1, T, K, L, E, B, D, M)'
  BY <1>6, <1>7, <1>8, <1>9, <1>11, <1>12, <1>13, <1>14, <1>15 DEF History
<1>17. C + 1 \in Nat
  OBVIOUS
<1> QED BY <1>16, <1>17, HistoryMade

-----------------------------------------------------------------------------
(* The theorems. *)

LEMMA HistoryStep ==
  ASSUME TypeOK, Control, SomeHistory, [Next]_vars
  PROVE  SomeHistory'
<1>1. CASE \/ EndFrame \/ StateAction \/ LineWake \/ BurstFull \/ StateDone \/ KillWake \/ PushFull \/ Park
           \/ AwaitMore \/ AwaitPrepare \/ AwaitWake \/ Retest \/ DrainReturn
           \/ Poll \/ Drowsy \/ SleepPrepare \/ Recheck \/ WakeReturn \/ PopNotify
           \/ UNCHANGED vars
  BY <1>1, QuietStep
<1>2. CASE Write \/ Reset \/ Kill \/ DrawLine \/ \E n \in 1..MaxBurst : BeginBurst(n)
  BY <1>2, CallsQueue
<1>3. CASE AwaitOver
  BY <1>3, QuietStep, CallsQueue
<1>4. CASE \E m \in Modes : SetDeinterlaceMode(m)
  <2>1. CASE thread
    BY <1>4, <2>1, CallsQueue
  <2>2. CASE ~thread
    BY <1>4, <2>2, ModeHistory
  <2> QED BY <2>1, <2>2
<1>5. CASE FrameDone \/ \E double \in BOOLEAN : StartFrame(double)
  BY <1>5, FrameHistory
<1>6. CASE StartThread \/ CopyWords \/ Join \/ WriteEntry \/ Publish \/ Refresh
  BY <1>6, StartHistory, CopyHistory, JoinHistory, WriteHistory, PublishHistory, RefreshHistory
<1>7. CASE Begin \/ Run \/ DrawDone \/ DrawNotify \/ NextWord \/ WordsDone \/ Pop
  BY <1>7, BeginHistory, RunHistory, DrawHistory, WordHistory, WordsHistory, PopHistory
<1> QED BY <1>1, <1>2, <1>3, <1>4, <1>5, <1>6, <1>7 DEF Next, Call, ProducerRuns, ConsumerRuns

LEMMA InitIInv ==
  ASSUME Init
  PROVE  IInv
<1>1. SomeHistory
  BY InitHistory
<1>2. Control
  BY DEF Init, Wake!Init, Drain!Init, Control, Phases, Queueing, Waits, Calling, Uncopied, Leaving, Settled, Wakes, NoFrame
<1>3. 0 \in Counters /\ 0 \in 0..Lines /\ 0 \in 0..MaxBurst /\ 0 \in 0..SpinBudget /\ Len(<<>>) = 0 /\ <<>> \in Seq(EntrySet)
  BY Sizes, LineAssumption, SpinAssumption DEF Counters
<1>4. CallTyped /\ TodoTyped
  <2>1. todo = <<>> /\ then = "idle"
    BY DEF Init
  <2>2. TodoTyped
    BY <1>3, <2>1 DEF TodoTyped
  <2> QED BY <1>3, <2>2 DEF Init, CallTyped
<1>5. ScreenTyped
  BY DEF Init, ScreenTyped, Modes, NoFrame
<1>6. CounterTyped
  BY <1>3 DEF Init, CounterTyped
<1>7. RingTyped
  BY <1>3, EmptyEntry DEF Init, RingTyped
<1>8. EventTyped
  BY DEF Init, Wake!Init, Drain!Init, EventTyped, WaitStates
<1>9. ConsumerTyped
  BY <1>3 DEF Init, ConsumerTyped, Modes
<1>10. TypeOK
  BY <1>4, <1>5, <1>6, <1>7, <1>8, <1>9, TypesAreParts DEF TypeParts
<1> QED BY <1>1, <1>2, <1>10 DEF IInv

LEMMA StepIInv ==
  ASSUME IInv, [Next]_vars
  PROVE  IInv'
<1>1. TypeOK /\ Control /\ SomeHistory /\ Phases /\ Calling
  BY DEF IInv, Control
<1>2. TypeOK' /\ Control' /\ SomeHistory'
  BY <1>1, TypeStep, ControlStep, HistoryStep
<1> QED BY <1>2 DEF IInv

\* The cursors show a part of one history in every state that is reached.
THEOREM HistoryHolds == Spec => []IInv
<1>1. Init => IInv
  BY InitIInv
<1>2. IInv /\ [Next]_vars => IInv'
  BY StepIInv
<1> QED BY <1>1, <1>2, PTL DEF Spec

\* Every variable of the queue keeps its type.
THEOREM TypeCorrect == Spec => []TypeOK
<1>1. IInv => TypeOK
  BY DEF IInv
<1> QED BY <1>1, HistoryHolds, PTL

\* The render thread executes the next command that was queued, whole, and a
\* burst with its own words: WWQ and BurstBuf never overwrite what is unread.
THEOREM CommandsIntactHolds == Spec => []CommandsIntact
<1>1. IInv => CommandsIntact
  <2> SUFFICES ASSUME IInv PROVE CommandsIntact
    OBVIOUS
  <2>1. PICK P \in Nat, C \in Nat, T \in Nat, K \in Nat, L \in Nat : \E E, B, D, M : History(P, C, T, K, L, E, B, D, M)
    BY DEF IInv, SomeHistory
  <2>2. PICK E, B, D, M : History(P, C, T, K, L, E, B, D, M)
    BY <2>1
  <2>3. Executing => Entry.seq = popCount
    <3> SUFFICES ASSUME Executing PROVE Entry.seq = popCount
      OBVIOUS
    <3>1. Holding
      BY DEF Executing, Holding
    <3>2. C < P /\ C < T /\ Entry = E[C]
      BY <2>2, <3>1, FrontCommand
    <3>3. C \in C..T - 1
      BY <3>2
    <3>4. E[C].seq = C % CounterMod
      BY <2>2, <3>3 DEF History, Stream, Links
    <3> QED BY <2>2, <3>2, <3>4 DEF History, Cursors
  <2>4. cpc = "words" /\ word < Entry.n => burst[(burstPop + word) % BurstSize] = Plus(burstPop, word)
    <3> SUFFICES ASSUME cpc = "words", word < Entry.n
                 PROVE  burst[(burstPop + word) % BurstSize] = Plus(burstPop, word)
      OBVIOUS
    <3>1. Holding
      BY DEF Holding
    <3>2. /\ C < P /\ C < T /\ Entry = E[C] /\ E[C] \in EntrySet /\ B[C] \in Nat /\ B[C + 1] = B[C] + WordsOf(E[C])
          /\ E[C].op = "burst"
      <4>1. E[C].op = "burst"
        BY <2>2 DEF History, InHand
      <4>2. C < P /\ C < T /\ Entry = E[C] /\ E[C] \in EntrySet
        BY <2>2, <3>1, FrontCommand
      <4>3. B[C] \in Nat /\ B[C + 1] = B[C] + WordsOf(E[C])
        BY <2>2, <4>2, FrontWords
      <4> QED BY <4>1, <4>2, <4>3
    <3>3. B[C + 1] = B[C] + E[C].n /\ word < E[C].n /\ word \in Nat /\ E[C].n \in Nat
      BY <3>2, Sizes DEF WordsOf, EntrySet, IInv, TypeOK
    <3>4. B[C + 1] <= WordsIn(P, T, B) /\ WordsIn(P, T, B) \in Nat
      <4>1. P <= T /\ Typed(E, B, D, M)
        BY <2>2, DrawsFit DEF History, Stream
      <4>2. C + 1 \in C..T /\ P \in C + 1..T /\ T \in C + 1..T
        BY <3>2, <4>1
      <4>3. B[C + 1] <= B[P] /\ B[C + 1] <= B[T]
        BY <2>2, <4>2 DEF History, Stream
      <4>4. B[P] \in Nat /\ B[T] \in Nat
        BY <4>1 DEF Typed
      <4> QED BY <4>3, <4>4 DEF WordsIn
    <3>5. WordsRead(C, B) = B[C]
      BY DEF WordsRead
    <3>6. B[C] + word \in Nat /\ B[C] + word \in B[C]..WordsIn(P, T, B) - 1
      BY <3>2, <3>3, <3>4
    <3>7. burst[(B[C] + word) % BurstSize] = (B[C] + word) % CounterMod
      BY <2>2, <3>5, <3>6 DEF History, Cells
    <3>8. burstPop = B[C] % CounterMod
      BY <2>2, <3>5 DEF History, WordCounts
    <3>9. (burstPop + word) % BurstSize = (B[C] + word) % BurstSize
      BY <3>2, <3>3, <3>8, CellFrom
    <3>10. Plus(burstPop, word) = (B[C] + word) % CounterMod
      BY <3>2, <3>3, <3>8, Counted
    <3> QED BY <3>7, <3>9, <3>10
  <2> QED BY <2>3, <2>4 DEF CommandsIntact
<1> QED BY <1>1, HistoryHolds, PTL

\* A line is drawn into the surface of the frame that queued it, while it is
\* lent, from that frame's LIB and in the mode of its place in the queue.
THEOREM DrawSeesItsFrameHolds == Spec => []DrawSeesItsFrame
<1>1. IInv => DrawSeesItsFrame
  <2> SUFFICES ASSUME IInv, cpc = "draw" PROVE espec = Entry.frame /\ lib[Entry.arg] = Entry.frame /\ cmode = Entry.mode
    BY DEF DrawSeesItsFrame
  <2>1. PICK P \in Nat, C \in Nat, T \in Nat, K \in Nat, L \in Nat : \E E, B, D, M : History(P, C, T, K, L, E, B, D, M)
    BY DEF IInv, SomeHistory
  <2>2. PICK E, B, D, M : History(P, C, T, K, L, E, B, D, M)
    BY <2>1
  <2>3. Holding /\ Ran /\ ~Drew
    BY DEF Holding, Ran, Drew
  <2>4. C < P /\ C < T /\ Entry = E[C] /\ M[C + 1] = E[C].mode
    <3>1. Holding
      BY <2>3
    <3>2. C < P /\ C < T /\ Entry = E[C]
      BY <2>2, <3>1, FrontCommand
    <3>3. M[C + 1] = E[C].mode
      BY <2>2, <3>2, FrontMode
    <3> QED BY <3>2, <3>3
  <2>5. E[C].op = "draw" /\ cmode = M[C + 1]
    BY <2>2, <2>3 DEF History, InHand, ModeEnds
  <2>6. C \in (IF Drew THEN C + 1 ELSE C)..T - 1
    BY <2>3, <2>4
  <2>7. E[C].frame = frame /\ espec = frame /\ lib[E[C].arg] = frame
    BY <2>2, <2>5, <2>6 DEF History, Frames
  <2> QED BY <2>4, <2>5, <2>7
<1> QED BY <1>1, HistoryHolds, PTL

\* VDP2REND_StateAction saves and loads with the queue drained and the render
\* thread out of ConsumeCommand.
THEOREM StateIsSettledHolds == Spec => []StateIsSettled
<1>1. IInv => StateIsSettled
  <2> SUFFICES ASSUME IInv, ppc = "state" PROVE Nothing /\ ~Executing /\ cpc # "pop"
    BY DEF StateIsSettled
  <2>1. Nothing
    BY DEF IInv, Control, Settled, Nothing
  <2>2. ~Holding
    BY <2>1, StateFacts DEF IInv
  <2> QED BY <2>1, <2>2 DEF Holding, Executing
<1> QED BY <1>1, HistoryHolds, PTL

\* The emulation thread never waits, in its event or in the join, for a render
\* thread that sleeps with nobody about to wake it or that has gone.
THEOREM NobodyStrandedHolds == Spec => []NobodyStranded
<1>1. IInv => NobodyStranded
  <2> SUFFICES ASSUME IInv PROVE NobodyStranded
    OBVIOUS
  <2>1. Phases /\ Wakes /\ TypeOK
    BY DEF IInv, Control
  <2>2. ppc \in {"stop", "join"} /\ cpc \notin {"popped", "ended"} => ~Nothing
    BY StateFacts DEF IInv
  <2>3. ppc = "join" => ~(cpc = "parked" /\ ~wakeSig)
    BY <2>1, <2>2 DEF Wakes
  <2>4. ppc = "parked" /\ ~drainSig => ~(cpc = "parked" /\ ~wakeSig)
    BY <2>1 DEF Wakes
  <2>5. ppc = "parked" => cpc \notin {"off", "ended"}
    <3> SUFFICES ASSUME ppc = "parked", cpc = "ended" PROVE FALSE
      BY <2>1 DEF Phases
    <3>1. Gone
      BY <2>1 DEF Phases, Gone
    <3>2. SomeHistory
      BY DEF IInv
    <3>3. Gone => ppc \in {"stop", "join"}
      BY <3>2 DEF SomeHistory, History, Exits
    <3> QED BY <3>1, <3>3
  <2> QED BY <2>3, <2>4, <2>5 DEF NobodyStranded, AsleepForGood
<1> QED BY <1>1, HistoryHolds, PTL
=============================================================================
