------------------------------ MODULE CdReader ------------------------------
(***************************************************************************)
(* mednafen/cdrom/cdromif.c, the threaded reader: the emulation thread     *)
(* asks for sectors and hints at the next ones, a worker reads them from   *)
(* the image.  Sectors live in a fixed pool of slots whose ownership moves *)
(* through two queues, free (to the worker) and ready (from it).           *)
(*                                                                         *)
(* The queues are the FIFOs of BoundedFifo, with the waits WaitableSpsc    *)
(* provides; `work' is a WaitEvent whose waiter is the worker.  A sequence *)
(* number and the copy of it last seen are one flag, "new": the worker     *)
(* only ever compares them for equality.                                   *)
(*                                                                         *)
(* The names of state and specification are the reader's own (ReaderInit,  *)
(* ReaderSpec): CdBlockProofs extends this module and CdBlock.             *)
(***************************************************************************)
EXTENDS Integers, Sequences, FiniteSets

CONSTANTS
  MaxLba,       \* CDIF_LBA_Read_Maximum; addresses count from the minimum
  CacheSize,    \* CDIF_SBSIZE, 256
  Circulating,  \* slots between the threads, and queue capacity: 32
  ReadAhead,    \* the demanded sector and those after it: 17
  Flaky,        \* addresses the image may fail to read
  FastSub       \* addresses whose subchannel needs no read of the image

ASSUME SizesAssumption ==
  /\ MaxLba \in Nat /\ CacheSize \in Nat \ {0}
  /\ Circulating \in Nat \ {0} /\ ReadAhead \in Nat \ {0}
  /\ Flaky \subseteq 0..MaxLba /\ FastSub \subseteq 0..MaxLba

LBAs == 0..MaxLba
Slots == 0..CacheSize + Circulating - 1
Lines == 0..CacheSize - 1
Nothing == -1

VARIABLES
  \* the emulation thread
  epc,            \* its next step
  goal,           \* what it does for the caller: "none", "fetch", "hint", or "answered"
  lba,            \* the address it was called with
  demanding,      \* a demand is out
  held,           \* the slot in its hand, or Nothing
  cache,          \* CacheSlot
  reserveCount,   \* ReserveCount
  got,            \* what the read copied out: a content, or Nothing if it failed
  \* shared
  free, ready,    \* free_sectors, ready_sectors
  cancelled,      \* free_sectors.cancelled
  stopping,
  request, requestLba,  \* request_seq is new to the worker; request_lba
  hint, hintLba,        \* the same for hints
  sector,         \* SectorPool: address, content and success of the last read
  \* the worker
  wpc,            \* its next step
  sig,            \* `work' was notified since the worker prepared to wait
  sawRequest, sawHint,  \* what its loads at the loop's head found
  raLba, raCount, lastReadLba, demanded,
  taken           \* the slot in its hand, or Nothing

emuVars == <<epc, goal, lba, demanding, held, cache, reserveCount, got>>
mailVars == <<request, requestLba, hint, hintLba>>
workVars == <<wpc, sawRequest, sawHint, raLba, raCount, lastReadLba, demanded, taken>>
cacheVars == <<held, cache, reserveCount>>
poolVars == <<free, ready, cancelled, stopping, sector>>
newsVars == <<request, hint, sawRequest, sawHint>>
windowVars == <<raLba, raCount, lastReadLba, demanded>>
readerVars == <<emuVars, mailVars, workVars, free, ready, cancelled, stopping, sector, sig>>

-----------------------------------------------------------------------------
(* CDIF_Open, with the worker about to run. *)
ReaderInit ==
  /\ epc = "idle" /\ goal = "none" /\ lba = 0 /\ demanding = FALSE
  /\ held = Nothing /\ cache = [i \in Lines |-> Nothing] /\ reserveCount = CacheSize
  /\ got = Nothing
  /\ free = [i \in 1..Circulating |-> i - 1] /\ ready = <<>>
  /\ cancelled = FALSE /\ stopping = FALSE
  /\ request = FALSE /\ requestLba = 0 /\ hint = FALSE /\ hintLba = 0
  /\ sector = [s \in Slots |-> [lba |-> Nothing, content |-> Nothing, ok |-> FALSE]]
  /\ wpc = "loop" /\ sig = FALSE
  /\ sawRequest = FALSE /\ sawHint = FALSE
  /\ raLba = 0 /\ raCount = 0 /\ lastReadLba = MaxLba + 1 /\ demanded = FALSE
  /\ taken = Nothing

(* CDIF_Cached: the cache line of address l, when it holds that address. *)
Line(l) == l % CacheSize
Holds(l) == cache[Line(l)] # Nothing /\ sector[cache[Line(l)]].lba = l

(* A write to a queue of Circulating slots; one that does not fit is lost. *)
Put(queue, s) == IF Len(queue) < Circulating THEN Append(queue, s) ELSE queue

(* retro_eventcount_notify(&work): seen if the worker holds a key. *)
Preparing == {"stopping?", "request?", "hint?", "waiting"}
MutNotify == UNCHANGED sig
Notify == sig' = (sig \/ wpc \in Preparing)

Goto(from, to) == epc = from /\ epc' = to

-----------------------------------------------------------------------------
(* The emulation thread.  Calls with an address out of range return at once *)
(* and change nothing.                                                      *)

(* CDIF_MT_ReadRawSector and CDIF_MT_Hint. *)
Call ==
  /\ Goto("idle", "drain")
  /\ goal' \in {"fetch", "hint"}
  /\ lba' \in LBAs
  /\ UNCHANGED <<demanding, cacheVars, got, mailVars, workVars, poolVars, sig>>

(* CDIF_MT_ReadRawSectorPWOnly calls the image's own method first. *)
CallPWOnly ==
  /\ Goto("idle", "fastpw")
  /\ lba' \in LBAs
  /\ UNCHANGED <<goal, demanding, cacheVars, got, mailVars, workVars, poolVars, sig>>

FastPW ==
  /\ epc = "fastpw"
  /\ \/ lba \in FastSub /\ epc' = "idle" /\ goal' = "none" /\ lba' = 0
     \/ lba \in FastSub /\ epc' = "drain" /\ goal' = "hint" /\ UNCHANGED lba
     \/ lba \notin FastSub /\ epc' = "drain" /\ goal' = "fetch" /\ UNCHANGED lba
  /\ UNCHANGED <<demanding, cacheVars, got, mailVars, workVars, poolVars, sig>>

(* After a take, or once no more can be taken: the caller's sector is in   *)
(* the cache and is copied to it, or the thread goes on to `otherwise'.    *)
CopyOrGo(otherwise) ==
  IF Holds(lba)
  THEN LET s == sector[cache[Line(lba)]] IN
       /\ got' = IF s.ok THEN s.content ELSE Nothing
       /\ goal' = "answered" /\ demanding' = FALSE /\ epc' = "drain"
  ELSE epc' = otherwise /\ UNCHANGED <<got, goal, demanding>>

(* while (CDIF_TakeSector(self, false)), and what follows the loop: a fetch *)
(* looks the sector up, a hint is posted.                                   *)
Drain ==
  /\ epc = "drain"
  /\ IF ready # <<>> THEN epc' = "take" /\ UNCHANGED <<got, goal, demanding>>
     ELSE IF goal = "fetch" THEN CopyOrGo("requestlba")
     ELSE epc' = "hintlba" /\ UNCHANGED <<got, goal, demanding>>
  /\ UNCHANGED <<lba, cacheVars, mailVars, workVars, poolVars, sig>>

(* The slot takes its line of the cache, and the one it evicts there, or   *)
(* one of Reserve, is the one to give back.                                *)
Evict(slot) ==
  LET line == Line(sector[slot].lba) IN
  /\ cache' = [cache EXCEPT ![line] = slot]
  /\ IF cache[line] # Nothing
     THEN held' = cache[line] /\ UNCHANGED reserveCount
     ELSE held' = Circulating + reserveCount - 1 /\ reserveCount' = reserveCount - 1

(* CDIF_TakeSector: a slot out of ready... *)
Take ==
  /\ Goto("take", "giveback")
  /\ ready' = Tail(ready)
  /\ Evict(Head(ready))
  /\ UNCHANGED <<goal, lba, demanding, got, mailVars, workVars, free, cancelled, stopping, sector, sig>>

(* ...and one into free, before the loop around the take goes on. *)
GiveBack ==
  /\ epc = "giveback"
  /\ free' = Put(free, held)
  /\ held' = Nothing
  /\ IF demanding THEN CopyOrGo("waitready") ELSE epc' = "drain" /\ UNCHANGED <<got, goal, demanding>>
  /\ UNCHANGED <<lba, cache, reserveCount, mailVars, workVars, ready, cancelled, stopping, sector, sig>>

(* CDIF_MT_Fetch: the demand is posted, and the sectors taken until it is *)
(* among them.                                                            *)
RequestLba ==
  /\ Goto("requestlba", "requestseq")
  /\ requestLba' = lba
  /\ UNCHANGED <<goal, lba, demanding, cacheVars, got, request, hint, hintLba,
                 workVars, poolVars, sig>>

RequestSeq ==
  /\ Goto("requestseq", "requestnotify")
  /\ request' = TRUE
  /\ demanding' = TRUE
  /\ UNCHANGED <<goal, lba, cacheVars, got, requestLba, hint, hintLba,
                 workVars, poolVars, sig>>

RequestNotify ==
  /\ Goto("requestnotify", "waitready")
  /\ Notify
  /\ UNCHANGED <<goal, lba, demanding, cacheVars, got, mailVars, workVars, poolVars>>

(* The blocking take: a wait that times out finds the reader not stopping *)
(* (only this thread stops it) and waits again.                           *)
WaitReady ==
  /\ Goto("waitready", "take")
  /\ ready # <<>>
  /\ UNCHANGED <<goal, lba, demanding, cacheVars, got, mailVars, workVars, poolVars, sig>>

HintLba ==
  /\ Goto("hintlba", "hintseq")
  /\ hintLba' = lba
  /\ UNCHANGED <<goal, lba, demanding, cacheVars, got, request, requestLba, hint,
                 workVars, poolVars, sig>>

HintSeq ==
  /\ Goto("hintseq", "hintnotify")
  /\ hint' = TRUE
  /\ UNCHANGED <<goal, lba, demanding, cacheVars, got, request, requestLba, hintLba,
                 workVars, poolVars, sig>>

(* The call returns. *)
HintNotify ==
  /\ Goto("hintnotify", "idle")
  /\ Notify
  /\ goal' = "none" /\ lba' = 0 /\ got' = Nothing
  /\ UNCHANGED <<demanding, cacheVars, mailVars, workVars, poolVars>>

(* CDIF_Close.  Nobody but this thread waits on ready, so of the two      *)
(* cancellations the one of free_sectors is kept.                         *)
Stop ==
  /\ Goto("idle", "stopnotify")
  /\ stopping' = TRUE
  /\ UNCHANGED <<goal, lba, demanding, cacheVars, got, mailVars, workVars, free, ready, cancelled, sector, sig>>

StopNotify ==
  /\ Goto("stopnotify", "cancel")
  /\ Notify
  /\ UNCHANGED <<goal, lba, demanding, cacheVars, got, mailVars, workVars, poolVars>>

CancelQueues ==
  /\ Goto("cancel", "join")
  /\ cancelled' = TRUE
  /\ UNCHANGED <<goal, lba, demanding, cacheVars, got, mailVars, workVars, free, ready, stopping, sector, sig>>

Join ==
  /\ Goto("join", "closed")
  /\ wpc = "exited"
  /\ UNCHANGED <<goal, lba, demanding, cacheVars, got, mailVars, workVars, poolVars, sig>>

-----------------------------------------------------------------------------
(* The worker, CDIF_MT_ReadThreadBody. *)

WGoto(from, to) == wpc = from /\ wpc' = to
WorkerOnly == UNCHANGED <<emuVars, requestLba, hintLba, cancelled, stopping>>

LoopHead ==
  /\ wpc = "loop"
  /\ wpc' = IF stopping THEN "exited" ELSE "loadrequest"
  /\ WorkerOnly
  /\ UNCHANGED <<newsVars, windowVars, taken, free, ready, sector, sig>>

(* The loads of the two sequence numbers: what they find is no longer new. *)
LoadRequest ==
  /\ WGoto("loadrequest", "loadhint")
  /\ sawRequest' = request /\ request' = FALSE
  /\ WorkerOnly
  /\ UNCHANGED <<hint, sawHint, windowVars, taken, free, ready, sector, sig>>

LoadHint ==
  /\ WGoto("loadhint", "decide")
  /\ sawHint' = hint /\ hint' = FALSE
  /\ WorkerOnly
  /\ UNCHANGED <<request, sawRequest, windowVars, taken, free, ready, sector, sig>>

(* A demand moves the window to its sector, whatever was hinted. *)
ServeRequest ==
  /\ sawRequest
  /\ raLba' = requestLba /\ lastReadLba' = requestLba
  /\ raCount' = ReadAhead
  /\ demanded' = TRUE

(* A hint inside the window tops it up; one outside it is a seek. *)
ServeHint ==
  /\ ~sawRequest /\ sawHint
  /\ IF hintLba = lastReadLba
     THEN UNCHANGED <<raLba, raCount>>
     ELSE IF hintLba > lastReadLba /\ hintLba <= raLba
          THEN /\ raCount' = IF hintLba + ReadAhead > raLba THEN hintLba + ReadAhead - raLba ELSE 0
               /\ UNCHANGED raLba
          ELSE raLba' = hintLba /\ raCount' = ReadAhead
  /\ lastReadLba' = hintLba
  /\ UNCHANGED demanded

NothingNew == ~sawRequest /\ ~sawHint /\ UNCHANGED windowVars

Decide ==
  /\ WGoto("decide", "window")
  /\ ServeRequest \/ ServeHint \/ NothingNew
  /\ sawRequest' = FALSE /\ sawHint' = FALSE
  /\ WorkerOnly
  /\ UNCHANGED <<request, hint, taken, free, ready, sector, sig>>

InWindow == raCount > 0 /\ raLba <= MaxLba

(* A slot out of free is the worker's, and its data is cleared; the address *)
(* it held is not.                                                          *)
TakeFree ==
  /\ free # <<>> /\ wpc' = "read"
  /\ taken' = Head(free) /\ free' = Tail(free)
  /\ sector' = [sector EXCEPT ![Head(free)].content = Nothing]

NoTake == UNCHANGED <<taken, free, sector>>

MutMustWait == FALSE
MustWait == demanded

(* Read-ahead gives way when no slot is free; a demand waits for one. *)
Window ==
  /\ wpc = "window"
  /\ \/ ~InWindow /\ wpc' = "prepare" /\ raCount' = 0 /\ NoTake
     \/ InWindow /\ MustWait /\ wpc' = "waitfree" /\ UNCHANGED raCount /\ NoTake
     \/ InWindow /\ ~MustWait /\ free = <<>> /\ wpc' = "loop" /\ raCount' = 0 /\ NoTake
     \/ InWindow /\ ~MustWait /\ TakeFree /\ UNCHANGED raCount
  /\ WorkerOnly
  /\ UNCHANGED <<newsVars, raLba, lastReadLba, demanded, ready, sig>>

(* wait_readable on free_sectors: true when a slot is there; when it is   *)
(* cancelled or late it is called again, unless the reader is stopping.   *)
WaitFree ==
  /\ wpc = "waitfree"
  /\ TakeFree \/ (free = <<>> /\ stopping /\ wpc' = "exited" /\ NoTake)
  /\ WorkerOnly
  /\ UNCHANGED <<newsVars, windowVars, ready, sig>>

MutPush(ok) == ready' = (IF ok THEN Put(ready, taken) ELSE ready) /\ taken' = Nothing
Push(ok) == ready' = Put(ready, taken) /\ taken' = Nothing

Address == raLba

(* Read_Raw_Sector returns: the slot holds raLba, or an error for it, and *)
(* goes to ready.                                                         *)
ReadSector ==
  /\ WGoto("read", "loop")
  /\ \E ok \in BOOLEAN :
       /\ ok \/ raLba \in Flaky
       /\ sector' = [sector EXCEPT ![taken] =
                       [lba |-> Address, content |-> IF ok THEN raLba ELSE Nothing, ok |-> ok]]
       /\ Push(ok)
  /\ raLba' = raLba + 1
  /\ raCount' = raCount - 1
  /\ demanded' = FALSE
  /\ WorkerOnly
  /\ UNCHANGED <<newsVars, lastReadLba, free, sig>>

MutNewHint == FALSE
NewHint == hint

(* Nothing to read: prepare, load the three words again, cancel or commit. *)
PrepareWait ==
  /\ WGoto("prepare", "stopping?")
  /\ sig' = FALSE
  /\ WorkerOnly
  /\ UNCHANGED <<newsVars, windowVars, taken, free, ready, sector>>

RecheckNews ==
  /\ \/ wpc = "stopping?" /\ wpc' = IF stopping THEN "loop" ELSE "request?"
     \/ wpc = "request?" /\ wpc' = IF request THEN "loop" ELSE "hint?"
     \/ wpc = "hint?" /\ wpc' = IF NewHint THEN "loop" ELSE "waiting"
  /\ sig' = (sig /\ wpc' # "loop")
  /\ WorkerOnly
  /\ UNCHANGED <<newsVars, windowVars, taken, free, ready, sector>>

(* commit_wait returns, notified or not. *)
WaitReturn ==
  /\ WGoto("waiting", "loop")
  /\ sig' = FALSE
  /\ WorkerOnly
  /\ UNCHANGED <<newsVars, windowVars, taken, free, ready, sector>>

-----------------------------------------------------------------------------
(* What the emulation thread does of its own accord, and what a call that *)
(* it has made goes on to do.                                             *)
EmuCalls == Call \/ CallPWOnly \/ Stop
EmuRuns ==
  \/ FastPW \/ Drain \/ Take \/ GiveBack
  \/ RequestLba \/ RequestSeq \/ RequestNotify \/ WaitReady
  \/ HintLba \/ HintSeq \/ HintNotify
  \/ StopNotify \/ CancelQueues \/ Join

Worker ==
  \/ LoopHead \/ LoadRequest \/ LoadHint \/ Decide \/ Window \/ WaitFree \/ ReadSector \/ PrepareWait \/ RecheckNews
  \/ (sig /\ WaitReturn)

Closed == epc = "closed" /\ UNCHANGED readerVars

ReaderNext == EmuCalls \/ EmuRuns \/ Worker \/ WaitReturn \/ Closed

(* The threads run, reads of the image end, and notified waits return; no *)
(* timeout is relied on.                                                  *)
ReaderSpec == ReaderInit /\ [][ReaderNext]_readerVars /\ WF_readerVars(EmuRuns) /\ WF_readerVars(Worker)

-----------------------------------------------------------------------------
ReaderTypeOK ==
  /\ epc \in {"idle", "fastpw", "drain", "take", "giveback", "requestlba",
             "requestseq", "requestnotify", "waitready", "hintlba", "hintseq",
             "hintnotify", "stopnotify", "cancel", "join", "closed"}
  /\ goal \in {"none", "fetch", "answered", "hint"}
  /\ lba \in LBAs /\ requestLba \in LBAs /\ hintLba \in LBAs
  /\ held \in Slots \cup {Nothing} /\ taken \in Slots \cup {Nothing}
  /\ cache \in [Lines -> Slots \cup {Nothing}] /\ reserveCount \in 0..CacheSize
  /\ got \in LBAs \cup {Nothing}
  /\ free \in Seq(Slots) /\ ready \in Seq(Slots)
  /\ sector \in [Slots -> [lba : LBAs \cup {Nothing}, content : LBAs \cup {Nothing}, ok : BOOLEAN]]
  /\ wpc \in {"loop", "loadrequest", "loadhint", "decide", "window", "waitfree",
             "read", "prepare", "waiting", "exited"} \cup Preparing
  /\ raLba \in 0..MaxLba + 1 /\ lastReadLba \in 0..MaxLba + 1 /\ raCount \in 0..ReadAhead
  /\ demanding \in BOOLEAN /\ cancelled \in BOOLEAN /\ stopping \in BOOLEAN
  /\ request \in BOOLEAN /\ hint \in BOOLEAN /\ sig \in BOOLEAN
  /\ sawRequest \in BOOLEAN /\ sawHint \in BOOLEAN /\ demanded \in BOOLEAN

(* The slots a thread or a queue owns.  "No shared sector is concurrently *)
(* copied and rewritten" (cdromif.c line 14): no slot has two owners.     *)
InFree(s) == \E i \in DOMAIN free : free[i] = s
InReady(s) == \E i \in DOMAIN ready : ready[i] = s
InCache(s) == \E i \in Lines : cache[i] = s
InReserve(s) == s >= Circulating /\ s < Circulating + reserveCount

OneOwner ==
  /\ \A i, j \in DOMAIN free : free[i] = free[j] => i = j
  /\ \A i, j \in DOMAIN ready : ready[i] = ready[j] => i = j
  /\ \A i, j \in Lines : cache[i] = cache[j] /\ cache[i] # Nothing => i = j
  /\ \A s \in Slots :
       /\ InFree(s) => ~InReady(s) /\ ~InCache(s) /\ ~InReserve(s) /\ s # held /\ s # taken
       /\ InReady(s) => ~InCache(s) /\ ~InReserve(s) /\ s # held /\ s # taken
       /\ InCache(s) => ~InReserve(s) /\ s # held /\ s # taken
       /\ InReserve(s) => s # held /\ s # taken
       /\ s = held => s # taken

(* As many slots circulate as each queue holds ("32 slots circulate between *)
(* the threads and the queues never overflow", line 69): no write is cut,   *)
(* and none is lost.                                                        *)
Carried(s) == IF s = Nothing THEN 0 ELSE 1
Circulate == Len(free) + Len(ready) + Carried(held) + Carried(taken) = Circulating

(* Reserve holds a slot for every line that is still empty, so taking one *)
(* from it never underflows ReserveCount.                                 *)
ReserveCoversCache == reserveCount = Cardinality({i \in Lines : cache[i] = Nothing})

(* No slot is lost, invented or shared, whatever reads, hints, read-ahead *)
(* and shutdown do to each other (cdromif.c lines 14, 69, 170-176).       *)
SlotsConserved == OneOwner /\ Circulate /\ ReserveCoversCache

(* The worker does not go to sleep on a hint, nor leave one for ever.    *)
HintSeen == hint ~> (~hint \/ stopping)

(* CDIF_Close ends, wherever it catches the worker. *)
CloseEnds == stopping ~> epc = "closed"

(* The reader seen by its caller: a call that fetches is an Ask, the copy *)
(* its Answer, and the return of the call is Done.                        *)
Service == INSTANCE SectorService WITH
  Sectors <- LBAs,
  st <- IF goal = "fetch" THEN "asked" ELSE IF goal = "answered" THEN "answered" ELSE "idle",
  want <- IF goal \in {"fetch", "answered"} THEN lba ELSE 0,
  answer <- got

(* Every read returns, with the content of the sector it asked for or with *)
(* an error that the image gave for it: read-ahead never keeps a slot, or  *)
(* the worker, from a demand.                                              *)
ImplementsSectorService == Service!Spec
=============================================================================
