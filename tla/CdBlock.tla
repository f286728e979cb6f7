------------------------------ MODULE CdBlock ------------------------------
(* The CD block's buffers (mednafen/ss/cdb.c): the free list, the           *)
(* partitions and the filters that lead a sector to one; the host's         *)
(* transfer; the file system code and the MPEG card, which take sectors     *)
(* from partitions on their own; and the commands that work on them all.    *)
(*                                                                          *)
(* Filters and partitions have the same numbers.  A sector's contents are   *)
(* what tells it apart for a filter.  A command is one step up to its       *)
(* answer; what the block does after the answer (the resets) is another,    *)
(* and the drive, the card and the host's data port go on between them.     *)
EXTENDS Naturals, FiniteSets, SequencesExt, FiniteSetsExt

CONSTANTS
  Parts,        \* filters and partitions, 0..0x17
  None,         \* 0xFF
  Buffers,      \* 0..199
  Kinds, Blank, \* contents of sectors; Blank is a cleared buffer
  Conditions,   \* what a filter may be set to let through
  FlagSets,     \* what a program asks the selector to reset
  CardParts,    \* the partitions the MPEG card deletes from
  MaxSettings   \* bound: commands that change filters or work on files, and resets

NumBuffers == Cardinality(Buffers)
Sectors == Kinds \cup {Blank}
Index == Buffers \cup {None}
Ends == Parts \cup {None}

\* What Reset Selector may reset
Flags == {"partitions", "conditions", "inputs", "trueConns", "falseConns"}

ASSUME BlockConstants ==
  /\ IsFiniteSet(Buffers) /\ Buffers # {} /\ IsFiniteSet(Parts) /\ Parts # {}
  /\ MaxSettings \in Nat
  /\ None \notin Parts \cup Buffers
  /\ Blank \notin Kinds
  /\ Conditions \subseteq SUBSET Sectors
  /\ CardParts \subseteq Parts
  /\ FlagSets \subseteq (SUBSET Flags) \ {{}}

VARIABLES
  pool,       \* Buffers[].Prev and .Next, FirstFreeBuf, FreeBufferCount, Partitions[]
  Data,       \* Buffers[].Data
  CDDevConn, TrueConn, FalseConn,
  Pass,       \* what each filter's condition lets through
  DT,         \* the transfer: Active, Writing, NeedBufFree, FNum, BufList, CurBufIndex
  FLS,        \* the file system code
  phase,      \* CommandPhase: idle, answered (what a command left to do is not done), reset
  ResetSelPending, SWResetPending,
  disturbed,  \* history: a sector was taken away while a transfer read from its partition
  settings    \* how many of those there were

vars == <<pool, Data, CDDevConn, TrueConn, FalseConn, Pass, DT, FLS, phase,
          ResetSelPending, SWResetPending, disturbed, settings>>

buffers  == <<pool, Data>>
filters  == <<CDDevConn, TrueConn, FalseConn, Pass>>
resets   == <<ResetSelPending, SWResetPending>>

-----------------------------------------------------------------------------
(* The lists.  None as an index stands for no element. *)

Pools == [Prev : [Buffers -> Index], Next : [Buffers -> Index],
          FirstFree : Index, FreeCount : Nat,
          First : [Parts -> Index], Last : [Parts -> Index], Count : [Parts -> Nat]]

\* base, after what each of the steps makes of it, one after the other
InTurn(base, steps) ==
  LET after[n \in 0..Len(steps)] == IF n = 0 THEN base ELSE steps[n][after[n - 1]]
  IN  after[Len(steps)]

Set(f, i, v) == IF i = None THEN f ELSE [f EXCEPT ![i] = v]

\* ResetBuffers: every buffer is free, in whatever order
EmptyPools ==
  {LET place == AntiFunction(order) IN
   [Prev |-> [b \in Buffers |-> IF place[b] = 1 THEN None ELSE order[place[b] - 1]],
    Next |-> [b \in Buffers |-> IF place[b] = NumBuffers THEN None ELSE order[place[b] + 1]],
    FirstFree |-> order[1], FreeCount |-> NumBuffers,
    First |-> [p \in Parts |-> None], Last |-> [p \in Parts |-> None],
    Count |-> [p \in Parts |-> 0]] : order \in SetToSeqs(Buffers)}

\* The buffers of the list that begins at first
Chain(pl, first) ==
  IF first = None THEN <<>>
  ELSE InTurn(<<first>>,
         [n \in 1..(NumBuffers - 1) |-> [list \in Seq(Buffers) |->
            IF pl.Next[Last(list)] = None THEN list ELSE Append(list, pl.Next[Last(list)])]])

Allocated(pl) == pl.FirstFree

Buffer_Allocate(pl) ==
  LET b == pl.FirstFree IN
  [pl EXCEPT !.FirstFree = pl.Next[b],
             !.FreeCount = @ - 1,
             !.Prev = [Set(@, pl.Next[b], pl.Prev[b]) EXCEPT ![b] = None],
             !.Next[b] = None]

Buffer_Free(pl, b) ==
  [pl EXCEPT !.Prev = [Set(@, pl.FirstFree, b) EXCEPT ![b] = None],
             !.Next[b] = pl.FirstFree,
             !.FreeCount = @ + 1,
             !.FirstFree = b]

\* A plausible bug: a buffer is linked before the first one.
MutPartition_LinkBuffer(pl, p, b) ==
  [pl EXCEPT !.Prev = [Set(@, pl.First[p], b) EXCEPT ![b] = None],
             !.Next[b] = pl.First[p],
             !.First[p] = b,
             !.Last[p] = IF @ = None THEN b ELSE @,
             !.Count[p] = @ + 1]

Partition_LinkBuffer(pl, p, b) ==
  [pl EXCEPT !.Next = [Set(@, pl.Last[p], b) EXCEPT ![b] = None],
             !.Prev[b] = pl.Last[p],
             !.First[p] = IF @ = None THEN b ELSE @,
             !.Last[p] = b,
             !.Count[p] = @ + 1]

\* A plausible bug: the last buffer of a partition is unlinked as any other.
MutPartition_UnlinkBuffer(pl, p, b) ==
  [pl EXCEPT !.Next = [Set(@, pl.Prev[b], pl.Next[b]) EXCEPT ![b] = None],
             !.Prev = [Set(@, pl.Next[b], pl.Prev[b]) EXCEPT ![b] = None],
             !.First[p] = IF pl.Prev[b] = None THEN pl.Next[b] ELSE @,
             !.Count[p] = @ - 1]

Partition_UnlinkBuffer(pl, p, b) ==
  [pl EXCEPT !.Next = [Set(@, pl.Prev[b], pl.Next[b]) EXCEPT ![b] = None],
             !.Prev = [Set(@, pl.Next[b], pl.Prev[b]) EXCEPT ![b] = None],
             !.First[p] = IF pl.Prev[b] = None THEN pl.Next[b] ELSE @,
             !.Last[p] = IF pl.Next[b] = None THEN pl.Prev[b] ELSE @,
             !.Count[p] = @ - 1]

UnlinkAll(pl, p, list) ==
  InTurn(pl, [n \in DOMAIN list |-> [q \in Pools |-> Partition_UnlinkBuffer(q, p, list[n])]])

Delete(pl, p, list) ==
  InTurn(pl, [n \in DOMAIN list |-> [q \in Pools |->
                Buffer_Free(Partition_UnlinkBuffer(q, p, list[n]), list[n])]])

Partition_Clear(pl, p) == Delete(pl, p, Chain(pl, pl.First[p]))

\* The buffers at the places from..from+n-1 of a partition
Segment(p, from, n) == SubSeq(Chain(pool, pool.First[p]), from, from + n - 1)

-----------------------------------------------------------------------------
(* The filters. *)

\* Where a sector that enters at filter f comes out: at most one partition,
\* after at most as many filters as there are.
Destination(f, sector) ==
  LET last == InTurn(f, [n \in 1..(Cardinality(Parts) - 1) |-> [g \in Ends |->
                           IF g = None \/ sector \in Pass[g] THEN g ELSE FalseConn[g]]])
  IN  IF last # None /\ sector \in Pass[last] THEN TrueConn[last] ELSE None

FilterBuf(pl, f, b, sector) ==
  IF Destination(f, sector) = None THEN Buffer_Free(pl, b)
  ELSE Partition_LinkBuffer(pl, Destination(f, sector), b)

\* What is connected to f's input is disconnected.
Unplugged(f) == [g \in Parts |-> IF FalseConn[g] = f THEN None ELSE FalseConn[g]]

Filter_DisconnectInput(f) ==
  /\ CDDevConn' = IF CDDevConn = f THEN None ELSE CDDevConn
  /\ FalseConn' = Unplugged(f)

\* SetCDDeviceConn(f), Filter_SetTrueConn(f, f) and Filter_SetFalseConn(f, None)
ConnectDevice(f) ==
  /\ CDDevConn' = f
  /\ FalseConn' = [Unplugged(f) EXCEPT ![f] = None]
  /\ TrueConn' = [TrueConn EXCEPT ![f] = f]
  /\ \E c \in Conditions : Pass' = [Pass EXCEPT ![f] = c]

-----------------------------------------------------------------------------
(* The transfer. *)

NoTransfer == [Active |-> FALSE, Writing |-> FALSE, NeedBufFree |-> FALSE, FNum |-> None,
               BufList |-> <<>>, CurBufIndex |-> 1]

Transfer(writing, free, f, list) ==
  [Active |-> TRUE, Writing |-> writing, NeedBufFree |-> free, FNum |-> f,
   BufList |-> list, CurBufIndex |-> 1]

\* The buffers a transfer to the host has still to read from their partition
Unread ==
  IF DT.Active /\ ~DT.Writing /\ ~DT.NeedBufFree
  THEN {DT.BufList[i] : i \in DT.CurBufIndex..Len(DT.BufList)} ELSE {}

\* A plausible bug: the card is not kept from what the host reads.
MutDT_ReadsBuffer(b) == FALSE

DT_ReadsBuffer(b) ==
  /\ DT.Active /\ ~DT.Writing
  /\ \E i \in DT.CurBufIndex..Len(DT.BufList) : DT.BufList[i] = b

\* Sectors are removed by their owner's leave: those a transfer still reads too.
TakenAway(removed) == disturbed' = (disturbed \/ removed \cap Unread # {})

\* A sector the host reads through the data port, or writes to it
HostReads ==
  /\ DT.Active /\ ~DT.Writing /\ DT.CurBufIndex <= Len(DT.BufList)
  /\ DT' = [DT EXCEPT !.CurBufIndex = @ + 1]
  /\ UNCHANGED <<buffers, filters, FLS, phase, resets, disturbed, settings>>

HostWrites ==
  /\ DT.Active /\ DT.Writing /\ DT.CurBufIndex <= Len(DT.BufList)
  /\ \E k \in Kinds : Data' = [Data EXCEPT ![DT.BufList[DT.CurBufIndex]] = k]
  /\ DT' = [DT EXCEPT !.CurBufIndex = @ + 1]
  /\ UNCHANGED <<pool, filters, FLS, phase, resets, disturbed, settings>>

-----------------------------------------------------------------------------
(* The drive and the MPEG card, at every update. *)

SectorRead ==
  /\ pool.FreeCount > 0
  /\ \E k \in Kinds :
       /\ pool' = FilterBuf(Buffer_Allocate(pool), CDDevConn, Allocated(pool), k)
       /\ Data' = [Data EXCEPT ![Allocated(pool)] = k]
  /\ UNCHANGED <<filters, DT, FLS, phase, resets, disturbed, settings>>

MPEG_Pull ==
  /\ \E p \in CardParts :
       LET b == pool.First[p] IN
       /\ b # None /\ ~DT_ReadsBuffer(b)
       /\ pool' = Delete(pool, p, <<b>>)
  /\ UNCHANGED <<Data, filters, DT, FLS, phase, resets, disturbed, settings>>

-----------------------------------------------------------------------------
(* The file system code, a coroutine that runs when no command is pending. *)

NoFile == [state |-> "none", auth |-> FALSE, pnum |-> None]

FilesRun == phase = "idle" /\ ~SWResetPending /\ UNCHANGED <<phase, resets>>

Emptied(p) == /\ pool' = Partition_Clear(pool, p)
              /\ TakenAway(Range(Chain(pool, pool.First[p])))

\* The root directory may be known already.
FlsStart ==
  /\ FilesRun /\ FLS.state = "begin"
  /\ ConnectDevice(FLS.pnum)
  /\ FLS' = [FLS EXCEPT !.state = "wait"]
  /\ \/ UNCHANGED <<pool, disturbed>>
     \/ ~FLS.auth /\ Emptied(FLS.pnum)
  /\ UNCHANGED <<Data, DT, settings>>

\* FLS_WAIT_GRAB_BUF: the sector is taken.  The code then waits for another one,
\* or empties the partition: to go on to the directory, or at its end.
FlsGrab ==
  /\ FilesRun /\ FLS.state = "wait" /\ pool.First[FLS.pnum] # None
  /\ \/ /\ ~FLS.auth
        /\ pool' = Delete(pool, FLS.pnum, <<pool.First[FLS.pnum]>>)
        /\ TakenAway({pool.First[FLS.pnum]})
        /\ UNCHANGED <<filters, FLS>>
     \/ /\ ~FLS.auth /\ Emptied(FLS.pnum)
        /\ \/ FLS' = NoFile /\ UNCHANGED Pass
           \/ FLS' = FLS /\ \E c \in Conditions : Pass' = [Pass EXCEPT ![FLS.pnum] = c]
        /\ UNCHANGED <<CDDevConn, TrueConn, FalseConn>>
     \/ /\ FLS.auth /\ Emptied(FLS.pnum)
        /\ FLS' = NoFile /\ CDDevConn' = None
        /\ UNCHANGED <<TrueConn, FalseConn, Pass>>
  /\ UNCHANGED <<Data, DT, settings>>

\* Acting on ABORT_FILE; one given before the operation aborts its beginning.
FlsAbort ==
  /\ FilesRun /\ FLS.state # "none" /\ (FLS.auth => FLS.state = "begin")
  /\ FLS' = NoFile
  /\ UNCHANGED <<buffers, filters, DT, disturbed, settings>>

-----------------------------------------------------------------------------
(* The commands.  One that is told to wait, or rejected, changes nothing. *)

Command == phase = "idle" /\ ~FLS.auth

\* A reset that waited for this command comes next.
Done == /\ phase' = IF SWResetPending THEN "answered" ELSE "idle"
        /\ UNCHANGED resets

Setting == settings < MaxSettings /\ settings' = settings + 1

SET_CDDEVCONN ==
  /\ Command /\ Done /\ Setting
  /\ \E f \in Parts \cup {None} : CDDevConn' = f /\ FalseConn' = Unplugged(f)
  /\ UNCHANGED <<buffers, TrueConn, Pass, DT, FLS, disturbed>>

\* SET_FILTRANGE, SET_FILTSUBHC and SET_FILTMODE
SET_FILTCOND ==
  /\ Command /\ Done /\ Setting
  /\ \E f \in Parts, c \in Conditions : Pass' = [Pass EXCEPT ![f] = c]
  /\ UNCHANGED <<buffers, CDDevConn, TrueConn, FalseConn, DT, FLS, disturbed>>

SetFalseConn(f, to) ==
  /\ CDDevConn' = IF to # None /\ CDDevConn = to THEN None ELSE CDDevConn
  /\ FalseConn' = [IF to = None THEN FalseConn ELSE Unplugged(to) EXCEPT ![f] = to]

SET_FILTCONN ==
  /\ Command /\ Done /\ Setting
  /\ \E f \in Parts, p \in Parts \cup {None}, to \in Parts \cup {None} :
       /\ TrueConn' \in {TrueConn, [TrueConn EXCEPT ![f] = p]}
       /\ SetFalseConn(f, to) \/ UNCHANGED <<CDDevConn, FalseConn>>
  /\ UNCHANGED <<buffers, Pass, DT, FLS, disturbed>>

\* The places of a partition a command may name
Places(p) == {r \in (1..pool.Count[p]) \X (1..pool.Count[p]) : r[1] + r[2] - 1 <= pool.Count[p]}

GET_SECDATA ==
  /\ Command /\ Done /\ ~DT.Active
  /\ \E p \in Parts : \E r \in Places(p) : DT' = Transfer(FALSE, FALSE, None, Segment(p, r[1], r[2]))
  /\ disturbed' = FALSE
  /\ UNCHANGED <<buffers, filters, FLS, settings>>

GETDEL_SECDATA ==
  /\ Command /\ Done /\ ~DT.Active
  /\ \E p \in Parts : \E r \in Places(p) :
       /\ DT' = Transfer(FALSE, TRUE, None, Segment(p, r[1], r[2]))
       /\ pool' = UnlinkAll(pool, p, Segment(p, r[1], r[2]))
  /\ disturbed' = FALSE
  /\ UNCHANGED <<Data, filters, FLS, settings>>

\* A running transfer does not keep sectors from being deleted.
DEL_SECDATA ==
  /\ Command /\ Done
  /\ \E p \in Parts : \E r \in Places(p) :
       /\ pool' = Delete(pool, p, Segment(p, r[1], r[2]))
       /\ TakenAway(Range(Segment(p, r[1], r[2])))
  /\ UNCHANGED <<Data, filters, DT, FLS, settings>>

\* GET_TOC, GET_SUBCODE and GET_FINFO transfer no buffer.
GET_TOC ==
  /\ Command /\ Done /\ ~DT.Active
  /\ DT' = Transfer(FALSE, FALSE, None, <<None>>)
  /\ disturbed' = FALSE
  /\ UNCHANGED <<buffers, filters, FLS, settings>>

PUT_SECDATA ==
  /\ Command /\ Done /\ ~DT.Active
  /\ \E f \in Parts, n \in 1..pool.FreeCount :
       LET taken == SubSeq(Chain(pool, pool.FirstFree), 1, n) IN
       /\ Filter_DisconnectInput(f)
       /\ DT' = Transfer(TRUE, FALSE, f, taken)
       /\ pool' = InTurn(pool, [i \in 1..n |-> [q \in Pools |-> Buffer_Allocate(q)]])
       /\ Data' = [b \in Buffers |-> IF b \in Range(taken) THEN Blank ELSE Data[b]]
  /\ disturbed' = FALSE
  /\ UNCHANGED <<TrueConn, Pass, FLS, settings>>

EndWriting ==
  /\ DT.Writing
  /\ Filter_DisconnectInput(DT.FNum)
  /\ pool' = InTurn(pool, [n \in DOMAIN DT.BufList |-> [q \in Pools |->
                             FilterBuf(q, DT.FNum, DT.BufList[n], Data[DT.BufList[n]])]])

EndReading ==
  /\ ~DT.Writing
  /\ pool' = IF DT.NeedBufFree
             THEN InTurn(pool, [n \in DOMAIN DT.BufList |-> [q \in Pools |->
                                  Buffer_Free(q, DT.BufList[n])]])
             ELSE pool
  /\ UNCHANGED <<CDDevConn, FalseConn>>

END_DATAXFER ==
  /\ Command /\ Done /\ DT.Active
  /\ EndWriting \/ EndReading
  /\ DT' = NoTransfer
  /\ UNCHANGED <<Data, TrueConn, Pass, FLS, disturbed, settings>>

MOVE_SECDATA ==
  /\ Command /\ Done /\ ~DT.Active
  /\ \E p \in Parts, f \in Parts : \E r \in Places(p) :
       LET list == Segment(p, r[1], r[2]) IN
       /\ Filter_DisconnectInput(f)
       /\ pool' = InTurn(pool, [n \in DOMAIN list |-> [q \in Pools |->
                    FilterBuf(Partition_UnlinkBuffer(q, p, list[n]), f, list[n], Data[list[n]])]])
  /\ UNCHANGED <<Data, TrueConn, Pass, DT, FLS, disturbed, settings>>

States == [pool : Pools, data : [Buffers -> Sectors]]

\* The sector in s is copied to the first free buffer, and that is filtered.
CopySector(state, f, s) ==
  LET b == Allocated(state.pool) IN
  [pool |-> FilterBuf(Buffer_Allocate(state.pool), f, b, state.data[s]),
   data |-> [state.data EXCEPT ![b] = state.data[s]]]

COPY_SECDATA ==
  /\ Command /\ Done /\ ~DT.Active
  /\ \E p \in Parts, f \in Parts : \E r \in Places(p) :
       LET list == Segment(p, r[1], r[2])
           copied == InTurn([pool |-> pool, data |-> Data],
                            [n \in DOMAIN list |-> [s \in States |-> CopySector(s, f, list[n])]])
       IN  /\ r[2] <= pool.FreeCount
           /\ Filter_DisconnectInput(f)
           /\ pool' = copied.pool /\ Data' = copied.data
  /\ UNCHANGED <<TrueConn, Pass, DT, FLS, disturbed, settings>>

\* The MPEG card's program is put into the partition behind a filter.
GET_MPEGROM ==
  /\ Command /\ Done
  /\ \E f \in Parts, n \in 1..pool.FreeCount :
       LET taken == SubSeq(Chain(pool, pool.FirstFree), 1, n) IN
       /\ TrueConn[f] # None
       /\ pool' = InTurn(pool, [i \in 1..n |-> [q \in Pools |->
                    Partition_LinkBuffer(Buffer_Allocate(q), TrueConn[f], Allocated(q))]])
       /\ Data' = [b \in Buffers |-> IF b \in Range(taken) THEN Blank ELSE Data[b]]
  /\ UNCHANGED <<filters, DT, FLS, disturbed, settings>>

\* CHANGE_DIR and READ_DIR; AUTH when it is one of authentication
FileCommand ==
  /\ Command /\ Done /\ Setting /\ FLS.state = "none"
  /\ \E p \in Parts, auth \in BOOLEAN : FLS' = [state |-> "begin", auth |-> auth, pnum |-> p]
  /\ UNCHANGED <<buffers, filters, DT, disturbed>>

READ_FILE ==
  /\ Command /\ Done /\ Setting /\ FLS.state = "none"
  /\ \E p \in Parts : Emptied(p) /\ ConnectDevice(p)
  /\ UNCHANGED <<Data, DT, FLS>>

\* RESET_SEL of one partition
RESET_SEL ==
  /\ Command /\ Done
  /\ \E p \in Parts : Emptied(p)
  /\ UNCHANGED <<Data, filters, DT, FLS, settings>>

RESET_SEL_All ==
  /\ Command /\ Setting
  /\ ResetSelPending' \in FlagSets /\ phase' = "answered"
  /\ UNCHANGED <<buffers, filters, DT, FLS, SWResetPending, disturbed>>

\* A command that is already pending is done before the reset.
INIT ==
  /\ Command /\ Setting
  /\ SWResetPending' = TRUE
  /\ UNCHANGED <<buffers, filters, DT, FLS, phase, ResetSelPending, disturbed>>

-----------------------------------------------------------------------------
(* What is left to do after an answer, and the resets. *)

ResetSelector ==
  /\ phase = "answered" /\ ResetSelPending # {}
  /\ ResetSelPending' = {}
  /\ phase' = IF SWResetPending THEN "answered" ELSE "idle"
  /\ IF "partitions" \in ResetSelPending
     THEN /\ \E order \in SetToSeqs(Parts) :
               pool' = InTurn(pool, [n \in DOMAIN order |-> [q \in Pools |->
                                       Partition_Clear(q, order[n])]])
          /\ TakenAway(UNION {Range(Chain(pool, pool.First[p])) : p \in Parts})
     ELSE UNCHANGED <<pool, disturbed>>
  /\ Pass' = IF "conditions" \in ResetSelPending THEN [f \in Parts |-> Sectors] ELSE Pass
  /\ CDDevConn' = IF "inputs" \in ResetSelPending THEN None ELSE CDDevConn
  /\ TrueConn' = IF "trueConns" \in ResetSelPending THEN [f \in Parts |-> f] ELSE TrueConn
  /\ FalseConn' = IF ResetSelPending \cap {"inputs", "falseConns"} # {}
                  THEN [f \in Parts |-> None] ELSE FalseConn
  /\ UNCHANGED <<Data, DT, FLS, SWResetPending, settings>>

\* SWReset: what a reset of the block and one of its software both do
SWReset ==
  /\ pool' \in EmptyPools
  /\ CDDevConn' = None
  /\ TrueConn' = [f \in Parts |-> f] /\ FalseConn' = [f \in Parts |-> None]
  /\ Pass' = [f \in Parts |-> Sectors]
  /\ DT' = NoTransfer /\ FLS' = NoFile
  /\ SWResetPending' = FALSE /\ disturbed' = FALSE
  /\ phase' = "idle"
  /\ UNCHANGED <<Data, settings>>

SoftwareReset ==
  /\ phase \in {"idle", "answered"} /\ SWResetPending /\ ResetSelPending = {}
  /\ SWReset
  /\ UNCHANGED ResetSelPending

\* CDB_ResetCD, and the end of the reset it begins
ResetCD ==
  /\ phase' = "reset" /\ Setting
  /\ UNCHANGED <<buffers, filters, DT, FLS, resets, disturbed>>

ResetDone == phase = "reset" /\ SWReset /\ ResetSelPending' = {}

-----------------------------------------------------------------------------
Init ==
  /\ pool \in EmptyPools /\ Data = [b \in Buffers |-> Blank]
  /\ CDDevConn = None
  /\ TrueConn = [f \in Parts |-> f] /\ FalseConn = [f \in Parts |-> None]
  /\ Pass = [f \in Parts |-> Sectors]
  /\ DT = NoTransfer /\ FLS = NoFile
  /\ phase = "idle" /\ ResetSelPending = {} /\ SWResetPending = FALSE
  /\ disturbed = FALSE /\ settings = 0

Next ==
  \/ HostReads \/ HostWrites \/ SectorRead \/ MPEG_Pull
  \/ FlsStart \/ FlsGrab \/ FlsAbort
  \/ SET_CDDEVCONN \/ SET_FILTCOND \/ SET_FILTCONN
  \/ GET_SECDATA \/ GETDEL_SECDATA \/ DEL_SECDATA \/ GET_TOC \/ PUT_SECDATA
  \/ END_DATAXFER \/ MOVE_SECDATA \/ COPY_SECDATA \/ GET_MPEGROM
  \/ FileCommand \/ READ_FILE \/ RESET_SEL \/ RESET_SEL_All \/ INIT
  \/ ResetSelector \/ SoftwareReset \/ ResetCD \/ ResetDone

Spec == Init /\ [][Next]_vars

-----------------------------------------------------------------------------
(* Properties. *)

FiltersOK ==
  /\ CDDevConn \in Ends
  /\ TrueConn \in [Parts -> Ends] /\ FalseConn \in [Parts -> Ends]
  /\ Pass \in [Parts -> SUBSET Sectors]

TransferOK ==
  /\ DT \in [Active : BOOLEAN, Writing : BOOLEAN, NeedBufFree : BOOLEAN, FNum : Ends,
             BufList : Seq(Index), CurBufIndex : Nat \ {0}]
  /\ DT.CurBufIndex <= Len(DT.BufList) + 1
  /\ DT.Writing => DT.FNum \in Parts

FilesOK ==
  /\ FLS \in [state : {"none", "begin", "wait"}, auth : BOOLEAN, pnum : Ends]
  /\ FLS.state # "none" => FLS.pnum \in Parts

\* Every variable has its type.
TypeOK ==
  /\ pool \in Pools
  /\ Data \in [Buffers -> Sectors]
  /\ FiltersOK /\ TransferOK /\ FilesOK
  /\ phase \in {"idle", "answered", "reset"}
  /\ ResetSelPending \subseteq Flags /\ SWResetPending \in BOOLEAN
  /\ disturbed \in BOOLEAN /\ settings \in 0..MaxSettings

\* The buffers the transfer keeps out of every list
InHand == IF DT.Active /\ (DT.Writing \/ DT.NeedBufFree) THEN DT.BufList ELSE <<>>

Contents(p) == Chain(pool, pool.First[p])

\* A list is linked both ways between its ends, and counted.
Linked(list, last, count) ==
  /\ Len(list) = count
  /\ last = (IF list = <<>> THEN None ELSE list[Len(list)])
  /\ \A i \in DOMAIN list : pool.Prev[list[i]] = (IF i = 1 THEN None ELSE list[i - 1])

\* Whatever the drive, the card, the file system code and the commands do to the
\* lists, every buffer is on exactly one of them or in the transfer's hands, and
\* the lists are whole: what the assertions of Buffer_Free, Partition_LinkBuffer
\* and Partition_UnlinkBuffer rely on, and the sanity check of a loaded state.
BuffersConserved ==
  LET list == [e \in Ends |-> IF e = None THEN Chain(pool, pool.FirstFree) ELSE Contents(e)] IN
  /\ \A p \in Parts : Linked(list[p], pool.Last[p], pool.Count[p])
  /\ Len(list[None]) = pool.FreeCount
  /\ Buffers = Range(InHand) \cup UNION {Range(list[e]) : e \in Ends}
  /\ IsInjective(InHand)
  /\ \A e \in Ends : IsInjective(list[e]) /\ Range(list[e]) \cap Range(InHand) = {}
  /\ \A e, f \in Ends : e # f => Range(list[e]) \cap Range(list[f]) = {}
  /\ \A i \in DOMAIN InHand : pool.Prev[InHand[i]] = None /\ pool.Next[InHand[i]] = None

\* A filter's input is connected to the drive or to one other filter's false
\* output, or to nothing: every command that connects disconnects first.  A
\* sector therefore never enters a filter by two ways, and the chain that begins
\* at the drive never comes back to a filter it went through.
OneInput ==
  \A f \in Parts :
    /\ \A g, h \in Parts : FalseConn[g] = f /\ FalseConn[h] = f => g = h
    /\ CDDevConn = f => \A g \in Parts : FalseConn[g] # f

\* The sectors of a Get Sector Data are read by the host while they stay in their
\* partition: the card, which empties partitions by itself, leaves them there,
\* unless a command or the file system code took one away.
ReadsHeldSectors ==
  ~disturbed => Unread \cap Buffers \subseteq UNION {Range(Contents(p)) : p \in Parts}

\* Partitions are sequences of sectors: each operation does to them what its name
\* says, keeps the order and the contents of all others, and takes no more room
\* than there is.
SectorsOf(list) == [i \in DOMAIN list |-> Data[list[i]]]

Pool == INSTANCE SectorPool
          WITH Room <- NumBuffers, Nowhere <- None,
               parts <- [p \in Parts |-> SectorsOf(Contents(p))],
               hand <- SectorsOf(InHand)

ImplementsSectorPool == Pool!Spec
=============================================================================
