------------------------------ MODULE CdDrive ------------------------------
(* The drive of the CD block (mednafen/ss/cdb.c): its phases, from the open *)
(* tray through startup and seeking to play and pause; the sector read      *)
(* ahead into SecPreBuf; repeats, pauses when the buffers are full, and the *)
(* interrupt at the end of a play.                                          *)
(*                                                                          *)
(* A step is one expiry of DriveCounter (a tick), one of                    *)
(* PeriodicIdleCounter, or one command.  The counters become an order: a    *)
(* tick in PLAY or PAUSE sets the periodic counter to 17712 clocks, less    *)
(* than to the next tick, and a periodic reload (187065) is longer than a   *)
(* sector takes.  Positions are sector numbers, counted from 1 as 0 stands  *)
(* for no sector; plays by track and index, and the fields of the reports,  *)
(* are left out.  The partition the sectors go to is a queue the host takes *)
(* from (CdBlock has its lists).                                            *)
EXTENDS Integers, Sequences

CONSTANTS
  First, LeadOut,   \* the program area: 150, and 150 + toc.tracks[100].lba
  Audio,            \* sectors of audio tracks
  NumBuffers,       \* 200 in the code
  Forever,          \* 0xF, the repeat count that never ends
  Jump,             \* how far a scan jumps
  Discs, NoDisc,    \* the images, and the null pointer
  Plays,            \* plays the host asks for: [start, end, repeat]
  Patient,          \* the host gives commands only to a drive that is ready
  WaitsForPause,    \* it lets a pause take effect before it plays on from there
  MaxCommands       \* bound: commands given in a behaviour

ASSUME DriveConstants ==
  /\ {First, LeadOut, NumBuffers, Forever, Jump, MaxCommands} \subseteq Nat
  /\ 1 < First /\ First < LeadOut /\ 0 < Forever
  /\ Audio \subseteq First..LeadOut
  /\ NoDisc \notin Discs
  /\ Plays \subseteq [start : Nat, end : 0..LeadOut, repeat : 0..Forever]
  /\ {Patient, WaitsForPause} \subseteq BOOLEAN

VARIABLES
  TrayOpen, Cur_CDIF,
  TOC_Buffer,     \* the disc whose contents the host sees; NoDisc is 0xFF..
  AuthDiscType,   \* # 0: sectors are stored
  authenticating, \* FLS.Active and FLS.DoAuth: the block looks at the first sector itself
  DrivePhase,
  idle,           \* PeriodicIdleCounter: "due" before the next tick, "done" until it, "free"
  CurSector,
  fad,            \* CurPosInfo.fad
  SecPreBuf,      \* 0 when SecPreBuf_In is 0, otherwise the sector in it, negative
                  \* when Pause has made SecPreBuf_In negative
  play,           \* CurPlayStart, CurPlayEnd, CurPlayRepeat
  PlayEndIRQ,     \* PlayEndIRQType # 0
  repeats,        \* PlayRepeatCounter without its top bit
  repeated,       \* its top bit
  PauseCounter,
  ScanMode,       \* -1, 0 (forward), 1 (backward)
  buffers,        \* sectors stored for the host
  pend,           \* HIRQ_PEND
  SWResetPending,
  commands        \* commands given so far

driveVars == <<TrayOpen, Cur_CDIF, TOC_Buffer, AuthDiscType, authenticating, DrivePhase, idle,
               CurSector, fad, SecPreBuf, play, PlayEndIRQ, repeats, repeated, PauseCounter, ScanMode, buffers,
               pend, SWResetPending, commands>>
tray    == <<TrayOpen, Cur_CDIF>>
request == <<play, PlayEndIRQ>>
passing == <<repeats, repeated>>
stored  == <<buffers, pend>>
block   == <<TOC_Buffer, AuthDiscType, authenticating>>
host    == <<SWResetPending, commands>>

NoWhere == 2 * (LeadOut + Jump) + MaxCommands   \* the position 0xFFFFFF

Ejected     == {"EJECTED0", "EJECTED1", "EJECTED_WAITING", "STARTUP"}
SeekPhases  == {"SEEK_START1", "SEEK_START2", "SEEK_START3", "SEEK"}
Phases      == Ejected \cup SeekPhases \cup {"RESETTING", "STOPPED", "PLAY", "PAUSE"}

\* CurPlayEnd 0x800000 is end 0, always met; CurPlayEnd 0, no end, is LeadOut.
AtOnce  == 0
NoPlay  == [start |-> 0, end |-> LeadOut, repeat |-> 0]
Halted  == [play EXCEPT !.end = AtOnce, !.repeat = 0]

SeekTarget(s) == IF s < First THEN First ELSE IF s > LeadOut THEN LeadOut ELSE s

CheckEndMet == fad >= LeadOut \/ fad >= play.end \/ fad < play.start

FreeBufferCount == NumBuffers - Len(buffers)

Held == IF SecPreBuf < 0 THEN -SecPreBuf ELSE SecPreBuf

-----------------------------------------------------------------------------
\* ClearPendingSec also empties the CD-DA samples.
ClearPendingSec == SecPreBuf' = 0 /\ PlayEndIRQ' = FALSE

EnterSeek ==
  /\ DrivePhase' = "SEEK_START2" /\ idle' = "free"

\* ForceCompletePendingSeekStartup, as far as it lasts: the position of the
\* seek it overtakes.
ForceCompletePendingSeekStartup ==
  fad' = IF DrivePhase = "SEEK_START1" THEN SeekTarget(play.start) ELSE fad

StartSeek(p, irq, no_pickup_change) ==
  IF Cur_CDIF = NoDisc
  THEN UNCHANGED <<DrivePhase, idle, fad, SecPreBuf, request, passing, ScanMode>>
  ELSE /\ ForceCompletePendingSeekStartup
       /\ repeats' = 0 /\ repeated' = FALSE
       /\ play' = p /\ PlayEndIRQ' = irq
       /\ SecPreBuf' = IF no_pickup_change THEN SecPreBuf ELSE 0
       /\ IF no_pickup_change /\ DrivePhase = "PLAY" /\ ScanMode < 0
          THEN UNCHANGED <<DrivePhase, idle, ScanMode>>
          ELSE /\ ScanMode' = -1 /\ idle' = "free"
               /\ DrivePhase' = IF no_pickup_change THEN "SEEK_START2" ELSE "SEEK_START1"

StartScan(mode) ==
  IF Cur_CDIF = NoDisc
  THEN UNCHANGED <<DrivePhase, idle, fad, SecPreBuf, request, ScanMode>>
  ELSE /\ ForceCompletePendingSeekStartup
       /\ ClearPendingSec
       /\ ScanMode' = mode
       /\ play' = [play EXCEPT !.repeat = 0]
       /\ IF DrivePhase = "PLAY"
          THEN idle' = "done" /\ UNCHANGED DrivePhase
          ELSE EnterSeek

\* Called wherever buffers are given back.
CheckBufPauseResume(free) ==
  IF DrivePhase = "PAUSE" /\ ~CheckEndMet /\ free > 0
  THEN SecPreBuf' = 0 /\ EnterSeek
  ELSE UNCHANGED <<SecPreBuf, DrivePhase, idle>>

-----------------------------------------------------------------------------
(* Ticks: DriveCounter has run out. *)

Eject0 ==
  /\ DrivePhase = "EJECTED0"
  /\ TOC_Buffer' = NoDisc /\ AuthDiscType' = FALSE
  /\ fad' = NoWhere
  /\ DrivePhase' = "EJECTED1"
  /\ UNCHANGED <<tray, authenticating, idle, CurSector, SecPreBuf, request, passing, PauseCounter, ScanMode, stored, host>>

Eject1 ==
  /\ DrivePhase = "EJECTED1"
  /\ DrivePhase' = "EJECTED_WAITING"
  /\ UNCHANGED <<tray, block, idle, CurSector, fad, SecPreBuf, request, passing, PauseCounter,
                 ScanMode, stored, host>>

EjectedWaiting ==
  /\ DrivePhase = "EJECTED_WAITING" /\ Cur_CDIF # NoDisc
  /\ DrivePhase' = "STARTUP"
  /\ UNCHANGED <<tray, block, idle, CurSector, fad, SecPreBuf, request, passing, PauseCounter,
                 ScanMode, stored, host>>

Startup ==
  /\ DrivePhase = "STARTUP"
  /\ TOC_Buffer' = Cur_CDIF   \* TranslateTOC
  /\ StartSeek([start |-> First, end |-> AtOnce, repeat |-> 0], FALSE, FALSE)
  /\ UNCHANGED <<tray, AuthDiscType, authenticating, CurSector, PauseCounter, stored, host>>

\* SeekStart1 and SeekStart2
SeekStart ==
  /\ DrivePhase \in {"SEEK_START1", "SEEK_START2"}
  /\ fad' = IF DrivePhase = "SEEK_START1" THEN SeekTarget(play.start) ELSE fad
  /\ DrivePhase' = "SEEK_START3"
  /\ UNCHANGED <<tray, block, idle, CurSector, SecPreBuf, request, passing, PauseCounter, ScanMode,
                 stored, host>>

SeekStart3 ==
  /\ DrivePhase = "SEEK_START3"
  /\ CurSector' = fad
  /\ DrivePhase' = "SEEK"
  /\ UNCHANGED <<tray, block, idle, fad, SecPreBuf, request, passing, PauseCounter, ScanMode, stored, host>>

\* A subchannel that does not decode; beyond the disc none does.
SeekMiss ==
  /\ DrivePhase = "SEEK" /\ CurSector < LeadOut
  /\ CurSector' = CurSector + 1
  /\ UNCHANGED <<tray, block, DrivePhase, idle, fad, SecPreBuf, request, passing, PauseCounter,
                 ScanMode, stored, host>>

SeekHit ==
  /\ DrivePhase = "SEEK" /\ fad # NoWhere
  /\ CurSector' = fad
  /\ DrivePhase' = "PLAY"
  /\ UNCHANGED <<tray, block, idle, fad, SecPreBuf, request, passing, PauseCounter, ScanMode, stored, host>>

Ticking == DrivePhase \in {"PLAY", "PAUSE"} /\ idle # "due"

\* What a tick in PLAY does with the sector read at the one before.
Discarded == SecPreBuf > 0 /\ (ScanMode >= 0 \/ SecPreBuf \in Audio)
Fits      == SecPreBuf > 0 /\ ~Discarded /\ FreeBufferCount > 0

\* ScanCounter, which makes every sixth step a jump, is a free choice.
ScanStep ==
  {CurSector + 1, IF ScanMode = 0 THEN CurSector + Jump
                  ELSE IF CurSector <= Jump THEN 1 ELSE CurSector - Jump}

StoreSector ==
  IF Fits /\ AuthDiscType THEN buffers' = Append(buffers, SecPreBuf) ELSE UNCHANGED buffers

\* A plausible bug: the pickup moves on although the sector was not stored.
MutPickupAfter == CurSector' = IF SecPreBuf > 0 THEN CurSector + 1 ELSE CurSector

\* CurSector after the tick
PickupAfter ==
  IF Discarded /\ ScanMode >= 0 THEN CurSector' \in ScanStep
  ELSE CurSector' = IF Discarded \/ Fits THEN CurSector + 1 ELSE CurSector

PlayTick ==
  /\ Ticking /\ DrivePhase = "PLAY"
  /\ StoreSector /\ PickupAfter
  /\ IF Discarded \/ Fits \/ SecPreBuf = 0
     THEN SecPreBuf' = CurSector' /\ fad' = CurSector'
     ELSE UNCHANGED <<SecPreBuf, fad>>
  /\ idle' = "due"
  /\ UNCHANGED <<tray, block, DrivePhase, request, passing, PauseCounter, ScanMode, pend, host>>

PauseTick ==
  /\ Ticking /\ DrivePhase = "PAUSE"
  /\ IF SecPreBuf = 0 THEN SecPreBuf' = CurSector /\ fad' = CurSector
     ELSE UNCHANGED <<SecPreBuf, fad>>
  /\ idle' = "due"
  /\ UNCHANGED <<tray, block, DrivePhase, CurSector, request, passing, PauseCounter, ScanMode, stored, host>>

Tick ==
  \/ Eject0 \/ Eject1 \/ EjectedWaiting \/ Startup \/ SeekStart \/ SeekStart3
  \/ SeekMiss \/ SeekHit \/ PlayTick \/ PauseTick

-----------------------------------------------------------------------------
(* PeriodicIdleCounter has run out.  Outside PLAY and PAUSE, and with       *)
(* nothing in SecPreBuf, it only makes a report.                            *)

IdleOut == DrivePhase \in {"PLAY", "PAUSE"} /\ idle # "done"

PeriodicNothing ==
  /\ IdleOut /\ SecPreBuf = 0
  /\ idle' = "done"
  /\ UNCHANGED <<tray, block, DrivePhase, CurSector, fad, SecPreBuf, request, passing, PauseCounter,
                 ScanMode, stored, host>>

\* A plausible bug: the interrupt is not disarmed when it has been given.
MutAnnounceEnd ==
  /\ pend' = (pend \/ (CheckEndMet /\ PlayEndIRQ /\ ~repeated))
  /\ UNCHANGED PlayEndIRQ

AnnounceEnd ==
  /\ pend' = (pend \/ (CheckEndMet /\ PlayEndIRQ /\ ~repeated))
  /\ PlayEndIRQ' = (PlayEndIRQ /\ ~CheckEndMet)

PeriodicPause ==
  /\ IdleOut /\ SecPreBuf # 0 /\ DrivePhase = "PAUSE"
  /\ SecPreBuf' = 0
  /\ PauseCounter' = IF PauseCounter \in {1, -1} THEN -1 ELSE PauseCounter + 1
  /\ IF PauseCounter = 1 THEN AnnounceEnd ELSE UNCHANGED <<pend, PlayEndIRQ>>
  /\ IF PauseCounter = -1 /\ ~CheckEndMet /\ FreeBufferCount > 0
     THEN EnterSeek
     ELSE idle' = "done" /\ UNCHANGED DrivePhase
  /\ UNCHANGED <<tray, block, CurSector, fad, play, passing, ScanMode, buffers, host>>

\* PlayRepeatCounter >= CurPlayRepeat; the top bit makes it the greater
PassesDone == repeated \/ repeats >= play.repeat

PeriodicEnd ==
  /\ IdleOut /\ SecPreBuf # 0 /\ DrivePhase = "PLAY" /\ CheckEndMet /\ PassesDone
  /\ SecPreBuf' = 0
  /\ CurSector' = fad
  /\ DrivePhase' = "PAUSE" /\ idle' = "done"
  /\ PauseCounter' = IF PlayEndIRQ THEN 0 ELSE 1
  /\ UNCHANGED <<tray, block, fad, request, passing, ScanMode, stored, host>>

PeriodicRepeat ==
  /\ IdleOut /\ SecPreBuf # 0 /\ DrivePhase = "PLAY" /\ CheckEndMet /\ ~PassesDone
  /\ SecPreBuf' = 0
  /\ repeats' = IF repeats < Forever - 1 THEN repeats + 1 ELSE repeats
  /\ repeated' = TRUE
  /\ fad' = SeekTarget(play.start)
  /\ DrivePhase' = "SEEK_START3" /\ idle' = "free"
  /\ UNCHANGED <<tray, block, CurSector, request, PauseCounter, ScanMode, stored, host>>

NoRoom == Held \notin Audio /\ FreeBufferCount = 0

PeriodicFull ==
  /\ IdleOut /\ SecPreBuf # 0 /\ DrivePhase = "PLAY" /\ ~CheckEndMet /\ NoRoom
  /\ SecPreBuf' = 0
  /\ DrivePhase' = "PAUSE" /\ idle' = "done" /\ PauseCounter' = 0
  /\ UNCHANGED <<tray, block, CurSector, fad, request, passing, ScanMode, stored, host>>

PeriodicPlay ==
  /\ IdleOut /\ SecPreBuf # 0 /\ DrivePhase = "PLAY" /\ ~CheckEndMet /\ ~NoRoom
  /\ repeated' = FALSE
  /\ idle' = "done"
  /\ UNCHANGED <<tray, block, DrivePhase, CurSector, fad, SecPreBuf, request, repeats, PauseCounter,
                 ScanMode, stored, host>>

Periodic ==
  \/ PeriodicNothing \/ PeriodicPause \/ PeriodicEnd \/ PeriodicRepeat
  \/ PeriodicFull \/ PeriodicPlay

-----------------------------------------------------------------------------
(* Commands of the host.  While the block resets it takes none. *)

Ready == DrivePhase # "RESETTING" /\ (Patient => DrivePhase \notin Ejected)

\* While it authenticates the block refuses every command.
Command ==
  /\ commands < MaxCommands /\ commands' = commands + 1
  /\ DrivePhase # "RESETTING" /\ ~authenticating

\* PLAY with bit 7 of the mode keeps the pickup where it is, which is nowhere
\* when the drive was stopped.
PlayCommand ==
  /\ Command /\ Ready
  /\ \E p \in Plays, keep \in BOOLEAN :
       /\ keep => (Patient => fad # NoWhere) /\ (WaitsForPause => SecPreBuf >= 0)
       /\ StartSeek(p, TRUE, keep)
  /\ UNCHANGED <<tray, block, CurSector, PauseCounter, stored, SWResetPending>>

SeekCommand ==
  /\ Command /\ Ready
  /\ \E p \in Plays : StartSeek([start |-> p.start, end |-> AtOnce, repeat |-> 0], FALSE, FALSE)
  /\ UNCHANGED <<tray, block, CurSector, PauseCounter, stored, SWResetPending>>

StopCommand ==
  /\ Command /\ Ready
  /\ ClearPendingSec
  /\ fad' = NoWhere
  /\ DrivePhase' = "STOPPED"
  /\ UNCHANGED <<tray, block, idle, CurSector, play, passing, PauseCounter, ScanMode, stored,
                 SWResetPending>>

Withheld == -Held

\* A stopped drive is spun up first.
PauseCommand ==
  /\ Command
  /\ IF DrivePhase = "STOPPED" /\ Cur_CDIF # NoDisc
     THEN StartSeek([start |-> First, end |-> AtOnce, repeat |-> 0], FALSE, FALSE)
     ELSE /\ SecPreBuf' = Withheld
          /\ PlayEndIRQ' = FALSE /\ play' = Halted
          /\ UNCHANGED <<DrivePhase, idle, fad, passing, ScanMode>>
  /\ UNCHANGED <<tray, block, CurSector, PauseCounter, stored, SWResetPending>>

ScanCommand ==
  /\ Command /\ Ready
  /\ Patient => fad # NoWhere
  /\ \E mode \in {0, 1} : StartScan(mode)
  /\ UNCHANGED <<tray, block, CurSector, passing, PauseCounter, stored, SWResetPending>>

InitCommand ==
  /\ Command
  /\ ClearPendingSec /\ play' = Halted
  /\ SWResetPending' \in {SWResetPending, TRUE}
  /\ UNCHANGED <<tray, block, DrivePhase, idle, CurSector, fad, passing, PauseCounter, ScanMode, stored>>

\* SWReset
SoftwareReset ==
  /\ SWResetPending /\ SWResetPending' = FALSE
  /\ ClearPendingSec /\ play' = Halted
  /\ buffers' = <<>> /\ authenticating' = FALSE
  /\ UNCHANGED <<tray, TOC_Buffer, AuthDiscType, DrivePhase, idle, CurSector, fad, passing,
                 PauseCounter, ScanMode, pend, commands>>

\* AUTH: an audio disc is taken as it is.  Of another the first sector is
\* played to the file system code, which takes it from its partition.
AuthCommand ==
  /\ Command /\ Ready
  /\ AuthDiscType' = TRUE
  /\ IF First \in Audio
     THEN UNCHANGED <<authenticating, DrivePhase, idle, fad, SecPreBuf, request, passing, ScanMode>>
     ELSE /\ authenticating' = TRUE
          /\ StartSeek([start |-> First, end |-> LeadOut, repeat |-> 0], FALSE, FALSE)
  /\ UNCHANGED <<tray, TOC_Buffer, CurSector, PauseCounter, stored, SWResetPending>>

\* Genuine or not, the disc's sectors are stored from now on.
Authenticated ==
  /\ authenticating /\ buffers # <<>> /\ DrivePhase # "RESETTING"
  /\ authenticating' = FALSE /\ AuthDiscType' = TRUE
  /\ buffers' = Tail(buffers)
  /\ IF Cur_CDIF = NoDisc
     THEN /\ play' = Halted /\ PlayEndIRQ' = FALSE
          /\ UNCHANGED <<DrivePhase, idle, fad, SecPreBuf, passing, ScanMode>>
     ELSE StartSeek([start |-> First, end |-> AtOnce, repeat |-> 0], FALSE, FALSE)
  /\ UNCHANGED <<tray, TOC_Buffer, CurSector, PauseCounter, pend, host>>

\* A sector is read out and its buffer given back.
HostTakes ==
  /\ buffers # <<>> /\ DrivePhase # "RESETTING" /\ ~authenticating
  /\ buffers' = Tail(buffers)
  /\ CheckBufPauseResume(FreeBufferCount + 1)
  /\ UNCHANGED <<tray, block, CurSector, fad, request, passing, PauseCounter, ScanMode, pend, host>>

HostClears ==
  /\ pend /\ pend' = FALSE
  /\ UNCHANGED <<tray, block, DrivePhase, idle, CurSector, fad, SecPreBuf, request, passing,
                 PauseCounter, ScanMode, buffers, host>>

Commands ==
  \/ PlayCommand \/ SeekCommand \/ StopCommand \/ PauseCommand \/ ScanCommand \/ InitCommand
  \/ AuthCommand

Host == Commands \/ SoftwareReset \/ Authenticated \/ HostTakes \/ HostClears

-----------------------------------------------------------------------------
(* The tray and the reset switch. *)

\* A plausible bug: a stopped drive does not notice that its tray is opened.
MutNotices == DrivePhase \notin {"RESETTING", "STOPPED"}

Notices == DrivePhase # "RESETTING"

SetDisc(tray_open, image) ==
  /\ TrayOpen' = tray_open
  /\ Cur_CDIF' = IF tray_open THEN NoDisc ELSE image
  /\ IF Cur_CDIF' = NoDisc /\ Notices
     THEN AuthDiscType' = FALSE /\ DrivePhase' = "EJECTED0" /\ idle' = "free"
     ELSE UNCHANGED <<AuthDiscType, DrivePhase, idle>>
  /\ UNCHANGED <<TOC_Buffer, authenticating, CurSector, fad, SecPreBuf, request, passing, PauseCounter, ScanMode,
                 stored, host>>

\* CDB_Reset(true); what it does not set is set by CDB_ResetCD's delayed part.
PowerOn ==
  /\ DrivePhase' = "RESETTING" /\ idle' = "free"
  /\ TOC_Buffer' = NoDisc /\ AuthDiscType' = FALSE /\ authenticating' = FALSE
  /\ CurSector' = 1 /\ fad' = 1 /\ SecPreBuf' = 0
  /\ play' = NoPlay /\ PlayEndIRQ' = FALSE /\ repeats' = 0 /\ repeated' = FALSE
  /\ PauseCounter' = 0 /\ ScanMode' = -1
  /\ buffers' = <<>> /\ pend' = FALSE /\ SWResetPending' = FALSE

Reset ==
  /\ PowerOn
  /\ UNCHANGED <<tray, commands>>

\* A plausible bug: a drive that has a disc is taken to be ready.
MutPhaseAfterReset == IF Cur_CDIF = NoDisc THEN "EJECTED_WAITING" ELSE "STOPPED"

PhaseAfterReset == "EJECTED_WAITING"

ResetDone ==
  /\ DrivePhase = "RESETTING"
  /\ DrivePhase' = PhaseAfterReset /\ idle' = "free"
  /\ TOC_Buffer' = NoDisc /\ AuthDiscType' = FALSE /\ authenticating' = FALSE
  /\ CurSector' = 1 /\ fad' = NoWhere
  /\ ClearPendingSec /\ play' = Halted
  /\ repeats' = 0 /\ repeated' = FALSE /\ ScanMode' = -1
  /\ buffers' = <<>> /\ SWResetPending' = FALSE
  /\ UNCHANGED <<tray, PauseCounter, pend, commands>>

DriveInit(image) ==
  /\ TrayOpen = FALSE /\ Cur_CDIF = image
  /\ DrivePhase = "RESETTING" /\ idle = "free"
  /\ TOC_Buffer = NoDisc /\ AuthDiscType = FALSE /\ authenticating = FALSE
  /\ CurSector = 1 /\ fad = 1 /\ SecPreBuf = 0
  /\ play = NoPlay /\ PlayEndIRQ = FALSE /\ repeats = 0 /\ repeated = FALSE
  /\ PauseCounter = 0 /\ ScanMode = -1
  /\ buffers = <<>> /\ pend = FALSE /\ SWResetPending = FALSE
  /\ commands = 0

DriveNext == Tick \/ Periodic \/ Host \/ ResetDone

\* The emulated time goes on; a host that is owed sectors takes them.
DriveFairness ==
  /\ WF_driveVars(Tick) /\ WF_driveVars(Periodic) /\ WF_driveVars(ResetDone)
  /\ WF_driveVars(HostTakes) /\ WF_driveVars(SoftwareReset) /\ WF_driveVars(Authenticated)

-----------------------------------------------------------------------------
(* Properties *)

Positions == 0..NoWhere

TypeOK ==
  /\ TrayOpen \in BOOLEAN /\ Cur_CDIF \in Discs \cup {NoDisc}
  /\ TOC_Buffer \in Discs \cup {NoDisc} /\ AuthDiscType \in BOOLEAN /\ authenticating \in BOOLEAN
  /\ DrivePhase \in Phases /\ idle \in {"due", "done", "free"}
  /\ CurSector \in Nat /\ fad \in Nat /\ SecPreBuf \in Int
  /\ play \in [start : Nat, end : 0..LeadOut, repeat : 0..Forever]
  /\ PlayEndIRQ \in BOOLEAN /\ repeats \in 0..Forever /\ repeated \in BOOLEAN
  /\ PauseCounter \in {-1, 0, 1} /\ ScanMode \in {-1, 0, 1}
  /\ buffers \in Seq(Nat) /\ Len(buffers) <= NumBuffers
  /\ pend \in BOOLEAN /\ SWResetPending \in BOOLEAN
  /\ commands \in 0..MaxCommands

\* The drive implements the play it was asked for.  The pickup's place is the
\* reported position, except before a seek has begun.
Promise == INSTANCE PlayService WITH
  queue    <- buffers,
  next     <- IF DrivePhase = "SEEK_START1" THEN SeekTarget(play.start) ELSE fad,
  passes   <- repeats,
  fresh    <- repeated,
  admitted <- SecPreBuf > 0 /\ (DrivePhase \in SeekPhases \/ (DrivePhase = "PLAY" /\ idle # "due")),
  armed    <- PlayEndIRQ,
  ended    <- pend,
  playing  <- DrivePhase \in SeekPhases \cup {"PLAY", "PAUSE"},
  scanning <- ScanMode >= 0,
  accepted <- AuthDiscType
=============================================================================
