--------------------------- MODULE DiscTrayProofs ---------------------------
(* HeldImageIsOpen and TocIsOfTheDisc, for any playlists, program areas,    *)
(* room and numbers of calls and commands, under what is asked of the front *)
(* end and the host: the tray is closed when a game is loaded, and commands *)
(* are given to a drive that is ready.  The invariant ties the tray's two   *)
(* flags together and says that no image is in two slots of the playlist:   *)
(* closing one slot's image would close the other's.                        *)
(*                                                                          *)
(* That every variable keeps its type, without these assumptions; and with  *)
(* them that the drive implements PlayService: PlayInv says where the       *)
(* pickup is and what becomes of the sector read ahead, and each action is  *)
(* one of the service's or a stutter.                                       *)
EXTENDS DiscTray, TLAPS

Spinning == SeekPhases \cup {"PLAY", "PAUSE", "STOPPED"}
Empty    == {"RESETTING", "EJECTED0", "EJECTED1", "EJECTED_WAITING"}

\* The front end's flag and the drive's agree, and an open tray is empty.
TrayInv ==
  /\ g_eject_state \in BOOLEAN /\ TrayOpen = g_eject_state
  /\ TrayOpen => Cur_CDIF = NoDisc
  /\ Cur_CDIF # NoDisc => Cur_CDIF \in open

\* An image is in one slot, and is open while it is there.
ListInv ==
  /\ disc_cdif \in Seq(Discs \cup {NoDisc}) /\ g_current_disc \in Nat \ {0}
  /\ \A i \in DOMAIN disc_cdif : disc_cdif[i] # NoDisc => disc_cdif[i] \in open
  /\ \A i, j \in DOMAIN disc_cdif : disc_cdif[i] = disc_cdif[j] /\ disc_cdif[i] # NoDisc => i = j

PhaseInv ==
  /\ DrivePhase \in Phases
  /\ DrivePhase \notin Empty => Cur_CDIF # NoDisc
  /\ DrivePhase \in Spinning => TOC_Buffer = Cur_CDIF

\* The block does not come back to an authentication through the tray.
AuthInv ==
  authenticating => DrivePhase # "RESETTING" /\ (DrivePhase \in Ejected => buffers = <<>>)

IInv == TrayInv /\ ListInv /\ PhaseInv /\ AuthInv

DriveInv == PhaseInv /\ AuthInv
-----------------------------------------------------------------------------
USE DEF Phases, Ejected, SeekPhases, Spinning, Empty

\* A drive that has read the contents goes from one phase to another.
LEMMA Spins ==
  ASSUME DriveInv, UNCHANGED <<tray, TOC_Buffer>>, DrivePhase \in Spinning, DrivePhase' \in Spinning
  PROVE  DriveInv'
BY DEF DriveInv, PhaseInv, AuthInv, tray

\* A step that leaves phase and contents alone, and stores nothing
LEMMA Rests ==
  ASSUME DriveInv, UNCHANGED <<tray, TOC_Buffer, DrivePhase>>,
         authenticating' => authenticating /\ buffers' = buffers
  PROVE  DriveInv'
BY DEF DriveInv, PhaseInv, AuthInv, tray

LEMMA TickStep ==
  ASSUME DriveInv, Tick
  PROVE  DriveInv'
<1>1. CASE Eject0 \/ Eject1 \/ EjectedWaiting
  BY <1>1 DEF Eject0, Eject1, EjectedWaiting, DriveInv, PhaseInv, AuthInv, tray, block, stored
<1>2. CASE Startup
  <2>1. Cur_CDIF # NoDisc
    BY <1>2 DEF Startup, DriveInv, PhaseInv
  <2>2. DrivePhase' = "SEEK_START1" /\ TOC_Buffer' = Cur_CDIF /\ Cur_CDIF' = Cur_CDIF
    BY <1>2, <2>1 DEF Startup, StartSeek, tray
  <2> QED BY <2>1, <2>2 DEF DriveInv, PhaseInv, AuthInv
<1>3. CASE SeekStart \/ SeekStart3 \/ SeekMiss \/ SeekHit
  BY <1>3, Spins DEF SeekStart, SeekStart3, SeekMiss, SeekHit, block
<1>4. CASE PlayTick \/ PauseTick
  BY <1>4, Spins DEF PlayTick, PauseTick, Ticking, block
<1> QED BY <1>1, <1>2, <1>3, <1>4 DEF Tick

LEMMA PeriodicStep ==
  ASSUME DriveInv, Periodic
  PROVE  DriveInv'
<1>1. DrivePhase \in Spinning /\ UNCHANGED <<tray, TOC_Buffer>>
  BY DEF Periodic, PeriodicNothing, PeriodicPause, PeriodicEnd, PeriodicRepeat, PeriodicFull, PeriodicPlay,
         IdleOut, block
<1>2. DrivePhase' \in Spinning
  BY <1>1 DEF Periodic, PeriodicNothing, PeriodicPause, PeriodicEnd, PeriodicRepeat, PeriodicFull, PeriodicPlay,
              EnterSeek
<1> QED BY <1>1, <1>2, Spins

\* A seek from a drive that spins leaves it spinning.
LEMMA SeekSpins ==
  ASSUME NEW p, NEW irq, NEW keep, StartSeek(p, irq, keep), DrivePhase \in Spinning
  PROVE  DrivePhase' \in Spinning
BY DEF StartSeek

LEMMA CommandStep ==
  ASSUME Patient, DriveInv, Commands
  PROVE  DriveInv'
<1>1. CASE PlayCommand \/ SeekCommand \/ StopCommand \/ ScanCommand \/ AuthCommand
  <2>1. DrivePhase \in Spinning
    BY <1>1 DEF PlayCommand, SeekCommand, StopCommand, ScanCommand, AuthCommand, Ready, DriveInv, PhaseInv
  <2>2. UNCHANGED <<tray, TOC_Buffer>>
    BY <1>1 DEF PlayCommand, SeekCommand, StopCommand, ScanCommand, AuthCommand, block
  <2>3. CASE PlayCommand
    BY <2>1, <2>2, <2>3, SeekSpins, Spins DEF PlayCommand
  <2>4. CASE SeekCommand
    BY <2>1, <2>2, <2>4, SeekSpins, Spins DEF SeekCommand
  <2>5. CASE StopCommand
    BY <2>1, <2>2, <2>5, Spins DEF StopCommand
  <2>6. CASE ScanCommand
    BY <2>1, <2>2, <2>6, Spins DEF ScanCommand, StartScan, EnterSeek
  <2>7. CASE AuthCommand
    BY <2>1, <2>2, <2>7, SeekSpins, Spins DEF AuthCommand
  <2> QED BY <1>1, <2>3, <2>4, <2>5, <2>6, <2>7
<1>2. CASE PauseCommand
  <2>1. UNCHANGED <<tray, block, stored>>
    BY <1>2 DEF PauseCommand
  <2>2. CASE DrivePhase = "STOPPED" /\ Cur_CDIF # NoDisc
    BY <1>2, <2>1, <2>2, SeekSpins, Spins DEF PauseCommand, block
  <2>3. CASE ~(DrivePhase = "STOPPED" /\ Cur_CDIF # NoDisc)
    <3>1. UNCHANGED <<tray, TOC_Buffer, DrivePhase, authenticating, buffers>>
      BY <1>2, <2>1, <2>3 DEF PauseCommand, block, stored
    <3> QED BY <3>1, Rests
  <2> QED BY <2>2, <2>3
<1>3. CASE InitCommand
  BY <1>3, Rests DEF InitCommand, block, stored
<1> QED BY <1>1, <1>2, <1>3 DEF Commands

LEMMA HostStep ==
  ASSUME Patient, DriveInv, Host
  PROVE  DriveInv'
<1>1. CASE SoftwareReset
  BY <1>1, Rests DEF SoftwareReset
<1>2. CASE Authenticated
  <2>1. DrivePhase \notin Ejected /\ DrivePhase # "RESETTING"
    BY <1>2 DEF Authenticated, DriveInv, AuthInv
  <2>2. DrivePhase \in Spinning
    BY <2>1 DEF DriveInv, PhaseInv
  <2>3. DrivePhase' \in Spinning
    BY <1>2, <2>2, SeekSpins DEF Authenticated
  <2> QED BY <1>2, <2>2, <2>3, Spins DEF Authenticated
<1>3. CASE HostTakes
  <2>1. UNCHANGED <<tray, TOC_Buffer>> /\ ~authenticating'
    BY <1>3 DEF HostTakes, block
  <2>2. UNCHANGED DrivePhase \/ (DrivePhase = "PAUSE" /\ DrivePhase' = "SEEK_START2")
    BY <1>3 DEF HostTakes, CheckBufPauseResume, EnterSeek
  <2> QED BY <2>1, <2>2, Rests, Spins
<1>4. CASE HostClears
  BY <1>4, Rests DEF HostClears, block
<1> QED BY <1>1, <1>2, <1>3, <1>4, CommandStep DEF Host

LEMMA DriveStep ==
  ASSUME Patient, IInv, DriveNext, UNCHANGED listVars
  PROVE  IInv'
<1>1. DriveInv
  BY DEF IInv, DriveInv
<1>2. DriveInv'
  <2>1. CASE ResetDone
    BY <2>1 DEF ResetDone, PhaseAfterReset, DriveInv, PhaseInv, AuthInv
  <2> QED BY <1>1, <2>1, TickStep, PeriodicStep, HostStep DEF DriveNext
<1>3. UNCHANGED tray
  BY DEF DriveNext, Tick, Eject0, Eject1, EjectedWaiting, Startup, SeekStart, SeekStart3, SeekMiss, SeekHit,
         PlayTick, PauseTick, Periodic, PeriodicNothing, PeriodicPause, PeriodicEnd, PeriodicRepeat,
         PeriodicFull, PeriodicPlay, Host, Commands, PlayCommand, SeekCommand, StopCommand, PauseCommand,
         ScanCommand, InitCommand, AuthCommand, SoftwareReset, Authenticated, HostTakes, HostClears, ResetDone
<1> QED BY <1>2, <1>3 DEF IInv, DriveInv, TrayInv, ListInv, listVars, tray
-----------------------------------------------------------------------------
LEMMA EjectStep ==
  ASSUME IInv, Eject
  PROVE  IInv'
<1>1. TrayInv' /\ ListInv'
  BY DEF IInv, Eject, SetDisc, TrayInv, ListInv
<1>2. Cur_CDIF' = NoDisc /\ UNCHANGED <<TOC_Buffer, authenticating, buffers>>
  BY DEF Eject, SetDisc, stored
<1>3. DriveInv'
  <2>1. CASE Notices
    BY <1>2, <2>1 DEF IInv, Eject, SetDisc, Settled, DriveInv, PhaseInv, AuthInv
  <2>2. CASE ~Notices
    BY <1>2, <2>2 DEF IInv, Eject, SetDisc, Notices, DriveInv, PhaseInv, AuthInv
  <2> QED BY <2>1, <2>2
<1> QED BY <1>1, <1>3 DEF IInv, DriveInv

LEMMA InsertStep ==
  ASSUME IInv, Insert
  PROVE  IInv'
<1>1. Cur_CDIF = NoDisc /\ Cur_CDIF' = Chosen /\ UNCHANGED <<TOC_Buffer, authenticating, buffers>>
  BY DEF IInv, TrayInv, Insert, SetDisc, stored
<1>2. Chosen # NoDisc => Chosen \in open
  BY DEF IInv, ListInv, Chosen
<1>3. TrayInv' /\ ListInv'
  BY <1>1, <1>2 DEF IInv, Insert, SetDisc, TrayInv, ListInv
<1>4. DrivePhase \in Empty /\ DrivePhase' \in Empty
  BY <1>1 DEF IInv, PhaseInv, Insert, SetDisc
<1>5. DrivePhase' = "RESETTING" => DrivePhase = "RESETTING"
  BY DEF Insert, SetDisc
<1>6. DriveInv'
  BY <1>1, <1>4, <1>5 DEF IInv, DriveInv, PhaseInv, AuthInv
<1> QED BY <1>3, <1>6 DEF IInv, DriveInv

LEMMA ReplaceStep ==
  ASSUME IInv, ReplaceImageIndex
  PROVE  IInv'
<1>1. g_eject_state /\ UNCHANGED <<g_eject_state, g_current_disc, driveVars>>
  BY DEF ReplaceImageIndex
<1>2. UNCHANGED <<TrayOpen, Cur_CDIF, DrivePhase, TOC_Buffer, authenticating, buffers>> /\ Cur_CDIF = NoDisc
  BY <1>1 DEF IInv, TrayInv, driveVars
<1>3. TrayInv' /\ DriveInv'
  BY <1>1, <1>2 DEF IInv, TrayInv, DriveInv, PhaseInv, AuthInv
<1>4. ListInv'
  <2>1. CASE open' = open /\ disc_cdif' = disc_cdif
    BY <1>1, <2>1 DEF IInv, ListInv
  <2>2. ASSUME NEW i \in DOMAIN disc_cdif, NEW image \in Discs \ open,
               open' = (open \ {disc_cdif[i]}) \cup {image},
               disc_cdif' = [disc_cdif EXCEPT ![i] = image]
        PROVE  ListInv'
    <3>1. disc_cdif' \in Seq(Discs \cup {NoDisc}) /\ DOMAIN disc_cdif' = DOMAIN disc_cdif
      BY <2>2 DEF IInv, ListInv
    <3>2. \A j \in DOMAIN disc_cdif : disc_cdif'[j] = IF j = i THEN image ELSE disc_cdif[j]
      BY <2>2 DEF IInv, ListInv
    <3>3. ASSUME NEW j \in DOMAIN disc_cdif, disc_cdif'[j] # NoDisc
          PROVE  disc_cdif'[j] \in open'
      <4>1. CASE j = i
        BY <2>2, <3>2, <4>1
      <4>2. CASE j # i
        BY <2>2, <3>2, <3>3, <4>2 DEF IInv, ListInv
      <4> QED BY <4>1, <4>2
    <3>4. ASSUME NEW j \in DOMAIN disc_cdif, NEW k \in DOMAIN disc_cdif,
                 disc_cdif'[j] = disc_cdif'[k], disc_cdif'[j] # NoDisc
          PROVE  j = k
      <4>1. CASE j = i \/ k = i
        BY <2>2, <3>2, <3>4, <4>1 DEF IInv, ListInv
      <4>2. CASE j # i /\ k # i
        BY <3>2, <3>4, <4>2 DEF IInv, ListInv
      <4> QED BY <4>1, <4>2
    <3> QED BY <1>1, <3>1, <3>3, <3>4 DEF IInv, ListInv
  <2> QED BY <2>1, <2>2 DEF ReplaceImageIndex, Kept
<1> QED BY <1>3, <1>4 DEF IInv, DriveInv

LEMMA ListStep ==
  ASSUME IInv, SetImageIndex \/ AddImageIndex
  PROVE  IInv'
<1>1. UNCHANGED <<TrayOpen, Cur_CDIF, DrivePhase, TOC_Buffer, authenticating, buffers, g_eject_state, open>>
  BY DEF SetImageIndex, AddImageIndex, driveVars
<1>2. TrayInv' /\ DriveInv'
  BY <1>1 DEF IInv, TrayInv, DriveInv, PhaseInv, AuthInv
<1>3. ListInv'
  <2>1. CASE SetImageIndex
    BY <2>1 DEF IInv, ListInv, SetImageIndex
  <2>2. CASE AddImageIndex
    <3>1. disc_cdif' \in Seq(Discs \cup {NoDisc}) /\ DOMAIN disc_cdif' = 1..Len(disc_cdif) + 1
      BY <2>2 DEF AddImageIndex, IInv, ListInv
    <3>2. \A i \in DOMAIN disc_cdif' :
            disc_cdif'[i] # NoDisc => i \in DOMAIN disc_cdif /\ disc_cdif'[i] = disc_cdif[i]
      BY <2>2 DEF AddImageIndex, IInv, ListInv
    <3> QED BY <1>1, <2>2, <3>1, <3>2 DEF AddImageIndex, IInv, ListInv
  <2> QED BY <2>1, <2>2
<1> QED BY <1>2, <1>3 DEF IInv, DriveInv

LEMMA PowerStep ==
  ASSUME LoadsEjected = FALSE, IInv, LoadGame \/ ResetSwitch
  PROVE  IInv'
<1>1. DriveInv'
  BY DEF LoadGame, ResetSwitch, Reset, PowerOn, DriveInv, PhaseInv, AuthInv
<1>2. CASE LoadGame
  <2>1. PICK image \in Discs : /\ disc_cdif' = <<image>> /\ open' = {image}
                               /\ TrayOpen' = FALSE /\ Cur_CDIF' = image
    BY <1>2 DEF LoadGame
  <2>2. g_eject_state' = FALSE /\ g_current_disc' = 1
    BY <1>2 DEF LoadGame, IInv, TrayInv
  <2>3. TrayInv'
    BY <2>1, <2>2 DEF TrayInv
  <2>4. ListInv'
    BY <2>1, <2>2 DEF ListInv
  <2> QED BY <1>1, <2>3, <2>4 DEF IInv, DriveInv
<1>3. CASE ResetSwitch
  <2>1. UNCHANGED <<tray, g_eject_state, g_current_disc, disc_cdif, open>>
    BY <1>3 DEF ResetSwitch, Reset
  <2> QED BY <1>1, <2>1 DEF IInv, DriveInv, TrayInv, ListInv, tray
<1> QED BY <1>2, <1>3

LEMMA Inductive ==
  ASSUME Patient, LoadsEjected = FALSE
  PROVE  Spec => []IInv
<1>1. Init => IInv
  <2> SUFFICES ASSUME Init PROVE IInv
    OBVIOUS
  <2>1. PICK image \in Discs : /\ DriveInit(image) /\ g_eject_state = FALSE /\ g_current_disc = 1
                               /\ disc_cdif = <<image>> /\ open = {image}
    BY DEF Init
  <2>2. TrayInv
    BY <2>1 DEF DriveInit, TrayInv
  <2>3. ListInv
    BY <2>1 DEF ListInv
  <2>4. PhaseInv /\ AuthInv
    BY <2>1 DEF DriveInit, PhaseInv, AuthInv
  <2> QED BY <2>2, <2>3, <2>4 DEF IInv
<1>2. IInv /\ [Next]_vars => IInv'
  <2> SUFFICES ASSUME IInv, [Next]_vars PROVE IInv'
    OBVIOUS
  <2>1. CASE Next
    BY <2>1, DriveStep, EjectStep, InsertStep, ReplaceStep, ListStep, PowerStep DEF Next, FrontEnd
  <2>2. CASE UNCHANGED vars
    BY <2>2 DEF vars, driveVars, listVars, IInv, TrayInv, ListInv, PhaseInv, AuthInv
  <2> QED BY <2>1, <2>2
<1> QED BY <1>1, <1>2, PTL DEF Spec

\* The drive never holds a closed image (CDIF_Close frees it), whatever the
\* front end ejects, replaces and loads, as long as it closes the tray before
\* it loads a game.
THEOREM HeldImageIsOpenHolds ==
  ASSUME Patient, LoadsEjected = FALSE
  PROVE  Spec => []HeldImageIsOpen
<1>1. IInv => HeldImageIsOpen
  BY DEF IInv, TrayInv, PhaseInv, HeldImageIsOpen, Reading
<1> QED BY <1>1, Inductive, PTL

\* A disc is never read under the contents of another (TranslateTOC runs once,
\* in the startup phase), under the same assumptions.
THEOREM TocIsOfTheDiscHolds ==
  ASSUME Patient, LoadsEjected = FALSE
  PROVE  Spec => []TocIsOfTheDisc
<1>1. IInv => TocIsOfTheDisc
  BY DEF IInv, PhaseInv, TocIsOfTheDisc
<1> QED BY <1>1, Inductive, PTL
-----------------------------------------------------------------------------
(* Every variable keeps its type.                                           *)

PickupTyped == CurSector \in Nat /\ fad \in Nat /\ SecPreBuf \in Int

RequestTyped ==
  /\ play \in [start : Nat, end : 0..LeadOut, repeat : 0..Forever]
  /\ PlayEndIRQ \in BOOLEAN /\ repeats \in 0..Forever /\ repeated \in BOOLEAN
  /\ PauseCounter \in {-1, 0, 1} /\ ScanMode \in {-1, 0, 1}

StoreTyped == buffers \in Seq(Nat) /\ Len(buffers) <= NumBuffers /\ pend \in BOOLEAN

FlagsTyped ==
  /\ AuthDiscType \in BOOLEAN /\ authenticating \in BOOLEAN /\ SWResetPending \in BOOLEAN
  /\ commands \in 0..MaxCommands

DiscTyped ==
  /\ TrayOpen \in BOOLEAN
  /\ Cur_CDIF \in Discs \cup {NoDisc} /\ TOC_Buffer \in Discs \cup {NoDisc}

PhaseTyped == DrivePhase \in Phases /\ idle \in {"due", "done", "free"}

LEMMA TypeParts ==
  /\ TypeOK <=> (PickupTyped /\ RequestTyped /\ StoreTyped /\ FlagsTyped /\ DiscTyped /\ PhaseTyped)
  /\ TypeOK' <=> (PickupTyped' /\ RequestTyped' /\ StoreTyped' /\ FlagsTyped' /\ DiscTyped' /\ PhaseTyped')
BY Zenon DEF TypeOK, PickupTyped, RequestTyped, StoreTyped, FlagsTyped, DiscTyped, PhaseTyped

LEMMA TheConstants ==
  /\ First \in Nat /\ LeadOut \in Nat /\ NumBuffers \in Nat /\ Forever \in Nat /\ Jump \in Nat
  /\ MaxCommands \in Nat /\ 1 < First /\ First < LeadOut /\ 0 < Forever
  /\ NoWhere \in Nat /\ 0 \in 0..LeadOut /\ 0 \in 0..Forever /\ LeadOut \in 0..LeadOut
BY DriveConstants DEF NoWhere

LEMMA TargetTyped ==
  ASSUME NEW s \in Nat
  PROVE  SeekTarget(s) \in Nat
BY TheConstants DEF SeekTarget

Requests == [start : Nat, end : 0..LeadOut, repeat : 0..Forever]

LEMMA RequestsTyped ==
  ASSUME RequestTyped
  PROVE  /\ Halted \in Requests /\ NoPlay \in Requests /\ Plays \subseteq Requests
         /\ [play EXCEPT !.repeat = 0] \in Requests
         /\ \A s \in Nat : [start |-> s, end |-> AtOnce, repeat |-> 0] \in Requests
         /\ [start |-> First, end |-> LeadOut, repeat |-> 0] \in Requests
BY TheConstants, DriveConstants DEF RequestTyped, Requests, Halted, NoPlay, AtOnce

LEMMA NothingStored ==
  ASSUME NEW b, b = <<>>
  PROVE  b \in Seq(Nat) /\ Len(b) <= NumBuffers
BY TheConstants

\* Some seek begins, or none for want of a disc.
LEMMA SeekTyped ==
  ASSUME TypeOK, NEW p \in Requests, NEW irq \in BOOLEAN, NEW keep, StartSeek(p, irq, keep),
         CurSector' \in Nat, UNCHANGED PauseCounter
  PROVE  PickupTyped' /\ RequestTyped' /\ PhaseTyped'
<1> USE TypeParts, TheConstants
<1>1. SeekTarget(play.start) \in Nat
  BY TargetTyped DEF RequestTyped
<1>2. PickupTyped'
  BY <1>1 DEF PickupTyped, StartSeek, ForceCompletePendingSeekStartup
<1>3. RequestTyped'
  BY DEF RequestTyped, Requests, StartSeek, request, passing
<1>4. PhaseTyped'
  BY DEF PhaseTyped, StartSeek
<1> QED BY <1>2, <1>3, <1>4

LEMMA TickTyped ==
  ASSUME TypeOK, Tick
  PROVE  TypeOK'
<1> USE TypeParts, TheConstants
<1>0. SeekTarget(play.start) \in Nat
  BY TargetTyped DEF RequestTyped
<1>1. FlagsTyped'
  BY DEF Tick, Eject0, Eject1, EjectedWaiting, Startup, SeekStart, SeekStart3, SeekMiss, SeekHit, PlayTick,
         PauseTick, FlagsTyped, block, host
<1>2. DiscTyped'
  BY DEF Tick, Eject0, Eject1, EjectedWaiting, Startup, SeekStart, SeekStart3, SeekMiss, SeekHit, PlayTick,
         PauseTick, DiscTyped, block, tray
<1>3. CASE Startup
  <2>1. [start |-> First, end |-> AtOnce, repeat |-> 0] \in Requests /\ CurSector \in Nat
    BY RequestsTyped DEF PickupTyped
  <2>2. PickupTyped' /\ RequestTyped' /\ PhaseTyped'
    BY <1>3, <2>1, SeekTyped DEF Startup
  <2>3. StoreTyped'
    BY <1>3 DEF Startup, StoreTyped, stored
  <2> QED BY <1>1, <1>2, <2>2, <2>3
<1>4. CASE PlayTick
  <2>1. StoreTyped'
    <3>1. Len(buffers) \in Nat
      BY DEF StoreTyped
    <3>2. CASE Fits /\ AuthDiscType
      <4>1. SecPreBuf \in Nat /\ buffers' = Append(buffers, SecPreBuf) /\ pend' = pend
        BY <1>4, <3>2 DEF PlayTick, StoreSector, Fits, PickupTyped
      <4>2. Len(buffers) < NumBuffers
        BY <3>1, <3>2 DEF Fits, FreeBufferCount
      <4> QED BY <3>1, <4>1, <4>2 DEF StoreTyped
    <3>3. CASE ~(Fits /\ AuthDiscType)
      BY <1>4, <3>3 DEF PlayTick, StoreSector, StoreTyped
    <3> QED BY <3>2, <3>3
  <2>2. CurSector' \in Nat
    BY <1>4 DEF PlayTick, PickupAfter, ScanStep, PickupTyped
  <2>3. PickupTyped'
    BY <1>4, <2>2 DEF PlayTick, PickupTyped
  <2>4. RequestTyped' /\ PhaseTyped'
    BY <1>4 DEF PlayTick, RequestTyped, PhaseTyped, request, passing
  <2> QED BY <1>1, <1>2, <2>1, <2>3, <2>4
<1>5. CASE Eject0 \/ Eject1 \/ EjectedWaiting \/ SeekStart \/ SeekStart3 \/ SeekMiss \/ SeekHit \/ PauseTick
  <2>1. PickupTyped'
    BY <1>0, <1>5 DEF Eject0, Eject1, EjectedWaiting, SeekStart, SeekStart3, SeekMiss, SeekHit, PauseTick, PickupTyped
  <2>2. RequestTyped' /\ StoreTyped'
    BY <1>5 DEF Eject0, Eject1, EjectedWaiting, SeekStart, SeekStart3, SeekMiss, SeekHit, PauseTick,
                RequestTyped, StoreTyped, request, passing, stored
  <2>3. PhaseTyped'
    BY <1>5 DEF Eject0, Eject1, EjectedWaiting, SeekStart, SeekStart3, SeekMiss, SeekHit, PauseTick, PhaseTyped
  <2> QED BY <1>1, <1>2, <2>1, <2>2, <2>3
<1> QED BY <1>3, <1>4, <1>5 DEF Tick

LEMMA PeriodicTyped ==
  ASSUME TypeOK, Periodic
  PROVE  TypeOK'
<1> USE TypeParts, TheConstants
<1> USE DEF Periodic, PeriodicNothing, PeriodicPause, PeriodicEnd, PeriodicRepeat, PeriodicFull, PeriodicPlay
<1>1. FlagsTyped' /\ DiscTyped'
  BY DEF FlagsTyped, DiscTyped, block, tray, host
<1>2. PickupTyped'
  BY TargetTyped DEF PickupTyped, RequestTyped
<1>3. StoreTyped'
  BY DEF StoreTyped, stored, AnnounceEnd
<1>4. PhaseTyped'
  BY DEF PhaseTyped, EnterSeek
<1>5. RequestTyped'
  <2>1. play' = play /\ ScanMode' = ScanMode /\ repeated' \in {TRUE, FALSE, repeated}
    BY DEF request, passing
  <2>2. repeats' \in 0..Forever
    BY DEF RequestTyped, passing
  <2>3. PauseCounter' \in {-1, 0, 1}
    BY DEF RequestTyped
  <2>4. PlayEndIRQ' = PlayEndIRQ \/ AnnounceEnd
    BY DEF request
  <2>5. PlayEndIRQ' \in BOOLEAN
    BY <2>4 DEF RequestTyped, AnnounceEnd
  <2> QED BY <2>1, <2>2, <2>3, <2>5 DEF RequestTyped
<1> QED BY <1>1, <1>2, <1>3, <1>4, <1>5

LEMMA CommandTyped ==
  ASSUME TypeOK, Commands
  PROVE  TypeOK'
<1> USE TypeParts, TheConstants
<1>0. UNCHANGED <<tray, TOC_Buffer, CurSector, PauseCounter, stored>>
  BY DEF Commands, PlayCommand, SeekCommand, StopCommand, PauseCommand, ScanCommand, InitCommand, AuthCommand, block
<1>1. DiscTyped' /\ StoreTyped' /\ CurSector' = CurSector /\ PauseCounter' = PauseCounter
  BY <1>0 DEF DiscTyped, StoreTyped, tray, stored
<1>2. FlagsTyped'
  <2>1. commands' \in 0..MaxCommands
    <3>1. Command
      BY DEF Commands, PlayCommand, SeekCommand, StopCommand, PauseCommand, ScanCommand, InitCommand, AuthCommand
    <3> QED BY <3>1 DEF Command, FlagsTyped
  <2>2. /\ AuthDiscType' \in {AuthDiscType, TRUE} /\ authenticating' \in {authenticating, TRUE}
        /\ SWResetPending' \in {SWResetPending, TRUE}
    <3>1. CASE AuthCommand
      BY <3>1 DEF AuthCommand
    <3>2. CASE InitCommand
      BY <3>2 DEF InitCommand, block
    <3>3. CASE PlayCommand \/ SeekCommand \/ StopCommand \/ PauseCommand \/ ScanCommand
      <4>1. UNCHANGED <<AuthDiscType, authenticating, SWResetPending>>
        BY <3>3 DEF PlayCommand, SeekCommand, StopCommand, PauseCommand, ScanCommand, block
      <4> QED BY <4>1
    <3> QED BY <3>1, <3>2, <3>3 DEF Commands
  <2>3. AuthDiscType' \in BOOLEAN /\ authenticating' \in BOOLEAN /\ SWResetPending' \in BOOLEAN
    BY <2>2 DEF FlagsTyped
  <2> QED BY <2>1, <2>3 DEF FlagsTyped
<1>3. CurSector' \in Nat /\ PlayEndIRQ \in BOOLEAN
  BY <1>1 DEF PickupTyped, RequestTyped
<1>4. CASE PlayCommand \/ SeekCommand
  <2>1. PICK p \in Requests, irq \in BOOLEAN, keep \in BOOLEAN : StartSeek(p, irq, keep)
    BY <1>4, RequestsTyped DEF PlayCommand, SeekCommand, Requests
  <2> QED BY <1>1, <1>2, <1>3, <2>1, SeekTyped
<1>5. CASE AuthCommand
  <2>1. CASE First \in Audio
    <3>1. UNCHANGED <<DrivePhase, idle, fad, SecPreBuf, request, passing, ScanMode>>
      BY <1>5, <2>1 DEF AuthCommand
    <3> QED BY <1>1, <1>2, <1>3, <3>1 DEF PickupTyped, RequestTyped, PhaseTyped, request, passing
  <2>2. CASE First \notin Audio
    BY <1>1, <1>2, <1>3, <1>5, <2>2, SeekTyped, RequestsTyped DEF AuthCommand
  <2> QED BY <2>1, <2>2
<1>6. CASE PauseCommand
  <2>1. CASE DrivePhase = "STOPPED" /\ Cur_CDIF # NoDisc
    BY <1>1, <1>2, <1>3, <1>6, <2>1, SeekTyped, RequestsTyped DEF PauseCommand
  <2>2. CASE ~(DrivePhase = "STOPPED" /\ Cur_CDIF # NoDisc)
    <3>1. /\ SecPreBuf' = Withheld /\ PlayEndIRQ' = FALSE /\ play' = Halted
          /\ UNCHANGED <<DrivePhase, idle, fad, passing, ScanMode>>
      BY <1>6, <2>2 DEF PauseCommand
    <3>2. PickupTyped' /\ PhaseTyped'
      BY <1>3, <3>1 DEF PickupTyped, PhaseTyped, Withheld, Held
    <3>3. RequestTyped'
      BY <1>1, <3>1, RequestsTyped DEF RequestTyped, Requests, passing
    <3> QED BY <1>1, <1>2, <3>2, <3>3
  <2> QED BY <2>1, <2>2
<1>7. CASE StopCommand \/ ScanCommand \/ InitCommand
  <2>1. PickupTyped'
    <3>1. SeekTarget(play.start) \in Nat
      BY TargetTyped DEF RequestTyped
    <3>2. fad' \in {fad, NoWhere, SeekTarget(play.start)} /\ SecPreBuf' \in {SecPreBuf, 0}
      BY <1>7 DEF StopCommand, ScanCommand, StartScan, InitCommand, ClearPendingSec,
         ForceCompletePendingSeekStartup
    <3> QED BY <1>3, <3>1, <3>2 DEF PickupTyped
  <2>2. PhaseTyped'
    BY <1>7 DEF StopCommand, ScanCommand, StartScan, InitCommand, PhaseTyped, EnterSeek
  <2>3. RequestTyped'
    BY <1>1, <1>7, RequestsTyped DEF StopCommand, ScanCommand, StartScan, InitCommand, ClearPendingSec,
       RequestTyped, Requests, request, passing
  <2> QED BY <1>1, <1>2, <2>1, <2>2, <2>3
<1> QED BY <1>4, <1>5, <1>6, <1>7 DEF Commands

LEMMA HostTyped ==
  ASSUME TypeOK, Host \/ ResetDone
  PROVE  TypeOK'
<1> USE TypeParts, TheConstants
<1>1. CASE SoftwareReset
  <2>1. /\ SecPreBuf' = 0 /\ PlayEndIRQ' = FALSE /\ play' = Halted /\ buffers' = <<>>
        /\ authenticating' = FALSE /\ SWResetPending' = FALSE
        /\ UNCHANGED <<tray, TOC_Buffer, AuthDiscType, DrivePhase, idle, CurSector, fad, passing,
                       PauseCounter, ScanMode, pend, commands>>
    BY <1>1 DEF SoftwareReset, ClearPendingSec
  <2>2. RequestTyped'
    BY <2>1, RequestsTyped DEF RequestTyped, Requests, passing
  <2>3. StoreTyped' /\ PickupTyped'
    BY <2>1, NothingStored DEF StoreTyped, PickupTyped
  <2>5. FlagsTyped'
    BY <2>1 DEF FlagsTyped
  <2>4. DiscTyped' /\ PhaseTyped'
    BY <2>1 DEF DiscTyped, PhaseTyped, tray
  <2> QED BY <2>2, <2>3, <2>4, <2>5
<1>2. CASE Authenticated
  <2>1. /\ buffers # <<>> /\ buffers' = Tail(buffers) /\ authenticating' = FALSE /\ AuthDiscType' = TRUE
        /\ UNCHANGED <<tray, TOC_Buffer, CurSector, PauseCounter, pend, host>>
    BY <1>2 DEF Authenticated
  <2>2. StoreTyped'
    BY <2>1 DEF StoreTyped
  <2>3. FlagsTyped' /\ DiscTyped'
    BY <2>1 DEF FlagsTyped, DiscTyped, tray, host
  <2>4. PickupTyped' /\ RequestTyped' /\ PhaseTyped'
    <3>1. CASE Cur_CDIF = NoDisc
      <4>1. /\ play' = Halted /\ PlayEndIRQ' = FALSE
            /\ UNCHANGED <<DrivePhase, idle, fad, SecPreBuf, passing, ScanMode>>
        BY <1>2, <3>1 DEF Authenticated
      <4> QED BY <2>1, <4>1, RequestsTyped DEF RequestTyped, Requests, PickupTyped, PhaseTyped, passing
    <3>2. CASE Cur_CDIF # NoDisc
      <4>1. StartSeek([start |-> First, end |-> AtOnce, repeat |-> 0], FALSE, FALSE)
        BY <1>2, <3>2 DEF Authenticated
      <4>2. CurSector' \in Nat /\ PauseCounter' = PauseCounter
        BY <2>1 DEF PickupTyped
      <4> QED BY <4>1, <4>2, SeekTyped, RequestsTyped
    <3> QED BY <3>1, <3>2
  <2> QED BY <2>2, <2>3, <2>4
<1>3. CASE HostTakes
  <2>1. /\ buffers # <<>> /\ buffers' = Tail(buffers) /\ CheckBufPauseResume(FreeBufferCount + 1)
        /\ UNCHANGED <<tray, block, CurSector, fad, request, passing, PauseCounter, ScanMode, pend, host>>
    BY <1>3 DEF HostTakes
  <2>2. SecPreBuf' \in {0, SecPreBuf} /\ DrivePhase' \in {DrivePhase, "SEEK_START2"} /\ idle' \in {idle, "free"}
    BY <2>1 DEF CheckBufPauseResume, EnterSeek
  <2>3. StoreTyped' /\ FlagsTyped' /\ DiscTyped'
    BY <2>1 DEF StoreTyped, FlagsTyped, DiscTyped, host, tray, block
  <2>4. PickupTyped' /\ RequestTyped' /\ PhaseTyped'
    BY <2>1, <2>2 DEF PickupTyped, RequestTyped, PhaseTyped, request, passing
  <2> QED BY <2>3, <2>4
<1>4. CASE HostClears
  <2>1. PickupTyped' /\ RequestTyped' /\ PhaseTyped'
    BY <1>4 DEF HostClears, PickupTyped, RequestTyped, PhaseTyped, request, passing
  <2>2. StoreTyped' /\ FlagsTyped' /\ DiscTyped'
    BY <1>4 DEF HostClears, StoreTyped, FlagsTyped, DiscTyped, host, tray, block
  <2> QED BY <2>1, <2>2
<1>5. CASE ResetDone
  <2>1. PickupTyped' /\ PhaseTyped'
    BY <1>5 DEF ResetDone, PickupTyped, PhaseTyped, ClearPendingSec, PhaseAfterReset
  <2>2. RequestTyped'
    BY <1>5, RequestsTyped DEF ResetDone, RequestTyped, Requests, ClearPendingSec
  <2>3. StoreTyped'
    BY <1>5, NothingStored DEF ResetDone, StoreTyped
  <2>4. FlagsTyped' /\ DiscTyped'
    BY <1>5 DEF ResetDone, FlagsTyped, DiscTyped, tray
  <2> QED BY <2>1, <2>2, <2>3, <2>4
<1> QED BY <1>1, <1>2, <1>3, <1>4, <1>5, CommandTyped DEF Host

LEMMA PowerTyped ==
  ASSUME TypeOK, PowerOn, DiscTyped', UNCHANGED commands
  PROVE  TypeOK'
<1> USE TypeParts, TheConstants
<1>1. PickupTyped' /\ PhaseTyped'
  BY DEF PowerOn, PickupTyped, PhaseTyped
<1>2. RequestTyped'
  BY RequestsTyped DEF PowerOn, RequestTyped, Requests
<1>3. StoreTyped'
  BY NothingStored DEF PowerOn, StoreTyped
<1>4. FlagsTyped'
  BY DEF PowerOn, FlagsTyped
<1> QED BY <1>1, <1>2, <1>3, <1>4

ListPart ==
  /\ g_eject_state \in BOOLEAN
  /\ disc_cdif \in Seq(Discs \cup {NoDisc}) /\ Len(disc_cdif) <= MaxDiscs
  /\ g_current_disc \in 1..MaxDiscs
  /\ open \subseteq Discs
  /\ calls \in 0..MaxCalls

LEMMA FrontEndTyped ==
  ASSUME ListTypeOK, FrontEnd
  PROVE  ListTypeOK'
<1> USE TypeParts, TrayConstants
<1>0. TypeOK /\ ListPart /\ (ListTypeOK' <=> (TypeOK' /\ ListPart'))
  BY DEF ListTypeOK, ListPart
<1>1. calls' \in 0..MaxCalls
  <2>1. Call
    BY DEF FrontEnd, Eject, Insert, SetImageIndex, ReplaceImageIndex, AddImageIndex, LoadGame, ResetSwitch
  <2> QED BY <1>0, <2>1 DEF Call, ListPart
<1>2. ASSUME NEW tray_open \in BOOLEAN, NEW image \in Discs \cup {NoDisc}, SetDisc(tray_open, image)
      PROVE  TypeOK'
  <2>1. PickupTyped' /\ RequestTyped' /\ StoreTyped'
    BY <1>0, <1>2 DEF SetDisc, PickupTyped, RequestTyped, StoreTyped, request, passing, stored
  <2>2. FlagsTyped' /\ PhaseTyped'
    BY <1>0, <1>2 DEF SetDisc, FlagsTyped, PhaseTyped, host
  <2>3. DiscTyped'
    BY <1>0, <1>2 DEF SetDisc, DiscTyped
  <2> QED BY <2>1, <2>2, <2>3
<1>3. CASE Eject
  <2>1. TypeOK'
    BY <1>2, <1>3 DEF Eject
  <2>2. ListPart'
    BY <1>0, <1>1, <1>3 DEF Eject, ListPart
  <2> QED BY <1>0, <2>1, <2>2
<1>4. CASE Insert
  <2>1. Chosen \in Discs \cup {NoDisc}
    BY <1>0 DEF Chosen, ListPart
  <2>2. TypeOK'
    BY <1>2, <1>4, <2>1 DEF Insert
  <2>3. ListPart'
    BY <1>0, <1>1, <1>4 DEF Insert, ListPart
  <2> QED BY <1>0, <2>2, <2>3
<1>5. ASSUME UNCHANGED driveVars PROVE TypeOK'
  <2>1. PickupTyped' /\ RequestTyped' /\ StoreTyped'
    BY <1>0, <1>5 DEF PickupTyped, RequestTyped, StoreTyped, driveVars
  <2>2. FlagsTyped' /\ PhaseTyped' /\ DiscTyped'
    BY <1>0, <1>5 DEF FlagsTyped, PhaseTyped, DiscTyped, driveVars
  <2> QED BY <2>1, <2>2
<1>6. CASE SetImageIndex
  <2>1. ListPart'
    BY <1>0, <1>1, <1>6 DEF SetImageIndex, ListPart
  <2> QED BY <1>0, <1>5, <1>6, <2>1 DEF SetImageIndex
<1>7. CASE ReplaceImageIndex
  <2>1. open' \subseteq Discs /\ disc_cdif' \in Seq(Discs \cup {NoDisc}) /\ Len(disc_cdif') = Len(disc_cdif)
    BY <1>0, <1>7 DEF ReplaceImageIndex, Kept, ListPart
  <2>2. ListPart'
    BY <1>0, <1>1, <1>7, <2>1 DEF ReplaceImageIndex, ListPart
  <2> QED BY <1>0, <1>5, <1>7, <2>2 DEF ReplaceImageIndex
<1>8. CASE AddImageIndex
  <2>1. disc_cdif' \in Seq(Discs \cup {NoDisc}) /\ Len(disc_cdif') <= MaxDiscs
    BY <1>0, <1>8 DEF AddImageIndex, ListPart
  <2>2. ListPart'
    BY <1>0, <1>1, <1>8, <2>1 DEF AddImageIndex, ListPart
  <2> QED BY <1>0, <1>5, <1>8, <2>2 DEF AddImageIndex
<1>9. CASE LoadGame
  <2>1. PICK image \in Discs : /\ disc_cdif' = <<image>> /\ open' = {image}
                               /\ TrayOpen' = FALSE /\ Cur_CDIF' = image
    BY <1>9 DEF LoadGame
  <2>2. /\ PowerOn /\ commands' = commands /\ g_eject_state' = g_eject_state /\ g_current_disc' = 1
    BY <1>9 DEF LoadGame
  <2>3. DiscTyped'
    BY <2>1, <2>2 DEF DiscTyped, PowerOn
  <2>4. ListPart'
    BY <1>0, <1>1, <2>1, <2>2 DEF ListPart
  <2> QED BY <1>0, <2>2, <2>3, <2>4, PowerTyped
<1>10. CASE ResetSwitch
  <2>1. /\ PowerOn /\ UNCHANGED <<tray, commands, g_eject_state, g_current_disc, disc_cdif, open>>
    BY <1>10 DEF ResetSwitch, Reset
  <2>2. DiscTyped'
    BY <1>0, <2>1 DEF DiscTyped, PowerOn, tray
  <2>3. ListPart'
    BY <1>0, <1>1, <2>1 DEF ListPart
  <2> QED BY <1>0, <2>1, <2>2, <2>3, PowerTyped
<1> QED BY <1>3, <1>4, <1>6, <1>7, <1>8, <1>9, <1>10 DEF FrontEnd

LEMMA InitTyped == Init => ListTypeOK
<1> USE TypeParts, TheConstants, TrayConstants
<1> SUFFICES ASSUME Init PROVE ListTypeOK
  OBVIOUS
<1>1. PICK image \in Discs :
        DriveInit(image) /\ g_eject_state = FALSE /\ g_current_disc = 1 /\ disc_cdif = <<image>> /\ open = {image} /\ calls = 0
  BY DEF Init
<1>2. PickupTyped /\ PhaseTyped
  BY <1>1 DEF DriveInit, PickupTyped, PhaseTyped
<1>3. RequestTyped
  BY <1>1 DEF DriveInit, RequestTyped, NoPlay
<1>4. StoreTyped
  BY <1>1, NothingStored DEF DriveInit, StoreTyped
<1>5. FlagsTyped /\ DiscTyped
  <2>1. 0 \in 0..MaxCommands
    BY TheConstants
  <2>2. FlagsTyped
    BY <1>1, <2>1 DEF DriveInit, FlagsTyped
  <2>3. DiscTyped
    BY <1>1 DEF DriveInit, DiscTyped
  <2> QED BY <2>2, <2>3
<1>6. disc_cdif \in Seq(Discs \cup {NoDisc}) /\ Len(disc_cdif) = 1
  BY <1>1
<1>7. ListPart
  <2>1. 1 \in 1..MaxDiscs /\ 0 \in 0..MaxCalls /\ 1 <= MaxDiscs
    BY TrayConstants
  <2>2. open \subseteq Discs
    BY <1>1
  <2> QED BY <1>1, <1>6, <2>1, <2>2 DEF ListPart
<1> QED BY <1>2, <1>3, <1>4, <1>5, <1>7 DEF ListTypeOK, ListPart

LEMMA NextTyped == ListTypeOK /\ [Next]_vars => ListTypeOK'
<1> SUFFICES ASSUME ListTypeOK, [Next]_vars PROVE ListTypeOK'
  OBVIOUS
<1>1. TypeOK
  BY DEF ListTypeOK
<1>2. CASE DriveNext /\ UNCHANGED listVars
  <2>1. TypeOK'
    BY <1>1, <1>2, TickTyped, PeriodicTyped, HostTyped DEF DriveNext
  <2> QED BY <1>2, <2>1 DEF ListTypeOK, listVars
<1>3. CASE FrontEnd
  BY <1>3, FrontEndTyped
<1>4. CASE UNCHANGED vars
  BY <1>4 DEF vars, driveVars, listVars, ListTypeOK, TypeOK
<1> QED BY <1>2, <1>3, <1>4 DEF Next

\* Every variable of the drive and the playlist keeps its type, for any
\* front end and host: the sectors stored never outnumber the buffers, and the
\* playlist's index stays inside it (cdb.c, disc.c).
THEOREM TypeCorrect == Spec => []ListTypeOK
BY InitTyped, NextTyped, PTL DEF Spec

-----------------------------------------------------------------------------
(* The drive delivers the plays it is asked for (PlayService).  PlayInv says *)
(* where the pickup is and what becomes of the sector read ahead.            *)

\* The pickup is where the drive says, once it has come to the sector it seeks;
\* a sector held from before is the one it came to; and a seek that moves the
\* pickup holds none.
PickupInv ==
  /\ DrivePhase \in {"PLAY", "PAUSE"} => CurSector = fad
  /\ DrivePhase \notin Ejected /\ SecPreBuf > 0 => SecPreBuf = fad
  /\ DrivePhase = "SEEK_START1" => SecPreBuf = 0

\* What a pause withholds is outside the play, or the play is a new one.
WithheldInv == SecPreBuf < 0 => play.end = AtOnce \/ ~repeated

\* A drive that pauses beyond the range has no passes left, if it is to say so.
EndInv == DrivePhase = "PAUSE" /\ PlayEndIRQ /\ CheckEndMet => PassesDone

PlayInv == PickupInv /\ WithheldInv /\ EndInv

\* The promise's state, as the instance has it
Place    == IF DrivePhase = "SEEK_START1" THEN SeekTarget(play.start) ELSE fad
Admitted == SecPreBuf > 0 /\ (DrivePhase \in SeekPhases \/ (DrivePhase = "PLAY" /\ idle # "due"))
Playing  == DrivePhase \in SeekPhases \cup {"PLAY", "PAUSE"}

PromiseStep == [Promise!Next]_(Promise!vars)

USE DEF Promise!vars, Promise!Next

LEMMA SeekTargetIsClamp == \A s : SeekTarget(s) = Promise!Clamp(s)
BY DEF SeekTarget, Promise!Clamp

LEMMA AsRest ==
  ASSUME Place' = Place, Playing' = Playing, Admitted' => Admitted,
         UNCHANGED <<buffers, play, repeats, repeated, PlayEndIRQ, pend, ScanMode, AuthDiscType>>
  PROVE  PromiseStep
<1>1. CASE Admitted'
  <2>1. Admitted' = Admitted
    BY <1>1
  <2> QED BY <2>1, Zenon DEF PromiseStep, Place, Playing, Admitted
<1>2. CASE ~Admitted'
  <2>1. Promise!Withdraw
    BY <1>2, Zenon DEF Promise!Withdraw, Place, Playing, Admitted
  <2> QED BY <2>1 DEF PromiseStep
<1> QED BY <1>1, <1>2

LEMMA ScanEnds ==
  ASSUME ScanMode' = ScanMode \/ ScanMode' = -1
  PROVE  (ScanMode' >= 0) \in {ScanMode >= 0, FALSE}
<1>1. CASE ScanMode' = ScanMode
  BY <1>1, Zenon
<1>2. CASE ScanMode' = -1
  <2>1. ~(ScanMode' >= 0)
    BY <1>2
  <2>2. (ScanMode' >= 0) = FALSE
    BY <2>1
  <2> QED BY <2>2, Zenon
<1> QED BY <1>1, <1>2

LEMMA AsBegin ==
  ASSUME Place' = Place \/ (Place' = SeekTarget(play'.start) /\ ~Admitted'),
         repeats' = 0, repeated' = FALSE, Playing', PlayEndIRQ' \in BOOLEAN,
         ScanMode' = ScanMode \/ ScanMode' = -1, AuthDiscType' = AuthDiscType \/ AuthDiscType' = TRUE,
         buffers' = buffers \/ (buffers # <<>> /\ buffers' = Tail(buffers)), pend' = pend
  PROVE  PromiseStep
<1>1. (ScanMode' >= 0) \in {ScanMode >= 0, FALSE}
  BY ScanEnds, Zenon
<1>2. buffers' \in {buffers, Promise!Rest}
  BY DEF Promise!Rest
<1>3. Place' = Place \/ (Place' = Promise!Clamp(play'.start) /\ ~Admitted')
  BY SeekTargetIsClamp
<1>4. Admitted' \in BOOLEAN
  BY DEF Admitted
<1>5. Playing' = TRUE
  BY DEF Playing
<1>6. Promise!Begin
  BY <1>1, <1>2, <1>3, <1>4, <1>5, Zenon DEF Promise!Begin, Place, Playing, Admitted
<1> QED BY <1>6 DEF PromiseStep

LEMMA AsCancel ==
  ASSUME Place' = Place, Playing' = Playing, ~Admitted', play' = Halted, PlayEndIRQ' = FALSE,
         UNCHANGED <<buffers, repeats, repeated, pend, ScanMode, AuthDiscType>>
  PROVE  PromiseStep
<1>1. Admitted' = FALSE
  BY DEF Admitted
<1>2. Promise!Cancel
  BY <1>1, Zenon DEF Promise!Cancel, Place, Playing, Admitted, Halted, AtOnce
<1> QED BY <1>2 DEF PromiseStep

LEMMA AsHalt ==
  ASSUME ~Playing', AuthDiscType' \in BOOLEAN,
         PlayEndIRQ' = PlayEndIRQ \/ PlayEndIRQ' = FALSE, pend' = pend \/ pend' = FALSE,
         buffers' = buffers \/ buffers' = <<>> \/ (buffers # <<>> /\ buffers' = Tail(buffers)),
         play' = play \/ play' = Halted \/ play' = NoPlay,
         repeats' = repeats \/ repeats' = 0, repeated' = repeated \/ repeated' = FALSE,
         ScanMode' = ScanMode \/ ScanMode' = -1
  PROVE  PromiseStep
<1>1. (ScanMode' >= 0) \in {ScanMode >= 0, FALSE}
  BY ScanEnds, Zenon
<1>2. buffers' \in {buffers, Promise!Rest, <<>>}
  BY DEF Promise!Rest
<1>3. Admitted' = FALSE /\ Playing' = FALSE
  BY DEF Admitted, Playing
<1>4. play' \in {play, [play EXCEPT !.end = 0, !.repeat = 0], Promise!NoPlay}
  BY DEF Halted, AtOnce, NoPlay, Promise!NoPlay
<1>5. Promise!Halt
  BY <1>1, <1>2, <1>3, <1>4, Zenon DEF Promise!Halt, Playing, Admitted
<1> QED BY <1>5 DEF PromiseStep

\* The tick that stores the sector read at the one before, if it was admitted,
\* and reads the next
LEMMA PlayTickPlays ==
  ASSUME TypeOK, PlayInv, PlayTick
  PROVE  PlayInv' /\ PromiseStep
<1> USE TypeParts, TheConstants
<1>0. /\ SecPreBuf \in Int /\ CurSector \in Nat /\ fad \in Nat /\ ScanMode \in Int
      /\ buffers \in Seq(Nat) /\ Len(buffers) \in Nat
  BY DEF PickupTyped, StoreTyped, RequestTyped
<1>1. /\ DrivePhase = "PLAY" /\ DrivePhase' = "PLAY" /\ idle # "due" /\ idle' = "due"
      /\ StoreSector /\ PickupAfter
      /\ IF Discarded \/ Fits \/ SecPreBuf = 0
         THEN SecPreBuf' = CurSector' /\ fad' = CurSector'
         ELSE UNCHANGED <<SecPreBuf, fad>>
  BY DEF PlayTick, Ticking
<1>2. UNCHANGED <<play, PlayEndIRQ, repeats, repeated, ScanMode, pend, AuthDiscType>>
  BY DEF PlayTick, request, passing, block
<1>3. CurSector = fad /\ (SecPreBuf > 0 => SecPreBuf = fad)
  BY <1>1 DEF PlayInv, PickupInv
<1>4. /\ Playing' = Playing /\ Playing /\ ~Admitted' /\ Place = fad /\ Place' = fad'
      /\ Admitted = (SecPreBuf > 0)
  BY <1>1 DEF Playing, Admitted, Place
<1>5. CASE SecPreBuf <= 0
  <2>1. ~Discarded /\ ~Fits
    BY <1>0, <1>5 DEF Discarded, Fits
  <2>2. CurSector' = CurSector /\ buffers' = buffers
    BY <1>1, <2>1 DEF PickupAfter, StoreSector
  <2>3. fad' = fad /\ (SecPreBuf = 0 => SecPreBuf' = fad') /\ (SecPreBuf # 0 => SecPreBuf' = SecPreBuf)
    BY <1>1, <1>3, <2>1, <2>2
  <2>4. PlayInv'
    BY <1>0, <1>1, <1>2, <1>3, <1>5, <2>2, <2>3 DEF PlayInv, PickupInv, WithheldInv, EndInv
  <2> QED BY <1>2, <1>4, <2>2, <2>3, <2>4, AsRest
<1>6. CASE SecPreBuf > 0 /\ (Discarded \/ Fits)
  <2>1. SecPreBuf' = CurSector' /\ fad' = CurSector'
    BY <1>1, <1>6
  <2>2. CurSector' \in Nat
    BY <1>0, <1>1 DEF PickupAfter, ScanStep
  <2>3. PlayInv'
    BY <1>1, <2>1, <2>2 DEF PlayInv, PickupInv, WithheldInv, EndInv
  <2>4. CASE ScanMode >= 0
    <3>1. buffers' = buffers
      BY <1>1, <1>6, <2>4 DEF StoreSector, Fits, Discarded
    <3>2. (ScanMode >= 0) = TRUE /\ Playing = TRUE /\ Playing' = TRUE /\ Admitted' = FALSE
      BY <1>4, <2>4 DEF Playing, Admitted
    <3>3. Promise!Skim
      BY <1>2, <3>1, <3>2, Zenon DEF Promise!Skim, Playing, Admitted
    <3> QED BY <2>3, <3>3 DEF PromiseStep
  <2>5. CASE ~(ScanMode >= 0)
    <3>1. Place' = Place + 1
      BY <1>1, <1>3, <1>4, <1>6, <2>1, <2>5 DEF PickupAfter
    <3>2. CASE SecPreBuf \in Audio
      <4>1. buffers' = buffers /\ Place \in Audio
        BY <1>1, <1>3, <1>4, <1>6, <3>2 DEF StoreSector, Fits, Discarded
      <4>2. /\ Playing = TRUE /\ Playing' = TRUE /\ Admitted' = FALSE /\ Admitted = TRUE
            /\ (ScanMode >= 0) = FALSE
        BY <1>4, <1>6, <2>5 DEF Playing, Admitted
      <4>3. Promise!Deliver
        BY <1>2, <3>1, <4>1, <4>2, Zenon DEF Promise!Deliver, Playing, Admitted, Place
      <4> QED BY <2>3, <4>3 DEF PromiseStep
    <3>3. CASE SecPreBuf \notin Audio
      <4>1. Fits /\ Place \notin Audio /\ Place = SecPreBuf
        BY <1>3, <1>4, <1>6, <2>5, <3>3 DEF Discarded
      <4>2. Len(buffers) < NumBuffers
        BY <1>0, <4>1 DEF Fits, FreeBufferCount
      <4>3. IF AuthDiscType THEN buffers' = Append(buffers, Place) ELSE buffers' = buffers
        BY <1>1, <4>1 DEF StoreSector
      <4>4. /\ Playing = TRUE /\ Playing' = TRUE /\ Admitted' = FALSE /\ Admitted = TRUE
            /\ (ScanMode >= 0) = FALSE
        BY <1>4, <1>6, <2>5 DEF Playing, Admitted
      <4>5. Promise!Deliver
        BY <1>2, <3>1, <4>1, <4>2, <4>3, <4>4, Zenon DEF Promise!Deliver, Playing, Admitted, Place
      <4> QED BY <2>3, <4>5 DEF PromiseStep
    <3> QED BY <3>2, <3>3
  <2> QED BY <2>4, <2>5
<1>7. CASE SecPreBuf > 0 /\ ~Discarded /\ ~Fits
  <2>1. CurSector' = CurSector /\ buffers' = buffers /\ SecPreBuf' = SecPreBuf /\ fad' = fad
    BY <1>0, <1>1, <1>7 DEF PickupAfter, StoreSector
  <2>2. PlayInv'
    BY <1>1, <1>2, <1>3, <2>1 DEF PlayInv, PickupInv, WithheldInv, EndInv
  <2> QED BY <1>2, <1>4, <2>1, <2>2, AsRest
<1> QED BY <1>0, <1>5, <1>6, <1>7

\* A seek begins, or none for want of a disc.
LEMMA SeekPlays ==
  ASSUME TypeOK, PlayInv, NEW p \in Requests, NEW irq \in BOOLEAN, NEW keep \in BOOLEAN,
         StartSeek(p, irq, keep), Cur_CDIF # NoDisc,
         keep => DrivePhase \notin Ejected,
         AuthDiscType' = AuthDiscType \/ AuthDiscType' = TRUE,
         buffers' = buffers \/ (buffers # <<>> /\ buffers' = Tail(buffers)), pend' = pend,
         CurSector' = CurSector
  PROVE  PlayInv' /\ PromiseStep
<1> USE TypeParts, TheConstants
<1>1. /\ fad' = Place /\ repeats' = 0 /\ repeated' = FALSE /\ play' = p /\ PlayEndIRQ' = irq
      /\ SecPreBuf' = IF keep THEN SecPreBuf ELSE 0
      /\ IF keep /\ DrivePhase = "PLAY" /\ ScanMode < 0
         THEN UNCHANGED <<DrivePhase, idle, ScanMode>>
         ELSE /\ ScanMode' = -1 /\ idle' = "free"
              /\ DrivePhase' = IF keep THEN "SEEK_START2" ELSE "SEEK_START1"
  BY DEF StartSeek, ForceCompletePendingSeekStartup, Place
<1>2. /\ SecPreBuf \in Int /\ fad \in Nat
      /\ DrivePhase = "SEEK_START1" => SecPreBuf = 0
      /\ DrivePhase # "SEEK_START1" => Place = fad
  BY DEF PickupTyped, PlayInv, PickupInv, Place
<1>3. CASE ~keep
  <2>1. SecPreBuf' = 0 /\ ScanMode' = -1 /\ DrivePhase' = "SEEK_START1"
    BY <1>1, <1>3
  <2>2. PlayInv'
    BY <1>1, <2>1 DEF PlayInv, PickupInv, WithheldInv, EndInv
  <2>3. Place' = SeekTarget(play'.start) /\ ~Admitted' /\ Playing'
    BY <2>1 DEF Place, Admitted, Playing
  <2> QED BY <1>1, <2>1, <2>2, <2>3, AsBegin
<1>4. CASE keep /\ DrivePhase = "PLAY" /\ ScanMode < 0
  <2>1. SecPreBuf' = SecPreBuf /\ DrivePhase' = "PLAY" /\ ScanMode' = ScanMode /\ fad' = fad
    BY <1>1, <1>2, <1>4
  <2>2. PlayInv'
    BY <1>1, <2>1, <1>4 DEF PlayInv, PickupInv, WithheldInv, EndInv
  <2>3. Place' = Place /\ Playing'
    BY <1>2, <1>4, <2>1 DEF Place, Playing
  <2> QED BY <1>1, <2>1, <2>2, <2>3, AsBegin
<1>5. CASE keep /\ ~(DrivePhase = "PLAY" /\ ScanMode < 0)
  <2>1. SecPreBuf' = SecPreBuf /\ DrivePhase' = "SEEK_START2" /\ ScanMode' = -1
    BY <1>1, <1>5
  <2>2. SecPreBuf > 0 => SecPreBuf = fad'
    BY <1>1, <1>2, <1>5 DEF PlayInv, PickupInv
  <2>3. PlayInv'
    BY <1>1, <2>1, <2>2 DEF PlayInv, PickupInv, WithheldInv, EndInv
  <2>4. Place' = Place /\ Playing'
    BY <1>1, <2>1 DEF Place, Playing
  <2> QED BY <1>1, <2>1, <2>3, <2>4, AsBegin
<1> QED BY <1>3, <1>4, <1>5

LEMMA TickPlays ==
  ASSUME TypeOK, PhaseInv, PlayInv, Tick
  PROVE  PlayInv' /\ PromiseStep
<1> USE TypeParts, TheConstants
<1>0. SecPreBuf \in Int /\ CurSector \in Nat /\ fad \in Nat /\ pend \in BOOLEAN /\ ScanMode \in Int
  BY DEF PickupTyped, StoreTyped, RequestTyped
<1>1. CASE Eject0
  <2>1. DrivePhase = "EJECTED0" /\ DrivePhase' = "EJECTED1" /\ UNCHANGED SecPreBuf
    BY <1>1 DEF Eject0
  <2>2. UNCHANGED <<play, PlayEndIRQ, repeats, repeated, ScanMode, buffers, pend>> /\ AuthDiscType' = FALSE
    BY <1>1 DEF Eject0, request, passing, stored
  <2>3. PlayInv'
    BY <2>1, <2>2 DEF PlayInv, PickupInv, WithheldInv, EndInv
  <2>4. ~Playing'
    BY <2>1 DEF Playing
  <2> QED BY <2>2, <2>3, <2>4, AsHalt
<1>2. CASE Eject1 \/ EjectedWaiting
  <2>1. DrivePhase \in Ejected /\ DrivePhase' \in Ejected /\ UNCHANGED <<SecPreBuf, fad>>
    BY <1>2 DEF Eject1, EjectedWaiting
  <2>2. UNCHANGED <<play, PlayEndIRQ, repeats, repeated, ScanMode, buffers, pend, AuthDiscType>>
    BY <1>2 DEF Eject1, EjectedWaiting, request, passing, stored, block
  <2>3. PlayInv'
    BY <2>1, <2>2 DEF PlayInv, PickupInv, WithheldInv, EndInv
  <2>4. Place' = Place /\ ~Admitted' /\ Playing' = Playing
    BY <2>1 DEF Place, Admitted, Playing
  <2> QED BY <2>2, <2>3, <2>4, AsRest
<1>3. CASE Startup
  <2>1. Cur_CDIF # NoDisc
    BY <1>3 DEF Startup, PhaseInv
  <2>2. [start |-> First, end |-> AtOnce, repeat |-> 0] \in Requests
    BY RequestsTyped
  <2>3. /\ StartSeek([start |-> First, end |-> AtOnce, repeat |-> 0], FALSE, FALSE)
        /\ UNCHANGED <<AuthDiscType, CurSector, buffers, pend>>
    BY <1>3 DEF Startup, stored
  <2> QED BY <2>1, <2>2, <2>3, SeekPlays
<1>4. CASE SeekStart \/ SeekStart3 \/ SeekMiss \/ SeekHit
  <2>1. /\ DrivePhase \in SeekPhases /\ DrivePhase' \in (SeekPhases \ {"SEEK_START1"}) \cup {"PLAY"}
        /\ DrivePhase' = "PLAY" => CurSector' = fad' /\ idle' = idle
        /\ fad' = Place /\ UNCHANGED SecPreBuf
    BY <1>4 DEF SeekStart, SeekStart3, SeekMiss, SeekHit, Place
  <2>2. UNCHANGED <<play, PlayEndIRQ, repeats, repeated, ScanMode, buffers, pend, AuthDiscType>>
    BY <1>4 DEF SeekStart, SeekStart3, SeekMiss, SeekHit, request, passing, stored, block
  <2>3. SecPreBuf > 0 => SecPreBuf = Place
    BY <1>0, <2>1 DEF PlayInv, PickupInv, Place
  <2>4. PlayInv'
    BY <2>1, <2>2, <2>3 DEF PlayInv, PickupInv, WithheldInv, EndInv
  <2>5. Place' = Place /\ Playing' = Playing
    BY <2>1 DEF Place, Playing
  <2>6. Admitted' => Admitted
    BY <2>1 DEF Admitted
  <2> QED BY <2>2, <2>4, <2>5, <2>6, AsRest
<1>5. CASE PauseTick
  <2>1. /\ DrivePhase = "PAUSE" /\ DrivePhase' = "PAUSE" /\ CurSector' = CurSector
        /\ SecPreBuf = 0 => SecPreBuf' = CurSector /\ fad' = CurSector
        /\ SecPreBuf # 0 => UNCHANGED <<SecPreBuf, fad>>
    BY <1>5 DEF PauseTick
  <2>2. UNCHANGED <<play, PlayEndIRQ, repeats, repeated, ScanMode, buffers, pend, AuthDiscType>>
    BY <1>5 DEF PauseTick, request, passing, stored, block
  <2>3. CurSector = fad /\ fad' = fad
    BY <2>1 DEF PlayInv, PickupInv
  <2>4. PlayInv'
    BY <1>0, <2>1, <2>2, <2>3 DEF PlayInv, PickupInv, WithheldInv, EndInv, CheckEndMet, PassesDone
  <2>5. Place' = Place /\ Playing' = Playing /\ ~Admitted'
    BY <2>1, <2>3 DEF Place, Playing, Admitted
  <2> QED BY <2>2, <2>4, <2>5, AsRest
<1>6. CASE PlayTick
  BY <1>6, PlayTickPlays
<1> QED BY <1>1, <1>2, <1>3, <1>4, <1>5, <1>6 DEF Tick

LEMMA PeriodicPlays ==
  ASSUME TypeOK, PlayInv, Periodic
  PROVE  PlayInv' /\ PromiseStep
<1> USE TypeParts, TheConstants
<1>0. /\ SecPreBuf \in Int /\ CurSector \in Nat /\ fad \in Nat /\ pend \in BOOLEAN
      /\ PlayEndIRQ \in BOOLEAN /\ repeated \in BOOLEAN
  BY DEF PickupTyped, StoreTyped, RequestTyped
<1>1. /\ DrivePhase \in {"PLAY", "PAUSE"} /\ idle # "done" /\ CurSector = fad
      /\ Playing /\ Place = fad
      /\ UNCHANGED <<play, ScanMode, buffers, AuthDiscType>>
      /\ SecPreBuf > 0 => SecPreBuf = fad
  BY DEF Periodic, PeriodicNothing, PeriodicPause, PeriodicEnd, PeriodicRepeat, PeriodicFull, PeriodicPlay,
         IdleOut, PlayInv, PickupInv, Playing, Place, request, stored, block
<1>2. CASE PeriodicNothing
  <2>1. /\ SecPreBuf = 0
        /\ UNCHANGED <<DrivePhase, CurSector, fad, SecPreBuf, play, PlayEndIRQ, repeats, repeated, pend>>
    BY <1>2 DEF PeriodicNothing, request, passing, stored
  <2>2. PlayInv'
    BY <2>1 DEF PlayInv, PickupInv, WithheldInv, EndInv, CheckEndMet, PassesDone
  <2>3. Place' = Place /\ Playing' = Playing /\ ~Admitted'
    BY <1>1, <2>1 DEF Place, Playing, Admitted
  <2> QED BY <1>1, <2>1, <2>2, <2>3, AsRest
<1>3. CASE PeriodicPause
  <2>1. /\ DrivePhase = "PAUSE" /\ SecPreBuf' = 0 /\ DrivePhase' \in {"PAUSE", "SEEK_START2"}
        /\ UNCHANGED <<CurSector, fad, play, repeats, repeated>>
        /\ IF PauseCounter = 1 THEN AnnounceEnd ELSE UNCHANGED <<pend, PlayEndIRQ>>
    BY <1>3 DEF PeriodicPause, EnterSeek, passing
  <2>2. /\ UNCHANGED <<pend, PlayEndIRQ>>
        \/ /\ CheckEndMet /\ PlayEndIRQ
           /\ pend' = (pend \/ ~repeated) /\ PlayEndIRQ' = FALSE
    BY <1>0, <2>1 DEF AnnounceEnd
  <2>3. PlayInv'
    BY <1>1, <2>1, <2>2 DEF PlayInv, PickupInv, WithheldInv, EndInv, CheckEndMet, PassesDone
  <2>4. Place' = Place /\ Playing' = Playing /\ ~Admitted' /\ ~Admitted
    BY <1>1, <2>1 DEF Place, Playing, Admitted
  <2>5. CASE UNCHANGED <<pend, PlayEndIRQ>>
    BY <1>1, <2>1, <2>3, <2>4, <2>5, AsRest
  <2>6. CASE CheckEndMet /\ PlayEndIRQ /\ pend' = (pend \/ ~repeated) /\ PlayEndIRQ' = FALSE
    <3>1. PassesDone
      BY <2>1, <2>6 DEF PlayInv, EndInv
    <3>2. Promise!Outside(Place)
      BY <1>1, <2>6 DEF CheckEndMet, Promise!Outside
    <3>3. repeats >= play.repeat \/ repeated
      BY <3>1 DEF PassesDone
    <3>4. Admitted = FALSE /\ Admitted' = FALSE /\ Playing = TRUE /\ Playing' = TRUE
      BY <1>1, <2>4 DEF Admitted, Playing
    <3>5. Promise!Finish
      BY <1>1, <2>1, <2>4, <2>6, <3>2, <3>3, <3>4, Zenon DEF Promise!Finish, Place, Playing, Admitted
    <3> QED BY <2>3, <3>5 DEF PromiseStep
  <2> QED BY <2>2, <2>5, <2>6
<1>4. CASE PeriodicEnd \/ PeriodicFull
  <2>1. /\ SecPreBuf' = 0 /\ DrivePhase' = "PAUSE" /\ CurSector' = fad /\ fad' = fad
        /\ UNCHANGED <<play, PlayEndIRQ, repeats, repeated, pend>>
    BY <1>1, <1>4 DEF PeriodicEnd, PeriodicFull, request, passing, stored
  <2>2. CheckEndMet => PassesDone
    BY <1>4 DEF PeriodicEnd, PeriodicFull
  <2>3. PlayInv'
    BY <2>1, <2>2 DEF PlayInv, PickupInv, WithheldInv, EndInv, CheckEndMet, PassesDone
  <2>4. Place' = Place /\ Playing' = Playing /\ ~Admitted'
    BY <1>1, <2>1 DEF Place, Playing, Admitted
  <2> QED BY <1>1, <2>1, <2>3, <2>4, AsRest
<1>5. CASE PeriodicRepeat
  <2>1. /\ SecPreBuf' = 0 /\ DrivePhase' = "SEEK_START3" /\ fad' = SeekTarget(play.start)
        /\ repeats' = (IF repeats < Forever - 1 THEN repeats + 1 ELSE repeats) /\ repeated' = TRUE
        /\ CheckEndMet /\ ~PassesDone
        /\ UNCHANGED <<PlayEndIRQ, pend>>
    BY <1>5 DEF PeriodicRepeat, request, stored
  <2>2. PlayInv'
    BY <2>1 DEF PlayInv, PickupInv, WithheldInv, EndInv
  <2>3. Place' = Promise!Clamp(play.start)
    BY <2>1, SeekTargetIsClamp DEF Place
  <2>4. Promise!Outside(Place)
    BY <1>1, <2>1 DEF CheckEndMet, Promise!Outside
  <2>5. repeats \in Nat /\ play.repeat \in 0..Forever /\ repeats < play.repeat /\ ~repeated
    BY <2>1 DEF PassesDone, RequestTyped
  <2>6. repeats' \in {repeats, repeats + 1} /\ (repeats' = repeats => play.repeat = Forever)
    BY <2>1, <2>5
  <2>7. Admitted' = FALSE /\ Playing = TRUE /\ Playing' = TRUE
    BY <1>1, <2>1 DEF Admitted, Playing
  <2>8. Promise!Again
    BY <1>1, <2>1, <2>3, <2>4, <2>5, <2>6, <2>7, Zenon DEF Promise!Again, Place, Playing, Admitted
  <2> QED BY <2>2, <2>8 DEF PromiseStep
<1>6. CASE PeriodicPlay
  <2>1. /\ DrivePhase = "PLAY" /\ DrivePhase' = "PLAY" /\ SecPreBuf # 0 /\ ~CheckEndMet
        /\ repeated' = FALSE /\ idle' = "done"
        /\ UNCHANGED <<CurSector, fad, SecPreBuf, play, PlayEndIRQ, repeats, pend>>
    BY <1>6 DEF PeriodicPlay, request, stored
  <2>2. PlayInv'
    BY <2>1 DEF PlayInv, PickupInv, WithheldInv, EndInv
  <2>3. Place' = Place /\ Playing' = Playing
    BY <1>1, <2>1 DEF Place, Playing
  <2>4. CASE SecPreBuf > 0
    <3>1. Admitted' = TRUE /\ Playing = TRUE /\ Playing' = TRUE
      BY <1>1, <2>1, <2>3, <2>4 DEF Admitted, Playing
    <3>2. ~Promise!Outside(Place)
      BY <1>1, <2>1 DEF CheckEndMet, Promise!Outside
    <3>3. Promise!Admit
      BY <1>1, <2>1, <2>3, <3>1, <3>2, Zenon DEF Promise!Admit, Place, Playing, Admitted
    <3> QED BY <2>2, <3>3 DEF PromiseStep
  <2>5. CASE ~(SecPreBuf > 0)
    <3>1. SecPreBuf < 0
      BY <1>0, <2>1, <2>5
    <3>2. play.end # AtOnce
      BY <1>0, <2>1 DEF CheckEndMet, AtOnce
    <3>3. repeated = FALSE
      BY <1>0, <3>1, <3>2 DEF PlayInv, WithheldInv
    <3>4. ~Admitted'
      BY <2>1, <2>5 DEF Admitted
    <3> QED BY <1>1, <2>1, <2>2, <2>3, <3>3, <3>4, AsRest
  <2> QED BY <2>4, <2>5
<1> QED BY <1>2, <1>3, <1>4, <1>5, <1>6 DEF Periodic

\* The play is cancelled: what was read is let go or withheld.
LEMMA CancelPlays ==
  ASSUME TypeOK, PlayInv, SecPreBuf' \in {0, -SecPreBuf, SecPreBuf}, SecPreBuf' <= 0,
         play' = Halted, PlayEndIRQ' = FALSE,
         UNCHANGED <<DrivePhase, fad, CurSector, repeats, repeated, ScanMode, AuthDiscType, pend>>
  PROVE  PlayInv' /\ (buffers' = buffers => PromiseStep)
<1> USE TypeParts, TheConstants
<1>1. SecPreBuf \in Int /\ play \in Requests
  BY DEF PickupTyped, RequestTyped, Requests
<1>2. play'.end = AtOnce /\ play'.start = play.start
  BY <1>1 DEF Halted, Requests
<1>3. PickupInv'
  BY <1>1 DEF PlayInv, PickupInv
<1>4. PlayInv'
  BY <1>2, <1>3 DEF PlayInv, WithheldInv, EndInv
<1>5. ~(SecPreBuf' > 0)
  BY <1>1
<1>6. Place' = Place /\ Playing' = Playing /\ ~Admitted'
  BY <1>2, <1>5 DEF Place, Playing, Admitted
<1> QED BY <1>4, <1>6, AsCancel

LEMMA CommandPlays ==
  ASSUME TypeOK, PhaseInv, PlayInv, Patient, Commands
  PROVE  PlayInv' /\ PromiseStep
<1> USE TypeParts, TheConstants
<1>0. /\ SecPreBuf \in Int /\ CurSector \in Nat /\ fad \in Nat /\ pend \in BOOLEAN /\ AuthDiscType \in BOOLEAN
      /\ play \in Requests
  BY DEF PickupTyped, StoreTyped, FlagsTyped, RequestTyped, Requests
<1>1. UNCHANGED <<CurSector, buffers, pend>>
  BY DEF Commands, PlayCommand, SeekCommand, StopCommand, PauseCommand, ScanCommand, InitCommand, AuthCommand, stored
<1>2. Ready => DrivePhase \notin Ejected /\ Cur_CDIF # NoDisc
  BY DEF Ready, PhaseInv
<1>3. CASE PlayCommand \/ SeekCommand
  <2>1. PICK p \in Requests, irq \in BOOLEAN, keep \in BOOLEAN : StartSeek(p, irq, keep)
    BY <1>3, RequestsTyped DEF PlayCommand, SeekCommand, Requests
  <2>2. Ready /\ AuthDiscType' = AuthDiscType
    BY <1>3 DEF PlayCommand, SeekCommand, block
  <2> QED BY <1>1, <1>2, <2>1, <2>2, SeekPlays
<1>4. CASE StopCommand
  <2>1. /\ SecPreBuf' = 0 /\ PlayEndIRQ' = FALSE /\ DrivePhase' = "STOPPED"
        /\ UNCHANGED <<play, repeats, repeated, ScanMode, AuthDiscType>>
    BY <1>4 DEF StopCommand, ClearPendingSec, block, passing
  <2>2. PlayInv'
    BY <2>1 DEF PlayInv, PickupInv, WithheldInv, EndInv
  <2>3. ~Playing'
    BY <2>1 DEF Playing
  <2> QED BY <1>0, <1>1, <2>1, <2>2, <2>3, AsHalt
<1>5. CASE PauseCommand
  <2>1. AuthDiscType' = AuthDiscType
    BY <1>5 DEF PauseCommand, block
  <2>2. CASE DrivePhase = "STOPPED" /\ Cur_CDIF # NoDisc
    BY <1>1, <1>5, <2>1, <2>2, SeekPlays, RequestsTyped DEF PauseCommand
  <2>3. CASE ~(DrivePhase = "STOPPED" /\ Cur_CDIF # NoDisc)
    <3>1. /\ SecPreBuf' = Withheld /\ PlayEndIRQ' = FALSE /\ play' = Halted
          /\ UNCHANGED <<DrivePhase, fad, repeats, repeated, ScanMode>>
      BY <1>5, <2>3 DEF PauseCommand, passing
    <3>2. Withheld \in {-SecPreBuf, SecPreBuf} /\ Withheld <= 0
      BY <1>0 DEF Withheld, Held
    <3> QED BY <1>1, <2>1, <3>1, <3>2, CancelPlays
  <2> QED BY <2>2, <2>3
<1>6. CASE ScanCommand
  <2>1. PICK mode \in {0, 1} : StartScan(mode)
    BY <1>6 DEF ScanCommand
  <2>2. Ready /\ UNCHANGED <<repeats, repeated, AuthDiscType>>
    BY <1>6 DEF ScanCommand, block, passing
  <2>3. /\ fad' = Place /\ SecPreBuf' = 0 /\ PlayEndIRQ' = FALSE /\ ScanMode' = mode
        /\ play' = [play EXCEPT !.repeat = 0]
        /\ \/ DrivePhase = "PLAY" /\ DrivePhase' = "PLAY"
           \/ DrivePhase # "PLAY" /\ DrivePhase' = "SEEK_START2"
    BY <1>2, <2>1, <2>2 DEF StartScan, ForceCompletePendingSeekStartup, ClearPendingSec, EnterSeek, Place
  <2>4. Place' = Place /\ Playing' /\ ~Admitted'
    BY <2>3 DEF Place, Playing, Admitted
  <2>5. PlayInv'
    BY <1>1, <2>3 DEF PlayInv, PickupInv, WithheldInv, EndInv, Place
  <2>6. (ScanMode' >= 0) = TRUE /\ Admitted' = FALSE /\ Playing' = TRUE
    BY <2>3, <2>4 DEF Admitted, Playing
  <2>7. Promise!BeginScan
    BY <1>1, <2>2, <2>3, <2>4, <2>6, Zenon DEF Promise!BeginScan, Place, Playing, Admitted
  <2> QED BY <2>5, <2>7 DEF PromiseStep
<1>7. CASE InitCommand
  <2>1. /\ SecPreBuf' = 0 /\ PlayEndIRQ' = FALSE /\ play' = Halted
        /\ UNCHANGED <<DrivePhase, fad, repeats, repeated, ScanMode, AuthDiscType>>
    BY <1>7 DEF InitCommand, ClearPendingSec, block, passing
  <2>2. SecPreBuf' \in {0, -SecPreBuf, SecPreBuf} /\ SecPreBuf' <= 0
    BY <2>1
  <2> QED BY <1>1, <2>1, <2>2, CancelPlays
<1>8. CASE AuthCommand
  <2>1. Ready /\ AuthDiscType' = TRUE
    BY <1>8 DEF AuthCommand
  <2>2. CASE First \notin Audio
    BY <1>1, <1>2, <1>8, <2>1, <2>2, SeekPlays, RequestsTyped DEF AuthCommand
  <2>3. CASE First \in Audio
    <3>1. UNCHANGED <<DrivePhase, idle, fad, SecPreBuf, play, PlayEndIRQ, repeats, repeated, ScanMode>>
      BY <1>8, <2>3 DEF AuthCommand, request, passing
    <3>2. PlayInv'
      BY <1>1, <3>1 DEF PlayInv, PickupInv, WithheldInv, EndInv, CheckEndMet, PassesDone
    <3>3. Place' = Place /\ Playing' = Playing /\ Admitted' = Admitted
      BY <3>1 DEF Place, Playing, Admitted
    <3>4. Promise!Accept
      BY <1>1, <2>1, <3>1, <3>3, Zenon DEF Promise!Accept, Place, Playing, Admitted
    <3> QED BY <3>2, <3>4 DEF PromiseStep
  <2> QED BY <2>2, <2>3
<1> QED BY <1>3, <1>4, <1>5, <1>6, <1>7, <1>8 DEF Commands

LEMMA HostPlays ==
  ASSUME TypeOK, PhaseInv, PlayInv, Patient, Host
  PROVE  PlayInv' /\ PromiseStep
<1> USE TypeParts, TheConstants
<1>0. /\ SecPreBuf \in Int /\ CurSector \in Nat /\ fad \in Nat /\ pend \in BOOLEAN
      /\ AuthDiscType \in BOOLEAN /\ buffers \in Seq(Nat)
  BY DEF PickupTyped, StoreTyped, FlagsTyped
<1>1. CASE SoftwareReset
  <2>1. /\ SecPreBuf' = 0 /\ PlayEndIRQ' = FALSE /\ play' = Halted /\ buffers' = <<>>
        /\ UNCHANGED <<DrivePhase, fad, CurSector, repeats, repeated, ScanMode, AuthDiscType, pend>>
    BY <1>1 DEF SoftwareReset, ClearPendingSec, passing
  <2>2. SecPreBuf' \in {0, -SecPreBuf, SecPreBuf} /\ SecPreBuf' <= 0
    BY <2>1
  <2>3. PlayInv'
    BY <2>1, <2>2, CancelPlays
  <2>4. play'.start = play.start
    BY <2>1 DEF Halted, RequestTyped
  <2>5. Place' = Place /\ Playing' = Playing /\ Admitted' = FALSE
    BY <2>1, <2>4 DEF Place, Playing, Admitted
  <2>6. Promise!Discard
    BY <2>1, <2>5, Zenon DEF Promise!Discard, Place, Playing, Admitted, Halted, AtOnce
  <2> QED BY <2>3, <2>6 DEF PromiseStep
<1>2. CASE Authenticated
  <2>1. /\ buffers # <<>> /\ buffers' = Tail(buffers) /\ AuthDiscType' = TRUE
        /\ pend' = pend /\ CurSector' = CurSector
    BY <1>2 DEF Authenticated
  <2>2. CASE Cur_CDIF # NoDisc
    <3>1. StartSeek([start |-> First, end |-> AtOnce, repeat |-> 0], FALSE, FALSE)
      BY <1>2, <2>2 DEF Authenticated
    <3> QED BY <2>1, <2>2, <3>1, SeekPlays, RequestsTyped
  <2>3. CASE Cur_CDIF = NoDisc
    <3>1. /\ play' = Halted /\ PlayEndIRQ' = FALSE
          /\ UNCHANGED <<DrivePhase, fad, SecPreBuf, repeats, repeated, ScanMode>>
      BY <1>2, <2>3 DEF Authenticated, passing
    <3>2. play'.end = AtOnce
      BY <3>1 DEF Halted, RequestTyped
    <3>3. PlayInv'
      BY <2>1, <3>1, <3>2 DEF PlayInv, PickupInv, WithheldInv, EndInv
    <3>4. DrivePhase' \in Empty
      BY <2>3, <3>1 DEF PhaseInv
    <3>5. ~Playing'
      BY <3>4 DEF Playing
    <3> QED BY <2>1, <3>1, <3>3, <3>5, AsHalt
  <2> QED BY <2>2, <2>3
<1>3. CASE HostTakes
  <2>1. /\ buffers # <<>> /\ buffers' = Tail(buffers)
        /\ UNCHANGED <<CurSector, fad, play, PlayEndIRQ, repeats, repeated, ScanMode, pend, AuthDiscType>>
    BY <1>3 DEF HostTakes, request, passing, block
  <2>2. \/ UNCHANGED <<SecPreBuf, DrivePhase, idle>>
        \/ DrivePhase = "PAUSE" /\ DrivePhase' = "SEEK_START2" /\ SecPreBuf' = 0
    BY <1>3 DEF HostTakes, CheckBufPauseResume, EnterSeek
  <2>3. PlayInv'
    BY <2>1, <2>2 DEF PlayInv, PickupInv, WithheldInv, EndInv, CheckEndMet, PassesDone
  <2>4. Place' = Place /\ Playing' = Playing
    BY <2>1, <2>2 DEF Place, Playing
  <2>5. Admitted' \in {Admitted, FALSE}
    <3>1. CASE UNCHANGED <<SecPreBuf, DrivePhase, idle>>
      <4>1. Admitted' = Admitted
        BY <3>1, Zenon DEF Admitted
      <4> QED BY <4>1, Zenon
    <3>2. CASE SecPreBuf' = 0
      <4>1. Admitted' = FALSE
        BY <3>2 DEF Admitted
      <4> QED BY <4>1, Zenon
    <3> QED BY <2>2, <3>1, <3>2
  <2>6. Promise!Take
    BY <2>1, <2>4, <2>5, Zenon DEF Promise!Take, Place, Playing, Admitted
  <2> QED BY <2>3, <2>6 DEF PromiseStep
<1>4. CASE HostClears
  <2>1. /\ pend' = FALSE
        /\ UNCHANGED <<DrivePhase, idle, CurSector, fad, SecPreBuf, play, PlayEndIRQ, repeats, repeated,
                       ScanMode, buffers, AuthDiscType>>
    BY <1>4 DEF HostClears, request, passing, block
  <2>2. PlayInv'
    BY <2>1 DEF PlayInv, PickupInv, WithheldInv, EndInv, CheckEndMet, PassesDone
  <2>3. Place' = Place /\ Playing' = Playing /\ Admitted' = Admitted
    BY <2>1 DEF Place, Playing, Admitted
  <2>4. Promise!Acknowledge
    BY <2>1, <2>3, Zenon DEF Promise!Acknowledge, Place, Playing, Admitted
  <2> QED BY <2>2, <2>4 DEF PromiseStep
<1> QED BY <1>1, <1>2, <1>3, <1>4, CommandPlays DEF Host

LEMMA ResetPlays ==
  ASSUME ResetDone
  PROVE  PlayInv' /\ PromiseStep
<1>1. /\ DrivePhase' = "EJECTED_WAITING" /\ SecPreBuf' = 0 /\ PlayEndIRQ' = FALSE /\ play' = Halted
      /\ repeats' = 0 /\ repeated' = FALSE /\ ScanMode' = -1 /\ buffers' = <<>> /\ pend' = pend
      /\ AuthDiscType' = FALSE
  BY DEF ResetDone, PhaseAfterReset, ClearPendingSec
<1>2. PlayInv'
  BY <1>1 DEF PlayInv, PickupInv, WithheldInv, EndInv
<1>3. ~Playing'
  BY <1>1 DEF Playing
<1> QED BY <1>1, <1>2, <1>3, AsHalt

\* The drive as it is after power on plays nothing.
LEMMA PowerPlays ==
  ASSUME PowerOn
  PROVE  PlayInv' /\ PromiseStep
<1>1. /\ DrivePhase' = "RESETTING" /\ SecPreBuf' = 0 /\ PlayEndIRQ' = FALSE /\ play' = NoPlay
      /\ repeats' = 0 /\ repeated' = FALSE /\ ScanMode' = -1 /\ buffers' = <<>> /\ pend' = FALSE
      /\ AuthDiscType' = FALSE
  BY DEF PowerOn
<1>2. PlayInv'
  BY <1>1 DEF PlayInv, PickupInv, WithheldInv, EndInv
<1>3. ~Playing'
  BY <1>1 DEF Playing
<1> QED BY <1>1, <1>2, <1>3, AsHalt

LEMMA StillPlays ==
  ASSUME PlayInv, UNCHANGED driveVars
  PROVE  PlayInv' /\ PromiseStep
<1>1. UNCHANGED <<DrivePhase, idle, CurSector, fad, SecPreBuf, play, PlayEndIRQ, repeats, repeated,
                  ScanMode, buffers, pend, AuthDiscType>>
  BY DEF driveVars
<1>2. PlayInv'
  BY <1>1 DEF PlayInv, PickupInv, WithheldInv, EndInv, CheckEndMet, PassesDone
<1>3. Place' = Place /\ Playing' = Playing /\ Admitted' = Admitted
  BY <1>1 DEF Place, Playing, Admitted
<1> QED BY <1>1, <1>2, <1>3, AsRest

LEMMA TrayPlays ==
  ASSUME PlayInv, NEW tray_open, NEW image, SetDisc(tray_open, image)
  PROVE  PlayInv' /\ PromiseStep
<1>1. UNCHANGED <<CurSector, fad, SecPreBuf, play, PlayEndIRQ, repeats, repeated, ScanMode, buffers, pend>>
  BY DEF SetDisc, request, passing, stored
<1>2. CASE Cur_CDIF' = NoDisc /\ Notices
  <2>1. AuthDiscType' = FALSE /\ DrivePhase' = "EJECTED0"
    BY <1>2 DEF SetDisc
  <2>2. PlayInv'
    BY <1>1, <2>1 DEF PlayInv, PickupInv, WithheldInv, EndInv
  <2>3. ~Playing'
    BY <2>1 DEF Playing
  <2> QED BY <1>1, <2>1, <2>2, <2>3, AsHalt
<1>3. CASE ~(Cur_CDIF' = NoDisc /\ Notices)
  <2>1. UNCHANGED <<AuthDiscType, DrivePhase, idle>>
    BY <1>3 DEF SetDisc
  <2>2. PlayInv'
    BY <1>1, <2>1 DEF PlayInv, PickupInv, WithheldInv, EndInv, CheckEndMet, PassesDone
  <2>3. Place' = Place /\ Playing' = Playing /\ Admitted' = Admitted
    BY <1>1, <2>1 DEF Place, Playing, Admitted
  <2> QED BY <1>1, <2>1, <2>2, <2>3, AsRest
<1> QED BY <1>2, <1>3

LEMMA FrontEndPlays ==
  ASSUME PlayInv, FrontEnd
  PROVE  PlayInv' /\ PromiseStep
<1>1. CASE Eject
  <2>1. SetDisc(TRUE, NoDisc)
    BY <1>1, Zenon DEF Eject
  <2> QED BY <2>1, TrayPlays, Zenon
<1>2. CASE Insert
  <2>1. SetDisc(FALSE, Chosen)
    BY <1>2, Zenon DEF Insert
  <2> QED BY <2>1, TrayPlays, Zenon
<1>3. CASE SetImageIndex \/ ReplaceImageIndex \/ AddImageIndex
  <2>1. UNCHANGED driveVars
    BY <1>3 DEF SetImageIndex, ReplaceImageIndex, AddImageIndex
  <2> QED BY <2>1, StillPlays
<1>4. CASE LoadGame
  BY <1>4, PowerPlays DEF LoadGame
<1>5. CASE ResetSwitch
  BY <1>5, PowerPlays DEF ResetSwitch, Reset
<1> QED BY <1>1, <1>2, <1>3, <1>4, <1>5 DEF FrontEnd

LEMMA InitPlays == Init => PlayInv /\ Promise!Init
<1> SUFFICES ASSUME Init PROVE PlayInv /\ Promise!Init
  OBVIOUS
<1>1. /\ DrivePhase = "RESETTING" /\ SecPreBuf = 0 /\ PlayEndIRQ = FALSE /\ play = NoPlay
      /\ repeats = 0 /\ repeated = FALSE /\ ScanMode = -1 /\ buffers = <<>> /\ pend = FALSE
      /\ AuthDiscType = FALSE
  BY DEF Init, DriveInit
<1>2. PlayInv
  BY <1>1 DEF PlayInv, PickupInv, WithheldInv, EndInv
<1>3. Admitted = FALSE /\ Playing = FALSE /\ (ScanMode >= 0) = FALSE
  BY <1>1 DEF Admitted, Playing
<1>4. Promise!Init
  BY <1>1, <1>3, Zenon DEF Promise!Init, Admitted, Playing, NoPlay, Promise!NoPlay
<1> QED BY <1>2, <1>4

LEMMA NextPlays ==
  ASSUME Patient, TypeOK, PhaseInv, PlayInv, [Next]_vars
  PROVE  PlayInv' /\ PromiseStep
<1>1. CASE DriveNext
  BY <1>1, TickPlays, PeriodicPlays, HostPlays, ResetPlays DEF DriveNext
<1>2. CASE UNCHANGED vars
  BY <1>2, StillPlays DEF vars
<1> QED BY <1>1, <1>2, FrontEndPlays DEF Next

\* Under every swap, reset and list change the drive delivers the plays it is
\* asked for: sector after sector of the range, as often as asked, and the
\* end announced once (the drive's phases in cdb.c).
THEOREM ImplementsPlayServiceHolds ==
  ASSUME Patient, LoadsEjected = FALSE
  PROVE  Spec => ImplementsPlayService
<1>1. ListTypeOK /\ IInv => TypeOK /\ PhaseInv
  BY DEF ListTypeOK, IInv
<1>2. ListTypeOK /\ IInv /\ PlayInv /\ [Next]_vars => PlayInv' /\ [Promise!Next]_(Promise!vars)
  BY <1>1, NextPlays DEF PromiseStep
<1> QED BY <1>2, InitPlays, TypeCorrect, Inductive, PTL DEF Spec, ImplementsPlayService, Promise!Spec
=============================================================================
