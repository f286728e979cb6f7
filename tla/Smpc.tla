-------------------------------- MODULE Smpc --------------------------------
(* The system manager (mednafen/ss/smpc.c): SMPC_Update, a coroutine whose  *)
(* SubPhase is pc here, with the line hook of VDP2, the frame loop, the     *)
(* slave CPU's switch and a program that gives commands.                    *)
(*                                                                          *)
(* A step runs from one suspension to the next at most.  Where the code     *)
(* eats clocks the model takes any time; where it waits for a condition it  *)
(* polls, and every access of the program updates it first, so nobody else  *)
(* moves while the condition holds (Suspended).  The clock of the day, the  *)
(* reset button, the direct mode of the ports and the two power flags that  *)
(* are only reported (CDOn, the master's NMI) are left out; SETTIME stands  *)
(* for the commands that take time, NMIREQ for those that take none.        *)
EXTENDS Integers, Sequences

CONSTANTS
  Nibbles,   \* of the output registers: 64
  Lengths,   \* of a port's report, in nibbles: 2 when empty, 8 for a pad, more for a multitap
  MaxLate,   \* bound: phases of the beam in a stretch of eaten clocks
  None       \* no command: -1

Commands == {"SSHON", "SSHOFF", "SNDON", "SNDOFF", "SYSRES", "CKCHG352", "CKCHG320",
             "INTBACK", "SETTIME", "NMIREQ"}

ASSUME SmpcConstants ==
  /\ Nibbles \in Nat \ {0} /\ Lengths \subseteq Nat \ {0}
  /\ MaxLate \in 0..3 /\ None \notin Commands

Ports    == {0, 1}

\* A nibble is known by its place in a port's report.
Nibble   == Ports \X (Nat \ {0})
Old      == <<2, 0>>
InStatus == <<3, 0>>

VARIABLES
  pc, turn,                        \* SubPhase; which of the eight waits of a clock change
  PendingCommand, ExecutingCommand, SF,
  SR,                              \* npe, pdl, and bit 7, set with the ports' data
  wants,                           \* IREG[1] and the low bits of IREG[0]
  cont, brk,                       \* bits 7 and 6 of IREG[0]
  OREG, OWP, PDCounter, NextContBit, CurPort,
  work,                            \* nibbles of the port still to be written
  SlaveSH2On, SlaveSH2Pending, SoundCPUOn,
  CurrentClockDivisor, PendingClockDivisor,   \* 61, 65, and 0 for none
  ResetPending, PendingVB, vb, vsync,
  phase, frameDue,                 \* VDP2's vertical phase; the frame has ended
  late,                            \* phases begun since the manager began to eat clocks, or
                                   \* asked for a switch of the slave
  irq,                             \* the interrupt is pending in the SCU
  answering, got,                  \* the program: has read a packet that goes on; what it has read
  asked, report, blanked, broken   \* auxiliary: what was asked for, what the ports
                                   \* said, and what may cut a command short

status   == <<SR, OREG, irq>>
cursors  == <<turn, OWP, PDCounter, NextContBit, CurPort, work>>
registers == <<wants, cont, brk>>
power    == <<SlaveSH2On, SlaveSH2Pending, SoundCPUOn, CurrentClockDivisor, PendingClockDivisor,
              ResetPending>>
raster   == <<vb, vsync, phase, frameDue>>
program  == <<answering, got, asked, blanked, broken>>
command  == <<PendingCommand, ExecutingCommand, SF>>
vars == <<pc, command, status, cursors, registers, power, PendingVB, raster, late, program, report>>

ResetState == [slave |-> FALSE, sound |-> FALSE, clock |-> 65]
-----------------------------------------------------------------------------
\* Going on after a packet: the bit the program toggles
Answered == cont = NextContBit \/ brk

\* The conditions of SMPC_WAIT_UNTIL_COND, by place
ClockWaits == <<~vb, vb, ~vb, vb, PendingClockDivisor = 0, ~vb, vb, vsync>>

\* A plausible bug: a read of the ports waits for the program and for the
\* beam only, and does not give way to the next VBlank.
MutAwaited ==
  [wait  |-> PendingCommand # None \/ PendingVB,
   reset |-> ~ResetPending,
   clock |-> ClockWaits[turn],
   cont  |-> Answered,
   vbend |-> ~vb,
   more  |-> Answered,
   slave |-> SlaveSH2Pending = 0]

Awaited ==
  [wait  |-> PendingCommand # None \/ PendingVB,
   reset |-> ~ResetPending,
   clock |-> ClockWaits[turn],
   cont  |-> Answered \/ PendingVB,
   vbend |-> ~vb \/ PendingVB,
   more  |-> Answered \/ PendingVB,
   slave |-> SlaveSH2Pending = 0]

Eating == {"vblank", "begin", "status", "start", "port", "read", "nibble", "settime", "abort"}

\* SMPC_Update has returned: it eats clocks, or its condition does not hold.
Suspended == pc \in Eating \/ (pc \in DOMAIN Awaited /\ ~Awaited[pc])

At(label) == pc = label /\ (label \in DOMAIN Awaited => Awaited[label])

Finish == pc' = "wait" /\ ExecutingCommand' = None /\ SF' = FALSE /\ UNCHANGED PendingCommand
Stay   == UNCHANGED command

TakeVBlank ==
  /\ At("wait") /\ PendingCommand = None
  /\ PendingVB' = FALSE /\ pc' = "vblank"
  /\ UNCHANGED <<command, status, cursors, registers, power, raster, program, report>>

VBlankDone ==
  /\ At("vblank") /\ pc' = "wait"
  /\ UNCHANGED <<command, status, cursors, registers, power, PendingVB, raster, program, report>>

TakeCommand ==
  /\ At("wait") /\ PendingCommand # None
  /\ ExecutingCommand' = PendingCommand /\ PendingCommand' = None
  /\ pc' = "begin"
  /\ UNCHANGED <<SF, status, cursors, registers, power, PendingVB, raster, program, report>>
-----------------------------------------------------------------------------
Begin(cmds) == At("begin") /\ ExecutingCommand \in cmds

SoundSwitch ==
  /\ Begin({"SNDON", "SNDOFF"})
  /\ SoundCPUOn' = (ExecutingCommand = "SNDON")
  /\ Finish
  /\ UNCHANGED <<status, cursors, registers, SlaveSH2On, SlaveSH2Pending, CurrentClockDivisor,
                 PendingClockDivisor, ResetPending, PendingVB, raster, program, report>>

\* The slave is switched between two runs of the CPU loop, and the command
\* waits for that.
SlaveSwitch ==
  /\ Begin({"SSHON", "SSHOFF"})
  /\ LET on == ExecutingCommand = "SSHON" IN
       IF SlaveSH2On = on
         THEN Finish /\ UNCHANGED SlaveSH2Pending
         ELSE SlaveSH2Pending' = (IF on THEN 1 ELSE -1) /\ pc' = "slave" /\ Stay
  /\ UNCHANGED <<status, cursors, registers, SlaveSH2On, SoundCPUOn, CurrentClockDivisor,
                 PendingClockDivisor, ResetPending, PendingVB, raster, program, report>>

SlaveSwitched ==
  /\ At("slave") /\ Finish
  /\ UNCHANGED <<status, cursors, registers, power, PendingVB, raster, program, report>>

\* The frame loop resets the system before the next frame.
SystemReset ==
  /\ Begin({"SYSRES"})
  /\ ResetPending' = TRUE /\ pc' = "reset" /\ Stay
  /\ UNCHANGED <<status, cursors, registers, SlaveSH2On, SlaveSH2Pending, SoundCPUOn,
                 CurrentClockDivisor, PendingClockDivisor, PendingVB, raster, program, report>>

\* Slave and sound CPU go off, VDP2 begins a new field, the SCU forgets its
\* interrupts, and the frame loop changes the clock.
ClockChange ==
  /\ Begin({"CKCHG352", "CKCHG320"})
  /\ SlaveSH2Pending' = IF SlaveSH2On THEN -1 ELSE SlaveSH2Pending
  /\ SoundCPUOn' = FALSE
  /\ PendingClockDivisor' = IF ExecutingCommand = "CKCHG352" THEN 61 ELSE 65
  /\ phase' = "display" /\ irq' = FALSE
  /\ pc' = "clock" /\ turn' = 1 /\ Stay
  /\ UNCHANGED <<SR, OREG, OWP, PDCounter, NextContBit, CurPort, work, registers, SlaveSH2On,
                 CurrentClockDivisor, ResetPending, PendingVB, vb, vsync, frameDue, program, report>>

ClockWait ==
  /\ At("clock")
  /\ IF turn < 8 THEN turn' = turn + 1 /\ Stay /\ UNCHANGED pc
                 ELSE Finish /\ UNCHANGED turn
  /\ UNCHANGED <<status, OWP, PDCounter, NextContBit, CurPort, work, registers, power, PendingVB,
                 raster, program, report>>

OtherCommand ==
  /\ \/ Begin({"NMIREQ"}) /\ Finish
     \/ Begin({"SETTIME"}) /\ pc' = "settime" /\ Stay
     \/ At("settime") /\ Finish
  /\ UNCHANGED <<status, cursors, registers, power, PendingVB, raster, program, report>>
-----------------------------------------------------------------------------
\* INTBACK: the status at once, then the ports, in packets of the size of
\* the output registers.
Interrupt(npe, pdl, ports) ==
  SR' = [npe |-> npe, pdl |-> pdl, ports |-> ports] /\ irq' = TRUE

Intback ==
  /\ Begin({"INTBACK"})
  /\ SR' = [SR EXCEPT !.npe = FALSE]
  /\ IF wants.status THEN pc' = "status" /\ Stay /\ UNCHANGED NextContBit
     ELSE IF wants.ports THEN pc' = "vbend" /\ NextContBit' = TRUE /\ Stay
     ELSE Finish /\ UNCHANGED NextContBit
  /\ UNCHANGED <<OREG, irq, turn, OWP, PDCounter, CurPort, work, registers, power, PendingVB, raster,
                 program, report>>

Status ==
  /\ At("status")
  /\ OREG' = [i \in 0..Nibbles - 1 |-> InStatus]
  /\ Interrupt(wants.ports, SR.pdl, FALSE)
  /\ IF wants.ports THEN pc' = "cont" /\ NextContBit' = TRUE /\ Stay
                    ELSE Finish /\ UNCHANGED NextContBit
  /\ UNCHANGED <<turn, OWP, PDCounter, CurPort, work, registers, power, PendingVB, raster, program,
                 report>>

\* Every wait and every stretch of eaten clocks of the ports' part ends in
\* the abort when VBlank has come.
GiveWay(label) ==
  /\ At(label) /\ PendingVB
  /\ pc' = "abort"
  /\ UNCHANGED <<command, status, cursors, registers, power, PendingVB, raster, program, report>>

PortsGiveWay == \E label \in {"cont", "vbend", "start", "port", "read", "nibble", "more"} : GiveWay(label)

Aborted ==
  /\ At("abort") /\ Finish
  /\ UNCHANGED <<status, cursors, registers, power, PendingVB, raster, program, report>>

GoOn(label) == At(label) /\ ~PendingVB

StatusAnswered ==
  /\ GoOn("cont")
  /\ IF brk /\ cont # NextContBit
       THEN pc' = "abort" /\ UNCHANGED NextContBit
       ELSE pc' = "vbend" /\ NextContBit' = ~NextContBit
  /\ UNCHANGED <<command, status, turn, OWP, PDCounter, CurPort, work, registers, power, PendingVB,
                 raster, program, report>>

DisplayBegun ==
  /\ GoOn("vbend")
  /\ PDCounter' = 0 /\ pc' = "start"
  /\ UNCHANGED <<command, status, turn, OWP, NextContBit, CurPort, work, registers, power, PendingVB,
                 raster, program, report>>

StartPorts ==
  /\ GoOn("start")
  /\ OWP' = 0 /\ CurPort' = 0 /\ pc' = "port"
  /\ UNCHANGED <<command, status, turn, PDCounter, NextContBit, work, registers, power, PendingVB,
                 raster, program, report>>

\* After the last port the report is complete.
NextPort ==
  IF CurPort = 0
    THEN CurPort' = 1 /\ pc' = "port" /\ Stay /\ UNCHANGED <<SR, irq>>
    ELSE CurPort' = 0 /\ Interrupt(FALSE, PDCounter < 2, TRUE) /\ Finish

\* A port is skipped or asked for its report, which its device determines.
ReadPort ==
  /\ GoOn("port")
  /\ \/ /\ CurPort \in wants.skip
        /\ NextPort
        /\ UNCHANGED <<work, report>>
     \/ /\ CurPort \notin wants.skip
        /\ \E len \in Lengths : work' = [i \in 1..len |-> <<CurPort, i>>]
        /\ report' = report \o work'
        /\ pc' = "read" /\ Stay
        /\ UNCHANGED <<SR, irq, CurPort>>
  /\ UNCHANGED <<OREG, turn, OWP, PDCounter, NextContBit, registers, power, PendingVB, raster, program>>

DeviceRead ==
  /\ GoOn("read") /\ pc' = "write"
  /\ UNCHANGED <<command, status, cursors, registers, power, PendingVB, raster, program, report>>

\* A plausible bug: the first packet is overwritten without waiting for the
\* program.
MutPacketFull == OWP = 0 /\ PDCounter > 1

PacketFull == OWP = 0 /\ PDCounter > 0

Put ==
  /\ PDCounter' = IF OWP = 0 /\ PDCounter < 255 THEN PDCounter + 1 ELSE PDCounter
  /\ OREG' = [OREG EXCEPT ![OWP] = Head(work)]
  /\ OWP' = (OWP + 1) % Nibbles
  /\ work' = Tail(work)
  /\ pc' = "nibble"

\* JR_WRNYB: before it begins the registers again it announces the packet
\* they hold, and waits.
WriteNibble ==
  /\ pc = "write"
  /\ IF PacketFull
       THEN /\ Interrupt(TRUE, PDCounter < 2, TRUE)
            /\ pc' = "more"
            /\ UNCHANGED <<OREG, OWP, PDCounter, work>>
       ELSE Put /\ UNCHANGED <<SR, irq>>
  /\ UNCHANGED <<command, turn, NextContBit, CurPort, registers, power, PendingVB, raster, program, report>>

PacketAnswered ==
  /\ GoOn("more")
  /\ IF brk
       THEN pc' = "abort" /\ UNCHANGED <<OREG, OWP, PDCounter, work, NextContBit>>
       ELSE Put /\ NextContBit' = ~NextContBit
  /\ UNCHANGED <<command, SR, irq, turn, CurPort, registers, power, PendingVB, raster, program, report>>

NibbleWritten ==
  /\ GoOn("nibble")
  /\ IF work # <<>>
       THEN pc' = "write" /\ Stay /\ UNCHANGED <<SR, irq, CurPort>>
       ELSE NextPort
  /\ UNCHANGED <<OREG, turn, OWP, PDCounter, NextContBit, work, registers, power, PendingVB, raster,
                 program, report>>

Update ==
  /\ \/ TakeVBlank \/ VBlankDone \/ TakeCommand
     \/ SoundSwitch \/ SlaveSwitch \/ SlaveSwitched \/ SystemReset
     \/ ClockChange \/ ClockWait \/ OtherCommand
     \/ Intback \/ Status \/ PortsGiveWay \/ Aborted \/ StatusAnswered
     \/ DisplayBegun \/ StartPorts \/ ReadPort \/ DeviceRead
     \/ WriteNibble \/ PacketAnswered \/ NibbleWritten
  /\ late' = IF pc \in Eating THEN 0 ELSE late
-----------------------------------------------------------------------------
\* VDP2 reports VBlank and VSync at every line; a phase lasts some lines.
\* The frame ends inside VBlank, and the CPU loop is left long before the
\* display begins.  At most MaxLate phases begin while the manager eats clocks,
\* 952 at once, a quarter of a millisecond; the shortest phase lasts three
\* lines.  Nor do more before a switch of the slave, for which the loop is left
\* within an instruction (EventLoop!SwitchIsPrompt).
After == [display |-> "bottom", bottom |-> "sync", sync |-> "top", top |-> "display"]

Line ==
  /\ Suspended
  /\ phase' \in {phase} \cup (IF frameDue \/ late = MaxLate THEN {} ELSE {After[phase]})
  /\ late' = IF phase' # phase /\ (pc \in Eating \/ SlaveSH2Pending # 0) THEN late + 1 ELSE late
  /\ vb' = (phase' # "display") /\ vsync' = (phase' = "sync")
  /\ PendingVB' = (PendingVB \/ (vb' /\ ~vb))
  /\ blanked' = (blanked \/ (vb' /\ ~vb))
  /\ frameDue' = (frameDue \/ (phase = "sync" /\ phase' = "top"))
  /\ UNCHANGED <<pc, command, status, cursors, registers, power, report, answering, got, asked, broken>>

\* A plausible bug: a reset forgets that a clock change was under way.
MutDropPending == UNCHANGED <<PendingClockDivisor, SlaveSH2Pending>>

DropPending == PendingClockDivisor' = 0 /\ SlaveSH2Pending' = 0

\* SS_Reset: the manager, the SCU and VDP2 begin again, and the program too.
\* What SMPC_Reset leaves alone is what VDP2 has told it.
Reset ==
  /\ pc' = "wait" /\ turn' = 1
  /\ PendingCommand' = None /\ ExecutingCommand' = None /\ SF' = FALSE
  /\ SR' = [npe |-> FALSE, pdl |-> FALSE, ports |-> FALSE]
  /\ OREG' = [i \in 0..Nibbles - 1 |-> Old] /\ irq' = FALSE
  /\ wants' = [status |-> FALSE, ports |-> FALSE, skip |-> {}]
  /\ cont' = FALSE /\ brk' = FALSE
  /\ OWP' = 0 /\ PDCounter' = 0 /\ NextContBit' = FALSE /\ CurPort' = 0 /\ work' = <<>>
  /\ SlaveSH2On' = FALSE /\ SoundCPUOn' = FALSE
  /\ CurrentClockDivisor' = 65 /\ DropPending
  /\ ResetPending' = FALSE /\ PendingVB' = FALSE
  /\ phase' = "display" /\ late' = 0
  /\ answering' = FALSE /\ got' = <<>> /\ report' = <<>>
  /\ asked' = ResetState /\ blanked' = FALSE /\ broken' = FALSE
  /\ UNCHANGED <<vb, vsync>>

\* SMPC_StartFrame
StartFrame ==
  /\ frameDue /\ Suspended
  /\ frameDue' = FALSE
  /\ \/ ResetPending /\ Reset
     \/ /\ ~ResetPending
        /\ CurrentClockDivisor' = IF PendingClockDivisor > 0 THEN PendingClockDivisor ELSE CurrentClockDivisor
        /\ PendingClockDivisor' = 0
        /\ UNCHANGED <<pc, command, status, cursors, registers, SlaveSH2On, SlaveSH2Pending, SoundCPUOn,
                       ResetPending, PendingVB, vb, vsync, phase, late, program, report>>

\* retro_reset, between two frames
ResetSwitch == frameDue /\ Suspended /\ Reset /\ UNCHANGED frameDue

ProcessSlaveOffOn ==
  /\ SlaveSH2Pending # 0 /\ Suspended
  /\ SlaveSH2On' = (SlaveSH2Pending > 0) /\ SlaveSH2Pending' = 0 /\ late' = 0
  /\ UNCHANGED <<pc, command, status, cursors, registers, SoundCPUOn, CurrentClockDivisor,
                 PendingClockDivisor, ResetPending, PendingVB, vb, vsync, phase, frameDue, program, report>>
-----------------------------------------------------------------------------
\* The program: it gives a command when the last has ended and its interrupt
\* has been taken, and reads a packet before it answers it.
AskedAfter(cmd) ==
  CASE cmd = "SSHON"    -> [asked EXCEPT !.slave = TRUE]
    [] cmd = "SSHOFF"   -> [asked EXCEPT !.slave = FALSE]
    [] cmd = "SNDON"    -> [asked EXCEPT !.sound = TRUE]
    [] cmd = "SNDOFF"   -> [asked EXCEPT !.sound = FALSE]
    [] cmd = "CKCHG352" -> [slave |-> FALSE, sound |-> FALSE, clock |-> 61]
    [] cmd = "CKCHG320" -> ResetState
    [] cmd = "SYSRES"   -> ResetState
    [] OTHER            -> asked

Requests(cmd) ==
  IF cmd = "INTBACK" THEN [status : BOOLEAN, ports : BOOLEAN, skip : SUBSET Ports]
                     ELSE {[status |-> FALSE, ports |-> FALSE, skip |-> {}]}

\* What the registers held before is called old, so that no reader takes it
\* for new.
Give(cmd) ==
  /\ ~SF /\ ~irq /\ Suspended
  /\ SF' = TRUE /\ PendingCommand' = cmd
  /\ wants' \in Requests(cmd) /\ cont' = FALSE /\ brk' = FALSE
  /\ OREG' = [i \in 0..Nibbles - 1 |-> Old]
  /\ answering' = FALSE /\ got' = <<>> /\ report' = <<>>
  /\ asked' = AskedAfter(cmd) /\ blanked' = FALSE /\ broken' = FALSE
  /\ UNCHANGED <<pc, ExecutingCommand, SR, irq, cursors, power, PendingVB, raster, late>>

\* A packet fills the registers, but for the last, whose length follows from
\* the sizes in the report.
Packet ==
  LET left == Len(report) - Len(got)
      n    == IF SR.npe \/ left > Nibbles THEN Nibbles ELSE left
  IN [i \in 1..n |-> OREG[i - 1]]

ReadPacket ==
  /\ irq /\ Suspended
  /\ irq' = FALSE
  /\ got' = IF SR.ports THEN got \o Packet ELSE got
  /\ answering' = SR.npe
  /\ UNCHANGED <<pc, command, SR, OREG, cursors, registers, power, PendingVB, raster, late, asked, blanked,
                 broken, report>>

Answer ==
  /\ answering /\ Suspended
  /\ answering' = FALSE
  /\ \/ cont' = ~cont /\ UNCHANGED <<brk, broken>>
     \/ brk' = TRUE /\ broken' = TRUE /\ UNCHANGED cont
  /\ UNCHANGED <<pc, command, status, cursors, wants, power, PendingVB, raster, late, got, asked, blanked, report>>

Program == (\E cmd \in Commands : Give(cmd)) \/ ReadPacket \/ Answer

Next == Update \/ Line \/ StartFrame \/ ResetSwitch \/ ProcessSlaveOffOn \/ Program

Init ==
  /\ pc = "wait" /\ turn = 1
  /\ PendingCommand = None /\ ExecutingCommand = None /\ SF = FALSE
  /\ SR = [npe |-> FALSE, pdl |-> FALSE, ports |-> FALSE]
  /\ OREG = [i \in 0..Nibbles - 1 |-> Old] /\ irq = FALSE
  /\ wants = [status |-> FALSE, ports |-> FALSE, skip |-> {}] /\ cont = FALSE /\ brk = FALSE
  /\ OWP = 0 /\ PDCounter = 0 /\ NextContBit = FALSE /\ CurPort = 0 /\ work = <<>>
  /\ SlaveSH2On = FALSE /\ SlaveSH2Pending = 0 /\ SoundCPUOn = FALSE
  /\ CurrentClockDivisor = 65 /\ PendingClockDivisor = 0
  /\ ResetPending = FALSE /\ PendingVB = FALSE /\ vb = FALSE /\ vsync = FALSE
  /\ phase = "display" /\ frameDue = FALSE /\ late = 0
  /\ answering = FALSE /\ got = <<>> /\ report = <<>>
  /\ asked = ResetState /\ blanked = FALSE /\ broken = FALSE

Spec == Init /\ [][Next]_vars

\* Emulated time goes on: the manager goes on when it can, lines pass,
\* frames begin, and the CPU loop looks at the slave's switch.  Nothing is
\* asked of the program.
FairSpec ==
  /\ Spec
  /\ WF_vars(Update) /\ WF_vars(Line /\ phase' # phase)
  /\ WF_vars(StartFrame) /\ WF_vars(ProcessSlaveOffOn)
-----------------------------------------------------------------------------
TypeOK ==
  /\ pc \in Eating \cup DOMAIN Awaited \cup {"write"} /\ turn \in 1..8
  /\ {PendingCommand, ExecutingCommand} \subseteq Commands \cup {None}
  /\ {SF, cont, brk, NextContBit, SlaveSH2On, SoundCPUOn, ResetPending, PendingVB, vb, vsync, frameDue,
      irq, answering, blanked, broken} \subseteq BOOLEAN
  /\ SR \in [npe : BOOLEAN, pdl : BOOLEAN, ports : BOOLEAN]
  /\ wants \in [status : BOOLEAN, ports : BOOLEAN, skip : SUBSET Ports]
  /\ OREG \in [0..Nibbles - 1 -> Nibble \cup {Old, InStatus}]
  /\ OWP \in 0..Nibbles - 1 /\ PDCounter \in 0..255 /\ CurPort \in Ports
  /\ SlaveSH2Pending \in {-1, 0, 1}
  /\ CurrentClockDivisor \in {61, 65} /\ PendingClockDivisor \in {0, 61, 65}
  /\ phase \in DOMAIN After /\ late \in 0..MaxLate
  /\ asked \in [slave : BOOLEAN, sound : BOOLEAN, clock : {61, 65}]
  /\ {work, report, got} \subseteq Seq(Nibble \cup {Old, InStatus})

\* The packets of a report, read one at a time while devices answer, the
\* program toggles its bit and VBlank comes when it likes, make up the report:
\* nothing is overwritten before it was read or read twice, the packet
\* announced as the last completes it and the one announced as the first
\* begins it; and the manager ends a report early only when the program
\* broke it off or VBlank has begun since the command was given.
PacketsWhole ==
  /\ got = SubSeq(report, 1, Len(got))
  /\ irq /\ SR.ports /\ ~SR.npe => got \o Packet = report
  /\ irq /\ SR.ports => (SR.pdl <=> got = <<>>)
  /\ ~SF /\ ~irq /\ wants.ports /\ ~blanked /\ ~broken => got = report

\* Whenever the manager says it is done, the slave, the sound CPU and the
\* clock are as the program last asked, although the CPU loop switches the
\* slave and the frame loop the clock, at times of their own, and a reset
\* may come between.
PowerAsAsked ==
  ~SF => /\ SlaveSH2On = asked.slave /\ SoundCPUOn = asked.sound
         /\ CurrentClockDivisor = asked.clock
         /\ SlaveSH2Pending = 0 /\ PendingClockDivisor = 0 /\ ~ResetPending

\* Every command ends, also when the program never answers a packet: the
\* next VBlank ends it.
CommandsEnd == SF ~> ~SF
=============================================================================
