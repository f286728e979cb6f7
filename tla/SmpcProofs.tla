----------------------------- MODULE SmpcProofs -----------------------------
(* PowerAsAsked and PacketsWhole, for any size of the registers and of the  *)
(* reports.                                                                 *)
(*                                                                          *)
(* For the first, IInv says for each place of SMPC_Update what is known of  *)
(* the power and the clock compared with what the program asked for: all of *)
(* it but what the command in progress is to change.  A clock change turns  *)
(* the slave off without waiting for it; that it is off when the command    *)
(* ends rests on the count of the beam's phases it waits for.               *)
(*                                                                          *)
(* For the second, PacketInv says where the nibbles of a report are: read,  *)
(* in the registers, or still to be written, and whose turn it is.          *)
EXTENDS Smpc, TLAPS

\* Places where power and clock are as asked, once the command has begun
Plain == {"status", "cont", "vbend", "start", "port", "read", "write", "nibble", "more", "settime", "abort"}
Resting == pc \in {"wait", "vblank"}

ControlType ==
  /\ pc \in Plain \cup {"wait", "vblank", "begin", "reset", "clock", "slave"}
  /\ turn \in 1..8 /\ late \in 0..MaxLate /\ phase \in {"display", "bottom", "sync", "top"}
  /\ PendingCommand \in Commands \cup {None} /\ ExecutingCommand \in Commands \cup {None}
  /\ SF \in BOOLEAN

PowerType ==
  /\ vb \in BOOLEAN /\ ResetPending \in BOOLEAN
  /\ SlaveSH2On \in BOOLEAN /\ SoundCPUOn \in BOOLEAN
  /\ SlaveSH2Pending \in {-1, 0, 1}
  /\ CurrentClockDivisor \in {61, 65} /\ PendingClockDivisor \in {0, 61, 65}
  /\ asked \in [slave : BOOLEAN, sound : BOOLEAN, clock : {61, 65}]

\* SF is set exactly while a command is given or in progress.
CommandInv ==
  /\ Resting => ExecutingCommand = None /\ (SF <=> PendingCommand # None)
  /\ ~Resting => SF /\ PendingCommand = None /\ ExecutingCommand # None

\* Only the two commands that change them leave a change pending.
PendingInv ==
  /\ pc \notin {"slave", "clock"} => SlaveSH2Pending = 0
  /\ pc # "clock" => PendingClockDivisor = 0
  /\ ResetPending => pc = "reset"

Cmd   == IF Resting THEN PendingCommand ELSE ExecutingCommand
Given == SF /\ (Resting \/ pc = "begin")

SlaveMatches == SlaveSH2On = asked.slave
SoundMatches == SoundCPUOn = asked.sound
ClockMatches == CurrentClockDivisor = asked.clock

\* Nothing is given, or the command changes neither power nor clock.
Matching == SlaveMatches /\ SoundMatches /\ ClockMatches

GivenInv ==
  Given => /\ Cmd \in {"SNDON", "SNDOFF"} =>
                SlaveMatches /\ ClockMatches /\ asked.sound = (Cmd = "SNDON")
           /\ Cmd \in {"SSHON", "SSHOFF"} =>
                SoundMatches /\ ClockMatches /\ asked.slave = (Cmd = "SSHON")
           /\ Cmd \in {"CKCHG352", "CKCHG320"} =>
                asked = [slave |-> FALSE, sound |-> FALSE, clock |-> IF Cmd = "CKCHG352" THEN 61 ELSE 65]
           /\ Cmd \in {"INTBACK", "SETTIME", "NMIREQ"} => Matching

PlainInv == (~SF \/ pc \in Plain) => Matching

SlaveInv ==
  pc = "slave" => /\ SoundMatches /\ ClockMatches
                  /\ SlaveSH2Pending = 0 => SlaveMatches
                  /\ SlaveSH2Pending = 1 => asked.slave
                  /\ SlaveSH2Pending = -1 => ~asked.slave

\* The phases begun since VDP2 was reset, while the slave's switch waits
Early ==
  /\ late <= 3
  /\ late = 0 => phase = "display"
  /\ late = 1 => phase = "bottom"
  /\ late = 2 => phase = "sync"
  /\ late = 3 => phase = "top"
  /\ phase # "display" => vb
  /\ turn <= 3
  /\ turn = 2 /\ phase = "display" => ~vb
  /\ turn = 3 => phase # "display"

ClockInv ==
  pc = "clock" => /\ ~asked.slave /\ ~asked.sound /\ ~SoundCPUOn
                  /\ PendingClockDivisor = 0 => ClockMatches
                  /\ PendingClockDivisor # 0 => PendingClockDivisor = asked.clock
                  /\ turn > 5 => PendingClockDivisor = 0
                  /\ SlaveSH2Pending \in {0, -1}
                  /\ SlaveSH2Pending = 0 => ~SlaveSH2On
                  /\ SlaveSH2Pending = -1 => Early

IInv == ControlType /\ PowerType /\ CommandInv /\ PendingInv /\ GivenInv /\ PlainInv /\ SlaveInv /\ ClockInv
-----------------------------------------------------------------------------
\* Places and commands whose steps leave power, clock and beam alone
Unhurried == pc \in Plain \/ (pc = "begin" /\ ExecutingCommand \in {"INTBACK", "SETTIME", "NMIREQ"})
Untouched == UNCHANGED <<power, asked, turn, raster>>

LEMMA GoesOn ==
  ASSUME IInv, Unhurried, pc' \in Plain, Stay, Untouched, late' \in 0..MaxLate
  PROVE  IInv'
<1>1. ControlType' /\ PowerType' /\ CommandInv' /\ PendingInv'
  BY DEF IInv, ControlType, PowerType, CommandInv, PendingInv, Unhurried, Untouched, Plain, Resting, Stay, command,
         power, raster
<1>2. GivenInv' /\ SlaveInv' /\ ClockInv'
  BY DEF GivenInv, Given, Resting, Plain, SlaveInv, ClockInv
<1>3. PlainInv'
  BY DEF IInv, CommandInv, GivenInv, Given, PlainInv, Unhurried, Untouched, Plain, Resting, Stay, command,
         power, Cmd, Matching, SlaveMatches, SoundMatches, ClockMatches
<1> QED BY <1>1, <1>2, <1>3 DEF IInv

LEMMA Ends ==
  ASSUME IInv, Unhurried, Finish, Untouched, late' \in 0..MaxLate
  PROVE  IInv'
<1>1. ControlType'
  BY DEF IInv, ControlType, Untouched, Finish, raster
<1>2. PowerType'
  BY DEF IInv, PowerType, Untouched, power, raster
<1>3. CommandInv' /\ PendingInv'
  <2>1. PendingCommand = None /\ SlaveSH2Pending = 0 /\ PendingClockDivisor = 0 /\ ~ResetPending
    BY DEF IInv, CommandInv, PendingInv, ControlType, Unhurried, Plain, Resting
  <2> QED BY <2>1 DEF CommandInv, PendingInv, Resting, Finish, Untouched, power
<1>4. GivenInv' /\ SlaveInv' /\ ClockInv'
  BY DEF GivenInv, Given, Finish, SlaveInv, ClockInv
<1>5. PlainInv'
  BY DEF IInv, CommandInv, GivenInv, Given, PlainInv, Unhurried, Untouched, Plain, Resting, Finish,
         power, Cmd, Matching, SlaveMatches, SoundMatches, ClockMatches
<1> QED BY <1>1, <1>4, <1>5, <1>3, <1>2 DEF IInv

\* The steps of INTBACK, of the commands that only take time, and of the
\* reports
LEMMA ReportStep ==
  ASSUME IInv, late' \in 0..MaxLate,
         \/ OtherCommand \/ Intback \/ Status \/ PortsGiveWay \/ Aborted \/ StatusAnswered
         \/ DisplayBegun \/ StartPorts \/ ReadPort \/ DeviceRead
         \/ WriteNibble \/ PacketAnswered \/ NibbleWritten
  PROVE  IInv'
<1>1. CASE OtherCommand
  <2>1. Unhurried /\ Untouched
    BY <1>1 DEF OtherCommand, Begin, At, Unhurried, Untouched, Plain, cursors, program
  <2>2. Finish \/ (pc' \in Plain /\ Stay)
    BY <1>1 DEF OtherCommand, Plain
  <2> QED BY <2>1, <2>2, GoesOn, Ends
<1>2. CASE Intback
  <2>1. Unhurried /\ Untouched
    BY <1>2 DEF Intback, Begin, At, Unhurried, Untouched, program
  <2>2. Finish \/ (pc' \in Plain /\ Stay)
    BY <1>2 DEF Intback, Plain
  <2> QED BY <2>1, <2>2, GoesOn, Ends
<1>3. CASE Status
  <2>1. Unhurried /\ Untouched
    BY <1>3 DEF Status, At, Unhurried, Untouched, Plain, program
  <2>2. Finish \/ (pc' \in Plain /\ Stay)
    BY <1>3 DEF Status, Plain
  <2> QED BY <2>1, <2>2, GoesOn, Ends
<1>4. CASE PortsGiveWay \/ StatusAnswered \/ DisplayBegun \/ StartPorts \/ DeviceRead
  <2>1. Unhurried /\ Untouched
    BY <1>4 DEF PortsGiveWay, GiveWay, StatusAnswered, DisplayBegun, StartPorts, DeviceRead, GoOn, At,
                Unhurried, Untouched, Plain, program, cursors
  <2>2. pc' \in Plain /\ Stay
    BY <1>4 DEF PortsGiveWay, GiveWay, StatusAnswered, DisplayBegun, StartPorts, DeviceRead, Plain, Stay
  <2> QED BY <2>1, <2>2, GoesOn
<1>5. CASE Aborted
  <2>1. Unhurried /\ Untouched /\ Finish
    BY <1>5 DEF Aborted, At, Unhurried, Untouched, Plain, program, cursors
  <2> QED BY <2>1, Ends
<1>6. CASE ReadPort
  <2>1. Unhurried /\ Untouched
    BY <1>6 DEF ReadPort, GoOn, At, Unhurried, Untouched, Plain, program
  <2>2. Finish \/ (pc' \in Plain /\ Stay)
    BY <1>6 DEF ReadPort, NextPort, Plain
  <2> QED BY <2>1, <2>2, GoesOn, Ends
<1>7. CASE WriteNibble \/ PacketAnswered
  <2>1. Unhurried /\ Untouched
    BY <1>7 DEF WriteNibble, PacketAnswered, GoOn, At, Unhurried, Untouched, Plain, program
  <2>2. pc' \in Plain /\ Stay
    BY <1>7 DEF WriteNibble, PacketAnswered, Put, Plain, Stay
  <2> QED BY <2>1, <2>2, GoesOn
<1>8. CASE NibbleWritten
  <2>1. Unhurried /\ Untouched
    BY <1>8 DEF NibbleWritten, GoOn, At, Unhurried, Untouched, Plain, program
  <2>2. Finish \/ (pc' \in Plain /\ Stay)
    BY <1>8 DEF NibbleWritten, NextPort, Plain
  <2> QED BY <2>1, <2>2, GoesOn, Ends
<1> QED BY <1>1, <1>2, <1>3, <1>4, <1>5, <1>6, <1>7, <1>8

USE DEF ControlType, PowerType, CommandInv, PendingInv, Resting

LEMMA IdleStep ==
  ASSUME IInv, late' \in 0..MaxLate, TakeVBlank \/ VBlankDone \/ TakeCommand
  PROVE  IInv'
<1>1. ControlType' /\ PowerType' /\ CommandInv' /\ PendingInv'
  BY SmpcConstants DEF IInv, TakeVBlank, VBlankDone, TakeCommand, At, Awaited, power, raster, program, command,
         cursors
<1>2. GivenInv' /\ PlainInv'
  BY DEF IInv, TakeVBlank, VBlankDone, TakeCommand, At, Awaited, GivenInv, Given, Cmd, PlainInv, Plain,
         Matching, SlaveMatches, SoundMatches, ClockMatches, power, program, command
<1>3. SlaveInv' /\ ClockInv'
  BY DEF TakeVBlank, VBlankDone, TakeCommand, SlaveInv, ClockInv
<1> QED BY <1>1, <1>2, <1>3 DEF IInv

LEMMA SwitchStep ==
  ASSUME IInv, late' \in 0..MaxLate, SoundSwitch \/ SlaveSwitch \/ SlaveSwitched \/ SystemReset
  PROVE  IInv'
<1>1. ControlType' /\ PowerType' /\ CommandInv' /\ PendingInv'
  <2>1. ~Resting /\ SF /\ PendingCommand = None /\ ExecutingCommand # None /\ pc # "clock" /\ pc # "reset"
    BY DEF IInv, SoundSwitch, SlaveSwitch, SlaveSwitched, SystemReset, Begin, At
  <2>2. Finish \/ (Stay /\ pc' \in {"slave", "reset"})
    BY DEF SoundSwitch, SlaveSwitch, SlaveSwitched, SystemReset
  <2>3. UNCHANGED <<turn, phase, vb, asked, SlaveSH2On, CurrentClockDivisor, PendingClockDivisor>>
    BY DEF SoundSwitch, SlaveSwitch, SlaveSwitched, SystemReset, cursors, raster, program, power
  <2>4. SoundCPUOn' \in BOOLEAN
    BY DEF IInv, SoundSwitch, SlaveSwitch, SlaveSwitched, SystemReset, power
  <2>5. SlaveSH2Pending' \in {-1, 0, 1} /\ (pc' # "slave" => SlaveSH2Pending' = 0)
    <3>1. CASE SoundSwitch \/ SystemReset
      BY <3>1 DEF IInv, SoundSwitch, SystemReset, Begin, At
    <3>2. CASE SlaveSwitch
      BY <3>2 DEF IInv, SlaveSwitch, Begin, At, Finish
    <3>3. CASE SlaveSwitched
      BY <3>3 DEF IInv, SlaveSwitched, At, Awaited, Finish, power
    <3> QED BY <3>1, <3>2, <3>3
  <2>6. ResetPending' \in BOOLEAN /\ (ResetPending' => pc' = "reset")
    <3>1. ResetPending = FALSE
      BY <2>1 DEF IInv
    <3>2. CASE SystemReset
      BY <3>2 DEF SystemReset
    <3>3. CASE ~SystemReset
      BY <3>1, <3>3 DEF SoundSwitch, SlaveSwitch, SlaveSwitched, power
    <3> QED BY <3>2, <3>3
  <2>7. ControlType'
    <3>1. CASE Finish
      BY <3>1, <2>1, <2>3 DEF IInv, Finish
    <3>2. CASE Stay /\ pc' \in {"slave", "reset"}
      BY <3>2, <2>1, <2>3 DEF IInv, Stay, command
    <3> QED BY <2>2, <3>1, <3>2
  <2>8. PowerType'
    BY <2>3, <2>4, <2>5, <2>6 DEF IInv
  <2>9. CommandInv'
    BY <2>1, <2>2 DEF Finish, Stay, command
  <2>10. PendingInv'
    BY <2>1, <2>2, <2>3, <2>5, <2>6 DEF IInv, Finish
  <2> QED BY <2>8, <2>9, <2>10, <2>7
<1>2. GivenInv' /\ PlainInv' /\ SlaveInv'
  <2>1. CASE SoundSwitch
    BY <2>1 DEF IInv, SoundSwitch, Begin, At, Finish, GivenInv, Given, Cmd, PlainInv, Plain, SlaveInv,
         Matching, SlaveMatches, SoundMatches, ClockMatches, program
  <2>2. CASE SlaveSwitch
    <3>1. /\ pc = "begin" /\ ExecutingCommand \in {"SSHON", "SSHOFF"} /\ Given /\ Cmd = ExecutingCommand
          /\ UNCHANGED <<asked, SlaveSH2On, SoundCPUOn, CurrentClockDivisor>>
      BY <2>2 DEF IInv, SlaveSwitch, Begin, At, Given, Cmd, program
    <3>2. SoundMatches /\ ClockMatches /\ asked.slave = (ExecutingCommand = "SSHON")
      BY <3>1 DEF IInv, GivenInv
    <3>3. CASE SlaveSH2On = (ExecutingCommand = "SSHON")
      <4>1. Finish
        BY <2>2, <3>3 DEF SlaveSwitch
      <4> QED BY <4>1, <3>1, <3>2, <3>3 DEF Finish, GivenInv, Given, PlainInv, SlaveInv, Matching, SlaveMatches,
                   SoundMatches, ClockMatches
    <3>4. CASE SlaveSH2On # (ExecutingCommand = "SSHON")
      <4>1. pc' = "slave" /\ SF' = SF /\ SlaveSH2Pending' = (IF ExecutingCommand = "SSHON" THEN 1 ELSE -1)
        BY <2>2, <3>4 DEF SlaveSwitch, Stay, command
      <4>2. SF
        BY <3>1 DEF Given
      <4>3. GivenInv' /\ PlainInv'
        BY <4>1, <4>2 DEF GivenInv, Given, PlainInv, Plain
      <4>4. SlaveInv'
        <5>1. CASE ExecutingCommand = "SSHON"
          <6>1. SlaveSH2Pending' = 1 /\ asked.slave = TRUE
            BY <4>1, <3>2, <5>1
          <6> QED BY <6>1, <3>1, <3>2 DEF SlaveInv, SoundMatches, ClockMatches
        <5>2. CASE ExecutingCommand = "SSHOFF"
          <6>1. SlaveSH2Pending' = -1 /\ asked.slave = FALSE
            BY <4>1, <3>2, <5>2
          <6> QED BY <6>1, <3>1, <3>2 DEF SlaveInv, SoundMatches, ClockMatches
        <5> QED BY <3>1, <5>1, <5>2
      <4> QED BY <4>3, <4>4
    <3> QED BY <3>3, <3>4
  <2>3. CASE SlaveSwitched
    BY <2>3 DEF IInv, SlaveSwitched, At, Awaited, Finish, GivenInv, Given, Cmd, PlainInv, Plain,
         SlaveInv, Matching, SlaveMatches, SoundMatches, ClockMatches, program, power
  <2>4. CASE SystemReset
    BY <2>4 DEF IInv, SystemReset, Begin, At, Stay, command, GivenInv, Given, PlainInv, Plain, SlaveInv
  <2> QED BY <2>1, <2>2, <2>3, <2>4
<1>3. ClockInv'
  BY DEF SoundSwitch, SlaveSwitch, SlaveSwitched, SystemReset, Finish, ClockInv
<1> QED BY <1>1, <1>2, <1>3 DEF IInv

LEMMA ClockStep ==
  ASSUME IInv, late' = (IF pc \in Eating THEN 0 ELSE late), ClockChange \/ ClockWait
  PROVE  IInv'
<1>1. CASE ClockChange
  <2>1. pc = "begin" /\ SF /\ PendingCommand = None /\ ExecutingCommand # None /\ SlaveSH2Pending = 0
        /\ ~ResetPending
    BY <1>1 DEF IInv, ClockChange, Begin, At
  <2>2. pc' = "clock" /\ UNCHANGED <<command, SlaveSH2On, CurrentClockDivisor, ResetPending, vb, asked>>
    BY <1>1 DEF ClockChange, Stay, program
  <2>3. /\ turn' = 1 /\ phase' = "display" /\ SoundCPUOn' = FALSE /\ late' = 0
        /\ SlaveSH2Pending' = IF SlaveSH2On THEN -1 ELSE SlaveSH2Pending
        /\ PendingClockDivisor' = IF ExecutingCommand = "CKCHG352" THEN 61 ELSE 65
    BY <1>1, <2>1 DEF ClockChange, Eating
  <2>4. ControlType'
    BY <2>1, <2>2, <2>3, SmpcConstants DEF IInv, command
  <2>5. SlaveSH2Pending' \in {-1, 0, 1} /\ PendingClockDivisor' \in {0, 61, 65}
    BY <2>1, <2>3
  <2>6. PowerType'
    BY <2>2, <2>3, <2>5 DEF IInv
  <2>7. CommandInv' /\ PendingInv'
    BY <2>1, <2>2, <2>3 DEF command
  <2>8. ControlType' /\ PowerType' /\ CommandInv' /\ PendingInv'
    BY <2>6, <2>7, <2>4
  <2>9. GivenInv' /\ PlainInv' /\ SlaveInv'
    BY <2>1, <2>2 DEF command, GivenInv, Given, PlainInv, Plain, SlaveInv
  <2>10. Early'
    BY <1>1 DEF ClockChange, Begin, At, Eating, Early
  <2>11. ClockInv'
    BY <1>1, <2>10 DEF IInv, ClockChange, Begin, At, ClockInv, ClockMatches, program, GivenInv, Given, Cmd
  <2> QED BY <2>8, <2>9, <2>11 DEF IInv
<1>2. CASE ClockWait
  <2>1. pc = "clock" /\ ClockWaits[turn] /\ turn \in 1..8 /\ late' = late
    BY <1>2 DEF IInv, ClockWait, At, Awaited, Eating
  <2>2. UNCHANGED <<power, raster, asked, PendingVB>>
    BY <1>2 DEF ClockWait, program
  <2>3. CASE turn < 8
    <3>1. turn' = turn + 1 /\ UNCHANGED <<pc, command>>
      BY <1>2, <2>3 DEF ClockWait, Stay
    <3>2. ControlType' /\ PowerType' /\ CommandInv' /\ PendingInv'
      BY <2>1, <2>2, <2>3, <3>1 DEF IInv, power, raster, command
    <3>3. GivenInv' /\ PlainInv' /\ SlaveInv'
      BY <2>1, <3>1 DEF IInv, command, GivenInv, Given, PlainInv, Plain, SlaveInv
    <3>4. SlaveSH2Pending = -1 => Early'
      <4> SUFFICES ASSUME SlaveSH2Pending = -1 PROVE Early'
        OBVIOUS
      <4>1. Early
        BY <2>1 DEF IInv, ClockInv
      <4>2. CASE turn = 1
        <5>1. ClockWaits[1] = ~vb
          BY DEF ClockWaits
        <5>2. ~vb
          BY <2>1, <4>2, <5>1
        <5> QED BY <4>1, <4>2, <5>2, <2>1, <2>2, <3>1 DEF Early, raster
      <4>3. CASE turn = 2
        <5>1. vb
          BY <2>1, <4>3 DEF ClockWaits
        <5> QED BY <4>1, <4>3, <5>1, <2>1, <2>2, <3>1 DEF Early, raster
      <4>4. CASE turn = 3
        <5>1. ~vb
          BY <2>1, <4>4 DEF ClockWaits
        <5> QED BY <4>1, <4>4, <5>1 DEF Early
      <4> QED BY <4>1, <4>2, <4>3, <4>4, <2>1 DEF Early
    <3>5. turn = 5 => PendingClockDivisor = 0
      <4>1. ClockWaits[5] = (PendingClockDivisor = 0)
        BY DEF ClockWaits
      <4> QED BY <2>1, <4>1
    <3>6. ClockInv'
      BY <2>1, <2>2, <3>1, <3>4, <3>5 DEF IInv, ClockInv, ClockMatches, power
    <3> QED BY <3>2, <3>3, <3>6 DEF IInv
  <2>4. CASE ~(turn < 8)
    <3>1. Finish /\ turn' = turn
      BY <1>2, <2>4 DEF ClockWait
    <3>2. SlaveSH2Pending = 0 /\ PendingClockDivisor = 0 /\ Matching
      BY <2>1, <2>4 DEF IInv, ClockInv, Early, Matching, SlaveMatches, SoundMatches
    <3>3. ControlType' /\ PowerType'
      <4>1. ControlType'
        BY <2>1, <2>2, <3>1 DEF IInv, Finish, raster
      <4>2. PowerType'
        BY <2>2 DEF IInv, power, raster
      <4> QED BY <4>1, <4>2
    <3>4. CommandInv' /\ PendingInv'
      BY <2>1, <2>2, <3>1, <3>2 DEF IInv, Finish, power
    <3>5. ControlType' /\ PowerType' /\ CommandInv' /\ PendingInv'
      BY <3>3, <3>4
    <3>6. GivenInv' /\ PlainInv' /\ SlaveInv' /\ ClockInv'
      BY <2>1, <2>2, <3>1, <3>2 DEF Finish, GivenInv, Given, PlainInv, Plain, SlaveInv, ClockInv,
         Matching, SlaveMatches, SoundMatches, ClockMatches, power
    <3> QED BY <3>5, <3>6 DEF IInv
  <2> QED BY <2>3, <2>4
<1> QED BY <1>1, <1>2

LEMMA UpdateStep ==
  ASSUME IInv, Update
  PROVE  IInv'
<1>1. late' \in 0..MaxLate
  BY SmpcConstants DEF IInv, Update
<1> QED BY <1>1, IdleStep, SwitchStep, ClockStep, ReportStep DEF Update
-----------------------------------------------------------------------------
LEMMA LineStep ==
  ASSUME IInv, Line
  PROVE  IInv'
<1>1. phase' = phase \/ (phase' = After[phase] /\ late # MaxLate)
  BY DEF Line
<1>2. UNCHANGED <<pc, command, cursors, power, asked>>
  BY DEF Line
<1>3. late' = (IF phase' # phase /\ (pc \in Eating \/ SlaveSH2Pending # 0) THEN late + 1 ELSE late)
      /\ vb' = (phase' # "display")
  BY DEF Line
<1>4. vb' = (phase' # "display")
  BY <1>3
<1>5. late' \in 0..MaxLate /\ phase' \in {"display", "bottom", "sync", "top"}
  BY <1>1, <1>3, SmpcConstants DEF IInv, After
<1>6. ControlType' /\ PowerType' /\ CommandInv' /\ PendingInv'
  BY <1>2, <1>3, <1>5 DEF IInv, command, cursors, power
<1>7. GivenInv' /\ PlainInv' /\ SlaveInv'
  BY <1>2 DEF IInv, GivenInv, Given, Cmd, PlainInv, SlaveInv, Matching, SlaveMatches, SoundMatches,
         ClockMatches, command, power
<1>8. pc = "clock" /\ SlaveSH2Pending = -1 => Early'
  <2> SUFFICES ASSUME pc = "clock", SlaveSH2Pending = -1 PROVE Early'
    OBVIOUS
  <2>1. Early /\ turn' = turn /\ late \in 0..MaxLate
    BY <1>2 DEF IInv, ClockInv, cursors
  <2>2. CASE phase' = phase
    BY <2>1, <2>2, <1>3 DEF Early
  <2>3. CASE phase' # phase
    <3>1. late' = late + 1 /\ phase' = After[phase] /\ late # MaxLate
      BY <1>1, <1>3, <2>3
    <3>2. late \in 0..2
      BY <3>1, <2>1, SmpcConstants
    <3>3. CASE late = 0
      <4>1. phase' = "bottom"
        <5>1. phase = "display" /\ After["display"] = "bottom"
          BY <3>3, <2>1 DEF Early, After
        <5> QED BY <3>1, <5>1
      <4>2. late' = 1
        BY <3>1, <3>3
      <4>3. vb' = TRUE
        BY <4>1, <1>4
      <4> QED BY <4>1, <4>2, <4>3, <2>1 DEF Early
    <3>4. CASE late = 1
      <4>1. phase' = "sync"
        <5>1. phase = "bottom" /\ After["bottom"] = "sync"
          BY <3>4, <2>1 DEF Early, After
        <5> QED BY <3>1, <5>1
      <4>2. late' = 2
        BY <3>1, <3>4
      <4>3. vb' = TRUE
        BY <4>1, <1>4
      <4> QED BY <4>1, <4>2, <4>3, <2>1 DEF Early
    <3>5. CASE late = 2
      <4>1. phase' = "top"
        <5>1. phase = "sync" /\ After["sync"] = "top"
          BY <3>5, <2>1 DEF Early, After
        <5> QED BY <3>1, <5>1
      <4>2. late' = 3
        BY <3>1, <3>5
      <4>3. vb' = TRUE
        BY <4>1, <1>4
      <4> QED BY <4>1, <4>2, <4>3, <2>1 DEF Early
    <3> QED BY <3>2, <3>3, <3>4, <3>5
  <2> QED BY <2>2, <2>3
<1>9. ClockInv'
  BY <1>2, <1>8 DEF IInv, ClockInv, ClockMatches, cursors, power
<1> QED BY <1>6, <1>7, <1>9 DEF IInv

LEMMA ResetStep ==
  ASSUME Reset, vb \in BOOLEAN
  PROVE  IInv'
<1>1. pc' = "wait" /\ turn' = 1 /\ late' = 0 /\ phase' = "display" /\ asked' = ResetState
  BY DEF Reset
<1>2. PendingCommand' = None /\ ExecutingCommand' = None /\ SF' = FALSE
  BY DEF Reset
<1>3. /\ vb' = vb /\ ResetPending' = FALSE /\ SlaveSH2On' = FALSE /\ SoundCPUOn' = FALSE
      /\ SlaveSH2Pending' = 0 /\ PendingClockDivisor' = 0 /\ CurrentClockDivisor' = 65
  BY DEF Reset, DropPending
<1>4. ControlType'
  <2>1. late' \in 0..MaxLate
    BY <1>1, SmpcConstants
  <2>2. PendingCommand' \in Commands \cup {None} /\ ExecutingCommand' \in Commands \cup {None} /\ SF' \in BOOLEAN
    BY <1>2
  <2> QED BY <2>1, <2>2, <1>1
<1>5. PowerType'
  <2>1. asked' \in [slave : BOOLEAN, sound : BOOLEAN, clock : {61, 65}]
    BY <1>1 DEF ResetState
  <2> QED BY <1>3, <2>1
<1>6. CommandInv' /\ PendingInv'
  BY <1>1, <1>2, <1>3
<1>7. ControlType' /\ PowerType' /\ CommandInv' /\ PendingInv'
  BY <1>4, <1>5, <1>6
<1>8. GivenInv' /\ PlainInv' /\ SlaveInv' /\ ClockInv'
  BY DEF Reset, DropPending, ResetState, GivenInv, Given, PlainInv, SlaveInv, ClockInv, Matching,
         SlaveMatches, SoundMatches, ClockMatches
<1> QED BY <1>7, <1>8 DEF IInv

LEMMA LoopStep ==
  ASSUME IInv, StartFrame \/ ResetSwitch \/ ProcessSlaveOffOn
  PROVE  IInv'
<1>1. CASE ResetSwitch \/ (StartFrame /\ ResetPending)
  BY <1>1, ResetStep DEF IInv, ResetSwitch, StartFrame
<1>2. CASE StartFrame /\ ~ResetPending
  <2>1. UNCHANGED <<pc, command, turn, SlaveSH2On, SlaveSH2Pending, SoundCPUOn, ResetPending, vb, phase, late,
                    asked>>
    BY <1>2 DEF StartFrame, cursors, program
  <2>2. /\ CurrentClockDivisor' = IF PendingClockDivisor > 0 THEN PendingClockDivisor ELSE CurrentClockDivisor
        /\ PendingClockDivisor' = 0
    BY <1>2 DEF StartFrame
  <2>3. ControlType' /\ PowerType' /\ CommandInv' /\ PendingInv'
    BY <2>1, <2>2 DEF IInv, command
  <2>4. pc # "clock" => CurrentClockDivisor' = CurrentClockDivisor
    BY <2>2 DEF IInv
  <2>5. GivenInv' /\ PlainInv' /\ SlaveInv'
    BY <2>1, <2>4 DEF IInv, GivenInv, Given, Cmd, PlainInv, Plain, SlaveInv, Matching, SlaveMatches,
         SoundMatches, ClockMatches, command
  <2>6. ClockInv'
    BY <2>1, <2>2 DEF IInv, ClockInv, ClockMatches, Early
  <2> QED BY <2>3, <2>5, <2>6 DEF IInv
<1>3. CASE ProcessSlaveOffOn
  <2>1. ControlType' /\ PowerType' /\ CommandInv' /\ PendingInv'
    <3>1. /\ SlaveSH2On' \in BOOLEAN /\ SlaveSH2Pending' = 0 /\ late' = 0
          /\ UNCHANGED <<pc, turn, phase, command, vb, ResetPending, SoundCPUOn, CurrentClockDivisor,
                         PendingClockDivisor, asked>>
      BY <1>3 DEF ProcessSlaveOffOn, cursors, program
    <3>2. ControlType'
      BY <3>1, SmpcConstants DEF IInv, command
    <3>3. PowerType'
      BY <3>1 DEF IInv
    <3>4. CommandInv' /\ PendingInv'
      BY <3>1 DEF IInv, command
    <3> QED BY <3>2, <3>3, <3>4
  <2>2. pc \in {"slave", "clock"}
    BY <1>3 DEF IInv, ProcessSlaveOffOn
  <2>3. GivenInv' /\ PlainInv'
    BY <1>3, <2>2 DEF IInv, ProcessSlaveOffOn, GivenInv, Given, PlainInv, Plain, command
  <2>4. SlaveInv' /\ ClockInv'
    BY <1>3 DEF IInv, ProcessSlaveOffOn, SlaveInv, ClockInv, SlaveMatches, SoundMatches, ClockMatches,
         cursors, program
  <2> QED BY <2>1, <2>3, <2>4 DEF IInv
<1> QED BY <1>1, <1>2, <1>3

LEMMA ProgramStep ==
  ASSUME IInv, Program
  PROVE  IInv'
<1>1. ASSUME NEW cmd \in Commands, Give(cmd) PROVE IInv'
  <2>1. Matching /\ Resting /\ SF' /\ PendingCommand' = cmd /\ asked' = AskedAfter(cmd)
    BY <1>1 DEF IInv, Give, PlainInv
  <2>2. UNCHANGED <<pc, ExecutingCommand, turn, power, vb, phase, late>>
    BY <1>1 DEF Give, cursors, raster
  <2>3. asked' \in [slave : BOOLEAN, sound : BOOLEAN, clock : {61, 65}]
    BY <2>1 DEF IInv, AskedAfter, ResetState
  <2>4. ControlType'
    BY <1>1, <2>1, <2>2 DEF IInv, Give
  <2>5. PowerType'
    BY <1>1, <2>1, <2>2, <2>3 DEF IInv, Give, power
  <2>6. CommandInv' /\ PendingInv'
    BY <1>1, <2>1, <2>2, SmpcConstants DEF IInv, power
  <2>7. GivenInv'
    BY <2>1, <2>2 DEF IInv, GivenInv, Given, Cmd, Matching, SlaveMatches, SoundMatches, ClockMatches,
         AskedAfter, ResetState, power, Commands
  <2>8. PlainInv' /\ SlaveInv' /\ ClockInv'
    BY <2>1, <2>2 DEF PlainInv, Plain, SlaveInv, ClockInv
  <2> QED BY <2>5, <2>6, <2>7, <2>8, <2>4 DEF IInv
<1>2. CASE ReadPacket \/ Answer
  <2>1. UNCHANGED <<pc, command, turn, power, vb, phase, late, asked>>
    BY <1>2 DEF ReadPacket, Answer, cursors, raster
  <2>2. ControlType' /\ PowerType' /\ CommandInv' /\ PendingInv'
    BY <2>1 DEF IInv, command, power
  <2>3. GivenInv' /\ PlainInv' /\ SlaveInv'
    BY <2>1 DEF IInv, GivenInv, Given, Cmd, PlainInv, SlaveInv, Matching, SlaveMatches, SoundMatches,
         ClockMatches, command, power
  <2>4. ClockInv'
    BY <2>1 DEF IInv, ClockInv, ClockMatches, Early, power
  <2> QED BY <2>2, <2>3, <2>4 DEF IInv
<1> QED BY <1>1, <1>2 DEF Program

LEMMA Invariant == Spec => []IInv
<1>1. Init => IInv
  <2> SUFFICES ASSUME Init PROVE IInv
    OBVIOUS
  <2>1. ControlType
    <3>1. late \in 0..MaxLate
      BY SmpcConstants DEF Init
    <3>2. PendingCommand \in Commands \cup {None} /\ ExecutingCommand \in Commands \cup {None} /\ SF \in BOOLEAN
      BY DEF Init
    <3> QED BY <3>1, <3>2 DEF Init
  <2>2. PowerType
    BY DEF Init, ResetState
  <2>3. CommandInv /\ PendingInv
    BY DEF Init
  <2>4. GivenInv /\ PlainInv /\ SlaveInv /\ ClockInv
    BY DEF Init, ResetState, GivenInv, Given, PlainInv, SlaveInv, ClockInv, Matching, SlaveMatches, SoundMatches,
           ClockMatches
  <2> QED BY <2>1, <2>2, <2>3, <2>4 DEF IInv
<1>2. IInv /\ [Next]_vars => IInv'
  <2> SUFFICES ASSUME IInv, [Next]_vars PROVE IInv'
    OBVIOUS
  <2>1. CASE Next
    BY <2>1, UpdateStep, LineStep, LoopStep, ProgramStep DEF Next
  <2>2. CASE UNCHANGED vars
    <3>1. UNCHANGED <<pc, command, turn, power, vb, phase, late, asked>>
      BY <2>2 DEF vars, cursors, raster, program
    <3>2. ControlType' /\ PowerType' /\ CommandInv' /\ PendingInv'
      BY <3>1 DEF IInv, command, power
    <3>3. GivenInv' /\ PlainInv' /\ SlaveInv'
      BY <3>1 DEF IInv, GivenInv, Given, Cmd, PlainInv, SlaveInv, Matching, SlaveMatches, SoundMatches,
         ClockMatches, command, power
    <3>4. ClockInv'
      BY <3>1 DEF IInv, ClockInv, ClockMatches, Early, power
    <3> QED BY <3>2, <3>3, <3>4 DEF IInv
  <2> QED BY <2>1, <2>2
<1> QED BY <1>1, <1>2, PTL DEF Spec

\* Whenever SF is clear, slave, sound CPU and clock are as last asked and
\* nothing is pending (SMPC_ProcessSlaveOffOn, SMPC_StartFrame), for any
\* size of the registers and the reports.
THEOREM PowerAsAskedHolds == Spec => []PowerAsAsked
<1>1. IInv => PowerAsAsked
  BY DEF IInv, PlainInv, Matching, SlaveMatches, SoundMatches, ClockMatches, PowerAsAsked
<1> QED BY <1>1, Invariant, PTL
-----------------------------------------------------------------------------
(* The reports.  PacketInv follows a report from the ports through the      *)
(* registers to the program: what is written is a prefix of it, what is     *)
(* read a prefix of that, and the registers hold what lies between, never   *)
(* more than they have room for.                                            *)
V == Nibble \cup {Old, InStatus}

DataType ==
  /\ SR \in [npe : BOOLEAN, pdl : BOOLEAN, ports : BOOLEAN]
  /\ wants \in [status : BOOLEAN, ports : BOOLEAN, skip : SUBSET Ports]
  /\ OREG \in [0..Nibbles - 1 -> V]
  /\ OWP \in 0..Nibbles - 1 /\ PDCounter \in 0..255 /\ CurPort \in Ports
  /\ work \in Seq(V) /\ report \in Seq(V) /\ got \in Seq(V)

FlagType ==
  /\ cont \in BOOLEAN /\ brk \in BOOLEAN /\ NextContBit \in BOOLEAN
  /\ PendingVB \in BOOLEAN /\ irq \in BOOLEAN
  /\ answering \in BOOLEAN /\ blanked \in BOOLEAN /\ broken \in BOOLEAN

\* Nothing of the report is there yet.
Blank == got = <<>> /\ report = <<>>

\* The command has made no interrupt yet.
Fresh == ~irq /\ ~answering /\ ~cont /\ ~brk /\ ~broken

\* Only an INTBACK asks for the ports.
WantsInv ==
  /\ Given /\ wants.ports => Cmd = "INTBACK"
  /\ pc \in {"slave", "clock", "settime", "reset"} => ~wants.ports

\* A packet is announced, read and answered in turn: while one of the first
\* two is missing, the program's bit is not what the manager waits for.
Unanswered == cont # NextContBit /\ ~brk

TurnInv ==
  /\ Given \/ pc = "status" => Fresh /\ Blank
  /\ pc \in {"cont", "vbend", "start"} => Blank
  /\ pc = "cont" => NextContBit /\ (irq => ~SR.ports)
  /\ pc \in {"cont", "more"} => /\ irq \/ answering => Unanswered
                                /\ ~(irq /\ answering)
                                /\ brk => broken /\ cont # NextContBit
  /\ pc \in {"vbend", "start", "port", "read", "write", "nibble"} => ~irq /\ ~answering /\ Unanswered
  /\ pc = "more" /\ irq => SR.npe /\ SR.ports

Holding == {"read", "write", "nibble", "more"}

\* The nibbles of the report that were written into the registers
Written == Len(report) - (IF pc \in Holding THEN Len(work) ELSE 0)

\* What is left to write is the end of the report.
WorkInv ==
  pc \in Holding =>
    /\ Len(work) <= Len(report)
    /\ \A i \in 1..Len(work) : work[i] = report[Len(report) - Len(work) + i]
    /\ pc # "nibble" => work # <<>>

\* n registers hold the nibbles of the report that follow what was read.
Holds(n) ==
  /\ Len(got) + n <= Len(report) /\ n <= Nibbles
  /\ \A i \in 1..n : OREG[i - 1] = report[Len(got) + i]

FillInv ==
  /\ pc = "start" => PDCounter = 0
  /\ pc \in Holding \cup {"port"} =>
       /\ Len(got) = 0 \/ Len(got) >= Nibbles
       /\ Len(got) <= Written /\ Holds(Written - Len(got))
       /\ pc # "more" => Written = 0 \/ Written > Len(got)
       /\ pc = "more" => Written >= Nibbles /\ Written = Len(got) + (IF irq THEN Nibbles ELSE 0)
       /\ OWP = IF Written - Len(got) = Nibbles THEN 0 ELSE Written - Len(got)
       /\ PDCounter = 0 <=> Written = 0
       /\ PDCounter < 2 <=> Written <= Nibbles

PrefixInv ==
  /\ Len(got) <= Len(report)
  /\ \A i \in 1..Len(got) : got[i] = report[i]

\* The packet announced is in the registers until the program has read it.
PacketLen == IF SR.npe THEN Nibbles ELSE Len(report) - Len(got)

AnnInv ==
  irq /\ SR.ports => Holds(PacketLen) /\ (SR.pdl <=> got = <<>>)

\* A report is cut short only for a reason.
CutInv ==
  /\ PendingVB => blanked \/ report = <<>>
  /\ pc = "abort" => blanked \/ broken \/ report = <<>>
  /\ ~SF /\ wants.ports => \/ blanked \/ broken \/ got = report
                           \/ irq /\ SR.ports /\ ~SR.npe

PacketInv ==
  /\ DataType /\ FlagType /\ WantsInv /\ TurnInv /\ WorkInv /\ FillInv /\ PrefixInv /\ AnnInv /\ CutInv
-----------------------------------------------------------------------------
\* Sequences
LEMMA Joined ==
  ASSUME NEW S, NEW s \in Seq(S), NEW t \in Seq(S)
  PROVE  /\ s \o t \in Seq(S) /\ Len(s \o t) = Len(s) + Len(t)
         /\ \A i \in 1..Len(s) : (s \o t)[i] = s[i]
         /\ \A i \in 1..Len(t) : (s \o t)[Len(s) + i] = t[i]
OBVIOUS

LEMMA FirstOff ==
  ASSUME NEW S, NEW s \in Seq(S), s # <<>>
  PROVE  /\ Head(s) \in S /\ Head(s) = s[1] /\ Tail(s) \in Seq(S)
         /\ Len(s) \in Nat \ {0} /\ Len(Tail(s)) = Len(s) - 1
         /\ \A i \in 1..Len(s) - 1 : Tail(s)[i] = s[i + 1]
OBVIOUS

LEMMA Lengthy ==
  ASSUME NEW S, NEW s \in Seq(S)
  PROVE  Len(s) \in Nat /\ (s = <<>> <=> Len(s) = 0)
OBVIOUS

LEMMA SameItems ==
  ASSUME NEW S, NEW s \in Seq(S), NEW t \in Seq(S), Len(s) = Len(t), \A i \in 1..Len(s) : s[i] = t[i]
  PROVE  s = t
OBVIOUS

LEMMA EmptyIs ==
  ASSUME NEW S
  PROVE  <<>> \in Seq(S) /\ Len(<<>>) = 0
OBVIOUS

LEMMA Listed ==
  ASSUME NEW S, NEW n \in Nat, NEW f \in [1..n -> S]
  PROVE  f \in Seq(S) /\ Len(f) = n
OBVIOUS

LEMMA Sizes ==
  ASSUME DataType
  PROVE  /\ Len(report) \in Nat /\ Len(got) \in Nat /\ Len(work) \in Nat
         /\ Nibbles \in Nat \ {0} /\ OWP \in Nat /\ PDCounter \in Nat
         /\ got = <<>> <=> Len(got) = 0
         /\ report = <<>> <=> Len(report) = 0
         /\ work = <<>> <=> Len(work) = 0
BY Lengthy, SmpcConstants DEF DataType

-----------------------------------------------------------------------------
\* Steps that leave the report and the registers alone
Unread   == UNCHANGED <<status, OWP, PDCounter, CurPort, work, wants, got, report>>
Unturned == UNCHANGED <<cont, brk, NextContBit, answering, broken>>
InPorts  == pc \in Holding \cup {"port"}

LEMMA SamePlace ==
  ASSUME PacketInv, Unread, pc' # "start" \/ pc = "start", InPorts' => (pc' = pc \/ (pc = "read" /\ pc' = "write"))
  PROVE  DataType' /\ WorkInv' /\ FillInv' /\ PrefixInv' /\ AnnInv'
<1>1. UNCHANGED <<SR, OREG, irq, OWP, PDCounter, CurPort, work, wants, got, report>>
  BY DEF Unread, status
<1>2. DataType'
  BY <1>1 DEF PacketInv, DataType
<1>3. WorkInv'
  BY <1>1 DEF PacketInv, WorkInv, InPorts, Holding
<1>4. FillInv'
  <2>0. pc' = "start" => PDCounter' = 0
    BY <1>1 DEF PacketInv, FillInv
  <2> SUFFICES ASSUME InPorts' PROVE FillInv'
    BY <2>0 DEF FillInv, InPorts
  <2>1. InPorts /\ Written' = Written /\ (pc' = "more" <=> pc = "more")
    BY <1>1 DEF InPorts, Holding, Written
  <2> QED BY <1>1, <2>1 DEF PacketInv, FillInv, InPorts, Holds
<1>5. PrefixInv'
  BY <1>1 DEF PacketInv, PrefixInv
<1>6. AnnInv'
  BY <1>1 DEF PacketInv, AnnInv, Holds, PacketLen
<1> QED BY <1>2, <1>3, <1>4, <1>5, <1>6

LEMMA SameFlags ==
  ASSUME PacketInv, Unread, Unturned, PendingVB' \in BOOLEAN, blanked' \in BOOLEAN
  PROVE  FlagType'
BY DEF PacketInv, FlagType, Unread, Unturned, status

\* The command is over.
LEMMA Over ==
  ASSUME Finish
  PROVE  WantsInv' /\ TurnInv' /\ WorkInv' /\ FillInv' /\ ~InPorts' /\ pc' = "wait" /\ SF' = FALSE
BY DEF Finish, WantsInv, TurnInv, WorkInv, FillInv, Given, InPorts, Holding

\* A command that is no INTBACK begins, goes on or ends.
Aside == {"slave", "clock", "settime", "reset"}

LEMMA AsideStep ==
  ASSUME IInv, PacketInv, Unread, Unturned, UNCHANGED <<PendingVB, blanked>>,
         pc \in Aside \/ Begin(Commands \ {"INTBACK"}),
         (pc' \in Aside /\ Stay) \/ Finish
  PROVE  PacketInv'
<1>1. ~wants.ports /\ wants' = wants
  <2>1. CASE pc \in Aside
    BY <2>1 DEF PacketInv, WantsInv, Aside, Unread
  <2>2. CASE Begin(Commands \ {"INTBACK"})
    <3>1. Given /\ Cmd # "INTBACK"
      BY <2>2 DEF Begin, At, Given, Cmd, Resting, IInv, CommandInv
    <3> QED BY <3>1 DEF PacketInv, WantsInv, Unread
  <2> QED BY <2>1, <2>2
<1>2. pc' \in Aside \cup {"wait"}
  BY DEF Finish
<1>3. DataType' /\ WorkInv' /\ FillInv' /\ PrefixInv' /\ AnnInv'
  BY <1>2, SamePlace DEF Aside, InPorts, Holding
<1>4. FlagType'
  BY SameFlags DEF PacketInv, FlagType
<1>5. WantsInv' /\ TurnInv'
  <2>1. CASE Finish
    BY <2>1, Over
  <2>2. CASE pc' \in Aside
    BY <1>1, <2>2 DEF WantsInv, TurnInv, Given, Resting, Aside
  <2> QED BY <2>1, <2>2
<1>6. CutInv'
  BY <1>1, <1>2 DEF PacketInv, CutInv, Unread, Aside
<1> QED BY <1>3, <1>4, <1>5, <1>6 DEF PacketInv

LEMMA OtherCommandsPackets ==
  ASSUME IInv, PacketInv,
         SoundSwitch \/ SlaveSwitch \/ SlaveSwitched \/ SystemReset \/ ClockWait \/ OtherCommand
  PROVE  PacketInv'
<1>1. Unread /\ Unturned /\ UNCHANGED <<PendingVB, blanked>>
  BY DEF SoundSwitch, SlaveSwitch, SlaveSwitched, SystemReset, ClockWait, OtherCommand, Unread, Unturned,
         status, cursors, registers, program
<1>2. pc \in Aside \/ Begin(Commands \ {"INTBACK"})
  BY DEF SoundSwitch, SlaveSwitch, SlaveSwitched, SystemReset, ClockWait, OtherCommand, Begin, At, Aside, Commands
<1>3. (pc' \in Aside /\ Stay) \/ Finish
  BY DEF SoundSwitch, SlaveSwitch, SlaveSwitched, SystemReset, ClockWait, OtherCommand, At, Aside
<1> QED BY <1>1, <1>2, <1>3, AsideStep

LEMMA ClockChangePackets ==
  ASSUME IInv, PacketInv, ClockChange
  PROVE  PacketInv'
<1>1. Given /\ Cmd # "INTBACK" /\ Fresh /\ Blank
  <2>1. Given /\ Cmd # "INTBACK"
    BY DEF ClockChange, Begin, At, Given, Cmd, Resting, IInv, CommandInv
  <2> QED BY <2>1 DEF PacketInv, TurnInv
<1>2. Unread /\ Unturned /\ UNCHANGED <<PendingVB, blanked>>
  BY <1>1 DEF ClockChange, Fresh, Unread, Unturned, status, registers, program, PacketInv, FlagType
<1>3. pc' = "clock"
  BY DEF ClockChange
<1>4. DataType' /\ WorkInv' /\ FillInv' /\ PrefixInv' /\ AnnInv'
  BY <1>2, <1>3, SamePlace DEF InPorts, Holding
<1>5. FlagType'
  BY <1>2, SameFlags DEF PacketInv, FlagType
<1>6. ~wants.ports /\ wants' = wants
  BY <1>1, <1>2 DEF PacketInv, WantsInv, Unread
<1>7. WantsInv' /\ TurnInv'
  BY <1>3, <1>6 DEF WantsInv, TurnInv, Given, Resting
<1>8. CutInv'
  BY <1>2, <1>3, <1>6 DEF PacketInv, CutInv, Unread
<1> QED BY <1>4, <1>5, <1>7, <1>8 DEF PacketInv

LEMMA IdlePackets ==
  ASSUME IInv, PacketInv, TakeVBlank \/ VBlankDone \/ TakeCommand
  PROVE  PacketInv'
<1>1. /\ Unread /\ Unturned /\ blanked' = blanked /\ SF' = SF
      /\ PendingVB' = PendingVB \/ PendingVB' = FALSE
  BY DEF TakeVBlank, VBlankDone, TakeCommand, Unread, Unturned, status, cursors, registers, program, command
<1>2. pc \in {"wait", "vblank"} /\ pc' \in {"wait", "vblank", "begin"}
  BY DEF TakeVBlank, VBlankDone, TakeCommand, At
<1>3. DataType' /\ WorkInv' /\ FillInv' /\ PrefixInv' /\ AnnInv'
  BY <1>1, <1>2, SamePlace DEF InPorts, Holding
<1>4. FlagType'
  BY <1>1, SameFlags DEF PacketInv, FlagType
<1>5. Given' => Given /\ Cmd' = Cmd
  BY <1>1, <1>2 DEF TakeVBlank, VBlankDone, TakeCommand, At, Given, Cmd, Resting, command, IInv, CommandInv
<1>6. WantsInv'
  BY <1>1, <1>2, <1>5 DEF PacketInv, WantsInv, Unread
<1>7. TurnInv'
  BY <1>1, <1>2, <1>5 DEF PacketInv, TurnInv, Unread, Unturned, Fresh, Blank, status
<1>8. CutInv'
  <2>1. PendingVB' => PendingVB
    BY <1>1
  <2> QED BY <1>1, <1>2, <2>1 DEF PacketInv, CutInv, Unread, Unturned, status
<1> QED BY <1>3, <1>4, <1>6, <1>7, <1>8 DEF PacketInv

LEMMA AbortPackets ==
  ASSUME IInv, PacketInv, PortsGiveWay \/ Aborted
  PROVE  PacketInv'
<1>1. Unread /\ Unturned /\ UNCHANGED <<PendingVB, blanked>>
  BY DEF PortsGiveWay, GiveWay, Aborted, Unread, Unturned, status, cursors, registers, program
<1>2. pc' \in {"abort", "wait"}
  BY DEF PortsGiveWay, GiveWay, Aborted, Finish
<1>3. DataType' /\ WorkInv' /\ FillInv' /\ PrefixInv' /\ AnnInv'
  BY <1>1, <1>2, SamePlace DEF InPorts, Holding
<1>4. FlagType'
  BY <1>1, SameFlags DEF PacketInv, FlagType
<1>5. CASE PortsGiveWay
  <2>1. pc' = "abort" /\ PendingVB /\ SF' = SF /\ SF
    BY <1>5 DEF PortsGiveWay, GiveWay, At, command, IInv, CommandInv, Resting
  <2>2. WantsInv' /\ TurnInv'
    BY <2>1 DEF WantsInv, TurnInv, Given, Resting
  <2>3. CutInv'
    BY <1>1, <2>1 DEF PacketInv, CutInv, Unread
  <2> QED BY <1>3, <1>4, <2>2, <2>3 DEF PacketInv
<1>6. CASE Aborted
  <2>1. pc = "abort" /\ Finish
    BY <1>6 DEF Aborted, At
  <2>2. blanked \/ broken \/ report = <<>>
    BY <2>1 DEF PacketInv, CutInv
  <2>3. report = <<>> => got = report
    BY Sizes DEF PacketInv, PrefixInv
  <2>4. CutInv'
    BY <1>1, <2>1, <2>2, <2>3 DEF PacketInv, CutInv, Finish, Unread, Unturned
  <2> QED BY <1>3, <1>4, <2>1, <2>4, Over DEF PacketInv
<1> QED BY <1>5, <1>6

-----------------------------------------------------------------------------
\* INTBACK
LEMMA BeginsFresh ==
  ASSUME IInv, PacketInv, pc = "begin"
  PROVE  SF /\ Given /\ Fresh /\ Blank
<1>1. SF /\ Given
  BY DEF IInv, CommandInv, Resting, Given
<1> QED BY <1>1 DEF PacketInv, TurnInv

LEMMA IntbackPackets ==
  ASSUME IInv, PacketInv, Intback
  PROVE  PacketInv'
<1>1. pc = "begin" /\ SF /\ Fresh /\ Blank
  BY BeginsFresh DEF Intback, Begin, At
<1>2. UNCHANGED <<OREG, irq, OWP, PDCounter, CurPort, work, wants, cont, brk, PendingVB, answering, got, blanked,
                  broken, report>>
  BY DEF Intback, registers, program
<1>3. SR' \in [npe : BOOLEAN, pdl : BOOLEAN, ports : BOOLEAN]
  BY DEF Intback, PacketInv, DataType
<1>4. DataType'
  BY <1>2, <1>3 DEF PacketInv, DataType
<1>5. NextContBit' \in BOOLEAN
  BY DEF Intback, PacketInv, FlagType
<1>6. FlagType'
  BY <1>2, <1>5 DEF PacketInv, FlagType
<1>7. PrefixInv' /\ AnnInv'
  BY <1>1, <1>2 DEF PacketInv, PrefixInv, AnnInv, Fresh
<1>8. \/ pc' = "status"
      \/ pc' = "vbend" /\ NextContBit' = TRUE
      \/ Finish /\ ~wants.ports
  BY DEF Intback
<1>9. CASE pc' \in {"status", "vbend"}
  <2>1. SF' = SF
    BY <1>9 DEF Intback, Stay, command, Finish
  <2>2. WantsInv' /\ WorkInv' /\ FillInv'
    BY <1>9 DEF WantsInv, WorkInv, FillInv, Given, Resting, Holding
  <2>3. TurnInv'
    <3>1. CASE pc' = "status"
      BY <1>1, <1>2, <3>1 DEF TurnInv, Fresh, Blank
    <3>2. CASE pc' = "vbend"
      <4>1. NextContBit' = TRUE /\ cont' = FALSE /\ ~brk'
        BY <1>1, <1>2, <1>8, <3>2 DEF Fresh, Finish, PacketInv, FlagType
      <4>2. Unanswered'
        BY <4>1 DEF Unanswered
      <4> QED BY <1>1, <1>2, <3>2, <4>2 DEF TurnInv, Fresh, Blank, Given, Resting
    <3> QED BY <1>9, <3>1, <3>2
  <2>4. CutInv'
    BY <1>1, <1>2, <1>9, <2>1 DEF CutInv, Blank
  <2> QED BY <1>4, <1>6, <1>7, <2>2, <2>3, <2>4 DEF PacketInv
<1>10. CASE Finish /\ ~wants.ports
  <2>1. CutInv'
    BY <1>1, <1>2, <1>10 DEF CutInv, Blank, Finish
  <2> QED BY <1>4, <1>6, <1>7, <1>10, <2>1, Over DEF PacketInv
<1> QED BY <1>8, <1>9, <1>10

LEMMA StatusPackets ==
  ASSUME IInv, PacketInv, Status
  PROVE  PacketInv'
<1>1. pc = "status" /\ Fresh /\ Blank
  BY DEF Status, At, PacketInv, TurnInv
<1>2. SF
  BY <1>1 DEF IInv, CommandInv, Resting
<1>3. UNCHANGED <<OWP, PDCounter, CurPort, work, wants, cont, brk, PendingVB, answering, got, blanked,
                  broken, report>>
  BY DEF Status, registers, program
<1>4. /\ SR' = [npe |-> wants.ports, pdl |-> SR.pdl, ports |-> FALSE] /\ irq' = TRUE
      /\ OREG' = [i \in 0..Nibbles - 1 |-> InStatus]
  BY DEF Status, Interrupt
<1>5. DataType'
  <2>1. SR' \in [npe : BOOLEAN, pdl : BOOLEAN, ports : BOOLEAN]
    BY <1>4 DEF PacketInv, DataType
  <2>2. OREG' \in [0..Nibbles - 1 -> V]
    BY <1>4 DEF V
  <2> QED BY <1>3, <2>1, <2>2 DEF PacketInv, DataType
<1>6. NextContBit' \in BOOLEAN
  BY DEF Status, PacketInv, FlagType
<1>7. FlagType'
  BY <1>3, <1>4, <1>6 DEF PacketInv, FlagType
<1>8. SR'.ports = FALSE
  BY <1>4
<1>9. PrefixInv' /\ AnnInv'
  BY <1>3, <1>8 DEF PacketInv, PrefixInv, AnnInv
<1>10. CASE wants.ports
  <2>1. pc' = "cont" /\ NextContBit' = TRUE /\ SF' = SF
    BY <1>10 DEF Status, Stay, command
  <2>2. WantsInv' /\ WorkInv' /\ FillInv'
    BY <2>1 DEF WantsInv, WorkInv, FillInv, Given, Resting, Holding
  <2>3. cont' = FALSE /\ brk' = FALSE /\ answering' = FALSE
    BY <1>1, <1>3 DEF Fresh, PacketInv, FlagType
  <2>4. Unanswered'
    BY <2>1, <2>3 DEF Unanswered
  <2>5. Blank'
    BY <1>1, <1>3 DEF Blank
  <2>6. TurnInv'
    BY <1>8, <2>1, <2>3, <2>4, <2>5 DEF TurnInv, Given, Resting
  <2>7. CutInv'
    BY <1>1, <1>2, <2>1, <2>5 DEF CutInv, Blank
  <2> QED BY <1>5, <1>7, <1>9, <2>2, <2>6, <2>7 DEF PacketInv
<1>11. CASE ~wants.ports
  <2>1. Finish
    BY <1>11 DEF Status
  <2>2. CutInv'
    BY <1>1, <1>3, <1>11, <2>1 DEF CutInv, Blank, Finish
  <2> QED BY <1>5, <1>7, <1>9, <2>1, <2>2, Over DEF PacketInv
<1> QED BY <1>10, <1>11

LEMMA StatusAnsweredPackets ==
  ASSUME IInv, PacketInv, StatusAnswered
  PROVE  PacketInv'
<1>1. pc = "cont" /\ (Answered \/ PendingVB) /\ ~PendingVB
  BY DEF StatusAnswered, GoOn, At, Awaited
<1>2. SF /\ SF' = SF
  BY <1>1 DEF IInv, CommandInv, Resting, StatusAnswered, command
<1>3. Unread /\ UNCHANGED <<cont, brk, answering, broken, PendingVB, blanked>>
  BY DEF StatusAnswered, Unread, registers, program
<1>4. ~irq /\ ~answering /\ Blank /\ (brk => broken /\ cont # NextContBit)
  BY <1>1 DEF PacketInv, TurnInv, Unanswered, Answered
<1>5. pc' \in {"abort", "vbend"}
  BY DEF StatusAnswered
<1>6. DataType' /\ WorkInv' /\ FillInv' /\ PrefixInv' /\ AnnInv'
  BY <1>3, <1>5, SamePlace DEF InPorts, Holding
<1>7. NextContBit' \in BOOLEAN
  BY DEF StatusAnswered, PacketInv, FlagType
<1>8. FlagType'
  BY <1>3, <1>7 DEF PacketInv, FlagType, Unread, status
<1>9. WantsInv'
  BY <1>5 DEF WantsInv, Given, Resting
<1>10. Blank' /\ irq' = irq
  BY <1>3, <1>4 DEF Blank, Unread, status
<1>11. CutInv'
  BY <1>2, <1>10 DEF CutInv, Blank
<1>12. TurnInv'
  <2>1. CASE pc' = "abort"
    BY <2>1 DEF TurnInv, Given, Resting
  <2>2. CASE pc' = "vbend"
    <3>1. NextContBit' = ~NextContBit /\ ~(brk /\ cont # NextContBit)
      BY <2>2 DEF StatusAnswered
    <3>2. ~brk /\ cont = NextContBit
      BY <1>1, <1>4, <3>1 DEF Answered
    <3>3. Unanswered'
      BY <1>3, <3>1, <3>2 DEF Unanswered, PacketInv, FlagType
    <3> QED BY <1>3, <1>4, <1>10, <2>2, <3>3 DEF TurnInv, Given, Resting
  <2> QED BY <1>5, <2>1, <2>2
<1> QED BY <1>6, <1>8, <1>9, <1>11, <1>12 DEF PacketInv

LEMMA StartPackets ==
  ASSUME IInv, PacketInv, DisplayBegun \/ StartPorts
  PROVE  PacketInv'
<1>1. (pc = "vbend" /\ pc' = "start") \/ (pc = "start" /\ pc' = "port")
  BY DEF DisplayBegun, StartPorts, GoOn, At
<1>2. SF /\ SF' = SF
  BY <1>1 DEF IInv, CommandInv, Resting, DisplayBegun, StartPorts, command
<1>3. UNCHANGED <<SR, OREG, irq, work, wants, cont, brk, NextContBit, answering, broken, got, report, PendingVB,
                  blanked>>
  BY DEF DisplayBegun, StartPorts, registers, program, status
<1>4. /\ ~irq /\ ~answering /\ Unanswered /\ Blank
  BY <1>1 DEF PacketInv, TurnInv
<1>5. (PDCounter' = 0 /\ OWP' = OWP /\ CurPort' = CurPort) \/ (PDCounter' = PDCounter /\ OWP' = 0 /\ CurPort' = 0)
  BY DEF DisplayBegun, StartPorts
<1>6. OWP' \in 0..Nibbles - 1 /\ PDCounter' \in 0..255 /\ CurPort' \in Ports
  <2>1. Nibbles \in Nat \ {0} /\ OWP \in 0..Nibbles - 1 /\ PDCounter \in 0..255 /\ CurPort \in Ports
    BY SmpcConstants DEF PacketInv, DataType
  <2>2. CurPort' \in Ports
    BY <1>5, <2>1 DEF Ports
  <2> QED BY <1>5, <2>1, <2>2
<1>7. DataType'
  BY <1>3, <1>6 DEF PacketInv, DataType
<1>8. FlagType'
  BY <1>3 DEF PacketInv, FlagType
<1>9. WantsInv'
  BY <1>1 DEF WantsInv, Given, Resting
<1>10. Blank' /\ Unanswered' /\ ~irq' /\ ~answering'
  BY <1>3, <1>4 DEF Blank, Unanswered
<1>11. TurnInv'
  BY <1>1, <1>10 DEF TurnInv, Given, Resting
<1>12. WorkInv'
  BY <1>1 DEF WorkInv, Holding
<1>13. PrefixInv' /\ AnnInv'
  BY <1>3, <1>10 DEF PacketInv, PrefixInv, AnnInv
<1>14. CutInv'
  BY <1>2, <1>10 DEF CutInv, Blank
<1>15. FillInv'
  <2>1. CASE pc' = "start"
    BY <1>1, <2>1 DEF DisplayBegun, StartPorts, FillInv, Holding
  <2>2. CASE pc' = "port"
    <3>1. PDCounter' = 0 /\ OWP' = 0
      BY <1>1, <2>2 DEF PacketInv, FillInv, DisplayBegun, StartPorts
    <3>2. Len(got') = 0 /\ Written' = 0
      BY <1>10, <2>2, EmptyIs DEF Blank, Written, Holding
    <3>3. Holds(0)'
      BY <3>2, <1>10, SmpcConstants, EmptyIs DEF Holds, Blank
    <3>4. Holds(Written - Len(got))'
      BY <3>2, <3>3 DEF Holds
    <3> QED BY <2>2, <3>1, <3>2, <3>4, SmpcConstants DEF FillInv, Holding
  <2> QED BY <1>1, <2>1, <2>2
<1> QED BY <1>7, <1>8, <1>9, <1>11, <1>12, <1>13, <1>14, <1>15 DEF PacketInv

-----------------------------------------------------------------------------
\* The ports.  Facts about their places
InReport == {"port", "read", "write", "nibble"}

LEMMA InReportFacts ==
  ASSUME IInv, PacketInv, pc \in InReport
  PROVE  /\ SF /\ irq = FALSE /\ answering = FALSE /\ brk = FALSE /\ cont # NextContBit
         /\ Written \in Nat /\ Len(got) \in Nat /\ Len(report) \in Nat /\ Written <= Len(report)
         /\ Holds(Written - Len(got)) /\ Len(got) <= Written
         /\ Len(got) = 0 \/ Len(got) >= Nibbles
         /\ Written = 0 \/ Written > Len(got)
         /\ OWP = IF Written - Len(got) = Nibbles THEN 0 ELSE Written - Len(got)
         /\ PDCounter = 0 <=> Written = 0
         /\ PDCounter < 2 <=> Written <= Nibbles
<1>1. SF
  BY DEF IInv, CommandInv, Resting, InReport
<1>2. irq = FALSE /\ answering = FALSE /\ brk = FALSE /\ cont # NextContBit
  BY DEF PacketInv, TurnInv, FlagType, InReport, Unanswered
<1>3. Written \in Nat /\ Len(got) \in Nat /\ Len(report) \in Nat /\ Written <= Len(report)
  BY Sizes DEF PacketInv, WorkInv, Written, Holding, InReport
<1>4. /\ Holds(Written - Len(got)) /\ Len(got) <= Written
      /\ Len(got) = 0 \/ Len(got) >= Nibbles
      /\ Written = 0 \/ Written > Len(got)
      /\ OWP = IF Written - Len(got) = Nibbles THEN 0 ELSE Written - Len(got)
      /\ PDCounter = 0 <=> Written = 0
      /\ PDCounter < 2 <=> Written <= Nibbles
  BY DEF PacketInv, FillInv, Holding, InReport
<1> QED BY <1>1, <1>2, <1>3, <1>4

\* What a place of the report needs besides its registers
LEMMA StillInReport ==
  ASSUME IInv, PacketInv, pc \in InReport, pc' \in InReport, SF' = SF,
         UNCHANGED <<irq, wants, cont, brk, NextContBit, answering, broken, got, blanked, PendingVB>>,
         ~PendingVB \/ report' = report
  PROVE  FlagType' /\ WantsInv' /\ TurnInv' /\ AnnInv' /\ CutInv'
<1>1. FlagType'
  BY DEF PacketInv, FlagType
<1>2. WantsInv'
  BY DEF WantsInv, Given, Resting, InReport
<1>3. irq' = FALSE /\ answering' = FALSE /\ brk' = FALSE /\ cont' # NextContBit' /\ SF'
  BY InReportFacts
<1>4. TurnInv'
  BY <1>3 DEF TurnInv, Given, Resting, InReport, Unanswered
<1>5. AnnInv'
  BY <1>3 DEF AnnInv
<1>6. CutInv'
  BY <1>3 DEF PacketInv, CutInv, InReport
<1> QED BY <1>1, <1>2, <1>4, <1>5, <1>6

\* The end of a port's report: the next port, or the last packet.
LEMMA NextPortPackets ==
  ASSUME IInv, PacketInv, pc \in {"port", "nibble"}, pc = "nibble" => work = <<>>, NextPort,
         UNCHANGED <<OREG, OWP, PDCounter, work, wants, cont, brk, NextContBit, answering, broken, got, report,
                     blanked, PendingVB>>
  PROVE  PacketInv'
<1>1. Written = Len(report)
  BY Sizes DEF PacketInv, Written, Holding
<1>2. CASE CurPort = 0
  <2>1. CurPort' = 1 /\ pc' = "port" /\ Stay /\ SR' = SR /\ irq' = irq
    BY <1>2 DEF NextPort
  <2>2. DataType'
    BY <2>1 DEF PacketInv, DataType, Ports
  <2>3. FlagType' /\ WantsInv' /\ TurnInv' /\ AnnInv' /\ CutInv'
    BY <2>1, StillInReport DEF InReport, Stay, command
  <2>4. WorkInv'
    BY <2>1 DEF WorkInv, Holding
  <2>5. PrefixInv'
    BY DEF PacketInv, PrefixInv
  <2>6. Written' = Written
    BY <1>1, <2>1 DEF Written, Holding
  <2>7. FillInv'
    BY <2>1, <2>6 DEF PacketInv, FillInv, Holding, Holds
  <2> QED BY <2>2, <2>3, <2>4, <2>5, <2>7 DEF PacketInv
<1>3. CASE CurPort # 0
  <2>1. /\ CurPort' = 0 /\ Finish /\ irq' = TRUE
        /\ SR' = [npe |-> FALSE, pdl |-> PDCounter < 2, ports |-> TRUE]
    BY <1>3 DEF NextPort, Interrupt
  <2>2. SR'.npe = FALSE /\ SR'.ports = TRUE /\ SR'.pdl = (PDCounter < 2)
    BY <2>1
  <2>3. DataType'
    BY <2>1 DEF PacketInv, DataType, Ports
  <2>4. FlagType'
    BY <2>1 DEF PacketInv, FlagType
  <2>5. PrefixInv'
    BY DEF PacketInv, PrefixInv
  <2>6. CutInv'
    BY <2>1, <2>2 DEF PacketInv, CutInv, Finish
  <2>7. AnnInv'
    <3>1. PacketLen' = Written - Len(got)
      BY <1>1, <2>2 DEF PacketLen
    <3>2. Holds(Written - Len(got)) /\ Len(got) <= Written /\ (PDCounter < 2 <=> Written <= Nibbles)
          /\ Written \in Nat /\ Len(got) \in Nat
          /\ (Len(got) = 0 \/ Len(got) >= Nibbles) /\ (Written = 0 \/ Written > Len(got))
      BY InReportFacts DEF InReport
    <3>3. Holds(PacketLen)'
      BY <3>1, <3>2 DEF Holds
    <3>4. PDCounter < 2 <=> Len(got) = 0
      BY <3>2, SmpcConstants DEF Holds
    <3>5. SR'.pdl <=> got' = <<>>
      BY <2>2, <3>4, Sizes DEF PacketInv
    <3> QED BY <3>3, <3>5 DEF AnnInv
  <2> QED BY <2>1, <2>3, <2>4, <2>5, <2>6, <2>7, Over DEF PacketInv
<1> QED BY <1>2, <1>3

LEMMA ReadPortPackets ==
  ASSUME IInv, PacketInv, ReadPort
  PROVE  PacketInv'
<1>1. pc = "port" /\ ~PendingVB
  BY DEF ReadPort, GoOn, At
<1>2. UNCHANGED <<OREG, OWP, PDCounter, wants, cont, brk, NextContBit, answering, broken, got, blanked, PendingVB>>
  BY DEF ReadPort, registers, program
<1>3. CASE CurPort \in wants.skip
  <2>1. NextPort /\ work' = work /\ report' = report
    BY <1>3 DEF ReadPort
  <2> QED BY <1>1, <1>2, <2>1, NextPortPackets
<1>4. CASE CurPort \notin wants.skip
  <2>1. PICK len \in Lengths : work' = [i \in 1..len |-> <<CurPort, i>>]
    BY <1>4 DEF ReadPort
  <2> DEFINE w == [i \in 1..len |-> <<CurPort, i>>]
  <2>2. /\ report' = report \o w /\ work' = w /\ pc' = "read" /\ SF' = SF
        /\ UNCHANGED <<SR, irq, CurPort>>
    BY <1>4, <2>1 DEF ReadPort, Stay, command
  <2>3. len \in Nat \ {0}
    BY SmpcConstants
  <2>4. w \in Seq(V) /\ Len(w) = len
    <3>1. \A i \in 1..len : <<CurPort, i>> \in V
      BY <2>3 DEF PacketInv, DataType, V, Nibble
    <3>2. w \in [1..len -> V]
      BY <3>1
    <3> HIDE DEF w
    <3> QED BY <2>3, <3>2, Listed
  <2> HIDE DEF w
  <2>5. report \in Seq(V)
    BY DEF PacketInv, DataType
  <2>6. /\ report' \in Seq(V) /\ Len(report') = Len(report) + len
        /\ \A i \in 1..Len(report) : report'[i] = report[i]
        /\ \A i \in 1..len : report'[Len(report) + i] = work'[i]
    <3>1. report \o w \in Seq(V) /\ Len(report \o w) = Len(report) + Len(w)
      BY <2>4, <2>5, Joined
    <3>2. \A i \in 1..Len(report) : (report \o w)[i] = report[i]
      BY <2>4, <2>5, Joined
    <3>3. \A i \in 1..Len(w) : (report \o w)[Len(report) + i] = w[i]
      BY <2>4, <2>5, Joined
    <3> QED BY <2>2, <2>4, <3>1, <3>2, <3>3
  <2>7. Len(report) \in Nat /\ Len(got) \in Nat
    BY Sizes DEF PacketInv
  <2>8. DataType'
    BY <1>2, <2>2, <2>4, <2>6 DEF PacketInv, DataType
  <2>9. FlagType' /\ WantsInv' /\ TurnInv' /\ AnnInv' /\ CutInv'
    BY <1>1, <1>2, <2>2, StillInReport DEF InReport
  <2>10. WorkInv'
    <3>1. work' # <<>>
      BY <2>2, <2>3, <2>4, EmptyIs
    <3>2. Len(report') - Len(work') = Len(report)
      BY <2>2, <2>3, <2>4, <2>6, <2>7
    <3> QED BY <2>2, <2>3, <2>4, <2>6, <2>7, <3>1, <3>2 DEF WorkInv, Holding
  <2>11. PrefixInv'
    BY <1>2, <2>3, <2>6, <2>7 DEF PacketInv, PrefixInv
  <2>12. Written' = Written
    BY <1>1, <2>2, <2>3, <2>4, <2>6, <2>7 DEF Written, Holding
  <2>13. Holds(Written - Len(got))'
    <3>1. Holds(Written - Len(got)) /\ Written \in Nat /\ Len(got) <= Written /\ Written <= Len(report)
      BY <1>1, InReportFacts DEF InReport
    <3> QED BY <1>2, <2>3, <2>6, <2>7, <2>12, <3>1 DEF Holds
  <2>14. FillInv'
    BY <1>1, <1>2, <2>2, <2>12, <2>13 DEF PacketInv, FillInv, Holding
  <2> QED BY <2>8, <2>9, <2>10, <2>11, <2>14 DEF PacketInv
<1> QED BY <1>3, <1>4

LEMMA DeviceReadPackets ==
  ASSUME IInv, PacketInv, DeviceRead
  PROVE  PacketInv'
<1>1. pc = "read" /\ pc' = "write" /\ SF' = SF /\ Unread /\ Unturned /\ UNCHANGED <<PendingVB, blanked>>
  BY DEF DeviceRead, GoOn, At, command, Unread, Unturned, status, cursors, registers, program
<1>2. DataType' /\ WorkInv' /\ FillInv' /\ PrefixInv' /\ AnnInv'
  BY <1>1, SamePlace DEF InPorts, Holding
<1>3. FlagType' /\ WantsInv' /\ TurnInv' /\ CutInv'
  BY <1>1, StillInReport DEF InReport, Unread, Unturned, status
<1> QED BY <1>2, <1>3 DEF PacketInv

\* Of the nibbles written and read, and the registers begun: one more
LEMMA OneMore ==
  ASSUME NEW n \in Nat \ {0}, NEW w \in Nat, NEW g \in Nat, NEW c \in 0..255, NEW d,
         g <= w, w - g < n, g = 0 \/ g >= n, c = 0 <=> w = 0, c < 2 <=> w <= n,
         d = IF w - g = 0 /\ c < 255 THEN c + 1 ELSE c
  PROVE  d # 0 /\ (d < 2 <=> w + 1 <= n)
OBVIOUS

\* A nibble is written where the last one ended.
LEMMA PutPackets ==
  ASSUME IInv, PacketInv, pc \in {"write", "more"}, Put, irq = FALSE,
         pc = "write" => ~PacketFull,
         UNCHANGED <<SR, irq, CurPort, wants, got, report>>
  PROVE  DataType' /\ WorkInv' /\ FillInv' /\ PrefixInv'
<1>1. /\ PDCounter' = IF OWP = 0 /\ PDCounter < 255 THEN PDCounter + 1 ELSE PDCounter
      /\ OREG' = [OREG EXCEPT ![OWP] = Head(work)]
      /\ OWP' = (OWP + 1) % Nibbles
      /\ work' = Tail(work)
      /\ pc' = "nibble"
  BY DEF Put
<1>2. /\ work \in Seq(V) /\ work # <<>> /\ Len(work) <= Len(report)
      /\ \A i \in 1..Len(work) : work[i] = report[Len(report) - Len(work) + i]
  BY DEF PacketInv, DataType, WorkInv, Holding
<1>3. /\ Head(work) \in V /\ Head(work) = work[1] /\ work' \in Seq(V)
      /\ Len(work) \in Nat \ {0} /\ Len(work') = Len(work) - 1
      /\ \A i \in 1..Len(work) - 1 : work'[i] = work[i + 1]
  BY <1>1, <1>2, FirstOff
<1>4. /\ Len(report) \in Nat /\ Len(got) \in Nat /\ Nibbles \in Nat \ {0}
      /\ OWP \in 0..Nibbles - 1 /\ PDCounter \in 0..255
  BY Sizes DEF PacketInv, DataType
<1>5. /\ Written = Len(report) - Len(work) /\ Written' = Len(report) - Len(work')
      /\ Written \in Nat /\ Written' = Written + 1 /\ Written' <= Len(report)
  BY <1>1, <1>2, <1>3, <1>4 DEF Written, Holding
<1>6. /\ Len(got) = 0 \/ Len(got) >= Nibbles
      /\ Len(got) <= Written /\ Holds(Written - Len(got))
      /\ pc # "more" => Written = 0 \/ Written > Len(got)
      /\ pc = "more" => Written >= Nibbles /\ Written = Len(got)
      /\ OWP = IF Written - Len(got) = Nibbles THEN 0 ELSE Written - Len(got)
      /\ PDCounter = 0 <=> Written = 0
      /\ PDCounter < 2 <=> Written <= Nibbles
  BY <1>4, <1>5 DEF PacketInv, FillInv, Holding
<1>7. Written - Len(got) <= Nibbles
  BY <1>6 DEF Holds
<1>8. OWP = Written - Len(got) /\ Written - Len(got) < Nibbles
  <2>1. CASE pc = "more"
    BY <1>4, <1>5, <1>6, <2>1
  <2>2. CASE pc = "write"
    BY <1>4, <1>5, <1>6, <1>7, <2>2 DEF PacketFull
  <2> QED BY <2>1, <2>2
<1>9. OWP' = IF OWP + 1 = Nibbles THEN 0 ELSE OWP + 1
  BY <1>1, <1>4
<1>10. OREG' \in [0..Nibbles - 1 -> V] /\ OREG'[OWP] = report[Written + 1]
       /\ \A i \in 0..Nibbles - 1 : i # OWP => OREG'[i] = OREG[i]
  <2>1. Head(work) = report[Written + 1]
    <3>1. 1 \in 1..Len(work) /\ Len(report) - Len(work) + 1 = Written + 1
      BY <1>3, <1>4, <1>5
    <3>2. work[1] = report[Len(report) - Len(work) + 1]
      BY <1>2, <3>1
    <3> QED BY <1>3, <3>1, <3>2
  <2>2. OREG \in [0..Nibbles - 1 -> V]
    BY DEF PacketInv, DataType
  <2> QED BY <1>1, <1>3, <1>4, <2>1, <2>2
<1>11. PDCounter' \in 0..255
  BY <1>1, <1>4
<1>12. DataType'
  BY <1>3, <1>4, <1>9, <1>10, <1>11 DEF PacketInv, DataType
<1>13. PrefixInv'
  BY DEF PacketInv, PrefixInv
<1>14. WorkInv'
  <2>1. ASSUME NEW i \in 1..Len(work') PROVE work'[i] = report[Len(report) - Len(work') + i]
    <3>1. i + 1 \in 1..Len(work) /\ work'[i] = work[i + 1]
      BY <1>3
    <3>2. work[i + 1] = report[Len(report) - Len(work) + (i + 1)]
      BY <1>2, <3>1
    <3>3. Len(report) - Len(work) + (i + 1) = Len(report) - Len(work') + i
      BY <1>3, <1>4
    <3> QED BY <3>1, <3>2, <3>3
  <2> QED BY <1>1, <1>2, <1>3, <1>4, <2>1 DEF WorkInv
<1>15. Written' - Len(got') = OWP + 1
  <2>1. Len(got') = Len(got)
    OBVIOUS
  <2>2. Written' = Written + 1 /\ Written \in Nat
    BY <1>5
  <2> QED BY <1>4, <1>8, <2>1, <2>2
<1>16. Holds(Written - Len(got))'
  <2>1. Len(got) + (OWP + 1) <= Len(report) /\ OWP + 1 <= Nibbles
    BY <1>4, <1>5, <1>8
  <2>2. ASSUME NEW i \in 1..OWP + 1 PROVE OREG'[i - 1] = report[Len(got) + i]
    <3>1. CASE i = OWP + 1
      BY <1>4, <1>5, <1>8, <1>10, <3>1
    <3>2. CASE i # OWP + 1
      <4>1. i \in 1..OWP /\ i - 1 \in 0..Nibbles - 1 /\ i - 1 # OWP
        BY <1>4, <3>2
      <4>2. OREG[i - 1] = report[Len(got) + i]
        BY <1>6, <1>8, <4>1 DEF Holds
      <4> QED BY <1>10, <4>1, <4>2
    <3> QED BY <3>1, <3>2
  <2> QED BY <1>15, <2>1, <2>2 DEF Holds
<1>17. FillInv'
  <2>1. OWP' = IF Written' - Len(got') = Nibbles THEN 0 ELSE Written' - Len(got')
    BY <1>9, <1>15
  <2>2. Written' # 0 /\ PDCounter' # 0 /\ (PDCounter' < 2 <=> Written' <= Nibbles)
    <3>1. PDCounter' = IF Written - Len(got) = 0 /\ PDCounter < 255 THEN PDCounter + 1 ELSE PDCounter
      BY <1>1, <1>8
    <3>2. PDCounter' # 0 /\ (PDCounter' < 2 <=> Written + 1 <= Nibbles)
      BY <1>4, <1>5, <1>6, <1>8, <3>1, OneMore
    <3> QED BY <1>5, <3>2
  <2>3. Len(got') <= Written' /\ Written' > Len(got') /\ (Len(got') = 0 \/ Len(got') >= Nibbles)
    BY <1>4, <1>5, <1>6
  <2> QED BY <1>1, <1>16, <2>1, <2>2, <2>3 DEF FillInv
<1> QED BY <1>12, <1>13, <1>14, <1>17

LEMMA WriteNibblePackets ==
  ASSUME IInv, PacketInv, WriteNibble
  PROVE  PacketInv'
<1>1. pc = "write" /\ SF' = SF
      /\ UNCHANGED <<CurPort, wants, cont, brk, NextContBit, answering, broken, got, report, blanked, PendingVB>>
  BY DEF WriteNibble, command, registers, program
<1>2. CASE ~PacketFull
  <2>1. Put /\ SR' = SR /\ irq' = irq
    BY <1>2 DEF WriteNibble
  <2>2. irq = FALSE
    BY <1>1, InReportFacts DEF InReport
  <2>3. DataType' /\ WorkInv' /\ FillInv' /\ PrefixInv'
    BY <1>1, <1>2, <2>1, <2>2, PutPackets
  <2>4. FlagType' /\ WantsInv' /\ TurnInv' /\ AnnInv' /\ CutInv'
    BY <1>1, <2>1, StillInReport DEF InReport, Put
  <2> QED BY <2>3, <2>4 DEF PacketInv
<1>3. CASE PacketFull
  <2>1. /\ SR' = [npe |-> TRUE, pdl |-> PDCounter < 2, ports |-> TRUE] /\ irq' = TRUE
        /\ pc' = "more" /\ UNCHANGED <<OREG, OWP, PDCounter, work>>
    BY <1>3 DEF WriteNibble, Interrupt
  <2>2. SR'.npe = TRUE /\ SR'.ports = TRUE /\ SR'.pdl = (PDCounter < 2)
    BY <2>1
  <2>3. /\ SF /\ answering = FALSE /\ brk = FALSE /\ cont # NextContBit
        /\ Written \in Nat /\ Len(got) \in Nat /\ Len(report) \in Nat
        /\ Holds(Written - Len(got)) /\ Len(got) <= Written
        /\ Len(got) = 0 \/ Len(got) >= Nibbles
        /\ Written = 0 \/ Written > Len(got)
        /\ OWP = IF Written - Len(got) = Nibbles THEN 0 ELSE Written - Len(got)
        /\ PDCounter = 0 <=> Written = 0
        /\ PDCounter < 2 <=> Written <= Nibbles
    BY <1>1, InReportFacts DEF InReport
  <2>4. Written = Len(got) + Nibbles
    BY <1>3, <2>3, SmpcConstants DEF PacketFull, PacketInv, DataType
  <2>5. DataType'
    BY <1>1, <2>1 DEF PacketInv, DataType
  <2>6. FlagType'
    BY <1>1, <2>1 DEF PacketInv, FlagType
  <2>7. WantsInv'
    BY <2>1 DEF WantsInv, Given, Resting
  <2>8. TurnInv'
    BY <1>1, <2>1, <2>2, <2>3 DEF TurnInv, Given, Resting, Unanswered
  <2>9. WorkInv'
    BY <1>1, <2>1 DEF PacketInv, WorkInv, Holding
  <2>10. Written' = Written
    BY <1>1, <2>1 DEF Written, Holding
  <2>11. Holds(Nibbles)'
    BY <1>1, <2>1, <2>3, <2>4, SmpcConstants DEF Holds
  <2>12. FillInv'
    BY <1>1, <2>1, <2>3, <2>4, <2>10, <2>11, SmpcConstants DEF FillInv
  <2>13. PrefixInv'
    BY <1>1 DEF PacketInv, PrefixInv
  <2>14. AnnInv'
    <3>1. PDCounter < 2 <=> Len(got) = 0
      BY <2>3, <2>4, SmpcConstants
    <3>2. SR'.pdl <=> got' = <<>>
      BY <1>1, <2>2, <3>1, Sizes DEF PacketInv
    <3>3. Holds(PacketLen)'
      BY <2>2, <2>11 DEF PacketLen, Holds
    <3> QED BY <3>2, <3>3 DEF AnnInv
  <2>15. CutInv'
    BY <1>1, <2>1, <2>3 DEF PacketInv, CutInv
  <2> QED BY <2>5, <2>6, <2>7, <2>8, <2>9, <2>12, <2>13, <2>14, <2>15 DEF PacketInv
<1> QED BY <1>2, <1>3

LEMMA PacketAnsweredPackets ==
  ASSUME IInv, PacketInv, PacketAnswered
  PROVE  PacketInv'
<1>1. pc = "more" /\ (Answered \/ PendingVB) /\ ~PendingVB
  BY DEF PacketAnswered, GoOn, At, Awaited
<1>2. SF /\ SF' = SF
  BY <1>1 DEF IInv, CommandInv, Resting, PacketAnswered, command
<1>3. UNCHANGED <<SR, irq, CurPort, wants, cont, brk, answering, broken, got, report, blanked, PendingVB>>
  BY DEF PacketAnswered, registers, program
<1>4. irq = FALSE /\ answering = FALSE /\ (brk => broken /\ cont # NextContBit)
  BY <1>1 DEF PacketInv, TurnInv, Unanswered, Answered, FlagType
<1>5. CASE brk
  <2>1. pc' = "abort" /\ UNCHANGED <<OREG, OWP, PDCounter, work, NextContBit>>
    BY <1>5 DEF PacketAnswered
  <2>2. DataType' /\ WorkInv' /\ FillInv' /\ PrefixInv' /\ AnnInv'
    BY <1>3, <2>1, SamePlace DEF Unread, status, InPorts, Holding
  <2>3. FlagType'
    BY <1>3, <2>1 DEF PacketInv, FlagType
  <2>4. WantsInv' /\ TurnInv'
    BY <2>1 DEF WantsInv, TurnInv, Given, Resting
  <2>5. CutInv'
    BY <1>2, <1>3, <1>4, <1>5, <2>1 DEF PacketInv, CutInv
  <2> QED BY <2>2, <2>3, <2>4, <2>5 DEF PacketInv
<1>6. CASE ~brk
  <2>1. Put /\ NextContBit' = ~NextContBit
    BY <1>6 DEF PacketAnswered
  <2>2. cont = NextContBit
    BY <1>1, <1>6 DEF Answered
  <2>3. DataType' /\ WorkInv' /\ FillInv' /\ PrefixInv'
    BY <1>1, <1>3, <1>4, <2>1, PutPackets
  <2>4. pc' = "nibble"
    BY <2>1 DEF Put
  <2>5. FlagType'
    BY <1>3, <2>1 DEF PacketInv, FlagType
  <2>6. Unanswered'
    BY <1>3, <1>6, <2>1, <2>2 DEF Unanswered, PacketInv, FlagType
  <2>7. WantsInv' /\ TurnInv'
    BY <1>3, <1>4, <2>4, <2>6 DEF WantsInv, TurnInv, Given, Resting
  <2>8. AnnInv' /\ CutInv'
    BY <1>2, <1>3, <1>4, <2>4 DEF PacketInv, AnnInv, CutInv
  <2> QED BY <2>3, <2>5, <2>7, <2>8 DEF PacketInv
<1> QED BY <1>5, <1>6

LEMMA NibbleWrittenPackets ==
  ASSUME IInv, PacketInv, NibbleWritten
  PROVE  PacketInv'
<1>1. pc = "nibble"
  BY DEF NibbleWritten, GoOn, At
<1>2. UNCHANGED <<OREG, OWP, PDCounter, work, wants, cont, brk, NextContBit, answering, broken, got, report,
                  blanked, PendingVB>>
  BY DEF NibbleWritten, registers, program
<1>3. CASE work = <<>>
  BY <1>1, <1>2, <1>3, NextPortPackets DEF NibbleWritten
<1>4. CASE work # <<>>
  <2>1. pc' = "write" /\ SF' = SF /\ UNCHANGED <<SR, irq, CurPort>>
    BY <1>4 DEF NibbleWritten, Stay, command
  <2>2. DataType'
    BY <1>2, <2>1 DEF PacketInv, DataType
  <2>3. PrefixInv'
    BY <1>2 DEF PacketInv, PrefixInv
  <2>4. WorkInv'
    BY <1>1, <1>2, <1>4, <2>1 DEF PacketInv, WorkInv, Holding
  <2>5. FlagType' /\ WantsInv' /\ TurnInv' /\ AnnInv' /\ CutInv'
    BY <1>1, <1>2, <2>1, StillInReport DEF InReport
  <2>6. Written' = Written
    BY <1>1, <1>2, <2>1 DEF Written, Holding
  <2>7. FillInv'
    BY <1>1, <1>2, <2>1, <2>6 DEF PacketInv, FillInv, Holding, Holds
  <2> QED BY <2>2, <2>3, <2>4, <2>5, <2>7 DEF PacketInv
<1> QED BY <1>3, <1>4

-----------------------------------------------------------------------------
\* The beam, the frame and the resets
LEMMA LinePackets ==
  ASSUME IInv, PacketInv, Line
  PROVE  PacketInv'
<1>1. Unread /\ Unturned /\ pc' = pc /\ SF' = SF /\ PendingCommand' = PendingCommand
      /\ ExecutingCommand' = ExecutingCommand
  BY DEF Line, Unread, Unturned, cursors, registers, command
<1>2. /\ PendingVB' = (PendingVB \/ (vb' /\ ~vb)) /\ blanked' = (blanked \/ (vb' /\ ~vb))
      /\ vb' = (phase' # "display")
  BY DEF Line
<1>3. PendingVB' \in BOOLEAN /\ blanked' \in BOOLEAN
  BY <1>2
<1>4. DataType' /\ WorkInv' /\ FillInv' /\ PrefixInv' /\ AnnInv'
  BY <1>1, SamePlace DEF InPorts
<1>5. FlagType'
  BY <1>1, <1>3, SameFlags
<1>6. UNCHANGED <<SR, irq, wants, cont, brk, NextContBit, answering, broken, got, report>>
  BY <1>1 DEF Unread, Unturned, status
<1>7. WantsInv' /\ TurnInv'
  BY <1>1, <1>6 DEF PacketInv, WantsInv, TurnInv, Given, Cmd, Resting, Fresh, Blank, Unanswered
<1>8. (PendingVB' => PendingVB \/ blanked') /\ (blanked => blanked')
  BY <1>2
<1>9. CutInv'
  BY <1>1, <1>6, <1>8 DEF PacketInv, CutInv
<1> QED BY <1>4, <1>5, <1>7, <1>9 DEF PacketInv

LEMMA ResetPackets ==
  ASSUME Reset
  PROVE  PacketInv'
<1>1. /\ pc' = "wait" /\ SF' = FALSE /\ irq' = FALSE /\ cont' = FALSE /\ brk' = FALSE
      /\ OWP' = 0 /\ PDCounter' = 0 /\ NextContBit' = FALSE /\ CurPort' = 0
      /\ work' = <<>> /\ got' = <<>> /\ report' = <<>>
      /\ PendingVB' = FALSE /\ answering' = FALSE /\ blanked' = FALSE /\ broken' = FALSE
  BY DEF Reset
<1>2. /\ SR' = [npe |-> FALSE, pdl |-> FALSE, ports |-> FALSE]
      /\ wants' = [status |-> FALSE, ports |-> FALSE, skip |-> {}]
      /\ OREG' = [i \in 0..Nibbles - 1 |-> Old]
  BY DEF Reset
<1>3. DataType'
  <2>1. SR' \in [npe : BOOLEAN, pdl : BOOLEAN, ports : BOOLEAN]
    BY <1>2
  <2>2. wants' \in [status : BOOLEAN, ports : BOOLEAN, skip : SUBSET Ports]
    BY <1>2
  <2>3. OREG' \in [0..Nibbles - 1 -> V]
    BY <1>2 DEF V
  <2>4. OWP' \in 0..Nibbles - 1 /\ PDCounter' \in 0..255 /\ CurPort' \in Ports
    BY <1>1, SmpcConstants DEF Ports
  <2>5. work' \in Seq(V) /\ got' \in Seq(V) /\ report' \in Seq(V)
    BY <1>1, EmptyIs
  <2> QED BY <2>1, <2>2, <2>3, <2>4, <2>5 DEF DataType
<1>4. FlagType'
  BY <1>1 DEF FlagType
<1>5. WantsInv' /\ TurnInv' /\ WorkInv' /\ FillInv'
  BY <1>1 DEF WantsInv, TurnInv, WorkInv, FillInv, Given, Holding
<1>6. PrefixInv' /\ AnnInv'
  BY <1>1, EmptyIs DEF PrefixInv, AnnInv
<1>7. CutInv'
  BY <1>1 DEF CutInv
<1> QED BY <1>3, <1>4, <1>5, <1>6, <1>7 DEF PacketInv

\* What no part of PacketInv is about
Untold == UNCHANGED <<pc, SF, PendingCommand, ExecutingCommand, PendingVB, blanked>>

LEMMA UntoldPackets ==
  ASSUME PacketInv, Unread, Unturned, Untold
  PROVE  PacketInv'
<1>1. DataType' /\ WorkInv' /\ FillInv' /\ PrefixInv' /\ AnnInv'
  BY SamePlace DEF Untold, InPorts
<1>2. FlagType'
  BY SameFlags DEF Untold, PacketInv, FlagType
<1>3. WantsInv' /\ TurnInv' /\ CutInv'
  BY DEF PacketInv, WantsInv, TurnInv, CutInv, Given, Cmd, Resting, Fresh, Blank, Unanswered, Unread, Unturned,
         Untold, status
<1> QED BY <1>1, <1>2, <1>3 DEF PacketInv

LEMMA LoopPackets ==
  ASSUME IInv, PacketInv, StartFrame \/ ResetSwitch \/ ProcessSlaveOffOn
  PROVE  PacketInv'
<1>1. CASE ResetSwitch \/ (StartFrame /\ ResetPending)
  BY <1>1, ResetPackets DEF ResetSwitch, StartFrame
<1>2. CASE (StartFrame /\ ~ResetPending) \/ ProcessSlaveOffOn
  <2>1. Unread /\ Unturned /\ Untold
    BY <1>2 DEF StartFrame, ProcessSlaveOffOn, Unread, Unturned, Untold, status, cursors, registers, program, command
  <2> QED BY <2>1, UntoldPackets
<1> QED BY <1>1, <1>2

-----------------------------------------------------------------------------
\* The program
LEMMA GivePackets ==
  ASSUME IInv, PacketInv, NEW cmd \in Commands, Give(cmd)
  PROVE  PacketInv'
<1>1. ~SF /\ irq = FALSE /\ Resting
  BY DEF Give, IInv, CommandInv, PacketInv, FlagType
<1>2. /\ SF' = TRUE /\ PendingCommand' = cmd /\ pc' = pc /\ irq' = irq /\ SR' = SR /\ PendingVB' = PendingVB
      /\ cont' = FALSE /\ brk' = FALSE /\ answering' = FALSE /\ blanked' = FALSE /\ broken' = FALSE
      /\ got' = <<>> /\ report' = <<>> /\ wants' \in Requests(cmd)
      /\ OREG' = [i \in 0..Nibbles - 1 |-> Old]
      /\ UNCHANGED <<OWP, PDCounter, NextContBit, CurPort, work>>
  BY DEF Give, cursors
<1>3. wants' \in [status : BOOLEAN, ports : BOOLEAN, skip : SUBSET Ports] /\ (wants'.ports => cmd = "INTBACK")
  <2>1. CASE cmd = "INTBACK"
    BY <1>2, <2>1 DEF Requests
  <2>2. CASE cmd # "INTBACK"
    <3>1. wants' = [status |-> FALSE, ports |-> FALSE, skip |-> {}]
      BY <1>2, <2>2 DEF Requests
    <3> QED BY <3>1
  <2> QED BY <2>1, <2>2
<1>4. DataType'
  <2>1. OREG' \in [0..Nibbles - 1 -> V]
    BY <1>2 DEF V
  <2>2. got' \in Seq(V) /\ report' \in Seq(V)
    BY <1>2, EmptyIs
  <2> QED BY <1>2, <1>3, <2>1, <2>2 DEF PacketInv, DataType
<1>5. FlagType'
  BY <1>2 DEF PacketInv, FlagType
<1>6. WantsInv'
  BY <1>1, <1>2, <1>3 DEF WantsInv, Cmd, Resting
<1>7. TurnInv'
  BY <1>1, <1>2 DEF TurnInv, Resting, Fresh, Blank
<1>8. WorkInv' /\ FillInv'
  BY <1>1, <1>2 DEF WorkInv, FillInv, Resting, Holding
<1>9. PrefixInv' /\ AnnInv'
  BY <1>1, <1>2, EmptyIs DEF PrefixInv, AnnInv
<1>10. CutInv'
  BY <1>2 DEF CutInv
<1> QED BY <1>4, <1>5, <1>6, <1>7, <1>8, <1>9, <1>10 DEF PacketInv

\* What the program reads of a packet is what comes next in the report.
LEMMA PacketTaken ==
  ASSUME DataType, PrefixInv, Holds(PacketLen)
  PROVE  /\ PacketLen \in Nat /\ got \o Packet \in Seq(V) /\ Len(got \o Packet) = Len(got) + PacketLen
         /\ \A i \in 1..Len(got) + PacketLen : (got \o Packet)[i] = report[i]
<1>1. /\ Len(report) \in Nat /\ Len(got) \in Nat /\ Nibbles \in Nat \ {0} /\ Len(got) <= Len(report)
      /\ got \in Seq(V) /\ OREG \in [0..Nibbles - 1 -> V]
  BY Sizes DEF PrefixInv, DataType
<1>2. PacketLen \in Nat /\ PacketLen <= Nibbles
  BY <1>1 DEF PacketLen, Holds
<1> DEFINE p == [i \in 1..PacketLen |-> OREG[i - 1]]
<1>3. Packet = p
  BY <1>1, <1>2 DEF Packet, PacketLen
<1>4. \A i \in 1..PacketLen : p[i] = report[Len(got) + i]
  BY DEF Holds
<1>5. p \in [1..PacketLen -> V]
  BY <1>1, <1>2
<1> HIDE DEF p
<1>6. p \in Seq(V) /\ Len(p) = PacketLen
  BY <1>2, <1>5, Listed
<1>7. got \o p \in Seq(V) /\ Len(got \o p) = Len(got) + PacketLen
  BY <1>1, <1>6, Joined
<1>8. \A i \in 1..Len(got) : (got \o p)[i] = report[i]
  <2>1. \A i \in 1..Len(got) : (got \o p)[i] = got[i]
    BY <1>1, <1>6, Joined
  <2> QED BY <2>1 DEF PrefixInv
<1>9. \A i \in 1..PacketLen : (got \o p)[Len(got) + i] = report[Len(got) + i]
  <2>1. \A i \in 1..Len(p) : (got \o p)[Len(got) + i] = p[i]
    BY <1>1, <1>6, Joined
  <2> QED BY <1>4, <1>6, <2>1
<1>10. ASSUME NEW i \in 1..Len(got) + PacketLen PROVE (got \o p)[i] = report[i]
  <2>1. CASE i <= Len(got)
    BY <1>1, <1>2, <1>8, <2>1
  <2>2. CASE i > Len(got)
    <3>1. i - Len(got) \in 1..PacketLen /\ Len(got) + (i - Len(got)) = i
      BY <1>1, <1>2, <2>2
    <3> QED BY <1>9, <3>1
  <2> QED BY <1>1, <1>2, <2>1, <2>2
<1> QED BY <1>2, <1>3, <1>7, <1>10

\* The last packet completes the report.
LEMMA LastPacket ==
  ASSUME DataType, PrefixInv, Holds(PacketLen), Len(got) + PacketLen = Len(report)
  PROVE  got \o Packet = report
<1>1. /\ got \o Packet \in Seq(V) /\ Len(got \o Packet) = Len(report)
      /\ \A i \in 1..Len(report) : (got \o Packet)[i] = report[i]
  BY PacketTaken
<1>2. report \in Seq(V)
  BY DEF DataType
<1> HIDE DEF Packet
<1> QED BY <1>1, <1>2, SameItems

LEMMA ReadPacketPackets ==
  ASSUME IInv, PacketInv, ReadPacket
  PROVE  PacketInv'
<1>1. /\ irq /\ irq' = FALSE /\ answering' = SR.npe
      /\ got' = IF SR.ports THEN got \o Packet ELSE got
      /\ UNCHANGED <<pc, SF, PendingCommand, ExecutingCommand, SR, OREG, OWP, PDCounter, NextContBit, CurPort, work,
                     wants, cont, brk, PendingVB, blanked, broken, report>>
  BY DEF ReadPacket, command, cursors, registers
<1>2. /\ Len(report) \in Nat /\ Len(got) \in Nat /\ Nibbles \in Nat \ {0} /\ got \in Seq(V)
      /\ got = <<>> <=> Len(got) = 0
      /\ report = <<>> <=> Len(report) = 0
      /\ Len(got) <= Len(report)
  BY Sizes DEF PacketInv, DataType, PrefixInv
<1> DEFINE k == IF SR.ports THEN PacketLen ELSE 0
<1>3. SR.ports => Holds(PacketLen)
  BY <1>1 DEF PacketInv, AnnInv
<1>4. /\ k \in Nat /\ got' \in Seq(V) /\ Len(got') = Len(got) + k /\ Len(got') <= Len(report)
      /\ \A i \in 1..Len(got') : got'[i] = report[i]
  <2>1. CASE SR.ports
    BY <1>1, <1>2, <1>3, <2>1, PacketTaken DEF PacketInv, Holds
  <2>2. CASE ~SR.ports
    BY <1>1, <1>2, <2>2 DEF PacketInv, PrefixInv
  <2> QED BY <2>1, <2>2
<1>5. DataType'
  BY <1>1, <1>4 DEF PacketInv, DataType
<1>6. SR.npe \in BOOLEAN
  BY DEF PacketInv, DataType
<1>7. FlagType'
  BY <1>1, <1>6 DEF PacketInv, FlagType
<1>8. WantsInv' /\ WorkInv'
  BY <1>1 DEF PacketInv, WantsInv, WorkInv, Given, Cmd, Resting
<1>9. PrefixInv' /\ AnnInv'
  BY <1>1, <1>4 DEF PrefixInv, AnnInv
<1>10. ~Given /\ pc \notin {"status", "vbend", "start"} \cup InReport
  BY <1>1 DEF PacketInv, TurnInv, Fresh, InReport
<1>11. pc = "cont" => got' = got
  BY <1>1 DEF PacketInv, TurnInv
<1>12. pc \in {"cont", "more"} => Unanswered
  BY <1>1 DEF PacketInv, TurnInv
<1>13. TurnInv'
  <2>1. ~Given' /\ pc' = pc /\ irq' = FALSE /\ Unanswered' = Unanswered
    BY <1>1, <1>10 DEF Given, Resting, Unanswered
  <2>2. pc = "cont" => Blank' /\ NextContBit'
    BY <1>1, <1>11 DEF PacketInv, TurnInv, Blank
  <2>3. pc \in {"cont", "more"} => ~brk'
    BY <1>1, <1>12 DEF Unanswered
  <2> QED BY <1>10, <1>12, <2>1, <2>2, <2>3 DEF TurnInv, InReport
<1>14. FillInv'
  <2> SUFFICES ASSUME pc = "more" PROVE FillInv'
    BY <1>1, <1>10 DEF FillInv, InReport, Holding
  <2>1. SR.npe /\ SR.ports
    BY <1>1 DEF PacketInv, TurnInv
  <2>2. Written' = Written
    BY <1>1 DEF Written, Holding
  <2>3. /\ Written >= Nibbles /\ Written = Len(got) + Nibbles
        /\ OWP = IF Written - Len(got) = Nibbles THEN 0 ELSE Written - Len(got)
        /\ PDCounter = 0 <=> Written = 0
        /\ PDCounter < 2 <=> Written <= Nibbles
    BY <1>1 DEF PacketInv, FillInv, Holding
  <2>4. Len(got') = Written /\ OWP = 0
    BY <1>2, <1>4, <2>1, <2>3 DEF PacketLen
  <2>5. Written' - Len(got') = 0
    BY <1>4, <2>2, <2>4
  <2>6. Holds(0)'
    BY <1>2, <1>4, <1>1 DEF Holds
  <2>7. Holds(Written - Len(got))'
    BY <2>5, <2>6 DEF Holds
  <2>8. Len(got') >= Nibbles /\ Written' >= Nibbles /\ Written' = Len(got') + 0 /\ Len(got') <= Written'
    BY <1>2, <2>2, <2>3, <2>4
  <2>9. /\ OWP' = IF Written' - Len(got') = Nibbles THEN 0 ELSE Written' - Len(got')
        /\ PDCounter' = 0 <=> Written' = 0
        /\ PDCounter' < 2 <=> Written' <= Nibbles
    BY <1>1, <1>2, <2>2, <2>3, <2>4, <2>5
  <2> QED BY <1>1, <2>7, <2>8, <2>9 DEF FillInv
<1>15. CutInv'
  <2> SUFFICES ASSUME ~SF, wants.ports, ~blanked, ~broken PROVE got' = report
    BY <1>1 DEF PacketInv, CutInv
  <2>1. CASE ~SR.ports
    BY <1>1, <2>1 DEF PacketInv, CutInv
  <2>2. CASE SR.ports /\ ~SR.npe
    <3>1. PacketLen = Len(report) - Len(got)
      BY <2>2 DEF PacketLen
    <3>2. Len(got) + PacketLen = Len(report)
      BY <1>2, <3>1
    <3> QED BY <1>1, <1>3, <2>2, <3>2, LastPacket DEF PacketInv
  <2>3. CASE SR.ports /\ SR.npe
    <3>1. Len(got) + Nibbles <= Len(report)
      BY <1>3, <2>3 DEF Holds, PacketLen
    <3>2. got # report
      BY <1>2, <3>1
    <3> QED BY <2>3, <3>2 DEF PacketInv, CutInv
  <2> QED BY <2>1, <2>2, <2>3
<1> QED BY <1>5, <1>7, <1>8, <1>9, <1>13, <1>14, <1>15 DEF PacketInv

LEMMA AnswerPackets ==
  ASSUME IInv, PacketInv, Answer
  PROVE  PacketInv'
<1>1. /\ answering /\ answering' = FALSE
      /\ Unread /\ Untold /\ NextContBit' = NextContBit
  BY DEF Answer, Unread, Untold, status, cursors, command
<1>2. (cont' = ~cont /\ brk' = brk /\ broken' = broken) \/ (brk' = TRUE /\ broken' = TRUE /\ cont' = cont)
  BY DEF Answer
<1>3. DataType' /\ WorkInv' /\ FillInv' /\ PrefixInv' /\ AnnInv'
  BY <1>1, SamePlace DEF Untold, InPorts
<1>4. FlagType'
  BY <1>1, <1>2 DEF PacketInv, FlagType, Unread, Untold, status
<1>5. WantsInv'
  BY <1>1 DEF PacketInv, WantsInv, Given, Cmd, Resting, Unread, Untold
<1>6. ~Given /\ pc \notin {"status", "vbend", "start"} \cup InReport
  BY <1>1 DEF PacketInv, TurnInv, Fresh, InReport
<1>7. pc \in {"cont", "more"} => ~irq /\ Unanswered
  BY <1>1 DEF PacketInv, TurnInv
<1>8. TurnInv'
  <2>1. ~Given' /\ pc' = pc /\ irq' = irq
    BY <1>1, <1>6 DEF Given, Resting, Untold, Unread, status
  <2>2. pc = "cont" => Blank' /\ NextContBit'
    BY <1>1 DEF PacketInv, TurnInv, Blank, Unread
  <2>3. pc \in {"cont", "more"} => (brk' => broken' /\ cont' # NextContBit')
    BY <1>1, <1>2, <1>7 DEF Unanswered, PacketInv, FlagType
  <2> QED BY <1>1, <1>6, <1>7, <2>1, <2>2, <2>3 DEF TurnInv, InReport
<1>9. broken => broken'
  BY <1>2
<1>10. CutInv'
  BY <1>1, <1>9 DEF PacketInv, CutInv, Unread, Untold, status
<1> QED BY <1>3, <1>4, <1>5, <1>8, <1>10 DEF PacketInv

LEMMA PacketInvariant == Spec => []PacketInv
<1>1. Init => PacketInv
  <2> SUFFICES ASSUME Init PROVE PacketInv
    OBVIOUS
  <2>1. SR \in [npe : BOOLEAN, pdl : BOOLEAN, ports : BOOLEAN]
    BY DEF Init
  <2>2. wants \in [status : BOOLEAN, ports : BOOLEAN, skip : SUBSET Ports]
    BY DEF Init
  <2>3. OREG \in [0..Nibbles - 1 -> V]
    BY DEF Init, V
  <2>4. OWP \in 0..Nibbles - 1 /\ PDCounter \in 0..255 /\ CurPort \in Ports
    BY SmpcConstants DEF Init, Ports
  <2>5. work = <<>> /\ got = <<>> /\ report = <<>> /\ pc = "wait" /\ SF = FALSE /\ irq = FALSE /\ PendingVB = FALSE
    BY DEF Init
  <2>6. wants.ports = FALSE
    BY DEF Init
  <2>7. DataType
    BY <2>1, <2>2, <2>3, <2>4, <2>5, EmptyIs DEF DataType
  <2>8. FlagType
    BY DEF Init, FlagType
  <2>9. WantsInv /\ TurnInv /\ WorkInv /\ FillInv
    BY <2>5 DEF WantsInv, TurnInv, WorkInv, FillInv, Given, Holding
  <2>10. PrefixInv /\ AnnInv /\ CutInv
    BY <2>5, EmptyIs DEF PrefixInv, AnnInv, CutInv
  <2> QED BY <2>7, <2>8, <2>9, <2>10 DEF PacketInv
<1>2. IInv /\ PacketInv /\ [Next]_vars => PacketInv'
  <2> SUFFICES ASSUME IInv, PacketInv, [Next]_vars PROVE PacketInv'
    OBVIOUS
  <2>1. CASE Update
    BY <2>1, IdlePackets, OtherCommandsPackets, ClockChangePackets, AbortPackets, IntbackPackets, StatusPackets,
       StatusAnsweredPackets, StartPackets, ReadPortPackets, DeviceReadPackets, WriteNibblePackets,
       PacketAnsweredPackets, NibbleWrittenPackets DEF Update
  <2>2. CASE Program
    BY <2>2, GivePackets, ReadPacketPackets, AnswerPackets DEF Program
  <2>3. CASE UNCHANGED vars
    <3>1. Unread /\ Unturned /\ Untold
      BY <2>3 DEF vars, Unread, Unturned, Untold, status, cursors, registers, program, command
    <3> QED BY <3>1, UntoldPackets
  <2> QED BY <2>1, <2>2, <2>3, LinePackets, LoopPackets DEF Next
<1> QED BY <1>1, <1>2, Invariant, PTL DEF Spec

\* The packets the program reads make up the report the ports gave, the
\* first and the last are marked as such, and a report ends early only for
\* a reason (SMPC_Update's JR_WRNYB and the ends of INTBACK), for any size
\* of the registers and the reports.
THEOREM PacketsWholeHolds == Spec => []PacketsWhole
<1>1. PacketInv => PacketsWhole
  <2> SUFFICES ASSUME PacketInv PROVE PacketsWhole
    OBVIOUS
  <2>1. /\ Len(report) \in Nat /\ Len(got) \in Nat /\ Nibbles \in Nat \ {0} /\ got \in Seq(V) /\ report \in Seq(V)
        /\ got = <<>> <=> Len(got) = 0
        /\ Len(got) <= Len(report)
    BY Sizes DEF PacketInv, DataType, PrefixInv
  <2>2. got = SubSeq(report, 1, Len(got))
    <3>1. \A i \in 1..Len(got) : got[i] = report[i]
      BY DEF PacketInv, PrefixInv
    <3> QED BY <2>1, <3>1
  <2>3. ASSUME irq, SR.ports, ~SR.npe PROVE got \o Packet = report
    <3>1. Holds(PacketLen) /\ Len(got) + PacketLen = Len(report)
      BY <2>1, <2>3 DEF PacketInv, AnnInv, PacketLen
    <3> QED BY <3>1, LastPacket DEF PacketInv
  <2>4. irq /\ SR.ports => (SR.pdl <=> got = <<>>)
    BY DEF PacketInv, AnnInv
  <2>5. ~SF /\ ~irq /\ wants.ports /\ ~blanked /\ ~broken => got = report
    BY DEF PacketInv, CutInv
  <2> QED BY <2>2, <2>3, <2>4, <2>5 DEF PacketsWhole
<1> QED BY <1>1, PacketInvariant, PTL

\* The types, the beam's signals included
THEOREM TypeCorrect == Spec => []TypeOK
<1> DEFINE Signals == vsync \in BOOLEAN /\ frameDue \in BOOLEAN
<1>1. Init => Signals
  BY DEF Init
<1>2. Signals /\ [Next]_vars => Signals'
  <2> SUFFICES ASSUME Signals, [Next]_vars PROVE Signals'
    OBVIOUS
  <2>1. CASE Update
    <3>1. UNCHANGED <<vsync, frameDue>>
      BY <2>1 DEF Update, TakeVBlank, VBlankDone, TakeCommand, SoundSwitch, SlaveSwitch, SlaveSwitched, SystemReset,
         ClockChange, ClockWait, OtherCommand, Intback, Status, PortsGiveWay, GiveWay, Aborted, StatusAnswered,
         DisplayBegun, StartPorts, ReadPort, DeviceRead, WriteNibble, PacketAnswered, NibbleWritten, raster
    <3> QED BY <3>1
  <2>2. CASE Line
    BY <2>2 DEF Line
  <2>3. CASE StartFrame \/ ResetSwitch \/ ProcessSlaveOffOn
    BY <2>3 DEF StartFrame, ResetSwitch, ProcessSlaveOffOn, Reset
  <2>4. CASE Program
    BY <2>4 DEF Program, Give, ReadPacket, Answer, raster
  <2>5. CASE UNCHANGED vars
    BY <2>5 DEF vars, raster
  <2> QED BY <2>1, <2>2, <2>3, <2>4, <2>5 DEF Next
<1>3. IInv /\ PacketInv /\ Signals => TypeOK
  <2> SUFFICES ASSUME IInv, PacketInv, Signals PROVE TypeOK
    OBVIOUS
  <2>1. DOMAIN Awaited = {"wait", "reset", "clock", "cont", "vbend", "more", "slave"}
    BY DEF Awaited
  <2>2. pc \in Eating \cup DOMAIN Awaited \cup {"write"} /\ turn \in 1..8
    BY <2>1 DEF IInv, ControlType, Plain, Eating
  <2>3. {PendingCommand, ExecutingCommand} \subseteq Commands \cup {None}
    BY DEF IInv, ControlType
  <2>4. {SF, cont, brk, NextContBit, SlaveSH2On, SoundCPUOn, ResetPending, PendingVB, vb, vsync, frameDue,
         irq, answering, blanked, broken} \subseteq BOOLEAN
    BY DEF IInv, ControlType, PowerType, PacketInv, FlagType
  <2>5. phase \in DOMAIN After /\ late \in 0..MaxLate
    BY DEF IInv, ControlType, After
  <2>6. {work, report, got} \subseteq Seq(Nibble \cup {Old, InStatus})
    BY DEF PacketInv, DataType, V
  <2>7. /\ SR \in [npe : BOOLEAN, pdl : BOOLEAN, ports : BOOLEAN]
        /\ wants \in [status : BOOLEAN, ports : BOOLEAN, skip : SUBSET Ports]
        /\ OREG \in [0..Nibbles - 1 -> Nibble \cup {Old, InStatus}]
        /\ OWP \in 0..Nibbles - 1 /\ PDCounter \in 0..255 /\ CurPort \in Ports
    BY DEF PacketInv, DataType, V
  <2>8. /\ SlaveSH2Pending \in {-1, 0, 1}
        /\ CurrentClockDivisor \in {61, 65} /\ PendingClockDivisor \in {0, 61, 65}
        /\ asked \in [slave : BOOLEAN, sound : BOOLEAN, clock : {61, 65}]
    BY DEF IInv, PowerType
  <2> QED BY <2>2, <2>3, <2>4, <2>5, <2>6, <2>7, <2>8 DEF TypeOK
<1> HIDE DEF Signals
<1> QED BY <1>1, <1>2, <1>3, Invariant, PacketInvariant, PTL DEF Spec
=============================================================================
