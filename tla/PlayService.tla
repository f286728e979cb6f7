---------------------------- MODULE PlayService ----------------------------
(* What the CD drive promises the program that plays a disc: the sectors of *)
(* the range come one after the other, none left out and none twice, each   *)
(* admitted while it is inside the range; the range is repeated as often as *)
(* asked; and the end of the play is announced once, after the last sector  *)
(* of the last pass, never after the play was stopped or superseded.        *)
EXTENDS Naturals, Sequences

CONSTANTS
  First, LeadOut,  \* where the disc's program begins and ends
  NumBuffers,  \* sectors the host has room for
  Audio,       \* sectors that need no buffer
  Forever      \* the repeat count that never ends

VARIABLES
  queue,     \* the sectors stored and not yet taken by the host
  next,      \* the sector the play has come to
  play,      \* what is played: start, end, and how often it is repeated
  passes,    \* repeats begun
  fresh,     \* no sector was inside the range since the last repeat began
  admitted,  \* the sector at next is read, and will be delivered
  armed,     \* the end of the play is to be announced
  ended,     \* it has been, and the host has not cleared it
  playing,   \* the drive has a disc and has not been stopped
  scanning,  \* the drive skims over the disc and delivers nothing
  accepted   \* the disc's sectors are stored

vars == <<queue, next, play, passes, fresh, admitted, armed, ended, playing,
          scanning, accepted>>

Outside(s) == s >= LeadOut \/ s >= play.end \/ s < play.start

Clamp(s) == IF s < First THEN First ELSE IF s > LeadOut THEN LeadOut ELSE s

\* A play from the first sector with no end
NoPlay == [start |-> 0, end |-> LeadOut, repeat |-> 0]

Init ==
  /\ queue = <<>>
  /\ play = NoPlay
  /\ passes = 0 /\ fresh = FALSE /\ admitted = FALSE
  /\ armed = FALSE /\ ended = FALSE
  /\ playing = FALSE /\ scanning = FALSE /\ accepted = FALSE

-----------------------------------------------------------------------------
\* The queue without its first sector
Rest == IF queue = <<>> THEN <<>> ELSE Tail(queue)

\* The host asks for a play, or the block does to authenticate the disc, which
\* takes the first sector.  A play that keeps the pickup goes on from where it
\* is and may still deliver the one sector already read.
Begin ==
  /\ next' = next \/ (next' = Clamp(play'.start) /\ ~admitted')
  /\ passes' = 0 /\ fresh' = FALSE /\ playing' = TRUE
  /\ armed' \in BOOLEAN /\ admitted' \in BOOLEAN
  /\ scanning' \in {scanning, FALSE}
  /\ accepted' \in {accepted, TRUE}
  /\ queue' \in {queue, Rest}
  /\ UNCHANGED ended

\* The host stops the play, or the drive is initialised.
Cancel ==
  /\ play' = [play EXCEPT !.end = 0, !.repeat = 0]
  /\ admitted' = FALSE /\ armed' = FALSE
  /\ UNCHANGED <<queue, next, passes, fresh, ended, playing, scanning, accepted>>

Admit ==
  /\ playing /\ ~Outside(next)
  /\ admitted' = TRUE /\ fresh' = FALSE
  /\ UNCHANGED <<queue, next, play, passes, armed, ended, playing, scanning, accepted>>

\* A sector read too early, or that finds no room, is read again.
Withdraw ==
  /\ admitted' = FALSE
  /\ UNCHANGED <<queue, next, play, passes, fresh, armed, ended, playing, scanning, accepted>>

Deliver ==
  /\ playing /\ admitted /\ ~scanning
  /\ admitted' = FALSE /\ next' = next + 1
  /\ IF accepted /\ next \notin Audio
     THEN Len(queue) < NumBuffers /\ queue' = Append(queue, next)
     ELSE queue' = queue
  /\ UNCHANGED <<play, passes, fresh, armed, ended, playing, scanning, accepted>>

Again ==
  /\ playing /\ Outside(next) /\ ~fresh
  /\ passes < play.repeat
  /\ next' = Clamp(play.start)
  /\ passes' \in {passes, passes + 1}
  /\ passes' = passes => play.repeat = Forever
  /\ fresh' = TRUE /\ admitted' = FALSE
  /\ UNCHANGED <<queue, play, armed, ended, playing, scanning, accepted>>

\* A range that turns out empty when repeated ends without a word.
Finish ==
  /\ playing /\ armed /\ ~admitted /\ Outside(next)
  /\ passes >= play.repeat \/ fresh
  /\ armed' = FALSE /\ ended' = (ended \/ ~fresh)
  /\ UNCHANGED <<queue, next, play, passes, fresh, admitted, playing, scanning, accepted>>

BeginScan ==
  /\ scanning' = TRUE /\ playing' = TRUE /\ armed' = FALSE /\ admitted' = FALSE
  /\ play' = [play EXCEPT !.repeat = 0]
  /\ UNCHANGED <<queue, next, passes, fresh, ended, accepted>>

Skim ==
  /\ playing /\ scanning
  /\ admitted' \in BOOLEAN
  /\ UNCHANGED <<queue, play, passes, fresh, armed, ended, playing, scanning, accepted>>

\* Stopped, opened or reset.
Halt ==
  /\ playing' = FALSE
  /\ admitted' = FALSE
  /\ armed' \in {armed, FALSE} /\ ended' \in {ended, FALSE}
  /\ accepted' \in BOOLEAN
  /\ queue' \in {queue, Rest, <<>>}
  /\ play' \in {play, [play EXCEPT !.end = 0, !.repeat = 0], NoPlay}
  /\ passes' \in {passes, 0} /\ fresh' \in {fresh, FALSE} /\ scanning' \in {scanning, FALSE}

Accept ==
  /\ accepted' = TRUE
  /\ UNCHANGED <<queue, next, play, passes, fresh, admitted, armed, ended, playing, scanning>>

Take ==
  /\ queue # <<>> /\ queue' = Tail(queue)
  /\ admitted' \in {admitted, FALSE}
  /\ UNCHANGED <<next, play, passes, fresh, armed, ended, playing, scanning, accepted>>

\* Software reset: the buffers are emptied and the play is stopped.
Discard ==
  /\ queue' = <<>>
  /\ play' = [play EXCEPT !.end = 0, !.repeat = 0]
  /\ admitted' = FALSE /\ armed' = FALSE
  /\ UNCHANGED <<next, passes, fresh, ended, playing, scanning, accepted>>

Acknowledge ==
  /\ ended' = FALSE
  /\ UNCHANGED <<queue, next, play, passes, fresh, admitted, armed, playing, scanning, accepted>>

Next ==
  \/ Begin \/ Cancel \/ Admit \/ Withdraw \/ Deliver \/ Again \/ Finish
  \/ BeginScan \/ Skim \/ Halt \/ Accept \/ Take \/ Discard \/ Acknowledge

Spec == Init /\ [][Next]_vars
=============================================================================
