------------------------------ MODULE DiscTray ------------------------------
(* The playlist of disc images and the virtual tray (disc.c), composed with *)
(* the drive that holds one of the images.  The front end calls between     *)
(* frames, so a call is one step.  An image is what CDIF_Open returned; the *)
(* drive keeps its address, and CDIF_Close frees it.                        *)
EXTENDS CdDrive

CONSTANTS
  MaxDiscs,     \* bound: entries of the playlist
  MaxCalls,     \* bound: calls of the front end in a behaviour
  LoadsEjected  \* the front end may load a game while the tray is open

ASSUME TrayConstants ==
  /\ MaxDiscs \in Nat \ {0} /\ MaxCalls \in Nat
  /\ LoadsEjected \in BOOLEAN

VARIABLES
  g_eject_state,
  g_current_disc,  \* index into the playlist, from 1
  disc_cdif,       \* the playlist
  open,            \* images opened and not closed
  calls

listVars == <<g_eject_state, g_current_disc, disc_cdif, open, calls>>
vars     == <<driveVars, listVars>>

-----------------------------------------------------------------------------
Call == calls < MaxCalls /\ calls' = calls + 1

\* The image at g_current_disc, if there is one
Chosen == IF g_current_disc <= Len(disc_cdif) THEN disc_cdif[g_current_disc] ELSE NoDisc

\* The file system code takes the sector it waits for in the update that has
\* stored it (CDB_Update), unless a refused command is answered just then,
\* which is left out.
Settled == authenticating => buffers = <<>>

Eject ==
  /\ Call /\ ~g_eject_state /\ Settled
  /\ g_eject_state' = TRUE
  /\ SetDisc(TRUE, NoDisc)
  /\ UNCHANGED <<g_current_disc, disc_cdif, open>>

Insert ==
  /\ Call /\ g_eject_state
  /\ g_eject_state' = FALSE
  /\ SetDisc(FALSE, Chosen)
  /\ UNCHANGED <<g_current_disc, disc_cdif, open>>

SetImageIndex ==
  /\ Call /\ g_eject_state
  /\ g_current_disc' \in DOMAIN disc_cdif
  /\ UNCHANGED <<g_eject_state, disc_cdif, open, driveVars>>

\* A plausible bug: the image of the slot is closed although the new one
\* did not open.
MutKept(i) == open \ {disc_cdif[i]}

Kept(i) == open

\* The tray is not looked at: the front end does that.
ReplaceImageIndex ==
  /\ Call /\ g_eject_state
  /\ \E i \in DOMAIN disc_cdif :
       \/ \E image \in Discs \ open :
            /\ open' = (open \ {disc_cdif[i]}) \cup {image}
            /\ disc_cdif' = [disc_cdif EXCEPT ![i] = image]
       \/ open' = Kept(i) /\ UNCHANGED disc_cdif   \* CDIF_Open has failed
  /\ UNCHANGED <<g_eject_state, g_current_disc, driveVars>>

AddImageIndex ==
  /\ Call /\ Len(disc_cdif) < MaxDiscs
  /\ disc_cdif' = Append(disc_cdif, NoDisc)
  /\ UNCHANGED <<g_eject_state, g_current_disc, open, driveVars>>

\* The game is closed and another one loaded; the tray's flag is left as it is.
LoadGame ==
  /\ Call /\ (g_eject_state => LoadsEjected)
  /\ \E image \in Discs :
       /\ disc_cdif' = <<image>> /\ open' = {image}
       /\ TrayOpen' = FALSE /\ Cur_CDIF' = image
  /\ g_current_disc' = 1
  /\ PowerOn
  /\ UNCHANGED <<g_eject_state, commands>>

\* retro_reset
ResetSwitch ==
  /\ Call
  /\ Reset
  /\ UNCHANGED <<g_eject_state, g_current_disc, disc_cdif, open>>

FrontEnd ==
  \/ Eject \/ Insert \/ SetImageIndex \/ ReplaceImageIndex \/ AddImageIndex
  \/ LoadGame \/ ResetSwitch

Init ==
  \E image \in Discs :
    /\ DriveInit(image)
    /\ g_eject_state = FALSE /\ g_current_disc = 1
    /\ disc_cdif = <<image>> /\ open = {image}
    /\ calls = 0

Next ==
  \/ DriveNext /\ UNCHANGED listVars
  \/ FrontEnd

Spec == Init /\ [][Next]_vars

FairSpec == Spec /\ DriveFairness

-----------------------------------------------------------------------------
(* Properties *)

ListTypeOK ==
  /\ TypeOK
  /\ g_eject_state \in BOOLEAN
  /\ disc_cdif \in Seq(Discs \cup {NoDisc}) /\ Len(disc_cdif) <= MaxDiscs
  /\ g_current_disc \in 1..MaxDiscs
  /\ open \subseteq Discs
  /\ calls \in 0..MaxCalls

\* The drive never holds an image that has been closed, and when a phase that
\* reads from the image can take its next step there is one: a front end that
\* ejects before it replaces an image, and closes the tray before it loads
\* another game, is enough (disc.c, CDB_SetDisc).
Reading == SeekPhases \cup {"PLAY", "PAUSE", "STARTUP"}

HeldImageIsOpen ==
  /\ Cur_CDIF # NoDisc => Cur_CDIF \in open
  /\ DrivePhase \in Reading => Cur_CDIF # NoDisc

\* A disc is never read under the contents of another: once the drive is past
\* its startup, what the host was told of the disc is about the one inside,
\* however quickly the discs were swapped and whenever the tray was opened.
TocIsOfTheDisc ==
  DrivePhase \in SeekPhases \cup {"PLAY", "PAUSE", "STOPPED"} => TOC_Buffer = Cur_CDIF

\* The drive, under all swaps, delivers the plays it was asked for.
ImplementsPlayService == Promise!Spec

\* A play with an end ends: its interrupt comes, unless the play is cancelled or
\* superseded by an endless one, as long as the host takes the sectors.
PlayEnds ==
  (PlayEndIRQ /\ play.repeat # Forever)
    ~> (~PlayEndIRQ \/ play.repeat = Forever \/ Cur_CDIF = NoDisc)

\* A disc that is put in is noticed and its contents are read.
DiscIsRead == (Cur_CDIF # NoDisc) ~> (TOC_Buffer = Cur_CDIF \/ Cur_CDIF = NoDisc)
=============================================================================
