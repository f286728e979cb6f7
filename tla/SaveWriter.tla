----------------------------- MODULE SaveWriter -----------------------------
(* Battery-backed saves: mednafen/save_writer.c, its callers in             *)
(* mednafen/ss/ss.c and the frame loop's flush in libretro.c.               *)
(*                                                                          *)
(* A saver is a save file with the memory it holds (backup RAM, the         *)
(* cartridge's NV memory).  Bytes are abstracted to a version of that       *)
(* memory: every frame in which the game, or a loaded save state, changes   *)
(* it gives the next version.  The emulation thread (epc) runs frames,      *)
(* flushes what is dirty and closes the game; the writer thread (wpc)       *)
(* opens, writes and closes files.  The two queues are the waitable SPSC    *)
(* queue of module WaitableSpsc, used here as the bounded FIFO it           *)
(* implements.                                                              *)
EXTENDS Naturals, Sequences, Functions

CONSTANTS
  NoSaver,        \* no saver
  Order,          \* the savers, in the order the frame loop looks at them
  Jobs,           \* SAVE_WRITER_JOBS
  Interval,       \* SAVE_INTERVAL_FRAMES
  Retry,          \* RETRY_INTERVAL_FRAMES
  MaxVersion,     \* bound: changes of one saver's memory
  MaxFaults,      \* bound: opens, writes, allocations and thread starts that fail
  MaxGames        \* bound: games closed and loaded again

Savers == Range(Order)

ASSUME OrderAssumption ==
  Order \in Seq(Savers) /\ IsInjective(Order) /\ Len(Order) > 0 /\ NoSaver \notin Savers
ASSUME JobsAssumption == Jobs \in Nat \ {0}
ASSUME IntervalAssumption == Interval \in Nat /\ Retry \in 1..Interval
ASSUME BoundAssumption == MaxVersion \in Nat /\ MaxFaults \in Nat /\ MaxGames \in Nat

VARIABLES
  ram,          \* saver -> version its memory holds
  file,         \* saver -> version its file holds, or Torn
  dirty,        \* BackupRAM_Dirty, CartNV_Dirty
  counter,      \* bram_save_counter, cart_save_counter
  saveFailed,   \* BackupRAM_SaveFailed, CartNV_SaveFailed
  epc,          \* where the emulation thread is
  turn,         \* index in Order of the saver it is at
  closing,      \* it is in CloseGame
  wasFailed,    \* "failed" of the flush under way
  ejob,         \* the job it is submitting, or NoJob
  thread,       \* writer.thread is there
  jobs, done,   \* writer.jobs, writer.done
  out,          \* writer.out
  cancelled,    \* retro_waitable_spsc_cancel was called on writer.jobs
  wpc, wjob,    \* the writer: where it is, and the job in its hands
  faults, games \* failures and reloads so far

memory == <<ram, file, dirty, counter, saveFailed>>
emu == <<epc, turn, closing, wasFailed, ejob>>
queues == <<thread, jobs, done, out, cancelled>>
writer == <<wpc, wjob>>
vars == <<memory, emu, queues, writer, faults, games>>

Torn == MaxVersion + 1   \* opened for writing, which truncates, and not written whole
NoJob == [saver |-> NoSaver, version |-> 0, ok |-> FALSE]
JobSet == [saver : Savers, version : 0..MaxVersion, ok : BOOLEAN]

Saver == Order[turn]

MutPut(q, job) == IF Len(q) + 1 < Jobs THEN Append(q, job) ELSE q
\* A queue write that does not fit writes nothing: the job would be lost.
Put(q, job) == IF Len(q) < Jobs THEN Append(q, job) ELSE q

Init ==
  /\ ram = [s \in Savers |-> 0]
  /\ file = [s \in Savers |-> 0]
  /\ dirty = [s \in Savers |-> FALSE]
  /\ counter = [s \in Savers |-> 0]
  /\ saveFailed = [s \in Savers |-> FALSE]
  /\ epc = "frame" /\ turn = 1 /\ closing = FALSE /\ wasFailed = FALSE /\ ejob = NoJob
  /\ thread = FALSE /\ jobs = <<>> /\ done = <<>> /\ out = 0 /\ cancelled = FALSE
  /\ wpc = "none" /\ wjob = NoJob
  /\ faults = 0 /\ games = 0

-----------------------------------------------------------------------------
(* The emulation thread: frames and the frame loop's flush. *)

\* One pass of Emulate; @changed is what the game, or a state it loaded, wrote.
\* A simulated frame (run-ahead) skips the flush.
Emulate(changed, simulated) ==
  /\ epc = "frame"
  /\ \A s \in changed : ram[s] < MaxVersion
  /\ ram' = [s \in Savers |-> IF s \in changed THEN ram[s] + 1 ELSE ram[s]]
  /\ dirty' = [s \in Savers |-> dirty[s] \/ s \in changed]
  /\ epc' = IF simulated THEN "frame" ELSE "check"
  /\ turn' = 1
  /\ UNCHANGED <<file, counter, saveFailed, closing, wasFailed, ejob, queues, writer, faults, games>>

\* On to the next saver; after the last one, to @after.
NextSaver(same, after) ==
  IF turn < Len(Order) THEN epc' = same /\ turn' = turn + 1
                       ELSE epc' = after /\ turn' = 1

SkipClean ==
  /\ epc = "check" /\ ~dirty[Saver]
  /\ counter' = [counter EXCEPT ![Saver] = 0]
  /\ NextSaver("check", "frame")
  /\ UNCHANGED <<ram, file, dirty, saveFailed, closing, wasFailed, ejob, queues, writer, faults, games>>

CountDown ==
  /\ epc = "check" /\ dirty[Saver] /\ counter[Saver] + 1 < Interval
  /\ counter' = [counter EXCEPT ![Saver] = @ + 1]
  /\ NextSaver("check", "frame")
  /\ UNCHANGED <<ram, file, dirty, saveFailed, closing, wasFailed, ejob, queues, writer, faults, games>>

\* SS_FlushBackupRAM and SS_FlushCartNV, up to the save itself.
Flush ==
  /\ epc = "check" /\ dirty[Saver] /\ counter[Saver] + 1 >= Interval
  /\ counter' = [counter EXCEPT ![Saver] = @ + 1]
  /\ wasFailed' = saveFailed[Saver]
  /\ saveFailed' = [saveFailed EXCEPT ![Saver] = FALSE]
  /\ epc' = "save"
  /\ UNCHANGED <<ram, file, dirty, turn, closing, ejob, queues, writer, faults, games>>

MutDirtyAfter(d) == FALSE
\* What the flush leaves of the dirty flag: set when it reported a failure.
DirtyAfter(d) == IF wasFailed THEN d ELSE FALSE

\* The flush returns to the frame loop, or the save to CloseGame.
Saved ==
  /\ epc = "saved"
  /\ IF closing
     THEN /\ UNCHANGED <<dirty, counter>>
          /\ NextSaver("save", "drain")
     ELSE /\ dirty' = [dirty EXCEPT ![Saver] = DirtyAfter(@)]
          /\ counter' = [counter EXCEPT ![Saver] = IF wasFailed THEN Interval - Retry ELSE 0]
          /\ NextSaver("check", "frame")
  /\ UNCHANGED <<ram, file, saveFailed, closing, wasFailed, ejob, queues, writer, faults, games>>

-----------------------------------------------------------------------------
(* The emulation thread: SS_Save... and save_writer_submit. *)

\* No memory for the job: the failure is noted, and the flush goes on.
NoMemory ==
  /\ epc = "save" /\ faults < MaxFaults
  /\ saveFailed' = [saveFailed EXCEPT ![Saver] = TRUE]
  /\ faults' = faults + 1
  /\ epc' = "saved"
  /\ UNCHANGED <<ram, file, dirty, counter, turn, closing, wasFailed, ejob, queues, writer, games>>

Snapshot == [saver |-> Saver, version |-> ram[Saver], ok |-> FALSE]

MutNeedsStart == TRUE
\* The writer is started by the first save that finds it stopped.
NeedsStart == ~thread

SubmitToRunning ==
  /\ epc = "save" /\ thread
  /\ ejob' = Snapshot
  /\ epc' = "reap"
  /\ UNCHANGED <<memory, turn, closing, wasFailed, queues, writer, faults, games>>

StartWriter ==
  /\ epc = "save" /\ ~thread
  /\ ejob' = Snapshot
  /\ thread' = TRUE /\ jobs' = <<>> /\ done' = <<>> /\ out' = 0 /\ cancelled' = FALSE
  /\ wpc' = "wait"
  /\ epc' = "reap"
  /\ UNCHANGED <<memory, turn, closing, wasFailed, wjob, faults, games>>

\* A queue or the thread could not be had: the save is written here.
StartFails ==
  /\ epc = "save" /\ NeedsStart /\ faults < MaxFaults
  /\ ejob' = Snapshot
  /\ faults' = faults + 1
  /\ epc' = "write"
  /\ UNCHANGED <<memory, turn, closing, wasFailed, queues, writer, games>>

MutFinish(job) == UNCHANGED saveFailed
\* save_job_finish: the outcome reported to its saver.
Finish(job) ==
  saveFailed' = IF job.ok THEN saveFailed ELSE [saveFailed EXCEPT ![job.saver] = TRUE]

\* writer.out when one job has come back.
OutAfter == out - 1

Reap ==
  /\ done # <<>>
  /\ done' = Tail(done) /\ out' = OutAfter
  /\ Finish(Head(done))
  /\ UNCHANGED <<ram, file, dirty, counter, closing, wasFailed, ejob, thread, jobs, cancelled, writer, faults, games>>

\* save_writer_reap(false): what is back, finished.
ReapBack == epc = "reap" /\ out > 0 /\ Reap /\ UNCHANGED <<epc, turn>>

MutBehind == out > Jobs
Behind == out >= Jobs

ReapNoMore ==
  /\ epc = "reap" /\ (out = 0 \/ done = <<>>)
  /\ epc' = IF Behind THEN "behind" ELSE "hand"
  /\ UNCHANGED <<memory, turn, closing, wasFailed, ejob, queues, writer, faults, games>>

\* save_writer_reap_one: a whole queue is out, the oldest is waited for.
ReapOldest == epc = "behind" /\ Reap /\ epc' = "hand" /\ UNCHANGED turn

HandOver ==
  /\ epc = "hand"
  /\ out' = out + 1
  /\ jobs' = Put(jobs, ejob)
  /\ ejob' = NoJob
  /\ epc' = "saved"
  /\ UNCHANGED <<memory, turn, closing, wasFailed, thread, done, cancelled, writer, faults, games>>

\* save_job_run and save_job_finish on the emulation thread.
WriteHere(result) ==
  /\ epc = "write"
  /\ file' = [file EXCEPT ![ejob.saver] = IF result = "written" THEN ejob.version
                                          ELSE IF result = "torn" THEN Torn ELSE @]
  /\ IF result = "written" THEN UNCHANGED faults
                           ELSE faults < MaxFaults /\ faults' = faults + 1
  /\ Finish([ejob EXCEPT !.ok = (result = "written")])
  /\ ejob' = NoJob
  /\ epc' = "saved"
  /\ UNCHANGED <<ram, dirty, counter, turn, closing, wasFailed, queues, writer, games>>

-----------------------------------------------------------------------------
(* The emulation thread: CloseGame, save_writer_stop, and the next game. *)

CloseGame ==
  /\ epc = "frame"
  /\ closing' = TRUE
  /\ epc' = "save" /\ turn' = 1
  /\ UNCHANGED <<memory, wasFailed, ejob, queues, writer, faults, games>>

DrainOne == epc = "drain" /\ thread /\ out > 0 /\ Reap /\ UNCHANGED <<epc, turn>>

MutDrained == done = <<>>
Drained == out = 0

StopWriter ==
  /\ epc = "drain" /\ thread /\ Drained
  /\ cancelled' = TRUE
  /\ epc' = "join"
  /\ UNCHANGED <<memory, turn, closing, wasFailed, ejob, thread, jobs, done, out, writer, faults, games>>

NothingToStop ==
  /\ epc = "drain" /\ ~thread
  /\ epc' = "closed"
  /\ UNCHANGED <<memory, turn, closing, wasFailed, ejob, queues, writer, faults, games>>

JoinWriter ==
  /\ epc = "join" /\ wpc = "ended"
  /\ thread' = FALSE
  /\ wpc' = "none"
  /\ epc' = "closed"
  /\ UNCHANGED <<memory, turn, closing, wasFailed, ejob, jobs, done, out, cancelled, wjob, faults, games>>

\* The same content again.  The dirty flags are cleared; the counters and
\* saveFailed are statics nobody resets.
LoadGame ==
  /\ epc = "closed" /\ games < MaxGames
  /\ games' = games + 1
  /\ ram' = [s \in Savers |-> IF file[s] = Torn THEN 0 ELSE file[s]]
  /\ dirty' = [s \in Savers |-> FALSE]
  /\ closing' = FALSE
  /\ epc' = "frame"
  /\ UNCHANGED <<file, counter, saveFailed, turn, wasFailed, ejob, queues, writer, faults>>

-----------------------------------------------------------------------------
(* The writer: save_writer_thread and save_job_run. *)

WTake ==
  /\ wpc = "wait" /\ jobs # <<>>
  /\ wjob' = Head(jobs) /\ jobs' = Tail(jobs)
  /\ wpc' = "open"
  /\ UNCHANGED <<memory, emu, thread, done, out, cancelled, faults, games>>

MutSeesCancel == cancelled /\ out > 0
\* retro_waitable_spsc_cancelled, after a wait that found nothing to read.
SeesCancel == cancelled

WEnd ==
  /\ wpc = "wait" /\ jobs = <<>> /\ SeesCancel
  /\ wpc' = "ended"
  /\ UNCHANGED <<memory, emu, queues, wjob, faults, games>>

WOpen ==
  /\ wpc = "open"
  /\ file' = [file EXCEPT ![wjob.saver] = Torn]
  /\ wpc' = "write"
  /\ UNCHANGED <<ram, dirty, counter, saveFailed, emu, queues, wjob, faults, games>>

WOpenFails ==
  /\ wpc = "open" /\ faults < MaxFaults
  /\ faults' = faults + 1
  /\ wpc' = "back"
  /\ UNCHANGED <<memory, emu, queues, wjob, games>>

\* The write and the close.
WWrite ==
  /\ wpc = "write"
  /\ file' = [file EXCEPT ![wjob.saver] = wjob.version]
  /\ wjob' = [wjob EXCEPT !.ok = TRUE]
  /\ wpc' = "back"
  /\ UNCHANGED <<ram, dirty, counter, saveFailed, emu, queues, faults, games>>

\* A short write, or a close that fails (which may leave the file whole).
WWriteFails(whole) ==
  /\ wpc = "write" /\ faults < MaxFaults
  /\ faults' = faults + 1
  /\ file' = [file EXCEPT ![wjob.saver] = IF whole THEN wjob.version ELSE Torn]
  /\ wpc' = "back"
  /\ UNCHANGED <<ram, dirty, counter, saveFailed, emu, queues, wjob, games>>

WHandBack ==
  /\ wpc = "back"
  /\ done' = Put(done, wjob)
  /\ wjob' = NoJob
  /\ wpc' = "wait"
  /\ UNCHANGED <<memory, emu, thread, jobs, out, cancelled, faults, games>>

-----------------------------------------------------------------------------
Frame == \E changed \in SUBSET Savers, simulated \in BOOLEAN : Emulate(changed, simulated)

\* A frame whose saves are looked at: what the frontend keeps calling.
RealFrame == \E changed \in SUBSET Savers : Emulate(changed, FALSE)

EmuRuns ==
  \/ SkipClean \/ CountDown \/ Flush \/ Saved
  \/ NoMemory \/ SubmitToRunning \/ StartWriter \/ StartFails
  \/ ReapBack \/ ReapNoMore \/ ReapOldest \/ HandOver
  \/ \E result \in {"written", "torn", "unopened"} : WriteHere(result)
  \/ DrainOne \/ StopWriter \/ NothingToStop \/ JoinWriter

WriterRuns ==
  \/ WTake \/ WEnd \/ WOpen \/ WOpenFails \/ WWrite
  \/ \E whole \in BOOLEAN : WWriteFails(whole)
  \/ WHandBack

Next == Frame \/ EmuRuns \/ CloseGame \/ LoadGame \/ WriterRuns

Spec == Init /\ [][Next]_vars

\* Both threads keep running and the frontend keeps calling retro_run; it is
\* free never to close the game, or to load another.
FairSpec == Spec /\ WF_vars(EmuRuns) /\ WF_vars(RealFrame) /\ WF_vars(WriterRuns)
-----------------------------------------------------------------------------
(* Properties *)

Busy == wpc \in {"open", "write", "back"}

\* Every variable has its type; no more jobs are out than the queues hold.
TypeOK ==
  /\ ram \in [Savers -> 0..MaxVersion] /\ file \in [Savers -> 0..Torn]
  /\ dirty \in [Savers -> BOOLEAN] /\ saveFailed \in [Savers -> BOOLEAN]
  /\ counter \in [Savers -> 0..Interval]
  /\ epc \in {"frame", "check", "save", "saved", "reap", "behind", "hand", "write", "drain", "join", "closed"}
  /\ turn \in 1..Len(Order) /\ closing \in BOOLEAN /\ wasFailed \in BOOLEAN
  /\ ejob \in JobSet \cup {NoJob} /\ wjob \in JobSet \cup {NoJob}
  /\ thread \in BOOLEAN /\ cancelled \in BOOLEAN
  /\ jobs \in Seq(JobSet) /\ done \in Seq(JobSet)
  /\ out \in 0..Jobs
  /\ wpc \in {"none", "wait", "open", "write", "back", "ended"}
  /\ faults \in 0..MaxFaults /\ games \in 0..MaxGames

\* writer.out counts exactly the jobs waiting, in the writer's hands and
\* handed back: none is dropped by a full queue, none is finished twice.
JobsConserved ==
  thread => out = Len(jobs) + Len(done) + (IF Busy THEN 1 ELSE 0)

\* A save of @s as it is now is on its way, or came back failed and is not
\* yet looked at.
Pending(s) ==
  \E job \in {ejob, wjob} \cup Range(jobs) \cup Range(done) :
    job.saver = s /\ job.version = ram[s] /\ ~job.ok

\* What the game saved is never silently given up: the memory is in its file,
\* or still marked dirty, or on its way there, or its saver knows it failed.
NothingForgotten ==
  \A s \in Savers : file[s] = ram[s] \/ dirty[s] \/ saveFailed[s] \/ Pending(s)

\* The saves not yet written, oldest first.
Line ==
  (IF wpc \in {"open", "write"} THEN <<wjob>> ELSE <<>>) \o jobs
    \o (IF ejob = NoJob THEN <<>> ELSE <<ejob>>)

\* Saves of one memory reach its file in the order they were made, so no
\* file goes back to an older save.
SavesInOrder ==
  \A i \in 1..Len(Line) :
    LET job == Line[i] IN
      /\ job.version <= ram[job.saver]
      /\ file[job.saver] # Torn => file[job.saver] <= job.version
      /\ \A j \in i..Len(Line) : Line[j].saver = job.saver => job.version <= Line[j].version

\* CloseGame leaves no job and no thread behind, and each memory in its file
\* unless its saver knows of a failure: "every save on its disk before the
\* game's memory goes" (ss.c).
ClosedMeansSaved ==
  epc = "closed" =>
    /\ ~thread /\ wpc = "none" /\ jobs = <<>> /\ done = <<>>
    /\ \A s \in Savers : file[s] = ram[s] \/ saveFailed[s]

\* CloseGame ends: the writer hands everything back and sees the cancel.
CloseEnds == closing ~> epc = "closed"

\* A flush that reports a failure is followed by another one, or by the save
\* of CloseGame, whatever the game does.
ReportedFailureIsRetried ==
  \A i \in 1..Len(Order) :
    (epc = "saved" /\ turn = i /\ wasFailed /\ ~closing) ~> (epc = "save" /\ turn = i)

\* As long as nothing fails, everything the game writes gets into its file, or
\* the game is closed.
EverySaveLands ==
  \A s \in Savers, v \in 1..MaxVersion :
    ram[s] = v ~> (file[s] \in v..MaxVersion \/ closing \/ faults > 0)

\* ss.c says of a write that failed that "the flush reports it, so the frame
\* loop tries again": with finitely many failures the memory gets into its
\* file, or the game is closed.
FailedSaveIsRetried ==
  \A s \in Savers : file[s] # ram[s] ~> (file[s] = ram[s] \/ closing)
=============================================================================
