-------------------------- MODULE SaveWriterProofs --------------------------
(***************************************************************************)
(* No job of the save writer is dropped, no save silently given up, none   *)
(* overtaken by an older one, and all are seen to when the game is closed, *)
(* for any savers, queue size and intervals, whatever fails.               *)
(***************************************************************************)
EXTENDS SaveWriter, TLAPS

Submitting == epc \in {"reap", "behind", "hand", "write"}

(* TypeOK, by the kind of the variables. *)
NumTyped ==
  /\ ram \in [Savers -> 0..MaxVersion] /\ file \in [Savers -> 0..Torn]
  /\ counter \in [Savers -> 0..Interval]
FlagTyped ==
  /\ dirty \in [Savers -> BOOLEAN] /\ saveFailed \in [Savers -> BOOLEAN]
  /\ closing \in BOOLEAN /\ wasFailed \in BOOLEAN /\ thread \in BOOLEAN /\ cancelled \in BOOLEAN
JobTyped ==
  /\ ejob \in JobSet \cup {NoJob} /\ wjob \in JobSet \cup {NoJob}
  /\ jobs \in Seq(JobSet) /\ done \in Seq(JobSet)
PlaceTyped ==
  /\ epc \in {"frame", "check", "save", "saved", "reap", "behind", "hand", "write", "drain", "join", "closed"}
  /\ wpc \in {"none", "wait", "open", "write", "back", "ended"}
  /\ turn \in 1..Len(Order) /\ out \in 0..Jobs
  /\ faults \in 0..MaxFaults /\ games \in 0..MaxGames

(* The writer's thread exists exactly while it has a place to be at. *)
ThreadInv ==
  /\ thread => wpc # "none"
  /\ ~thread => wpc = "none"
  /\ epc \in {"reap", "behind", "hand", "join"} => thread

(* A thread that is at work holds a job, and there is room for the next. *)
HandsInv ==
  /\ Submitting => ejob \in JobSet
  /\ Busy => wjob \in JobSet
  /\ epc = "hand" => out < Jobs

(* A counter reaches its interval only in the flush that resets it. *)
CounterInv ==
  \A s \in Savers :
    counter[s] = Interval => ~closing /\ (Submitting \/ epc \in {"save", "saved"}) /\ s = Saver

(* The frame loop's pass over the savers is never part of CloseGame. *)
FrameInv == epc \in {"frame", "check"} => ~closing

IInv ==
  /\ NumTyped /\ FlagTyped /\ JobTyped /\ PlaceTyped
  /\ JobsConserved /\ ThreadInv /\ HandsInv /\ CounterInv /\ FrameInv

LEMMA TypeParts == TypeOK <=> NumTyped /\ FlagTyped /\ JobTyped /\ PlaceTyped
  BY Zenon DEF TypeOK, NumTyped, FlagTyped, JobTyped, PlaceTyped

LEMMA SaverTyped == PlaceTyped => Saver \in Savers
  BY OrderAssumption DEF PlaceTyped, Saver, Savers, Range

LEMMA InitIInv == Init => IInv
<1> SUFFICES ASSUME Init PROVE IInv
  OBVIOUS
<1> USE DEF Init
<1>1. NumTyped
  BY BoundAssumption, IntervalAssumption DEF NumTyped, Torn
<1>2. FlagTyped
  BY Zenon DEF FlagTyped
<1>3. JobTyped
  BY DEF JobTyped
<1>4. PlaceTyped
  BY OrderAssumption, JobsAssumption, BoundAssumption DEF PlaceTyped
<1>5. JobsConserved /\ ThreadInv /\ HandsInv /\ FrameInv
  BY DEF FrameInv, JobsConserved, ThreadInv, HandsInv, Submitting, Busy
<1>6. CounterInv
  <2>1. \A s \in Savers : counter[s] # Interval
    BY IntervalAssumption
  <2> QED BY <2>1 DEF CounterInv
<1> QED BY <1>1, <1>2, <1>3, <1>4, <1>5, <1>6 DEF IInv

(* Steps of the frame loop and of CloseGame that touch no job. *)
LEMMA FrameStep ==
  ASSUME IInv,
         \/ \E changed \in SUBSET Savers, simulated \in BOOLEAN : Emulate(changed, simulated)
         \/ SkipClean \/ CountDown \/ Flush \/ Saved \/ NoMemory \/ CloseGame \/ LoadGame
         \/ NothingToStop \/ StopWriter
  PROVE  IInv'
<1> USE OrderAssumption, JobsAssumption, IntervalAssumption, BoundAssumption, SaverTyped DEF IInv, memory, emu, queues, writer
<1>1. ASSUME NEW changed \in SUBSET Savers, NEW simulated \in BOOLEAN, Emulate(changed, simulated)
      PROVE  IInv'
  <2>1. NumTyped'
    BY <1>1 DEF Emulate, NumTyped
  <2>2. FlagTyped'
    BY <1>1 DEF Emulate, FlagTyped
  <2>3. JobTyped'
    BY <1>1 DEF Emulate, JobTyped
  <2>4. PlaceTyped'
    BY <1>1 DEF Emulate, PlaceTyped
  <2>5. JobsConserved'
    BY <1>1 DEF Emulate, JobsConserved, Busy
  <2>6. ThreadInv'
    BY <1>1 DEF Emulate, ThreadInv
  <2>7. HandsInv'
    BY <1>1 DEF Emulate, HandsInv, Submitting, Busy
  <2>8. CounterInv'
    BY <1>1 DEF Emulate, CounterInv, Submitting, Saver
  <2>9. FrameInv'
    BY <1>1 DEF Emulate, FrameInv
  <2> QED BY <2>1, <2>2, <2>3, <2>4, <2>5, <2>6, <2>7, <2>8, <2>9 DEF IInv
<1>2. CASE SkipClean
  <2>1. NumTyped'
    BY <1>2 DEF SkipClean, NextSaver, NumTyped
  <2>2. FlagTyped'
    BY <1>2 DEF SkipClean, NextSaver, FlagTyped
  <2>3. JobTyped'
    BY <1>2 DEF SkipClean, NextSaver, JobTyped
  <2>4. PlaceTyped'
    BY <1>2 DEF SkipClean, NextSaver, PlaceTyped
  <2>5. JobsConserved'
    BY <1>2 DEF SkipClean, NextSaver, JobsConserved, Busy
  <2>6. ThreadInv'
    BY <1>2 DEF SkipClean, NextSaver, ThreadInv
  <2>7. HandsInv'
    BY <1>2 DEF SkipClean, NextSaver, HandsInv, Submitting, Busy
  <2>8. CounterInv'
    BY <1>2 DEF SkipClean, NextSaver, CounterInv, Submitting, Saver
  <2>9. FrameInv'
    BY <1>2 DEF SkipClean, NextSaver, FrameInv
  <2> QED BY <2>1, <2>2, <2>3, <2>4, <2>5, <2>6, <2>7, <2>8, <2>9 DEF IInv
<1>3. CASE CountDown
  <2>1. NumTyped'
    BY <1>3 DEF CountDown, NextSaver, NumTyped
  <2>2. FlagTyped'
    BY <1>3 DEF CountDown, NextSaver, FlagTyped
  <2>3. JobTyped'
    BY <1>3 DEF CountDown, NextSaver, JobTyped
  <2>4. PlaceTyped'
    BY <1>3 DEF CountDown, NextSaver, PlaceTyped
  <2>5. JobsConserved'
    BY <1>3 DEF CountDown, NextSaver, JobsConserved, Busy
  <2>6. ThreadInv'
    BY <1>3 DEF CountDown, NextSaver, ThreadInv
  <2>7. HandsInv'
    BY <1>3 DEF CountDown, NextSaver, HandsInv, Submitting, Busy
  <2>8. CounterInv'
    BY <1>3 DEF CountDown, NextSaver, CounterInv, Submitting, Saver, NumTyped
  <2>9. FrameInv'
    BY <1>3 DEF CountDown, NextSaver, FrameInv
  <2> QED BY <2>1, <2>2, <2>3, <2>4, <2>5, <2>6, <2>7, <2>8, <2>9 DEF IInv
<1>4. CASE Flush
  <2>1. NumTyped'
    BY <1>4 DEF Flush, NumTyped, CounterInv, Submitting
  <2>2. FlagTyped'
    BY <1>4 DEF Flush, FlagTyped
  <2>3. JobTyped'
    BY <1>4 DEF Flush, JobTyped
  <2>4. PlaceTyped'
    BY <1>4 DEF Flush, PlaceTyped
  <2>5. JobsConserved'
    BY <1>4 DEF Flush, JobsConserved, Busy
  <2>6. ThreadInv'
    BY <1>4 DEF Flush, ThreadInv
  <2>7. HandsInv'
    BY <1>4 DEF Flush, HandsInv, Submitting, Busy
  <2>8. CounterInv'
    <3> SUFFICES ASSUME NEW s \in Savers, counter'[s] = Interval
                 PROVE  ~closing' /\ (Submitting \/ epc \in {"save", "saved"})' /\ s = Saver'
      BY DEF CounterInv
    <3>1. epc' = "save" /\ turn' = turn /\ closing' = closing /\ epc = "check" /\ Saver' = Saver
      BY <1>4 DEF Flush, Saver
    <3>2. s = Saver
      <4>1. CASE s # Saver
        BY <1>4, <3>1, <4>1 DEF Flush, CounterInv, NumTyped, Submitting
      <4> QED BY <4>1
    <3>3. ~closing
      BY <3>1 DEF FrameInv
    <3> QED BY <3>1, <3>2, <3>3
  <2>9. FrameInv'
    BY <1>4 DEF Flush, FrameInv
  <2> QED BY <2>1, <2>2, <2>3, <2>4, <2>5, <2>6, <2>7, <2>8, <2>9 DEF IInv
<1>5. CASE Saved
  <2>1. Interval - Retry \in 0..Interval /\ Interval - Retry # Interval /\ 0 # Interval /\ 0 \in 0..Interval
    OBVIOUS
  <2>2. Len(Order) \in Nat /\ 1 \in 1..Len(Order) /\ turn' \in 1..Len(Order) /\ epc = "saved"
        /\ (closing => epc' \in {"save", "drain"}) /\ (~closing => epc' \in {"check", "frame"})
        /\ UNCHANGED closing
    BY <1>5 DEF Saved, NextSaver, PlaceTyped
  <2>3. NumTyped'
    <3>1. counter' \in [Savers -> 0..Interval]
      <4>1. CASE closing
        BY <1>5, <4>1 DEF Saved, NumTyped
      <4>2. CASE ~closing
        BY <1>5, <2>1, <4>2 DEF Saved, NumTyped
      <4> QED BY <4>1, <4>2
    <3> QED BY <1>5, <3>1 DEF Saved, NumTyped
  <2>4. FlagTyped'
    BY <1>5, <2>1, <2>2 DEF Saved, NextSaver, DirtyAfter, FlagTyped
  <2>5. JobTyped'
    BY <1>5, <2>1, <2>2 DEF Saved, NextSaver, DirtyAfter, JobTyped
  <2>6. PlaceTyped'
    BY <1>5, <2>2 DEF Saved, PlaceTyped
  <2>7. JobsConserved'
    BY <1>5, <2>1, <2>2 DEF Saved, NextSaver, DirtyAfter, JobsConserved, Busy
  <2>8. ThreadInv'
    BY <1>5, <2>1, <2>2 DEF Saved, NextSaver, DirtyAfter, ThreadInv
  <2>9. HandsInv'
    BY <1>5, <2>1, <2>2 DEF Saved, NextSaver, DirtyAfter, HandsInv, Submitting, Busy
  <2>10. CounterInv'
    <3> SUFFICES ASSUME NEW s \in Savers PROVE counter'[s] # Interval
      BY DEF CounterInv
    <3>1. CASE closing
      BY <1>5, <3>1 DEF Saved, CounterInv
    <3>2. CASE ~closing
      <4>1. CASE s = Saver
        BY <1>5, <2>1, <3>2, <4>1 DEF Saved, NumTyped
      <4>2. CASE s # Saver
        BY <1>5, <3>2, <4>2 DEF Saved, NumTyped, CounterInv
      <4> QED BY <4>1, <4>2
    <3> QED BY <3>1, <3>2
  <2>11. FrameInv'
    BY <1>5, <2>1, <2>2 DEF Saved, NextSaver, DirtyAfter, FrameInv
  <2> QED BY <2>3, <2>4, <2>5, <2>6, <2>7, <2>8, <2>9, <2>10, <2>11 DEF IInv
<1>6. CASE NoMemory
  <2>1. NumTyped'
    BY <1>6 DEF NoMemory, NumTyped
  <2>2. FlagTyped'
    BY <1>6 DEF NoMemory, FlagTyped
  <2>3. JobTyped'
    BY <1>6 DEF NoMemory, JobTyped
  <2>4. PlaceTyped'
    BY <1>6 DEF NoMemory, PlaceTyped
  <2>5. JobsConserved'
    BY <1>6 DEF NoMemory, JobsConserved, Busy
  <2>6. ThreadInv'
    BY <1>6 DEF NoMemory, ThreadInv
  <2>7. HandsInv'
    BY <1>6 DEF NoMemory, HandsInv, Submitting, Busy
  <2>8. CounterInv'
    BY <1>6 DEF NoMemory, CounterInv, Submitting, Saver
  <2>9. FrameInv'
    BY <1>6 DEF NoMemory, FrameInv
  <2> QED BY <2>1, <2>2, <2>3, <2>4, <2>5, <2>6, <2>7, <2>8, <2>9 DEF IInv
<1>7. CASE CloseGame
  <2>1. NumTyped'
    BY <1>7 DEF CloseGame, NumTyped
  <2>2. FlagTyped'
    BY <1>7 DEF CloseGame, FlagTyped
  <2>3. JobTyped'
    BY <1>7 DEF CloseGame, JobTyped
  <2>4. PlaceTyped'
    BY <1>7 DEF CloseGame, PlaceTyped
  <2>5. JobsConserved'
    BY <1>7 DEF CloseGame, JobsConserved, Busy
  <2>6. ThreadInv'
    BY <1>7 DEF CloseGame, ThreadInv
  <2>7. HandsInv'
    BY <1>7 DEF CloseGame, HandsInv, Submitting, Busy
  <2>8. CounterInv'
    BY <1>7 DEF CloseGame, CounterInv, Submitting, Saver
  <2>9. FrameInv'
    BY <1>7 DEF CloseGame, FrameInv
  <2> QED BY <2>1, <2>2, <2>3, <2>4, <2>5, <2>6, <2>7, <2>8, <2>9 DEF IInv
<1>8. CASE LoadGame
  <2>1. NumTyped'
    BY <1>8 DEF LoadGame, NumTyped, Torn
  <2>2. FlagTyped'
    BY <1>8 DEF LoadGame, FlagTyped
  <2>3. JobTyped'
    BY <1>8 DEF LoadGame, JobTyped
  <2>4. PlaceTyped'
    BY <1>8 DEF LoadGame, PlaceTyped
  <2>5. JobsConserved'
    BY <1>8 DEF LoadGame, JobsConserved, Busy
  <2>6. ThreadInv'
    BY <1>8 DEF LoadGame, ThreadInv
  <2>7. HandsInv'
    BY <1>8 DEF LoadGame, HandsInv, Submitting, Busy
  <2>8. CounterInv'
    BY <1>8 DEF LoadGame, CounterInv, Submitting, Saver
  <2>9. FrameInv'
    BY <1>8 DEF LoadGame, FrameInv
  <2> QED BY <2>1, <2>2, <2>3, <2>4, <2>5, <2>6, <2>7, <2>8, <2>9 DEF IInv
<1>9. CASE NothingToStop
  <2>1. NumTyped'
    BY <1>9 DEF NothingToStop, NumTyped
  <2>2. FlagTyped'
    BY <1>9 DEF NothingToStop, FlagTyped
  <2>3. JobTyped'
    BY <1>9 DEF NothingToStop, JobTyped
  <2>4. PlaceTyped'
    BY <1>9 DEF NothingToStop, PlaceTyped
  <2>5. JobsConserved'
    BY <1>9 DEF NothingToStop, JobsConserved, Busy
  <2>6. ThreadInv'
    BY <1>9 DEF NothingToStop, ThreadInv
  <2>7. HandsInv'
    BY <1>9 DEF NothingToStop, HandsInv, Submitting, Busy
  <2>8. CounterInv'
    BY <1>9 DEF NothingToStop, CounterInv, Submitting, Saver
  <2>9. FrameInv'
    BY <1>9 DEF NothingToStop, FrameInv
  <2> QED BY <2>1, <2>2, <2>3, <2>4, <2>5, <2>6, <2>7, <2>8, <2>9 DEF IInv
<1>10. CASE StopWriter
  <2>1. NumTyped'
    BY <1>10 DEF StopWriter, NumTyped
  <2>2. FlagTyped'
    BY <1>10 DEF StopWriter, FlagTyped
  <2>3. JobTyped'
    BY <1>10 DEF StopWriter, JobTyped
  <2>4. PlaceTyped'
    BY <1>10 DEF StopWriter, PlaceTyped
  <2>5. JobsConserved'
    BY <1>10 DEF StopWriter, JobsConserved, Busy
  <2>6. ThreadInv'
    BY <1>10 DEF StopWriter, ThreadInv
  <2>7. HandsInv'
    BY <1>10 DEF StopWriter, HandsInv, Submitting, Busy
  <2>8. CounterInv'
    BY <1>10 DEF StopWriter, CounterInv, Submitting, Saver
  <2>9. FrameInv'
    BY <1>10 DEF StopWriter, FrameInv
  <2> QED BY <2>1, <2>2, <2>3, <2>4, <2>5, <2>6, <2>7, <2>8, <2>9 DEF IInv
<1> QED BY <1>1, <1>2, <1>3, <1>4, <1>5, <1>6, <1>7, <1>8, <1>9, <1>10

(* Steps that make a job and hand it over. *)
LEMMA SubmitStep ==
  ASSUME IInv,
         \/ SubmitToRunning \/ StartWriter \/ StartFails \/ ReapNoMore \/ HandOver
         \/ \E result \in {"written", "torn", "unopened"} : WriteHere(result)
         \/ JoinWriter
  PROVE  IInv'
<1> USE OrderAssumption, JobsAssumption, IntervalAssumption, BoundAssumption, SaverTyped DEF IInv, memory, emu, queues, writer
<1>1. CASE SubmitToRunning
  <2>1. Snapshot \in JobSet
    BY <1>1 DEF Snapshot, JobSet, NumTyped, SubmitToRunning
  <2>2. NumTyped'
    BY <1>1, <2>1 DEF SubmitToRunning, NumTyped
  <2>3. FlagTyped'
    BY <1>1, <2>1 DEF SubmitToRunning, FlagTyped
  <2>4. JobTyped'
    BY <1>1, <2>1 DEF SubmitToRunning, JobTyped
  <2>5. PlaceTyped'
    BY <1>1, <2>1 DEF SubmitToRunning, PlaceTyped
  <2>6. JobsConserved'
    BY <1>1, <2>1 DEF SubmitToRunning, JobsConserved, Busy
  <2>7. ThreadInv'
    BY <1>1, <2>1 DEF SubmitToRunning, ThreadInv
  <2>8. HandsInv'
    BY <1>1, <2>1 DEF SubmitToRunning, HandsInv, Submitting, Busy
  <2>9. CounterInv'
    BY <1>1, <2>1 DEF SubmitToRunning, CounterInv, Submitting, Saver
  <2>10. FrameInv'
    BY <1>1, <2>1 DEF SubmitToRunning, FrameInv
  <2> QED BY <2>2, <2>3, <2>4, <2>5, <2>6, <2>7, <2>8, <2>9, <2>10 DEF IInv
<1>2. CASE StartWriter
  <2>1. Snapshot \in JobSet
    BY <1>2 DEF Snapshot, JobSet, NumTyped, StartWriter
  <2>2. NumTyped'
    BY <1>2, <2>1 DEF StartWriter, NumTyped
  <2>3. FlagTyped'
    BY <1>2, <2>1 DEF StartWriter, FlagTyped
  <2>4. JobTyped'
    BY <1>2, <2>1 DEF StartWriter, JobTyped
  <2>5. PlaceTyped'
    BY <1>2, <2>1 DEF StartWriter, PlaceTyped
  <2>6. JobsConserved'
    BY <1>2, <2>1 DEF StartWriter, JobsConserved, Busy
  <2>7. ThreadInv'
    BY <1>2, <2>1 DEF StartWriter, ThreadInv
  <2>8. HandsInv'
    BY <1>2, <2>1 DEF StartWriter, HandsInv, Submitting, Busy
  <2>9. CounterInv'
    BY <1>2, <2>1 DEF StartWriter, CounterInv, Submitting, Saver
  <2>10. FrameInv'
    BY <1>2, <2>1 DEF StartWriter, FrameInv
  <2> QED BY <2>2, <2>3, <2>4, <2>5, <2>6, <2>7, <2>8, <2>9, <2>10 DEF IInv
<1>3. CASE StartFails
  <2>1. Snapshot \in JobSet
    BY <1>3 DEF Snapshot, JobSet, NumTyped, StartFails
  <2>2. NumTyped'
    BY <1>3, <2>1 DEF StartFails, NeedsStart, NumTyped
  <2>3. FlagTyped'
    BY <1>3, <2>1 DEF StartFails, NeedsStart, FlagTyped
  <2>4. JobTyped'
    BY <1>3, <2>1 DEF StartFails, NeedsStart, JobTyped
  <2>5. PlaceTyped'
    BY <1>3, <2>1 DEF StartFails, NeedsStart, PlaceTyped
  <2>6. JobsConserved'
    BY <1>3, <2>1 DEF StartFails, NeedsStart, JobsConserved, Busy
  <2>7. ThreadInv'
    BY <1>3, <2>1 DEF StartFails, NeedsStart, ThreadInv
  <2>8. HandsInv'
    BY <1>3, <2>1 DEF StartFails, NeedsStart, HandsInv, Submitting, Busy
  <2>9. CounterInv'
    BY <1>3, <2>1 DEF StartFails, NeedsStart, CounterInv, Submitting, Saver
  <2>10. FrameInv'
    BY <1>3, <2>1 DEF StartFails, NeedsStart, FrameInv
  <2> QED BY <2>2, <2>3, <2>4, <2>5, <2>6, <2>7, <2>8, <2>9, <2>10 DEF IInv
<1>4. CASE ReapNoMore
  <2>1. NumTyped'
    BY <1>4 DEF ReapNoMore, Behind, NumTyped
  <2>2. FlagTyped'
    BY <1>4 DEF ReapNoMore, Behind, FlagTyped
  <2>3. JobTyped'
    BY <1>4 DEF ReapNoMore, Behind, JobTyped
  <2>4. PlaceTyped'
    BY <1>4 DEF ReapNoMore, Behind, PlaceTyped
  <2>5. JobsConserved'
    BY <1>4 DEF ReapNoMore, Behind, JobsConserved, Busy
  <2>6. ThreadInv'
    BY <1>4 DEF ReapNoMore, Behind, ThreadInv
  <2>7. HandsInv'
    BY <1>4 DEF ReapNoMore, Behind, HandsInv, Submitting, Busy, PlaceTyped
  <2>8. CounterInv'
    BY <1>4 DEF ReapNoMore, Behind, CounterInv, Submitting, Saver
  <2>9. FrameInv'
    BY <1>4 DEF ReapNoMore, Behind, FrameInv
  <2> QED BY <2>1, <2>2, <2>3, <2>4, <2>5, <2>6, <2>7, <2>8, <2>9 DEF IInv
<1>5. CASE HandOver
  <2>1. Len(jobs) < Jobs /\ thread
    BY <1>5 DEF HandOver, JobTyped, PlaceTyped, JobsConserved, ThreadInv, HandsInv
  <2>2. jobs' = Append(jobs, ejob) /\ jobs' \in Seq(JobSet) /\ Len(jobs') = Len(jobs) + 1
    BY <1>5, <2>1 DEF HandOver, Put, JobTyped, HandsInv, Submitting
  <2>3. NumTyped'
    BY <1>5, <2>1, <2>2 DEF HandOver, NumTyped
  <2>4. FlagTyped'
    BY <1>5, <2>1, <2>2 DEF HandOver, FlagTyped
  <2>5. JobTyped'
    BY <1>5, <2>1, <2>2 DEF HandOver, JobTyped
  <2>6. PlaceTyped'
    BY <1>5, <2>1, <2>2 DEF HandOver, PlaceTyped, HandsInv
  <2>7. JobsConserved'
    BY <1>5, <2>1, <2>2 DEF HandOver, JobsConserved, Busy, PlaceTyped, JobTyped
  <2>8. ThreadInv'
    BY <1>5, <2>1, <2>2 DEF HandOver, ThreadInv
  <2>9. HandsInv'
    BY <1>5, <2>1, <2>2 DEF HandOver, HandsInv, Submitting, Busy
  <2>10. CounterInv'
    BY <1>5, <2>1, <2>2 DEF HandOver, CounterInv, Submitting, Saver
  <2>11. FrameInv'
    BY <1>5, <2>1, <2>2 DEF HandOver, FrameInv
  <2> QED BY <2>3, <2>4, <2>5, <2>6, <2>7, <2>8, <2>9, <2>10, <2>11 DEF IInv
<1>6. ASSUME NEW result \in {"written", "torn", "unopened"}, WriteHere(result)
      PROVE  IInv'
  <2>1. ejob.saver \in Savers /\ ejob.version \in 0..Torn /\ Torn \in 0..Torn
    BY <1>6 DEF WriteHere, HandsInv, Submitting, JobSet, Torn
  <2>2. NumTyped'
    BY <1>6, <2>1 DEF WriteHere, NumTyped
  <2>3. FlagTyped'
    BY <1>6, <2>1 DEF WriteHere, FlagTyped, Finish
  <2>4. JobTyped'
    BY <1>6, <2>1 DEF WriteHere, JobTyped
  <2>5. PlaceTyped'
    BY <1>6, <2>1 DEF WriteHere, PlaceTyped
  <2>6. JobsConserved'
    BY <1>6, <2>1 DEF WriteHere, JobsConserved, Busy
  <2>7. ThreadInv'
    BY <1>6, <2>1 DEF WriteHere, ThreadInv
  <2>8. HandsInv'
    BY <1>6, <2>1 DEF WriteHere, HandsInv, Submitting, Busy
  <2>9. CounterInv'
    BY <1>6, <2>1 DEF WriteHere, CounterInv, Submitting, Saver
  <2>10. FrameInv'
    BY <1>6, <2>1 DEF WriteHere, FrameInv
  <2> QED BY <2>2, <2>3, <2>4, <2>5, <2>6, <2>7, <2>8, <2>9, <2>10 DEF IInv
<1>7. CASE JoinWriter
  <2>1. NumTyped'
    BY <1>7 DEF JoinWriter, NumTyped
  <2>2. FlagTyped'
    BY <1>7 DEF JoinWriter, FlagTyped
  <2>3. JobTyped'
    BY <1>7 DEF JoinWriter, JobTyped
  <2>4. PlaceTyped'
    BY <1>7 DEF JoinWriter, PlaceTyped
  <2>5. JobsConserved'
    BY <1>7 DEF JoinWriter, JobsConserved, Busy
  <2>6. ThreadInv'
    BY <1>7 DEF JoinWriter, ThreadInv
  <2>7. HandsInv'
    BY <1>7 DEF JoinWriter, HandsInv, Submitting, Busy
  <2>8. CounterInv'
    BY <1>7 DEF JoinWriter, CounterInv, Submitting, Saver
  <2>9. FrameInv'
    BY <1>7 DEF JoinWriter, FrameInv
  <2> QED BY <2>1, <2>2, <2>3, <2>4, <2>5, <2>6, <2>7, <2>8, <2>9 DEF IInv
<1> QED BY <1>1, <1>2, <1>3, <1>4, <1>5, <1>6, <1>7

(* Steps that take a finished job back. *)
LEMMA ReapStep ==
  ASSUME IInv, ReapBack \/ ReapOldest \/ DrainOne
  PROVE  IInv'
<1> USE OrderAssumption, JobsAssumption, IntervalAssumption, BoundAssumption DEF IInv, writer
<1>1. Reap /\ thread /\ UNCHANGED turn
  BY DEF ReapBack, ReapOldest, DrainOne, ThreadInv
<1>2. Head(done) \in JobSet /\ Tail(done) \in Seq(JobSet) /\ Len(Tail(done)) = Len(done) - 1 /\ Len(done) > 0
  BY <1>1 DEF Reap, JobTyped
<1>3. epc' \in {"reap", "hand", "drain"} /\ epc \in {"reap", "behind", "drain"}
      /\ (epc = "drain" => epc' = "drain") /\ (epc' = "drain" => epc = "drain")
  BY DEF ReapBack, ReapOldest, DrainOne
<1>4. out > 0 /\ out' = out - 1 /\ out' \in 0..Jobs /\ out' < Jobs
  BY <1>1, <1>2 DEF Reap, OutAfter, PlaceTyped, JobTyped, JobsConserved
<1>5. NumTyped'
  BY <1>1 DEF Reap, NumTyped
<1>6. FlagTyped'
  <2>1. saveFailed' \in [Savers -> BOOLEAN]
    BY <1>1, <1>2 DEF Reap, Finish, FlagTyped, JobSet
  <2> QED BY <1>1, <2>1, Zenon DEF Reap, FlagTyped
<1>7. JobTyped'
  BY <1>1, <1>2 DEF Reap, JobTyped
<1>8. PlaceTyped'
  BY <1>1, <1>3, <1>4 DEF Reap, PlaceTyped
<1>9. JobsConserved'
  BY <1>1, <1>2, <1>4 DEF Reap, JobsConserved, Busy, JobTyped, PlaceTyped
<1>10. ThreadInv' /\ HandsInv'
  BY <1>1, <1>3, <1>4 DEF Reap, ThreadInv, HandsInv, Submitting, Busy
<1>11. CounterInv'
  BY <1>1, <1>3 DEF Reap, CounterInv, Submitting, Saver
<1>12. FrameInv'
  BY <1>1, <1>3 DEF Reap, FrameInv
<1> QED BY <1>5, <1>6, <1>7, <1>8, <1>9, <1>10, <1>11, <1>12

(* The writer's steps. *)
LEMMA WriterStep ==
  ASSUME IInv,
         WriterRuns
  PROVE  IInv'
<1> USE OrderAssumption, JobsAssumption, IntervalAssumption, BoundAssumption, SaverTyped DEF IInv, memory, emu, queues, writer
<1>1. CASE WTake
  <2>1. Head(jobs) \in JobSet /\ Tail(jobs) \in Seq(JobSet) /\ Len(Tail(jobs)) = Len(jobs) - 1
    BY <1>1 DEF WTake, JobTyped
  <2>2. NumTyped'
    BY <1>1, <2>1 DEF WTake, NumTyped
  <2>3. FlagTyped'
    BY <1>1, <2>1 DEF WTake, FlagTyped
  <2>4. JobTyped'
    BY <1>1, <2>1 DEF WTake, JobTyped
  <2>5. PlaceTyped'
    BY <1>1, <2>1 DEF WTake, PlaceTyped
  <2>6. JobsConserved'
    BY <1>1, <2>1 DEF WTake, JobsConserved, Busy, JobTyped, PlaceTyped
  <2>7. ThreadInv'
    BY <1>1, <2>1 DEF WTake, ThreadInv
  <2>8. HandsInv'
    BY <1>1, <2>1 DEF WTake, HandsInv, Submitting, Busy
  <2>9. CounterInv'
    BY <1>1, <2>1 DEF WTake, CounterInv, Submitting, Saver
  <2>10. FrameInv'
    BY <1>1, <2>1 DEF WTake, FrameInv
  <2> QED BY <2>2, <2>3, <2>4, <2>5, <2>6, <2>7, <2>8, <2>9, <2>10 DEF IInv
<1>2. CASE WEnd
  <2>1. NumTyped'
    BY <1>2 DEF WEnd, NumTyped
  <2>2. FlagTyped'
    BY <1>2 DEF WEnd, FlagTyped
  <2>3. JobTyped'
    BY <1>2 DEF WEnd, JobTyped
  <2>4. PlaceTyped'
    BY <1>2 DEF WEnd, PlaceTyped
  <2>5. JobsConserved'
    BY <1>2 DEF WEnd, JobsConserved, Busy
  <2>6. ThreadInv'
    BY <1>2 DEF WEnd, ThreadInv
  <2>7. HandsInv'
    BY <1>2 DEF WEnd, HandsInv, Submitting, Busy
  <2>8. CounterInv'
    BY <1>2 DEF WEnd, CounterInv, Submitting, Saver
  <2>9. FrameInv'
    BY <1>2 DEF WEnd, FrameInv
  <2> QED BY <2>1, <2>2, <2>3, <2>4, <2>5, <2>6, <2>7, <2>8, <2>9 DEF IInv
<1>3. CASE WOpen
  <2>1. wjob.saver \in Savers /\ wjob.version \in 0..Torn /\ Torn \in 0..Torn /\ [wjob EXCEPT !.ok = TRUE] \in JobSet
    <3>1. wjob \in JobSet
      BY <1>3 DEF WOpen, HandsInv, Busy
    <3>2. wjob.saver \in Savers /\ wjob.version \in 0..MaxVersion /\ [wjob EXCEPT !.ok = TRUE] \in JobSet
      BY <3>1, Zenon DEF JobSet
    <3> QED BY <3>2 DEF Torn
  <2>2. NumTyped'
    BY <1>3, <2>1 DEF WOpen, NumTyped
  <2>3. FlagTyped'
    BY <1>3, <2>1 DEF WOpen, FlagTyped
  <2>4. JobTyped'
    BY <1>3, <2>1 DEF WOpen, JobTyped
  <2>5. PlaceTyped'
    BY <1>3, <2>1 DEF WOpen, PlaceTyped
  <2>6. JobsConserved'
    BY <1>3, <2>1 DEF WOpen, JobsConserved, Busy
  <2>7. ThreadInv'
    BY <1>3, <2>1 DEF WOpen, ThreadInv
  <2>8. HandsInv'
    BY <1>3, <2>1 DEF WOpen, HandsInv, Submitting, Busy
  <2>9. CounterInv'
    BY <1>3, <2>1 DEF WOpen, CounterInv, Submitting, Saver
  <2>10. FrameInv'
    BY <1>3, <2>1 DEF WOpen, FrameInv
  <2> QED BY <2>2, <2>3, <2>4, <2>5, <2>6, <2>7, <2>8, <2>9, <2>10 DEF IInv
<1>4. CASE WOpenFails
  <2>1. NumTyped'
    BY <1>4 DEF WOpenFails, NumTyped
  <2>2. FlagTyped'
    BY <1>4 DEF WOpenFails, FlagTyped
  <2>3. JobTyped'
    BY <1>4 DEF WOpenFails, JobTyped
  <2>4. PlaceTyped'
    BY <1>4 DEF WOpenFails, PlaceTyped
  <2>5. JobsConserved'
    BY <1>4 DEF WOpenFails, JobsConserved, Busy
  <2>6. ThreadInv'
    BY <1>4 DEF WOpenFails, ThreadInv
  <2>7. HandsInv'
    BY <1>4 DEF WOpenFails, HandsInv, Submitting, Busy
  <2>8. CounterInv'
    BY <1>4 DEF WOpenFails, CounterInv, Submitting, Saver
  <2>9. FrameInv'
    BY <1>4 DEF WOpenFails, FrameInv
  <2> QED BY <2>1, <2>2, <2>3, <2>4, <2>5, <2>6, <2>7, <2>8, <2>9 DEF IInv
<1>5. CASE WWrite
  <2>1. wjob.saver \in Savers /\ wjob.version \in 0..Torn /\ Torn \in 0..Torn /\ [wjob EXCEPT !.ok = TRUE] \in JobSet
    <3>1. wjob \in JobSet
      BY <1>5 DEF WWrite, HandsInv, Busy
    <3>2. wjob.saver \in Savers /\ wjob.version \in 0..MaxVersion /\ [wjob EXCEPT !.ok = TRUE] \in JobSet
      BY <3>1, Zenon DEF JobSet
    <3> QED BY <3>2 DEF Torn
  <2>2. NumTyped'
    BY <1>5, <2>1 DEF WWrite, NumTyped
  <2>3. FlagTyped'
    BY <1>5, <2>1 DEF WWrite, FlagTyped
  <2>4. JobTyped'
    BY <1>5, <2>1 DEF WWrite, JobTyped
  <2>5. PlaceTyped'
    BY <1>5, <2>1 DEF WWrite, PlaceTyped
  <2>6. JobsConserved'
    BY <1>5, <2>1 DEF WWrite, JobsConserved, Busy
  <2>7. ThreadInv'
    BY <1>5, <2>1 DEF WWrite, ThreadInv
  <2>8. HandsInv'
    BY <1>5, <2>1 DEF WWrite, HandsInv, Submitting, Busy
  <2>9. CounterInv'
    BY <1>5, <2>1 DEF WWrite, CounterInv, Submitting, Saver
  <2>10. FrameInv'
    BY <1>5, <2>1 DEF WWrite, FrameInv
  <2> QED BY <2>2, <2>3, <2>4, <2>5, <2>6, <2>7, <2>8, <2>9, <2>10 DEF IInv
<1>6. ASSUME NEW whole \in BOOLEAN, WWriteFails(whole)
      PROVE  IInv'
  <2>1. wjob.saver \in Savers /\ wjob.version \in 0..Torn /\ Torn \in 0..Torn /\ [wjob EXCEPT !.ok = TRUE] \in JobSet
    <3>1. wjob \in JobSet
      BY <1>6 DEF WWriteFails, HandsInv, Busy
    <3>2. wjob.saver \in Savers /\ wjob.version \in 0..MaxVersion /\ [wjob EXCEPT !.ok = TRUE] \in JobSet
      BY <3>1, Zenon DEF JobSet
    <3> QED BY <3>2 DEF Torn
  <2>2. NumTyped'
    BY <1>6, <2>1 DEF WWriteFails, NumTyped
  <2>3. FlagTyped'
    BY <1>6, <2>1 DEF WWriteFails, FlagTyped
  <2>4. JobTyped'
    BY <1>6, <2>1 DEF WWriteFails, JobTyped
  <2>5. PlaceTyped'
    BY <1>6, <2>1 DEF WWriteFails, PlaceTyped
  <2>6. JobsConserved'
    BY <1>6, <2>1 DEF WWriteFails, JobsConserved, Busy
  <2>7. ThreadInv'
    BY <1>6, <2>1 DEF WWriteFails, ThreadInv
  <2>8. HandsInv'
    BY <1>6, <2>1 DEF WWriteFails, HandsInv, Submitting, Busy
  <2>9. CounterInv'
    BY <1>6, <2>1 DEF WWriteFails, CounterInv, Submitting, Saver
  <2>10. FrameInv'
    BY <1>6, <2>1 DEF WWriteFails, FrameInv
  <2> QED BY <2>2, <2>3, <2>4, <2>5, <2>6, <2>7, <2>8, <2>9, <2>10 DEF IInv
<1>7. CASE WHandBack
  <2>1. thread /\ Len(done) < Jobs /\ wjob \in JobSet
    BY <1>7 DEF WHandBack, PlaceTyped, JobTyped, JobsConserved, ThreadInv, HandsInv, Busy
  <2>2. done' = Append(done, wjob) /\ done' \in Seq(JobSet) /\ Len(done') = Len(done) + 1
    BY <1>7, <2>1 DEF WHandBack, Put, JobTyped
  <2>3. NumTyped'
    BY <1>7, <2>1, <2>2 DEF WHandBack, NumTyped
  <2>4. FlagTyped'
    BY <1>7, <2>1, <2>2 DEF WHandBack, FlagTyped
  <2>5. JobTyped'
    BY <1>7, <2>1, <2>2 DEF WHandBack, JobTyped
  <2>6. PlaceTyped'
    BY <1>7, <2>1, <2>2 DEF WHandBack, PlaceTyped
  <2>7. JobsConserved'
    BY <1>7, <2>1, <2>2 DEF WHandBack, JobsConserved, Busy, JobTyped, PlaceTyped
  <2>8. ThreadInv'
    BY <1>7, <2>1, <2>2 DEF WHandBack, ThreadInv
  <2>9. HandsInv'
    BY <1>7, <2>1, <2>2 DEF WHandBack, HandsInv, Submitting, Busy
  <2>10. CounterInv'
    BY <1>7, <2>1, <2>2 DEF WHandBack, CounterInv, Submitting, Saver
  <2>11. FrameInv'
    BY <1>7, <2>1, <2>2 DEF WHandBack, FrameInv
  <2> QED BY <2>3, <2>4, <2>5, <2>6, <2>7, <2>8, <2>9, <2>10, <2>11 DEF IInv
<1> QED BY <1>1, <1>2, <1>3, <1>4, <1>5, <1>6, <1>7 DEF WriterRuns

LEMMA StepIInv == IInv /\ [Next]_vars => IInv'
<1> SUFFICES ASSUME IInv, [Next]_vars PROVE IInv'
  OBVIOUS
<1>1. CASE Next
  BY <1>1, FrameStep, SubmitStep, ReapStep, WriterStep DEF Next, Frame, EmuRuns
<1>2. CASE UNCHANGED vars
  BY <1>2 DEF vars, memory, emu, queues, writer, IInv, NumTyped, FlagTyped, JobTyped, PlaceTyped,
              JobsConserved, ThreadInv, HandsInv, CounterInv, FrameInv, Submitting, Busy, Saver
<1> QED BY <1>1, <1>2

(* Every variable keeps its type; in particular writer.out never passes the *)
(* size of the queues.                                                      *)
THEOREM TypeCorrect == Spec => []TypeOK
<1>1. IInv => TypeOK
  BY TypeParts DEF IInv
<1> QED BY InitIInv, StepIInv, <1>1, PTL DEF Spec

(* writer.out is the number of jobs in the two queues and the writer's      *)
(* hands: save_writer.c's "the writer's hand-back never finds its queue     *)
(* full".                                                                   *)
THEOREM JobsConservedHolds == Spec => []JobsConserved
<1>1. IInv => JobsConserved
  BY DEF IInv
<1> QED BY InitIInv, StepIInv, <1>1, PTL DEF Spec

-----------------------------------------------------------------------------
(* What the saves hold. *)

InHands == wpc \in {"open", "write"}

(* The job in the emulation thread's hands is the memory as it is. *)
EjobInv ==
  /\ Submitting => ejob = Snapshot
  /\ ~Submitting => ejob = NoJob

(* What is left where: no job without a thread, none once it is joined. *)
StopInv ==
  /\ ~Busy => wjob = NoJob
  /\ thread /\ cancelled => epc = "join"
  /\ epc = "join" => out = 0
  /\ wpc = "ended" => cancelled
  /\ ~thread => jobs = <<>> /\ done = <<>>
  /\ epc \in {"write", "closed"} => ~thread
  /\ epc \in {"drain", "join", "closed"} => closing

(* A job not yet written is no older than its file and no newer than its memory. *)
Fresh(job) ==
  /\ job.version <= ram[job.saver] /\ job.ok = FALSE
  /\ file[job.saver] # Torn => file[job.saver] <= job.version

(* The jobs not yet written stand in the order of their versions. *)
OrderInv ==
  /\ \A s \in Savers : file[s] # Torn => file[s] <= ram[s]
  /\ InHands => Fresh(wjob)
  /\ \A i \in DOMAIN jobs : Fresh(jobs[i])
  /\ InHands => \A i \in DOMAIN jobs : jobs[i].saver = wjob.saver => wjob.version <= jobs[i].version
  /\ \A i, j \in DOMAIN jobs : i < j /\ jobs[i].saver = jobs[j].saver => jobs[i].version <= jobs[j].version

(* The savers of whom nothing is lost even if they are not marked dirty. *)
Held == {ejob, wjob} \cup Range(jobs) \cup Range(done)
CleanSavers == {s \in Savers : file[s] = ram[s] \/ saveFailed[s] \/ Pending(s)}

(* A saver that has been seen to, in a flush or by CloseGame, is clean. *)
PassedInv ==
  /\ epc = "saved" => Saver \in CleanSavers
  /\ closing => \A i \in 1..Len(Order) :
       i < turn \/ epc \in {"drain", "join", "closed"} => Order[i] \in CleanSavers

SInv == IInv /\ EjobInv /\ StopInv /\ OrderInv /\ PassedInv /\ NothingForgotten

LEMMA RangeAppend ==
  ASSUME NEW S, NEW q \in Seq(S), NEW e \in S
  PROVE  Range(Append(q, e)) = Range(q) \cup {e}
<1>1. \A i \in DOMAIN Append(q, e) : Append(q, e)[i] \in Range(q) \cup {e}
  BY DEF Range
<1>2. \A i \in DOMAIN q : q[i] = Append(q, e)[i] /\ i \in DOMAIN Append(q, e)
  OBVIOUS
<1>3. e = Append(q, e)[Len(q) + 1] /\ Len(q) + 1 \in DOMAIN Append(q, e)
  OBVIOUS
<1> QED BY <1>1, <1>2, <1>3, Zenon DEF Range

LEMMA RangeTail ==
  ASSUME NEW S, NEW q \in Seq(S), q # <<>>
  PROVE  Range(q) = Range(Tail(q)) \cup {Head(q)}
<1>1. \A i \in DOMAIN Tail(q) : Tail(q)[i] = q[i + 1] /\ i + 1 \in DOMAIN q
  OBVIOUS
<1>2. Head(q) = q[1] /\ 1 \in DOMAIN q
  OBVIOUS
<1>3. \A i \in DOMAIN q : i = 1 \/ (i - 1 \in DOMAIN Tail(q) /\ q[i] = Tail(q)[i - 1])
  OBVIOUS
<1>4. Range(q) \subseteq Range(Tail(q)) \cup {Head(q)}
  BY <1>2, <1>3, Zenon DEF Range
<1>5. Range(Tail(q)) \subseteq Range(q) /\ Head(q) \in Range(q)
  <2>1. Range(Tail(q)) \subseteq Range(q)
    BY <1>1, Zenon DEF Range
  <2>2. Head(q) \in Range(q)
    BY <1>2, Zenon DEF Range
  <2> QED BY <2>1, <2>2
<1> QED BY <1>4, <1>5

LEMMA ThreeParts ==
  ASSUME NEW S, NEW a \in Seq(S), NEW b \in Seq(S), NEW c \in Seq(S), NEW i \in 1..Len(a \o b \o c)
  PROVE  \/ i \in 1..Len(a) /\ (a \o b \o c)[i] = a[i]
         \/ i - Len(a) \in 1..Len(b) /\ (a \o b \o c)[i] = b[i - Len(a)]
         \/ i - (Len(a) + Len(b)) \in 1..Len(c) /\ (a \o b \o c)[i] = c[i - (Len(a) + Len(b))]
<1>1. a \o b \in Seq(S) /\ Len(a \o b) = Len(a) + Len(b) /\ Len(a) \in Nat /\ Len(b) \in Nat /\ Len(c) \in Nat
  OBVIOUS
<1>2. Len(a \o b \o c) = Len(a) + Len(b) + Len(c)
  BY <1>1
<1>3. CASE i <= Len(a) + Len(b)
  <2>1. (a \o b \o c)[i] = (a \o b)[i] /\ i \in 1..Len(a \o b)
    BY <1>1, <1>2, <1>3
  <2> QED BY <1>1, <2>1
<1>4. CASE i > Len(a) + Len(b)
  BY <1>1, <1>2, <1>4
<1> QED BY <1>1, <1>2, <1>3, <1>4

LEMMA RangeEmpty == Range(<<>>) = {}
  BY DEF Range

LEMMA EjobStep ==
  ASSUME SInv, [Next]_vars
  PROVE  EjobInv'
<1> USE DEF SInv, memory, emu, queues, writer
<1>1. ASSUME NEW changed \in SUBSET Savers, NEW simulated \in BOOLEAN, Emulate(changed, simulated)
      PROVE  EjobInv'
  BY <1>1 DEF Emulate, EjobInv, Submitting, Snapshot, Saver
<1>2. CASE SkipClean
  BY <1>2 DEF SkipClean, NextSaver, EjobInv, Submitting, Snapshot, Saver
<1>3. CASE CountDown
  BY <1>3 DEF CountDown, NextSaver, EjobInv, Submitting, Snapshot, Saver
<1>4. CASE Flush
  BY <1>4 DEF Flush, EjobInv, Submitting, Snapshot, Saver
<1>5. CASE Saved
  BY <1>5 DEF Saved, NextSaver, EjobInv, Submitting, Snapshot, Saver
<1>6. CASE NoMemory
  BY <1>6 DEF NoMemory, EjobInv, Submitting, Snapshot, Saver
<1>7. CASE SubmitToRunning
  BY <1>7 DEF SubmitToRunning, Snapshot, EjobInv, Submitting, Snapshot, Saver
<1>8. CASE StartWriter
  BY <1>8 DEF StartWriter, Snapshot, EjobInv, Submitting, Snapshot, Saver
<1>9. CASE StartFails
  BY <1>9 DEF StartFails, NeedsStart, Snapshot, EjobInv, Submitting, Snapshot, Saver
<1>10. CASE ReapBack
  BY <1>10 DEF ReapBack, Reap, EjobInv, Submitting, Snapshot, Saver
<1>11. CASE ReapNoMore
  BY <1>11 DEF ReapNoMore, Behind, EjobInv, Submitting, Snapshot, Saver
<1>12. CASE ReapOldest
  BY <1>12 DEF ReapOldest, Reap, EjobInv, Submitting, Snapshot, Saver
<1>13. CASE HandOver
  BY <1>13 DEF HandOver, EjobInv, Submitting, Snapshot, Saver
<1>14. ASSUME NEW result \in {"written", "torn", "unopened"}, WriteHere(result)
      PROVE  EjobInv'
  BY <1>14 DEF WriteHere, EjobInv, Submitting, Snapshot, Saver
<1>15. CASE DrainOne
  BY <1>15 DEF DrainOne, Reap, EjobInv, Submitting, Snapshot, Saver
<1>16. CASE StopWriter
  BY <1>16 DEF StopWriter, Drained, EjobInv, Submitting, Snapshot, Saver
<1>17. CASE NothingToStop
  BY <1>17 DEF NothingToStop, EjobInv, Submitting, Snapshot, Saver
<1>18. CASE JoinWriter
  BY <1>18 DEF JoinWriter, EjobInv, Submitting, Snapshot, Saver
<1>19. CASE CloseGame
  BY <1>19 DEF CloseGame, EjobInv, Submitting, Snapshot, Saver
<1>20. CASE LoadGame
  BY <1>20 DEF LoadGame, EjobInv, Submitting, Snapshot, Saver
<1>21. CASE WTake
  BY <1>21 DEF WTake, EjobInv, Submitting, Snapshot, Saver
<1>22. CASE WEnd
  BY <1>22 DEF WEnd, SeesCancel, EjobInv, Submitting, Snapshot, Saver
<1>23. CASE WOpen
  BY <1>23 DEF WOpen, EjobInv, Submitting, Snapshot, Saver
<1>24. CASE WOpenFails
  BY <1>24 DEF WOpenFails, EjobInv, Submitting, Snapshot, Saver
<1>25. CASE WWrite
  BY <1>25 DEF WWrite, EjobInv, Submitting, Snapshot, Saver
<1>26. ASSUME NEW whole \in BOOLEAN, WWriteFails(whole)
      PROVE  EjobInv'
  BY <1>26 DEF WWriteFails, EjobInv, Submitting, Snapshot, Saver
<1>27. CASE WHandBack
  BY <1>27 DEF WHandBack, EjobInv, Submitting, Snapshot, Saver
<1>28. CASE UNCHANGED vars
  BY <1>28 DEF vars, EjobInv, Submitting, Snapshot, Saver
<1> QED
  BY <1>1, <1>2, <1>3, <1>4, <1>5, <1>6, <1>7, <1>8, <1>9, <1>10, <1>11, <1>12, <1>13, <1>14, <1>15, <1>16, <1>17, <1>18, <1>19, <1>20, <1>21, <1>22, <1>23, <1>24, <1>25, <1>26, <1>27, <1>28
     DEF Next, Frame, EmuRuns, WriterRuns

LEMMA StopStep ==
  ASSUME SInv, [Next]_vars
  PROVE  StopInv'
<1> USE DEF SInv, memory, emu, queues, writer
<1>1. ASSUME NEW changed \in SUBSET Savers, NEW simulated \in BOOLEAN, Emulate(changed, simulated)
      PROVE  StopInv'
  BY <1>1 DEF Emulate, StopInv, Busy
<1>2. CASE SkipClean
  BY <1>2 DEF SkipClean, NextSaver, StopInv, Busy
<1>3. CASE CountDown
  BY <1>3 DEF CountDown, NextSaver, StopInv, Busy
<1>4. CASE Flush
  BY <1>4 DEF Flush, StopInv, Busy
<1>5. CASE Saved
  BY <1>5 DEF Saved, NextSaver, StopInv, Busy
<1>6. CASE NoMemory
  BY <1>6 DEF NoMemory, StopInv, Busy
<1>7. CASE SubmitToRunning
  BY <1>7 DEF SubmitToRunning, StopInv, Busy, IInv, ThreadInv
<1>8. CASE StartWriter
  BY <1>8 DEF StartWriter, StopInv, Busy, IInv, ThreadInv
<1>9. CASE StartFails
  BY <1>9 DEF StartFails, NeedsStart, Snapshot, StopInv, Busy
<1>10. CASE ReapBack
  BY <1>10 DEF ReapBack, Reap, StopInv, Busy, IInv, ThreadInv
<1>11. CASE ReapNoMore
  BY <1>11 DEF ReapNoMore, Behind, StopInv, Busy
<1>12. CASE ReapOldest
  BY <1>12 DEF ReapOldest, Reap, StopInv, Busy, IInv, ThreadInv
<1>13. CASE HandOver
  BY <1>13 DEF HandOver, StopInv, Busy, IInv, ThreadInv
<1>14. ASSUME NEW result \in {"written", "torn", "unopened"}, WriteHere(result)
      PROVE  StopInv'
  BY <1>14 DEF WriteHere, StopInv, Busy
<1>15. CASE DrainOne
  BY <1>15 DEF DrainOne, Reap, StopInv, Busy, IInv, ThreadInv
<1>16. CASE StopWriter
  BY <1>16 DEF StopWriter, Drained, StopInv, Busy
<1>17. CASE NothingToStop
  BY <1>17 DEF NothingToStop, StopInv, Busy
<1>18. CASE JoinWriter
  <2>1. thread /\ out = 0
    BY <1>18 DEF JoinWriter, IInv, ThreadInv, StopInv
  <2>2. jobs = <<>> /\ done = <<>> /\ ~Busy
    BY <1>18, <2>1 DEF JoinWriter, IInv, JobsConserved, Busy, JobTyped
  <2> QED BY <1>18, <2>2 DEF JoinWriter, StopInv, Busy
<1>19. CASE CloseGame
  BY <1>19 DEF CloseGame, StopInv, Busy
<1>20. CASE LoadGame
  BY <1>20 DEF LoadGame, StopInv, Busy
<1>21. CASE WTake
  BY <1>21 DEF WTake, StopInv, Busy, IInv, ThreadInv
<1>22. CASE WEnd
  BY <1>22 DEF WEnd, SeesCancel, StopInv, Busy
<1>23. CASE WOpen
  BY <1>23 DEF WOpen, StopInv, Busy
<1>24. CASE WOpenFails
  BY <1>24 DEF WOpenFails, StopInv, Busy
<1>25. CASE WWrite
  BY <1>25 DEF WWrite, StopInv, Busy
<1>26. ASSUME NEW whole \in BOOLEAN, WWriteFails(whole)
      PROVE  StopInv'
  BY <1>26 DEF WWriteFails, StopInv, Busy
<1>27. CASE WHandBack
  BY <1>27 DEF WHandBack, StopInv, Busy, IInv, ThreadInv
<1>28. CASE UNCHANGED vars
  BY <1>28 DEF vars, StopInv, Busy
<1> QED
  BY <1>1, <1>2, <1>3, <1>4, <1>5, <1>6, <1>7, <1>8, <1>9, <1>10, <1>11, <1>12, <1>13, <1>14, <1>15, <1>16, <1>17, <1>18, <1>19, <1>20, <1>21, <1>22, <1>23, <1>24, <1>25, <1>26, <1>27, <1>28
     DEF Next, Frame, EmuRuns, WriterRuns

LEMMA OrderStep ==
  ASSUME SInv, [Next]_vars
  PROVE  OrderInv'
<1> USE DEF SInv, memory, emu, queues, writer
<1>a. \A job \in JobSet : job.saver \in Savers /\ job.version \in Nat /\ job.version <= MaxVersion
  BY BoundAssumption DEF JobSet
<1>b. /\ InHands => wjob \in JobSet
      /\ Len(jobs) \in Nat /\ DOMAIN jobs = 1..Len(jobs)
      /\ \A i \in 1..Len(jobs) : jobs[i] \in JobSet
  BY DEF IInv, JobTyped, HandsInv, Busy, InHands
<1>c. \A s \in Savers : ram[s] \in Nat /\ ram[s] <= MaxVersion /\ file[s] \in Nat
  BY BoundAssumption DEF IInv, NumTyped, Torn
<1>d. MaxVersion \in Nat /\ Torn \in Nat /\ MaxVersion < Torn
  BY BoundAssumption DEF Torn
<1>e. ~thread => ~InHands /\ jobs = <<>> /\ DOMAIN jobs = {}
  BY <1>b DEF IInv, ThreadInv, StopInv, InHands
<1>1. ASSUME NEW changed \in SUBSET Savers, NEW simulated \in BOOLEAN, Emulate(changed, simulated)
      PROVE  OrderInv'
  <2>1. /\ \A s \in Savers : ram'[s] \in Nat /\ ram[s] <= ram'[s]
        /\ UNCHANGED <<file, wpc, wjob, jobs>>
    BY <1>1, <1>c DEF Emulate
  <2>2. \A s \in Savers : file[s] # Torn => file[s] <= ram'[s]
    BY <2>1, <1>c DEF OrderInv
  <2>3. \A i \in DOMAIN jobs : jobs[i].version <= ram'[jobs[i].saver]
    BY <2>1, <1>a, <1>b, <1>c DEF OrderInv, Fresh
  <2>4. InHands => wjob.version <= ram'[wjob.saver]
    BY <2>1, <1>a, <1>b, <1>c DEF OrderInv, Fresh
  <2> QED BY <2>1, <2>2, <2>3, <2>4 DEF OrderInv, Fresh, InHands
<1>2. CASE SkipClean
  BY <1>2 DEF SkipClean, NextSaver, OrderInv, Fresh, InHands
<1>3. CASE CountDown
  BY <1>3 DEF CountDown, NextSaver, OrderInv, Fresh, InHands
<1>4. CASE Flush
  BY <1>4 DEF Flush, OrderInv, Fresh, InHands
<1>5. CASE Saved
  BY <1>5 DEF Saved, NextSaver, OrderInv, Fresh, InHands
<1>6. CASE NoMemory
  BY <1>6 DEF NoMemory, OrderInv, Fresh, InHands
<1>7. CASE SubmitToRunning
  BY <1>7 DEF SubmitToRunning, Snapshot, OrderInv, Fresh, InHands
<1>8. CASE StartWriter
  <2>1. ~InHands' /\ DOMAIN jobs' = {} /\ UNCHANGED <<file, ram>>
    BY <1>8 DEF StartWriter, InHands
  <2> QED BY <2>1 DEF OrderInv
<1>9. CASE StartFails
  BY <1>9 DEF StartFails, NeedsStart, Snapshot, OrderInv, Fresh, InHands
<1>10. CASE ReapBack
  BY <1>10 DEF ReapBack, Reap, OrderInv, Fresh, InHands
<1>11. CASE ReapNoMore
  BY <1>11 DEF ReapNoMore, Behind, OrderInv, Fresh, InHands
<1>12. CASE ReapOldest
  BY <1>12 DEF ReapOldest, Reap, OrderInv, Fresh, InHands
<1>13. CASE HandOver
  <2>1. ejob \in JobSet /\ ejob.version = ram[ejob.saver] /\ ejob.ok = FALSE
    BY <1>13 DEF HandOver, EjobInv, Submitting, Snapshot, IInv, HandsInv
  <2>2. Len(jobs) < Jobs
    BY <1>13, JobsAssumption DEF HandOver, IInv, JobTyped, PlaceTyped, JobsConserved, ThreadInv, HandsInv
  <2>3. /\ jobs' = Append(jobs, ejob) /\ DOMAIN jobs' = 1..(Len(jobs) + 1)
        /\ \A i \in 1..Len(jobs) : jobs'[i] = jobs[i]
        /\ jobs'[Len(jobs) + 1] = ejob
    BY <1>13, <2>1, <2>2 DEF HandOver, Put, IInv, JobTyped
  <2>4. UNCHANGED <<ram, file, wpc, wjob>>
    BY <1>13 DEF HandOver
  <2>5. \A i \in 1..Len(jobs) : jobs[i].saver = ejob.saver => jobs[i].version <= ejob.version
    BY <2>1, <1>b DEF OrderInv, Fresh
  <2>6. file[ejob.saver] # Torn => file[ejob.saver] <= ejob.version
    BY <2>1, <1>a DEF OrderInv
  <2>7. ejob.version <= ram[ejob.saver]
    BY <2>1, <1>a
  <2>8. \A i \in DOMAIN jobs' : i \in DOMAIN jobs \/ i = Len(jobs) + 1
    BY <2>3, <1>b
  <2>9. \A i \in DOMAIN jobs' : Fresh(jobs[i])' 
    <3> SUFFICES ASSUME NEW i \in DOMAIN jobs'
                 PROVE  /\ jobs'[i].version <= ram[jobs'[i].saver] /\ jobs'[i].ok = FALSE
                        /\ file[jobs'[i].saver] # Torn => file[jobs'[i].saver] <= jobs'[i].version
      BY <2>4 DEF Fresh
    <3>1. CASE i \in DOMAIN jobs
      BY <3>1, <2>3, <1>b DEF OrderInv, Fresh
    <3>2. CASE i = Len(jobs) + 1
      BY <3>2, <2>1, <2>3, <2>6, <2>7
    <3> QED BY <3>1, <3>2, <2>8
  <2>10. \A i, j \in DOMAIN jobs' : i < j /\ jobs'[i].saver = jobs'[j].saver => jobs'[i].version <= jobs'[j].version
    BY <2>3, <2>5, <1>b DEF OrderInv
  <2>11. InHands => \A i \in DOMAIN jobs' : jobs'[i].saver = wjob.saver => wjob.version <= jobs'[i].version
    BY <2>1, <2>3, <2>8 DEF OrderInv, Fresh
  <2> QED BY <2>4, <2>9, <2>10, <2>11 DEF OrderInv, Fresh, InHands
<1>14. ASSUME NEW result \in {"written", "torn", "unopened"}, WriteHere(result)
      PROVE  OrderInv'
  <2>1. ~thread /\ ~InHands' /\ DOMAIN jobs' = {}
    BY <1>14, <1>e DEF WriteHere, StopInv, InHands
  <2>2. ejob.version = ram[ejob.saver] /\ UNCHANGED ram
    BY <1>14 DEF WriteHere, EjobInv, Submitting, Snapshot
  <2>3. \A s \in Savers : file'[s] # Torn => file'[s] <= ram'[s]
    BY <1>14, <2>2, <1>c, <1>d DEF WriteHere, OrderInv, IInv, NumTyped
  <2> QED BY <2>1, <2>3 DEF OrderInv
<1>15. CASE DrainOne
  BY <1>15 DEF DrainOne, Reap, OrderInv, Fresh, InHands
<1>16. CASE StopWriter
  BY <1>16 DEF StopWriter, Drained, OrderInv, Fresh, InHands
<1>17. CASE NothingToStop
  BY <1>17 DEF NothingToStop, OrderInv, Fresh, InHands
<1>18. CASE JoinWriter
  BY <1>18 DEF JoinWriter, OrderInv, Fresh, InHands
<1>19. CASE CloseGame
  BY <1>19 DEF CloseGame, OrderInv, Fresh, InHands
<1>20. CASE LoadGame
  <2>1. ~thread /\ ~InHands' /\ jobs' = <<>> /\ DOMAIN jobs' = {}
    BY <1>20, <1>e DEF LoadGame, StopInv, InHands
  <2>2. \A s \in Savers : file'[s] # Torn => file'[s] <= ram'[s]
    BY <1>20, <1>c DEF LoadGame
  <2> QED BY <2>1, <2>2 DEF OrderInv
<1>21. CASE WTake
  <2>1. /\ wjob' = jobs[1] /\ 1 \in DOMAIN jobs
        /\ jobs' = Tail(jobs) /\ DOMAIN jobs' = 1..(Len(jobs) - 1)
        /\ \A i \in DOMAIN jobs' : i + 1 \in DOMAIN jobs /\ jobs'[i] = jobs[i + 1] /\ 1 < i + 1
    BY <1>21, <1>b DEF WTake, IInv, JobTyped
  <2>2. UNCHANGED <<ram, file>>
    BY <1>21 DEF WTake
  <2>3. Fresh(wjob)'
    BY <2>1, <2>2 DEF OrderInv, Fresh
  <2>4. \A i \in DOMAIN jobs' : Fresh(jobs[i])'
    BY <2>1, <2>2 DEF OrderInv, Fresh
  <2>5. \A i \in DOMAIN jobs' : jobs'[i].saver = wjob'.saver => wjob'.version <= jobs'[i].version
    BY <2>1 DEF OrderInv
  <2>6. \A i, j \in DOMAIN jobs' : i < j /\ jobs'[i].saver = jobs'[j].saver => jobs'[i].version <= jobs'[j].version
    <3> SUFFICES ASSUME NEW i \in DOMAIN jobs', NEW j \in DOMAIN jobs', i < j, jobs'[i].saver = jobs'[j].saver
                 PROVE  jobs'[i].version <= jobs'[j].version
      OBVIOUS
    <3>1. i + 1 < j + 1
      BY <2>1
    <3> QED BY <3>1, <2>1 DEF OrderInv
  <2> QED BY <2>2, <2>3, <2>4, <2>5, <2>6 DEF OrderInv
<1>22. CASE WEnd
  BY <1>22 DEF WEnd, SeesCancel, OrderInv, Fresh, InHands
<1>23. CASE WOpen
  <2>1. \A s \in Savers : file'[s] # Torn => file'[s] = file[s]
    BY <1>23 DEF WOpen, IInv, NumTyped
  <2>2. UNCHANGED <<ram, wjob, jobs>> /\ InHands
    BY <1>23 DEF WOpen, InHands
  <2> QED BY <2>1, <2>2, <1>a, <1>b DEF OrderInv, Fresh
<1>24. CASE WOpenFails
  BY <1>24 DEF WOpenFails, OrderInv, Fresh, InHands
<1>25. CASE WWrite
  <2>1. ~InHands' /\ UNCHANGED <<ram, jobs>> /\ InHands
    BY <1>25 DEF WWrite, InHands
  <2>2. \A s \in Savers : file'[s] = IF s = wjob.saver THEN wjob.version ELSE file[s]
    BY <1>25 DEF WWrite, IInv, NumTyped
  <2>3. \A s \in Savers : file'[s] # Torn => file'[s] <= ram[s]
    BY <2>1, <2>2 DEF OrderInv, Fresh
  <2>4. \A i \in DOMAIN jobs : file'[jobs[i].saver] # Torn => file'[jobs[i].saver] <= jobs[i].version
    BY <2>1, <2>2, <1>a, <1>b DEF OrderInv, Fresh
  <2> QED BY <2>1, <2>3, <2>4 DEF OrderInv, Fresh
<1>26. ASSUME NEW whole \in BOOLEAN, WWriteFails(whole)
      PROVE  OrderInv'
  <2>1. ~InHands' /\ UNCHANGED <<ram, jobs>> /\ InHands
    BY <1>26 DEF WWriteFails, InHands
  <2>2. \A s \in Savers : file'[s] = IF s = wjob.saver THEN (IF whole THEN wjob.version ELSE Torn) ELSE file[s]
    BY <1>26 DEF WWriteFails, IInv, NumTyped
  <2>3. \A s \in Savers : file'[s] # Torn => file'[s] <= ram[s]
    BY <2>1, <2>2 DEF OrderInv, Fresh
  <2>4. \A i \in DOMAIN jobs : file'[jobs[i].saver] # Torn => file'[jobs[i].saver] <= jobs[i].version
    BY <2>1, <2>2, <1>a, <1>b DEF OrderInv, Fresh
  <2> QED BY <2>1, <2>3, <2>4 DEF OrderInv, Fresh
<1>27. CASE WHandBack
  BY <1>27 DEF WHandBack, OrderInv, Fresh, InHands
<1>28. CASE UNCHANGED vars
  BY <1>28 DEF vars, OrderInv, Fresh, InHands
<1> QED
  BY <1>1, <1>2, <1>3, <1>4, <1>5, <1>6, <1>7, <1>8, <1>9, <1>10, <1>11, <1>12, <1>13, <1>14, <1>15, <1>16, <1>17, <1>18, <1>19, <1>20, <1>21, <1>22, <1>23, <1>24, <1>25, <1>26, <1>27, <1>28
     DEF Next, Frame, EmuRuns, WriterRuns

(* A job that stands for the saver's memory as it is, still held, still does. *)
LEMMA PendingKept ==
  ASSUME NEW s, Pending(s), ram'[s] = ram[s],
         \A job \in Held : job.saver = s /\ job.version = ram[s] /\ ~job.ok => job \in Held'
  PROVE  Pending(s)'
<1>1. PICK job \in Held : job.saver = s /\ job.version = ram[s] /\ ~job.ok
  BY DEF Pending, Held
<1>2. job \in Held' /\ job.saver = s /\ job.version = ram'[s] /\ ~job.ok
  BY <1>1
<1> QED BY <1>2 DEF Pending, Held

(* No step but a frame, a flush or a load leaves a saver less clean. *)
LEMMA CleanKept ==
  ASSUME SInv, EmuRuns \/ WriterRuns \/ CloseGame \/ UNCHANGED vars, ~Flush
  PROVE  CleanSavers \subseteq CleanSavers'
<1> USE DEF SInv, memory, emu, queues, writer
<1> SUFFICES ASSUME NEW s \in Savers, file[s] = ram[s] \/ saveFailed[s] \/ Pending(s)
             PROVE  (file[s] = ram[s] \/ saveFailed[s] \/ Pending(s))'
  BY DEF CleanSavers
<1> DEFINE Now == (file[s] = ram[s] \/ saveFailed[s] \/ Pending(s))'
<1>a. s # NoSaver /\ NoJob.saver = NoSaver /\ NoJob \notin JobSet
  BY OrderAssumption DEF NoJob, JobSet
<1>b. saveFailed \in [Savers -> BOOLEAN] /\ file \in [Savers -> 0..Torn]
      /\ jobs \in Seq(JobSet) /\ done \in Seq(JobSet)
  BY DEF IInv, FlagTyped, NumTyped, JobTyped
<1>c. ASSUME Reap PROVE Now
  <2>1. Range(done) = Range(done') \cup {Head(done)} /\ UNCHANGED <<ram, file, ejob, jobs, wjob>>
    BY <1>b, <1>c, RangeTail DEF Reap
  <2>2. Head(done) \in JobSet
    BY <1>b, <1>c DEF Reap
  <2>3. saveFailed[s] => saveFailed'[s]
    BY <1>b, <1>c, <2>2 DEF Reap, Finish, JobSet
  <2>4. CASE Head(done).saver = s /\ ~Head(done).ok
    <3>1. saveFailed'[s]
      BY <1>b, <1>c, <2>4 DEF Reap, Finish
    <3> QED BY <3>1
  <2>5. CASE ~(Head(done).saver = s /\ ~Head(done).ok)
    <3>1. Pending(s) => Pending(s)'
      BY <2>1, <2>5, PendingKept DEF Held
    <3> QED BY <2>1, <2>3, <3>1
  <2> QED BY <2>4, <2>5
<1>1. CASE SkipClean
  BY <1>1, <1>b DEF SkipClean, NextSaver, Pending
<1>2. CASE CountDown
  BY <1>2, <1>b DEF CountDown, NextSaver, Pending
<1>3. CASE Saved
  BY <1>3, <1>b DEF Saved, NextSaver, Pending
<1>4. CASE NoMemory
  <2>1. saveFailed[s] => saveFailed'[s]
    BY <1>4, <1>b DEF NoMemory
  <2>2. UNCHANGED <<ram, file, ejob, wjob, jobs, done>>
    BY <1>4 DEF NoMemory
  <2> QED BY <2>1, <2>2 DEF Pending
<1>5. CASE SubmitToRunning
  <2>1. UNCHANGED <<ram, file, saveFailed, wjob, jobs, done>> /\ ejob = NoJob
    BY <1>5 DEF SubmitToRunning, EjobInv, Submitting
  <2>2. Pending(s) => Pending(s)'
    BY <2>1, <1>a, PendingKept DEF Held
  <2> QED BY <2>1, <2>2
<1>6. CASE StartWriter
  <2>1. UNCHANGED <<ram, file, saveFailed, wjob>> /\ ejob = NoJob /\ jobs = <<>> /\ done = <<>>
        /\ jobs' = <<>> /\ done' = <<>>
    BY <1>6 DEF StartWriter, EjobInv, Submitting, StopInv
  <2>2. Pending(s) => Pending(s)'
    BY <2>1, <1>a, PendingKept DEF Held
  <2> QED BY <2>1, <2>2
<1>7. CASE StartFails
  <2>1. UNCHANGED <<ram, file, saveFailed, wjob, jobs, done>> /\ ejob = NoJob
    BY <1>7 DEF StartFails, NeedsStart, EjobInv, Submitting
  <2>2. Pending(s) => Pending(s)'
    BY <2>1, <1>a, PendingKept DEF Held
  <2> QED BY <2>1, <2>2
<1>8. CASE ReapBack
  <2>1. Reap
    BY <1>8 DEF ReapBack
  <2> QED BY <2>1, <1>c
<1>9. CASE ReapNoMore
  BY <1>9, <1>b DEF ReapNoMore, Behind, Pending
<1>10. CASE ReapOldest
  <2>1. Reap
    BY <1>10 DEF ReapOldest
  <2> QED BY <2>1, <1>c
<1>11. CASE HandOver
  <2>1. UNCHANGED <<ram, file, saveFailed, wjob, done>> /\ ejob' = NoJob /\ ejob \in JobSet
    BY <1>11 DEF HandOver, IInv, HandsInv, Submitting
  <2>2. Len(jobs) < Jobs
    BY <1>11, JobsAssumption DEF HandOver, IInv, JobTyped, PlaceTyped, JobsConserved, ThreadInv, HandsInv
  <2>3. jobs' = Append(jobs, ejob)
    BY <1>11, <2>2 DEF HandOver, Put
  <2>4. Range(jobs') = Range(jobs) \cup {ejob}
    BY <2>1, <2>3, <1>b, RangeAppend
  <2>5. Pending(s) => Pending(s)'
    BY <2>1, <2>4, PendingKept DEF Held
  <2> QED BY <2>1, <2>5
<1>12. ASSUME NEW result \in {"written", "torn", "unopened"}, WriteHere(result)
      PROVE  Now
  <2>1. ~thread /\ wjob = NoJob /\ jobs = <<>> /\ done = <<>>
    BY <1>12 DEF WriteHere, StopInv, IInv, ThreadInv, Busy
  <2>2. ejob.version = ram[ejob.saver] /\ ejob \in JobSet /\ UNCHANGED ram
    BY <1>12 DEF WriteHere, EjobInv, Submitting, Snapshot, IInv, HandsInv
  <2>3. CASE s = ejob.saver
    <3>1. CASE result = "written"
      BY <1>12, <1>b, <2>2, <2>3, <3>1 DEF WriteHere
    <3>2. CASE result # "written"
      <4>1. saveFailed'[s]
        BY <1>12, <1>b, <2>2, <2>3, <3>2 DEF WriteHere, Finish, JobSet
      <4> QED BY <4>1
    <3> QED BY <3>1, <3>2
  <2>4. CASE s # ejob.saver
    <3>1. ~Pending(s)
      BY <2>1, <2>4, <1>a, RangeEmpty DEF Pending
    <3>2. file'[s] = file[s]
      BY <1>12, <1>b, <2>4 DEF WriteHere
    <3>3. saveFailed[s] => saveFailed'[s]
      BY <1>12, <1>b DEF WriteHere, Finish
    <3> QED BY <2>2, <3>1, <3>2, <3>3
  <2> QED BY <2>3, <2>4
<1>13. CASE DrainOne
  <2>1. Reap
    BY <1>13 DEF DrainOne
  <2> QED BY <2>1, <1>c
<1>14. CASE StopWriter
  BY <1>14, <1>b DEF StopWriter, Drained, Pending
<1>15. CASE NothingToStop
  BY <1>15, <1>b DEF NothingToStop, Pending
<1>16. CASE JoinWriter
  BY <1>16, <1>b DEF JoinWriter, Pending
<1>17. CASE CloseGame
  BY <1>17, <1>b DEF CloseGame, Pending
<1>18. CASE WTake
  <2>1. UNCHANGED <<ram, file, saveFailed, ejob, done>> /\ wjob = NoJob /\ wjob' = Head(jobs)
    BY <1>18 DEF WTake, StopInv, Busy
  <2>2. Range(jobs) = Range(jobs') \cup {Head(jobs)}
    BY <1>18, <1>b, RangeTail DEF WTake
  <2>3. Pending(s) => Pending(s)'
    BY <2>1, <2>2, <1>a, PendingKept DEF Held
  <2> QED BY <2>1, <2>3
<1>19. CASE WEnd
  BY <1>19, <1>b DEF WEnd, SeesCancel, Pending
<1>20. CASE WOpen
  <2>1. UNCHANGED <<ram, saveFailed, ejob, wjob, jobs, done>> /\ wjob \in JobSet /\ Fresh(wjob)
    BY <1>20 DEF WOpen, IInv, HandsInv, Busy, OrderInv, InHands
  <2>2. Pending(s) => Pending(s)'
    BY <2>1, PendingKept DEF Held
  <2>3. CASE s # wjob.saver
    <3>1. file'[s] = file[s]
      BY <1>20, <1>b, <2>3 DEF WOpen
    <3> QED BY <2>1, <2>2, <3>1
  <2>4. CASE s = wjob.saver
    <3>1. ram[s] \in 0..MaxVersion /\ wjob.version \in 0..MaxVersion
      BY <2>1 DEF IInv, NumTyped, JobSet
    <3>2. file[s] = ram[s] => wjob.version = ram[s]
      BY <2>1, <2>4, <3>1, BoundAssumption DEF Fresh, Torn
    <3>3. file[s] = ram[s] => Pending(s)
      BY <2>1, <2>4, <3>2 DEF Pending, Fresh
    <3> QED BY <2>1, <2>2, <3>3
  <2> QED BY <2>3, <2>4
<1>21. CASE WOpenFails
  BY <1>21, <1>b DEF WOpenFails, Pending
<1>22. CASE WWrite
  <2>1. UNCHANGED <<ram, saveFailed, ejob, jobs, done>> /\ wjob \in JobSet /\ Fresh(wjob)
    BY <1>22 DEF WWrite, IInv, HandsInv, Busy, OrderInv, InHands
  <2>2. CASE s # wjob.saver
    <3>1. file'[s] = file[s]
      BY <1>22, <1>b, <2>2 DEF WWrite
    <3>2. Pending(s) => Pending(s)'
      BY <2>1, <2>2, PendingKept DEF Held
    <3> QED BY <2>1, <3>1, <3>2
  <2>3. CASE s = wjob.saver
    <3>1. ram[s] \in 0..MaxVersion /\ wjob.version \in 0..MaxVersion
      BY <2>1 DEF IInv, NumTyped, JobSet
    <3>2. file'[s] = wjob.version
      BY <1>22, <1>b, <2>3 DEF WWrite
    <3>3. file[s] = ram[s] => wjob.version = ram[s]
      BY <2>1, <2>3, <3>1, BoundAssumption DEF Fresh, Torn
    <3>4. CASE wjob.version = ram[s]
      BY <2>1, <3>2, <3>4
    <3>5. CASE wjob.version # ram[s]
      <4>1. Pending(s) => Pending(s)'
        BY <2>1, <3>5, PendingKept DEF Held
      <4> QED BY <2>1, <3>3, <3>5, <4>1
    <3> QED BY <3>4, <3>5
  <2> QED BY <2>2, <2>3
<1>23. ASSUME NEW whole \in BOOLEAN, WWriteFails(whole)
      PROVE  Now
  <2>1. UNCHANGED <<ram, saveFailed, ejob, wjob, jobs, done>> /\ wjob \in JobSet /\ Fresh(wjob)
    BY <1>23 DEF WWriteFails, IInv, HandsInv, Busy, OrderInv, InHands
  <2>2. Pending(s) => Pending(s)'
    BY <2>1, PendingKept DEF Held
  <2>3. CASE s # wjob.saver
    <3>1. file'[s] = file[s]
      BY <1>23, <1>b, <2>3 DEF WWriteFails
    <3> QED BY <2>1, <2>2, <3>1
  <2>4. CASE s = wjob.saver
    <3>1. ram[s] \in 0..MaxVersion /\ wjob.version \in 0..MaxVersion
      BY <2>1 DEF IInv, NumTyped, JobSet
    <3>2. file[s] = ram[s] => wjob.version = ram[s]
      BY <2>1, <2>4, <3>1, BoundAssumption DEF Fresh, Torn
    <3>3. file[s] = ram[s] => Pending(s)
      BY <2>1, <2>4, <3>2 DEF Pending, Fresh
    <3> QED BY <2>1, <2>2, <3>3
  <2> QED BY <2>3, <2>4
<1>24. CASE WHandBack
  <2>1. thread /\ Len(done) < Jobs /\ wjob \in JobSet
    BY <1>24, JobsAssumption DEF WHandBack, IInv, PlaceTyped, JobTyped, JobsConserved, ThreadInv, HandsInv, Busy
  <2>2. done' = Append(done, wjob) /\ wjob' = NoJob /\ UNCHANGED <<ram, file, saveFailed, ejob, jobs>>
    BY <1>24, <2>1 DEF WHandBack, Put
  <2>3. Range(done') = Range(done) \cup {wjob}
    BY <2>1, <2>2, <1>b, RangeAppend
  <2>4. Pending(s) => Pending(s)'
    BY <2>2, <2>3, PendingKept DEF Held
  <2> QED BY <2>2, <2>4
<1>25. CASE UNCHANGED vars
  BY <1>25 DEF vars, Pending
<1> QED
  BY <1>1, <1>2, <1>3, <1>4, <1>5, <1>6, <1>7, <1>8, <1>9, <1>10, <1>11, <1>12, <1>13, <1>14, <1>15, <1>16, <1>17, <1>18, <1>19, <1>20, <1>21, <1>22, <1>23, <1>24, <1>25 DEF EmuRuns, WriterRuns

(* A save that has been seen to leaves its saver clean. *)
LEMMA SavedClean ==
  ASSUME SInv, NoMemory \/ HandOver \/ \E result \in {"written", "torn", "unopened"} : WriteHere(result)
  PROVE  Saver \in CleanSavers'
<1> USE DEF SInv, memory, emu, queues, writer
<1>a. Saver \in Savers /\ saveFailed \in [Savers -> BOOLEAN] /\ file \in [Savers -> 0..Torn]
      /\ jobs \in Seq(JobSet)
  BY SaverTyped DEF IInv, FlagTyped, NumTyped, JobTyped
<1> SUFFICES file'[Saver] = ram'[Saver] \/ saveFailed'[Saver] \/ Pending(Saver)'
             \/ \E job \in Held' : job.saver = Saver /\ job.version = ram'[Saver] /\ ~job.ok
  <2>1. ASSUME \E job \in Held' : job.saver = Saver /\ job.version = ram'[Saver] /\ ~job.ok
        PROVE  Saver \in CleanSavers'
    BY <1>a, <2>1 DEF CleanSavers, Pending, Held
  <2>2. UNCHANGED turn
    BY DEF NoMemory, HandOver, WriteHere
  <2> QED BY <1>a, <2>1, <2>2 DEF CleanSavers, Saver
<1>1. CASE NoMemory
  BY <1>1, <1>a DEF NoMemory
<1>2. CASE HandOver
  <2>1. ejob \in JobSet /\ ejob.saver = Saver /\ ejob.version = ram[Saver] /\ ~ejob.ok
    BY <1>2 DEF HandOver, EjobInv, Submitting, Snapshot, IInv, HandsInv
  <2>2. Len(jobs) < Jobs
    BY <1>2, JobsAssumption DEF HandOver, IInv, JobTyped, PlaceTyped, JobsConserved, ThreadInv, HandsInv
  <2>3. jobs' = Append(jobs, ejob) /\ UNCHANGED ram
    BY <1>2, <2>2 DEF HandOver, Put
  <2>4. ejob \in Held'
    BY <2>1, <2>3, <1>a, RangeAppend DEF Held
  <2> QED BY <2>1, <2>3, <2>4
<1>3. ASSUME NEW result \in {"written", "torn", "unopened"}, WriteHere(result)
      PROVE  file'[Saver] = ram'[Saver] \/ saveFailed'[Saver]
  <2>1. ejob.saver = Saver /\ ejob.version = ram[Saver] /\ ejob \in JobSet /\ UNCHANGED ram
    BY <1>3 DEF WriteHere, EjobInv, Submitting, Snapshot, IInv, HandsInv
  <2>2. CASE result = "written"
    BY <1>3, <1>a, <2>1, <2>2 DEF WriteHere
  <2>3. CASE result # "written"
    <3>1. saveFailed'[Saver]
      BY <1>3, <1>a, <2>1, <2>3 DEF WriteHere, Finish, JobSet
    <3> QED BY <3>1
  <2> QED BY <2>2, <2>3
<1> QED BY <1>1, <1>2, <1>3

LEMMA PassedStep ==
  ASSUME SInv, [Next]_vars
  PROVE  PassedInv'
<1> USE DEF SInv, memory, emu, queues, writer
<1>a. turn \in 1..Len(Order) /\ Len(Order) \in Nat
  BY OrderAssumption DEF IInv, PlaceTyped
<1>b. EmuRuns \/ WriterRuns \/ CloseGame \/ UNCHANGED vars => Flush \/ CleanSavers \subseteq CleanSavers'
  BY CleanKept
<1>c. NoMemory \/ HandOver \/ (\E result \in {"written", "torn", "unopened"} : WriteHere(result))
        => Saver \in CleanSavers'
  BY SavedClean
<1>d. epc \in {"frame", "check"} => ~closing
  BY DEF IInv, FrameInv
<1>1. ASSUME NEW changed \in SUBSET Savers, NEW simulated \in BOOLEAN, Emulate(changed, simulated)
      PROVE  PassedInv'
  BY <1>1, <1>d DEF Emulate, PassedInv
<1>2. CASE SkipClean
  <2>1. ~closing /\ ~closing' /\ epc' # "saved"
    BY <1>2, <1>d DEF SkipClean, NextSaver
  <2> QED BY <2>1 DEF PassedInv
<1>3. CASE CountDown
  <2>1. ~closing /\ ~closing' /\ epc' # "saved"
    BY <1>3, <1>d DEF CountDown, NextSaver
  <2> QED BY <2>1 DEF PassedInv
<1>4. CASE Flush
  BY <1>4, <1>d DEF Flush, PassedInv
<1>5. CASE Saved
  <2>1. CleanSavers \subseteq CleanSavers'
    <3>1. EmuRuns /\ ~Flush
      BY <1>5 DEF EmuRuns, Flush, Saved
    <3> QED BY <3>1, <1>b
  <2>2. epc = "saved" /\ epc' # "saved" /\ UNCHANGED closing /\ Saver \in CleanSavers
    BY <1>5 DEF Saved, NextSaver, PassedInv
  <2>3. ASSUME closing, NEW i \in 1..Len(Order), i < turn' \/ epc' \in {"drain", "join", "closed"}
        PROVE  Order[i] \in CleanSavers'
    <3>1. i < turn \/ i = turn
      BY <1>5, <1>a, <2>3 DEF Saved, NextSaver
    <3>2. CASE i < turn
      BY <2>1, <2>3, <3>2 DEF PassedInv
    <3>3. CASE i = turn
      BY <2>1, <2>2, <3>3 DEF Saver
    <3> QED BY <3>1, <3>2, <3>3
  <2> QED BY <2>2, <2>3 DEF PassedInv
<1>6. CASE NoMemory
  <2>1. UNCHANGED <<turn, closing>> /\ epc \notin {"drain", "join", "closed"} /\ epc' = "saved"
    BY <1>6 DEF NoMemory
  <2>2. CleanSavers \subseteq CleanSavers' /\ Saver \in CleanSavers'
    <3>1. EmuRuns /\ ~Flush
      BY <1>6 DEF EmuRuns, Flush, NoMemory
    <3> QED BY <1>6, <3>1, <1>b, <1>c
  <2>3. Saver' = Saver
    BY <2>1 DEF Saver
  <2> QED BY <2>1, <2>2, <2>3 DEF PassedInv
<1>7. CASE SubmitToRunning
  <2>1. UNCHANGED <<turn, closing>> /\ (epc' = "saved" => epc = "saved")
        /\ (epc' \in {"drain", "join", "closed"} => epc \in {"drain", "join", "closed"})
    BY <1>7 DEF SubmitToRunning, Snapshot, Behind
  <2>2. CleanSavers \subseteq CleanSavers'
    <3>1. EmuRuns /\ ~Flush
      BY <1>7 DEF EmuRuns, Flush, SubmitToRunning, Snapshot
    <3> QED BY <3>1, <1>b
  <2>3. Saver' = Saver
    BY <2>1 DEF Saver
  <2> QED BY <2>1, <2>2, <2>3 DEF PassedInv
<1>8. CASE StartWriter
  <2>1. UNCHANGED <<turn, closing>> /\ (epc' = "saved" => epc = "saved")
        /\ (epc' \in {"drain", "join", "closed"} => epc \in {"drain", "join", "closed"})
    BY <1>8 DEF StartWriter, Snapshot, Behind
  <2>2. CleanSavers \subseteq CleanSavers'
    <3>1. EmuRuns /\ ~Flush
      BY <1>8 DEF EmuRuns, Flush, StartWriter, Snapshot
    <3> QED BY <3>1, <1>b
  <2>3. Saver' = Saver
    BY <2>1 DEF Saver
  <2> QED BY <2>1, <2>2, <2>3 DEF PassedInv
<1>9. CASE StartFails
  <2>1. UNCHANGED <<turn, closing>> /\ (epc' = "saved" => epc = "saved")
        /\ (epc' \in {"drain", "join", "closed"} => epc \in {"drain", "join", "closed"})
    BY <1>9 DEF StartFails, NeedsStart, Snapshot, Behind
  <2>2. CleanSavers \subseteq CleanSavers'
    <3>1. EmuRuns /\ ~Flush
      BY <1>9 DEF EmuRuns, Flush, StartFails, NeedsStart, Snapshot
    <3> QED BY <3>1, <1>b
  <2>3. Saver' = Saver
    BY <2>1 DEF Saver
  <2> QED BY <2>1, <2>2, <2>3 DEF PassedInv
<1>10. CASE ReapBack
  <2>1. UNCHANGED <<turn, closing>> /\ (epc' = "saved" => epc = "saved")
        /\ (epc' \in {"drain", "join", "closed"} => epc \in {"drain", "join", "closed"})
    BY <1>10 DEF ReapBack, Reap, Behind
  <2>2. CleanSavers \subseteq CleanSavers'
    <3>1. EmuRuns /\ ~Flush
      BY <1>10 DEF EmuRuns, Flush, ReapBack, Reap
    <3> QED BY <3>1, <1>b
  <2>3. Saver' = Saver
    BY <2>1 DEF Saver
  <2> QED BY <2>1, <2>2, <2>3 DEF PassedInv
<1>11. CASE ReapNoMore
  <2>1. UNCHANGED <<turn, closing>> /\ (epc' = "saved" => epc = "saved")
        /\ (epc' \in {"drain", "join", "closed"} => epc \in {"drain", "join", "closed"})
    BY <1>11 DEF ReapNoMore, Behind, Behind
  <2>2. CleanSavers \subseteq CleanSavers'
    <3>1. EmuRuns /\ ~Flush
      BY <1>11 DEF EmuRuns, Flush, ReapNoMore, Behind
    <3> QED BY <3>1, <1>b
  <2>3. Saver' = Saver
    BY <2>1 DEF Saver
  <2> QED BY <2>1, <2>2, <2>3 DEF PassedInv
<1>12. CASE ReapOldest
  <2>1. UNCHANGED <<turn, closing>> /\ (epc' = "saved" => epc = "saved")
        /\ (epc' \in {"drain", "join", "closed"} => epc \in {"drain", "join", "closed"})
    BY <1>12 DEF ReapOldest, Reap, Behind
  <2>2. CleanSavers \subseteq CleanSavers'
    <3>1. EmuRuns /\ ~Flush
      BY <1>12 DEF EmuRuns, Flush, ReapOldest, Reap
    <3> QED BY <3>1, <1>b
  <2>3. Saver' = Saver
    BY <2>1 DEF Saver
  <2> QED BY <2>1, <2>2, <2>3 DEF PassedInv
<1>13. CASE HandOver
  <2>1. UNCHANGED <<turn, closing>> /\ epc \notin {"drain", "join", "closed"} /\ epc' = "saved"
    BY <1>13 DEF HandOver
  <2>2. CleanSavers \subseteq CleanSavers' /\ Saver \in CleanSavers'
    <3>1. EmuRuns /\ ~Flush
      BY <1>13 DEF EmuRuns, Flush, HandOver
    <3> QED BY <1>13, <3>1, <1>b, <1>c
  <2>3. Saver' = Saver
    BY <2>1 DEF Saver
  <2> QED BY <2>1, <2>2, <2>3 DEF PassedInv
<1>14. ASSUME NEW result \in {"written", "torn", "unopened"}, WriteHere(result)
      PROVE  PassedInv'
  <2>1. UNCHANGED <<turn, closing>> /\ epc \notin {"drain", "join", "closed"} /\ epc' = "saved"
    BY <1>14 DEF WriteHere
  <2>2. CleanSavers \subseteq CleanSavers' /\ Saver \in CleanSavers'
    <3>1. EmuRuns /\ ~Flush
      BY <1>14 DEF EmuRuns, Flush, WriteHere
    <3> QED BY <1>14, <3>1, <1>b, <1>c
  <2>3. Saver' = Saver
    BY <2>1 DEF Saver
  <2> QED BY <2>1, <2>2, <2>3 DEF PassedInv
<1>15. CASE DrainOne
  <2>1. UNCHANGED <<turn, closing>> /\ (epc' = "saved" => epc = "saved")
        /\ (epc' \in {"drain", "join", "closed"} => epc \in {"drain", "join", "closed"})
    BY <1>15 DEF DrainOne, Reap, Behind
  <2>2. CleanSavers \subseteq CleanSavers'
    <3>1. EmuRuns /\ ~Flush
      BY <1>15 DEF EmuRuns, Flush, DrainOne, Reap
    <3> QED BY <3>1, <1>b
  <2>3. Saver' = Saver
    BY <2>1 DEF Saver
  <2> QED BY <2>1, <2>2, <2>3 DEF PassedInv
<1>16. CASE StopWriter
  <2>1. UNCHANGED <<turn, closing>> /\ (epc' = "saved" => epc = "saved")
        /\ (epc' \in {"drain", "join", "closed"} => epc \in {"drain", "join", "closed"})
    BY <1>16 DEF StopWriter, Drained, Behind
  <2>2. CleanSavers \subseteq CleanSavers'
    <3>1. EmuRuns /\ ~Flush
      BY <1>16 DEF EmuRuns, Flush, StopWriter, Drained
    <3> QED BY <3>1, <1>b
  <2>3. Saver' = Saver
    BY <2>1 DEF Saver
  <2> QED BY <2>1, <2>2, <2>3 DEF PassedInv
<1>17. CASE NothingToStop
  <2>1. UNCHANGED <<turn, closing>> /\ (epc' = "saved" => epc = "saved")
        /\ (epc' \in {"drain", "join", "closed"} => epc \in {"drain", "join", "closed"})
    BY <1>17 DEF NothingToStop, Behind
  <2>2. CleanSavers \subseteq CleanSavers'
    <3>1. EmuRuns /\ ~Flush
      BY <1>17 DEF EmuRuns, Flush, NothingToStop
    <3> QED BY <3>1, <1>b
  <2>3. Saver' = Saver
    BY <2>1 DEF Saver
  <2> QED BY <2>1, <2>2, <2>3 DEF PassedInv
<1>18. CASE JoinWriter
  <2>1. UNCHANGED <<turn, closing>> /\ (epc' = "saved" => epc = "saved")
        /\ (epc' \in {"drain", "join", "closed"} => epc \in {"drain", "join", "closed"})
    BY <1>18 DEF JoinWriter, Behind
  <2>2. CleanSavers \subseteq CleanSavers'
    <3>1. EmuRuns /\ ~Flush
      BY <1>18 DEF EmuRuns, Flush, JoinWriter
    <3> QED BY <3>1, <1>b
  <2>3. Saver' = Saver
    BY <2>1 DEF Saver
  <2> QED BY <2>1, <2>2, <2>3 DEF PassedInv
<1>19. CASE CloseGame
  <2>1. epc' = "save" /\ turn' = 1
    BY <1>19 DEF CloseGame
  <2> QED BY <2>1, <1>a DEF PassedInv
<1>20. CASE LoadGame
  BY <1>20, <1>d DEF LoadGame, PassedInv
<1>21. CASE WTake
  <2>1. UNCHANGED <<turn, closing>> /\ (epc' = "saved" => epc = "saved")
        /\ (epc' \in {"drain", "join", "closed"} => epc \in {"drain", "join", "closed"})
    BY <1>21 DEF WTake, Behind
  <2>2. CleanSavers \subseteq CleanSavers'
    <3>1. WriterRuns /\ ~Flush
      BY <1>21 DEF WriterRuns, Flush, WTake
    <3> QED BY <3>1, <1>b
  <2>3. Saver' = Saver
    BY <2>1 DEF Saver
  <2> QED BY <2>1, <2>2, <2>3 DEF PassedInv
<1>22. CASE WEnd
  <2>1. UNCHANGED <<turn, closing>> /\ (epc' = "saved" => epc = "saved")
        /\ (epc' \in {"drain", "join", "closed"} => epc \in {"drain", "join", "closed"})
    BY <1>22 DEF WEnd, SeesCancel, Behind
  <2>2. CleanSavers \subseteq CleanSavers'
    <3>1. WriterRuns /\ ~Flush
      BY <1>22 DEF WriterRuns, Flush, WEnd, SeesCancel
    <3> QED BY <3>1, <1>b
  <2>3. Saver' = Saver
    BY <2>1 DEF Saver
  <2> QED BY <2>1, <2>2, <2>3 DEF PassedInv
<1>23. CASE WOpen
  <2>1. UNCHANGED <<turn, closing>> /\ (epc' = "saved" => epc = "saved")
        /\ (epc' \in {"drain", "join", "closed"} => epc \in {"drain", "join", "closed"})
    BY <1>23 DEF WOpen, Behind
  <2>2. CleanSavers \subseteq CleanSavers'
    <3>1. WriterRuns /\ ~Flush
      BY <1>23 DEF WriterRuns, Flush, WOpen
    <3> QED BY <3>1, <1>b
  <2>3. Saver' = Saver
    BY <2>1 DEF Saver
  <2> QED BY <2>1, <2>2, <2>3 DEF PassedInv
<1>24. CASE WOpenFails
  <2>1. UNCHANGED <<turn, closing>> /\ (epc' = "saved" => epc = "saved")
        /\ (epc' \in {"drain", "join", "closed"} => epc \in {"drain", "join", "closed"})
    BY <1>24 DEF WOpenFails, Behind
  <2>2. CleanSavers \subseteq CleanSavers'
    <3>1. WriterRuns /\ ~Flush
      BY <1>24 DEF WriterRuns, Flush, WOpenFails
    <3> QED BY <3>1, <1>b
  <2>3. Saver' = Saver
    BY <2>1 DEF Saver
  <2> QED BY <2>1, <2>2, <2>3 DEF PassedInv
<1>25. CASE WWrite
  <2>1. UNCHANGED <<turn, closing>> /\ (epc' = "saved" => epc = "saved")
        /\ (epc' \in {"drain", "join", "closed"} => epc \in {"drain", "join", "closed"})
    BY <1>25 DEF WWrite, Behind
  <2>2. CleanSavers \subseteq CleanSavers'
    <3>1. WriterRuns /\ ~Flush
      BY <1>25 DEF WriterRuns, Flush, WWrite
    <3> QED BY <3>1, <1>b
  <2>3. Saver' = Saver
    BY <2>1 DEF Saver
  <2> QED BY <2>1, <2>2, <2>3 DEF PassedInv
<1>26. ASSUME NEW whole \in BOOLEAN, WWriteFails(whole)
      PROVE  PassedInv'
  <2>1. UNCHANGED <<turn, closing>> /\ (epc' = "saved" => epc = "saved")
        /\ (epc' \in {"drain", "join", "closed"} => epc \in {"drain", "join", "closed"})
    BY <1>26 DEF WWriteFails, Behind
  <2>2. CleanSavers \subseteq CleanSavers'
    <3>1. WriterRuns /\ ~Flush
      BY <1>26 DEF WriterRuns, Flush, WWriteFails
    <3> QED BY <3>1, <1>b
  <2>3. Saver' = Saver
    BY <2>1 DEF Saver
  <2> QED BY <2>1, <2>2, <2>3 DEF PassedInv
<1>27. CASE WHandBack
  <2>1. UNCHANGED <<turn, closing>> /\ (epc' = "saved" => epc = "saved")
        /\ (epc' \in {"drain", "join", "closed"} => epc \in {"drain", "join", "closed"})
    BY <1>27 DEF WHandBack, Behind
  <2>2. CleanSavers \subseteq CleanSavers'
    <3>1. WriterRuns /\ ~Flush
      BY <1>27 DEF WriterRuns, Flush, WHandBack
    <3> QED BY <3>1, <1>b
  <2>3. Saver' = Saver
    BY <2>1 DEF Saver
  <2> QED BY <2>1, <2>2, <2>3 DEF PassedInv
<1>28. CASE UNCHANGED vars
  <2>1. UNCHANGED <<turn, closing, epc>> /\ CleanSavers' = CleanSavers /\ Saver' = Saver
    BY <1>28 DEF vars, CleanSavers, Pending, Saver
  <2> QED BY <2>1 DEF PassedInv
<1> QED
  BY <1>1, <1>2, <1>3, <1>4, <1>5, <1>6, <1>7, <1>8, <1>9, <1>10, <1>11, <1>12, <1>13, <1>14, <1>15, <1>16, <1>17, <1>18, <1>19, <1>20, <1>21, <1>22, <1>23, <1>24, <1>25, <1>26, <1>27, <1>28
     DEF Next, Frame, EmuRuns, WriterRuns

LEMMA Forgotten == NothingForgotten <=> \A s \in Savers : dirty[s] \/ s \in CleanSavers
  BY DEF NothingForgotten, CleanSavers

LEMMA NothingStep ==
  ASSUME SInv, [Next]_vars
  PROVE  NothingForgotten'
<1> USE DEF SInv, memory, emu, queues, writer
<1> SUFFICES ASSUME NEW s \in Savers PROVE dirty'[s] \/ s \in CleanSavers'
  BY DEF NothingForgotten, CleanSavers
<1>a. dirty[s] \/ s \in CleanSavers
  BY Forgotten
<1>b. dirty \in [Savers -> BOOLEAN] /\ Saver \in Savers /\ file \in [Savers -> 0..Torn] /\ saveFailed \in [Savers -> BOOLEAN]
  BY SaverTyped DEF IInv, FlagTyped, NumTyped
<1>c. Torn # 0
  BY BoundAssumption DEF Torn
<1>1. ASSUME NEW changed \in SUBSET Savers, NEW simulated \in BOOLEAN, Emulate(changed, simulated)
      PROVE  dirty'[s] \/ s \in CleanSavers'
  <2>1. CASE s \in changed
    BY <1>1, <2>1 DEF Emulate
  <2>2. CASE s \notin changed
    <3>1. ram'[s] = ram[s] /\ UNCHANGED <<file, saveFailed, ejob, wjob, jobs, done>> /\ dirty'[s] = dirty[s]
      BY <1>1, <1>b, <2>2 DEF Emulate
    <3>2. s \in CleanSavers => s \in CleanSavers'
      BY <3>1 DEF CleanSavers, Pending
    <3> QED BY <1>a, <3>1, <3>2
  <2> QED BY <2>1, <2>2
<1>2. CASE Flush
  <2>1. UNCHANGED <<ram, file, dirty, ejob, wjob, jobs, done>> /\ dirty[Saver]
    BY <1>2 DEF Flush
  <2>2. s # Saver => saveFailed'[s] = saveFailed[s]
    BY <1>2, <1>b DEF Flush
  <2>3. s # Saver /\ s \in CleanSavers => s \in CleanSavers'
    BY <2>1, <2>2 DEF CleanSavers, Pending
  <2> QED BY <1>a, <2>1, <2>3
<1>3. CASE LoadGame
  <2>1. file[s] = ram[s] \/ saveFailed[s]
    <3>1. epc = "closed" /\ closing /\ ~thread /\ jobs = <<>> /\ done = <<>> /\ wjob = NoJob /\ ejob = NoJob
      BY <1>3 DEF LoadGame, StopInv, IInv, ThreadInv, Busy, EjobInv, Submitting
    <3>2. s # NoSaver /\ ~Pending(s)
      BY <3>1, OrderAssumption, RangeEmpty DEF Pending, NoJob
    <3>3. PICK i \in 1..Len(Order) : s = Order[i]
      BY OrderAssumption DEF Savers, Range
    <3>4. s \in CleanSavers
      BY <3>1, <3>3 DEF PassedInv
    <3> QED BY <3>2, <3>4 DEF CleanSavers
  <2>2. ram'[s] = (IF file[s] = Torn THEN 0 ELSE file[s]) /\ UNCHANGED <<file, saveFailed>>
    BY <1>3 DEF LoadGame
  <2>3. CASE file[s] = Torn
    <3>1. ram[s] # Torn
      BY BoundAssumption DEF IInv, NumTyped, Torn
    <3> QED BY <2>1, <2>2, <2>3, <3>1 DEF CleanSavers
  <2>4. CASE file[s] # Torn
    BY <2>2, <2>4 DEF CleanSavers
  <2> QED BY <2>3, <2>4
<1>4. CASE Saved
  <2>1. CleanSavers \subseteq CleanSavers'
    <3>1. EmuRuns /\ ~Flush
      BY <1>4 DEF EmuRuns, Flush, Saved
    <3> QED BY <3>1, CleanKept
  <2>2. s = Saver => s \in CleanSavers
    BY <1>4 DEF Saved, PassedInv
  <2>3. s # Saver => dirty'[s] = dirty[s]
    BY <1>4, <1>b DEF Saved
  <2> QED BY <1>a, <2>1, <2>2, <2>3
<1>5. CASE (EmuRuns \/ WriterRuns \/ CloseGame \/ UNCHANGED vars) /\ ~Flush /\ ~Saved
  <2>1. CleanSavers \subseteq CleanSavers'
    BY <1>5, CleanKept
  <2>2. UNCHANGED dirty
    BY <1>5 DEF vars, EmuRuns, WriterRuns, CloseGame, SkipClean, CountDown, NoMemory, SubmitToRunning,
                StartWriter, StartFails, ReapBack, ReapNoMore, ReapOldest, Reap, HandOver, WriteHere, DrainOne,
                StopWriter, NothingToStop, JoinWriter, WTake, WEnd, WOpen, WOpenFails, WWrite, WWriteFails, WHandBack
  <2> QED BY <1>a, <2>1, <2>2
<1> QED BY <1>1, <1>2, <1>3, <1>4, <1>5 DEF Next, Frame

LEMMA InitSInv == Init => SInv
<1> SUFFICES ASSUME Init PROVE SInv
  OBVIOUS
<1>1. IInv
  BY InitIInv
<1>2. EjobInv /\ StopInv
  BY DEF Init, EjobInv, Submitting, StopInv
<1>3. \A s \in Savers : file[s] = 0 /\ ram[s] = 0
  BY DEF Init
<1>4. OrderInv
  BY <1>3 DEF Init, OrderInv, InHands
<1>5. PassedInv
  BY DEF Init, PassedInv
<1>6. NothingForgotten
  BY <1>3 DEF NothingForgotten
<1> QED BY <1>1, <1>2, <1>4, <1>5, <1>6 DEF SInv

LEMMA StepSInv == SInv /\ [Next]_vars => SInv'
<1> SUFFICES ASSUME SInv, [Next]_vars PROVE SInv'
  OBVIOUS
<1>1. IInv'
  BY StepIInv DEF SInv
<1> QED BY <1>1, EjobStep, StopStep, OrderStep, PassedStep, NothingStep DEF SInv

(* What the game saved is never silently given up, whatever fails and      *)
(* whichever thread runs: at each moment it is in its file, marked dirty,  *)
(* on its way there, or its saver knows that it failed (ss.c's             *)
(* BackupRAM_SaveFailed and the save writer's hand-back).                  *)
THEOREM NothingForgottenHolds == Spec => []NothingForgotten
<1>1. SInv => NothingForgotten
  BY DEF SInv
<1> QED BY InitSInv, StepSInv, <1>1, PTL DEF Spec

(* Saves of one memory reach its file in the order they were made: the     *)
(* single writer and its FIFO never put an older save over a newer one.    *)
THEOREM SavesInOrderHolds == Spec => []SavesInOrder
<1>1. SInv => SavesInOrder
  <2> SUFFICES ASSUME SInv PROVE SavesInOrder
    OBVIOUS
  <2> USE DEF SInv
  <2> DEFINE First == IF InHands THEN <<wjob>> ELSE <<>>
             Last == IF ejob = NoJob THEN <<>> ELSE <<ejob>>
             F == Len(First)
             J == Len(jobs)
  <2>1. /\ jobs \in Seq(JobSet) /\ (InHands => wjob \in JobSet)
        /\ (ejob # NoJob => ejob = Snapshot /\ ejob \in JobSet)
    BY DEF IInv, JobTyped, HandsInv, EjobInv, InHands, Busy
  <2>2. \A job \in JobSet : job.saver \in Savers /\ job.version \in Nat
    BY DEF JobSet
  <2>3. \A s \in Savers : ram[s] \in Nat /\ file[s] \in Nat
    BY BoundAssumption DEF IInv, NumTyped, Torn
  <2>4. First \in Seq(JobSet) /\ Last \in Seq(JobSet) /\ Line = First \o jobs \o Last
    BY <2>1 DEF Line, InHands
  <2>5. /\ J \in Nat /\ DOMAIN jobs = 1..J
        /\ F \in {0, 1} /\ (F = 1 => InHands /\ First[1] = wjob)
        /\ Len(Last) \in {0, 1} /\ (Len(Last) = 1 => ejob # NoJob /\ Last[1] = ejob)
    BY <2>1
  <2>6. Len(Line) = F + J + Len(Last) /\ Len(Line) \in Nat
    <3> HIDE DEF First, Last
    <3>1. First \o jobs \in Seq(JobSet) /\ Len(First \o jobs) = F + J /\ F \in Nat /\ J \in Nat /\ Len(Last) \in Nat
      BY <2>1, <2>4
    <3> QED BY <2>4, <3>1
  <2>7. \A i \in 1..Len(Line) :
          \/ i = 1 /\ F = 1 /\ InHands /\ Line[i] = wjob
          \/ i - F \in DOMAIN jobs /\ Line[i] = jobs[i - F]
          \/ i = F + J + 1 /\ ejob # NoJob /\ Line[i] = ejob
    <3> SUFFICES ASSUME NEW i \in 1..Len(Line)
                 PROVE  \/ i = 1 /\ F = 1 /\ InHands /\ Line[i] = wjob
                        \/ i - F \in DOMAIN jobs /\ Line[i] = jobs[i - F]
                        \/ i = F + J + 1 /\ ejob # NoJob /\ Line[i] = ejob
      OBVIOUS
    <3> HIDE DEF First, Last
    <3>1. CASE i \in 1..F /\ Line[i] = First[i]
      BY <2>5, <3>1
    <3>2. CASE i - F \in 1..J /\ Line[i] = jobs[i - F]
      BY <2>5, <3>2
    <3>3. CASE i - (F + J) \in 1..Len(Last) /\ Line[i] = Last[i - (F + J)]
      <4> HIDE DEF F, J
      <4>1. i - (F + J) \in {1} /\ Len(Last) = 1
        <5>1. CASE Len(Last) = 0
          BY <3>3, <5>1
        <5>2. CASE Len(Last) = 1
          BY <3>3, <5>2
        <5> QED BY <2>5, <5>1, <5>2
      <4>2. i = F + J + 1
        BY <2>5, <2>6, <4>1
      <4> QED BY <2>5, <3>3, <4>1, <4>2
    <3> QED BY <2>1, <2>4, <3>1, <3>2, <3>3, ThreeParts
  <2> HIDE DEF First, Last, F, J
  <2>8. \A i \in 1..Len(Line) : Line[i] \in JobSet /\ Fresh(Line[i])
    <3>1. InHands => Fresh(wjob)
      BY DEF OrderInv
    <3>2. ejob # NoJob => Fresh(ejob)
      BY <2>1, <2>2, <2>3 DEF Snapshot, Fresh, OrderInv
    <3>3. \A i \in DOMAIN jobs : Fresh(jobs[i]) /\ jobs[i] \in JobSet
      BY <2>1 DEF OrderInv
    <3> QED BY <2>1, <2>7, <3>1, <3>2, <3>3
  <2>9. ASSUME NEW i \in 1..Len(Line), NEW j \in i..Len(Line), Line[j].saver = Line[i].saver
        PROVE  Line[i].version <= Line[j].version
    <3>1. j \in 1..Len(Line) /\ Line[i].version \in Nat /\ Line[j].version \in Nat
      BY <2>2, <2>8
    <3>2. CASE i = j
      BY <3>1, <3>2
    <3>3. CASE j = F + J + 1 /\ ejob # NoJob /\ Line[j] = ejob
      BY <2>1, <2>8, <2>9, <3>3 DEF Snapshot, Fresh
    <3>4. CASE i < j /\ j - F \in DOMAIN jobs /\ Line[j] = jobs[j - F]
      <4>1. CASE i = 1 /\ F = 1 /\ InHands /\ Line[i] = wjob
        BY <2>9, <3>4, <4>1 DEF OrderInv
      <4>2. CASE i - F \in DOMAIN jobs /\ Line[i] = jobs[i - F]
        <5>1. i - F < j - F
          BY <2>5, <3>4
        <5> QED BY <2>9, <3>4, <4>2, <5>1 DEF OrderInv
      <4>3. CASE i = F + J + 1
        BY <2>5, <2>6, <3>4, <4>3
      <4> QED BY <2>7, <4>1, <4>2, <4>3
    <3>5. CASE j = 1 /\ F = 1
      BY <3>2, <3>5
    <3> QED BY <2>7, <3>1, <3>2, <3>3, <3>4, <3>5
  <2> QED BY <2>8, <2>9 DEF SavesInOrder, Fresh
<1> QED BY InitSInv, StepSInv, <1>1, PTL DEF Spec

(* CloseGame leaves no job and no thread behind, and every save on its     *)
(* disk unless its saver knows of a failure ("every save on its disk       *)
(* before the game's memory goes", ss.c).                                  *)
THEOREM ClosedMeansSavedHolds == Spec => []ClosedMeansSaved
<1>1. SInv => ClosedMeansSaved
  <2> SUFFICES ASSUME SInv, epc = "closed"
               PROVE  /\ ~thread /\ wpc = "none" /\ jobs = <<>> /\ done = <<>>
                      /\ \A s \in Savers : file[s] = ram[s] \/ saveFailed[s]
    BY DEF ClosedMeansSaved
  <2> USE DEF SInv
  <2>1. ~thread /\ wpc = "none" /\ jobs = <<>> /\ done = <<>> /\ closing /\ wjob = NoJob /\ ejob = NoJob
    BY DEF StopInv, IInv, ThreadInv, Busy, EjobInv, Submitting
  <2>2. ASSUME NEW s \in Savers PROVE file[s] = ram[s] \/ saveFailed[s]
    <3>1. s # NoSaver /\ ~Pending(s)
      BY <2>1, OrderAssumption, RangeEmpty DEF Pending, NoJob
    <3>2. PICK i \in 1..Len(Order) : s = Order[i]
      BY OrderAssumption DEF Savers, Range
    <3>3. s \in CleanSavers
      BY <2>1, <3>2 DEF PassedInv
    <3> QED BY <3>1, <3>3 DEF CleanSavers
  <2> QED BY <2>1, <2>2
<1> QED BY InitSInv, StepSInv, <1>1, PTL DEF Spec
=============================================================================
