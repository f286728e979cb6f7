----------------------------- MODULE EventCount -----------------------------
(***************************************************************************)
(* mednafen/thread_eventcount.c: an event that exactly one thread waits on *)
(* and any thread may notify.  Every atomic access of the code is one      *)
(* step.  The waiter runs the loop all of its callers write: test the      *)
(* predicate, prepare, test it again, then cancel or commit.  The          *)
(* predicate is `pending': a notifier publishes it before it notifies, and *)
(* the waiter consumes it.                                                 *)
(*                                                                         *)
(* The build decides the backend: "address" is futex and WaitOnAddress;    *)
(* "sleep", where there is neither, polls the epoch between timed sleeps.  *)
(***************************************************************************)
EXTENDS Naturals

CONSTANTS
  Notifiers,    \* the threads that notify the event
  Backends,     \* the builds considered: "address", "sleep"
  EpochMod,     \* values of the epoch counter (2^32 in the code)
  SpinBudget    \* polls before parking (256, or 0 on one core)

ASSUME BackendAssumption == Backends \subseteq {"address", "sleep"}
ASSUME EpochAssumption == EpochMod \in Nat /\ EpochMod > 1
ASSUME SpinAssumption == SpinBudget \in Nat

VARIABLES
  backend,   \* the build's backend, which no step changes
  epoch,     \* ec->epoch
  waiters,   \* ec->waiters: 0, 1 registered, 2 about to park
  pending,   \* the caller's predicate
  wpc,       \* the waiter's next step
  key,       \* the epoch the waiter read in prepare_wait
  spins,     \* polls done in address_park
  timed,     \* the wait in progress has a timeout
  asleep,    \* the kernel has the waiter on the address's queue
  npc,       \* each notifier's next step
  lag        \* notifications since key was read (history variable)

eventVars == <<backend, epoch, waiters, pending, wpc, key, spins, timed, asleep, npc, lag>>

WaiterSteps == {"test", "register", "readkey", "retest", "cancel", "spin",
                "arm", "kcheck", "kwait", "asleep", "poll", "disarm"}

(* The waiter holds a key it will compare with the epoch. *)
InWindow == wpc \in {"retest", "spin", "arm", "kcheck", "kwait", "asleep", "poll"}

(* The waiters count as the waiter's own steps make it. *)
Registered == IF wpc \in {"test", "register"} THEN 0
              ELSE IF wpc \in {"kcheck", "kwait", "asleep", "poll", "disarm"} THEN 2
              ELSE 1

EventInit ==
  /\ backend \in Backends
  /\ epoch = 0 /\ waiters = 0 /\ pending = FALSE
  /\ wpc = "test" /\ key = 0 /\ spins = 0 /\ timed = FALSE /\ asleep = FALSE
  /\ npc = [n \in Notifiers |-> "idle"]
  /\ lag = 0

-----------------------------------------------------------------------------
(* A notifier: publish, add to the epoch, load waiters, wake. *)

NotifyStep(n, from, to) == npc[n] = from /\ npc' = [npc EXCEPT ![n] = to]

(* The caller makes its predicate true before it notifies. *)
Publish(n) ==
  /\ NotifyStep(n, "idle", "bump")
  /\ pending' = TRUE
  /\ UNCHANGED <<backend, epoch, waiters, wpc, key, spins, timed, asleep, lag>>

(* Bound: fewer than EpochMod notifications fall within one wait, or the *)
(* epoch comes round to the waiter's key.                                *)
NotifyBump(n) ==
  /\ InWindow => lag < EpochMod - 1
  /\ NotifyStep(n, "bump", "load")
  /\ epoch' = IF epoch = EpochMod - 1 THEN 0 ELSE epoch + 1
  /\ lag' = IF InWindow THEN lag + 1 ELSE lag
  /\ UNCHANGED <<backend, waiters, pending, wpc, key, spins, timed, asleep>>

WakeNeeded == waiters >= 2

NotifyLoad(n) ==
  /\ NotifyStep(n, "load", IF WakeNeeded THEN "wake" ELSE "idle")
  /\ UNCHANGED <<backend, epoch, waiters, pending, wpc, key, spins, timed, asleep, lag>>

(* FUTEX_WAKE or WakeByAddressAll; no call in the sleep build. *)
NotifyWake(n) ==
  /\ NotifyStep(n, "wake", "idle")
  /\ asleep' = FALSE
  /\ UNCHANGED <<backend, epoch, waiters, pending, wpc, key, spins, timed, lag>>

-----------------------------------------------------------------------------
(* The waiter. *)

WaitStep(from, to) == wpc = from /\ wpc' = to

(* The caller's loop: consume what is there, or start to wait. *)
TestPredicate ==
  /\ wpc = "test"
  /\ wpc' = IF pending THEN "test" ELSE "register"
  /\ pending' = FALSE
  /\ UNCHANGED <<backend, epoch, waiters, key, spins, timed, asleep, npc, lag>>

PrepareRegister ==
  /\ WaitStep("register", "readkey")
  /\ waiters' = waiters + 1
  /\ UNCHANGED <<backend, epoch, pending, key, spins, timed, asleep, npc, lag>>

PrepareReadKey ==
  /\ WaitStep("readkey", "retest")
  /\ key' = epoch
  /\ lag' = 0
  /\ UNCHANGED <<backend, epoch, waiters, pending, spins, timed, asleep, npc>>

Retest == wpc' = IF pending THEN "cancel" ELSE "spin"

(* The second test of the predicate; the commit may carry a timeout. *)
RetestPredicate ==
  /\ wpc = "retest"
  /\ Retest
  /\ spins' = 0
  /\ timed' \in BOOLEAN
  /\ UNCHANGED <<backend, epoch, waiters, pending, key, asleep, npc, lag>>

(* One poll of address_park, or the end of the budget. *)
Spin ==
  /\ wpc = "spin"
  /\ IF spins = SpinBudget
     THEN wpc' = "arm" /\ UNCHANGED spins
     ELSE IF epoch # key
          THEN wpc' = "cancel" /\ UNCHANGED spins
          ELSE wpc' = "spin" /\ spins' = spins + 1
  /\ UNCHANGED <<backend, epoch, waiters, pending, key, timed, asleep, npc, lag>>

ArmedCount == waiters + 1

Arm ==
  /\ WaitStep("arm", "kcheck")
  /\ waiters' = ArmedCount
  /\ UNCHANGED <<backend, epoch, pending, key, spins, timed, asleep, npc, lag>>

(* kernel_park's first comparison, common to the backends. *)
KernelCheck ==
  /\ wpc = "kcheck"
  /\ wpc' = IF epoch # key THEN "disarm"
            ELSE IF backend = "address" THEN "kwait" ELSE "poll"
  /\ UNCHANGED <<backend, epoch, waiters, pending, key, spins, timed, asleep, npc, lag>>

MutMayPark == TRUE
MayPark == epoch = key

(* The kernel compares the epoch with the key and queues the thread in   *)
(* one atomic step, or returns EAGAIN.                                   *)
KernelWait ==
  /\ wpc = "kwait"
  /\ asleep' = MayPark
  /\ wpc' = IF MayPark THEN "asleep" ELSE "disarm"
  /\ UNCHANGED <<backend, epoch, waiters, pending, key, spins, timed, npc, lag>>

(* The waiter runs again once the kernel has taken it off the queue. *)
Woken ==
  /\ ~asleep
  /\ WaitStep("asleep", "disarm")
  /\ UNCHANGED <<backend, epoch, waiters, pending, key, spins, timed, asleep, npc, lag>>

(* The kernel returns early: a signal, a stray wake, or the timeout. *)
EarlyReturn ==
  /\ WaitStep("asleep", "disarm")
  /\ asleep' = FALSE
  /\ UNCHANGED <<backend, epoch, waiters, pending, key, spins, timed, npc, lag>>

MutPollSees == epoch > key
PollSees == epoch # key

(* One turn of the timed-sleep loop. *)
SleepPoll ==
  /\ PollSees
  /\ WaitStep("poll", "disarm")
  /\ UNCHANGED <<backend, epoch, waiters, pending, key, spins, timed, asleep, npc, lag>>

SleepTimeout ==
  /\ timed
  /\ ~PollSees
  /\ WaitStep("poll", "disarm")
  /\ UNCHANGED <<backend, epoch, waiters, pending, key, spins, timed, asleep, npc, lag>>

Disarm ==
  /\ WaitStep("disarm", "cancel")
  /\ waiters' = waiters - 1
  /\ UNCHANGED <<backend, epoch, pending, key, spins, timed, asleep, npc, lag>>

CancelWait ==
  /\ WaitStep("cancel", "test")
  /\ waiters' = waiters - 1
  /\ UNCHANGED <<backend, epoch, pending, key, spins, timed, asleep, npc, lag>>

-----------------------------------------------------------------------------
Notify(n) == NotifyBump(n) \/ NotifyLoad(n) \/ NotifyWake(n)

Waiter ==
  \/ TestPredicate \/ PrepareRegister \/ PrepareReadKey \/ RetestPredicate
  \/ Spin \/ Arm \/ KernelCheck \/ KernelWait \/ Woken \/ SleepPoll
  \/ Disarm \/ CancelWait

EventNext ==
  \/ \E n \in Notifiers : Publish(n) \/ Notify(n)
  \/ Waiter
  \/ EarlyReturn
  \/ SleepTimeout

(* Both threads keep running what they have begun.  Nothing makes a      *)
(* notifier publish, and nothing makes the kernel return early.          *)
Fairness == WF_eventVars(Waiter) /\ \A n \in Notifiers : WF_eventVars(Notify(n))

EventSpec == EventInit /\ [][EventNext]_eventVars /\ Fairness

-----------------------------------------------------------------------------
EventTypeOK ==
  /\ backend \in Backends
  /\ epoch \in 0..EpochMod - 1 /\ key \in 0..EpochMod - 1 /\ lag \in 0..EpochMod - 1
  /\ waiters \in 0..2
  /\ pending \in BOOLEAN /\ timed \in BOOLEAN /\ asleep \in BOOLEAN
  /\ wpc \in WaiterSteps
  /\ spins \in 0..SpinBudget
  /\ npc \in [Notifiers -> {"idle", "bump", "load", "wake"}]

(* No lost wakeup (the comment in address_park, lines 149-152): a waiter *)
(* asleep in the kernel on a predicate that is true, or on an epoch that *)
(* has moved, has a notifier on its way to wake it.                      *)
NoLostWakeup ==
  asleep =>
    /\ epoch # key => \E n \in Notifiers : npc[n] \in {"load", "wake"}
    /\ pending => \E n \in Notifiers : npc[n] # "idle"

(* The implementation of the abstract event: a wait is under way from the *)
(* read of the key to the step that decides to return.                    *)
Event == INSTANCE WaitEvent WITH
  st <- IF ~InWindow THEN "running" ELSE IF wpc = "retest" THEN "prepared" ELSE "waiting",
  signalled <- InWindow /\ lag > 0

(* The code's event is a WaitEvent: in particular a wait that has been    *)
(* notified returns under the fairness of the two threads alone.          *)
ImplementsWaitEvent == Event!Spec
=============================================================================
