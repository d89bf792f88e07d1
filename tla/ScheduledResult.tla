--------------------------- MODULE ScheduledResult --------------------------
(***************************************************************************)
(* The result cell of a scheduled execution (scheduler/result.rs) between  *)
(* its receiver, which polls, cancels or drops the ticket on any thread,   *)
(* and the scheduler, which converts the output, retires the execution and *)
(* publishes the outcome.  Every critical section, every load and every    *)
(* run of contained host code is a step of its own.  The wake hub appears  *)
(* by its fault flag and by whether it was told that there is work; the    *)
(* module WakeHub shows that this reaches the driver.                      *)
(***************************************************************************)
EXTENDS Naturals

CONSTANTS Wakers,     \* wakers the receiver polls with
          None,
          MaxFaults   \* host callbacks that panic, at most

VARIABLES result, waker, abandoned,  \* State, under the mutex
          finished,    \* ResultCell.finished
          consumed,    \* ScheduledResult.consumed
          cancelled,   \* the execution's cancellation token
          faulted,     \* WakeHub.faulted
          marked,      \* the hub has been told of work
          rpc,         \* the receiver's next step
          hand, took,  \* poll: the waker it cloned, the result it took
          pending,     \* the waker of the last poll that returned Pending
          got,         \* what poll handed over
          spc,         \* the scheduler's next step
          prepared,    \* TypedSink.prepared holds the converted output
          outcome,     \* the outcome being published
          taken,       \* the waker publish took
          woken,       \* wakers woken since they were last polled with
          faults       \* panics so far

cell == <<result, waker, abandoned>>
poll == <<consumed, hand, took, pending, got>>
sink == <<prepared, outcome, taken>>
panics == <<faulted, faults>>
vars == <<cell, poll, sink, panics, finished, cancelled, marked, rpc, spc, woken>>

Outcomes == {"ok", "err", "fault"}

ASSUME NoneAssumption == None \notin Wakers \cup Outcomes

\* Types; publish wakes only what it took from the cell, and a poll returns with
\* a waker that it was given.
TypeOK ==
  /\ result \in Outcomes \cup {None} /\ waker \in Wakers \cup {None}
  /\ {abandoned, finished, consumed, cancelled, marked, faulted, prepared} \subseteq BOOLEAN
  /\ rpc \in {"idle", "lock", "check", "cancel", "request", "discard", "sync", "gone"}
  /\ hand \in Wakers \cup {None} /\ pending \in Wakers \cup {None}
  /\ took \in Outcomes \cup {None} /\ got \in Outcomes \cup {None}
  /\ spc \in {"run", "retire", "publish", "verdict", "store", "wake", "end", "done"}
  /\ outcome \in Outcomes \cup {None} /\ taken \in Wakers \cup {None}
  /\ woken \subseteq Wakers /\ faults \in 0..MaxFaults

Init ==
  /\ result = None /\ waker = None /\ abandoned = FALSE
  /\ finished = FALSE /\ consumed = FALSE /\ cancelled = FALSE
  /\ faulted = FALSE /\ faults = 0 /\ marked = TRUE
  /\ rpc = "idle" /\ hand = None /\ took = None /\ pending = None /\ got = None
  /\ spc = "run" /\ prepared = FALSE /\ outcome = None /\ taken = None
  /\ woken = {}

\* WakeHub::contain: the host code returns, or it panics, which faults the hub
\* and wakes the driver.
Returns == UNCHANGED panics
Panics == faults < MaxFaults /\ faults' = faults + 1 /\ faulted' = TRUE

-----------------------------------------------------------------------------
(***************************************************************************)
(* The receiver.                                                           *)
(***************************************************************************)
\* poll(): clone the waker, contained.
PollClone(w) ==
  /\ rpc = "idle" /\ ~consumed
  /\ \/ Returns /\ hand' = w /\ UNCHANGED marked
     \/ Panics /\ hand' = None /\ marked' = TRUE
  /\ rpc' = "lock" /\ pending' = None
  /\ woken' = woken \ {w}
  /\ UNCHANGED <<cell, consumed, took, got, sink, finished, cancelled, spc>>

\* Mutant of PollLock: a waker that is registered already is kept.
PollLockMutant ==
  /\ rpc = "lock"
  /\ took' = result
  /\ result' = None
  /\ waker' = IF result # None THEN None ELSE IF waker # None THEN waker ELSE hand
  /\ rpc' = "check"
  /\ UNCHANGED <<abandoned, consumed, hand, pending, got, sink, panics, finished,
                 cancelled, marked, spc, woken>>

\* poll(): exchange the waker for the result under the lock.
PollLock ==
  /\ rpc = "lock"
  /\ took' = result
  /\ result' = None
  /\ waker' = IF result = None THEN hand ELSE None
  /\ rpc' = "check"
  /\ UNCHANGED <<abandoned, consumed, hand, pending, got, sink, panics, finished,
                 cancelled, marked, spc, woken>>

\* poll(): drop the wakers, contained; then return the result, the fault, or
\* Pending.
PollCheck ==
  /\ rpc = "check"
  /\ \/ Returns /\ UNCHANGED marked
     \/ Panics /\ marked' = TRUE
  /\ IF took = None /\ ~faulted'
     THEN pending' = hand /\ rpc' = "idle" /\ UNCHANGED <<got, consumed>>
     ELSE /\ got' = IF took = None THEN "fault" ELSE took
          /\ rpc' = IF took = None THEN "cancel" ELSE "idle"
          /\ consumed' = TRUE
          /\ UNCHANGED pending
  /\ hand' = None /\ took' = None
  /\ UNCHANGED <<cell, sink, finished, cancelled, spc, woken>>

\* What follows a cancel(): for a ticket that is dropped, its destructor.
AfterCancel == IF abandoned THEN "discard" ELSE "idle"

\* cancel(): nothing to do once the execution has finished.
CancelLoad ==
  /\ rpc \in {"idle", "cancel"}
  /\ rpc' = IF finished THEN AfterCancel ELSE "request"
  /\ UNCHANGED <<cell, poll, sink, panics, finished, cancelled, marked, spc, woken>>

\* Mutant of CancelRequest: the hub is not told.
CancelRequestMutant ==
  /\ rpc = "request"
  /\ cancelled' = TRUE
  /\ \/ Returns /\ UNCHANGED marked
     \/ Panics /\ marked' = TRUE
  /\ rpc' = AfterCancel
  /\ UNCHANGED <<cell, poll, sink, finished, spc, woken>>

\* cancel(): the token, whose subscribers may panic, then mark_ready().
CancelRequest ==
  /\ rpc = "request"
  /\ cancelled' = TRUE /\ marked' = TRUE
  /\ (Returns \/ Panics)
  /\ rpc' = AfterCancel
  /\ UNCHANGED <<cell, poll, sink, finished, spc, woken>>

\* Drop for ScheduledResult: abandon the cell and detach what it holds; then
\* cancel().
DropTicket ==
  /\ rpc = "idle"
  /\ abandoned' = TRUE /\ result' = None /\ waker' = None
  /\ rpc' = "cancel"
  /\ UNCHANGED <<poll, sink, panics, finished, cancelled, marked, spc, woken>>

\* Drop for ScheduledResult: destroy what was detached, contained.
Discard ==
  /\ rpc = "discard"
  /\ \/ Returns /\ UNCHANGED marked
     \/ Panics /\ marked' = TRUE
  /\ rpc' = "gone"
  /\ UNCHANGED <<cell, poll, sink, finished, cancelled, spc, woken>>

-----------------------------------------------------------------------------
(***************************************************************************)
(* The scheduler.                                                          *)
(***************************************************************************)
\* The execution has a value: InvocationActivation::prepare().  A dropped
\* receiver refuses it; the converter may fail or panic; a fault or a failed
\* poll_execution() overrides a conversion that went well.
Prepare ==
  /\ spc = "run"
  /\ IF abandoned
     THEN prepared' = FALSE /\ outcome' = "err" /\ Returns /\ UNCHANGED marked
     ELSE \/ /\ Returns /\ UNCHANGED marked
             /\ prepared' \in BOOLEAN
             /\ outcome' \in IF prepared' /\ ~faulted THEN {"ok", "err"} ELSE {"err"}
          \/ /\ Panics /\ marked' = TRUE
             /\ prepared' = FALSE /\ outcome' = "err"
  /\ spc' = "retire"
  /\ UNCHANGED <<cell, poll, taken, finished, cancelled, rpc, woken>>

\* The backend retires the session before complete(); a failed cleanup takes
\* the place of the success.
Retire ==
  /\ spc = "retire"
  /\ outcome' \in {outcome, "err"}
  /\ spc' = "publish"
  /\ UNCHANGED <<cell, poll, prepared, taken, panics, finished, cancelled, marked, rpc, woken>>

\* An error of the execution, or an activation that the backend drops:
\* retire_invocation().
Fail ==
  /\ spc = "run"
  /\ outcome' = "err"
  /\ spc' = "publish"
  /\ UNCHANGED <<cell, poll, prepared, taken, panics, finished, cancelled, marked, rpc, woken>>

\* retire_invocation() while the activation is still in scope: the execution
\* stays, cancelled.
Postpone ==
  /\ spc = "run"
  /\ cancelled' = TRUE /\ marked' = TRUE
  /\ (Returns \/ Panics)
  /\ UNCHANGED <<cell, poll, sink, finished, rpc, spc, woken>>

\* The turn that the hub asked for: next_work() retires a cancelled execution;
\* after a fault the driver closes the runtime, which retires every one.
RetireCancelled ==
  /\ spc = "run" /\ marked /\ (cancelled \/ faulted)
  /\ outcome' = "err"
  /\ spc' = "publish"
  /\ UNCHANGED <<cell, poll, prepared, taken, panics, finished, cancelled, marked, rpc, woken>>

\* A turn that finds neither: the hub's mark is cleared.
Turn ==
  /\ spc = "run" /\ marked /\ ~cancelled /\ ~faulted
  /\ marked' = FALSE
  /\ UNCHANGED <<cell, poll, sink, panics, finished, cancelled, rpc, spc, woken>>

\* cancel_scheduled_execution(): synchronous, on the ticket it borrows.
CancelScheduled ==
  /\ rpc = "idle" /\ spc = "run"
  /\ rpc' = "sync"
  /\ outcome' = "err"
  /\ spc' = "publish"
  /\ UNCHANGED <<cell, poll, prepared, taken, panics, finished, cancelled, marked, woken>>

\* publish(): drop the converter and the output of a failed execution, contained.
PublishDrop ==
  /\ spc = "publish"
  /\ \/ Returns /\ UNCHANGED marked
     \/ Panics /\ marked' = TRUE
  /\ prepared' = (prepared /\ outcome = "ok")
  /\ spc' = "verdict"
  /\ UNCHANGED <<cell, poll, outcome, taken, finished, cancelled, rpc, woken>>

\* publish(): a fault takes the place of the outcome; the output of a success
\* moves into the result.
PublishCheck ==
  /\ spc = "verdict"
  /\ outcome' = IF faulted THEN "fault" ELSE outcome
  /\ prepared' = (prepared /\ outcome' # "ok")
  /\ spc' = "store"
  /\ UNCHANGED <<cell, poll, taken, panics, finished, cancelled, marked, rpc, woken>>

\* publish(): under the lock, store the result unless the receiver has gone,
\* say that the execution has finished, take the waker.
PublishLock ==
  /\ spc = "store"
  /\ result' = IF abandoned THEN None ELSE outcome
  /\ finished' = TRUE
  /\ taken' = waker /\ waker' = None
  /\ spc' = "wake"
  /\ UNCHANGED <<abandoned, poll, prepared, outcome, panics, cancelled, marked, rpc, woken>>

\* publish(): wake the receiver, contained.
PublishWake ==
  /\ spc = "wake"
  /\ \/ taken = None /\ Returns /\ UNCHANGED <<woken, marked>>
     \/ taken # None /\ Returns /\ woken' = woken \cup {taken} /\ UNCHANGED marked
     \/ taken # None /\ Panics /\ marked' = TRUE /\ UNCHANGED woken
  /\ taken' = None
  /\ spc' = "end"
  /\ UNCHANGED <<cell, poll, prepared, outcome, finished, cancelled, rpc>>

\* publish(): drop the waker, a discarded result, an output that a fault kept
\* back, and the execution, contained.
PublishEnd ==
  /\ spc = "end"
  /\ \/ Returns /\ UNCHANGED marked
     \/ Panics /\ marked' = TRUE
  /\ prepared' = FALSE
  /\ spc' = "done"
  /\ rpc' = IF rpc = "sync" THEN "idle" ELSE rpc
  /\ UNCHANGED <<cell, poll, outcome, taken, finished, cancelled, woken>>

-----------------------------------------------------------------------------
Publish == PublishDrop \/ PublishCheck \/ PublishLock \/ PublishWake \/ PublishEnd

Sink == \/ Prepare \/ Retire \/ Fail \/ Postpone \/ RetireCancelled \/ Turn
        \/ CancelScheduled \/ Publish

Receiver == \/ PollLock \/ PollCheck \/ (rpc = "cancel" /\ CancelLoad)
            \/ CancelRequest \/ Discard

Next ==
  \/ \E w \in Wakers : PollClone(w)
  \/ CancelLoad \/ DropTicket
  \/ PollLock \/ PollCheck \/ CancelRequest \/ Discard
  \/ Sink

Spec == Init /\ [][Next]_vars

-----------------------------------------------------------------------------
(***************************************************************************)
(* Properties.                                                             *)
(***************************************************************************)
Waiting == rpc = "idle" /\ ~consumed /\ pending # None

\* A receiver whose last poll returned Pending is registered with the waker of
\* that poll, or publish() holds that waker, or has woken it: a poll and a
\* publication that cross do not leave the receiver asleep.  A fault of the hub
\* is the one excuse: its panic may have been the waker's own.
NoLostResult ==
  Waiting /\ ~faulted => waker = pending \/ taken = pending \/ pending \in woken

\* What is_finished() announces is there: the result waits in the cell until the
\* receiver takes it, gives up over a fault, or goes; and a cell whose receiver
\* has gone keeps neither a result nor a waker alive.
ResultKept ==
  /\ finished /\ ~consumed /\ ~abandoned /\ took = None => result # None
  /\ abandoned => result = None /\ waker = None

\* The invariant the proofs use.  Between its critical section and its return a
\* poll that took nothing is covered like one that returned Pending; a dropped
\* ticket never polls again; the scheduler holds a waker only on its way to it.
Covered(w) == w # None => waker = w \/ taken = w \/ w \in woken
IInv ==
  /\ rpc = "check" /\ took = None /\ ~faulted => Covered(hand)
  /\ rpc \in {"idle", "request", "sync"} /\ ~consumed /\ ~abandoned /\ ~faulted => Covered(pending)
  /\ rpc \in {"idle", "lock", "check", "sync"} => ~abandoned
  /\ rpc = "cancel" => abandoned \/ consumed
  /\ rpc # "check" => took = None
  /\ spc # "wake" => taken = None
  /\ spc \in {"retire", "publish", "verdict", "store"} => outcome # None
  /\ ResultKept

\* A cancelled execution, a dropped ticket and a contained panic all lead to a
\* published outcome, and publication ends: a receiver that cancels while the
\* driver sleeps does not wait forever.
CancelEnds == (cancelled \/ abandoned \/ faulted) ~> (finished /\ spc = "done")
=============================================================================
