------------------------------ MODULE WakeHub -------------------------------
(***************************************************************************)
(* Notification routing of the scheduler (scheduler/wake.rs) together with *)
(* the scheduling turn that consumes it (scheduler.rs).                    *)
(*                                                                         *)
(* Signaller threads make executions ready.  The first signal after a turn *)
(* began sets the hub's dirty bit and wakes the current route: the waker   *)
(* of a borrowed driver if there is one, else the external waker.  One     *)
(* host thread registers wakers, runs turns and selects ready work.        *)
(* Atomics and critical sections are single steps; threads interleave      *)
(* between them.  A waker is cloned under the lock and woken outside it.   *)
(***************************************************************************)
EXTENDS Naturals, FiniteSets, Sequences

CONSTANTS Work,         \* scheduled executions
          Wakers,       \* host wakers
          Signallers,   \* threads other than the host's
          Host,         \* the thread that owns the runtime
          None,         \* no waker, no execution
          MaxSerial,    \* borrowed registrations at most (u64::MAX in the code)
          MaxFaults     \* callbacks that panic, at most

Procs == Signallers \cup {Host}

VARIABLES external, borrowed, serial, closed,  \* Routes; borrowed is None or a waker
          dirty, faulted,                      \* the hub's atomics
          queue,        \* Scheduler.queue
          ready,        \* executions whose ready flag is set
          running,      \* the selected execution
          registered,   \* serial of the live DriverRegistration, 0 for none
          tokens,       \* wakers that were woken and whose task was not polled since
          pc, hand,     \* what each thread does next, the waker it cloned
          back,         \* where the host goes on after a notification
          faults, observed, deaf  \* panics so far; reported to the host; lost in a waker

routes == <<external, borrowed, serial, closed>>
flags == <<dirty, faulted, faults, observed, deaf>>
work == <<queue, ready, running>>
vars == <<routes, flags, work, registered, tokens, pc, hand, back>>

Live == {queue[k] : k \in DOMAIN queue}
Route == IF borrowed # None THEN borrowed ELSE external

Init ==
  /\ external = None /\ borrowed = None /\ serial = 0 /\ closed = FALSE
  /\ dirty = FALSE /\ faulted = FALSE
  /\ faults = 0 /\ observed = FALSE /\ deaf = FALSE
  /\ queue = <<>> /\ ready = {} /\ running = None
  /\ registered = 0
  /\ tokens = {}
  /\ pc = [p \in Procs |-> "idle"] /\ hand = [p \in Procs |-> None]
  /\ back = "idle"

Goto(p, l) == pc' = [pc EXCEPT ![p] = l]
At(p, l) == pc[p] = l

Return(p) ==
  /\ Goto(p, IF p = Host THEN back ELSE "idle")
  /\ hand' = [hand EXCEPT ![p] = None]

------------------------------------------------------------------------------
(* The hub: mark_ready, notify and contained panics, run by any thread.    *)

MarkReady(p) ==
  /\ At(p, "mark")
  /\ dirty' = TRUE
  /\ IF dirty THEN Return(p) ELSE Goto(p, "notify") /\ hand' = hand
  /\ UNCHANGED <<routes, faulted, faults, observed, deaf, work, registered, tokens, back>>

\* under the lock: clone the current route
Notify(p) ==
  /\ At(p, "notify")
  /\ IF closed \/ Route = None
       THEN Return(p)
       ELSE Goto(p, "wake") /\ hand' = [hand EXCEPT ![p] = Route]
  /\ UNCHANGED <<routes, flags, work, registered, tokens, back>>

\* outside the lock: wake_by_ref
Wake(p) ==
  /\ At(p, "wake")
  /\ tokens' = tokens \cup {hand[p]}
  /\ Return(p)
  /\ UNCHANGED <<routes, flags, work, registered, back>>

\* the waker panics: contained without another notification
WakePanics(p) ==
  /\ At(p, "wake") /\ faults < MaxFaults
  /\ faults' = faults + 1
  /\ deaf' = TRUE
  /\ faulted' = TRUE /\ dirty' = TRUE
  /\ Return(p)
  /\ UNCHANGED <<routes, observed, work, registered, tokens, back>>

\* contain_callback catches a panic: faulted is swapped, dirty is stored, and
\* only the first fault notifies, whatever the dirty bit was
Panic(p) ==
  /\ faults < MaxFaults
  /\ faults' = faults + 1
  /\ faulted' = TRUE
  /\ Goto(p, IF faulted THEN "fault" ELSE "first_fault")

\* a receiver, converter or destructor panics on a thread outside a turn, or
\* on the host's while an execution is selected
Contain(p) ==
  /\ \/ At(p, "idle") /\ back' = (IF p = Host THEN "idle" ELSE back)
     \/ At(p, "run") /\ back' = "run"
  /\ Panic(p)
  /\ UNCHANGED <<routes, dirty, observed, deaf, work, registered, tokens, hand>>

\* Mutant of ContainStore: a fault is coalesced with pending readiness.
ContainStoreMutant(p) ==
  /\ At(p, "fault") \/ At(p, "first_fault")
  /\ dirty' = TRUE
  /\ IF At(p, "first_fault") /\ ~dirty
       THEN Goto(p, "notify") /\ hand' = hand
       ELSE Return(p)
  /\ UNCHANGED <<routes, faulted, faults, observed, deaf, work, registered, tokens, back>>

ContainStore(p) ==
  /\ At(p, "fault") \/ At(p, "first_fault")
  /\ dirty' = TRUE
  /\ IF At(p, "first_fault") THEN Goto(p, "notify") /\ hand' = hand ELSE Return(p)
  /\ UNCHANGED <<routes, faulted, faults, observed, deaf, work, registered, tokens, back>>

\* ExecutionOwner::mark_ready: the first signal of an unfinished execution
\* wakes the hub
Signal(p, e) ==
  /\ At(p, "idle") /\ e \in Live /\ e \notin ready
  /\ ready' = ready \cup {e}
  /\ Goto(p, "mark")
  /\ UNCHANGED <<routes, flags, queue, running, registered, tokens, hand, back>>

------------------------------------------------------------------------------
(* The host thread between turns.                                          *)

HostIdle == At(Host, "idle") /\ back' = "idle"

\* schedule_execution: enqueue, then mark_ready; a new execution is ready
Schedule(e) ==
  /\ HostIdle /\ ~closed /\ ~faulted /\ e \notin Live
  /\ queue' = Append(queue, e)
  /\ ready' = ready \cup {e}
  /\ Goto(Host, "mark")
  /\ UNCHANGED <<routes, flags, running, registered, tokens, hand>>

\* the route is set under the lock, then readiness is replayed
Borrow(w) ==
  /\ HostIdle /\ ~closed /\ ~faulted
  /\ borrowed = None /\ serial < MaxSerial
  /\ serial' = serial + 1
  /\ borrowed' = w
  /\ registered' = serial + 1
  /\ Goto(Host, "replay")
  /\ UNCHANGED <<external, closed, flags, work, tokens, hand>>

\* Mutant of DropRegistration: readiness is not replayed to the external route.
DropRegistrationMutant ==
  /\ HostIdle /\ registered # 0
  /\ registered' = 0
  /\ borrowed' = IF registered = serial THEN None ELSE borrowed
  /\ UNCHANGED <<external, serial, closed, flags, work, tokens, pc, hand>>

\* Drop for DriverRegistration; it does nothing once the hub is closed
DropRegistration ==
  /\ HostIdle /\ registered # 0
  /\ registered' = 0
  /\ IF borrowed # None /\ registered = serial
       THEN borrowed' = None /\ Goto(Host, "replay")
       ELSE UNCHANGED <<borrowed, pc>>
  /\ UNCHANGED <<external, serial, closed, flags, work, tokens, hand>>

\* if dirty { notify() }: borrow, the registration's drop and finish_turn
Replay ==
  /\ At(Host, "replay")
  /\ Goto(Host, IF dirty THEN "notify" ELSE back)
  /\ UNCHANGED <<routes, flags, work, registered, tokens, hand, back>>

\* Runtime::close retires the work, then hub.close
Close ==
  /\ HostIdle
  /\ closed' = TRUE /\ external' = None /\ borrowed' = None
  /\ queue' = <<>> /\ ready' = {}
  /\ observed' = (observed \/ faulted)
  /\ UNCHANGED <<serial, dirty, faulted, faults, deaf, running, registered, tokens, pc, hand>>

------------------------------------------------------------------------------
(* A scheduling turn.                                                      *)

\* begin_scheduler_turn, called by the task of waker w: the route is stored
\* before readiness is looked at (update for a borrowed driver,
\* register_external otherwise)
BeginTurn(w, viaBorrowed) ==
  /\ HostIdle /\ ~closed
  /\ tokens' = tokens \ {w}
  /\ IF faulted
       THEN observed' = TRUE /\ UNCHANGED <<external, borrowed, pc>>
       ELSE /\ IF viaBorrowed
                 THEN borrowed' = w /\ external' = external
                 ELSE external' = w /\ borrowed' = borrowed
            /\ Goto(Host, "check")
            /\ observed' = observed
  /\ UNCHANGED <<serial, closed, dirty, faulted, faults, deaf, work, registered, hand>>

\* the clone of the waker panics: register_external stores no waker, update
\* stores nothing; begin_scheduler_turn fails and drops the turn
CloneRoutePanics(w, viaBorrowed) ==
  /\ At(Host, "idle") /\ ~closed /\ ~faulted
  /\ Panic(Host)
  /\ tokens' = tokens \ {w}
  /\ back' = IF viaBorrowed THEN "turn" ELSE "unroute"
  /\ UNCHANGED <<routes, dirty, observed, deaf, work, registered, hand>>

Unroute ==
  /\ At(Host, "unroute")
  /\ external' = None
  /\ Goto(Host, "turn")
  /\ UNCHANGED <<borrowed, serial, closed, flags, work, registered, tokens, hand, back>>

\* the drop of the previous waker panics: the turn is dropped as well
DropRoutePanics ==
  /\ At(Host, "check")
  /\ Panic(Host)
  /\ back' = "turn"
  /\ UNCHANGED <<routes, dirty, observed, deaf, work, registered, tokens, hand>>

\* register_external and update look for a fault last, and fail the turn if
\* there is one
CheckRoute ==
  /\ At(Host, "check")
  /\ Goto(Host, IF faulted THEN "turn" ELSE "clear")
  /\ UNCHANGED <<routes, flags, work, registered, tokens, hand, back>>

\* hub.begin_turn: a fault that came after the look loses its dirty bit here
ClearDirty ==
  /\ At(Host, "clear")
  /\ dirty' = FALSE
  /\ Goto(Host, "first")
  /\ UNCHANGED <<routes, faulted, faults, observed, deaf, work, registered, tokens, hand, back>>

Rotate(k) == SubSeq(queue, k + 1, Len(queue)) \o SubSeq(queue, 1, k)

\* next_work scans the queue once, moves what it passes to the back and
\* selects the first ready execution; resuming it clears its ready flag
NextWork ==
  /\ At(Host, "first") \/ At(Host, "turn")
  /\ ~faulted
  /\ \E k \in 1..Len(queue) :
       /\ queue[k] \in ready
       /\ \A j \in 1..(k - 1) : queue[j] \notin ready
       /\ queue' = Rotate(k)
       /\ running' = queue[k]
       /\ ready' = ready \ {queue[k]}
  /\ Goto(Host, "run")
  /\ UNCHANGED <<routes, flags, registered, tokens, hand, back>>

Park ==
  /\ At(Host, "run")
  /\ running' = None
  /\ Goto(Host, "turn")
  /\ UNCHANGED <<routes, flags, queue, ready, registered, tokens, hand, back>>

\* complete: the execution is finished and its key forgotten
Finish ==
  /\ At(Host, "run")
  /\ queue' = SelectSeq(queue, LAMBDA e : e # running)
  /\ ready' = ready \ {running}
  /\ running' = None
  /\ Goto(Host, "turn")
  /\ UNCHANGED <<routes, flags, registered, tokens, hand, back>>

\* the turn guard is dropped: finish_turn.  run_scheduler_turn calls next_work
\* at least once, then until nothing is ready or its budget is spent
EndTurn ==
  /\ At(Host, "turn") \/ (At(Host, "first") /\ (faulted \/ ready = {}))
  /\ dirty' = (dirty \/ ready # {})
  /\ observed' = (observed \/ faulted)
  /\ back' = "idle"
  /\ Goto(Host, "replay")
  /\ UNCHANGED <<routes, faulted, faults, deaf, work, registered, tokens, hand>>

------------------------------------------------------------------------------
HubStep(p) == MarkReady(p) \/ Notify(p) \/ Wake(p) \/ ContainStore(p)

Poll(w) ==
  \/ BeginTurn(w, FALSE)
  \/ borrowed # None /\ BeginTurn(w, TRUE)

PollPanics(w) ==
  \/ CloneRoutePanics(w, FALSE)
  \/ borrowed # None /\ CloneRoutePanics(w, TRUE)

TurnStep == Replay \/ Unroute \/ CheckRoute \/ ClearDirty \/ Park \/ Finish \/ EndTurn

Next ==
  \/ \E p \in Procs : HubStep(p) \/ WakePanics(p) \/ Contain(p)
  \/ \E p \in Signallers, e \in Work : Signal(p, e)
  \/ \E e \in Work : Schedule(e)
  \/ \E w \in Wakers : Borrow(w) \/ Poll(w) \/ PollPanics(w)
  \/ DropRegistration \/ DropRoutePanics \/ Close
  \/ NextWork \/ TurnStep

Spec == Init /\ [][Next]_vars

------------------------------------------------------------------------------
Quiet == \A p \in Procs : At(p, "idle")

\* When no thread is in the middle of a call and an execution is ready, the
\* task behind the current route has been woken and not yet polled: readiness
\* is never announced only to a waker that has been replaced, borrowed over or
\* given back.  After a fault the host only closes the runtime.
ReadyIsAnnounced ==
  Quiet /\ ~closed /\ ~faulted /\ ready # {} /\ Route # None => Route \in tokens

\* A callback that panics on any thread is reported to the host or the host
\* has been woken to find it, even if every execution waits and the dirty bit
\* was set before.  A waker that panics itself is the one exception.
FaultReported ==
  Quiet /\ ~closed /\ ~deaf /\ faulted /\ ~observed /\ Route # None
    => Route \in tokens

------------------------------------------------------------------------------
(***************************************************************************)
(* The inductive invariant behind the two.  What a quiet state promises is *)
(* owed, in the other states, by a thread that has yet to clone the route, *)
(* by one that has cloned the route in place now, or by the host, which    *)
(* looks back after it has changed the route and at the end of its turn.   *)
(***************************************************************************)
HubLabels == {"mark", "notify", "wake", "fault", "first_fault"}
TurnLabels == {"check", "clear", "first", "turn", "run", "unroute"}

Places ==
  /\ pc \in [Procs -> HubLabels \cup TurnLabels \cup {"idle", "replay"}]
  /\ DOMAIN hand = Procs
  /\ back \in {"idle", "run", "turn", "unroute"}
  /\ \A p \in Procs : pc[p] \in {"fault", "first_fault"} => faulted

\* The host is in a turn, or in a notification that returns to one.
InTurn ==
  pc[Host] \in TurnLabels \/ (pc[Host] \in HubLabels /\ back \in TurnLabels)

Telling(p) == At(p, "notify") \/ (At(p, "wake") /\ hand[p] = Route)

\* The route in place has been told, or will be.
Told ==
  Route # None => Route \in tokens \/ InTurn \/ At(Host, "replay") \/ \E p \in Procs : Telling(p)

\* Readiness sets the dirty bit, at the end of the turn if not before.
ReadyIsDirty == ready # {} => dirty \/ InTurn \/ \E p \in Procs : At(p, "mark")

\* A fault leaves the dirty bit set.  A turn that clears it after all, since it
\* had looked before, reports the fault when it ends.
FaultIsDirty == faulted => dirty \/ InTurn \/ \E p \in Procs : At(p, "first_fault")

HubInv ==
  /\ Places
  /\ ~closed /\ ~faulted => back = "idle" /\ ReadyIsDirty /\ (dirty => Told)
  /\ ~closed /\ ~deaf /\ faulted /\ ~observed
       => FaultIsDirty /\ (Told \/ \E p \in Procs : At(p, "first_fault"))

=============================================================================
