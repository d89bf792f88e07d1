--------------------------- MODULE OwnedExecution ---------------------------
(***************************************************************************)
(* One owned execution (session/owned.rs): an ExecutionOwner whose flags   *)
(* and waker are shared by the runtime's thread, which resumes, parks and  *)
(* retires it, by the host's handle, which registers wakers, cancels and   *)
(* is dropped, and by the providers that answer what the execution awaits. *)
(* Every load, store, swap and locked section is a step of its own.        *)
(***************************************************************************)
EXTENDS Naturals, FiniteSets

CONSTANTS Providers,   \* threads that wake the execution
          Wakers,      \* what the host registers
          MaxAnswers,  \* answers the providers give in all
          MaxSets,     \* registrations the host makes
          None

VARIABLES abandoned, ready, finished, cancelled, wake,  \* the ExecutionOwner
          pc, held,      \* of each thread: its step, the waker it has cloned
          handle,        \* whether the OwnedExecution is still there
          sets,          \* registrations so far
          answered,      \* answers there for the execution to find
          seen,          \* answers it has found
          told           \* the wakers that were called

owner == <<abandoned, ready, finished, cancelled, wake>>
wait == <<answered, seen>>
vars == <<owner, pc, held, handle, sets, wait, told>>

Threads == {"runtime", "host"} \cup Providers

Init ==
  /\ abandoned = FALSE /\ ready = TRUE /\ finished = FALSE /\ cancelled = FALSE /\ wake = None
  /\ pc = [t \in Threads |-> "idle"] /\ held = [t \in Threads |-> None]
  /\ handle = TRUE /\ sets = 0 /\ answered = 0 /\ seen = 0 /\ told = {}

Goto(t, l) == pc' = [pc EXCEPT ![t] = l]

\* Where a thread goes on after mark_ready: a slice that yields ends there.
Return(t) == IF t = "runtime" THEN "parked" ELSE "idle"

-----------------------------------------------------------------------------
(***************************************************************************)
(* mark_ready and notify, by any thread.                                   *)
(***************************************************************************)
LoadFinished(t) ==
  /\ pc[t] = "mark"
  /\ Goto(t, IF finished THEN Return(t) ELSE "swap")
  /\ UNCHANGED <<owner, held, handle, sets, wait, told>>

Swap(t) ==
  /\ pc[t] = "swap"
  /\ ready' = TRUE
  /\ Goto(t, IF ready THEN Return(t) ELSE "notify")
  /\ UNCHANGED <<abandoned, finished, cancelled, wake, held, handle, sets, wait, told>>

CloneWake(t) ==
  /\ pc[t] = "notify"
  /\ held' = [held EXCEPT ![t] = wake]
  /\ Goto(t, "call")
  /\ UNCHANGED <<owner, handle, sets, wait, told>>

CallWake(t) ==
  /\ pc[t] = "call"
  /\ told' = told \cup ({held[t]} \ {None})
  /\ held' = [held EXCEPT ![t] = None]
  /\ Goto(t, Return(t))
  /\ UNCHANGED <<owner, handle, sets, wait>>

Mark(t) == LoadFinished(t) \/ Swap(t) \/ CloneWake(t) \/ CallWake(t)

-----------------------------------------------------------------------------
(***************************************************************************)
(* A provider answers, then wakes.                                         *)
(***************************************************************************)
Answer(p) ==
  /\ pc[p] = "idle" /\ answered < MaxAnswers
  /\ answered' = answered + 1
  /\ Goto(p, "mark")
  /\ UNCHANGED <<owner, held, handle, sets, seen, told>>

-----------------------------------------------------------------------------
(***************************************************************************)
(* The host's handle.                                                      *)
(***************************************************************************)
\* set_waker clones the waker first.  A new waker has not been called yet.
SetWaker(w) ==
  /\ pc["host"] = "idle" /\ handle /\ sets < MaxSets
  /\ sets' = sets + 1
  /\ \A t \in Threads : held[t] # w
  /\ wake # w /\ told' = told \ {w}
  /\ held' = [held EXCEPT !["host"] = w]
  /\ Goto("host", "replace")
  /\ UNCHANGED <<owner, handle, wait>>

\* set_waker under the lock; the waker that was there is dropped after it.
Replace ==
  /\ pc["host"] = "replace"
  /\ held' = [held EXCEPT !["host"] = None]
  /\ wake' = IF finished THEN wake ELSE held["host"]
  /\ Goto("host", IF finished THEN "idle" ELSE "check")
  /\ UNCHANGED <<abandoned, ready, finished, cancelled, handle, sets, wait, told>>

\* Mutant of CheckReady: a registration does not look back.
CheckReadyMutant ==
  /\ pc["host"] = "check"
  /\ Goto("host", "idle")
  /\ UNCHANGED <<owner, held, handle, sets, wait, told>>

\* set_waker: is_ready(), and notify.
CheckReady ==
  /\ pc["host"] = "check"
  /\ Goto("host", IF ~finished /\ (ready \/ cancelled) THEN "notify" ELSE "idle")
  /\ UNCHANGED <<owner, held, handle, sets, wait, told>>

\* cancel: the token's subscription marks the execution ready.
Cancel ==
  /\ pc["host"] = "idle" /\ handle /\ ~cancelled
  /\ cancelled' = TRUE
  /\ Goto("host", "mark")
  /\ UNCHANGED <<abandoned, ready, finished, wake, held, handle, sets, wait, told>>

\* Mutant of DropHandle: an execution that is ready is not flagged.
DropHandleMutant ==
  /\ pc["host"] = "idle" /\ handle /\ pc["runtime"] \in {"idle", "gone"}
  /\ handle' = FALSE /\ abandoned' = ~ready
  /\ Goto("host", "mark")
  /\ UNCHANGED <<ready, finished, cancelled, wake, held, sets, wait, told>>

\* Drop for OwnedExecution; a slice borrows the handle.
DropHandle ==
  /\ pc["host"] = "idle" /\ handle /\ pc["runtime"] \in {"idle", "gone"}
  /\ handle' = FALSE /\ abandoned' = TRUE
  /\ Goto("host", "mark")
  /\ UNCHANGED <<ready, finished, cancelled, wake, held, sets, wait, told>>

-----------------------------------------------------------------------------
(***************************************************************************)
(* The runtime's thread.                                                   *)
(***************************************************************************)
\* resume_owned_execution, by a host that takes note of its waker first.
Resume ==
  /\ pc["runtime"] = "idle" /\ handle
  /\ ready' = FALSE
  /\ told' = told \ {wake}
  /\ Goto("runtime", "slice")
  /\ UNCHANGED <<abandoned, finished, cancelled, wake, held, handle, sets, wait>>

\* The slice polls what is awaited and finds the answers there are; a cancelled
\* one fails, and is retired.
Poll ==
  /\ pc["runtime"] = "slice"
  /\ seen' = answered
  /\ Goto("runtime", IF cancelled THEN "finish" ELSE "polled")
  /\ UNCHANGED <<owner, held, handle, sets, answered, told>>

\* Mutant of ParkWaiting: readiness is cleared as the slice ends.
ParkWaitingMutant ==
  /\ pc["runtime"] = "polled"
  /\ ready' = FALSE
  /\ Goto("runtime", "idle")
  /\ UNCHANGED <<abandoned, finished, cancelled, wake, held, handle, sets, wait, told>>

\* The slice ends waiting for more.
ParkWaiting ==
  /\ pc["runtime"] = "polled"
  /\ Goto("runtime", "idle")
  /\ UNCHANGED <<owner, held, handle, sets, wait, told>>

\* try_park_ready: the slice has more to do; it marks itself ready, and ends.
ParkReady ==
  /\ pc["runtime"] = "polled"
  /\ Goto("runtime", "mark")
  /\ UNCHANGED <<owner, held, handle, sets, wait, told>>

EndPark ==
  /\ pc["runtime"] = "parked"
  /\ Goto("runtime", "idle")
  /\ UNCHANGED <<owner, held, handle, sets, wait, told>>

\* finish_owned_execution of an execution that ran to its end.
Terminate ==
  /\ pc["runtime"] = "polled"
  /\ Goto("runtime", "finish")
  /\ UNCHANGED <<owner, held, handle, sets, wait, told>>

\* drain_owned_executions
Drain ==
  /\ pc["runtime"] = "idle" /\ abandoned
  /\ Goto("runtime", "finish")
  /\ UNCHANGED <<owner, held, handle, sets, wait, told>>

\* ExecutionOwner::finish
StoreFinished ==
  /\ pc["runtime"] = "finish"
  /\ finished' = TRUE
  /\ Goto("runtime", "unready")
  /\ UNCHANGED <<abandoned, ready, cancelled, wake, held, handle, sets, wait, told>>

ClearReady ==
  /\ pc["runtime"] = "unready"
  /\ ready' = FALSE
  /\ Goto("runtime", "take")
  /\ UNCHANGED <<abandoned, finished, cancelled, wake, held, handle, sets, wait, told>>

TakeWake ==
  /\ pc["runtime"] = "take"
  /\ wake' = None
  /\ Goto("runtime", "gone")
  /\ UNCHANGED <<abandoned, ready, finished, cancelled, held, handle, sets, wait, told>>

-----------------------------------------------------------------------------
Owner == CheckReady \/ Replace \/ \E t \in Threads : Mark(t)
Slice == Poll \/ EndPark \/ StoreFinished \/ ClearReady \/ TakeWake
EndSlice == ParkWaiting \/ ParkReady \/ Terminate

Next ==
  \/ Owner \/ Slice \/ EndSlice
  \/ \E p \in Providers : Answer(p)
  \/ (\E w \in Wakers : SetWaker(w)) \/ Cancel \/ DropHandle
  \/ Resume \/ Drain

Spec == Init /\ [][Next]_vars

\* The host resumes what its waker was told of.
ResumeTold == wake \in told /\ Resume

-----------------------------------------------------------------------------
IsReady == ~finished /\ (ready \/ cancelled)

\* A thread that has set a flag or put a waker in place and has yet to notify.
AboutToTell == \E t \in Threads : pc[t] \in {"mark", "swap", "notify", "call", "check"}

\* No lost wakeup: an execution that is parked and ready has told the waker that
\* is registered, or a thread is on its way to do so, in whichever order wakes,
\* registrations and slices come.
WakerTold ==
  pc["runtime"] = "idle" /\ wake # None /\ IsReady => wake \in told \/ AboutToTell

\* An answer that no slice has found keeps the execution ready.
NoLostAnswer ==
  pc["runtime"] = "idle" /\ seen < answered => ready \/ AboutToTell

\* The execution of a dropped handle is retired, without being resumed.
AbandonedRetires == ~handle ~> finished

-----------------------------------------------------------------------------
(***************************************************************************)
(* The inductive invariant behind the first two.  AboutToTell is too weak  *)
(* to last: a thread that is about to tell may hold a waker that has been  *)
(* replaced, and one that only looks back sets no flag.                    *)
(***************************************************************************)
Marking == {"mark", "swap", "notify", "call"}
Retired == {"unready", "take", "gone"}

\* Each thread is in the calls that it makes, and the runtime's alone retires.
Places ==
  /\ pc \in [Threads -> Marking \cup Retired \cup
              {"idle", "replace", "check", "slice", "polled", "parked", "finish"}]
  /\ \A p \in Providers : pc[p] \in Marking \cup {"idle"}
  /\ pc["host"] \in Marking \cup {"idle", "replace", "check"}
  /\ pc["runtime"] \notin {"replace", "check"}
  /\ finished <=> pc["runtime"] \in Retired
  /\ wake \in Wakers \cup {None} /\ held \in [Threads -> Wakers \cup {None}]
  /\ answered \in Nat /\ seen \in Nat

\* Where the runtime's thread is once it has polled and before it resumes again.
Polled == Marking \cup {"polled", "parked", "idle"}

\* An answer that was not found sets the flag, or is about to.
AnswerFlagged ==
  pc["runtime"] \in Polled /\ seen < answered
    => ready \/ \E t \in Threads : pc[t] \in {"mark", "swap"}

\* So does a cancellation that the slice did not find.
CancelFlagged ==
  pc["runtime"] \in Polled /\ cancelled => ready \/ pc["host"] \in {"mark", "swap"}

\* A thread that will tell the waker that is registered now.
Telling(t) == pc[t] = "notify" \/ (pc[t] = "call" /\ held[t] = wake)

ReadyTold ==
  ~finished /\ ready /\ wake # None
    => wake \in told \/ pc["host"] = "check" \/ \E t \in Threads : Telling(t)

OwnerInv == Places /\ AnswerFlagged /\ CancelFlagged /\ ReadyTold
=============================================================================
