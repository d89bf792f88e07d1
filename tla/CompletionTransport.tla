------------------------- MODULE CompletionTransport -------------------------
(***************************************************************************)
(* The bounded completion transport of kagari-runtime/src/native/          *)
(* completion.rs, with the way native/future.rs and frame/waiting.rs use   *)
(* it.                                                                     *)
(*                                                                         *)
(* The runtime's thread owns the operations and makes one call at a time;  *)
(* producers complete operations on threads of their own.  A step is one   *)
(* critical section, or host code that runs outside the locks.  Host code  *)
(* (wakers, cancellation hooks, destructors) may panic: the registry is    *)
(* then faulted.                                                           *)
(***************************************************************************)
EXTENDS Naturals, FiniteSets

CONSTANTS
    Ops,        \* operations, each the result of one reserve()
    Producers,  \* threads that call complete() once
    Serves,     \* the operation each producer has a Completion of
    Capacity,   \* slots of the registry
    MaxGen,     \* the last generation of a slot
    None

ASSUME ServesAssumption == Serves \in [Producers -> Ops]
ASSUME CapacityAssumption == Capacity \in Nat \ {0}
ASSUME GenAssumption == MaxGen \in Nat
ASSUME NoneAssumption ==
    None \notin Nat \cup Producers \cup Ops \cup ((1..Capacity) \X (0..MaxGen))
ASSUME ProducersAssumption == {"Pending", "Retired"} \cap Producers = {}

VARIABLES
    slots,      \* Registry::slots, those pushed so far
    faulted,    \* Registry::faulted
    op,         \* the life of each Operation
    status,     \* CompletionState::status: "Pending", "Retired", or who completed it
    waker,      \* CompletionState::waker is set
    hook,       \* Operation::cancel: "none", "armed", "run" or "dropped"
    lease,      \* Operation::lease: the slot and generation, or None
    call,       \* the call the runtime's thread is in
    pc,         \* where each producer is
    woken,      \* readiness of the execution that waits for the operation
    delivered   \* the result that poll() handed over

vars == <<slots, faulted, op, status, waker, hook, lease, call, pc, woken, delivered>>

SlotIds == 1..Capacity
Generations == 0..MaxGen
Slot == [pushed : BOOLEAN, active : BOOLEAN, generation : Generations \cup {None}]
NoCall == [kind |-> "none", on |-> None, payload |-> None]

\* Types; a slot's generation stays within its width, whatever order releases come in.
TypeOK ==
    /\ slots \in [SlotIds -> Slot]
    /\ faulted \in BOOLEAN
    /\ op \in [Ops -> {"new", "running", "polled", "parked", "retired"}]
    /\ status \in [Ops -> {"Pending", "Retired"} \cup Producers]
    /\ waker \in [Ops -> BOOLEAN]
    /\ hook \in [Ops -> {"none", "armed", "run", "dropped"}]
    /\ lease \in [Ops -> (SlotIds \X Generations) \cup {None}]
    /\ call \in [kind : {"none", "waking", "claimed", "cancelling", "releasing"},
                 on : Ops \cup {None}, payload : Producers \cup {None}]
    /\ pc \in [Producers -> {"idle", "waking", "accepted", "rejected"}]
    /\ woken \in [Ops -> BOOLEAN]
    /\ delivered \in [Ops -> Producers \cup {None}]

Init ==
    /\ slots = [s \in SlotIds |-> [pushed |-> FALSE, active |-> FALSE, generation |-> 0]]
    /\ faulted = FALSE
    /\ op = [o \in Ops |-> "new"]
    /\ status = [o \in Ops |-> "Pending"]
    /\ waker = [o \in Ops |-> FALSE]
    /\ hook = [o \in Ops |-> "none"]
    /\ lease = [o \in Ops |-> None]
    /\ call = NoCall
    /\ pc = [p \in Producers |-> "idle"]
    /\ woken = [o \in Ops |-> FALSE]
    /\ delivered = [o \in Ops |-> None]

\* Registry::contain: host code ran, and may have panicked.
MayPanic == faulted' \in {faulted, TRUE}

\* Status::Ready of an operation is the producer whose result it holds.
Ready(o) == status[o] \in Producers

\* The execution that waits for the operation runs; "polled" once it has found
\* the operation pending.
Running(o) == op[o] \in {"running", "polled"}

-----------------------------------------------------------------------------
(***************************************************************************)
(* The runtime's thread.                                                   *)
(***************************************************************************)
Reusable == {s \in SlotIds : slots[s].pushed /\ ~slots[s].active
                              /\ slots[s].generation # None}
Unpushed == {s \in SlotIds : ~slots[s].pushed}

\* reserve(): the first slot that can be used again, or else a new one.
Reserve(o, s) ==
    /\ call = NoCall /\ ~faulted
    /\ op[o] = "new"
    /\ s \in IF Reusable # {} THEN Reusable ELSE Unpushed
    /\ \A t \in IF Reusable # {} THEN Reusable ELSE Unpushed : s <= t
    /\ slots' = [slots EXCEPT ![s] = [pushed |-> TRUE, active |-> TRUE,
                                      generation |-> slots[s].generation]]
    /\ lease' = [lease EXCEPT ![o] = <<s, slots[s].generation>>]
    /\ op' = [op EXCEPT ![o] = "running"]
    /\ UNCHANGED <<faulted, status, waker, hook, call, pc, woken, delivered>>

\* set_waker(): cloning the waker panics, and none is registered.
SetWakerPanics(o) ==
    /\ call = NoCall
    /\ Running(o)
    /\ faulted' = TRUE
    /\ UNCHANGED <<slots, op, status, waker, hook, lease, call, pc, woken, delivered>>

\* Mutant of SetWaker: the status is not looked at under the lock.
SetWakerUnchecked(o) ==
    /\ call = NoCall
    /\ Running(o)
    /\ waker' = [waker EXCEPT ![o] = TRUE]
    /\ MayPanic
    /\ UNCHANGED <<slots, op, status, hook, lease, call, pc, woken, delivered>>

\* set_waker(): register and look at the status in one critical section.
SetWaker(o) ==
    /\ call = NoCall
    /\ Running(o)
    /\ waker' = [waker EXCEPT ![o] = TRUE]
    /\ call' = IF Ready(o) THEN [kind |-> "waking", on |-> o, payload |-> None] ELSE NoCall
    /\ MayPanic
    /\ UNCHANGED <<slots, op, status, hook, lease, pc, woken, delivered>>

\* set_waker(): the result was there already.
SetWakerWake ==
    /\ call.kind = "waking"
    /\ woken' = [woken EXCEPT ![call.on] = TRUE]
    /\ call' = NoCall
    /\ MayPanic
    /\ UNCHANGED <<slots, op, status, waker, hook, lease, pc, delivered>>

\* on_cancel(): the hook is kept also when the registry is faulted.
OnCancel(o) ==
    /\ call = NoCall
    /\ Running(o) /\ hook[o] = "none"
    /\ hook' = [hook EXCEPT ![o] = "armed"]
    /\ UNCHANGED <<slots, faulted, op, status, waker, lease, call, pc, woken, delivered>>

\* poll() of a pending operation.
PollPending(o) ==
    /\ call = NoCall /\ ~faulted
    /\ op[o] = "running" /\ status[o] = "Pending"
    /\ op' = [op EXCEPT ![o] = "polled"]
    /\ UNCHANGED <<slots, faulted, status, waker, hook, lease, call, pc, woken, delivered>>

\* The execution parks: its poll found nothing and its waker is registered.
Park(o) ==
    /\ call = NoCall
    /\ op[o] = "polled" /\ waker[o]
    /\ op' = [op EXCEPT ![o] = "parked"]
    /\ UNCHANGED <<slots, faulted, status, waker, hook, lease, call, pc, woken, delivered>>

\* A ready execution is resumed; its readiness is reset before it polls.
Resume(o) ==
    /\ call = NoCall
    /\ op[o] = "parked" /\ woken[o]
    /\ op' = [op EXCEPT ![o] = "running"]
    /\ woken' = [woken EXCEPT ![o] = FALSE]
    /\ UNCHANGED <<slots, faulted, status, waker, hook, lease, call, pc, delivered>>

\* Mutant of Poll: a claim leaves the cancellation hook armed.
PollKeepsHook(o) ==
    /\ call = NoCall /\ ~faulted
    /\ Running(o) /\ Ready(o)
    /\ call' = [kind |-> "claimed", on |-> o, payload |-> status[o]]
    /\ status' = [status EXCEPT ![o] = "Retired"]
    /\ waker' = [waker EXCEPT ![o] = FALSE]
    /\ op' = [op EXCEPT ![o] = "retired"]
    /\ UNCHANGED <<slots, faulted, hook, lease, pc, woken, delivered>>

\* poll() of a ready operation: detach the payload, the waker, the lease and the
\* hook.
Poll(o) ==
    /\ call = NoCall /\ ~faulted
    /\ Running(o) /\ Ready(o)
    /\ call' = [kind |-> "claimed", on |-> o, payload |-> status[o]]
    /\ status' = [status EXCEPT ![o] = "Retired"]
    /\ waker' = [waker EXCEPT ![o] = FALSE]
    /\ hook' = [hook EXCEPT ![o] = IF @ = "armed" THEN "dropped" ELSE @]
    /\ op' = [op EXCEPT ![o] = "retired"]
    /\ UNCHANGED <<slots, faulted, lease, pc, woken, delivered>>

\* Registry::release: the slot's next user has the next generation; after the
\* last one the slot is never used again.
Released(l) ==
    [slots EXCEPT ![l[1]] =
        [pushed |-> TRUE, active |-> FALSE,
         generation |-> IF l[2] = MaxGen THEN None ELSE l[2] + 1]]

\* Drop for Reservation, if the operation still has one.  A lease that is not
\* the slot's is refused and faults the registry.
Release(o) ==
    LET l == lease[o]
        valid == l # None /\ slots[l[1]].active /\ slots[l[1]].generation = l[2]
    IN  /\ slots' = IF valid THEN Released(l) ELSE slots
        /\ lease' = [lease EXCEPT ![o] = None]
        /\ IF l = None \/ valid THEN MayPanic ELSE faulted' = TRUE

\* poll(): destroy the waker and the hook, convert the payload, release the
\* slot; a fault by then takes the place of the result.
PollRelease ==
    /\ call.kind = "claimed"
    /\ Release(call.on)
    /\ delivered' = [delivered EXCEPT ![call.on] = IF faulted' THEN @ ELSE call.payload]
    /\ call' = NoCall
    /\ UNCHANGED <<op, status, waker, hook, pc, woken>>

\* cancel(), also from drop and from a wait whose poll failed; it may come
\* again after the operation has retired, and then finds nothing to clean up.
Cancel(o) ==
    /\ call = NoCall
    /\ op[o] # "new"
    /\ call' = [kind |-> "cancelling", on |-> o, payload |-> None]
    /\ status' = [status EXCEPT ![o] = "Retired"]
    /\ waker' = [waker EXCEPT ![o] = FALSE]
    /\ op' = [op EXCEPT ![o] = "retired"]
    /\ UNCHANGED <<slots, faulted, hook, lease, pc, woken, delivered>>

\* Mutant of PollFails: the error is returned and the wait stays as it is.
PollFailsIgnored(o) == faulted /\ Running(o) /\ call = NoCall /\ UNCHANGED vars

\* A poll that a faulted registry refuses: the wait is cancelled.
PollFails(o) == faulted /\ Running(o) /\ Cancel(o)

\* cancel(): destroy the result and the waker, run the hook.
CancelHook ==
    /\ call.kind = "cancelling"
    /\ hook' = [hook EXCEPT ![call.on] = IF @ = "armed" THEN "run" ELSE @]
    /\ call' = [call EXCEPT !.kind = "releasing"]
    /\ MayPanic
    /\ UNCHANGED <<slots, op, status, waker, lease, pc, woken, delivered>>

\* Mutant of CancelRelease: the reservation is forgotten instead of dropped.
CancelForgets ==
    /\ call.kind = "releasing"
    /\ lease' = [lease EXCEPT ![call.on] = None]
    /\ call' = NoCall
    /\ UNCHANGED <<slots, faulted, op, status, waker, hook, pc, woken, delivered>>

CancelRelease ==
    /\ call.kind = "releasing"
    /\ Release(call.on)
    /\ call' = NoCall
    /\ UNCHANGED <<op, status, waker, hook, pc, woken, delivered>>

-----------------------------------------------------------------------------
(***************************************************************************)
(* The producers' threads.                                                 *)
(***************************************************************************)
\* Mutant of Complete: the status is not looked at, so the last result wins.
CompleteAlways(p) ==
    LET o == Serves[p] IN
    /\ pc[p] = "idle" /\ op[o] # "new"
    /\ status' = [status EXCEPT ![o] = p]
    /\ pc' = [pc EXCEPT ![p] = IF waker[o] THEN "waking" ELSE "accepted"]
    /\ UNCHANGED <<slots, faulted, op, waker, hook, lease, call, woken, delivered>>

\* complete(): store the first result and take the waker, in one critical
\* section; a later result, or one for a retired operation, is rejected.
Complete(p) ==
    LET o == Serves[p] IN
    /\ pc[p] = "idle" /\ op[o] # "new"
    /\ IF status[o] = "Pending"
       THEN /\ status' = [status EXCEPT ![o] = p]
            /\ pc' = [pc EXCEPT ![p] = IF waker[o] THEN "waking" ELSE "accepted"]
       ELSE /\ pc' = [pc EXCEPT ![p] = "rejected"]
            /\ UNCHANGED status
    /\ UNCHANGED <<slots, faulted, op, waker, hook, lease, call, woken, delivered>>

\* complete(): wake outside the lock.  The wake marks the execution ready
\* before anything in it can panic.
CompleteWake(p) ==
    /\ pc[p] = "waking"
    /\ woken' = [woken EXCEPT ![Serves[p]] = TRUE]
    /\ pc' = [pc EXCEPT ![p] = "accepted"]
    /\ MayPanic
    /\ UNCHANGED <<slots, op, status, waker, hook, lease, call, delivered>>

-----------------------------------------------------------------------------
Owner ==
    \/ \E o \in Ops, s \in SlotIds : Reserve(o, s)
    \/ \E o \in Ops : \/ SetWakerPanics(o) \/ SetWaker(o) \/ OnCancel(o)
                      \/ PollPending(o) \/ Park(o)
                      \/ Resume(o) \/ Poll(o) \/ PollFails(o) \/ Cancel(o)
    \/ SetWakerWake \/ PollRelease \/ CancelHook \/ CancelRelease

Next == Owner \/ \E p \in Producers : Complete(p) \/ CompleteWake(p)

Spec == Init /\ [][Next]_vars

\* The runtime's thread returns from every call; it resumes an execution that is
\* ready and polls the operation an execution it resumed waits for; an execution
\* that found nothing registers its waker and parks.  Other calls may come in
\* between, hence SF.  A producer that has stored its result goes on to wake.
Fairness ==
    /\ WF_vars(SetWakerWake \/ PollRelease \/ CancelHook \/ CancelRelease)
    /\ \A o \in Ops : /\ SF_vars(Resume(o)) /\ SF_vars(Poll(o)) /\ SF_vars(PollFails(o))
                      /\ SF_vars(~waker[o] /\ SetWaker(o)) /\ SF_vars(Park(o))
    /\ \A p \in Producers : WF_vars(CompleteWake(p))

FairSpec == Spec /\ Fairness

-----------------------------------------------------------------------------
(***************************************************************************)
(* Properties.                                                             *)
(***************************************************************************)
\* Of all that complete() an operation, at most one is told Accepted; poll()
\* hands over that one's result and no other.
FirstResultWins ==
    /\ \A p, q \in Producers :
          (p # q /\ Serves[p] = Serves[q] /\ pc[p] \in {"waking", "accepted"})
              => pc[q] \in {"idle", "rejected"}
    /\ \A o \in Ops : delivered[o] # None =>
          Serves[delivered[o]] = o /\ pc[delivered[o]] \in {"waking", "accepted"}

\* An operation whose result was handed over is never cancelled at its provider:
\* poll() disarms the hook, whatever cancel() or drop comes afterwards.
ResultOrHook == \A o \in Ops : delivered[o] # None => hook[o] # "run"

\* Every operation that still holds a reservation holds an active slot of the
\* same generation, no two hold the same slot, and every active slot is held: so
\* release() never refuses, and no slot is lost, whatever panics and retries.
LeasesMatchSlots ==
    /\ \A o \in Ops : lease[o] # None =>
          /\ slots[lease[o][1]].active
          /\ slots[lease[o][1]].generation = lease[o][2]
    /\ \A o, q \in Ops : (o # q /\ lease[o] # None /\ lease[q] # None)
                            => lease[o][1] # lease[q][1]
    /\ \A s \in SlotIds : slots[s].active =>
          \E o \in Ops : lease[o] # None /\ lease[o][1] = s

\* A parked execution whose result is there is ready, or the producer is about to
\* wake it: the result that came between the last poll and set_waker() is not
\* missed, because both look at the other's write under one lock.
NoLostWake ==
    \A o \in Ops : (op[o] = "parked" /\ Ready(o)) =>
        woken[o] \/ \E p \in Producers : Serves[p] = o /\ pc[p] = "waking"

-----------------------------------------------------------------------------
(***************************************************************************)
(* The inductive invariant behind them.                                    *)
(***************************************************************************)
Accepted(p) == pc[p] \in {"waking", "accepted"}

\* An accepted result is in the status until the operation retires, then with
\* the poll() that claimed it.
ResultInv ==
    /\ \A p \in Producers : Accepted(p) => status[Serves[p]] \in {p, "Retired"}
    /\ \A o \in Ops : Ready(o) => Serves[status[o]] = o /\ Accepted(status[o])
    /\ call.kind = "claimed" => /\ call.payload \in Producers
                                /\ Serves[call.payload] = call.on
                                /\ Accepted(call.payload)

\* The hook is detached with the claim and runs only once the operation retired.
HookInv ==
    /\ call.kind = "claimed" => hook[call.on] \in {"none", "dropped"}
    /\ \A o \in Ops : hook[o] = "run" => op[o] = "retired"
    /\ \A o \in Ops : delivered[o] # None =>
          op[o] = "retired" /\ hook[o] \in {"none", "dropped"}

\* Where the call of the runtime's thread finds its operation.
CallInv ==
    /\ call.kind = "none" => call = NoCall
    /\ call.kind # "none" => call.on \in Ops
    /\ call.kind = "waking" => Running(call.on)
    /\ call.kind \in {"claimed", "cancelling", "releasing"} => op[call.on] = "retired"

SlotInv ==
    /\ \A s \in SlotIds : ~slots[s].pushed => ~slots[s].active /\ slots[s].generation = 0
    /\ \A o \in Ops : op[o] = "new" => lease[o] = None

\* An execution that has found nothing, or has parked, and whose waker is
\* registered: the result that is there now has a wake on its way.
WakeInv ==
    /\ \A o \in Ops : op[o] = "parked" => waker[o]
    /\ \A o \in Ops : (op[o] \in {"polled", "parked"} /\ Ready(o) /\ waker[o]) =>
          \/ woken[o]
          \/ \E p \in Producers : Serves[p] = o /\ pc[p] = "waking"
          \/ call.kind = "waking" /\ call.on = o

\* The invariant the proofs use: every step of the runtime's thread and of a
\* producer preserves it.
IInv ==
    /\ TypeOK /\ CallInv /\ ResultInv /\ HookInv
    /\ SlotInv /\ LeasesMatchSlots /\ WakeInv
    /\ FirstResultWins

-----------------------------------------------------------------------------
\* A result that complete() stored is handed over, unless the operation is
\* cancelled or the registry has faulted first: the operation always retires
\* and gives its slot back.
ResultConsumed == \A o \in Ops : Ready(o) ~> (op[o] = "retired" /\ lease[o] = None)
=============================================================================
