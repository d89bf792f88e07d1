---------------------------- MODULE Cancellation ----------------------------
(***************************************************************************)
(* The shared cancellation token of kagari-common/src/cancellation.rs:     *)
(* cancellers race with each other, with registrations and with            *)
(* registrations being dropped.  Every step is one atomic access or one    *)
(* critical section of the code.  A waker is only counted, since a host    *)
(* waker may run arbitrary code.                                           *)
(***************************************************************************)
EXTENDS Naturals, FiniteSets

CONSTANTS Cancellers,   \* threads that call cancel() once
          Subs          \* registrations, each made by one subscribe() call

VARIABLES cancelled,    \* CancellationState.cancelled
          subscribers,  \* the weak entries of CancellationState.subscribers
          sub,          \* life of each registration
          pc,           \* where each canceller is
          held,         \* the Arcs a canceller upgraded and still owns
          unwoken,      \* those of held it has still to wake
          woken         \* how often each waker was called

vars == <<cancelled, subscribers, sub, pc, held, unwoken, woken>>

(* Types; each waker is called at most twice, once by cancel() and once by *)
(* subscribe()'s own look at the flag.                                     *)
TypeOK ==
  /\ cancelled \in BOOLEAN
  /\ subscribers \in SUBSET Subs
  /\ sub \in [Subs -> {"new", "pushed", "live", "dropped"}]
  /\ pc \in [Cancellers -> {"ready", "swapped", "waking", "done"}]
  /\ held \in [Cancellers -> SUBSET Subs]
  /\ unwoken \in [Cancellers -> SUBSET Subs]
  /\ woken \in [Subs -> 0..2]

Init ==
  /\ cancelled = FALSE
  /\ subscribers = {}
  /\ sub = [s \in Subs |-> "new"]
  /\ pc = [c \in Cancellers |-> "ready"]
  /\ held = [c \in Cancellers |-> {}]
  /\ unwoken = [c \in Cancellers |-> {}]
  /\ woken = [s \in Subs |-> 0]

(* Arc::strong_count of a registration is not zero.                        *)
Strong(s) == sub[s] \in {"pushed", "live"} \/ \E c \in Cancellers : s \in held[c]

-----------------------------------------------------------------------------
(* cancel(): only the thread that turns the flag on goes any further.      *)
CancelSwap(c) ==
  /\ pc[c] = "ready"
  /\ cancelled' = TRUE
  /\ pc' = [pc EXCEPT ![c] = IF cancelled THEN "done" ELSE "swapped"]
  /\ UNCHANGED <<subscribers, sub, held, unwoken, woken>>

(* cancel(): upgrade the entries and clear the list in one critical        *)
(* section; the wakers run after it.                                       *)
CancelTake(c) ==
  /\ pc[c] = "swapped"
  /\ held' = [held EXCEPT ![c] = {s \in subscribers : Strong(s)}]
  /\ unwoken' = [unwoken EXCEPT ![c] = {s \in subscribers : Strong(s)}]
  /\ subscribers' = {}
  /\ pc' = [pc EXCEPT ![c] = "waking"]
  /\ UNCHANGED <<cancelled, sub, woken>>

(* cancel(): call one waker after the other, outside the lock.             *)
CancelWake(c, s) ==
  /\ pc[c] = "waking"
  /\ s \in unwoken[c]
  /\ woken' = [woken EXCEPT ![s] = @ + 1]
  /\ unwoken' = [unwoken EXCEPT ![c] = @ \ {s}]
  /\ UNCHANGED <<cancelled, subscribers, sub, pc, held>>

CancelReturn(c) ==
  /\ pc[c] = "waking"
  /\ unwoken[c] = {}
  /\ held' = [held EXCEPT ![c] = {}]
  /\ pc' = [pc EXCEPT ![c] = "done"]
  /\ UNCHANGED <<cancelled, subscribers, sub, unwoken, woken>>

(* subscribe(): drop dead entries and push the new one under the lock.     *)
SubscribePush(s) ==
  /\ sub[s] = "new"
  /\ subscribers' = {r \in subscribers : Strong(r)} \cup {s}
  /\ sub' = [sub EXCEPT ![s] = "pushed"]
  /\ UNCHANGED <<cancelled, pc, held, unwoken, woken>>

(* Mutant: the flag is not read again after the registration.              *)
SubscribeCheckMutant(s) ==
  /\ sub[s] = "pushed"
  /\ sub' = [sub EXCEPT ![s] = "live"]
  /\ UNCHANGED <<cancelled, subscribers, pc, held, unwoken, woken>>

(* subscribe(): look at the flag after the lock was released, then return. *)
SubscribeCheck(s) ==
  /\ sub[s] = "pushed"
  /\ woken' = IF cancelled THEN [woken EXCEPT ![s] = @ + 1] ELSE woken
  /\ sub' = [sub EXCEPT ![s] = "live"]
  /\ UNCHANGED <<cancelled, subscribers, pc, held, unwoken>>

(* The owner of a CancellationSubscription drops it.                       *)
DropSubscription(s) ==
  /\ sub[s] = "live"
  /\ sub' = [sub EXCEPT ![s] = "dropped"]
  /\ UNCHANGED <<cancelled, subscribers, pc, held, unwoken, woken>>

Cancel(c) ==
  CancelSwap(c) \/ CancelTake(c) \/ (\E s \in Subs : CancelWake(c, s)) \/ CancelReturn(c)

Next ==
  \/ \E c \in Cancellers : Cancel(c)
  \/ \E s \in Subs : SubscribePush(s) \/ SubscribeCheck(s) \/ DropSubscription(s)

(* A thread inside cancel() or subscribe() keeps running; nobody has to    *)
(* call either of them, nor to drop a subscription.                        *)
Fairness ==
  /\ \A c \in Cancellers : WF_vars(pc[c] # "ready" /\ Cancel(c))
  /\ \A s \in Subs : WF_vars(SubscribeCheck(s))

Spec == Init /\ [][Next]_vars

FairSpec == Spec /\ Fairness

-----------------------------------------------------------------------------
Quiet == \A c \in Cancellers : pc[c] \in {"ready", "done"}

(* "Cancellation racing with registration cannot be lost": once the token  *)
(* is cancelled and no canceller is still at work, every subscription that *)
(* subscribe() has returned was woken.                                     *)
NoLostCancellation ==
  cancelled /\ Quiet => \A s \in Subs : sub[s] = "live" => woken[s] > 0

(* A subscription that stays registered is woken after cancellation.       *)
CancellationDelivered ==
  \A s \in Subs : cancelled /\ sub[s] = "live" ~> woken[s] > 0 \/ sub[s] = "dropped"
=============================================================================
