--------------------------- MODULE SchedulingProofs -------------------------
(***************************************************************************)
(* For any number of wakers, providers, signallers, answers and panics:    *)
(* ready work and a contained panic reach the driver, the receiver of a    *)
(* scheduled execution is never left asleep, a finished result stays in    *)
(* the cell until the receiver has taken it or is gone, and the owner of   *)
(* an execution loses neither an answer nor a wake.                        *)
(***************************************************************************)
EXTENDS ExecutionTable, HubTable, TLAPS

-----------------------------------------------------------------------------
(* The owner of an execution.                                              *)

\* mark_ready and notify, by any thread that wakes the execution.
LEMMA MarkStep ==
    ASSUME Own!OwnerInv,
           \/ \E t \in Own!Threads : Own!LoadFinished(t)
           \/ \E t \in Own!Threads : Own!Swap(t)
           \/ \E t \in Own!Threads : Own!CloneWake(t)
           \/ \E t \in Own!Threads : Own!CallWake(t)
    PROVE  Own!OwnerInv'
<1> USE ThreadsAssumption DEF Own!OwnerInv, Own!Places, Own!Threads, Own!Goto, Own!Return,
      Own!Marking, Own!Retired, Own!Polled, Own!owner, Own!wait
<1>1. ASSUME NEW t \in Own!Threads, Own!LoadFinished(t) PROVE Own!OwnerInv'
  <2> USE <1>1 DEF Own!LoadFinished
  <2>1. Own!Places'
    BY Zenon
  <2>2. Own!AnswerFlagged'
    BY Zenon DEF Own!AnswerFlagged
  <2>3. Own!CancelFlagged'
    BY Zenon DEF Own!CancelFlagged
  <2>4. Own!ReadyTold'
    BY Zenon DEF Own!ReadyTold, Own!Telling
  <2> QED  BY <2>1, <2>2, <2>3, <2>4, Zenon
<1>2. ASSUME NEW t \in Own!Threads, Own!Swap(t) PROVE Own!OwnerInv'
  <2> USE <1>2 DEF Own!Swap
  <2>1. Own!Places'
    OBVIOUS
  <2>2. Own!AnswerFlagged'
    BY Zenon DEF Own!AnswerFlagged
  <2>3. Own!CancelFlagged'
    BY Zenon DEF Own!CancelFlagged
  <2>4. Own!ReadyTold'
    BY Zenon DEF Own!ReadyTold, Own!Telling
  <2> QED  BY <2>1, <2>2, <2>3, <2>4, Zenon
<1>3. ASSUME NEW t \in Own!Threads, Own!CloneWake(t) PROVE Own!OwnerInv'
  <2> USE <1>3 DEF Own!CloneWake
  <2>1. Own!Places'
    BY Zenon
  <2>2. Own!AnswerFlagged'
    BY Zenon DEF Own!AnswerFlagged
  <2>3. Own!CancelFlagged'
    BY Zenon DEF Own!CancelFlagged
  <2>4. Own!ReadyTold'
    BY Zenon DEF Own!ReadyTold, Own!Telling
  <2> QED  BY <2>1, <2>2, <2>3, <2>4, Zenon
<1>4. ASSUME NEW t \in Own!Threads, Own!CallWake(t) PROVE Own!OwnerInv'
  <2> USE <1>4 DEF Own!CallWake
  <2>1. Own!Places'
    OBVIOUS
  <2>2. Own!AnswerFlagged'
    BY Zenon DEF Own!AnswerFlagged
  <2>3. Own!CancelFlagged'
    BY Zenon DEF Own!CancelFlagged
  <2>4. Own!ReadyTold'
    BY Zenon DEF Own!ReadyTold, Own!Telling
  <2> QED  BY <2>1, <2>2, <2>3, <2>4, Zenon
<1> QED  BY <1>1, <1>2, <1>3, <1>4, Zenon

\* The providers' answers, and the host's handle.
LEMMA HandleStep ==
    ASSUME Own!OwnerInv,
           \/ \E p \in Providers : Own!Answer(p)
           \/ \E w \in HostWakers : Own!SetWaker(w)
           \/ Own!Replace
           \/ Own!CheckReady
           \/ Own!Cancel
           \/ Own!DropHandle
    PROVE  Own!OwnerInv'
<1> USE ThreadsAssumption DEF Own!OwnerInv, Own!Places, Own!Threads, Own!Goto, Own!Return,
      Own!Marking, Own!Retired, Own!Polled, Own!owner, Own!wait
<1>1. ASSUME NEW p \in Providers, Own!Answer(p) PROVE Own!OwnerInv'
  <2> USE <1>1 DEF Own!Answer
  <2>1. Own!Places'
    OBVIOUS
  <2>2. Own!AnswerFlagged'
    BY Zenon DEF Own!AnswerFlagged
  <2>3. Own!CancelFlagged'
    BY Zenon DEF Own!CancelFlagged
  <2>4. Own!ReadyTold'
    BY Zenon DEF Own!ReadyTold, Own!Telling
  <2> QED  BY <2>1, <2>2, <2>3, <2>4, Zenon
<1>2. ASSUME NEW w \in HostWakers, Own!SetWaker(w) PROVE Own!OwnerInv'
  <2> USE <1>2 DEF Own!SetWaker
  <2>1. Own!Places'
    BY Zenon
  <2>2. Own!AnswerFlagged'
    BY Zenon DEF Own!AnswerFlagged
  <2>3. Own!CancelFlagged'
    BY Zenon DEF Own!CancelFlagged
  <2>4. Own!ReadyTold'
    BY Zenon DEF Own!ReadyTold, Own!Telling
  <2> QED  BY <2>1, <2>2, <2>3, <2>4, Zenon
<1>3. CASE Own!Replace
  <2> USE <1>3 DEF Own!Replace
  <2>1. Own!Places'
    BY Zenon
  <2>2. Own!AnswerFlagged'
    BY Zenon DEF Own!AnswerFlagged
  <2>3. Own!CancelFlagged'
    BY Zenon DEF Own!CancelFlagged
  <2>4. Own!ReadyTold'
    BY Zenon DEF Own!ReadyTold, Own!Telling
  <2> QED  BY <2>1, <2>2, <2>3, <2>4, Zenon
<1>4. CASE Own!CheckReady
  <2> USE <1>4 DEF Own!CheckReady
  <2>1. Own!Places'
    BY Zenon
  <2>2. Own!AnswerFlagged'
    BY Zenon DEF Own!AnswerFlagged
  <2>3. Own!CancelFlagged'
    BY Zenon DEF Own!CancelFlagged
  <2>4. Own!ReadyTold'
    BY Zenon DEF Own!ReadyTold, Own!Telling
  <2> QED  BY <2>1, <2>2, <2>3, <2>4, Zenon
<1>5. CASE Own!Cancel
  BY <1>5, Zenon DEF Own!Cancel, Own!AnswerFlagged, Own!CancelFlagged, Own!ReadyTold, Own!Telling
<1>6. CASE Own!DropHandle
  BY <1>6, Zenon DEF Own!DropHandle, Own!AnswerFlagged, Own!CancelFlagged, Own!ReadyTold, Own!Telling
<1> QED  BY <1>1, <1>2, <1>3, <1>4, <1>5, <1>6, Zenon

\* The runtime's thread: a slice, and the end of the execution.
LEMMA SliceStep ==
    ASSUME Own!OwnerInv,
           \/ Own!Resume
           \/ Own!Poll
           \/ Own!ParkWaiting
           \/ Own!ParkReady
           \/ Own!EndPark
           \/ Own!Terminate
           \/ Own!Drain
           \/ Own!StoreFinished
           \/ Own!ClearReady
           \/ Own!TakeWake
    PROVE  Own!OwnerInv'
<1> USE ThreadsAssumption DEF Own!OwnerInv, Own!Places, Own!Threads, Own!Goto, Own!Return,
      Own!Marking, Own!Retired, Own!Polled, Own!owner, Own!wait
<1>1. CASE Own!Resume
  BY <1>1, Zenon DEF Own!Resume, Own!AnswerFlagged, Own!CancelFlagged, Own!ReadyTold, Own!Telling
<1>2. CASE Own!Poll
  <2> USE <1>2 DEF Own!Poll
  <2>1. Own!Places'
    BY Zenon
  <2>2. Own!AnswerFlagged' /\ Own!CancelFlagged'
    BY DEF Own!AnswerFlagged, Own!CancelFlagged
  <2>3. Own!ReadyTold'
    BY Zenon DEF Own!ReadyTold, Own!Telling
  <2> QED  BY <2>1, <2>2, <2>3, Zenon
<1>3. CASE Own!ParkWaiting
  BY <1>3, Zenon DEF Own!ParkWaiting, Own!AnswerFlagged, Own!CancelFlagged, Own!ReadyTold, Own!Telling
<1>4. CASE Own!ParkReady
  BY <1>4, Zenon DEF Own!ParkReady, Own!AnswerFlagged, Own!CancelFlagged, Own!ReadyTold, Own!Telling
<1>5. CASE Own!EndPark
  BY <1>5, Zenon DEF Own!EndPark, Own!AnswerFlagged, Own!CancelFlagged, Own!ReadyTold, Own!Telling
<1>6. CASE Own!Terminate
  BY <1>6, Zenon DEF Own!Terminate, Own!AnswerFlagged, Own!CancelFlagged, Own!ReadyTold, Own!Telling
<1>7. CASE Own!Drain
  BY <1>7, Zenon DEF Own!Drain, Own!AnswerFlagged, Own!CancelFlagged, Own!ReadyTold, Own!Telling
<1>8. CASE Own!StoreFinished
  BY <1>8, Zenon DEF Own!StoreFinished, Own!AnswerFlagged, Own!CancelFlagged, Own!ReadyTold, Own!Telling
<1>9. CASE Own!ClearReady
  BY <1>9, Zenon DEF Own!ClearReady, Own!AnswerFlagged, Own!CancelFlagged, Own!ReadyTold, Own!Telling
<1>10. CASE Own!TakeWake
  BY <1>10, Zenon DEF Own!TakeWake, Own!AnswerFlagged, Own!CancelFlagged, Own!ReadyTold, Own!Telling
<1> QED  BY <1>1, <1>2, <1>3, <1>4, <1>5, <1>6, <1>7, <1>8, <1>9, <1>10, Zenon

LEMMA OwnerHolds == Own!Spec => []Own!OwnerInv
<1>1. Own!Init => Own!OwnerInv
  BY ThreadsAssumption
     DEF Own!Init, Own!OwnerInv, Own!Places, Own!AnswerFlagged, Own!CancelFlagged,
         Own!ReadyTold, Own!Threads, Own!Marking, Own!Retired
<1>2. ASSUME Own!OwnerInv, UNCHANGED Own!vars PROVE Own!OwnerInv'
  BY <1>2, Zenon DEF Own!vars, Own!owner, Own!wait, Own!OwnerInv, Own!Places, Own!AnswerFlagged,
              Own!CancelFlagged, Own!ReadyTold, Own!Telling
<1>3. ASSUME Own!OwnerInv, Own!Next PROVE Own!OwnerInv'
  <2>1. CASE Own!Owner
    BY <1>3, <2>1, MarkStep, HandleStep, Zenon DEF Own!Owner, Own!Mark
  <2>2. CASE Own!Slice \/ Own!EndSlice \/ Own!Resume \/ Own!Drain
    BY <1>3, <2>2, SliceStep, Zenon DEF Own!Slice, Own!EndSlice
  <2>3. CASE \/ (\E p \in Providers : Own!Answer(p)) \/ Own!Cancel \/ Own!DropHandle
             \/ \E w \in HostWakers : Own!SetWaker(w)
    BY <1>3, <2>3, HandleStep, Zenon
  <2> QED  BY <1>3, <2>1, <2>2, <2>3, Zenon DEF Own!Next
<1> QED  BY <1>1, <1>2, <1>3, PTL DEF Own!Spec

\* An answer that comes in while a slice runs, parks or is between two slices keeps
\* the execution ready, or the provider's thread is on its way to mark it: no slice
\* end clears what mark_ready has set (session/owned.rs, frame/waiting.rs).
THEOREM AnswersKept == Own!Spec => []NoLostAnswer
<1>1. Own!OwnerInv => NoLostAnswer
  BY Zenon DEF NoLostAnswer, Own!NoLostAnswer, Own!OwnerInv, Own!AnswerFlagged, Own!AboutToTell,
         Own!Polled
<1> QED  BY <1>1, OwnerHolds, PTL

\* The waker that is registered with a parked execution that is ready or cancelled
\* was called, or a thread is about to: set_waker and mark_ready cannot miss each
\* other, whichever wakers were cloned before the registration.
THEOREM RegisteredWakerTold == Own!Spec => []WakerTold
<1>1. Own!OwnerInv => WakerTold
  <2> SUFFICES ASSUME Own!OwnerInv, pc["runtime"] = "idle", wake # None, Own!IsReady
               PROVE  wake \in told \/ Own!AboutToTell
    BY Zenon DEF WakerTold, Own!WakerTold
  <2>1. ownReady \/ pc["host"] \in {"mark", "swap"}
    BY Zenon DEF Own!OwnerInv, Own!CancelFlagged, Own!IsReady, Own!Polled
  <2>2. CASE ownReady
    BY <2>2, Zenon DEF Own!OwnerInv, Own!ReadyTold, Own!Telling, Own!AboutToTell, Own!IsReady,
                Own!Threads
  <2>3. CASE pc["host"] \in {"mark", "swap"}
    BY <2>3, Zenon DEF Own!AboutToTell, Own!Threads
  <2> QED  BY <2>1, <2>2, <2>3, Zenon
<1> QED  BY <1>1, OwnerHolds, PTL

-----------------------------------------------------------------------------
(* The wake hub.                                                           *)

LEMMA HubCalls ==
    ASSUME Hub!HubInv,
           \/ \E p \in Hub!Procs : Hub!MarkReady(p)
           \/ \E p \in Hub!Procs : Hub!Notify(p)
           \/ \E p \in Hub!Procs : Hub!Wake(p)
           \/ \E p \in Hub!Procs : Hub!WakePanics(p)
           \/ \E p \in Hub!Procs : Hub!Contain(p)
           \/ \E p \in Hub!Procs : Hub!ContainStore(p)
           \/ \E p \in Signallers, e \in Work : Hub!Signal(p, e)
    PROVE  Hub!HubInv'
<1> USE DEF Hub!HubInv, Hub!Places, Hub!InTurn, Hub!Procs, Hub!At, Hub!Goto, Hub!HubLabels,
      Hub!TurnLabels, Hub!routes, Hub!flags, Hub!work
<1>1. ASSUME NEW p \in Hub!Procs, Hub!MarkReady(p) PROVE Hub!HubInv'
  <2> USE <1>1 DEF Hub!MarkReady, Hub!Return
  <2>1. Hub!Places'
    BY Zenon
  <2>2. ASSUME ~closed', ~hubFaulted'
        PROVE  back' = "idle" /\ Hub!ReadyIsDirty' /\ (dirty' => Hub!Told')
    BY <2>1, <2>2 DEF Hub!ReadyIsDirty, Hub!Told, Hub!Telling, Hub!Route
  <2>3. ASSUME ~closed', ~deaf', hubFaulted', ~observed'
        PROVE  Hub!FaultIsDirty' /\ (Hub!Told \/ \E q \in Hub!Procs : Hub!At(q, "first_fault"))'
    BY <2>1, <2>3, Zenon DEF Hub!FaultIsDirty, Hub!Told, Hub!Telling, Hub!Route
  <2> QED  BY <2>1, <2>2, <2>3, Zenon
<1>2. ASSUME NEW p \in Hub!Procs, Hub!Notify(p) PROVE Hub!HubInv'
  <2> USE <1>2 DEF Hub!Notify, Hub!Return
  <2>1. Hub!Places'
    BY Zenon
  <2>2. ASSUME ~closed', ~hubFaulted'
        PROVE  back' = "idle" /\ Hub!ReadyIsDirty' /\ (dirty' => Hub!Told')
    BY <2>1, <2>2 DEF Hub!ReadyIsDirty, Hub!Told, Hub!Telling, Hub!Route
  <2>3. ASSUME ~closed', ~deaf', hubFaulted', ~observed'
        PROVE  Hub!FaultIsDirty' /\ (Hub!Told \/ \E q \in Hub!Procs : Hub!At(q, "first_fault"))'
    BY <2>1, <2>3, Zenon DEF Hub!FaultIsDirty, Hub!Told, Hub!Telling, Hub!Route
  <2> QED  BY <2>1, <2>2, <2>3, Zenon
<1>3. ASSUME NEW p \in Hub!Procs, Hub!Wake(p) PROVE Hub!HubInv'
  <2> USE <1>3 DEF Hub!Wake, Hub!Return
  <2>1. Hub!Places'
    BY Zenon
  <2>2. ASSUME ~closed', ~hubFaulted'
        PROVE  back' = "idle" /\ Hub!ReadyIsDirty' /\ (dirty' => Hub!Told')
    BY <2>1, <2>2, Zenon DEF Hub!ReadyIsDirty, Hub!Told, Hub!Telling, Hub!Route
  <2>3. ASSUME ~closed', ~deaf', hubFaulted', ~observed'
        PROVE  Hub!FaultIsDirty' /\ (Hub!Told \/ \E q \in Hub!Procs : Hub!At(q, "first_fault"))'
    BY <2>1, <2>3, Zenon DEF Hub!FaultIsDirty, Hub!Told, Hub!Telling, Hub!Route
  <2> QED  BY <2>1, <2>2, <2>3, Zenon
<1>4. ASSUME NEW p \in Hub!Procs, Hub!WakePanics(p) PROVE Hub!HubInv'
  <2> USE <1>4 DEF Hub!WakePanics, Hub!Return
  <2>1. Hub!Places'
    BY Zenon
  <2>2. ASSUME ~closed', ~hubFaulted'
        PROVE  back' = "idle" /\ Hub!ReadyIsDirty' /\ (dirty' => Hub!Told')
    BY <2>1, <2>2, Zenon DEF Hub!ReadyIsDirty, Hub!Told, Hub!Telling, Hub!Route
  <2>3. ASSUME ~closed', ~deaf', hubFaulted', ~observed'
        PROVE  Hub!FaultIsDirty' /\ (Hub!Told \/ \E q \in Hub!Procs : Hub!At(q, "first_fault"))'
    BY <2>1, <2>3, Zenon DEF Hub!FaultIsDirty, Hub!Told, Hub!Telling, Hub!Route
  <2> QED  BY <2>1, <2>2, <2>3, Zenon
<1>5. ASSUME NEW p \in Hub!Procs, Hub!Contain(p) PROVE Hub!HubInv'
  <2> USE <1>5 DEF Hub!Contain, Hub!Panic
  <2>1. Hub!Places'
    BY Zenon
  <2>2. ASSUME ~closed', ~hubFaulted'
        PROVE  back' = "idle" /\ Hub!ReadyIsDirty' /\ (dirty' => Hub!Told')
    BY <2>1, <2>2, Zenon DEF Hub!ReadyIsDirty, Hub!Told, Hub!Telling, Hub!Route
  <2>3. ASSUME ~closed', ~deaf', hubFaulted', ~observed'
        PROVE  Hub!FaultIsDirty' /\ (Hub!Told \/ \E q \in Hub!Procs : Hub!At(q, "first_fault"))'
    BY <2>1, <2>3, Zenon DEF Hub!FaultIsDirty, Hub!Told, Hub!Telling, Hub!Route
  <2> QED  BY <2>1, <2>2, <2>3, Zenon
<1>6. ASSUME NEW p \in Hub!Procs, Hub!ContainStore(p) PROVE Hub!HubInv'
  <2> USE <1>6 DEF Hub!ContainStore, Hub!Return
  <2>1. Hub!Places'
    BY Zenon
  <2>2. ASSUME ~closed', ~hubFaulted'
        PROVE  back' = "idle" /\ Hub!ReadyIsDirty' /\ (dirty' => Hub!Told')
    BY <2>1, <2>2, Zenon DEF Hub!ReadyIsDirty, Hub!Told, Hub!Telling, Hub!Route
  <2>3. ASSUME ~closed', ~deaf', hubFaulted', ~observed'
        PROVE  Hub!FaultIsDirty' /\ (Hub!Told \/ \E q \in Hub!Procs : Hub!At(q, "first_fault"))'
    BY <2>1, <2>3, Zenon DEF Hub!FaultIsDirty, Hub!Told, Hub!Telling, Hub!Route
  <2> QED  BY <2>1, <2>2, <2>3, Zenon
<1>7. ASSUME NEW p \in Signallers, NEW e \in Work, Hub!Signal(p, e) PROVE Hub!HubInv'
  <2> USE <1>7 DEF Hub!Signal
  <2>1. Hub!Places'
    BY Zenon
  <2>2. ASSUME ~closed', ~hubFaulted'
        PROVE  back' = "idle" /\ Hub!ReadyIsDirty' /\ (dirty' => Hub!Told')
    BY <2>1, <2>2, Zenon DEF Hub!ReadyIsDirty, Hub!Told, Hub!Telling, Hub!Route
  <2>3. ASSUME ~closed', ~deaf', hubFaulted', ~observed'
        PROVE  Hub!FaultIsDirty' /\ (Hub!Told \/ \E q \in Hub!Procs : Hub!At(q, "first_fault"))'
    BY <2>1, <2>3, Zenon DEF Hub!FaultIsDirty, Hub!Told, Hub!Telling, Hub!Route
  <2> QED  BY <2>1, <2>2, <2>3, Zenon
<1> QED  BY <1>1, <1>2, <1>3, <1>4, <1>5, <1>6, <1>7, Zenon

\* The host's thread between turns.
LEMMA HubHost ==
    ASSUME Hub!HubInv,
           \/ \E e \in Work : Hub!Schedule(e)
           \/ \E w \in HubWakers : Hub!Borrow(w)
           \/ Hub!DropRegistration
           \/ Hub!Replay
           \/ Hub!Close
    PROVE  Hub!HubInv'
<1> USE DEF Hub!HubInv, Hub!Places, Hub!InTurn, Hub!Procs, Hub!At, Hub!Goto, Hub!HubLabels,
      Hub!TurnLabels, Hub!routes, Hub!flags, Hub!work
<1>1. ASSUME NEW e \in Work, Hub!Schedule(e) PROVE Hub!HubInv'
  <2> USE <1>1 DEF Hub!Schedule, Hub!HostIdle
  <2>1. Hub!Places'
    BY Zenon
  <2>2. ASSUME ~closed', ~hubFaulted'
        PROVE  back' = "idle" /\ Hub!ReadyIsDirty' /\ (dirty' => Hub!Told')
    BY <2>1, <2>2, Zenon DEF Hub!ReadyIsDirty, Hub!Told, Hub!Telling, Hub!Route
  <2>3. ASSUME ~closed', ~deaf', hubFaulted', ~observed'
        PROVE  Hub!FaultIsDirty' /\ (Hub!Told \/ \E q \in Hub!Procs : Hub!At(q, "first_fault"))'
    BY <2>1, <2>3, Zenon DEF Hub!FaultIsDirty, Hub!Told, Hub!Telling, Hub!Route
  <2> QED  BY <2>1, <2>2, <2>3, Zenon
<1>2. ASSUME NEW w \in HubWakers, Hub!Borrow(w) PROVE Hub!HubInv'
  <2> USE <1>2 DEF Hub!Borrow, Hub!HostIdle
  <2>1. Hub!Places'
    BY Zenon
  <2>2. ASSUME ~closed', ~hubFaulted'
        PROVE  back' = "idle" /\ Hub!ReadyIsDirty' /\ (dirty' => Hub!Told')
    BY <2>1, <2>2, Zenon DEF Hub!ReadyIsDirty, Hub!Told, Hub!Telling, Hub!Route
  <2>3. ASSUME ~closed', ~deaf', hubFaulted', ~observed'
        PROVE  Hub!FaultIsDirty' /\ (Hub!Told \/ \E q \in Hub!Procs : Hub!At(q, "first_fault"))'
    BY <2>1, <2>3, Zenon DEF Hub!FaultIsDirty, Hub!Told, Hub!Telling, Hub!Route
  <2> QED  BY <2>1, <2>2, <2>3, Zenon
<1>3. CASE Hub!DropRegistration
  <2> USE <1>3 DEF Hub!DropRegistration, Hub!HostIdle
  <2>1. Hub!Places'
    BY Zenon
  <2>2. ASSUME ~closed', ~hubFaulted'
        PROVE  back' = "idle" /\ Hub!ReadyIsDirty' /\ (dirty' => Hub!Told')
    BY <2>1, <2>2, Zenon DEF Hub!ReadyIsDirty, Hub!Told, Hub!Telling, Hub!Route
  <2>3. ASSUME ~closed', ~deaf', hubFaulted', ~observed'
        PROVE  Hub!FaultIsDirty' /\ (Hub!Told \/ \E q \in Hub!Procs : Hub!At(q, "first_fault"))'
    BY <2>1, <2>3, Zenon DEF Hub!FaultIsDirty, Hub!Told, Hub!Telling, Hub!Route
  <2> QED  BY <2>1, <2>2, <2>3, Zenon
<1>4. CASE Hub!Replay
  <2> USE <1>4 DEF Hub!Replay
  <2>1. Hub!Places'
    BY Zenon
  <2>2. ASSUME ~closed', ~hubFaulted'
        PROVE  back' = "idle" /\ Hub!ReadyIsDirty' /\ (dirty' => Hub!Told')
    BY <2>1, <2>2, Zenon DEF Hub!ReadyIsDirty, Hub!Told, Hub!Telling, Hub!Route
  <2>3. ASSUME ~closed', ~deaf', hubFaulted', ~observed'
        PROVE  Hub!FaultIsDirty' /\ (Hub!Told \/ \E q \in Hub!Procs : Hub!At(q, "first_fault"))'
    BY <2>1, <2>3, Zenon DEF Hub!FaultIsDirty, Hub!Told, Hub!Telling, Hub!Route
  <2> QED  BY <2>1, <2>2, <2>3, Zenon
<1>5. CASE Hub!Close
  <2> USE <1>5 DEF Hub!Close, Hub!HostIdle
  <2>1. Hub!Places'
    BY Zenon
  <2>2. ASSUME ~closed', ~hubFaulted'
        PROVE  back' = "idle" /\ Hub!ReadyIsDirty' /\ (dirty' => Hub!Told')
    BY <2>1, <2>2, Zenon DEF Hub!ReadyIsDirty, Hub!Told, Hub!Telling, Hub!Route
  <2>3. ASSUME ~closed', ~deaf', hubFaulted', ~observed'
        PROVE  Hub!FaultIsDirty' /\ (Hub!Told \/ \E q \in Hub!Procs : Hub!At(q, "first_fault"))'
    BY <2>1, <2>3, Zenon DEF Hub!FaultIsDirty, Hub!Told, Hub!Telling, Hub!Route
  <2> QED  BY <2>1, <2>2, <2>3, Zenon
<1> QED  BY <1>1, <1>2, <1>3, <1>4, <1>5, Zenon

\* A scheduling turn.
LEMMA HubTurn ==
    ASSUME Hub!HubInv,
           \/ \E w \in HubWakers : Hub!Poll(w)
           \/ \E w \in HubWakers : Hub!PollPanics(w)
           \/ Hub!Unroute
           \/ Hub!DropRoutePanics
           \/ Hub!CheckRoute
           \/ Hub!ClearDirty
           \/ Hub!NextWork
           \/ Hub!Park
           \/ Hub!Finish
           \/ Hub!EndTurn
    PROVE  Hub!HubInv'
<1> USE DEF Hub!HubInv, Hub!Places, Hub!InTurn, Hub!Procs, Hub!At, Hub!Goto, Hub!HubLabels,
      Hub!TurnLabels, Hub!routes, Hub!flags, Hub!work
<1>1. ASSUME NEW w \in HubWakers, Hub!Poll(w) PROVE Hub!HubInv'
  <2> USE <1>1 DEF Hub!Poll, Hub!BeginTurn, Hub!HostIdle
  <2>1. Hub!Places'
    BY Zenon
  <2>2. ASSUME ~closed', ~hubFaulted'
        PROVE  back' = "idle" /\ Hub!ReadyIsDirty' /\ (dirty' => Hub!Told')
    BY <2>1, <2>2, Zenon DEF Hub!ReadyIsDirty, Hub!Told, Hub!Telling, Hub!Route
  <2>3. ASSUME ~closed', ~deaf', hubFaulted', ~observed'
        PROVE  Hub!FaultIsDirty' /\ (Hub!Told \/ \E q \in Hub!Procs : Hub!At(q, "first_fault"))'
    BY <2>1, <2>3, Zenon DEF Hub!FaultIsDirty, Hub!Told, Hub!Telling, Hub!Route
  <2> QED  BY <2>1, <2>2, <2>3, Zenon
<1>2. ASSUME NEW w \in HubWakers, Hub!PollPanics(w) PROVE Hub!HubInv'
  <2> USE <1>2 DEF Hub!PollPanics, Hub!CloneRoutePanics, Hub!Panic
  <2>1. Hub!Places'
    BY Zenon
  <2>2. ASSUME ~closed', ~hubFaulted'
        PROVE  back' = "idle" /\ Hub!ReadyIsDirty' /\ (dirty' => Hub!Told')
    BY <2>1, <2>2, Zenon DEF Hub!ReadyIsDirty, Hub!Told, Hub!Telling, Hub!Route
  <2>3. ASSUME ~closed', ~deaf', hubFaulted', ~observed'
        PROVE  Hub!FaultIsDirty' /\ (Hub!Told \/ \E q \in Hub!Procs : Hub!At(q, "first_fault"))'
    BY <2>1, <2>3, Zenon DEF Hub!FaultIsDirty, Hub!Told, Hub!Telling, Hub!Route
  <2> QED  BY <2>1, <2>2, <2>3, Zenon
<1>3. CASE Hub!Unroute
  <2> USE <1>3 DEF Hub!Unroute
  <2>1. Hub!Places'
    BY Zenon
  <2>2. ASSUME ~closed', ~hubFaulted'
        PROVE  back' = "idle" /\ Hub!ReadyIsDirty' /\ (dirty' => Hub!Told')
    BY <2>1, <2>2, Zenon DEF Hub!ReadyIsDirty, Hub!Told, Hub!Telling, Hub!Route
  <2>3. ASSUME ~closed', ~deaf', hubFaulted', ~observed'
        PROVE  Hub!FaultIsDirty' /\ (Hub!Told \/ \E q \in Hub!Procs : Hub!At(q, "first_fault"))'
    BY <2>1, <2>3, Zenon DEF Hub!FaultIsDirty, Hub!Told, Hub!Telling, Hub!Route
  <2> QED  BY <2>1, <2>2, <2>3, Zenon
<1>4. CASE Hub!DropRoutePanics
  <2> USE <1>4 DEF Hub!DropRoutePanics, Hub!Panic
  <2>1. Hub!Places'
    BY Zenon
  <2>2. ASSUME ~closed', ~hubFaulted'
        PROVE  back' = "idle" /\ Hub!ReadyIsDirty' /\ (dirty' => Hub!Told')
    BY <2>1, <2>2, Zenon DEF Hub!ReadyIsDirty, Hub!Told, Hub!Telling, Hub!Route
  <2>3. ASSUME ~closed', ~deaf', hubFaulted', ~observed'
        PROVE  Hub!FaultIsDirty' /\ (Hub!Told \/ \E q \in Hub!Procs : Hub!At(q, "first_fault"))'
    BY <2>1, <2>3, Zenon DEF Hub!FaultIsDirty, Hub!Told, Hub!Telling, Hub!Route
  <2> QED  BY <2>1, <2>2, <2>3, Zenon
<1>5. CASE Hub!ClearDirty
  <2> USE <1>5 DEF Hub!ClearDirty
  <2>1. Hub!Places'
    BY Zenon
  <2>2. ASSUME ~closed', ~hubFaulted'
        PROVE  back' = "idle" /\ Hub!ReadyIsDirty' /\ (dirty' => Hub!Told')
    BY <2>1, <2>2, Zenon DEF Hub!ReadyIsDirty, Hub!Told, Hub!Telling, Hub!Route
  <2>3. ASSUME ~closed', ~deaf', hubFaulted', ~observed'
        PROVE  Hub!FaultIsDirty' /\ (Hub!Told \/ \E q \in Hub!Procs : Hub!At(q, "first_fault"))'
    BY <2>1, <2>3, Zenon DEF Hub!FaultIsDirty, Hub!Told, Hub!Telling, Hub!Route
  <2> QED  BY <2>1, <2>2, <2>3, Zenon
<1>10. CASE Hub!CheckRoute
  <2> USE <1>10 DEF Hub!CheckRoute
  <2>1. Hub!Places'
    BY Zenon
  <2>2. ASSUME ~closed', ~hubFaulted'
        PROVE  back' = "idle" /\ Hub!ReadyIsDirty' /\ (dirty' => Hub!Told')
    BY <2>1, <2>2, Zenon DEF Hub!ReadyIsDirty, Hub!Told, Hub!Telling, Hub!Route
  <2>3. ASSUME ~closed', ~deaf', hubFaulted', ~observed'
        PROVE  Hub!FaultIsDirty' /\ (Hub!Told \/ \E q \in Hub!Procs : Hub!At(q, "first_fault"))'
    BY <2>1, <2>3, Zenon DEF Hub!FaultIsDirty, Hub!Told, Hub!Telling, Hub!Route
  <2> QED  BY <2>1, <2>2, <2>3, Zenon
<1>6. CASE Hub!NextWork
  <2> USE <1>6 DEF Hub!NextWork
  <2>1. Hub!Places'
    BY Zenon
  <2>2. ASSUME ~closed', ~hubFaulted'
        PROVE  back' = "idle" /\ Hub!ReadyIsDirty' /\ (dirty' => Hub!Told')
    BY <2>1, <2>2, Zenon DEF Hub!ReadyIsDirty, Hub!Told, Hub!Telling, Hub!Route
  <2>3. ASSUME ~closed', ~deaf', hubFaulted', ~observed'
        PROVE  Hub!FaultIsDirty' /\ (Hub!Told \/ \E q \in Hub!Procs : Hub!At(q, "first_fault"))'
    BY <2>1, <2>3, Zenon DEF Hub!FaultIsDirty, Hub!Told, Hub!Telling, Hub!Route
  <2> QED  BY <2>1, <2>2, <2>3, Zenon
<1>7. CASE Hub!Park
  <2> USE <1>7 DEF Hub!Park
  <2>1. Hub!Places'
    BY Zenon
  <2>2. ASSUME ~closed', ~hubFaulted'
        PROVE  back' = "idle" /\ Hub!ReadyIsDirty' /\ (dirty' => Hub!Told')
    BY <2>1, <2>2, Zenon DEF Hub!ReadyIsDirty, Hub!Told, Hub!Telling, Hub!Route
  <2>3. ASSUME ~closed', ~deaf', hubFaulted', ~observed'
        PROVE  Hub!FaultIsDirty' /\ (Hub!Told \/ \E q \in Hub!Procs : Hub!At(q, "first_fault"))'
    BY <2>1, <2>3, Zenon DEF Hub!FaultIsDirty, Hub!Told, Hub!Telling, Hub!Route
  <2> QED  BY <2>1, <2>2, <2>3, Zenon
<1>8. CASE Hub!Finish
  <2> USE <1>8 DEF Hub!Finish
  <2>1. Hub!Places'
    BY Zenon
  <2>2. ASSUME ~closed', ~hubFaulted'
        PROVE  back' = "idle" /\ Hub!ReadyIsDirty' /\ (dirty' => Hub!Told')
    BY <2>1, <2>2, Zenon DEF Hub!ReadyIsDirty, Hub!Told, Hub!Telling, Hub!Route
  <2>3. ASSUME ~closed', ~deaf', hubFaulted', ~observed'
        PROVE  Hub!FaultIsDirty' /\ (Hub!Told \/ \E q \in Hub!Procs : Hub!At(q, "first_fault"))'
    BY <2>1, <2>3, Zenon DEF Hub!FaultIsDirty, Hub!Told, Hub!Telling, Hub!Route
  <2> QED  BY <2>1, <2>2, <2>3, Zenon
<1>9. CASE Hub!EndTurn
  <2> USE <1>9 DEF Hub!EndTurn
  <2>1. Hub!Places'
    BY Zenon
  <2>2. ASSUME ~closed', ~hubFaulted'
        PROVE  back' = "idle" /\ Hub!ReadyIsDirty' /\ (dirty' => Hub!Told')
    BY <2>1, <2>2, Zenon DEF Hub!ReadyIsDirty, Hub!Told, Hub!Telling, Hub!Route
  <2>3. ASSUME ~closed', ~deaf', hubFaulted', ~observed'
        PROVE  Hub!FaultIsDirty' /\ (Hub!Told \/ \E q \in Hub!Procs : Hub!At(q, "first_fault"))'
    BY <2>1, <2>3, Zenon DEF Hub!FaultIsDirty, Hub!Told, Hub!Telling, Hub!Route
  <2> QED  BY <2>1, <2>2, <2>3, Zenon
<1> QED  BY <1>1, <1>2, <1>3, <1>4, <1>5, <1>6, <1>7, <1>8, <1>9, <1>10, Zenon

LEMMA HubHolds == Hub!Spec => []Hub!HubInv
<1>1. Hub!Init => Hub!HubInv
  BY Zenon DEF Hub!Init, Hub!HubInv, Hub!Places, Hub!ReadyIsDirty, Hub!HubLabels, Hub!TurnLabels
<1>2. Hub!HubInv /\ UNCHANGED Hub!vars => Hub!HubInv'
  BY DEF Hub!vars, Hub!HubInv, Hub!Places, Hub!ReadyIsDirty, Hub!FaultIsDirty, Hub!Told,
         Hub!Telling, Hub!InTurn, Hub!Route, Hub!At, Hub!routes, Hub!flags, Hub!work
<1>3. Hub!HubInv /\ [Hub!Next]_(Hub!vars) => Hub!HubInv'
  BY <1>2, HubCalls, HubHost, HubTurn, Zenon DEF Hub!Next, Hub!HubStep, Hub!TurnStep
<1> QED  BY <1>1, <1>3, PTL DEF Hub!Spec

\* Whichever wakers are registered, borrowed over and given back while threads signal:
\* when nobody is inside a call and an execution is ready, the task behind the route
\* in place has been woken (scheduler/wake.rs: mark_ready, notify, finish_turn).
THEOREM ReadinessAnnounced == Hub!Spec => []ReadyIsAnnounced
<1>1. Hub!HubInv => ReadyIsAnnounced
  BY Zenon DEF Hub!HubInv, ReadyIsAnnounced, Hub!ReadyIsAnnounced, Hub!Quiet, Hub!ReadyIsDirty, Hub!Told, Hub!Telling,
         Hub!InTurn, Hub!At, Hub!Procs, Hub!HubLabels, Hub!TurnLabels
<1> QED  BY <1>1, HubHolds, PTL

\* A panic that contain_callback catches on any thread is reported to the host, or the
\* host has been woken to find it, unless a waker itself panicked (wake.rs: contain).
THEOREM PanicsReported == Hub!Spec => []FaultReported
<1>1. Hub!HubInv => FaultReported
  BY Zenon DEF Hub!HubInv, FaultReported, Hub!FaultReported, Hub!Quiet, Hub!Told, Hub!Telling,
         Hub!InTurn, Hub!At, Hub!Procs, Hub!HubLabels, Hub!TurnLabels
<1> QED  BY <1>1, HubHolds, PTL

-----------------------------------------------------------------------------
(* The result cell.                                                        *)

LEMMA InitInv == Init => IInv
  BY NoneAssumption, Zenon DEF Init, IInv, Covered, ResultKept

\* The steps of the receiver: poll(), cancel() and drop.
LEMMA ReceiverStep ==
    ASSUME IInv,
           \/ \E w \in Wakers : PollClone(w)
           \/ PollLock \/ PollCheck \/ CancelLoad \/ CancelRequest \/ DropTicket \/ Discard
    PROVE  IInv'
<1>1. ASSUME NEW w \in Wakers, PollClone(w) PROVE IInv'
  BY <1>1, Zenon DEF PollClone, Returns, Panics, IInv, Covered, ResultKept, cell, sink, panics
<1>2. CASE PollLock
  BY <1>2, Zenon DEF PollLock, IInv, Covered, ResultKept, sink, panics
<1>3. CASE PollCheck
  <2>1. /\ rpc = "check" /\ hand' = None /\ took' = None /\ (~faulted' => ~faulted)
        /\ UNCHANGED <<result, waker, abandoned, outcome, taken, finished, spc, woken>>
    BY <1>3 DEF PollCheck, Returns, Panics, cell, sink, panics
  <2>2. CASE took = None /\ ~faulted'
    <3>1. pending' = hand /\ rpc' = "idle" /\ consumed' = consumed
      BY <1>3, <2>2, Zenon DEF PollCheck
    <3> QED  BY <2>1, <2>2, <3>1, Zenon DEF IInv, Covered, ResultKept
  <2>3. CASE ~(took = None /\ ~faulted')
    <3>1. consumed' /\ rpc' = IF took = None THEN "cancel" ELSE "idle"
      BY <1>3, <2>3, Zenon DEF PollCheck
    <3> QED  BY <2>1, <2>3, <3>1, Zenon DEF IInv, Covered, ResultKept
  <2> QED  BY <2>2, <2>3, Zenon
<1>4. CASE CancelLoad
  BY <1>4, Zenon DEF CancelLoad, AfterCancel, IInv, Covered, ResultKept, cell, poll, sink, panics
<1>5. CASE CancelRequest
  BY <1>5, Zenon DEF CancelRequest, AfterCancel, Returns, Panics, IInv, Covered, ResultKept,
              cell, poll, sink, panics
<1>6. CASE DropTicket
  BY <1>6, Zenon DEF DropTicket, IInv, Covered, ResultKept, poll, sink, panics
<1>7. CASE Discard
  BY <1>7, Zenon DEF Discard, Returns, Panics, IInv, Covered, ResultKept, cell, poll, sink, panics
<1> QED  BY <1>1, <1>2, <1>3, <1>4, <1>5, <1>6, <1>7, Zenon

\* The scheduler's steps before publication.
LEMMA RunStep ==
    ASSUME IInv,
           \/ Prepare \/ Retire \/ Fail \/ Postpone \/ RetireCancelled \/ Turn
           \/ CancelScheduled
    PROVE  IInv'
<1> USE NoneAssumption DEF Outcomes
<1>1. CASE Prepare
  BY <1>1, Zenon DEF Prepare, Returns, Panics, IInv, Covered, ResultKept, cell, poll, panics
<1>2. CASE Retire
  BY <1>2, Zenon DEF Retire, IInv, Covered, ResultKept, cell, poll, panics
<1>3. CASE Fail
  BY <1>3, Zenon DEF Fail, IInv, Covered, ResultKept, cell, poll, panics
<1>4. CASE Postpone
  BY <1>4, Zenon DEF Postpone, Returns, Panics, IInv, Covered, ResultKept, cell, poll, sink, panics
<1>5. CASE RetireCancelled
  BY <1>5, Zenon DEF RetireCancelled, IInv, Covered, ResultKept, cell, poll, panics
<1>6. CASE Turn
  BY <1>6, Zenon DEF Turn, IInv, Covered, ResultKept, cell, poll, sink, panics
<1>7. CASE CancelScheduled
  BY <1>7, Zenon DEF CancelScheduled, IInv, Covered, ResultKept, cell, poll, panics
<1> QED  BY <1>1, <1>2, <1>3, <1>4, <1>5, <1>6, <1>7, Zenon

LEMMA PublishStep ==
    ASSUME IInv, Publish
    PROVE  IInv'
<1> USE NoneAssumption DEF Outcomes
<1>1. CASE PublishDrop
  BY <1>1, Zenon DEF PublishDrop, Returns, Panics, IInv, Covered, ResultKept, cell, poll, panics
<1>2. CASE PublishCheck
  BY <1>2, Zenon DEF PublishCheck, IInv, Covered, ResultKept, cell, poll, panics
<1>3. CASE PublishLock
  BY <1>3, Zenon DEF PublishLock, IInv, Covered, ResultKept, poll, panics
<1>4. CASE PublishWake
  BY <1>4, Zenon DEF PublishWake, Returns, Panics, IInv, Covered, ResultKept, cell, poll, panics
<1>5. CASE PublishEnd
  BY <1>5, Zenon DEF PublishEnd, Returns, Panics, IInv, Covered, ResultKept, cell, poll, panics
<1> QED  BY <1>1, <1>2, <1>3, <1>4, <1>5, Zenon DEF Publish

\* IInv is an invariant: no step of the receiver, of the driver or of publish(),
\* panics of host code included, breaks it.
THEOREM InvariantHolds == Spec => []IInv
<1>1. IInv /\ UNCHANGED vars => IInv'
  BY DEF vars, IInv, Covered, ResultKept, cell, poll, sink, panics
<1>2. IInv /\ [Next]_vars => IInv'
  BY <1>1, ReceiverStep, RunStep, PublishStep, Zenon DEF Next, Sink
<1> QED  BY <1>2, InitInv, PTL DEF Spec

\* A poll that returned Pending is woken by the publication it crossed, or the
\* hub has faulted: ScheduledResult::poll and TypedSink::publish cannot miss
\* each other, whichever waker the receiver polls with.
THEOREM ReceiverWoken == Spec => []NoLostResult
<1>1. IInv => NoLostResult
  BY Zenon DEF IInv, NoLostResult, Waiting, Covered
<1> QED  BY <1>1, InvariantHolds, PTL

\* is_finished() never announces a result that is not there, and a dropped
\* ticket leaves neither a result nor a waker in the cell.
THEOREM FinishedResultKept == Spec => []ResultKept
<1>1. IInv => ResultKept
  BY Zenon DEF IInv
<1> QED  BY <1>1, InvariantHolds, PTL
=============================================================================
