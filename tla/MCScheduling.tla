---------------------------- MODULE MCScheduling ----------------------------
(***************************************************************************)
(* What the runtime owes those that wait for it: the result cell, the      *)
(* owner of an execution, and the pacing of the collector at safepoints.   *)
(* They share no variable, so a behaviour follows one of them, `part', and *)
(* the others rest in their initial state.                                 *)
(***************************************************************************)
EXTENDS ExecutionTable

CONSTANTS w1, w2, p1,
          UsizeMax, Limit, MinGrowth, GrowthPercent, AssistMultiplier, RetirementCap,
          CycleWork, MaxOps

VARIABLES bytes, garbage, doomed, left, growth, releases, threshold, last, ops,
          part

heap == <<bytes, garbage, doomed, left, growth, releases, threshold, last, ops>>

Pacing == INSTANCE HeapPacing WITH used <- bytes

ResultAlone == UNCHANGED <<own, heap, part>>
OwnAlone == UNCHANGED <<vars, heap, part>>
PacingAlone == UNCHANGED <<vars, own, part>>

PartInit ==
  /\ Init /\ Own!Init /\ Pacing!Init
  /\ part \in {"result", "execution", "pacing"}

ResultNext ==
  \/ \E w \in Wakers : part = "result" /\ PollClone(w) /\ ResultAlone
  \/ part = "result" /\ CancelLoad /\ ResultAlone
  \/ part = "result" /\ DropTicket /\ ResultAlone
  \/ part = "result" /\ PollLock /\ ResultAlone
  \/ part = "result" /\ PollCheck /\ ResultAlone
  \/ part = "result" /\ CancelRequest /\ ResultAlone
  \/ part = "result" /\ Discard /\ ResultAlone
  \/ part = "result" /\ Prepare /\ ResultAlone
  \/ part = "result" /\ Retire /\ ResultAlone
  \/ part = "result" /\ Fail /\ ResultAlone
  \/ part = "result" /\ Postpone /\ ResultAlone
  \/ part = "result" /\ RetireCancelled /\ ResultAlone
  \/ part = "result" /\ Turn /\ ResultAlone
  \/ part = "result" /\ CancelScheduled /\ ResultAlone
  \/ part = "result" /\ PublishDrop /\ ResultAlone
  \/ part = "result" /\ PublishCheck /\ ResultAlone
  \/ part = "result" /\ PublishLock /\ ResultAlone
  \/ part = "result" /\ PublishWake /\ ResultAlone
  \/ part = "result" /\ PublishEnd /\ ResultAlone

OwnNext ==
  \/ part = "execution" /\ Own!CheckReady /\ OwnAlone
  \/ part = "execution" /\ Own!Replace /\ OwnAlone
  \/ \E t \in Own!Threads : part = "execution" /\ Own!LoadFinished(t) /\ OwnAlone
  \/ \E t \in Own!Threads : part = "execution" /\ Own!Swap(t) /\ OwnAlone
  \/ \E t \in Own!Threads : part = "execution" /\ Own!CloneWake(t) /\ OwnAlone
  \/ \E t \in Own!Threads : part = "execution" /\ Own!CallWake(t) /\ OwnAlone
  \/ part = "execution" /\ Own!Poll /\ OwnAlone
  \/ part = "execution" /\ Own!EndPark /\ OwnAlone
  \/ part = "execution" /\ Own!StoreFinished /\ OwnAlone
  \/ part = "execution" /\ Own!ClearReady /\ OwnAlone
  \/ part = "execution" /\ Own!TakeWake /\ OwnAlone
  \/ part = "execution" /\ Own!ParkWaiting /\ OwnAlone
  \/ part = "execution" /\ Own!ParkReady /\ OwnAlone
  \/ part = "execution" /\ Own!Terminate /\ OwnAlone
  \/ \E p \in Providers : part = "execution" /\ Own!Answer(p) /\ OwnAlone
  \/ \E w \in HostWakers : part = "execution" /\ Own!SetWaker(w) /\ OwnAlone
  \/ part = "execution" /\ Own!Cancel /\ OwnAlone
  \/ part = "execution" /\ Own!DropHandle /\ OwnAlone
  \/ part = "execution" /\ Own!Resume /\ OwnAlone
  \/ part = "execution" /\ Own!Drain /\ OwnAlone

PacingNext ==
  \/ \E n \in 1..Limit : part = "pacing" /\ Pacing!Allocate(n) /\ PacingAlone
  \/ \E n \in 1..Limit : part = "pacing" /\ Pacing!Forget(n) /\ PacingAlone
  \/ part = "pacing" /\ Pacing!DropRoot /\ PacingAlone
  \/ part = "pacing" /\ Pacing!Sleep /\ PacingAlone
  \/ part = "pacing" /\ Pacing!StartStep /\ PacingAlone
  \/ part = "pacing" /\ Pacing!ContinueStep /\ PacingAlone
  \/ part = "pacing" /\ Pacing!FinishStep /\ PacingAlone
  \/ part = "pacing" /\ Pacing!AssistStep /\ PacingAlone

PartNext == ResultNext \/ OwnNext \/ PacingNext
PartVars == <<vars, own, heap, part>>
PartSpec == PartInit /\ [][PartNext]_PartVars

\* The receiver and the runtime's threads finish the calls they are in, a host that
\* was told resumes and drains, and it keeps calling safepoint.
PartFairSpec ==
  /\ PartSpec
  /\ WF_PartVars(part = "result" /\ Receiver /\ ResultAlone)
  /\ WF_PartVars(part = "result" /\ (Retire \/ Publish \/ RetireCancelled) /\ ResultAlone)
  /\ WF_PartVars(part = "execution" /\ (Own!CheckReady \/ Own!Replace) /\ OwnAlone)
  /\ \A t \in Own!Threads : WF_PartVars(part = "execution" /\ Own!Mark(t) /\ OwnAlone)
  /\ WF_PartVars(part = "execution" /\ Own!Slice /\ OwnAlone)
  /\ WF_PartVars(part = "execution" /\ Own!EndSlice /\ OwnAlone)
  /\ SF_PartVars(part = "execution" /\ Own!ResumeTold /\ OwnAlone)
  /\ SF_PartVars(part = "execution" /\ Own!Drain /\ OwnAlone)
  /\ WF_PartVars(part = "pacing" /\ Pacing!Safepoint /\ PacingAlone)

-----------------------------------------------------------------------------
\* The execution of a dropped handle is retired, without being resumed.
AbandonedRetires == Own!AbandonedRetires

\* Once the mutator has stopped, safepoints end the cycle that is in progress and
\* come to rest, however near the limit the live data are (heap/pacing.rs).
CollectorSleeps == Pacing!CollectorSleeps
=============================================================================
