-------------------------- MODULE CompletionProofs --------------------------
(***************************************************************************)
(* The completion transport keeps its promises for any operations,         *)
(* producers, capacity and last generation.  Each lemma shows that a step  *)
(* preserves some conjuncts of IInv, action by action; the theorems read   *)
(* the properties off the invariant.  At the end, the same for the lazy    *)
(* statics of StaticsTable, for any cells, attempts and nested sessions.   *)
(***************************************************************************)
EXTENDS CompletionTransport, StaticsTable, TLAPS

LEMMA InitInv == Init => IInv
<1> SUFFICES ASSUME Init PROVE IInv
  BY Zenon
<1> USE ServesAssumption, CapacityAssumption, GenAssumption, NoneAssumption,
        ProducersAssumption
<1>1. TypeOK
  <2>1. [s \in SlotIds |-> [pushed |-> FALSE, active |-> FALSE, generation |-> 0]]
            \in [SlotIds -> Slot]
    BY DEF Slot, Generations
  <2> QED  BY ZenonT(40), <2>1 DEF Init, TypeOK, NoCall
<1>2. CallInv /\ ResultInv /\ HookInv
  BY Zenon DEF Init, CallInv, ResultInv, HookInv, NoCall, Ready, Accepted
<1>3. SlotInv /\ LeasesMatchSlots
  BY Zenon DEF Init, SlotInv, LeasesMatchSlots
<1>4. WakeInv /\ FirstResultWins
  BY Zenon DEF Init, WakeInv, FirstResultWins, Ready
<1> QED  BY <1>1, <1>2, <1>3, <1>4, Zenon DEF IInv

\* reserve() takes a slot that nobody holds.
LEMMA ReserveFacts ==
    ASSUME IInv, NEW o \in Ops, NEW s \in SlotIds, Reserve(o, s)
    PROVE  /\ slots[s].generation \in Generations /\ ~slots[s].active
           /\ slots' = [slots EXCEPT ![s] = [pushed |-> TRUE, active |-> TRUE,
                                             generation |-> slots[s].generation]]
           /\ lease[o] = None /\ lease' = [lease EXCEPT ![o] = <<s, slots[s].generation>>]
<1>1. slots[s] \in Slot
  BY Zenon DEF IInv, TypeOK
<1>2. slots[s].generation \in Generations /\ ~slots[s].active
  <2>1. CASE Reusable # {}
    BY <1>1, <2>1, Zenon DEF Reserve, Reusable, Slot
  <2>2. CASE Reusable = {}
    BY <2>2, GenAssumption DEF Reserve, Unpushed, IInv, SlotInv, Generations
  <2> QED  BY <2>1, <2>2, Zenon
<1>3. slots' = [slots EXCEPT ![s] = [pushed |-> TRUE, active |-> TRUE,
                                    generation |-> slots[s].generation]]
  BY Zenon DEF Reserve
<1>4. lease[o] = None /\ lease' = [lease EXCEPT ![o] = <<s, slots[s].generation>>]
  BY Zenon DEF Reserve, IInv, SlotInv
<1> QED  BY <1>2, <1>3, <1>4, Zenon

\* A reservation that is dropped leaves its slot free; release() finds it valid.
LEMMA ReleaseFacts ==
    ASSUME IInv, NEW o \in Ops, Release(o)
    PROVE  /\ faulted' \in BOOLEAN
           /\ lease' = [lease EXCEPT ![o] = None]
           /\ lease[o] = None => slots' = slots
           /\ lease[o] # None =>
                 \E g \in Generations \cup {None} :
                    slots' = [slots EXCEPT ![lease[o][1]] =
                                 [pushed |-> TRUE, active |-> FALSE, generation |-> g]]
<1>1. faulted' \in BOOLEAN /\ lease' = [lease EXCEPT ![o] = None]
  BY ZenonT(40) DEF Release, MayPanic, IInv, TypeOK
<1>2. lease[o] = None => slots' = slots
  BY Zenon DEF Release
<1>3. ASSUME lease[o] # None
      PROVE  \E g \in Generations \cup {None} :
                slots' = [slots EXCEPT ![lease[o][1]] =
                             [pushed |-> TRUE, active |-> FALSE, generation |-> g]]
  <2> DEFINE s == lease[o][1]
             g == IF lease[o][2] = MaxGen THEN None ELSE lease[o][2] + 1
  <2>1. s \in SlotIds /\ lease[o][2] \in Generations
    BY <1>3, Zenon DEF IInv, TypeOK
  <2>2. slots[s] \in Slot /\ slots[s].active /\ slots[s].generation = lease[o][2]
    BY <1>3, <2>1, Zenon DEF IInv, TypeOK, LeasesMatchSlots
  <2>4. g \in Generations \cup {None}
    BY <2>1, GenAssumption DEF Generations
  <2>5. slots' = Released(lease[o])
    BY <1>3, <2>2, Zenon DEF Release
  <2>6. slots' = [slots EXCEPT ![s] = [pushed |-> TRUE, active |-> FALSE, generation |-> g]]
    BY <2>5, Zenon DEF Released
  <2> QED  BY ZenonT(40), <2>4, <2>6
<1> QED  BY <1>1, <1>2, <1>3, Zenon

LEMMA ReleaseTyped ==
    ASSUME IInv, NEW o \in Ops, Release(o)
    PROVE  /\ slots' \in [SlotIds -> Slot] /\ faulted' \in BOOLEAN
           /\ lease' \in [Ops -> (SlotIds \X Generations) \cup {None}]
<1>1. lease' \in [Ops -> (SlotIds \X Generations) \cup {None}]
  BY ReleaseFacts, Zenon DEF IInv, TypeOK
<1>2. slots' \in [SlotIds -> Slot]
  <2>1. CASE lease[o] = None
    BY <2>1, ReleaseFacts, Zenon DEF IInv, TypeOK
  <2>2. CASE lease[o] # None
    <3>1. PICK g \in Generations \cup {None} :
             slots' = [slots EXCEPT ![lease[o][1]] =
                          [pushed |-> TRUE, active |-> FALSE, generation |-> g]]
      BY ZenonT(40), <2>2, ReleaseFacts
    <3>2. [pushed |-> TRUE, active |-> FALSE, generation |-> g] \in Slot
      BY Zenon DEF Slot
    <3> QED  BY ZenonT(40), <3>1, <3>2 DEF IInv, TypeOK
  <2> QED  BY <2>1, <2>2, Zenon
<1> QED  BY <1>1, <1>2, ReleaseFacts, Zenon

\* Every step is well typed.
LEMMA TypeStep ==
    ASSUME IInv, Next
    PROVE  TypeOK'
<1> USE ServesAssumption, NoneAssumption
<1>1. ASSUME NEW o \in Ops, NEW s \in SlotIds, Reserve(o, s) PROVE TypeOK'
  <2> DEFINE r == [pushed |-> TRUE, active |-> TRUE, generation |-> slots[s].generation]
             l == <<s, slots[s].generation>>
  <2>1. r \in Slot /\ l \in SlotIds \X Generations
    BY <1>1, ReserveFacts, Zenon DEF Slot
  <2>2. slots' = [slots EXCEPT ![s] = r] /\ lease' = [lease EXCEPT ![o] = l]
    BY <1>1, ReserveFacts, Zenon
  <2> HIDE DEF r, l
  <2>3. slots' \in [SlotIds -> Slot]
    BY <2>1, <2>2, Zenon DEF IInv, TypeOK
  <2>4. lease' \in [Ops -> (SlotIds \X Generations) \cup {None}]
    BY <2>1, <2>2, Zenon DEF IInv, TypeOK
  <2> QED  BY <1>1, <2>3, <2>4, Zenon DEF Reserve, IInv, TypeOK
<1>2. ASSUME NEW o \in Ops, SetWakerPanics(o) PROVE TypeOK'
  BY <1>2, Zenon DEF SetWakerPanics, IInv, TypeOK, MayPanic
<1>3. ASSUME NEW o \in Ops, SetWaker(o) PROVE TypeOK'
  BY ZenonT(40), <1>3 DEF SetWaker, IInv, TypeOK, MayPanic, NoCall
<1>4. ASSUME NEW o \in Ops, OnCancel(o) PROVE TypeOK'
  BY <1>4, Zenon DEF OnCancel, IInv, TypeOK, MayPanic
<1>5. ASSUME NEW o \in Ops, PollPending(o) PROVE TypeOK'
  BY <1>5, Zenon DEF PollPending, IInv, TypeOK, MayPanic
<1>6. ASSUME NEW o \in Ops, Park(o) PROVE TypeOK'
  BY <1>6, Zenon DEF Park, IInv, TypeOK, MayPanic
<1>7. ASSUME NEW o \in Ops, Resume(o) PROVE TypeOK'
  BY <1>7, Zenon DEF Resume, IInv, TypeOK, MayPanic
<1>8. ASSUME NEW o \in Ops, Poll(o) PROVE TypeOK'
  BY <1>8, Zenon DEF Poll, IInv, TypeOK, MayPanic, NoCall, Ready
<1>9. ASSUME NEW o \in Ops, Cancel(o) PROVE TypeOK'
  BY <1>9, Zenon DEF Cancel, IInv, TypeOK, MayPanic
<1>10. CASE SetWakerWake
  BY ZenonT(40), <1>10 DEF SetWakerWake, IInv, TypeOK, MayPanic, NoCall, CallInv
<1>11. CASE PollRelease
  <2> DEFINE o == call.on
  <2>1. o \in Ops /\ Release(o)
    BY <1>11, Zenon DEF PollRelease, IInv, CallInv
  <2> HIDE DEF o
  <2>2. /\ slots' \in [SlotIds -> Slot] /\ faulted' \in BOOLEAN
        /\ lease' \in [Ops -> (SlotIds \X Generations) \cup {None}]
    BY <2>1, ReleaseTyped, Zenon
  <2> QED  BY ZenonT(40), <1>11, <2>1, <2>2 DEF PollRelease, o, IInv, TypeOK, NoCall, ResultInv
<1>12. CASE CancelHook
  BY ZenonT(40), <1>12 DEF CancelHook, IInv, TypeOK, MayPanic, CallInv
<1>13. CASE CancelRelease
  <2> DEFINE o == call.on
  <2>1. o \in Ops /\ Release(o)
    BY <1>13, Zenon DEF CancelRelease, IInv, CallInv
  <2> HIDE DEF o
  <2>2. /\ slots' \in [SlotIds -> Slot] /\ faulted' \in BOOLEAN
        /\ lease' \in [Ops -> (SlotIds \X Generations) \cup {None}]
    BY <2>1, ReleaseTyped, Zenon
  <2> QED  BY <1>13, <2>1, <2>2, Zenon DEF CancelRelease, o, IInv, TypeOK, NoCall
<1>14. ASSUME NEW p \in Producers, Complete(p) PROVE TypeOK'
  BY <1>14 DEF Complete, IInv, TypeOK, MayPanic
<1>15. ASSUME NEW p \in Producers, CompleteWake(p) PROVE TypeOK'
  BY ZenonT(40), <1>15 DEF CompleteWake, IInv, TypeOK, MayPanic
<1> QED
  BY <1>1, <1>2, <1>3, <1>4, <1>5, <1>6, <1>7, <1>8, <1>9, <1>10, <1>11, <1>12,
     <1>13, <1>14, <1>15, Zenon DEF Next, Owner, PollFails

\* The call in progress stays with an operation it may act on.
LEMMA CallStep ==
    ASSUME IInv, Next
    PROVE  CallInv'
<1>1. ASSUME NEW o \in Ops, NEW s \in SlotIds, Reserve(o, s) PROVE CallInv'
  BY <1>1, Zenon DEF Reserve, IInv, TypeOK, CallInv, NoCall, Running
<1>2. ASSUME NEW o \in Ops, SetWakerPanics(o) PROVE CallInv'
  BY <1>2, Zenon DEF SetWakerPanics, IInv, TypeOK, CallInv, NoCall, Running
<1>3. ASSUME NEW o \in Ops, SetWaker(o) PROVE CallInv'
  BY <1>3, Zenon DEF SetWaker, IInv, TypeOK, CallInv, NoCall, Running
<1>4. ASSUME NEW o \in Ops, OnCancel(o) PROVE CallInv'
  BY <1>4, Zenon DEF OnCancel, IInv, TypeOK, CallInv, NoCall, Running
<1>5. ASSUME NEW o \in Ops, PollPending(o) PROVE CallInv'
  BY <1>5, Zenon DEF PollPending, IInv, TypeOK, CallInv, NoCall, Running
<1>6. ASSUME NEW o \in Ops, Park(o) PROVE CallInv'
  BY <1>6, Zenon DEF Park, IInv, TypeOK, CallInv, NoCall, Running
<1>7. ASSUME NEW o \in Ops, Resume(o) PROVE CallInv'
  BY <1>7, Zenon DEF Resume, IInv, TypeOK, CallInv, NoCall, Running
<1>8. ASSUME NEW o \in Ops, Poll(o) PROVE CallInv'
  BY <1>8, Zenon DEF Poll, IInv, TypeOK, CallInv, NoCall, Running
<1>9. ASSUME NEW o \in Ops, Cancel(o) PROVE CallInv'
  BY <1>9, Zenon DEF Cancel, IInv, TypeOK, CallInv, NoCall, Running
<1>10. CASE SetWakerWake
  BY <1>10, Zenon DEF SetWakerWake, IInv, TypeOK, CallInv, NoCall, Running
<1>11. CASE PollRelease
  BY <1>11, Zenon DEF PollRelease, IInv, TypeOK, CallInv, NoCall, Running
<1>12. CASE CancelHook
  BY <1>12, Zenon DEF CancelHook, IInv, TypeOK, CallInv, NoCall, Running
<1>13. CASE CancelRelease
  BY <1>13, Zenon DEF CancelRelease, IInv, TypeOK, CallInv, NoCall, Running
<1>14. ASSUME NEW p \in Producers, Complete(p) PROVE CallInv'
  BY <1>14, Zenon DEF Complete, IInv, TypeOK, CallInv, NoCall, Running
<1>15. ASSUME NEW p \in Producers, CompleteWake(p) PROVE CallInv'
  BY <1>15, Zenon DEF CompleteWake, IInv, TypeOK, CallInv, NoCall, Running
<1> QED
  BY <1>1, <1>2, <1>3, <1>4, <1>5, <1>6, <1>7, <1>8, <1>9, <1>10, <1>11, <1>12,
     <1>13, <1>14, <1>15, Zenon DEF Next, Owner, PollFails

\* An accepted result is kept, and nothing takes its place.
LEMMA ResultStep ==
    ASSUME IInv, Next
    PROVE  ResultInv' /\ FirstResultWins'
<1> USE ServesAssumption, NoneAssumption, ProducersAssumption
<1>1. ASSUME NEW o \in Ops, NEW s \in SlotIds, Reserve(o, s)
      PROVE  ResultInv' /\ FirstResultWins'
  BY <1>1, Zenon DEF Reserve, IInv, TypeOK, ResultInv, FirstResultWins, Ready, Accepted,
     CallInv, NoCall
<1>2. ASSUME NEW o \in Ops, SetWakerPanics(o) PROVE ResultInv' /\ FirstResultWins'
  BY <1>2, Zenon DEF SetWakerPanics, IInv, TypeOK, ResultInv, FirstResultWins, Ready,
     Accepted, CallInv, NoCall
<1>3. ASSUME NEW o \in Ops, SetWaker(o) PROVE ResultInv' /\ FirstResultWins'
  BY <1>3, Zenon DEF SetWaker, IInv, TypeOK, ResultInv, FirstResultWins, Ready, Accepted,
     CallInv, NoCall
<1>4. ASSUME NEW o \in Ops, OnCancel(o) PROVE ResultInv' /\ FirstResultWins'
  BY <1>4, Zenon DEF OnCancel, IInv, TypeOK, ResultInv, FirstResultWins, Ready, Accepted,
     CallInv, NoCall
<1>5. ASSUME NEW o \in Ops, PollPending(o) PROVE ResultInv' /\ FirstResultWins'
  BY <1>5 DEF PollPending, IInv, TypeOK, ResultInv, FirstResultWins, Ready, Accepted,
     CallInv, NoCall
<1>6. ASSUME NEW o \in Ops, Park(o) PROVE ResultInv' /\ FirstResultWins'
  BY <1>6 DEF Park, IInv, TypeOK, ResultInv, FirstResultWins, Ready, Accepted,
     CallInv, NoCall
<1>7. ASSUME NEW o \in Ops, Resume(o) PROVE ResultInv' /\ FirstResultWins'
  BY <1>7, Zenon DEF Resume, IInv, TypeOK, ResultInv, FirstResultWins, Ready, Accepted,
     CallInv, NoCall
<1>8. ASSUME NEW o \in Ops, Poll(o) PROVE ResultInv' /\ FirstResultWins'
  BY <1>8 DEF Poll, IInv, TypeOK, ResultInv, FirstResultWins, Ready, Accepted,
     CallInv, NoCall
<1>9. ASSUME NEW o \in Ops, Cancel(o) PROVE ResultInv' /\ FirstResultWins'
  BY <1>9 DEF Cancel, IInv, TypeOK, ResultInv, FirstResultWins, Ready, Accepted,
     CallInv, NoCall
<1>10. CASE SetWakerWake
  BY <1>10, Zenon DEF SetWakerWake, IInv, TypeOK, ResultInv, FirstResultWins, Ready,
     Accepted, CallInv, NoCall
<1>11. CASE PollRelease
  BY <1>11 DEF PollRelease, IInv, TypeOK, ResultInv, FirstResultWins, Ready,
     Accepted, CallInv, NoCall
<1>12. CASE CancelHook
  BY <1>12, Zenon DEF CancelHook, IInv, TypeOK, ResultInv, FirstResultWins, Ready, Accepted,
     CallInv, NoCall
<1>13. CASE CancelRelease
  BY <1>13, Zenon DEF CancelRelease, IInv, TypeOK, ResultInv, FirstResultWins, Ready,
     Accepted, CallInv, NoCall
<1>14. ASSUME NEW p \in Producers, Complete(p) PROVE ResultInv' /\ FirstResultWins'
  <2> USE <1>14 DEF Complete, IInv, TypeOK
  <2>1. CASE status[Serves[p]] # "Pending"
    <3>1. \A q \in Producers : Accepted(q)' <=> Accepted(q)
      BY <2>1, Zenon DEF Accepted
    <3> QED  BY <2>1, <3>1 DEF ResultInv, FirstResultWins, Ready, Accepted
  <2>2. CASE status[Serves[p]] = "Pending"
    <3>1. \A q \in Producers : Serves[q] = Serves[p] => ~Accepted(q)
      BY <2>2 DEF ResultInv
    <3>2. \A q \in Producers : q # p => pc'[q] = pc[q]
      BY Zenon
    <3>3. pc'[p] \in {"waking", "accepted"} /\ status'[Serves[p]] = p
      BY <2>2
    <3>4. \A o \in Ops : o # Serves[p] => status'[o] = status[o]
      BY <2>2, Zenon
    <3>5. ResultInv'
      BY <3>1, <3>2, <3>3, <3>4 DEF ResultInv, Ready, Accepted
    <3>6. FirstResultWins'
      BY <3>1, <3>2, <3>3 DEF FirstResultWins, Accepted
    <3> QED  BY <3>5, <3>6, Zenon
  <2> QED  BY <2>1, <2>2, Zenon
<1>15. ASSUME NEW p \in Producers, CompleteWake(p) PROVE ResultInv' /\ FirstResultWins'
  BY <1>15 DEF CompleteWake, IInv, TypeOK, ResultInv, FirstResultWins, Ready,
     Accepted, CallInv, NoCall
<1> QED
  BY <1>1, <1>2, <1>3, <1>4, <1>5, <1>6, <1>7, <1>8, <1>9, <1>10, <1>11, <1>12,
     <1>13, <1>14, <1>15, Zenon DEF Next, Owner, PollFails

\* A claim and the hook exclude each other.
LEMMA HookStep ==
    ASSUME IInv, Next
    PROVE  HookInv'
<1>1. ASSUME NEW o \in Ops, NEW s \in SlotIds, Reserve(o, s) PROVE HookInv'
  BY <1>1 DEF Reserve, IInv, TypeOK, HookInv, CallInv, NoCall, Running
<1>2. ASSUME NEW o \in Ops, SetWakerPanics(o) PROVE HookInv'
  BY <1>2, Zenon DEF SetWakerPanics, IInv, TypeOK, HookInv, CallInv, NoCall, Running
<1>3. ASSUME NEW o \in Ops, SetWaker(o) PROVE HookInv'
  BY <1>3, Zenon DEF SetWaker, IInv, TypeOK, HookInv, CallInv, NoCall, Running
<1>4. ASSUME NEW o \in Ops, OnCancel(o) PROVE HookInv'
  BY <1>4 DEF OnCancel, IInv, TypeOK, HookInv, CallInv, NoCall, Running
<1>5. ASSUME NEW o \in Ops, PollPending(o) PROVE HookInv'
  BY <1>5 DEF PollPending, IInv, TypeOK, HookInv, CallInv, NoCall, Running
<1>6. ASSUME NEW o \in Ops, Park(o) PROVE HookInv'
  BY <1>6 DEF Park, IInv, TypeOK, HookInv, CallInv, NoCall, Running
<1>7. ASSUME NEW o \in Ops, Resume(o) PROVE HookInv'
  BY <1>7 DEF Resume, IInv, TypeOK, HookInv, CallInv, NoCall, Running
<1>8. ASSUME NEW o \in Ops, Poll(o) PROVE HookInv'
  BY <1>8 DEF Poll, IInv, TypeOK, HookInv, CallInv, NoCall, Running
<1>9. ASSUME NEW o \in Ops, Cancel(o) PROVE HookInv'
  BY <1>9 DEF Cancel, IInv, TypeOK, HookInv, CallInv, NoCall, Running
<1>10. CASE SetWakerWake
  BY <1>10, Zenon DEF SetWakerWake, IInv, TypeOK, HookInv, CallInv, NoCall, Running
<1>11. CASE PollRelease
  BY <1>11, Zenon DEF PollRelease, IInv, TypeOK, HookInv, CallInv, NoCall, Running
<1>12. CASE CancelHook
  BY <1>12, Zenon DEF CancelHook, IInv, TypeOK, HookInv, CallInv, NoCall, Running
<1>13. CASE CancelRelease
  BY <1>13, Zenon DEF CancelRelease, IInv, TypeOK, HookInv, CallInv, NoCall, Running
<1>14. ASSUME NEW p \in Producers, Complete(p) PROVE HookInv'
  BY <1>14, Zenon DEF Complete, IInv, TypeOK, HookInv, CallInv, NoCall, Running
<1>15. ASSUME NEW p \in Producers, CompleteWake(p) PROVE HookInv'
  BY <1>15, Zenon DEF CompleteWake, IInv, TypeOK, HookInv, CallInv, NoCall, Running
<1> QED
  BY <1>1, <1>2, <1>3, <1>4, <1>5, <1>6, <1>7, <1>8, <1>9, <1>10, <1>11, <1>12,
     <1>13, <1>14, <1>15, Zenon DEF Next, Owner, PollFails

\* Dropping a reservation keeps leases and slots matched.
LEMMA DropStep ==
    ASSUME IInv, NEW o \in Ops, Release(o), op' = op
    PROVE  SlotInv' /\ LeasesMatchSlots'
<1>1. CASE lease[o] = None
  <2>1. slots' = slots /\ lease' = lease
    BY <1>1, ReleaseFacts DEF IInv, TypeOK
  <2> QED  BY <2>1, Zenon DEF IInv, SlotInv, LeasesMatchSlots
<1>2. CASE lease[o] # None
  <2> DEFINE s == lease[o][1]
  <2>1. PICK g \in Generations \cup {None} :
           slots' = [slots EXCEPT ![s] = [pushed |-> TRUE, active |-> FALSE, generation |-> g]]
    BY ZenonT(40), <1>2, ReleaseFacts
  <2>2. s \in SlotIds /\ lease' = [lease EXCEPT ![o] = None]
    BY <1>2, ReleaseFacts, Zenon DEF IInv, TypeOK
  <2>3. \A t \in SlotIds : t # s => slots'[t] = slots[t]
    BY <2>1, Zenon DEF IInv, TypeOK
  <2>4. slots'[s].pushed /\ ~slots'[s].active
    BY <2>1, <2>2, Zenon DEF IInv, TypeOK
  <2>5. \A q \in Ops : q # o => lease'[q] = lease[q] /\ (lease[q] # None => lease[q][1] # s)
    BY <1>2, <2>2, Zenon DEF IInv, TypeOK, LeasesMatchSlots
  <2>6. lease'[o] = None
    BY <2>2, Zenon DEF IInv, TypeOK
  <2>7. \A q \in Ops : lease[q] # None => lease[q][1] \in SlotIds
    BY Zenon DEF IInv, TypeOK
  <2> HIDE DEF s
  <2>8. SlotInv'
    BY <2>2, <2>3, <2>4, <2>5, <2>6, Zenon DEF IInv, SlotInv
  <2>9. LeasesMatchSlots'
    <3>1. \A q \in Ops : lease'[q] # None =>
             slots'[lease'[q][1]].active /\ slots'[lease'[q][1]].generation = lease'[q][2]
      BY <2>3, <2>5, <2>6, <2>7 DEF IInv, LeasesMatchSlots
    <3>2. \A q, r \in Ops : (q # r /\ lease'[q] # None /\ lease'[r] # None)
             => lease'[q][1] # lease'[r][1]
      BY <2>5, <2>6 DEF IInv, LeasesMatchSlots
    <3>3. \A t \in SlotIds : slots'[t].active =>
             \E q \in Ops : lease'[q] # None /\ lease'[q][1] = t
      <4> TAKE t \in SlotIds
      <4> HAVE slots'[t].active
      <4>1. t # s /\ slots[t].active
        BY <2>3, <2>4, Zenon
      <4>2. PICK q \in Ops : lease[q] # None /\ lease[q][1] = t
        BY <4>1, Zenon DEF IInv, LeasesMatchSlots
      <4>3. q # o
        BY <4>1, <4>2, Zenon DEF s
      <4> QED  BY <2>5, <4>2, <4>3
    <3> QED  BY <3>1, <3>2, <3>3, Zenon DEF LeasesMatchSlots
  <2> QED  BY <2>8, <2>9, Zenon
<1> QED  BY <1>1, <1>2, Zenon

\* A step that leaves slots and leases alone, and makes no operation new again.
LEMMA SlotsStill ==
    ASSUME IInv, slots' = slots, lease' = lease,
           \A q \in Ops : op'[q] = "new" => op[q] = "new"
    PROVE  SlotInv' /\ LeasesMatchSlots'
<1>1. SlotInv'
  BY Zenon DEF IInv, SlotInv
<1>2. LeasesMatchSlots'
  BY Zenon DEF IInv, LeasesMatchSlots
<1> QED  BY <1>1, <1>2, Zenon

\* Leases and active slots stay matched.
LEMMA SlotStep ==
    ASSUME IInv, Next
    PROVE  SlotInv' /\ LeasesMatchSlots'
<1> USE NoneAssumption
<1>0. op \in [Ops -> {"new", "running", "polled", "parked", "retired"}]
  BY Zenon DEF IInv, TypeOK
<1>1. ASSUME NEW o \in Ops, NEW s \in SlotIds, Reserve(o, s)
      PROVE  SlotInv' /\ LeasesMatchSlots'
  <2>1. \A t \in SlotIds : t # s => slots'[t] = slots[t]
    BY <1>1, ReserveFacts DEF IInv, TypeOK
  <2>2. slots'[s].pushed /\ slots'[s].active /\ slots'[s].generation = slots[s].generation
    BY <1>1, ReserveFacts DEF IInv, TypeOK
  <2>3. \A q \in Ops : q # o => lease'[q] = lease[q]
    BY <1>1, ReserveFacts DEF IInv, TypeOK
  <2>4. lease'[o] = <<s, slots[s].generation>> /\ lease[o] = None
    BY <1>1, ReserveFacts DEF IInv, TypeOK
  <2>5. \A q \in Ops : lease[q] # None => lease[q][1] \in SlotIds /\ lease[q][1] # s
    BY <1>1, ReserveFacts DEF IInv, TypeOK, LeasesMatchSlots
  <2>6. SlotInv'
    BY <1>1, <2>1, <2>2, <2>3, <2>4 DEF Reserve, IInv, TypeOK, SlotInv
  <2>7. LeasesMatchSlots'
    <3>1. \A q \in Ops : lease'[q] # None =>
             slots'[lease'[q][1]].active /\ slots'[lease'[q][1]].generation = lease'[q][2]
      BY <2>1, <2>2, <2>3, <2>4, <2>5 DEF IInv, LeasesMatchSlots
    <3>2. \A q, r \in Ops : (q # r /\ lease'[q] # None /\ lease'[r] # None)
             => lease'[q][1] # lease'[r][1]
      BY <2>3, <2>4, <2>5 DEF IInv, LeasesMatchSlots
    <3>3. \A t \in SlotIds : slots'[t].active =>
             \E q \in Ops : lease'[q] # None /\ lease'[q][1] = t
      <4> TAKE t \in SlotIds
      <4> HAVE slots'[t].active
      <4>1. CASE t = s
        <5>1. lease'[o] # None /\ lease'[o][1] = t
          BY <1>1, <2>4, <4>1, ReserveFacts, NoneAssumption DEF SlotIds, Generations
        <5> QED  BY <5>1, Zenon
      <4>2. CASE t # s
        <5>1. PICK q \in Ops : lease[q] # None /\ lease[q][1] = t
          BY <2>1, <4>2, Zenon DEF IInv, LeasesMatchSlots
        <5> QED  BY <2>3, <2>4, <5>1, Zenon
      <4> QED  BY <4>1, <4>2, Zenon
    <3> QED  BY <3>1, <3>2, <3>3, Zenon DEF LeasesMatchSlots
  <2> QED  BY <2>6, <2>7, Zenon
<1>2. ASSUME NEW o \in Ops, SetWakerPanics(o) PROVE SlotInv' /\ LeasesMatchSlots'
  <2>1. slots' = slots /\ lease' = lease /\ \A q \in Ops : op'[q] = "new" => op[q] = "new"
    BY <1>2, <1>0, Zenon DEF SetWakerPanics
  <2> QED  BY <2>1, SlotsStill, Zenon
<1>3. ASSUME NEW o \in Ops, SetWaker(o) PROVE SlotInv' /\ LeasesMatchSlots'
  <2>1. slots' = slots /\ lease' = lease /\ \A q \in Ops : op'[q] = "new" => op[q] = "new"
    BY <1>3, <1>0, Zenon DEF SetWaker
  <2> QED  BY <2>1, SlotsStill, Zenon
<1>4. ASSUME NEW o \in Ops, OnCancel(o) PROVE SlotInv' /\ LeasesMatchSlots'
  <2>1. slots' = slots /\ lease' = lease /\ \A q \in Ops : op'[q] = "new" => op[q] = "new"
    BY <1>4, <1>0, Zenon DEF OnCancel
  <2> QED  BY <2>1, SlotsStill, Zenon
<1>5. ASSUME NEW o \in Ops, PollPending(o) PROVE SlotInv' /\ LeasesMatchSlots'
  <2>1. slots' = slots /\ lease' = lease /\ \A q \in Ops : op'[q] = "new" => op[q] = "new"
    BY <1>5, <1>0, Zenon DEF PollPending
  <2> QED  BY <2>1, SlotsStill, Zenon
<1>6. ASSUME NEW o \in Ops, Park(o) PROVE SlotInv' /\ LeasesMatchSlots'
  <2>1. slots' = slots /\ lease' = lease /\ \A q \in Ops : op'[q] = "new" => op[q] = "new"
    BY <1>6, <1>0, Zenon DEF Park
  <2> QED  BY <2>1, SlotsStill, Zenon
<1>7. ASSUME NEW o \in Ops, Resume(o) PROVE SlotInv' /\ LeasesMatchSlots'
  <2>1. slots' = slots /\ lease' = lease /\ \A q \in Ops : op'[q] = "new" => op[q] = "new"
    BY <1>7, <1>0, Zenon DEF Resume
  <2> QED  BY <2>1, SlotsStill, Zenon
<1>8. ASSUME NEW o \in Ops, Poll(o) PROVE SlotInv' /\ LeasesMatchSlots'
  <2>1. slots' = slots /\ lease' = lease /\ \A q \in Ops : op'[q] = "new" => op[q] = "new"
    BY <1>8, <1>0, Zenon DEF Poll
  <2> QED  BY <2>1, SlotsStill, Zenon
<1>9. ASSUME NEW o \in Ops, Cancel(o) PROVE SlotInv' /\ LeasesMatchSlots'
  <2>1. slots' = slots /\ lease' = lease /\ \A q \in Ops : op'[q] = "new" => op[q] = "new"
    BY <1>9, <1>0, Zenon DEF Cancel
  <2> QED  BY <2>1, SlotsStill, Zenon
<1>10. CASE SetWakerWake
  <2>1. slots' = slots /\ lease' = lease /\ \A q \in Ops : op'[q] = "new" => op[q] = "new"
    BY <1>10, <1>0, Zenon DEF SetWakerWake
  <2> QED  BY <2>1, SlotsStill, Zenon
<1>11. CASE PollRelease
  <2> DEFINE o == call.on
  <2>1. o \in Ops /\ Release(o) /\ op' = op
    BY <1>11, Zenon DEF PollRelease, IInv, CallInv
  <2> HIDE DEF o
  <2> QED  BY <2>1, DropStep, Zenon
<1>12. CASE CancelHook
  <2>1. slots' = slots /\ lease' = lease /\ \A q \in Ops : op'[q] = "new" => op[q] = "new"
    BY <1>12, <1>0, Zenon DEF CancelHook
  <2> QED  BY <2>1, SlotsStill, Zenon
<1>13. CASE CancelRelease
  <2> DEFINE o == call.on
  <2>1. o \in Ops /\ Release(o) /\ op' = op
    BY <1>13, Zenon DEF CancelRelease, IInv, CallInv
  <2> HIDE DEF o
  <2> QED  BY <2>1, DropStep, Zenon
<1>14. ASSUME NEW p \in Producers, Complete(p) PROVE SlotInv' /\ LeasesMatchSlots'
  <2>1. slots' = slots /\ lease' = lease /\ \A q \in Ops : op'[q] = "new" => op[q] = "new"
    BY <1>14, <1>0, Zenon DEF Complete
  <2> QED  BY <2>1, SlotsStill, Zenon
<1>15. ASSUME NEW p \in Producers, CompleteWake(p) PROVE SlotInv' /\ LeasesMatchSlots'
  <2>1. slots' = slots /\ lease' = lease /\ \A q \in Ops : op'[q] = "new" => op[q] = "new"
    BY <1>15, <1>0, Zenon DEF CompleteWake
  <2> QED  BY <2>1, SlotsStill, Zenon
<1> QED
  BY <1>1, <1>2, <1>3, <1>4, <1>5, <1>6, <1>7, <1>8, <1>9, <1>10, <1>11, <1>12,
     <1>13, <1>14, <1>15, Zenon DEF Next, Owner, PollFails

\* A wake stays on its way until it arrives.
LEMMA WakeStep ==
    ASSUME IInv, Next
    PROVE  WakeInv'
<1> USE ServesAssumption, ProducersAssumption
<1>0. /\ op \in [Ops -> {"new", "running", "polled", "parked", "retired"}]
      /\ status \in [Ops -> {"Pending", "Retired"} \cup Producers]
      /\ waker \in [Ops -> BOOLEAN] /\ woken \in [Ops -> BOOLEAN]
      /\ pc \in [Producers -> {"idle", "waking", "accepted", "rejected"}]
  BY Zenon DEF IInv, TypeOK
<1>a. WakeInv /\ CallInv
  BY Zenon DEF IInv
<1>1. ASSUME NEW o \in Ops, NEW s \in SlotIds, Reserve(o, s) PROVE WakeInv'
  BY <1>1, <1>0, <1>a DEF Reserve, WakeInv, CallInv, NoCall, Ready, Running
<1>2. ASSUME NEW o \in Ops, SetWakerPanics(o) PROVE WakeInv'
  BY <1>2, <1>0, <1>a DEF SetWakerPanics, WakeInv, CallInv, NoCall, Ready, Running
<1>3. ASSUME NEW o \in Ops, SetWaker(o) PROVE WakeInv'
  BY <1>3, <1>0, <1>a DEF SetWaker, WakeInv, CallInv, NoCall, Ready, Running
<1>4. ASSUME NEW o \in Ops, OnCancel(o) PROVE WakeInv'
  BY <1>4, <1>0, <1>a DEF OnCancel, WakeInv, CallInv, NoCall, Ready, Running
<1>5. ASSUME NEW o \in Ops, PollPending(o) PROVE WakeInv'
  BY <1>5, <1>0, <1>a DEF PollPending, WakeInv, CallInv, NoCall, Ready, Running
<1>6. ASSUME NEW o \in Ops, Park(o) PROVE WakeInv'
  BY <1>6, <1>0, <1>a DEF Park, WakeInv, CallInv, NoCall, Ready, Running
<1>7. ASSUME NEW o \in Ops, Resume(o) PROVE WakeInv'
  BY <1>7, <1>0, <1>a DEF Resume, WakeInv, CallInv, NoCall, Ready, Running
<1>8. ASSUME NEW o \in Ops, Poll(o) PROVE WakeInv'
  BY <1>8, <1>0, <1>a DEF Poll, WakeInv, CallInv, NoCall, Ready, Running
<1>9. ASSUME NEW o \in Ops, Cancel(o) PROVE WakeInv'
  BY <1>9, <1>0, <1>a DEF Cancel, WakeInv, CallInv, NoCall, Ready, Running
<1>10. CASE SetWakerWake
  BY <1>10, <1>0, <1>a DEF SetWakerWake, WakeInv, CallInv, NoCall, Ready, Running
<1>11. CASE PollRelease
  BY <1>11, <1>0, <1>a DEF PollRelease, WakeInv, CallInv, NoCall, Ready, Running
<1>12. CASE CancelHook
  BY <1>12, <1>0, <1>a DEF CancelHook, WakeInv, CallInv, NoCall, Ready, Running
<1>13. CASE CancelRelease
  BY <1>13, <1>0, <1>a DEF CancelRelease, WakeInv, CallInv, NoCall, Ready, Running
<1>14. ASSUME NEW p \in Producers, Complete(p) PROVE WakeInv'
  BY <1>14, <1>0, <1>a DEF Complete, WakeInv, CallInv, NoCall, Ready, Running
<1>15. ASSUME NEW p \in Producers, CompleteWake(p) PROVE WakeInv'
  BY <1>15, <1>0, <1>a DEF CompleteWake, WakeInv, CallInv, NoCall, Ready, Running
<1> QED
  BY <1>1, <1>2, <1>3, <1>4, <1>5, <1>6, <1>7, <1>8, <1>9, <1>10, <1>11, <1>12,
     <1>13, <1>14, <1>15, Zenon DEF Next, Owner, PollFails

LEMMA StutterStep ==
    ASSUME IInv, UNCHANGED vars
    PROVE  IInv'
<1>1. TypeOK'
  BY Zenon DEF IInv, vars, TypeOK
<1>2. CallInv' /\ HookInv'
  BY Zenon DEF IInv, vars, CallInv, HookInv, Running
<1>3. ResultInv' /\ FirstResultWins'
  BY Zenon DEF IInv, vars, ResultInv, FirstResultWins, Ready, Accepted
<1>4. SlotInv' /\ LeasesMatchSlots'
  BY SlotsStill, Zenon DEF vars
<1>5. WakeInv'
  BY Zenon DEF IInv, vars, WakeInv, Ready
<1> QED  BY <1>1, <1>2, <1>3, <1>4, <1>5, Zenon DEF IInv

\* IInv is an invariant: every call of the runtime's thread and every step of a
\* producer preserves it, panics of host code included.
THEOREM InvariantHolds == Spec => []IInv
<1>1. IInv /\ [Next]_vars => IInv'
  BY TypeStep, CallStep, ResultStep, HookStep, SlotStep, WakeStep, StutterStep, Zenon DEF IInv
<1> QED  BY <1>1, InitInv, PTL DEF Spec

\* Of all that call complete() for one operation, at most one is accepted, and
\* poll() hands over no other result than that one.
THEOREM FirstWins == Spec => []FirstResultWins
<1>1. IInv => FirstResultWins
  BY Zenon DEF IInv
<1> QED  BY <1>1, InvariantHolds, PTL

\* Registry::release never refuses a reservation, and no slot is lost: leases and
\* active slots match, for any capacity and any number of reuses.
THEOREM SlotsNeverLost == Spec => []LeasesMatchSlots
<1>1. IInv => LeasesMatchSlots
  BY Zenon DEF IInv
<1> QED  BY <1>1, InvariantHolds, PTL

\* The provider of a result that poll() handed over is never told to cancel.
THEOREM ResultExcludesHook == Spec => []ResultOrHook
<1>1. IInv => ResultOrHook
  BY Zenon DEF IInv, HookInv, ResultOrHook
<1> QED  BY <1>1, InvariantHolds, PTL

\* A parked execution whose result has been stored is ready or about to be woken:
\* set_waker() and complete() cannot miss each other.
THEOREM WakeNeverLost == Spec => []NoLostWake
<1>1. IInv => NoLostWake
  BY Zenon DEF IInv, WakeInv, CallInv, Running, NoLostWake
<1> QED  BY <1>1, InvariantHolds, PTL

-----------------------------------------------------------------------------
(* The lazy statics.                                                       *)

\* A function on the first m numbers is a sequence.
LEMMA FunctionSeq ==
  ASSUME NEW T, NEW m \in Nat, NEW g \in [1..m -> T]
  PROVE  g \in Seq(T) /\ Len(g) = m
OBVIOUS

LEMMA SingletonSeq ==
  ASSUME NEW T, NEW e \in T
  PROVE  <<e>> \in Seq(T) /\ Len(<<e>>) = 1 /\ DOMAIN <<e>> = 1..1 /\ (<<e>>)[1] = e
OBVIOUS

\* What a frame pushed on the innermost session leaves alone, and adds.
LEMMA FramePushed ==
  ASSUME Statics!StaticTypes, NEW f \in Statics!Frame,
         stack' = [stack EXCEPT ![Len(stack)] = Append(@, f)]
  PROVE  /\ Len(stack) \in Nat /\ DOMAIN stack = 1..Len(stack)
         /\ stack' \in Seq(Statics!Frames) /\ Len(stack') = Len(stack) /\ DOMAIN stack' = DOMAIN stack
         /\ Len(stack) \in DOMAIN stack
         /\ \A s \in DOMAIN stack : s # Len(stack) => stack'[s] = stack[s]
         /\ LET t == Len(stack)  n == Len(stack[t]) + 1 IN
            /\ Len(stack'[t]) = n /\ DOMAIN stack'[t] = 1..n /\ DOMAIN stack[t] = 1..(n - 1)
            /\ n \in Nat \ {0}
            /\ stack'[t][n] = f
            /\ \A i \in 1..(n - 1) : stack'[t][i] = stack[t][i]
<1> DEFINE t == Len(stack)
<1>0. stack \in Seq(Statics!Frames) /\ Len(stack) > 0
  BY Zenon DEF Statics!StaticTypes, Statics!Session
<1>1. t \in DOMAIN stack /\ stack[t] \in Statics!Frames /\ DOMAIN stack = 1..Len(stack)
  BY <1>0
<1>2. /\ Append(stack[t], f) \in Statics!Frames /\ Len(stack[t]) \in Nat
      /\ Len(Append(stack[t], f)) = Len(stack[t]) + 1
      /\ DOMAIN stack[t] = 1..Len(stack[t]) /\ DOMAIN Append(stack[t], f) = 1..(Len(stack[t]) + 1)
      /\ Append(stack[t], f)[Len(stack[t]) + 1] = f
      /\ \A i \in 1..Len(stack[t]) : Append(stack[t], f)[i] = stack[t][i]
  BY <1>1 DEF Statics!Frames
<1>3. stack' = [s \in DOMAIN stack |-> IF s = t THEN Append(stack[t], f) ELSE stack[s]]
  BY <1>1, Zenon
<1>4. /\ DOMAIN stack' = DOMAIN stack /\ stack'[t] = Append(stack[t], f)
      /\ \A s \in DOMAIN stack : s # t => stack'[s] = stack[s]
  BY <1>1, <1>3, Zenon
<1>5. stack' \in Seq(Statics!Frames) /\ Len(stack') = Len(stack)
  <2>1. stack' \in [1..Len(stack) -> Statics!Frames]
    BY <1>0, <1>1, <1>2, <1>3
  <2>2. Len(stack) \in Nat
    BY <1>0
  <2>3. QED
    BY ONLY <2>1, <2>2, FunctionSeq, Zenon
<1>6. QED
  BY <1>0, <1>1, <1>2, <1>4, <1>5

\* What a frame popped from the innermost session leaves alone.
LEMMA FramePopped ==
  ASSUME Statics!StaticTypes, stack[Len(stack)] # <<>>,
         stack' = [stack EXCEPT ![Len(stack)] = Statics!Popped(@)]
  PROVE  /\ Len(stack) \in Nat /\ DOMAIN stack = 1..Len(stack)
         /\ stack' \in Seq(Statics!Frames) /\ Len(stack') = Len(stack) /\ DOMAIN stack' = DOMAIN stack
         /\ Len(stack) \in DOMAIN stack
         /\ \A s \in DOMAIN stack : s # Len(stack) => stack'[s] = stack[s]
         /\ LET t == Len(stack)  n == Len(stack[t]) IN
            /\ n \in Nat \ {0} /\ stack[t][n] \in Statics!Frame
            /\ Len(stack'[t]) = n - 1 /\ DOMAIN stack'[t] = 1..(n - 1) /\ DOMAIN stack[t] = 1..n
            /\ \A i \in 1..(n - 1) : stack'[t][i] = stack[t][i]
<1> DEFINE t == Len(stack)  n == Len(stack[t])  p == Statics!Popped(stack[t])
<1>0. stack \in Seq(Statics!Frames) /\ Len(stack) > 0
  BY Zenon DEF Statics!StaticTypes, Statics!Session
<1>1. t \in DOMAIN stack /\ stack[t] \in Statics!Frames /\ DOMAIN stack = 1..Len(stack)
  BY <1>0
<1>2. n \in Nat \ {0} /\ DOMAIN stack[t] = 1..n /\ stack[t][n] \in Statics!Frame
  BY <1>1 DEF Statics!Frames
<1>3. /\ p \in Statics!Frames /\ Len(p) = n - 1 /\ DOMAIN p = 1..(n - 1)
      /\ \A i \in 1..(n - 1) : p[i] = stack[t][i]
  BY <1>1, <1>2 DEF Statics!Popped, Statics!Frames
<1>4. stack' = [s \in DOMAIN stack |-> IF s = t THEN p ELSE stack[s]]
  BY <1>1, Zenon
<1> HIDE DEF p
<1>5. /\ DOMAIN stack' = DOMAIN stack /\ stack'[t] = p
      /\ \A s \in DOMAIN stack : s # t => stack'[s] = stack[s]
  BY <1>1, <1>4, Zenon
<1>6. stack' \in Seq(Statics!Frames) /\ Len(stack') = Len(stack)
  <2>1. stack' \in [1..Len(stack) -> Statics!Frames]
    BY <1>0, <1>1, <1>2, <1>4, <1>3
  <2>2. Len(stack) \in Nat
    BY <1>0
  <2>3. QED
    BY ONLY <2>1, <2>2, FunctionSeq, Zenon
<1>7. QED
  BY ONLY <1>0, <1>1, <1>2, <1>5, <1>6, <1>3

\* A completion that is set stays, and one that is not set fails.
SettlesTo(d, e) ==
  /\ e \in Seq({NoAttempt, "failed", "ok"}) /\ DOMAIN e = DOMAIN d /\ Len(e) = Len(d)
  /\ \A m \in DOMAIN d : e[m] = d[m] \/ (d[m] = NoAttempt /\ e[m] = "failed")

LEMMA FailSettles ==
  ASSUME Statics!StaticTypes, NEW n \in DOMAIN done
  PROVE  SettlesTo(done, Statics!Fail(done, n)) /\ Statics!Fail(done, n)[n] # NoAttempt
<1>1. done \in Seq({NoAttempt, "failed", "ok"})
  BY Zenon DEF Statics!StaticTypes
<1>2. CASE done[n] = NoAttempt
  <2>1. Statics!Fail(done, n) = [done EXCEPT ![n] = "failed"]
    BY <1>2, Zenon DEF Statics!Fail
  <2> DEFINE e == [done EXCEPT ![n] = "failed"]
  <2>2. /\ e \in Seq({NoAttempt, "failed", "ok"}) /\ Len(e) = Len(done) /\ DOMAIN e = DOMAIN done
        /\ e[n] = "failed" /\ \A m \in DOMAIN done : m # n => e[m] = done[m]
    BY <1>1
  <2>3. QED
    BY <1>2, <2>1, <2>2, AttemptsAssumption, Zenon DEF SettlesTo
<1>3. CASE done[n] # NoAttempt
  BY <1>1, <1>3, Zenon DEF Statics!Fail, SettlesTo
<1>4. QED
  BY <1>2, <1>3, Zenon

\* Unwinding settles the attempts of the frames that go.
LEMMA SettledSettles ==
  ASSUME Statics!StaticTypes, NEW gone, \A i \in DOMAIN gone : gone[i].attempt \in DOMAIN done
  PROVE  /\ SettlesTo(done, Statics!Settled(gone))
         /\ \A i \in DOMAIN gone : Statics!Settled(gone)[gone[i].attempt] # NoAttempt
<1> DEFINE e == Statics!Settled(gone)  V == {NoAttempt, "failed", "ok"}
<1>1. done \in Seq(V) /\ Len(done) \in Nat /\ DOMAIN done = 1..Len(done)
  BY DEF Statics!StaticTypes
<1>2. \A m \in DOMAIN done : /\ Statics!Fail(done, m)[m] \in V /\ Statics!Fail(done, m)[m] # NoAttempt
                             /\ \/ Statics!Fail(done, m)[m] = done[m]
                                \/ done[m] = NoAttempt /\ Statics!Fail(done, m)[m] = "failed"
  BY <1>1, FailSettles DEF SettlesTo
<1>3. e \in [1..Len(done) -> V]
  <2>1. \A m \in DOMAIN done : done[m] \in V
    BY <1>1
  <2>2. QED
    BY <1>1, <1>2, <2>1, Zenon DEF Statics!Settled
<1>4. e \in Seq(V) /\ Len(e) = Len(done)
  BY ONLY <1>1, <1>3, FunctionSeq, Zenon
<1>5. \A m \in DOMAIN done : e[m] = done[m] \/ (done[m] = NoAttempt /\ e[m] = "failed")
  BY <1>2, Zenon DEF Statics!Settled
<1>6. \A i \in DOMAIN gone : e[gone[i].attempt] # NoAttempt
  BY <1>2, Zenon DEF Statics!Settled
<1>7. DOMAIN e = DOMAIN done
  BY Zenon DEF Statics!Settled
<1>8. QED
  BY <1>4, <1>5, <1>6, <1>7, Zenon DEF SettlesTo

\* A cell that keeps its attempt keeps its claims while attempts settle, if the
\* frames that go have settled.
LEMMA CellsSettle ==
  ASSUME Statics!StaticInv, UNCHANGED cell, SettlesTo(done, done'),
         touched' \subseteq Cells,
         \A c \in touched' : c \in touched \/ (cell[c].attempt # NoAttempt /\ done'[cell[c].attempt] # NoAttempt),
         \A c \in Cells : \A s \in DOMAIN stack : \A i \in DOMAIN stack[s] :
           Statics!Initializes(s, i, c) /\ done'[cell[c].attempt] = NoAttempt =>
             s \in DOMAIN stack' /\ i \in DOMAIN stack'[s] /\ stack'[s][i] = stack[s][i]
  PROVE  Statics!CellAttempt' /\ Statics!TouchedFailed'
<1>1. Statics!CellAttempt'
  <2> SUFFICES ASSUME NEW c \in Cells
      PROVE  LET n == cell[c].attempt IN
             /\ cell[c].st = "Initializing" <=> n # NoAttempt
             /\ n # NoAttempt =>
                  /\ n \in DOMAIN done' /\ done'[n] # "ok"
                  /\ \A d \in Cells : cell[d].attempt = n => d = c
                  /\ done'[n] = NoAttempt =>
                       \E s \in DOMAIN stack' : \E i \in DOMAIN stack'[s] :
                         stack'[s][i] = [cell |-> c, attempt |-> cell[c].attempt]
    BY Zenon DEF Statics!CellAttempt, Statics!Initializes
  <2> DEFINE n == cell[c].attempt
  <2>1. /\ cell[c].st = "Initializing" <=> n # NoAttempt
        /\ n # NoAttempt =>
             /\ n \in DOMAIN done /\ done[n] # "ok"
             /\ \A d \in Cells : cell[d].attempt = n => d = c
             /\ done[n] = NoAttempt =>
                  \E s \in DOMAIN stack : \E i \in DOMAIN stack[s] : Statics!Initializes(s, i, c)
    BY Zenon DEF Statics!StaticInv, Statics!CellAttempt
  <2>2. n # NoAttempt => n \in DOMAIN done' /\ done'[n] # "ok" /\ (done'[n] = NoAttempt => done[n] = NoAttempt)
    BY <2>1, AttemptsAssumption, Zenon DEF SettlesTo
  <2>3. ASSUME n # NoAttempt, done'[n] = NoAttempt
        PROVE  \E s \in DOMAIN stack' : \E i \in DOMAIN stack'[s] :
                 stack'[s][i] = [cell |-> c, attempt |-> cell[c].attempt]
    <3>1. PICK s \in DOMAIN stack : \E i \in DOMAIN stack[s] : Statics!Initializes(s, i, c)
      BY <2>1, <2>2, <2>3, Zenon
    <3>2. PICK i \in DOMAIN stack[s] : Statics!Initializes(s, i, c)
      BY <3>1, Zenon
    <3>3. s \in DOMAIN stack' /\ i \in DOMAIN stack'[s] /\ stack'[s][i] = stack[s][i]
      BY <2>3, <3>2, Zenon
    <3>4. QED
      BY <3>2, <3>3, Zenon DEF Statics!Initializes
  <2>4. QED
    BY <2>1, <2>2, <2>3, Zenon
<1>2. Statics!TouchedFailed'
  <2> SUFFICES ASSUME NEW c \in touched'
      PROVE  cell[c].attempt # NoAttempt /\ done'[cell[c].attempt] = "failed"
    BY Zenon DEF Statics!TouchedFailed, Statics!Failed
  <2>1. c \in Cells /\ (cell[c].attempt # NoAttempt =>
                          cell[c].attempt \in DOMAIN done /\ done[cell[c].attempt] # "ok")
    BY Zenon DEF Statics!StaticInv, Statics!CellAttempt
  <2>2. cell[c].attempt # NoAttempt =>
          done[cell[c].attempt] \in {NoAttempt, "failed"}
    BY <2>1 DEF Statics!StaticInv, Statics!StaticTypes
  <2>3. CASE c \in touched
    BY <2>1, <2>2, <2>3, AttemptsAssumption, Zenon
      DEF Statics!StaticInv, Statics!TouchedFailed, Statics!Failed, SettlesTo
  <2>4. CASE c \notin touched
    BY <2>1, <2>2, <2>4, Zenon DEF SettlesTo
  <2>5. QED
    BY <2>3, <2>4, Zenon
<1>3. QED
  BY <1>1, <1>2, Zenon

\* Frames that are left had their attempts to themselves before.
LEMMA FramesGo ==
  ASSUME Statics!OwnAttempt, DOMAIN done' = DOMAIN done,
         \A s \in DOMAIN stack' : \A i \in DOMAIN stack'[s] :
           s \in DOMAIN stack /\ i \in DOMAIN stack[s] /\ stack'[s][i] = stack[s][i]
  PROVE  Statics!OwnAttempt'
BY DEF Statics!OwnAttempt

\* A nested session, and an error, disturb no static.
LEMMA NestedStep ==
  ASSUME Statics!StaticInv, Statics!EnterSession
  PROVE  Statics!StaticInv'
<1>1. /\ UNCHANGED <<cell, done, failing, touched>>
      /\ stack' = Append(stack, <<>>) /\ active' = Append(active, 0)
  BY Zenon DEF Statics!EnterSession
<1>2. /\ stack \in Seq(Statics!Frames) /\ active \in Seq(Nat) /\ Len(stack) \in Nat \ {0}
      /\ Len(active) = Len(stack) /\ DOMAIN stack = 1..Len(stack) /\ DOMAIN active = 1..Len(stack)
  BY DEF Statics!StaticInv, Statics!StaticTypes, Statics!Session
<1>3. <<>> \in Statics!Frames
  BY DEF Statics!Frames
<1>4. /\ stack' \in Seq(Statics!Frames) /\ Len(stack') = Len(stack) + 1
      /\ DOMAIN stack = 1..Len(stack) /\ DOMAIN stack' = 1..(Len(stack) + 1)
      /\ \A s \in 1..Len(stack) : stack'[s] = stack[s]
      /\ stack'[Len(stack) + 1] = <<>>
  BY <1>1, <1>2, <1>3
<1>5. Statics!StaticTypes'
  BY <1>1, <1>2, <1>4 DEF Statics!StaticInv, Statics!StaticTypes, Statics!Session
<1>6. \A s \in DOMAIN stack' : \A i \in DOMAIN stack'[s] :
        s \in DOMAIN stack /\ i \in DOMAIN stack[s] /\ stack'[s][i] = stack[s][i]
  <2>1. DOMAIN stack'[Len(stack) + 1] = {}
    BY <1>4
  <2>2. QED
    BY <1>2, <1>4, <2>1
<1>7. Statics!OwnAttempt'
  BY <1>1, <1>6, FramesGo, Zenon DEF Statics!StaticInv
<1>8. \A s \in DOMAIN stack : s \in DOMAIN stack' /\ stack'[s] = stack[s]
  BY <1>2, <1>4
<1>9. SettlesTo(done, done')
  BY <1>1, Zenon DEF SettlesTo, Statics!StaticInv, Statics!StaticTypes
<1>10. Statics!CellAttempt' /\ Statics!TouchedFailed'
  BY <1>1, <1>8, <1>9, CellsSettle, Zenon DEF Statics!StaticInv, Statics!StaticTypes
<1>11. Statics!ActiveCounts'
  BY <1>1, <1>2, <1>4 DEF Statics!StaticInv, Statics!ActiveCounts
<1>12. QED
  BY <1>5, <1>7, <1>10, <1>11, Zenon DEF Statics!StaticInv

LEMMA CycleStep ==
  ASSUME Statics!StaticInv, NEW c \in Cells, Statics!AccessCycle(c)
  PROVE  Statics!StaticInv'
<1>1. /\ UNCHANGED <<cell, stack, active>> /\ failing' = TRUE /\ touched' = touched \cup {c}
      /\ done' = Statics!Fail(done, cell[c].attempt) /\ Statics!Snapshot(c) = "Initializing"
  BY Zenon DEF Statics!AccessCycle
<1>2. cell[c].st = "Initializing"
  BY <1>1, Zenon DEF Statics!Snapshot
<1>3. cell[c].attempt # NoAttempt /\ cell[c].attempt \in DOMAIN done
  BY <1>2, Zenon DEF Statics!StaticInv, Statics!CellAttempt
<1>4. SettlesTo(done, done') /\ done'[cell[c].attempt] # NoAttempt
  BY <1>1, <1>3, FailSettles, Zenon DEF Statics!StaticInv
<1>5. Statics!StaticTypes'
  BY <1>1, <1>4, Zenon DEF SettlesTo, Statics!StaticInv, Statics!StaticTypes, Statics!Session
<1>6. Statics!OwnAttempt'
  BY <1>1, <1>4 DEF SettlesTo, Statics!StaticInv, Statics!OwnAttempt
<1>7. Statics!CellAttempt' /\ Statics!TouchedFailed'
  BY <1>1, <1>3, <1>4, <1>5, CellsSettle, Zenon DEF Statics!StaticTypes
<1>8. Statics!ActiveCounts'
  BY <1>1, Zenon DEF Statics!StaticInv, Statics!ActiveCounts
<1>9. QED
  BY <1>5, <1>6, <1>7, <1>8, Zenon DEF Statics!StaticInv

LEMMA CommitFailsStep ==
  ASSUME Statics!StaticInv, Statics!CommitFails
  PROVE  Statics!StaticInv'
<1> DEFINE t == Len(stack)  n == Len(stack[t])
<1>1. /\ UNCHANGED <<cell, touched>> /\ failing' = TRUE /\ stack[t] # <<>>
      /\ done' = Statics!Fail(done, stack[t][n].attempt)
      /\ stack' = [stack EXCEPT ![t] = Statics!Popped(@)]
      /\ active' = [active EXCEPT ![t] = @ - 1]
  BY Zenon DEF Statics!CommitFails, Statics!TopReturns, Statics!Session, Statics!Top
<1>2. /\ stack \in Seq(Statics!Frames) /\ active \in Seq(Nat) /\ Len(stack) \in Nat \ {0}
      /\ Len(active) = Len(stack) /\ DOMAIN stack = 1..Len(stack) /\ DOMAIN active = 1..Len(stack)
  BY DEF Statics!StaticInv, Statics!StaticTypes, Statics!Session
<1>3. /\ stack' \in Seq(Statics!Frames) /\ Len(stack') = Len(stack) /\ DOMAIN stack' = DOMAIN stack
      /\ t \in DOMAIN stack
      /\ \A s \in DOMAIN stack : s # t => stack'[s] = stack[s]
      /\ n \in Nat \ {0} /\ stack[t][n] \in Statics!Frame
      /\ Len(stack'[t]) = n - 1 /\ DOMAIN stack'[t] = 1..(n - 1) /\ DOMAIN stack[t] = 1..n
      /\ \A i \in 1..(n - 1) : stack'[t][i] = stack[t][i]
  BY <1>1, FramePopped, Zenon DEF Statics!StaticInv
<1> HIDE DEF t, n
<1>4. n \in DOMAIN stack[t] /\ stack[t][n].attempt \in DOMAIN done
  BY <1>3 DEF Statics!StaticInv, Statics!OwnAttempt
<1>5. SettlesTo(done, done') /\ done'[stack[t][n].attempt] # NoAttempt
  BY <1>1, <1>4, FailSettles, Zenon DEF Statics!StaticInv
<1>6. active[t] = n /\ t \in DOMAIN active
  BY <1>2, <1>3 DEF Statics!StaticInv, Statics!ActiveCounts
<1>7. /\ active' \in Seq(Nat) /\ Len(active') = Len(active) /\ DOMAIN active' = DOMAIN active
      /\ active'[t] = n - 1 /\ \A s \in DOMAIN active : s # t => active'[s] = active[s]
  <2>1. active[t] - 1 \in Nat
    BY <1>3, <1>6
  <2>2. QED
    BY <1>1, <1>2, <1>6, <2>1
<1>8. Statics!StaticTypes'
  BY <1>1, <1>2, <1>3, <1>5, <1>7, Zenon
    DEF SettlesTo, Statics!StaticInv, Statics!StaticTypes, Statics!Session
<1>9. \A s \in DOMAIN stack' : \A i \in DOMAIN stack'[s] :
        s \in DOMAIN stack /\ i \in DOMAIN stack[s] /\ stack'[s][i] = stack[s][i]
  BY <1>3
<1>10. Statics!OwnAttempt'
  BY <1>5, <1>9, FramesGo, Zenon DEF SettlesTo, Statics!StaticInv
<1>11. \A s \in DOMAIN stack : \A i \in DOMAIN stack[s] :
         \/ s \in DOMAIN stack' /\ i \in DOMAIN stack'[s] /\ stack'[s][i] = stack[s][i]
         \/ s = t /\ i = n
  BY <1>3
<1>12. Statics!CellAttempt' /\ Statics!TouchedFailed'
  <2>1. \A d \in Cells : \A s \in DOMAIN stack : \A i \in DOMAIN stack[s] :
          Statics!Initializes(s, i, d) /\ done'[cell[d].attempt] = NoAttempt =>
            s \in DOMAIN stack' /\ i \in DOMAIN stack'[s] /\ stack'[s][i] = stack[s][i]
    BY <1>5, <1>11 DEF Statics!Initializes
  <2>2. QED
    BY <1>1, <1>5, <2>1, CellsSettle, Zenon DEF Statics!StaticInv, Statics!StaticTypes
<1>13. Statics!ActiveCounts'
  BY <1>2, <1>3, <1>7, Zenon DEF Statics!StaticInv, Statics!ActiveCounts
<1>14. QED
  BY <1>8, <1>10, <1>12, <1>13, Zenon DEF Statics!StaticInv

LEMMA CommitStep ==
  ASSUME Statics!StaticInv, Statics!Commit
  PROVE  Statics!StaticInv'
<1> DEFINE t == Len(stack)  n == Len(stack[t])  c == stack[t][n].cell  m == stack[t][n].attempt
<1>1. /\ UNCHANGED <<failing, touched>> /\ stack[t] # <<>>
      /\ ~Statics!Failed(m) /\ cell[c] = [st |-> "Initializing", attempt |-> m]
      /\ done' = [done EXCEPT ![m] = "ok"]
      /\ cell' = [cell EXCEPT ![c] = [st |-> "Ready", attempt |-> NoAttempt]]
      /\ stack' = [stack EXCEPT ![t] = Statics!Popped(@)]
      /\ active' = [active EXCEPT ![t] = @ - 1]
  BY Zenon DEF Statics!Commit, Statics!TopReturns, Statics!Session, Statics!Top
<1>2. /\ stack \in Seq(Statics!Frames) /\ active \in Seq(Nat) /\ Len(stack) \in Nat \ {0}
      /\ Len(active) = Len(stack) /\ DOMAIN stack = 1..Len(stack) /\ DOMAIN active = 1..Len(stack)
  BY DEF Statics!StaticInv, Statics!StaticTypes, Statics!Session
<1>3. /\ stack' \in Seq(Statics!Frames) /\ Len(stack') = Len(stack) /\ DOMAIN stack' = DOMAIN stack
      /\ t \in DOMAIN stack
      /\ \A s \in DOMAIN stack : s # t => stack'[s] = stack[s]
      /\ n \in Nat \ {0} /\ stack[t][n] \in Statics!Frame
      /\ Len(stack'[t]) = n - 1 /\ DOMAIN stack'[t] = 1..(n - 1) /\ DOMAIN stack[t] = 1..n
      /\ \A i \in 1..(n - 1) : stack'[t][i] = stack[t][i]
  BY <1>1, FramePopped, Zenon DEF Statics!StaticInv
<1>4. c \in Cells /\ m \in Nat
  BY <1>3, Zenon DEF Statics!Frame
<1> HIDE DEF t, n
<1>5. n \in DOMAIN stack[t] /\ m \in DOMAIN done
  BY <1>3 DEF Statics!StaticInv, Statics!OwnAttempt
<1>6. active[t] = n /\ t \in DOMAIN active
  BY <1>2, <1>3, Zenon DEF Statics!StaticInv, Statics!ActiveCounts, t, n
<1> HIDE DEF c, m
<1>7. /\ active' \in Seq(Nat) /\ Len(active') = Len(active) /\ DOMAIN active' = DOMAIN active
      /\ active'[t] = n - 1 /\ \A s \in DOMAIN active : s # t => active'[s] = active[s]
  <2>1. active[t] - 1 \in Nat
    BY <1>3, <1>6
  <2>2. QED
    BY <1>1, <1>2, <1>6, <2>1
<1>8. /\ done' \in Seq({NoAttempt, "failed", "ok"}) /\ Len(done') = Len(done)
      /\ DOMAIN done' = DOMAIN done
      /\ \A k \in DOMAIN done : k # m => done'[k] = done[k]
  BY <1>1, <1>5 DEF Statics!StaticInv, Statics!StaticTypes
<1>9. /\ cell' \in [Cells -> [st : {"Uninitialized", "Initializing", "Ready"}, attempt : Nat \cup {NoAttempt}]]
      /\ cell'[c].st = "Ready" /\ cell'[c].attempt = NoAttempt
      /\ \A d \in Cells : d # c => cell'[d] = cell[d]
  BY <1>1, <1>4, Zenon DEF Statics!StaticInv, Statics!StaticTypes
<1>10. Statics!StaticTypes'
  BY <1>1, <1>2, <1>3, <1>7, <1>8, <1>9, Zenon DEF Statics!StaticInv, Statics!StaticTypes, Statics!Session
<1>11. \A s \in DOMAIN stack' : \A i \in DOMAIN stack'[s] :
         s \in DOMAIN stack /\ i \in DOMAIN stack[s] /\ stack'[s][i] = stack[s][i]
  BY <1>3
<1>12. Statics!OwnAttempt'
  BY <1>8, <1>11, FramesGo, Zenon DEF Statics!StaticInv
<1>13. \A s \in DOMAIN stack : \A i \in DOMAIN stack[s] :
         \/ s \in DOMAIN stack' /\ i \in DOMAIN stack'[s] /\ stack'[s][i] = stack[s][i]
         \/ stack[s][i].attempt = m
  BY <1>3 DEF m
<1>14. m # NoAttempt /\ cell[c].attempt = m
  BY <1>1, <1>4, AttemptsAssumption
<1>15. \A d \in Cells : d # c => cell[d].attempt # m
  BY <1>4, <1>14, Zenon DEF Statics!StaticInv, Statics!CellAttempt
<1>16. Statics!CellAttempt'
  <2> SUFFICES ASSUME NEW d \in Cells
      PROVE  LET k == cell'[d].attempt IN
             /\ cell'[d].st = "Initializing" <=> k # NoAttempt
             /\ k # NoAttempt =>
                  /\ k \in DOMAIN done' /\ done'[k] # "ok"
                  /\ \A e \in Cells : cell'[e].attempt = k => e = d
                  /\ done'[k] = NoAttempt =>
                       \E s \in DOMAIN stack' : \E i \in DOMAIN stack'[s] :
                         stack'[s][i] = [cell |-> d, attempt |-> k]
    BY Zenon DEF Statics!CellAttempt, Statics!Initializes
  <2>1. CASE d = c
    BY <1>9, <2>1, Zenon
  <2>2. CASE d # c
    <3> DEFINE k == cell[d].attempt
    <3>1. /\ cell'[d] = cell[d] /\ k # m
          /\ cell[d].st = "Initializing" <=> k # NoAttempt
          /\ k # NoAttempt =>
               /\ k \in DOMAIN done /\ done[k] # "ok"
               /\ \A e \in Cells : cell[e].attempt = k => e = d
               /\ done[k] = NoAttempt =>
                    \E s \in DOMAIN stack : \E i \in DOMAIN stack[s] :
                      stack[s][i] = [cell |-> d, attempt |-> k]
      BY <1>9, <1>15, <2>2, Zenon DEF Statics!StaticInv, Statics!CellAttempt, Statics!Initializes
    <3>2. k # NoAttempt => k \in DOMAIN done' /\ done'[k] = done[k]
      BY <1>8, <3>1, Zenon
    <3>3. ASSUME k # NoAttempt, done[k] = NoAttempt
          PROVE  \E s \in DOMAIN stack' : \E i \in DOMAIN stack'[s] :
                   stack'[s][i] = [cell |-> d, attempt |-> k]
      BY <1>13, <3>1, <3>3
    <3>4. \A e \in Cells : k # NoAttempt /\ cell'[e].attempt = k => e = d
      BY <1>9, <3>1, Zenon
    <3>5. QED
      BY <3>1, <3>2, <3>3, <3>4, Zenon
  <2>3. QED
    BY <2>1, <2>2, Zenon
<1>17. Statics!TouchedFailed'
  <2> SUFFICES ASSUME NEW d \in touched
      PROVE  cell'[d].attempt # NoAttempt /\ done'[cell'[d].attempt] = "failed"
    BY <1>1, Zenon DEF Statics!TouchedFailed, Statics!Failed
  <2>1. d \in Cells /\ cell[d].attempt # NoAttempt /\ done[cell[d].attempt] = "failed"
    BY Zenon DEF Statics!StaticInv, Statics!StaticTypes, Statics!TouchedFailed, Statics!Failed
  <2>2. d # c
    BY <1>1, <1>14, <2>1, Zenon DEF Statics!Failed
  <2>3. cell[d].attempt \in DOMAIN done /\ cell[d].attempt # m
    BY <1>15, <2>1, <2>2, Zenon DEF Statics!StaticInv, Statics!CellAttempt
  <2>4. QED
    BY <1>8, <1>9, <2>1, <2>2, <2>3, Zenon
<1>18. Statics!ActiveCounts'
  BY <1>2, <1>3, <1>7, Zenon DEF Statics!StaticInv, Statics!ActiveCounts
<1>19. QED
  BY <1>10, <1>12, <1>16, <1>17, <1>18, Zenon DEF Statics!StaticInv

LEMMA BeginStep ==
  ASSUME Statics!StaticInv, NEW c \in Cells, Statics!Begin(c)
  PROVE  Statics!StaticInv'
<1> DEFINE t == Len(stack)  n == Len(stack[t]) + 1  m == Len(done) + 1
           f == [cell |-> c, attempt |-> m]
<1>1. /\ UNCHANGED <<failing, touched>> /\ Statics!Snapshot(c) = "Uninitialized"
      /\ done' = Append(done, NoAttempt)
      /\ cell' = [cell EXCEPT ![c] = [st |-> "Initializing", attempt |-> m]]
      /\ stack' = [stack EXCEPT ![t] = Append(@, f)]
      /\ active' = [active EXCEPT ![t] = @ + 1]
  BY Zenon DEF Statics!Begin, Statics!Session
<1>2. /\ stack \in Seq(Statics!Frames) /\ active \in Seq(Nat) /\ Len(stack) \in Nat \ {0}
      /\ Len(active) = Len(stack) /\ DOMAIN stack = 1..Len(stack) /\ DOMAIN active = 1..Len(stack)
  BY DEF Statics!StaticInv, Statics!StaticTypes, Statics!Session
<1>3. /\ done' \in Seq({NoAttempt, "failed", "ok"}) /\ m \in Nat \ {0}
      /\ DOMAIN done = 1..(m - 1) /\ DOMAIN done' = 1..m /\ done'[m] = NoAttempt
      /\ \A k \in DOMAIN done : done'[k] = done[k]
  BY <1>1 DEF Statics!StaticInv, Statics!StaticTypes
<1>4. f \in Statics!Frame
  BY <1>3, Zenon DEF Statics!Frame
<1>5. /\ stack' \in Seq(Statics!Frames) /\ Len(stack') = Len(stack) /\ DOMAIN stack' = DOMAIN stack
      /\ t \in DOMAIN stack
      /\ \A s \in DOMAIN stack : s # t => stack'[s] = stack[s]
      /\ n \in Nat \ {0}
      /\ Len(stack'[t]) = n /\ DOMAIN stack'[t] = 1..n /\ DOMAIN stack[t] = 1..(n - 1)
      /\ stack'[t][n] = f
      /\ \A i \in 1..(n - 1) : stack'[t][i] = stack[t][i]
  <2> HIDE DEF f
  <2>1. QED
    BY <1>1, <1>4, FramePushed, Zenon DEF Statics!StaticInv
<1>6. active[t] = n - 1 /\ t \in DOMAIN active
  BY <1>2, <1>5 DEF Statics!StaticInv, Statics!ActiveCounts
<1> HIDE DEF t, n, m
<1>7. /\ active' \in Seq(Nat) /\ Len(active') = Len(active) /\ DOMAIN active' = DOMAIN active
      /\ active'[t] = n /\ \A s \in DOMAIN active : s # t => active'[s] = active[s]
  BY <1>1, <1>2, <1>5, <1>6
<1>8. /\ cell' \in [Cells -> [st : {"Uninitialized", "Initializing", "Ready"}, attempt : Nat \cup {NoAttempt}]]
      /\ cell'[c].st = "Initializing" /\ cell'[c].attempt = m
      /\ \A d \in Cells : d # c => cell'[d] = cell[d]
  BY <1>1, <1>3, Zenon DEF Statics!StaticInv, Statics!StaticTypes
<1>9. Statics!StaticTypes'
  BY <1>1, <1>2, <1>3, <1>5, <1>7, <1>8, Zenon DEF Statics!StaticInv, Statics!StaticTypes, Statics!Session
<1>10. \A s \in DOMAIN stack' : \A i \in DOMAIN stack'[s] :
         \/ s = t /\ i = n /\ stack'[s][i] = f
         \/ s \in DOMAIN stack /\ i \in DOMAIN stack[s] /\ stack'[s][i] = stack[s][i]
  BY <1>5
<1>11. \A s \in DOMAIN stack : \A i \in DOMAIN stack[s] :
         s \in DOMAIN stack' /\ i \in DOMAIN stack'[s] /\ stack'[s][i] = stack[s][i]
  BY <1>5
<1>12. Statics!OwnAttempt'
  <2>1. \A s \in DOMAIN stack : \A i \in DOMAIN stack[s] :
          /\ stack[s][i].attempt \in DOMAIN done /\ stack[s][i].attempt # m
          /\ \A u \in DOMAIN stack : \A j \in DOMAIN stack[u] :
               stack[u][j].attempt = stack[s][i].attempt => u = s /\ j = i
    BY <1>3 DEF Statics!StaticInv, Statics!OwnAttempt
  <2>2. f.attempt = m /\ m \in DOMAIN done' /\ \A k \in DOMAIN done : k \in DOMAIN done'
    BY <1>3
  <2> HIDE DEF f
  <2>3. QED
    BY <1>10, <2>1, <2>2 DEF Statics!OwnAttempt
<1>13. \A d \in Cells : cell[d].attempt # m
  BY <1>3, AttemptsAssumption DEF Statics!StaticInv, Statics!CellAttempt
<1>14. Statics!CellAttempt'
  <2> SUFFICES ASSUME NEW d \in Cells
      PROVE  LET k == cell'[d].attempt IN
             /\ cell'[d].st = "Initializing" <=> k # NoAttempt
             /\ k # NoAttempt =>
                  /\ k \in DOMAIN done' /\ done'[k] # "ok"
                  /\ \A e \in Cells : cell'[e].attempt = k => e = d
                  /\ done'[k] = NoAttempt =>
                       \E s \in DOMAIN stack' : \E i \in DOMAIN stack'[s] :
                         stack'[s][i] = [cell |-> d, attempt |-> k]
    BY Zenon DEF Statics!CellAttempt, Statics!Initializes
  <2>1. CASE d = c
    <3>1. m # NoAttempt /\ m \in DOMAIN done' /\ done'[m] # "ok"
      BY <1>3, AttemptsAssumption
    <3>2. \A e \in Cells : cell'[e].attempt = m => e = c
      BY <1>8, <1>13, Zenon
    <3>3. t \in DOMAIN stack' /\ n \in DOMAIN stack'[t] /\ stack'[t][n] = [cell |-> c, attempt |-> m]
      BY <1>5
    <3>4. QED
      BY <1>8, <2>1, <3>1, <3>2, <3>3, Zenon
  <2>2. CASE d # c
    <3> DEFINE k == cell[d].attempt
    <3>1. /\ cell'[d] = cell[d] /\ k # m
          /\ cell[d].st = "Initializing" <=> k # NoAttempt
          /\ k # NoAttempt =>
               /\ k \in DOMAIN done /\ done[k] # "ok"
               /\ \A e \in Cells : cell[e].attempt = k => e = d
               /\ done[k] = NoAttempt =>
                    \E s \in DOMAIN stack : \E i \in DOMAIN stack[s] :
                      stack[s][i] = [cell |-> d, attempt |-> k]
      BY <1>8, <1>13, <2>2, Zenon DEF Statics!StaticInv, Statics!CellAttempt, Statics!Initializes
    <3>2. k # NoAttempt => k \in DOMAIN done' /\ done'[k] = done[k]
      BY <1>3, <3>1
    <3>3. ASSUME k # NoAttempt, done[k] = NoAttempt
          PROVE  \E s \in DOMAIN stack' : \E i \in DOMAIN stack'[s] :
                   stack'[s][i] = [cell |-> d, attempt |-> k]
      BY <1>11, <3>1, <3>3, Zenon
    <3>4. \A e \in Cells : k # NoAttempt /\ cell'[e].attempt = k => e = d
      BY <1>8, <3>1, Zenon
    <3>5. QED
      BY <3>1, <3>2, <3>3, <3>4, Zenon
  <2>3. QED
    BY <2>1, <2>2, Zenon
<1>15. Statics!TouchedFailed'
  <2> SUFFICES ASSUME NEW d \in touched
      PROVE  cell'[d].attempt # NoAttempt /\ done'[cell'[d].attempt] = "failed"
    BY <1>1, Zenon DEF Statics!TouchedFailed, Statics!Failed
  <2>1. d \in Cells /\ cell[d].attempt # NoAttempt /\ done[cell[d].attempt] = "failed"
    BY Zenon DEF Statics!StaticInv, Statics!StaticTypes, Statics!TouchedFailed, Statics!Failed
  <2>2. d # c
    BY <1>1, <2>1, Zenon DEF Statics!Failed, Statics!Snapshot
  <2>3. cell[d].attempt \in DOMAIN done
    BY <2>1, Zenon DEF Statics!StaticInv, Statics!CellAttempt
  <2>4. QED
    BY <1>3, <1>8, <2>1, <2>2, <2>3, Zenon
<1>16. Statics!ActiveCounts'
  BY <1>2, <1>5, <1>7, Zenon DEF Statics!StaticInv, Statics!ActiveCounts
<1>17. QED
  BY <1>9, <1>12, <1>14, <1>15, <1>16, Zenon DEF Statics!StaticInv

\* A sequence without its last element.
LEMMA FrontSeq ==
  ASSUME NEW S, NEW q \in Seq(S), Len(q) > 1
  PROVE  /\ SubSeq(q, 1, Len(q) - 1) \in Seq(S)
         /\ Len(SubSeq(q, 1, Len(q) - 1)) = Len(q) - 1
         /\ \A i \in 1..(Len(q) - 1) : SubSeq(q, 1, Len(q) - 1)[i] = q[i]
<1>1. SubSeq(q, 1, Len(q) - 1) \in Seq(S)
  OBVIOUS
<1>2. Len(SubSeq(q, 1, Len(q) - 1)) = Len(q) - 1
  OBVIOUS
<1>3. \A i \in 1..(Len(q) - 1) : SubSeq(q, 1, Len(q) - 1)[i] = q[i]
  OBVIOUS
<1>4. QED
  BY <1>1, <1>2, <1>3, Zenon

\* A session takes its frames with it.
LEMMA UnwindStep ==
  ASSUME Statics!StaticInv, Statics!Unwind
  PROVE  Statics!StaticInv'
<1> DEFINE t == Len(stack)
<1>1. /\ UNCHANGED <<cell, touched>> /\ done' = Statics!Settled(stack[t])
      /\ \/ /\ t > 1 /\ stack' = Statics!Popped(stack) /\ active' = Statics!Popped(active)
            /\ failing' \in {FALSE, failing}
         \/ /\ ~(t > 1) /\ stack' = << <<>> >> /\ active' = <<0>> /\ failing' = FALSE
  BY Zenon DEF Statics!Unwind, Statics!Session, Statics!StaticInv, Statics!StaticTypes
<1>2. /\ stack \in Seq(Statics!Frames) /\ active \in Seq(Nat) /\ t \in Nat \ {0}
      /\ Len(active) = t /\ DOMAIN stack = 1..t /\ DOMAIN active = 1..t
  BY DEF Statics!StaticInv, Statics!StaticTypes, Statics!Session
<1>3. \A i \in DOMAIN stack[t] : stack[t][i].attempt \in DOMAIN done
  BY <1>2 DEF Statics!StaticInv, Statics!OwnAttempt
<1>4. SettlesTo(done, done') /\ \A i \in DOMAIN stack[t] : done'[stack[t][i].attempt] # NoAttempt
  BY <1>1, <1>3, SettledSettles, Zenon DEF Statics!StaticInv
<1>5. /\ stack' \in Seq(Statics!Frames) /\ active' \in Seq(Nat) /\ Len(stack') > 0
      /\ Len(active') = Len(stack') /\ DOMAIN stack' = 1..Len(stack')
      /\ \A s \in DOMAIN stack' : \/ s \in 1..(t - 1) /\ stack'[s] = stack[s] /\ active'[s] = active[s]
                                  \/ stack'[s] = <<>> /\ active'[s] = 0
      /\ \A s \in 1..(t - 1) : s \in DOMAIN stack' /\ stack'[s] = stack[s]
  <2>1. CASE t > 1
    <3>1. stack' = SubSeq(stack, 1, t - 1) /\ active' = SubSeq(active, 1, t - 1)
      BY <1>1, <1>2, <2>1, Zenon DEF Statics!Popped
    <3>2. t - 1 \in Nat \ {0}
      BY <1>2, <2>1
    <3>3. /\ stack' \in Seq(Statics!Frames) /\ Len(stack') = t - 1
          /\ \A s \in 1..(t - 1) : stack'[s] = stack[s]
      BY <1>2, <2>1, <3>1, FrontSeq
    <3>4. /\ active' \in Seq(Nat) /\ Len(active') = t - 1
          /\ \A s \in 1..(t - 1) : active'[s] = active[s]
      BY <1>2, <2>1, <3>1, FrontSeq
    <3>5. DOMAIN stack' = 1..(t - 1)
      BY <3>3
    <3>6. Len(stack') > 0
      BY <3>2, <3>3
    <3>7. QED
      BY <3>3, <3>4, <3>5, <3>6, Zenon
  <2>2. CASE ~(t > 1)
    <3>1. <<>> \in Statics!Frames
      BY DEF Statics!Frames
    <3>2. stack' = << <<>> >> /\ active' = <<0>> /\ t = 1
      <4>1. stack' = << <<>> >> /\ active' = <<0>>
        BY <1>1, <2>2, Zenon
      <4>2. t = 1
        BY <1>2, <2>2
      <4>3. QED
        BY <4>1, <4>2, Zenon
    <3>3. /\ << <<>> >> \in Seq(Statics!Frames) /\ Len(<< <<>> >>) = 1
          /\ DOMAIN << <<>> >> = 1..1 /\ (<< <<>> >>)[1] = <<>>
      BY ONLY <3>1, SingletonSeq, Zenon
    <3>4. <<0>> \in Seq(Nat) /\ Len(<<0>>) = 1 /\ (<<0>>)[1] = 0
      OBVIOUS
    <3>5. QED
      BY ONLY <3>2, <3>3, <3>4
  <2>3. QED
    BY <1>2, <2>1, <2>2, Zenon
<1> HIDE DEF t
<1>6. Statics!StaticTypes'
  BY <1>1, <1>4, <1>5, Zenon DEF SettlesTo, Statics!StaticInv, Statics!StaticTypes, Statics!Session
<1>7. \A s \in DOMAIN stack' : \A i \in DOMAIN stack'[s] :
        s \in DOMAIN stack /\ i \in DOMAIN stack[s] /\ stack'[s][i] = stack[s][i]
  <2>1. \A s \in DOMAIN stack' : stack'[s] = <<>> => DOMAIN stack'[s] = {}
    OBVIOUS
  <2>2. \A s \in 1..(t - 1) : s \in DOMAIN stack
    BY <1>2
  <2>3. QED
    BY <1>5, <2>1, <2>2, Zenon
<1>8. Statics!OwnAttempt'
  BY <1>4, <1>7, FramesGo, Zenon DEF SettlesTo, Statics!StaticInv
<1>9. \A s \in DOMAIN stack : s = t \/ s \in 1..(t - 1)
  BY <1>2
<1>10. Statics!CellAttempt' /\ Statics!TouchedFailed'
  <2>1. \A d \in Cells : \A s \in DOMAIN stack : \A i \in DOMAIN stack[s] :
          Statics!Initializes(s, i, d) /\ done'[cell[d].attempt] = NoAttempt =>
            s \in DOMAIN stack' /\ i \in DOMAIN stack'[s] /\ stack'[s][i] = stack[s][i]
    BY <1>4, <1>5, <1>9 DEF Statics!Initializes
  <2>2. QED
    BY <1>1, <1>4, <2>1, CellsSettle, Zenon DEF Statics!StaticInv, Statics!StaticTypes
<1>11. Statics!ActiveCounts'
  <2>1. \A s \in DOMAIN stack' : active'[s] = Len(stack'[s])
    <3>1. \A s \in 1..(t - 1) : active[s] = Len(stack[s])
      BY <1>2 DEF Statics!StaticInv, Statics!ActiveCounts
    <3>2. Len(<<>>) = 0
      BY Zenon
    <3>3. QED
      BY <1>5, <3>1, <3>2, Zenon
  <2>2. QED
    BY <2>1, Zenon DEF Statics!ActiveCounts
<1>12. QED
  BY <1>6, <1>8, <1>10, <1>11, Zenon DEF Statics!StaticInv

\* The inductive invariant of the statics: every open attempt has one frame, and
\* what a cycle met has failed for good.
THEOREM StaticInvariant == Statics!Spec => []Statics!StaticInv
<1>1. Statics!Init => Statics!StaticInv
  <2> SUFFICES ASSUME Statics!Init PROVE Statics!StaticInv
    BY Zenon
  <2>1. /\ cell = [c \in Cells |-> [st |-> "Uninitialized", attempt |-> NoAttempt]]
        /\ done = <<>> /\ active = <<0>> /\ failing = FALSE /\ touched = {}
    BY Zenon DEF Statics!Init
  <2>2. stack = << <<>> >>
    BY Zenon DEF Statics!Init
  <2>3. <<>> \in Statics!Frames
    BY DEF Statics!Frames
  <2>4. Statics!StaticTypes
    <3>1. << <<>> >> \in Seq(Statics!Frames) /\ Len(<< <<>> >>) = 1
      BY ONLY <2>3, SingletonSeq, Zenon
    <3>2. <<0>> \in Seq(Nat) /\ Len(<<0>>) = 1
      OBVIOUS
    <3>3. stack \in Seq(Statics!Frames) /\ Len(stack) = 1 /\ active \in Seq(Nat) /\ Len(active) = 1
      BY <2>1, <2>2, <3>1, <3>2, Zenon
    <3>4. done \in Seq({NoAttempt, "failed", "ok"})
      BY <2>1
    <3>5. cell \in [Cells -> [st : {"Uninitialized", "Initializing", "Ready"},
                             attempt : Nat \cup {NoAttempt}]]
      BY <2>1, Zenon
    <3>6. failing \in BOOLEAN /\ touched \subseteq Cells
      BY <2>1, Zenon
    <3>7. QED
      BY ONLY <3>3, <3>4, <3>5, <3>6 DEF Statics!StaticTypes, Statics!Session
  <2>5. DOMAIN stack = {1} /\ stack[1] = <<>> /\ DOMAIN stack[1] = {}
    BY <2>2
  <2>6. Statics!OwnAttempt
    BY <2>5, Zenon DEF Statics!OwnAttempt
  <2>7. Statics!CellAttempt /\ Statics!TouchedFailed
    BY <2>1, Zenon DEF Statics!CellAttempt, Statics!TouchedFailed
  <2>8. Statics!ActiveCounts
    BY <2>1, <2>5 DEF Statics!ActiveCounts
  <2>9. QED
    BY <2>4, <2>6, <2>7, <2>8, Zenon DEF Statics!StaticInv
<1>2. Statics!StaticInv /\ [Statics!Next]_(Statics!vars) => Statics!StaticInv'
  <2> SUFFICES ASSUME Statics!StaticInv, [Statics!Next]_(Statics!vars) PROVE Statics!StaticInv'
    BY Zenon
  <2>1. ASSUME UNCHANGED <<cell, done, stack, active, touched>>, failing' \in BOOLEAN
        PROVE  Statics!StaticInv'
    BY <2>1 DEF Statics!StaticInv, Statics!StaticTypes, Statics!Session, Statics!OwnAttempt,
                Statics!CellAttempt, Statics!Initializes, Statics!TouchedFailed, Statics!Failed,
                Statics!ActiveCounts
  <2>2. CASE Statics!EnterSession
    BY <2>2, NestedStep, Zenon
  <2>3. CASE Statics!Commit
    BY <2>3, CommitStep, Zenon
  <2>4. CASE Statics!CommitFails
    BY <2>4, CommitFailsStep, Zenon
  <2>5. CASE Statics!Trap
    BY <2>1, <2>5, Zenon DEF Statics!Trap
  <2>6. CASE Statics!Unwind
    BY <2>6, UnwindStep, Zenon
  <2>7. ASSUME NEW c \in Cells, Statics!AccessFails(c)
        PROVE  Statics!StaticInv'
    BY <2>1, <2>7, Zenon DEF Statics!AccessFails
  <2>8. ASSUME NEW c \in Cells, Statics!AccessCycle(c)
        PROVE  Statics!StaticInv'
    BY <2>8, CycleStep, Zenon
  <2>9. ASSUME NEW c \in Cells, Statics!Begin(c)
        PROVE  Statics!StaticInv'
    BY <2>9, BeginStep, Zenon
  <2>10. CASE UNCHANGED Statics!vars
    BY <2>1, <2>10, Zenon DEF Statics!vars, Statics!StaticInv, Statics!StaticTypes
  <2>11. QED
    BY <2>2, <2>3, <2>4, <2>5, <2>6, <2>7, <2>8, <2>9, <2>10, Zenon DEF Statics!Next
<1>3. QED
  BY <1>1, <1>2, PTL DEF Statics!Spec

\* No static is left half initialized, for any number of statics, attempts and
\* nested sessions: what looks as if it were being initialized has exactly one
\* frame at it (module/state/initialization.rs).
THEOREM NeverHalfInitialized == Statics!Spec => []InitializingHasFrame
<1>1. Statics!StaticInv => InitializingHasFrame
  <2> SUFFICES ASSUME Statics!StaticInv, NEW c \in Cells, Statics!Snapshot(c) = "Initializing"
      PROVE  \E s \in DOMAIN stack : \E i \in DOMAIN stack[s] :
               /\ Statics!Initializes(s, i, c)
               /\ \A t \in DOMAIN stack : \A j \in DOMAIN stack[t] :
                    Statics!Initializes(t, j, c) => t = s /\ j = i
    BY Zenon DEF InitializingHasFrame, Statics!InitializingHasFrame
  <2> DEFINE n == cell[c].attempt
  <2>1. cell[c].st = "Initializing" /\ ~Statics!Failed(n)
    BY Zenon DEF Statics!Snapshot
  <2>2. n # NoAttempt /\ n \in DOMAIN done /\ done[n] # "ok" /\ done[n] # "failed"
    BY <2>1, Zenon DEF Statics!StaticInv, Statics!CellAttempt, Statics!Failed
  <2>3. done[n] = NoAttempt
    BY <2>2 DEF Statics!StaticInv, Statics!StaticTypes
  <2>4. PICK s \in DOMAIN stack : \E i \in DOMAIN stack[s] : Statics!Initializes(s, i, c)
    BY <2>2, <2>3, Zenon DEF Statics!StaticInv, Statics!CellAttempt
  <2>5. PICK i \in DOMAIN stack[s] : Statics!Initializes(s, i, c)
    BY <2>4, Zenon
  <2>6. \A t \in DOMAIN stack : \A j \in DOMAIN stack[t] : Statics!Initializes(t, j, c) => t = s /\ j = i
    <3>1. stack[s][i].attempt = n
      BY <2>5 DEF Statics!Initializes
    <3>2. \A t \in DOMAIN stack : \A j \in DOMAIN stack[t] :
            Statics!Initializes(t, j, c) => stack[t][j].attempt = n
      BY DEF Statics!Initializes
    <3>3. QED
      BY <3>1, <3>2 DEF Statics!StaticInv, Statics!OwnAttempt
  <2>7. QED
    BY <2>5, <2>6, Zenon
<1>2. QED
  BY <1>1, StaticInvariant, PTL

\* A static that its own recipe came back to is never published, whatever the
\* host does with the error (poison_static_cycle).
THEOREM CyclesNeverReady == Statics!Spec => []CycleNeverReady
<1>1. Statics!StaticInv => CycleNeverReady
  BY Zenon DEF Statics!StaticInv, Statics!TouchedFailed, CycleNeverReady, Statics!CycleNeverReady,
         Statics!Snapshot
<1>2. QED
  BY <1>1, StaticInvariant, PTL
=============================================================================
