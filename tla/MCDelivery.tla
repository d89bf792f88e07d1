----------------------------- MODULE MCDelivery -----------------------------
(***************************************************************************)
(* What was signalled arrives: a cancellation at every registration, and a *)
(* stored result at the operation that waits for it.  The two share no     *)
(* variable, so a behaviour follows one of them, `part', and the other     *)
(* rests in its initial state.                                             *)
(***************************************************************************)
EXTENDS CompletionTransport, TokenTable

CONSTANTS o1

VARIABLE part

MCServes == [p \in Producers |-> o1]

TokenAlone == UNCHANGED <<vars, part>>
TransportAlone == UNCHANGED <<tokenVars, part>>

PartInit == Init /\ Token!Init /\ part \in {"token", "transport"}

TokenNext ==
  \/ \E c \in Cancellers : part = "token" /\ Token!CancelSwap(c) /\ TokenAlone
  \/ \E c \in Cancellers : part = "token" /\ Token!CancelTake(c) /\ TokenAlone
  \/ \E c \in Cancellers, s \in Subs : part = "token" /\ Token!CancelWake(c, s) /\ TokenAlone
  \/ \E c \in Cancellers : part = "token" /\ Token!CancelReturn(c) /\ TokenAlone
  \/ \E s \in Subs : part = "token" /\ Token!SubscribePush(s) /\ TokenAlone
  \/ \E s \in Subs : part = "token" /\ Token!SubscribeCheck(s) /\ TokenAlone
  \/ \E s \in Subs : part = "token" /\ Token!DropSubscription(s) /\ TokenAlone

TransportNext ==
  \/ \E o \in Ops, s \in SlotIds : part = "transport" /\ Reserve(o, s) /\ TransportAlone
  \/ \E o \in Ops : part = "transport" /\ SetWakerPanics(o) /\ TransportAlone
  \/ \E o \in Ops : part = "transport" /\ SetWaker(o) /\ TransportAlone
  \/ \E o \in Ops : part = "transport" /\ OnCancel(o) /\ TransportAlone
  \/ \E o \in Ops : part = "transport" /\ PollPending(o) /\ TransportAlone
  \/ \E o \in Ops : part = "transport" /\ Park(o) /\ TransportAlone
  \/ \E o \in Ops : part = "transport" /\ Resume(o) /\ TransportAlone
  \/ \E o \in Ops : part = "transport" /\ Poll(o) /\ TransportAlone
  \/ \E o \in Ops : part = "transport" /\ PollFails(o) /\ TransportAlone
  \/ \E o \in Ops : part = "transport" /\ Cancel(o) /\ TransportAlone
  \/ part = "transport" /\ SetWakerWake /\ TransportAlone
  \/ part = "transport" /\ PollRelease /\ TransportAlone
  \/ part = "transport" /\ CancelHook /\ TransportAlone
  \/ part = "transport" /\ CancelRelease /\ TransportAlone
  \/ \E p \in Producers : part = "transport" /\ Complete(p) /\ TransportAlone
  \/ \E p \in Producers : part = "transport" /\ CompleteWake(p) /\ TransportAlone

PartVars == <<vars, tokenVars, part>>
PartSpec == PartInit /\ [][TokenNext \/ TransportNext]_PartVars

\* Each part's own fairness.  It asks nothing of the part that rests: none of
\* these actions is enabled in its initial state.
PartFairSpec == PartSpec /\ Fairness /\ Token!Fairness
=============================================================================
