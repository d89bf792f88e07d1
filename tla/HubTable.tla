------------------------------ MODULE HubTable ------------------------------
(***************************************************************************)
(* The wake hub as one of the runtime's parts, with what it promises.      *)
(***************************************************************************)
EXTENDS Naturals, Sequences

CONSTANTS Host, Work, HubWakers, Signallers, MaxSerial, HubFaults,
          Nobody              \* no waker, no execution

VARIABLES external, borrowed, serial, closed, dirty, hubFaulted, queue, hubReady,
          running, registered, tokens, hubPc, hubHand, back, hubFaults, observed, deaf

hub == <<external, borrowed, serial, closed, dirty, hubFaulted, queue, hubReady, running,
         registered, tokens, hubPc, hubHand, back, hubFaults, observed, deaf>>

Hub == INSTANCE WakeHub
         WITH faulted <- hubFaulted, ready <- hubReady, pc <- hubPc, hand <- hubHand,
              faults <- hubFaults, MaxFaults <- HubFaults, Wakers <- HubWakers,
              None <- Nobody

\* When every thread is between calls and an execution is ready, the task behind
\* the route in place has been woken and not yet polled (wake.rs: mark_ready,
\* notify, the routes and finish_turn).
ReadyIsAnnounced == Hub!ReadyIsAnnounced

\* A panic that the hub contained on any thread is reported to the host, or the
\* host has been woken to find it (wake.rs: contain).
FaultReported == Hub!FaultReported
=============================================================================
