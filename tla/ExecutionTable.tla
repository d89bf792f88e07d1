--------------------------- MODULE ExecutionTable ---------------------------
(***************************************************************************)
(* The result cell of a scheduled execution, and beside it the owner of an *)
(* execution under names of its own, with what it promises.                *)
(***************************************************************************)
EXTENDS ScheduledResult

CONSTANTS Providers, HostWakers, MaxAnswers, MaxSets

VARIABLES ownAbandoned, ownReady, ownFinished, ownCancelled, wake, pc, held, handle,
          sets, answered, seen, told

own == <<ownAbandoned, ownReady, ownFinished, ownCancelled, wake, pc, held, handle, sets,
         answered, seen, told>>

Own == INSTANCE OwnedExecution
         WITH abandoned <- ownAbandoned, ready <- ownReady, finished <- ownFinished,
              cancelled <- ownCancelled, Wakers <- HostWakers

\* The providers' threads are none of the two that every execution has, and no
\* waker stands for the absence of one.
ASSUME ThreadsAssumption == Providers \cap {"runtime", "host"} = {} /\ None \notin HostWakers

\* An answer that no slice has found keeps the execution ready, also when it
\* comes between the last poll of a slice and its parking (frame/waiting.rs).
NoLostAnswer == Own!NoLostAnswer

\* An execution that is parked and ready has told the host's registered waker, or
\* a thread is about to (session/owned.rs: set_waker against mark_ready).
WakerTold == Own!WakerTold
=============================================================================
