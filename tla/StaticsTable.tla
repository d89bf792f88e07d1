---------------------------- MODULE StaticsTable ----------------------------
(***************************************************************************)
(* The lazy statics of a runtime, with variables of their own, for the     *)
(* modules that hold other parts beside them.                              *)
(***************************************************************************)
EXTENDS Integers, Sequences

CONSTANTS Cells, MaxAttempts, MaxNesting,
          NoAttempt           \* no attempt, no completion

VARIABLES cell, done, stack, active, failing, touched

staticVars == <<cell, done, stack, active, failing, touched>>

Statics == INSTANCE StaticInitialization WITH MaxSessions <- MaxNesting, None <- NoAttempt

\* An attempt that is not there is no attempt, and a completion that is not set
\* is no completion.
ASSUME AttemptsAssumption == NoAttempt \notin Nat /\ NoAttempt \notin {"failed", "ok"}

\* No static is left half initialized: one that looks as if it were being
\* initialized has exactly one frame at it, whether recipes commit, fail, trap or
\* are unwound (module/state/initialization.rs).
InitializingHasFrame == Statics!InitializingHasFrame

\* A static whose recipe came back to it, directly or through a host that entered
\* the runtime again, never becomes ready, even if the host swallows the error
\* (poison_static_cycle).
CycleNeverReady == Statics!CycleNeverReady
=============================================================================
