----------------------------- MODULE TokenTable -----------------------------
(***************************************************************************)
(* The cancellation token under names of its own, with what it promises.   *)
(***************************************************************************)
EXTENDS Naturals

CONSTANTS Cancellers, Subs

VARIABLES cancelled, subscribers, sub, cancelPc, upgraded, unwoken, wakeups

tokenVars == <<cancelled, subscribers, sub, cancelPc, upgraded, unwoken, wakeups>>

Token == INSTANCE Cancellation WITH pc <- cancelPc, held <- upgraded, woken <- wakeups

\* Once the token is cancelled and no canceller is still at work, every
\* subscription that subscribe() has returned was woken: a cancellation that races
\* with a registration is not lost (cancellation.rs: cancel, subscribe).
NoLostCancellation == Token!NoLostCancellation

\* A subscription that stays registered is woken after cancellation.
CancellationDelivered == Token!CancellationDelivered
=============================================================================
