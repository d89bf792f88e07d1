------------------------------- MODULE HeapPacing -------------------------------
(***************************************************************************)
(* When a safepoint of the incremental heap collects, and how much.       *)
(*                                                                         *)
(* The heap is reduced to sizes: the bytes it manages, the part of them    *)
(* that nothing reaches any more, the committed growth since the last      *)
(* cycle began and the root releases that wait for a sweep.  The four      *)
(* measures that have an admission limit are compared in the same way, and *)
(* `used' stands for each of them.  A cycle is so many service calls long: *)
(* what they do is in IncrementalHeap.                                     *)
(***************************************************************************)
EXTENDS Naturals, FiniteSetsExt

\* None of the configured values is zero: Pacing::new refuses that.
CONSTANTS UsizeMax,          \* usize::MAX
          Limit,             \* an admission limit; UsizeMax is no limit
          MinGrowth,         \* PacingConfig::min_growth_bytes
          GrowthPercent,     \* PacingConfig::growth_percent
          AssistMultiplier,  \* PacingConfig::assist_multiplier
          RetirementCap,     \* RETIREMENT_CAP
          CycleWork,         \* service calls that a cycle takes, at most
          MaxOps             \* mutator operations

VARIABLES used,       \* managed bytes
          garbage,    \* bytes of used that nothing reaches
          doomed,     \* bytes that were garbage when the cycle began
          left,       \* service calls left in the cycle; 0 when idle
          growth,     \* MemoryLedger::allocation_growth
          releases,   \* RootTable::pending_releases
          threshold,  \* Pacing::threshold
          last,       \* what the last safepoint did
          ops         \* mutator operations so far

vars == <<used, garbage, doomed, left, growth, releases, threshold, last, ops>>
heap == <<used, garbage, doomed, left>>

Active == left # 0

SaturatingAdd(a, b) == Min({a + b, UsizeMax})
SaturatingMul(a, b) == Min({a * b, UsizeMax})

(***************************************************************************)
(* The mutator, between safepoints.                                        *)
(***************************************************************************)
\* An allocation is admitted under the limit, and MemoryLedger::grew counts it.
Allocate(n) ==
  /\ ops < MaxOps
  /\ used + n <= Limit
  /\ used' = used + n
  /\ growth' = SaturatingAdd(growth, n)
  /\ ops' = ops + 1
  /\ UNCHANGED <<garbage, doomed, left, releases, threshold, last>>

\* The mutator drops its last path to n bytes.
Forget(n) ==
  /\ ops < MaxOps
  /\ garbage + n <= used
  /\ garbage' = garbage + n
  /\ ops' = ops + 1
  /\ UNCHANGED <<used, doomed, left, growth, releases, threshold, last>>

\* A root lease is dropped, on any thread.
DropRoot ==
  /\ ops < MaxOps
  /\ releases' = releases + 1
  /\ ops' = ops + 1
  /\ UNCHANGED <<heap, growth, threshold, last>>

(***************************************************************************)
(* The decision.                                                           *)
(***************************************************************************)
\* near_limit
NearLimit(n, limit) == limit # UsizeMax /\ n # 0 /\ n >= limit - limit \div 4

\* Mutant of Pressure: a limit that is near is reason enough.
PressureMutant == NearLimit(used, Limit)

\* safepoint_with: live data near a limit is no reason to collect by itself.
Pressure == (Active \/ growth # 0 \/ releases # 0) /\ NearLimit(used, Limit)

\* safepoint_with returns None.
Sleeping == ~Active /\ growth < threshold /\ releases < RetirementCap /\ ~Pressure

Burst == growth >= SaturatingMul(threshold, IF Active THEN AssistMultiplier
                                            ELSE Max({AssistMultiplier, 2}))

Assist == Pressure \/ Burst

(***************************************************************************)
(* Service.                                                                *)
(***************************************************************************)
\* Pacing::completed, whose product is a u128
Completed(managed) ==
  Max({Min({(managed * GrowthPercent) \div 100, UsizeMax}), MinGrowth})

\* The cycle ends: what was garbage when it began is gone, and perhaps more; the
\* releases are applied and the next threshold follows from what is left.
Finish(least) ==
  \E freed \in least .. garbage :
     /\ used' = used - freed
     /\ garbage' = garbage - freed
     /\ doomed' = 0
     /\ left' = 0
     /\ releases' = 0
     /\ threshold' = Completed(used - freed)

\* A safepoint with nothing to do
Sleep ==
  /\ Sleeping
  /\ last' = "none"
  /\ UNCHANGED <<heap, growth, releases, threshold, ops>>

\* service starts a cycle: the growth is counted from here.
StartStep ==
  /\ ~Sleeping /\ ~Assist /\ ~Active
  /\ left' \in 1 .. CycleWork
  /\ doomed' = garbage
  /\ growth' = 0
  /\ last' = "step"
  /\ UNCHANGED <<used, garbage, releases, threshold, ops>>

\* service continues a cycle.
ContinueStep ==
  /\ ~Sleeping /\ ~Assist /\ left > 1
  /\ left' = left - 1
  /\ last' = "step"
  /\ UNCHANGED <<used, garbage, doomed, growth, releases, threshold, ops>>

FinishStep ==
  /\ ~Sleeping /\ ~Assist /\ left = 1
  /\ Finish(doomed)
  /\ last' = "step"
  /\ UNCHANGED <<growth, ops>>

\* service and drain: a cycle that is in progress ends, or a whole one runs.
AssistStep ==
  /\ ~Sleeping /\ Assist
  /\ Finish(IF Active THEN doomed ELSE garbage)
  /\ growth' = IF Active THEN growth ELSE 0
  /\ last' = "assist"
  /\ UNCHANGED ops

Safepoint == Sleep \/ StartStep \/ ContinueStep \/ FinishStep \/ AssistStep

Init ==
  /\ used = 0 /\ garbage = 0 /\ doomed = 0 /\ left = 0 /\ growth = 0 /\ releases = 0
  /\ threshold = MinGrowth
  /\ last = "none"
  /\ ops = 0

Next ==
  \/ \E n \in 1 .. Limit : Allocate(n)
  \/ \E n \in 1 .. Limit : Forget(n)
  \/ DropRoot
  \/ Safepoint

Spec == Init /\ [][Next]_vars

--------------------------------------------------------------------------------
(***************************************************************************)
(* Properties.                                                             *)
(***************************************************************************)
\* "Stable live data near a quota must not cause a full cycle at every idle poll":
\* once the mutator has stopped, the safepoints end the cycle that is in progress
\* and come to rest.
CollectorSleeps == <>[](last = "none" /\ ~Active)
================================================================================
