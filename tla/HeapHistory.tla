---------------------------- MODULE HeapHistory ----------------------------
(***************************************************************************)
(* IncrementalHeap with a history variable: what was garbage when the      *)
(* running cycle began, and has not been reclaimed yet.                    *)
(***************************************************************************)
EXTENDS IncrementalHeap

VARIABLE doomed

HistoryInit == Init /\ doomed = {}
HistoryNext ==
    /\ Next
    /\ doomed' = IF phase = "Idle" /\ phase' = "Roots" THEN occupied \ Live
                 ELSE doomed \cap occupied'
HistorySpec == HistoryInit /\ [][HistoryNext]_<<vars, doomed>>

\* A full cycle leaves no garbage of its start behind: a released lease
\* (Heap::scan_roots) or an unreachable peer never keeps an object alive.
GarbageReclaimed == phase = "Idle" => doomed = {}

-----------------------------------------------------------------------------
(***************************************************************************)
(* Its inductive invariant: no doomed object is named, referred to from    *)
(* outside the doomed ones, or discovered by the cycle.                    *)
(***************************************************************************)
Forgotten ==
    /\ doomed \subseteq occupied
    /\ held \cap doomed = {}
    /\ \A r \in RootSlots : RootValue(r) \notin doomed
    /\ \A o \in occupied \ doomed : Targets(edges, o, None) \cap doomed = {}

Undiscovered ==
    phase \in {"Roots", "Mark", "Sweep"} => DiscoveredNow \cap doomed = {}

GarbageInv == Forgotten /\ Undiscovered /\ GarbageReclaimed
=============================================================================
