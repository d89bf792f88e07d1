---------------------------- MODULE ManagedHeap ----------------------------
(***************************************************************************)
(* What kagari-gc promises its users: a graph of objects in which nothing  *)
(* disappears that can still be reached.  There are no colours, phases or  *)
(* queues here; any unreachable object may vanish between two scopes.      *)
(***************************************************************************)
EXTENDS ObjectGraph

CONSTANTS
    Objects,   \* storage locations of objects
    RootSlots, \* every place outside the graph that can hold a reference
    None

VARIABLES
    status,    \* "usable", "faulted" or "closed"
    occupied,  \* the objects that exist
    edges,     \* what each refers to
    roots,     \* what each root slot refers to
    scope,     \* a mutator is at work
    held       \* the handles it has

vars == <<status, occupied, edges, roots, scope, held>>

Live == Reachable(Objects, edges, None,
                  ({roots[r] : r \in RootSlots} \cup held) \ {None})

Init ==
    /\ status = "usable"
    /\ occupied = {} /\ held = {}
    /\ \A o \in Objects : Targets(edges, o, None) = {}
    /\ \A r \in RootSlots : roots[r] = None
    /\ scope = FALSE

Enter ==
    /\ status = "usable" /\ ~scope
    /\ scope' = TRUE
    /\ UNCHANGED <<status, occupied, edges, roots, held>>

Leave ==
    /\ scope
    /\ scope' = FALSE /\ held' = {}
    /\ UNCHANGED <<status, occupied, edges, roots>>

\* Read a root or an edge of a held object.
Read(o) ==
    /\ status = "usable" /\ scope
    /\ \/ \E r \in RootSlots : roots[r] = o
       \/ \E h \in held : o \in Targets(edges, h, None)
    /\ held' = held \cup {o}
    /\ UNCHANGED <<status, occupied, edges, roots, scope>>

\* A new object may refer to anything held.
Create(o) ==
    /\ status = "usable" /\ scope
    /\ o \notin occupied
    /\ occupied' = occupied \cup {o}
    /\ held' = held \cup {o}
    /\ \A x \in Objects \ {o} : edges'[x] = edges[x]
    /\ Targets(edges', o, None) \subseteq held
    /\ UNCHANGED <<status, roots, scope>>

\* The edges of a held object are rearranged or pointed at other held objects.
Write(o) ==
    /\ status = "usable" /\ scope
    /\ o \in held
    /\ \A x \in Objects \ {o} : edges'[x] = edges[x]
    /\ Targets(edges', o, None) \subseteq held \cup Targets(edges, o, None)
    /\ UNCHANGED <<status, occupied, roots, scope, held>>

\* Root slots come to hold, from inside a scope, handles the mutator has.
WriteRoots ==
    /\ status = "usable" /\ scope
    /\ \A r \in RootSlots : roots'[r] \in {roots[r], None} \cup held
    /\ UNCHANGED <<status, occupied, edges, scope, held>>

\* Leases end at any time.
DropRoots ==
    /\ \A r \in RootSlots : roots'[r] \in {roots[r], None}
    /\ UNCHANGED <<status, occupied, edges, scope, held>>

\* The whole of garbage collection, as its users see it.  A destructor that
\* panics on the way faults the heap.
Reclaim(o) ==
    /\ status = "usable" /\ ~scope
    /\ o \in occupied \ Live
    /\ occupied' = occupied \ {o}
    /\ \A x \in Objects \ {o} : edges'[x] = edges[x]
    /\ status' \in {"usable", "faulted"}
    /\ UNCHANGED <<roots, scope, held>>

Fault ==
    /\ status = "usable"
    /\ status' = "faulted"
    /\ UNCHANGED <<occupied, edges, roots, scope, held>>

Close ==
    /\ ~scope
    /\ status' = "closed"
    /\ occupied' = {}
    /\ UNCHANGED <<scope, held>>

Next ==
    \/ Enter \/ Leave \/ WriteRoots \/ DropRoots \/ Fault \/ Close
    \/ \E o \in Objects : Read(o) \/ Create(o) \/ Write(o) \/ Reclaim(o)

Spec == Init /\ [][Next]_vars
=============================================================================
