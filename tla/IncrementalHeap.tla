-------------------------- MODULE IncrementalHeap --------------------------
(***************************************************************************)
(* The incremental mark-sweep heap of kagari-gc.                           *)
(*                                                                         *)
(* A collection cycle (Roots, Mark, Sweep) is advanced by bounded calls of *)
(* Heap::service.  Every iteration of its loop is one collector action:    *)
(* the budget may run out after any of them, and a mutator scope may then  *)
(* change the graph before the next.  A scope and a step exclude each      *)
(* other; a root lease may be dropped by any thread at any time.           *)
(*                                                                         *)
(* The orders in which root packs, queued pages, gray slots and swept      *)
(* slots are visited are left open.  Byte budgets and charges are left     *)
(* out; a limit or provider error appears as a failed or faulting action.  *)
(***************************************************************************)
EXTENDS ObjectGraph

CONSTANTS
    Objects,      \* the physical slots an object can occupy
    Pages,        \* the pages that hold them
    PageOf,       \* the page of each slot
    Arity,        \* how many edges the object of a slot has; 0 is ScanKind::EdgeFree
    Packs,        \* root-table slots
    Width,        \* targets per root pack
    Typed,        \* the packs created as Root<T>: one target, never replaced
    SourceSlots,  \* slots of the driver's execution root source
    None          \* no object, no page or no pack

ASSUME PageAssumption == PageOf \in [Objects -> Pages]
ASSUME ArityAssumption == Arity \in [Objects -> Nat]
ASSUME WidthAssumption == Width \in [Packs -> Nat \ {0}]
ASSUME TypedAssumption == Typed \subseteq Packs /\ \A p \in Typed : Width[p] = 1
ASSUME NoneAssumption == None \notin Objects \cup Pages \cup Packs

VARIABLES
    phase,     \* Marking::phase
    occupied,  \* slots that hold an initialized object
    edges,     \* the edges of each object
    marks,     \* PageMarks of every page, and the pending page jobs
    active,    \* Heap::active: the object being scanned, how far, restart
    packs,     \* root entries: "none", "live", or "released" (lease gone)
    targets,   \* the targets of each root entry
    cursor,    \* Heap::root_cursor and the source's scan cursor
    source,    \* the execution root source
    sweep,     \* Heap::sweep_stage, slots ahead of the cursor, releases left
    scope,     \* a mutator holds the heap
    held       \* Gc handles of the open scope

vars == <<phase, occupied, edges, marks, active, packs, targets, cursor,
          source, sweep, scope, held>>

Phases == {"Idle", "Roots", "Mark", "Sweep", "Faulted", "Closed"}
Fields(o) == 1..Arity[o]
SlotsOf(p) == {o \in Objects : PageOf[o] = p}
NoEdges(o) == [f \in Fields(o) |-> None]
NoScan == [owner |-> None, at |-> 0, restart |-> FALSE]
NoCursor == [todo |-> {}, pack |-> None, at |-> 1, source |-> {}]
NoSweep == [stage |-> "Physical", ahead |-> {}, releases |-> {}]
NoMarks == [current |-> {}, discovered |-> {}, scanned |-> {}, queued |-> {},
            jobs |-> [p \in Pages |-> 0]]

\* Marking::check: Faulted and Closed refuse every ordinary operation.
Usable == phase \notin {"Faulted", "Closed"}
LivePacks == {p \in Packs : packs[p] = "live"}
ReleasedPacks == {p \in Packs : packs[p] = "released"}
PageExists(p) == SlotsOf(p) \cap occupied # {}

(***************************************************************************)
(* Marks.  "current" holds the pages whose epoch equals the heap's; on any *)
(* other page the bits are stale and mean white.                           *)
(***************************************************************************)
Discovered(m) == {o \in m.discovered : PageOf[o] \in m.current}
Black(m) == {o \in m.scanned : PageOf[o] \in m.current}
Gray(m) == Discovered(m) \ Black(m)

\* PageMarks::ensure for every page of P: the first use in an epoch clears the bits.
Ensure(m, P) ==
    LET stale == P \ m.current
        cleared == {o \in Objects : PageOf[o] \in stale}
    IN  [m EXCEPT !.current = @ \cup stale,
                  !.discovered = @ \ cleared,
                  !.scanned = @ \ cleared,
                  !.queued = @ \ stale]

SetBlack(m, o) ==
    LET e == Ensure(m, {PageOf[o]})
    IN  [e EXCEPT !.discovered = @ \cup {o}, !.scanned = @ \cup {o}]

\* PageMarks::clear_slot, whatever the epoch.
ClearSlot(m, o) == [m EXCEPT !.discovered = @ \ {o}, !.scanned = @ \ {o}]

\* publish_admitted for each object of S, in Roots or Mark: white leaves turn
\* black, other white objects gray, and their pages are queued once.
Shade(m, S) ==
    LET white == S \ Discovered(m)
        leaves == {o \in white : Arity[o] = 0}
        pages == {PageOf[o] : o \in white}
        gray == {PageOf[o] : o \in white \ leaves}
        e == Ensure(m, pages)
    IN  [e EXCEPT !.discovered = @ \cup white,
                  !.scanned = @ \cup leaves,
                  !.queued = @ \cup gray,
                  !.jobs = [p \in Pages |->
                      IF p \in gray \ e.queued THEN @[p] + 1 ELSE @[p]]]

\* Marking::publish for the objects of S, on marks m.
Publish(m, S) == IF phase \in {"Roots", "Mark"} THEN Shade(m, S) ELSE m

\* Publication is refused for a free slot and, in Sweep, for a condemned object.
CanPublish(o) == o \in occupied /\ (phase = "Sweep" => o \in Black(marks))

\* PhysicalHeap::reserve: the slot's bits are cleared, and a page that did not
\* exist starts with fresh PageMarks of no epoch.
Reserve(o) ==
    LET p == PageOf[o]
    IN  IF PageExists(p) THEN ClearSlot(marks, o)
        ELSE [marks EXCEPT !.current = @ \ {p},
                           !.discovered = @ \ SlotsOf(p),
                           !.scanned = @ \ SlotsOf(p),
                           !.queued = @ \ {p}]

MarkType == [current : SUBSET Pages, discovered : SUBSET Objects,
             scanned : SUBSET Objects, queued : SUBSET Pages,
             jobs : [Pages -> Nat]]
ScanType == [owner : Objects \cup {None}, at : Nat, restart : BOOLEAN]
CursorType == [todo : SUBSET Packs, pack : Packs \cup {None}, at : Nat \ {0},
               source : SUBSET SourceSlots]
SweepType == [stage : {"Physical", "Roots"}, ahead : SUBSET Objects,
              releases : SUBSET Packs]
EdgesTyped(e) ==
    /\ DOMAIN e = Objects
    /\ \A o \in Objects : e[o] \in [Fields(o) -> Objects \cup {None}]
TargetsTyped(t) ==
    /\ DOMAIN t = Packs
    /\ \A p \in Packs : t[p] \in [1..Width[p] -> Objects \cup {None}]

\* Types; saved scan positions stay inside the object, root cursors inside their
\* pack, and targets name objects.
TypeOK ==
    /\ phase \in Phases
    /\ occupied \subseteq Objects
    /\ EdgesTyped(edges)
    /\ marks \in MarkType
    /\ active \in ScanType
    /\ packs \in [Packs -> {"none", "live", "released"}]
    /\ TargetsTyped(targets)
    /\ cursor \in CursorType
    /\ source \in [SourceSlots -> Objects \cup {None}]
    /\ sweep \in SweepType
    /\ scope \in BOOLEAN
    /\ held \subseteq Objects

Init ==
    /\ phase = "Idle"
    /\ occupied = {}
    /\ edges = [o \in Objects |-> NoEdges(o)]
    /\ marks = NoMarks
    /\ active = NoScan
    /\ packs = [p \in Packs |-> "none"]
    /\ targets = [p \in Packs |-> [i \in 1..Width[p] |-> None]]
    /\ cursor = NoCursor
    /\ source = [s \in SourceSlots |-> None]
    /\ sweep = NoSweep
    /\ scope = FALSE
    /\ held = {}

-----------------------------------------------------------------------------
(***************************************************************************)
(* The mutator: operations of an open scope.                               *)
(***************************************************************************)
OpenScope ==
    /\ Usable /\ ~scope
    /\ scope' = TRUE
    /\ UNCHANGED <<phase, occupied, edges, marks, active, packs, targets,
                   cursor, source, sweep, held>>

\* The handles of a scope cannot outlive it.
CloseScope ==
    /\ scope
    /\ scope' = FALSE
    /\ held' = {}
    /\ UNCHANGED <<phase, occupied, edges, marks, active, packs, targets,
                   cursor, source, sweep>>

\* A read gives the scope a handle on o; nothing is published for it.
Hold(o) ==
    /\ Usable /\ scope
    /\ o # None
    /\ held' = held \cup {o}
    /\ UNCHANGED <<phase, occupied, edges, marks, active, packs, targets,
                   cursor, source, sweep, scope>>

GetRoot(p, i) == packs[p] = "live" /\ Hold(targets[p][i])
Follow(o, f) == o \in held /\ Hold(edges[o][f])
SourceGet(s) == Hold(source[s])

\* Initialize a reserved slot with edges e, publish what it refers to, and
\* admit it: black in a running cycle, whatever the phase.
Allocate(o, e) ==
    LET stored == {e[f] : f \in Fields(o)} \ {None}
        shaded == Publish(Reserve(o), stored)
    IN  /\ Usable /\ scope
        /\ o \notin occupied
        /\ \A t \in stored : CanPublish(t)
        /\ marks' = IF phase = "Idle" THEN shaded ELSE SetBlack(shaded, o)
        /\ occupied' = occupied \cup {o}
        /\ edges' = [edges EXCEPT ![o] = e]
        /\ held' = held \cup {o}
        /\ UNCHANGED <<phase, active, packs, targets, cursor, source, sweep, scope>>

\* The initializer, a limit or the validation of a later edge fails after the
\* targets T were published: AllocationGuard gives the slot back, the shading stays.
AllocateFails(o, T) ==
    /\ Usable /\ scope
    /\ o \notin occupied
    /\ \A t \in T : CanPublish(t)
    /\ marks' = Publish(Reserve(o), T)
    /\ UNCHANGED <<phase, occupied, edges, active, packs, targets, cursor,
                   source, sweep, scope, held>>

\* Mutant of SetEdge: the write barrier is forgotten.
SetEdgeUnpublished(o, f, v) ==
    /\ Usable /\ scope
    /\ o \in held
    /\ edges' = [edges EXCEPT ![o][f] = v]
    /\ UNCHANGED <<phase, occupied, marks, active, packs, targets, cursor,
                   source, sweep, scope, held>>

\* EdgeField::set: publish the incoming target, then store.  The scan of o goes
\* on where it was.  A refused publication faults the heap.
SetEdge(o, f, v) ==
    /\ Usable /\ scope
    /\ o \in held
    /\ IF v = None \/ CanPublish(v)
       THEN /\ edges' = [edges EXCEPT ![o][f] = v]
            /\ marks' = Publish(marks, {v} \ {None})
            /\ UNCHANGED phase
       ELSE /\ phase' = "Faulted"
            /\ UNCHANGED <<edges, marks>>
    /\ UNCHANGED <<occupied, active, packs, targets, cursor, source, sweep,
                   scope, held>>

\* What a provider's edit of o to e takes in from outside o, and what it moves.
Imported(o, e) == {e[f] : f \in Fields(o)} \ (Targets(edges, o, None) \cup {None})
Moved(o, e) == {e[f] : f \in {g \in Fields(o) : e[g] # edges[o][g]}} \ {None}

\* Mutant of EditRestart: the guard leaves the saved scan position usable.
EditWithoutRestart(o, e) ==
    /\ Usable /\ scope
    /\ o \in held
    /\ \A t \in Imported(o, e) : t \in held /\ CanPublish(t)
    /\ edges' = [edges EXCEPT ![o] = e]
    /\ marks' = Publish(marks, Imported(o, e))
    /\ UNCHANGED <<phase, occupied, active, packs, targets, cursor, source,
                   sweep, scope, held>>

\* with_object_mut or an ObjectMut guard without a continuation (also after an
\* error, an unwind or mem::forget): the active scan of o starts over.
EditRestart(o, e) ==
    /\ Usable /\ scope
    /\ o \in held
    /\ \A t \in Imported(o, e) : t \in held /\ CanPublish(t)
    /\ edges' = [edges EXCEPT ![o] = e]
    /\ marks' = Publish(marks, Imported(o, e))
    /\ active' = [active EXCEPT !.restart = @ \/ active.owner = o]
    /\ UNCHANGED <<phase, occupied, packs, targets, cursor, source, sweep,
                   scope, held>>

\* The same with continue_scan: every moved edge is published again, and a
\* restart that was pending stays pending.
EditContinue(o, e) ==
    /\ Usable /\ scope
    /\ o \in held
    /\ Imported(o, e) \subseteq held
    /\ \A t \in Moved(o, e) : CanPublish(t)
    /\ edges' = [edges EXCEPT ![o] = e]
    /\ marks' = Publish(marks, Moved(o, e))
    /\ UNCHANGED <<phase, occupied, active, packs, targets, cursor, source,
                   sweep, scope, held>>

\* Ordered removal of edge i: the later edges move one place down and, through
\* with_scan_state, the position of a reusable active scan with them.
RemoveRepaired(o, i) ==
    /\ Usable /\ scope
    /\ o \in held
    /\ edges' = [edges EXCEPT ![o] = [f \in Fields(o) |->
           IF f < i THEN @[f] ELSE IF f < Arity[o] THEN @[f + 1] ELSE None]]
    /\ active' = IF active.owner = o /\ ~active.restart /\ i <= active.at
                 THEN [active EXCEPT !.at = @ - 1] ELSE active
    /\ UNCHANGED <<phase, occupied, marks, packs, targets, cursor, source,
                   sweep, scope, held>>

\* Retention::retain: publish, then commit a typed root.
Retain(p, o) ==
    /\ Usable /\ scope
    /\ p \in Typed /\ packs[p] = "none"
    /\ o \in held /\ CanPublish(o)
    /\ marks' = Publish(marks, {o})
    /\ packs' = [packs EXCEPT ![p] = "live"]
    /\ targets' = [targets EXCEPT ![p] = [i \in 1..Width[p] |-> o]]
    /\ UNCHANGED <<phase, occupied, edges, active, cursor, source, sweep,
                   scope, held>>

CreateRoots(p) ==
    /\ Usable /\ scope
    /\ p \notin Typed /\ packs[p] = "none"
    /\ packs' = [packs EXCEPT ![p] = "live"]
    /\ targets' = [targets EXCEPT ![p] = [i \in 1..Width[p] |-> None]]
    /\ UNCHANGED <<phase, occupied, edges, marks, active, cursor, source,
                   sweep, scope, held>>

\* Replace a target of a root pack, also one the root cursor has passed.
SetRoot(p, i, v) ==
    /\ Usable /\ scope
    /\ p \notin Typed /\ packs[p] = "live"
    /\ v = None \/ CanPublish(v)
    /\ marks' = Publish(marks, {v} \ {None})
    /\ targets' = [targets EXCEPT ![p][i] = v]
    /\ UNCHANGED <<phase, occupied, edges, active, packs, cursor, source,
                   sweep, scope, held>>

\* Mutant of SetSource: the slot is written without source_edge.
SetSourceUnpublished(s, v) ==
    /\ Usable /\ scope
    /\ source' = [source EXCEPT ![s] = v]
    /\ UNCHANGED <<phase, occupied, edges, marks, active, packs, targets,
                   cursor, sweep, scope, held>>

\* Scope::source_edge, then the adapter's write of the slot.
SetSource(s, v) ==
    /\ Usable /\ scope
    /\ v = None \/ CanPublish(v)
    /\ marks' = Publish(marks, {v} \ {None})
    /\ source' = [source EXCEPT ![s] = v]
    /\ UNCHANGED <<phase, occupied, edges, active, packs, targets, cursor,
                   sweep, scope, held>>

\* A panic while an allocation is validated, or a charge that finalization of
\* an edit cannot admit.
MutatorFault ==
    /\ Usable /\ scope
    /\ phase' = "Faulted"
    /\ UNCHANGED <<occupied, edges, marks, active, packs, targets, cursor,
                   source, sweep, scope, held>>

\* RootLease::drop, on any thread: the entry stays registered and its id is
\* queued for release.
DropLease(p) ==
    /\ packs[p] = "live"
    /\ packs' = [packs EXCEPT ![p] = "released"]
    /\ UNCHANGED <<phase, occupied, edges, marks, active, targets, cursor,
                   source, sweep, scope, held>>

-----------------------------------------------------------------------------
(***************************************************************************)
(* The collector: one iteration of Heap::service each.                     *)
(***************************************************************************)
StartCycle ==
    /\ phase = "Idle" /\ ~scope
    /\ phase' = "Roots"
    /\ marks' = [marks EXCEPT !.current = {}]
    /\ cursor' = [todo |-> LivePacks \cup ReleasedPacks, pack |-> None, at |-> 1,
                  source |-> SourceSlots]
    /\ UNCHANGED <<occupied, edges, active, packs, targets, source, sweep,
                   scope, held>>

\* The cursor stays on a pack until it has published its last target.
AtPack(p) ==
    /\ phase = "Roots" /\ ~scope
    /\ p \in cursor.todo
    /\ cursor.pack \in {None, p}

\* Mutant of ScanRootTarget: the lease count is not looked at.
ScanReleasedTarget(p) ==
    /\ AtPack(p)
    /\ cursor.at <= Width[p]
    /\ targets[p][cursor.at] \in occupied \cup {None}
    /\ marks' = Shade(marks, {targets[p][cursor.at]} \ {None})
    /\ cursor' = [cursor EXCEPT !.pack = p, !.at = @ + 1]
    /\ UNCHANGED <<phase, occupied, edges, active, packs, targets, source,
                   sweep, scope, held>>

ScanRootTarget(p) ==
    /\ AtPack(p)
    /\ packs[p] = "live" /\ cursor.at <= Width[p]
    /\ targets[p][cursor.at] \in occupied \cup {None}
    /\ marks' = Shade(marks, {targets[p][cursor.at]} \ {None})
    /\ cursor' = [cursor EXCEPT !.pack = p, !.at = @ + 1]
    /\ UNCHANGED <<phase, occupied, edges, active, packs, targets, source,
                   sweep, scope, held>>

\* A pack is done after its last target, or as soon as its lease is gone.
ScanRootNext(p) ==
    /\ AtPack(p)
    /\ packs[p] = "live" => cursor.at > Width[p]
    /\ cursor' = [cursor EXCEPT !.todo = @ \ {p}, !.pack = None, !.at = 1]
    /\ UNCHANGED <<phase, occupied, edges, marks, active, packs, targets,
                   source, sweep, scope, held>>

ScanSource(s) ==
    /\ phase = "Roots" /\ ~scope
    /\ cursor.todo = {} /\ s \in cursor.source
    /\ source[s] \in occupied \cup {None}
    /\ marks' = Shade(marks, {source[s]} \ {None})
    /\ cursor' = [cursor EXCEPT !.source = @ \ {s}]
    /\ UNCHANGED <<phase, occupied, edges, active, packs, targets, source,
                   sweep, scope, held>>

RootsDone ==
    /\ phase = "Roots" /\ ~scope
    /\ cursor.todo = {} /\ cursor.source = {}
    /\ phase' = "Mark"
    /\ UNCHANGED <<occupied, edges, marks, active, packs, targets, cursor,
                   source, sweep, scope, held>>

\* The page leaves the queue; or it is popped and pushed again, which leaves the
\* number of its jobs as it was.
Popped(p) == [marks EXCEPT !.queued = @ \ {p},
                           !.jobs = [marks.jobs EXCEPT ![p] = @ - 1]]
Requeued(p) == [marks EXCEPT !.queued = @ \cup {p}]

\* Mutant of BeginScan: a page with more gray slots is not queued again.
BeginScanOnce(p) ==
    LET gray == Gray(marks) \cap SlotsOf(p)
    IN  /\ phase = "Mark" /\ ~scope
        /\ active.owner = None
        /\ marks.jobs[p] > 0
        /\ marks' = Popped(p)
        /\ IF gray = {} THEN UNCHANGED active
           ELSE \E o \in gray \cap occupied :
                  active' = [owner |-> o, at |-> 0, restart |-> FALSE]
        /\ UNCHANGED <<phase, occupied, edges, packs, targets, cursor, source,
                       sweep, scope, held>>

\* Mutant of BeginScan: a page is queued again after its last gray slot.
BeginScanAlwaysQueues(p) ==
    /\ phase = "Mark" /\ ~scope
    /\ active.owner = None
    /\ marks.jobs[p] > 0
    /\ UNCHANGED marks
    /\ IF Gray(marks) \cap SlotsOf(p) = {} THEN UNCHANGED active
       ELSE \E o \in Gray(marks) \cap SlotsOf(p) \cap occupied :
              active' = [owner |-> o, at |-> 0, restart |-> FALSE]
    /\ UNCHANGED <<phase, occupied, edges, packs, targets, cursor, source,
                   sweep, scope, held>>

\* Marking::next pops a page and takes one of its gray slots; the page goes back
\* on the queue when it has more.
BeginScan(p) ==
    LET gray == Gray(marks) \cap SlotsOf(p)
    IN  /\ phase = "Mark" /\ ~scope
        /\ active.owner = None
        /\ marks.jobs[p] > 0
        /\ IF gray = {} THEN marks' = Popped(p) /\ UNCHANGED active
           ELSE \E o \in gray \cap occupied :
                  /\ active' = [owner |-> o, at |-> 0, restart |-> FALSE]
                  /\ marks' = IF gray = {o} THEN Popped(p) ELSE Requeued(p)
        /\ UNCHANGED <<phase, occupied, edges, packs, targets, cursor, source,
                       sweep, scope, held>>

\* Where the scan goes on: a pending restart discards the saved position.
ScanPosition == IF active.restart THEN 0 ELSE active.at

ScanEdge ==
    LET o == active.owner
        next == ScanPosition + 1
    IN  /\ phase = "Mark" /\ ~scope
        /\ o # None
        /\ next <= Arity[o]
        /\ edges[o][next] \in occupied \cup {None}
        /\ marks' = Shade(marks, {edges[o][next]} \ {None})
        /\ active' = [owner |-> o, at |-> next, restart |-> FALSE]
        /\ UNCHANGED <<phase, occupied, edges, packs, targets, cursor, source,
                       sweep, scope, held>>

ScanDone ==
    /\ phase = "Mark" /\ ~scope
    /\ active.owner # None
    /\ ScanPosition >= Arity[active.owner]
    /\ marks' = SetBlack(marks, active.owner)
    /\ active' = NoScan
    /\ UNCHANGED <<phase, occupied, edges, packs, targets, cursor, source,
                   sweep, scope, held>>

\* Marking ends when nothing is being scanned and no page is queued.
MarkDone ==
    /\ phase = "Mark" /\ ~scope
    /\ active.owner = None
    /\ \A p \in Pages : marks.jobs[p] = 0
    /\ phase' = "Sweep"
    /\ sweep' = [stage |-> "Physical",
                 ahead |-> {o \in Objects : PageExists(PageOf[o])},
                 releases |-> {}]
    /\ UNCHANGED <<occupied, edges, marks, active, packs, targets, cursor,
                   source, scope, held>>

\* Free o; a page without objects is removed, and with it the cursor's interest.
Retire(o) ==
    LET p == PageOf[o]
        empty == SlotsOf(p) \cap occupied = {o}
    IN  /\ occupied' = occupied \ {o}
        /\ edges' = [edges EXCEPT ![o] = NoEdges(o)]
        /\ sweep' = [sweep EXCEPT
               !.ahead = @ \ (IF empty THEN SlotsOf(p) ELSE {o})]

Sweeping(o) ==
    /\ phase = "Sweep" /\ ~scope
    /\ sweep.stage = "Physical"
    /\ o \in sweep.ahead

\* Mutant of SweepSlot: every object is taken for dead.
SweepSlotColorless(o) ==
    /\ Sweeping(o)
    /\ IF o \in occupied THEN Retire(o)
       ELSE /\ sweep' = [sweep EXCEPT !.ahead = @ \ {o}]
            /\ UNCHANGED <<occupied, edges>>
    /\ UNCHANGED <<phase, marks, active, packs, targets, cursor, source, scope,
                   held>>

\* Mutant of SweepSlot: the epoch of the page is not compared.
SweepSlotStale(o) ==
    /\ Sweeping(o)
    /\ IF o \in occupied /\ o \notin marks.scanned THEN Retire(o)
       ELSE /\ sweep' = [sweep EXCEPT !.ahead = @ \ {o}]
            /\ UNCHANGED <<occupied, edges>>
    /\ UNCHANGED <<phase, marks, active, packs, targets, cursor, source, scope,
                   held>>

SweepSlot(o) ==
    /\ Sweeping(o)
    /\ IF o \in occupied /\ o \notin Black(marks) THEN Retire(o)
       ELSE /\ sweep' = [sweep EXCEPT !.ahead = @ \ {o}]
            /\ UNCHANGED <<occupied, edges>>
    /\ UNCHANGED <<phase, marks, active, packs, targets, cursor, source, scope,
                   held>>

\* The destructor of a dead object panics: the slot is released all the same.
SweepPanics(o) ==
    /\ Sweeping(o)
    /\ o \in occupied /\ o \notin Black(marks)
    /\ Retire(o)
    /\ phase' = "Faulted"
    /\ UNCHANGED <<marks, active, packs, targets, cursor, source, scope, held>>

\* The releases queued by now are counted off the front of a first-in first-out
\* queue; later ones wait for the next cycle.
SweepPagesDone ==
    /\ phase = "Sweep" /\ ~scope
    /\ sweep.stage = "Physical" /\ sweep.ahead = {}
    /\ sweep' = [sweep EXCEPT !.stage = "Roots",
                              !.releases = ReleasedPacks]
    /\ UNCHANGED <<phase, occupied, edges, marks, active, packs, targets,
                   cursor, source, scope, held>>

ReleaseRoot(p) ==
    /\ phase = "Sweep" /\ ~scope
    /\ sweep.stage = "Roots" /\ p \in sweep.releases
    /\ packs[p] = "released"
    /\ packs' = [packs EXCEPT ![p] = "none"]
    /\ targets' = [targets EXCEPT ![p] = [i \in 1..Width[p] |-> None]]
    /\ sweep' = [sweep EXCEPT !.releases = @ \ {p}]
    /\ UNCHANGED <<phase, occupied, edges, marks, active, cursor, source,
                   scope, held>>

\* The retirement of unused descriptors that comes between touches no object.
SweepDone ==
    /\ phase = "Sweep" /\ ~scope
    /\ sweep.stage = "Roots" /\ sweep.releases = {}
    /\ phase' = "Idle"
    /\ sweep' = NoSweep
    /\ UNCHANGED <<occupied, edges, marks, active, packs, targets, cursor,
                   source, scope, held>>

\* A scanner, source, charge hook or checked counter fails: never sweep what is
\* only partly marked.
CollectorFault ==
    /\ Usable /\ ~scope
    /\ phase' = "Faulted"
    /\ UNCHANGED <<occupied, edges, marks, active, packs, targets, cursor,
                   source, sweep, scope, held>>

\* Close for ever and dispose of everything, rooted or not.
Shutdown ==
    /\ ~scope
    /\ phase' = "Closed"
    /\ occupied' = {}
    /\ edges' = [o \in Objects |-> NoEdges(o)]
    /\ marks' = NoMarks
    /\ active' = NoScan
    /\ packs' = [p \in Packs |-> "none"]
    /\ targets' = [p \in Packs |-> [i \in 1..Width[p] |-> None]]
    /\ cursor' = NoCursor
    /\ sweep' = NoSweep
    /\ UNCHANGED <<source, scope, held>>

Contents(o) == [Fields(o) -> held \cup {None}]
Rearranged(o) == [Fields(o) -> held \cup Targets(edges, o, None) \cup {None}]

Mutator ==
    \/ OpenScope \/ CloseScope \/ MutatorFault
    \/ \E p \in Packs : \E i \in 1..Width[p] :
         GetRoot(p, i) \/ \E v \in held \cup {None} : SetRoot(p, i, v)
    \/ \E o \in held : \E f \in Fields(o) :
         Follow(o, f) \/ RemoveRepaired(o, f)
         \/ \E v \in held \cup {None} : SetEdge(o, f, v)
    \/ \E s \in SourceSlots : SourceGet(s) \/ \E v \in held \cup {None} : SetSource(s, v)
    \/ \E o \in Objects \ occupied : \E e \in Contents(o) : Allocate(o, e)
    \/ \E o \in Objects \ occupied, T \in SUBSET held : AllocateFails(o, T)
    \/ \E o \in held : \E e \in Rearranged(o) : EditRestart(o, e) \/ EditContinue(o, e)
    \/ \E p \in Packs \ Typed : CreateRoots(p)
    \/ \E p \in Typed : \E o \in held : Retain(p, o)

CollectorStep ==
    \/ RootsDone \/ ScanEdge \/ ScanDone \/ MarkDone \/ SweepPagesDone \/ SweepDone
    \/ \E p \in Packs : ScanRootTarget(p) \/ ScanRootNext(p) \/ ReleaseRoot(p)
    \/ \E s \in SourceSlots : ScanSource(s)
    \/ \E p \in Pages : BeginScan(p)
    \/ \E o \in Objects : SweepSlot(o)

Next ==
    \/ Mutator
    \/ CollectorStep
    \/ StartCycle \/ CollectorFault \/ Shutdown
    \/ \E o \in Objects : SweepPanics(o)
    \/ \E p \in Packs : DropLease(p)

Spec == Init /\ [][Next]_vars

-----------------------------------------------------------------------------
(***************************************************************************)
(* Safety.                                                                 *)
(***************************************************************************)
\* The places outside the graph that hold references: targets of root packs
\* whose lease is alive, and the slots of the execution source (index 0).
RootSlots == (UNION {{<<p, i>> : i \in 1..Width[p]} : p \in Packs})
             \cup {<<s, 0>> : s \in SourceSlots}
RootValue(r) ==
    IF r[2] = 0 THEN source[r[1]]
    ELSE IF packs[r[1]] = "live" THEN targets[r[1]][r[2]] ELSE None

\* What the mutator can name without following an edge.
Rooted == ({RootValue(r) : r \in RootSlots} \cup held) \ {None}

Live == Reachable(Objects, edges, None, Rooted)

\* Whatever the mutator does between two steps, no object it can still reach is
\* reclaimed (Heap::sweep), until the heap is shut down.
LiveIsOccupied == phase # "Closed" => Live \subseteq occupied

\* A mutator that only uses what it can reach never meets the error "publication
\* of condemned object" of Marking::publish_admitted.
PublicationNeverRefused == Usable => \A o \in Live : CanPublish(o)

\* Marking cannot end early: a gray object is the one being scanned or its page
\* is queued, a page is queued at most once (the reserved capacity of
\* Marking::pending is enough), and Marking::next never finds a gray free slot.
NoGrayLost ==
    Usable =>
        /\ \A o \in Gray(marks) :
              o \in occupied /\ (o = active.owner \/ PageOf[o] \in marks.queued)
        /\ \A p \in Pages : marks.jobs[p] = IF p \in marks.queued THEN 1 ELSE 0

-----------------------------------------------------------------------------
(***************************************************************************)
(* The inductive invariant, one definition per idea.                       *)
(***************************************************************************)
Marking == phase \in {"Roots", "Mark"}
DiscoveredNow == Discovered(marks)
BlackNow == Black(marks)
JobsMatch(m) == \A p \in Pages : m.jobs[p] = IF p \in m.queued THEN 1 ELSE 0

\* The objects of S refer only to T; and so does all the mutator can name.
EdgesWithin(S, T) == \A o \in S : \A f \in Fields(o) : edges[o][f] \in T \cup {None}
NamesWithin(T) ==
    /\ held \subseteq T
    /\ \A p \in Packs : packs[p] = "live" =>
          \A i \in 1..Width[p] : targets[p][i] \in T \cup {None}
    /\ \A s \in SourceSlots : source[s] \in T \cup {None}

\* The bits and the queue fit together; outside Roots and Mark nothing is queued.
QueueInv ==
    /\ marks.scanned \subseteq marks.discovered
    /\ Usable => JobsMatch(marks)
    /\ Marking => \A p \in marks.queued : p \in marks.current /\ PageExists(p)
    /\ Usable /\ ~Marking => marks.queued = {}

\* Gray objects are accounted for, and only the active one is without a job.
GrayInv ==
    /\ Marking => DiscoveredNow \subseteq occupied
    /\ Usable => \A o \in DiscoveredNow \ BlackNow :
                    Marking /\ (o = active.owner \/ PageOf[o] \in marks.queued)
    /\ Usable /\ active.owner # None =>
          /\ phase = "Mark"
          /\ active.owner \in DiscoveredNow \ BlackNow
          /\ active.at <= Arity[active.owner]

\* Before Sweep no object is missing.
GraphInv ==
    phase \in {"Idle", "Roots", "Mark"} =>
        EdgesWithin(occupied, occupied) /\ NamesWithin(occupied)

\* A black object, and the scanned part of the active one, refer to nothing white.
ColourInv ==
    Marking =>
        /\ EdgesWithin(BlackNow, DiscoveredNow)
        /\ active.owner # None /\ ~active.restart =>
              \A f \in 1..active.at :
                 edges[active.owner][f] \in DiscoveredNow \cup {None}

\* A root slot refers to nothing white unless the root cursors have yet to reach it.
RootInv ==
    /\ phase = "Roots" =>
          /\ cursor.pack # None => cursor.pack \in cursor.todo
          /\ cursor.pack = None => cursor.at = 1
    /\ Marking =>
          /\ \A p \in Packs : packs[p] = "live" => \A i \in 1..Width[p] :
                \/ targets[p][i] \in DiscoveredNow \cup {None}
                \/ phase = "Roots" /\ p \in cursor.todo
                   /\ (p = cursor.pack => i >= cursor.at)
          /\ \A s \in SourceSlots :
                \/ source[s] \in DiscoveredNow \cup {None}
                \/ phase = "Roots" /\ s \in cursor.source

\* A set of objects that protects everything the mutator can name.
Safe(S) == S \subseteq occupied /\ EdgesWithin(S, S) /\ NamesWithin(S)

\* In Sweep the black objects are such a set; what is not black is still ahead
\* of the sweep cursor.
SweepInv ==
    phase = "Sweep" =>
        /\ Safe(occupied \cap BlackNow)
        /\ occupied \ BlackNow \subseteq sweep.ahead
        /\ sweep.stage = "Roots" => sweep.ahead = {}

FaultInv == phase = "Faulted" => \E S \in SUBSET Objects : Safe(S)
ScopeInv == ~scope => held = {}

\* All of them: what every operation of the heap relies on and keeps up, between
\* any two iterations of Heap::service and any two operations of a scope.
IInv ==
    /\ TypeOK /\ QueueInv /\ GrayInv /\ GraphInv /\ ColourInv /\ RootInv
    /\ SweepInv /\ FaultInv /\ ScopeInv

-----------------------------------------------------------------------------
(***************************************************************************)
(* Progress.  The driver keeps calling step between scopes, and starts     *)
(* another cycle after the last; a scope ends.  Nothing is assumed of the  *)
(* mutator's choices: it may open a scope before every step.               *)
(***************************************************************************)
FairSpec ==
    /\ Spec
    /\ SF_vars(CollectorStep) /\ SF_vars(StartCycle) /\ WF_vars(CloseScope)

\* The active scan loses ground: a restart, or a removal before its position.
LosesGround == active.owner # None /\ active'.owner = active.owner
               /\ (active'.restart \/ active'.at < active.at)

\* A running cycle ends, or faults, or is invalidated again and again (the one
\* exception the scan protocol of access/mutation.rs allows).
CycleEnds ==
    (phase \in {"Roots", "Mark", "Sweep"} ~> phase \notin {"Roots", "Mark", "Sweep"})
    \/ []<><<LosesGround>>_vars

\* An object nobody can reach is reclaimed in the end.
GarbageEventuallyFreed ==
    (\A o \in Objects :
        Usable /\ o \in occupied \ Live ~> ~Usable \/ o \notin occupied)
    \/ []<><<LosesGround>>_vars

-----------------------------------------------------------------------------
(***************************************************************************)
(* The heap implements ManagedHeap.                                        *)
(***************************************************************************)
Status == CASE phase = "Faulted" -> "faulted"
            [] phase = "Closed" -> "closed"
            [] OTHER -> "usable"
RootMap == [r \in RootSlots |-> RootValue(r)]

Abstract == INSTANCE ManagedHeap WITH
    RootSlots <- RootSlots, status <- Status, roots <- RootMap

\* Every step of the collector is, to the mutator, nothing or the disappearance
\* of one object it cannot reach (Heap::service, Heap::sweep).
ImplementsManagedHeap == Abstract!Spec
=============================================================================
