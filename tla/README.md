# Kagari: a TLA+ verification project

Kagari is an embeddable scripting language written in Rust: a compiler from
source text to verified bytecode, a register VM, a single-owner `Runtime` that
schedules asynchronous script work, and a standalone incremental garbage
collector, `kagari-gc`. This directory holds TLA+ models of the parts of it
whose correctness depends on the *order* in which things happen, the TLC
configurations that check small instances of them, and TLAPS proofs of the
properties that matter most.

Paths below are relative to `src/crates/`.

## 1. Inventory

### 1.1 The system's parts

| Part | State it keeps | Operations | Why it is hard |
| --- | --- | --- | --- |
| **Cancellation token** (`kagari-common/src/cancellation.rs`) | one flag, a locked list of weak wake registrations | `cancel`, `check`, `subscribe`, drop of a subscription | registration races cancellation on other threads |
| **Incremental heap** (`kagari-gc/src/{heap,marking,sweep,root,access,allocation,...}`) | phase, mark epoch, per-page colour bitmaps, a page job queue, the active scan, host root packs and their release queue, pages with slot states, descriptor use counts, a byte ledger | `step`, `collect`, `shutdown`, scopes with `alloc`, `set`, `get`, `retain`, root creation, replacement and drop, provider mutation | the mutator changes the graph between any two bounded steps of a cycle; leases are dropped at any time by any thread |
| **Automatic pacing** (`kagari-gc/src/heap/pacing.rs`) | thresholds, growth since the last cycle | `safepoint`, `completed` | boundary arithmetic; assist near the limit |
| **Metadata table** (`kagari-gc/src/table.rs`) | a radix tree with "full" bitmaps | `prepare`, `insert`, `get`, `remove`, `trim` | growth and depth reduction must keep every live id |
| **Wake hub and scheduler** (`kagari-runtime/src/scheduler*`) | dirty flag, fault and closed flags, borrowed and external routes; a rotating work queue | `notify`, `mark_ready`, `begin_turn`, `finish_turn`, `register_external`, `borrow`, `close`; `next_work`, `schedule_execution`, cancel, retire | wakes come from any thread between a turn's last look at the flag and its sleep |
| **Scheduled result** (`kagari-runtime/src/scheduler/result.rs`) | one cell shared by the driver and the host | `publish`, `poll`, `cancel`, drop | publication races the last poll and the drop of the host's side |
| **Task scopes** (`kagari-runtime/src/task/*`) | generation-checked slots of tasks and scopes, ready and finished flags, waiters, events | spawn, acquire, park, fail, complete, cancel, scope close, drain, report | cancellation can come at any moment of a task's life; scopes own tasks that other tasks wait for |
| **Owned executions** (`kagari-runtime/src/session/owned.rs`) | abandoned, ready and finished flags, a host waker, the session record | start, resume, park, finish, drop, drain | the owner may be dropped, cancelled or woken from another thread at any point |
| **Wait dependencies** (`kagari-runtime/src/session/dependencies.rs`) | a graph of who waits for whom, with serial numbers | `register`, `attach`, `attach_group`, lease drop, `complete` | a wait that closes a cycle must be refused, a stale lease must not remove a newer edge |
| **Completion transport** (`kagari-runtime/src/native/completion.rs`) | generation-checked slots, a status cell and a waker per operation, a fault flag | `reserve`, `complete`, `set_waker`, `poll`, `cancel`, drop | producers on other threads race poll, cancel and slot reuse |
| **Host borrows** (`kagari-runtime/src/host/borrows.rs`) | a stack of frames with borrow records | `enter_frame`, `borrow`, `leave_frame` | overlapping paths of nested frames must never alias mutably |
| **Module store and publication** (`kagari-runtime/src/{publication,module/*,reload/*}`) | installations, staged candidates, retention tokens, the publishing flag, a count of synchronous activations | stage, publish, abandon, retain, collect | candidates become stale; leases are dropped on other threads during collection |
| **Static initialization** (`kagari-runtime/src/module/state/initialization.rs`) | per-cell state, an attempt stack | begin, commit, fail, poison, attempt drop | cycles, and failures in the middle of an attempt |
| **Runtime heap** (`kagari-runtime/src/gc/*`) | generation-checked object directory, root table with a release channel, leases | allocate, collect, root, drain releases | stop-the-world, so far simpler than `kagari-gc`, but root release is asynchronous here too |
| **VM and bytecode** (`kagari-vm`, `kagari-bytecode`) | frames and registers; verified functions | execution, verification | sequential; the verifier is a fixpoint over control flow |
| **Compiler** (`kagari-syntax`, `-hir`, `-types`, `-contract`, `-mir`, `-compiler`, `-codegen*`) | source databases and intermediate trees | parsing, resolution, typing, lowering, optimization | sequential, large, and functional in style |
| **Packages and sources** (`kagari-package`, `kagari-source`) | package graph, lock file, source revisions | resolution, lock, load | sequential with file system input |
| **Tools and embedding** (`kagari`, `-cli`, `-format`, `-lint`, `-analyzer`, `-web`, `-derive`, `-stdlib`, `-abi`) | thin state over the parts above | commands, editor requests, FFI declarations | mostly input and output |

### 1.2 How the parts interact

A host drives one `Runtime` on one thread. It asks the scheduler for work
(`next_work`), resumes the invocation or the task it gets, and parks it again
when script awaits. Other threads never enter the runtime: they complete native
operations, cancel tokens, drop leases and call wakers, and each of those only
sets flags, sends an id, or wakes the hub. The runtime sees the consequences at
the next turn. Every asynchronous part therefore has the same obligation: *no
notification may be lost between the owner's last look and its sleep, and no
notification may act on an identity that has been reused.*

The collector has the same shape. `kagari-gc` has no collector thread: a bounded
`step` and a mutator scope exclude each other, but a cycle is spread over many
steps, and scopes run in between. Root leases are dropped on any thread at any
time and only put an id on a release queue.

### 1.3 The correctness properties of each part

* **Cancellation**: a registration that exists when the token is cancelled, or
  is made later, is woken.
* **Heap**: nothing a host root or a live scope can reach is ever reclaimed; a
  legal mutator never gets "publication of condemned object"; marking ends only
  when no gray object is left; a slot is reused only after its marks are cleared;
  a started cycle ends, and what was garbage at its start is gone at its end.
* **Wake hub**: a wake sent while a driver is registered reaches a route or is
  seen by the turn in progress.
* **Tasks**: closing a scope cancels every unfinished task in it, those that are
  being admitted included; a woken or cancelled task does not sleep on; the
  dispatcher in place hears of every ready task.
* **Executions**: no answer or wake is lost between a slice and its parking; a
  branch never outlives its group; an abandoned execution is retired; an old id
  does not reach a reused slot.
* **Dependencies**: the wait graph is acyclic; a dropped lease removes only its
  own edge.
* **Completion**: the first result wins, and is consumed at most once; the slot
  of an operation is released exactly once; a parked consumer is woken.
* **Borrows**: two live borrows overlap only if both are shared.
* **Publication**: a candidate replaces exactly the baseline it was staged
  against; a version that can still be entered is whole.
* **Static cells**: none is left half initialized, and one whose recipe comes back
  to it never becomes ready.

## 2. The modules and what they model

| Module | Code | Run | Proofs |
| --- | --- | --- | --- |
| `Cancellation` | `kagari-common/src/cancellation.rs` | `delivery` | `ProgramVersionsProofs` |
| `ObjectGraph`, `ManagedHeap`, `IncrementalHeap` | `kagari-gc` | `heap_graph`, `heap_roots`, `heap_progress` | `IncrementalHeapProofs`, `HeapSafetyProofs` |
| `HeapPacing` | `kagari-gc/src/heap/pacing.rs` | `scheduling` | |
| `MetadataTable` | `kagari-gc/src/table.rs` | `runtime_state` | |
| `CompletionTransport` | `kagari-runtime/src/native/completion.rs` | `completion`, `delivery` | `CompletionProofs` |
| `WaitDependencies` | `session/dependencies.rs` | `wait_dependencies` | `SessionsProofs` |
| `ScheduledResult` | `scheduler/result.rs`, `scheduler/lifecycle.rs` | `scheduling` | `SchedulingProofs` |
| `OwnedExecution` | `session/owned.rs`, `frame/waiting.rs` | `scheduling` | `SchedulingProofs` |
| `WakeHub` | `scheduler/wake.rs`, `scheduler.rs` | `runtime_state` | `SchedulingProofs` |
| `StructuredGroups` | `session/group.rs`, `session/group/*` | `structured_groups` | `StructuredGroupsProofs` |
| `SessionStore` | `session/store.rs` | `runtime_state` | `SessionsProofs` |
| `StaticInitialization` | `module/state/initialization.rs`, `frame/statics.rs` | `runtime_state` | `CompletionProofs` |
| `HostBorrows` | `host/borrows.rs` | `runtime_state` | |
| `TaskScopes` | `task/*`, `scheduler/tasks.rs` | `task_scopes` | `TaskScopesProofs` |
| `ProgramVersions` | `module/*`, `publication.rs`, `loading.rs` | `program_versions`, `program_release_race` | `ProgramVersionsProofs` |

`MC...` modules give the constants their values. `TokenTable`, `HubTable`, `SessionTable`,
`StaticsTable` and `ExecutionTable` give a component variables of its own and state its
promises, under names that other components do not use, so that one run and one proof
module can hold several; the run and the proofs share them. `HeapHistory` adds to the
heap a variable that remembers what was garbage when the cycle began. `PROJECT.json`
maps every definition to its lines of code.

## 3. State and actions

### 3.1 `Cancellation`

Models `kagari-common/src/cancellation.rs`. A token is a flag and a mutex around
a list of weak registrations. One action is one atomic access or one critical
section: `CancelSwap` is the `swap` of the flag, `CancelTake` the critical section
that upgrades and clears the list, `CancelWake` and `CancelReturn` the wake loop
outside it; `SubscribePush` and `SubscribeCheck` are the two halves of
`subscribe`. `DropSubscription` ends a registration at any time. A waker is
arbitrary host code, so it is only counted. It returns: `cancel` contains no panic,
so a waker that panicked would end the loop with the rest of the list unwoken, and
what is said of the token is said of wakers that do not.

### 3.2 `ObjectGraph`, `ManagedHeap`

`ObjectGraph` defines reachability as the least closed set, so that a proof can
bound it by exhibiting one closed set. `ManagedHeap` is the abstract heap: objects,
edges, root slots, an open scope and its handles. Its one action of collection,
`Reclaim`, removes any object that cannot be reached, between scopes.

### 3.3 `IncrementalHeap`

Models `kagari-gc`. Its state is that of `Heap`, with data abstracted:

| Variable | Code |
| --- | --- |
| `phase` | `Marking::phase` |
| `occupied`, `edges` | slots of `PhysicalHeap` that hold an initialized object, and that object's traced edges |
| `marks.current` | the pages whose `PageMarks::epoch` is the heap's epoch; on other pages the bits are stale |
| `marks.discovered`, `.scanned`, `.queued` | the bitmaps and flag of `PageMarks`, stale bits included |
| `marks.jobs` | how often each page is in `Marking::pending` |
| `active` | `Heap::active` and the position in the provider's scan state |
| `packs`, `targets` | `Roots`: entries, whether a lease is left, and targets |
| `cursor` | `Heap::root_cursor`, and the scan cursor of the execution source |
| `source` | the slots of the driver's execution root source |
| `sweep` | `Heap::sweep_stage`, the slots ahead of the physical cursor, the captured releases (the code captures their number; the queue is first-in first-out) |
| `scope`, `held` | an `Access` or `Scope` is open, and the `Gc` handles in it |

One collector action is one iteration of the loop of `Heap::service`: the budget
may run out after any of them, and a scope may open before the next. Mutator
actions are whole operations of a scope: reading a root, an edge or the source;
allocation and its failure; `EdgeField::set`; a provider mutation, with and without
`continue_scan`, and with the repair of the scan position through
`with_scan_state`; retaining; creating and writing root packs. `DropLease` happens
on any thread at any time. Errors of scanners, charge hooks and checked counters
appear as `MutatorFault` and `CollectorFault`, a panicking destructor as
`SweepPanics`.

Left open: the orders in which root packs, pages, gray slots and swept slots are
visited (the code has one order; the model allows all). Left out: byte charges,
budgets and limits, except that an operation may fail; descriptors; the split of a
retirement batch into detaching and disposal, which runs inside one step.

The model is a contract for providers too. `EditContinue` states what
`continue_scan` requires (every moved edge is published again), and
`EditRestart` what every other edit gets.

### 3.4 `CompletionTransport`

Models `kagari-runtime/src/native/completion.rs`, and the consumer of it in
`native/future.rs` and `frame/waiting.rs`. The runtime's thread makes one call at a
time (`call`), producers run concurrently (`pc`). An action is one critical section
or the host code that follows it outside the locks: `SetWaker` then
`SetWakerWake`; `Poll` then `PollRelease`; `Cancel`, `CancelHook`, `CancelRelease`;
`Complete` then `CompleteWake`. Wherever host code runs (wakers, hooks,
destructors), `MayPanic` lets it panic, which faults the registry. A status
`Ready(payload)` is the producer that stored it. The execution's ready flag is
`woken`: `resume_owned_execution` clears it before the wait is polled, and an
execution parks only after a poll that found nothing, with its waker registered.
`set_waker` may come at any time, also after that poll, which is the case its
comment is about.

### 3.5 `WaitDependencies`

The registry of who waits for whom: sessions that run a task (`sessions`), waits
(`edges`) with their leases, groups with parent and children. `check_edge` searches
the graph with the mutex held; the search is modelled node by node (`StartCheck`,
`Visit`, `SkipVisited`, `FoundCycle`), in any order where the code has one.
`Register`, `Attach` and `AttachGroup` start a search, the `Commit...` actions admit
the arc. A lease is dropped at any later time, and `Complete` publishes a task's
outcome and returns the wakers, which `Wake` calls one by one.

### 3.6 `ScheduledResult`, `OwnedExecution`, `WakeHub`

Three pieces of state that the runtime shares with other threads; every load,
store, swap and critical section is a step.

* `ScheduledResult`: the receiver (`PollClone`, `PollLock`, `PollCheck`,
  `CancelLoad`, `CancelRequest`, `DropTicket`) against the scheduler, which
  prepares, retires and publishes (`Prepare`, `Retire`, `PublishLock`,
  `PublishWake`, ...). Any contained callback may panic.
* `OwnedExecution`: the flags of `ExecutionOwner` and its waker, between the slices
  of the runtime's thread (`Poll`, `ParkWaiting`, `ParkReady`, `Terminate`), the
  handle of the host (`SetWaker`, `CheckReady`, `Replace`, `Cancel`, `DropHandle`)
  and the providers that answer and call `mark_ready` (`LoadFinished`, `Swap`,
  `CloneWake`, `CallWake`).
* `WakeHub`: `MarkReady`, `Notify` and `Wake` on any thread against the turn of the
  host (`BeginTurn`, `CheckRoute`, `ClearDirty`, `NextWork`, `Park`, `Finish`), the
  external and the borrowed route, the closing of the hub, and callbacks that panic.
  A fault may come between the look at the fault flag (`CheckRoute`) and the store
  that clears the dirty bit (`ClearDirty`); the end of that turn reports it.

### 3.7 `StructuredGroups`, `SessionStore`

`StructuredGroups` models groups of two branches inside groups: request, admission
branch by branch, selection, every outcome of a branch, teardown leaf-first
(`CloseNext`, `DisposeBranch`, `DisposeEnd`), retirement and the drain.
Cancellations, dropped owners and wakes arrive between any two steps, and every
piece of teardown may panic. A cancellation reaches the whole tree below an execution
in one step: the wakers that pass it on to the branches run inside the call of
`cancel`, one after the other, and a step of the runtime between two of them is not
modelled. `SessionStore` has the slots, their generations up to
the last one, the free list and the frame buckets with the borrows that hold a
removal up.

### 3.8 `TaskScopes`

One scope, managed by the scheduler or driven by the host (`managed`). The runtime's
thread spawns, starts, parks, publishes, retires and drains tasks, one step per
atomic access (`rpc`). Other threads wake tasks and fire the scope's token, which
touch only the atomics of `ScopeControl` and `TaskSignal` (`sig`). A dispatcher may
fail whenever it is told something, and be replaced.

### 3.9 `StaticInitialization`, `HostBorrows`, `MetadataTable`, `HeapPacing`

Sequential parts with long histories. `StaticInitialization`: attempts, cycles,
commits that fail, traps, and nested entries (`Session`), each with initializer frames
of its own, whose errors a host may swallow. The code counts the initializers of all
entries of an execution together; `active` keeps each entry's share of that count.
`HostBorrows`: frames that borrow overlapping paths and are left in any order, and the
counts and identities that run out. `MetadataTable`: the radix tree, with every
allocation that can fail and the assertion of `insert`, next to the finite map it
stands for. `HeapPacing`: when a
safepoint sleeps, works a step or drains, with saturating arithmetic; a cycle is a
number of units of work.

### 3.10 `ProgramVersions`

Staging against a baseline, candidate and retention leases (released on any
thread, in the two steps the code takes), publication, synchronous execution,
settling of statics, and the collection of versions: acknowledge, root discovery,
trace, detach. A version has at most one static; its recipe is the edge to the
version that introduced it.

## 4. The runs

| Run | Instance | Shows |
| --- | --- | --- |
| `delivery` | 2 cancellers, 3 registrations; 1 operation, 2 producers; 22 299 states | `NoLostCancellation`: once all calls have returned, every live registration was woken if the token was cancelled. `CancellationDelivered`: under weak fairness of each thread, every live registration is woken. `ResultConsumed`: an operation with a stored result retires and gives its slot back. |
| `heap_graph` | two nodes with an edge each on the same page, a leaf on another; one root slot; 320 495 states | `LiveIsOccupied`, `PublicationNeverRefused`, `NoGrayLost`: nothing reachable is reclaimed, no legal publication is refused, and no gray object is lost. |
| `heap_roots` | a node and a leaf, a typed root, a pack of two slots, one source slot, faults and shutdown included; 400 451 states | `ImplementsManagedHeap`: the refinement. `GarbageReclaimed`: what was unreachable when a cycle began is gone when it ends. |
| `heap_progress` | two nodes with two edges and one on one page, one root slot; 97 545 states | `IInv`, the invariant of the proofs; `CycleEnds` and `GarbageEventuallyFreed`. |
| `completion` | 3 operations on 2 slots of 2 generations, 2 producers for one of them; 633 325 states | `FirstResultWins`, `ResultOrHook`, `LeasesMatchSlots`, `NoLostWake`: results, hooks, slots and wakes under every interleaving and every panic. |
| `wait_dependencies` | 3 sessions, 2 tasks, 1 group, 3 waits; 278 250 states | `Acyclic`: nobody waits for themselves, through tasks, waits or groups. `RefusalExact`: a refusal is justified. `NoLostWait`: a waiter that holds its lease is registered, woken or about to be. |
| `scheduling` | result cell with 2 wakers and 2 panics; execution with 1 provider, 2 answers, 2 registrations; a heap of 9 bytes and 5 operations; 105 317 states | `NoLostResult`, `NoLostAnswer`, `WakerTold`: nothing is lost between a look and a sleep. `CancelEnds`, `AbandonedRetires`, `CollectorSleeps`: cancelled and abandoned executions end, and the collector comes to rest. |
| `structured_groups` | 5 executions in groups of depth 2, 1 panic; 580 277 states | `NoOrphan`, `LeafFirst`, `ParentWoken`: no branch outlives its group, teardown goes leaf-first, and a result finds its parent. |
| `runtime_state` | hub with 2 executions, 2 wakers, 1 signaller, 2 panics; 5 executions on 2 slots; 3 statics in 3 nested sessions; 3 frames and 4 paths; a table of 3 levels; 312 956 states | `ReadyIsAnnounced`, `FaultReported` (hub); `NoAlias` (store); `InitializingHasFrame`, `CycleNeverReady` (statics); `NoAliasing` (borrows); `LookupExact` (table: lookups, and that a prepared identity is vacant). |
| `task_scopes` | 2 tasks in a managed scope, 1 in one the host drives; 1 other thread, 2 failing notifications, 2 dispatchers; 2 217 529 states | `CloseReachesAll`, `NoSleeper`, `NoLostNotice`: cancellation and wakes reach every task, and the dispatcher in place every ready one. |
| `program_versions` | 3 versions of 2 installations, 1 lease each; 1.6 million states | `VersionsWhole`, `AbandonmentAsked`, `NoLostUpdate`: what can be entered is kept, what was abandoned is asked to go, and a reload replaces only its baseline. |
| `program_release_race` | 2 versions of 1 installation | The finding of section 6: `RaceTolerated` is violated. |

**Several components in one run.** `delivery`, `scheduling` and `runtime_state` each check
several components. These share no variable. A behaviour chooses one of them in its
initial state (`part`) and takes only its actions; the others stay in their initial
state. The states are those of the components side by side, not their product, so
nothing is said about interactions between them, and nothing is lost of what each
component can do alone. A property of a component is asked of the behaviours that
follow it. Every action is a disjunct of its own, so that TLC's coverage shows that
each of them happens.

**Bounds.** All state spaces are finite and explored completely, faults and shutdown
included. Two runs have a state constraint. `TwoRoots`, in `heap_roots`, keeps
at most two of the typed root, the pack and the source in use at a time; any two of
them meet, and both properties of that run are also proved, for any roots. `Spawns`, in
`task_scopes`, lets a scope
that the host drives spawn one task (a managed one spawns two); with two tasks and
replaced dispatchers the graph is beyond 15 million states. Two nodes on one page
are what makes a page have two gray slots, be queued again and be swept in part; a
page of its own makes a page appear and disappear in the middle of a cycle; two
edges (`heap_progress`) make a scan stop half way; three objects allow a chain to be
cut behind the scan. Several cycles follow one another in each run, so that bits of
an earlier epoch are met. Three operations on two slots make two of them active at
once, one reuse the slot of another, and a slot reach its last generation. Three
sessions, two tasks and a group make cycles through every kind of arc. Five
executions are a root with a group in a group. Five executions on two slots of two
generations use every slot up. Three statics in three sessions make a cycle go
through a session that a host entered. A table of three levels grows twice and is
trimmed back. Three versions are a baseline, its successor and a competitor, or two
reloads after which a recipe is still owed to the first. One signaller and one
provider are enough for a race with the host and the runtime's thread; a second one
would race only with its like, and is not covered.

**Deadlock** is checked in the heap runs and in `wait_dependencies`. The other
systems may stop: all threads have returned, every operation has retired, every
identity, panic or registration that the bounds allow has been used.

**Fairness.** The heap has no thread: the host calls `step` or a safepoint between
scopes. `FairSpec` assumes that it goes on doing so (strong fairness of
`CollectorStep` and `StartCycle`, since a scope may be opened before every step), and
that a scope ends. Nothing is assumed of what the mutator does in its scopes. The
code gives no bound when an object that is being scanned is invalidated again and
again (`docs/gc-implementation-design.md`: "Continuous invalidation may postpone
completion"), so `CycleEnds` and `GarbageEventuallyFreed` except the behaviours in
which the active scan loses ground infinitely often, and only those.

The completion transport assumes that the runtime's thread returns from its calls,
that the driver resumes an execution that is ready, and that a resumed execution
polls, and registers and parks if it finds nothing. These are strong, because calls
for other operations come in between. A producer need never call `complete`; one that
has stored its result goes on to wake. `delivery` uses this for the transport; for the
token it assumes only that a thread that is in `cancel` or `subscribe` finishes it.

`PartFairSpec` of `scheduling` assumes that threads finish the calls they are in,
that the scheduler retires what is done or cancelled and publishes it, that a host whose
waker was told resumes, that it drains, and that it goes on calling safepoints. The
last three are what an embedding owes the runtime. A provider need not answer, a
receiver need not poll, and a mutator may stop.

## 5. The proofs

All theorems hold for any values of the constants that satisfy the named
assumptions in the modules: any finite or infinite set of slots and pages, any
assignment of slots to pages, any number of edges per object, any set of root packs
of any width; any sets of threads, tasks, wakers, executions and sessions.

* `IncrementalHeapProofs`: what `Ensure`, `SetBlack`, `Shade`, `Reserve` and a pop do
  to the colours, `TypeCorrect`, and that every operation of the mutator but
  allocation preserves `IInv`.
* `HeapSafetyProofs`: so do marking, allocation and sweeping; `InvariantHolds`, that
  `IInv` is inductive, and its consequences `LiveNeverReclaimed`, `NeverCondemned` and
  `GrayAlwaysQueued`; `HeapRefines`, that the heap implements `ManagedHeap`, and
  `CycleReclaims`, that a cycle leaves nothing of the garbage it found.
* `CompletionProofs`: `InvariantHolds`, and from it `FirstWins`, `SlotsNeverLost`,
  `ResultExcludesHook` and `WakeNeverLost`; `NeverHalfInitialized` and `CyclesNeverReady`
  of the lazy statics, for any statics, attempts and nested sessions.
* `SessionsProofs`: `IdsNeverAlias` of the session store, for any slots and
  generations; `TypeCorrect`, `WaitsAcyclic`, `RefusalsJustified` and `WaitersKept` of the
  dependency registry, for any sets of sessions and tasks and any limits.
* `SchedulingProofs`: `ReceiverWoken` and `FinishedResultKept`, for any wakers and any
  number of panics; `AnswersKept` and `RegisteredWakerTold`, for any providers and
  host threads; `ReadinessAnnounced` and `PanicsReported` of the wake hub.
* `StructuredGroupsProofs`: `GroupsConsistent`, that `GroupInv` is inductive, and from it
  `BranchesNeverOrphaned`, `TeardownLeafFirst` and `ReadyParentsWoken`, for any number of
  executions and groups, any depth of nesting and any number of panics.
* `TaskScopesProofs`: `ClosesReachAll`, `NoTaskSleeps` and `NoticesNeverLost`, for any
  tasks and signalling threads.
* `ProgramVersionsProofs`: `VersionsKept` and `AbandonmentNeverForgotten`, and the
  action property `UpdatesNeverLost`, for any versions, installations and leases;
  `TokenTypes` and `CancellationNeverLost` of the cancellation token.

The heap's `IInv` has one definition per idea. `ColourInv` is the strong tri-colour
invariant: a black object, and the part of the active one behind the scan
position (unless a restart is pending), refer to nothing white. `RootInv` says the
same of root slots, except those the root cursors have yet to reach. `GrayInv` and
`QueueInv` say that a gray object is the active one or its page is queued, once.
When no page is queued there is no gray object, so at `MarkDone` the black objects
are closed under references and contain all that the mutator can name: that is
`SweepInv`. It stays true in Sweep because publication is refused to what is not
black and new objects are black. `FaultInv` keeps the existence of such a set when
the heap faults. Reachability is the least closed set, so it lies within it
(`LiveWithin`).

Why the strengthening is needed: `LiveIsOccupied` alone says nothing of colours,
and a state in which a black object refers to a white one satisfies it and is two
steps from breaking it.

The refinement maps a running heap to "usable", a shut or faulted one to what the
mutator sees of it, and the root slots of all packs to one function (`Status`,
`RootMap`). `StepSeen` shows that a step of `Next` from a state with `IInv` is a step of
`ManagedHeap` or changes nothing the mutator sees. Only sweeping needs the invariant's
depth: what it frees is white, and by `SweepInv` then unreachable.

`GarbageInv` is why a cycle reclaims all it found dead. What was garbage when the cycle
began is not held, not in a root, and not referred to by anything else (`Forgotten`);
the mutator reads only what it can name, so this lasts. The cycle discovers only roots
and targets of what it has discovered, so it does not discover them either
(`Undiscovered`), and the sweep finds them white.

The completion transport's `IInv` adds to the four properties what makes them
inductive: where an accepted result is (`ResultInv`: in the status, or in the hands
of the `poll` that claimed it), that a claim has detached the hook before any
destructor runs (`HookInv`), that a new operation has no lease and a slot that was
never pushed is inactive (`SlotInv`), and that a wake is on its way already when
the execution has polled but not parked (`WakeInv`; `NoLostWake` speaks only of
parked executions, and the race is lost before they park).

The wait graph's `Acyclic` says that every nonempty set of nodes has one without a
successor in it, so that no path need be named. What makes it inductive is what a
search has established when it ends: its target lies in a set that is closed under
successors and does not contain the waiter (`Separated`), namely the nodes visited.
`SearchInv` says this of a search in progress, with the pending nodes as its
frontier. `AcyclicExtend` shows that an arc to a separated node closes no cycle.
`ReachInv` is the converse, for `RefusalExact`: all that was visited or is pending lies
in every closed set that contains the target. `LeaseInv` makes serials unique, so that
a lease removes its own edge only.

The result cell's `IInv` says of a receiver whose last poll returned Pending with a
waker w that w is covered (`Covered`): it is in the cell, in the hands of `publish`, or
woken, and that the result stays in the cell until it is taken. `NoLostResult` alone
speaks of a receiver at rest, and the race is lost while it is inside `poll`.

The cancellation token's invariant says where each live registration is: in the
list, in the hands of the canceller that took the list, woken, or still before its
own look at the flag.

The properties of an owned execution speak of the time between slices, and
`AboutToTell` in them is too weak to last: a thread on its way to tell may hold a
waker that has been replaced meanwhile, and one that only looks back sets no flag.
`OwnerInv` says who will tell the waker registered *now* (`Telling`), and says of every
place between the slice's last look and its parking that an answer or a
cancellation it did not find has set the flag or is about to.

`HubInv` does the same for the hub. What a quiet state promises is owed in the other
states by a thread that has yet to clone the route, by one that holds the route in
place now, or by the host, which looks back after every change of the route and at
the end of its turn (`Told`). It has a second half for faults, because a fault ends
the turns, and nothing but the fault's own notification is left to tell the host, or
the turn that was under way (`InTurn`) if it cleared the dirty bit after the fault.

`StoreInv` explains why an id never aliases: no id is ahead of its slot's generation,
one abreast of it finds its own record or none, and all ids of a free slot are
behind. The last part needs that the free list holds a slot once.

`TaskInv` has one conjunct per debt: who marks a woken task ready (`WakeKept`), who tells
the dispatcher of a ready one (`NoticeKept`), and who cancels the members of a scope
that closes (`CloseKept`). Each is stated for every state of the signalling threads,
not only when they are at rest; `NoSleeper` and `NoLostNotice` name the debtor more
loosely, and a callback of an old dispatcher generation would satisfy them without
telling the one in place. `RtPlaces` and `CallsSound` say where the runtime thread and
the calls can be while a task is `Admitting`, `Driving` or drained: the task that is
being admitted is the one that a close may miss, and the recheck of `spawn` pays.

`GroupInv` accounts for every branch and every result at every step of an admission or
a teardown. `Homes` says who holds a branch that is alive: its parent's group, the
selection, the record under admission or disposal, the retirement that works on it, or
nobody because it is abandoned. `Debts` says the same of a result that is ready. `Owners`
and `Turns` say whose the records are and that a slice, a selection and a teardown exclude
one another as they should. Two facts about ancestors carry the leaf-first order
without an induction over parents, because `Climbs` names a whole path: a parent is older
than its branches, and a path of n steps leads n levels up (`Ancestry`). So the deepest
group below a target, by distance, has nothing below its own branches: a group there
would be farther away and would have been chosen. The distance of a group to its
target is also within the loop's bound `max_group_depth`, so no group is overlooked.

`VersionsInv` states of all records, staged ones included, that those their recipes
need are there (`RecordsClosed`). While a collection marks, what is needed is marked or
still to be looked at, what was traced leads to marked versions, and a marked
candidate whose lease is dropped has set the request again (`MarkSound`). The last
part is why `collection_graph` clears the request before it looks at the roots.

`StaticInv` ties a cell that says `Initializing` to the attempt it names: no other cell
names it, and while it is undecided a frame runs it (`CellAttempt`), which has it to
itself among the frames of all sessions (`OwnAttempt`). A cycle fails the attempt at once and leaves the frame in place, so the
later commit of that frame is refused (`TouchedFailed`). `ActiveCounts` says that the
session's counter is the number of its initializer frames.

**Assumptions**: the heap's on its shapes; that tasks, sessions and `None` are told
apart and that limits are natural numbers (`NodeAssumption`, `LimitAssumption`); that
`None` is neither a waker nor an outcome (`NoneAssumption`); that providers are
neither the host's nor the runtime's thread (`ThreadsAssumption`); that the runtime
thread, the other threads, the tasks and `None` of a scope are told apart
(`NamesAssumption`); that an attempt's number is not `NoAttempt` nor an outcome
(`AttemptsAssumption`); that there is a version and an installation (`BoundsAssumption`);
that `max_group_depth` is positive, as its type in the code is, and that `None` is not a
session, a record or a selection (`GroupsAssumption`).

**Only proved**: the type invariants, and the inductive invariants apart from the
heap's, `NoLateWait` and `ResultKept`. No run checks them as properties. The heap's
`IInv`, which contains its type invariant, is checked by `heap_progress` as well.

**Only model-checked**, and why:

* all liveness, which is out of the prover's reach;
* `LookupExact` of `MetadataTable`: the radix tree is recursive, and what a recursive
  definition computes for every depth needs an induction over data;
* `NoAliasing` of `HostBorrows`, whose paths and records are folded over sequences, for
  the same reason.

## 6. Finding

`program_release_race` shows a disagreement between code and comment. The
collection of versions says that "Releases racing with this collection leave their
own request set, including programs already reached by marking"
(`kagari-runtime/src/module/collection.rs:36`). Root discovery counts a staged candidate
whose lease is held. If that lease is dropped on another thread before the candidate
is traced, the trace of its unsettled static looks the candidate up again and gets
`None`, and the failed collection quarantines the runtime. The counterexample has
these steps; `program_versions` keeps this behaviour, since it is what the code does.

## 7. What is not modelled

* **Interaction across components.** `TaskScopes` and `StructuredGroups` mark an
  execution ready by a flag, `ScheduledResult` tells the hub by a flag: what follows in
  the other component is in its own module. No run composes them.
* **Liveness** of task scopes (that a closing scope is acknowledged), of groups (that
  a cancelled execution with groups is retired) and of the hub (that no ready entry
  of the queue starves) is not checked.
* **Heap**: byte charges and limits, except as failures; descriptors and dynamic
  layouts; page lists and bitmap words; generations and credits of the root table.
* **Tasks**: several scopes in one store, capabilities as values, traces. The order of
  causes and the buffer of failure events are modelled, without a property.
* **Modules**: linking, validation of code, heap objects as edges between versions.
* **Borrows**: tokens, which only look a record up, and the search of a value for an
  escaping borrow.
* **Runtime heap**: a stop-the-world collection on the runtime's thread, apart from its
  failure path in `ProgramVersions`.
* **Host scopes**: sequential access inside one call.
* **Compiler, bytecode, VM, packages, standard library and tools**: sequential programs
  over large data with no protocol between actors. A bounded model of a parser, a
  type checker or an interpreter would be a transliteration of it.
