---------------------------- MODULE ProgramVersions ----------------------------
(***************************************************************************)
(* Staging, publishing, retaining and collecting program versions.        *)
(*                                                                         *)
(* A candidate is staged against the version its installation runs now.   *)
(* The store keeps a weak reference to the candidate's lease: a version   *)
(* with a staged entry is available only while the lease is held.  The    *)
(* candidate may be dropped on any thread; its last release first makes   *)
(* the weak reference dead and then sets `abandoned', which asks the      *)
(* runtime for a collection.  So may a retention lease, on any thread.    *)
(* Everything else is done by the thread that drives the runtime.         *)
(*                                                                         *)
(* A version is a number, handed out in staging order, and stands for its *)
(* ModuleKey.  A program has one member, and declares one static of its   *)
(* own or none; the static of version v is v.  Heap objects, constants    *)
(* and linked calls, which also lead from a version to versions, are left *)
(* out: the edge that stands for them is the recipe of a static that has  *)
(* not run.                                                                *)
(***************************************************************************)
EXTENDS Integers, Sequences, FiniteSets

CONSTANTS MaxVersions,       \* versions staged, over all installations
          MaxInstallations,
          MaxLeases          \* retention leases on one version

ASSUME BoundsAssumption ==
  /\ MaxVersions \in Nat \ {0}
  /\ MaxInstallations \in Nat \ {0}
  /\ MaxLeases \in Nat \ {0}

None == 0
Versions == 1 .. MaxVersions
Installations == 1 .. MaxInstallations

VARIABLES used,        \* versions staged so far
          installed,   \* installations reserved so far
          inst,        \* version -> its installation
          base,        \* version -> expected_base
          statics,     \* version -> the statics its record is bound to
          current,     \* installation -> the version it runs, None before and after
          records,     \* versions with a ModuleRecord
          staged,      \* versions with an entry in `staged'
          token,       \* version -> what became of its StagedProgram
          failed,      \* candidates with an initialization error
          retained,    \* version -> distinct retention registrations
          settled,     \* statics that are Ready or Failed: no recipe edge
          abandoned,   \* ModuleStore::abandoned
          stack,       \* versions with a synchronous session, innermost last
          publishing,  \* the installation a PublicationGuard is held for
          phase,       \* ExecutionState
          gc           \* the collection in progress

vars == <<used, installed, inst, base, statics, current, records, staged, token, failed,
          retained, settled, abandoned, stack, publishing, phase, gc>>
store == <<used, installed, inst, base, statics>>

Idle == [at |-> "idle", restore |-> FALSE, scan |-> {}, pending |-> {}, live |-> {}]

(***************************************************************************)
(* Availability.                                                           *)
(***************************************************************************)
\* candidate_available and ModuleStoreInner::available
Available(v) == v \in records /\ (v \in staged => token[v] = "held")

\* Weak::strong_count of a staged entry
IsStaged(v) == v \in staged /\ token[v] = "held"

\* The recipes a version's unsettled statics would run.
Recipes(v) == statics[v] \ settled

\* The versions with a session, and that of the innermost one.
Entered == {stack[n] : n \in DOMAIN stack}
Innermost == stack[Len(stack)]

\* The driving thread is between two operations and may execute.
Ready == phase = "ready" /\ gc.at = "idle"

\* check_publication_boundary
Boundary == Ready /\ stack = <<>>

\* validate_executable_module of a published version
Live(v) == Available(v) /\ current[inst[v]] # None

(***************************************************************************)
(* Staging.                                                                *)
(***************************************************************************)
\* stage_verified_program: the record, the lease, then the statics; `own' says
\* whether the program declares a static.  A failure past the lease is a
\* candidate that is dropped at once.
Stage(i, b, own) ==
  LET v == used + 1 IN
  /\ used < MaxVersions
  /\ used' = v
  /\ inst' = [inst EXCEPT ![v] = i]
  /\ base' = [base EXCEPT ![v] = b]
  /\ statics' = [statics EXCEPT ![v] = (IF b = None THEN {} ELSE statics[b])
                                         \cup (IF own THEN {v} ELSE {})]
  /\ records' = records \cup {v}
  /\ staged' = staged \cup {v}
  /\ token' = [token EXCEPT ![v] = "held"]

\* stage_load_verified_program: a fresh installation
StageLoad(own) ==
  /\ Boundary
  /\ publishing = None
  /\ installed < MaxInstallations
  /\ installed' = installed + 1
  /\ Stage(installed + 1, None, own)
  /\ UNCHANGED <<current, failed, retained, settled, abandoned, stack, publishing, phase, gc>>

\* prepare_reload and stage_prepared_reload, under a guard or not.  The collection
\* that an abandoned candidate asks for here is Collect, if collection is automatic.
StageReload(i, own) ==
  /\ Ready
  /\ current[i] # None
  /\ Available(current[i])
  /\ Stage(i, current[i], own)
  /\ UNCHANGED <<installed, current, failed, retained, settled, abandoned, stack, publishing,
                 phase, gc>>

(***************************************************************************)
(* Publication.                                                            *)
(***************************************************************************)
\* begin_publication
BeginPublication(i) ==
  /\ publishing = None
  /\ Boundary
  /\ current[i] # None
  /\ Available(current[i])
  /\ publishing' = i
  /\ UNCHANGED <<store, current, records, staged, token, failed, retained, settled, abandoned,
                 stack, phase, gc>>

\* Drop for PublicationGuard
DropGuard ==
  /\ publishing # None
  /\ gc.at = "idle"
  /\ publishing' = None
  /\ UNCHANGED <<store, current, records, staged, token, failed, retained, settled, abandoned,
                 stack, phase, gc>>

\* Mutant of Stale: only a closed installation refuses a candidate.
StaleMutant(v) == base[v] # None /\ current[inst[v]] = None

\* publish: the installation no longer runs the version the candidate was made for.
Stale(v) == current[inst[v]] # base[v]

\* StagedProgram::publish, once its checks have passed
Commit(v) ==
  /\ token' = [token EXCEPT ![v] = "published"]
  /\ staged' = staged \ {v}
  /\ current' = [current EXCEPT ![inst[v]] = v]

\* publish_staged_load; a candidate that is refused is dropped.
PublishLoad(v) ==
  /\ Boundary
  /\ publishing = None
  /\ IsStaged(v)
  /\ base[v] = None
  /\ IF Stale(v) \/ ~Available(v)
     THEN token' = [token EXCEPT ![v] = "releasing"] /\ UNCHANGED <<staged, current>>
     ELSE Commit(v)
  /\ UNCHANGED <<store, records, failed, retained, settled, abandoned, stack, publishing, phase,
                 gc>>

\* PublicationGuard::publish and publish_admitted_reload; either way the guard and
\* the candidate are consumed.
Publish(v) ==
  /\ Boundary
  /\ publishing # None
  /\ IsStaged(v)
  /\ base[v] # None
  /\ publishing' = None
  /\ IF \/ inst[v] # publishing
        \/ v \in failed
        \/ ~Live(base[v])
        \/ ~Live(v)
        \/ Stale(v)
     THEN token' = [token EXCEPT ![v] = "releasing"] /\ UNCHANGED <<staged, current>>
     ELSE Commit(v)
  /\ UNCHANGED <<store, records, failed, retained, settled, abandoned, stack, phase, gc>>

\* The candidate is dropped, on any thread: the last strong reference goes first.
\* A candidate session borrows its candidate.
DropCandidate(v) ==
  /\ token[v] = "held"
  /\ v \notin Entered
  /\ token' = [token EXCEPT ![v] = "releasing"]
  /\ UNCHANGED <<store, current, records, staged, failed, retained, settled, abandoned, stack,
                 publishing, phase, gc>>

\* Drop for CandidateLease
DropLease(v) ==
  /\ token[v] = "releasing"
  /\ token' = [token EXCEPT ![v] = "dropped"]
  /\ abandoned' = TRUE
  /\ UNCHANGED <<store, current, records, staged, failed, retained, settled, stack, publishing,
                 phase, gc>>

(***************************************************************************)
(* Execution and retention.                                                *)
(***************************************************************************)
\* begin_execution_inner of a root session
BeginExecution(v) ==
  /\ Ready
  /\ publishing = None
  /\ stack = <<>>
  /\ v \in records /\ ~IsStaged(v) /\ Live(v)
  /\ retained[v] < MaxLeases
  /\ retained' = [retained EXCEPT ![v] = @ + 1]
  /\ stack' = Append(stack, v)
  /\ UNCHANGED <<store, current, records, staged, token, failed, settled, abandoned, publishing,
                 phase, gc>>

\* begin_candidate_initialization hides an ordinary session, never a candidate's.
BeginCandidate(v) ==
  /\ Ready
  /\ publishing = None
  /\ IsStaged(v) /\ base[v] # None
  /\ v \notin failed
  /\ Live(v)
  /\ \A w \in Entered : ~IsStaged(w)
  /\ retained[v] < MaxLeases
  /\ retained' = [retained EXCEPT ![v] = @ + 1]
  /\ stack' = Append(stack, v)
  /\ UNCHANGED <<store, current, records, staged, token, failed, settled, abandoned, publishing,
                 phase, gc>>

\* The innermost session ends, with an error or not; a candidate keeps the error.
EndExecution(error) ==
  /\ gc.at = "idle"
  /\ stack # <<>>
  /\ retained' = [retained EXCEPT ![Innermost] = @ - 1]
  /\ stack' = SubSeq(stack, 1, Len(stack) - 1)
  /\ failed' = IF error /\ IsStaged(Innermost) THEN failed \cup {Innermost} ELSE failed
  /\ UNCHANGED <<store, current, records, staged, token, settled, abandoned, publishing, phase,
                 gc>>

\* A running session settles a static of its version; a candidate may not.
SettleStatic(s) ==
  /\ Ready
  /\ stack # <<>>
  /\ ~IsStaged(Innermost)
  /\ s \in Recipes(Innermost)
  /\ settled' = settled \cup {s}
  /\ UNCHANGED <<store, current, records, staged, token, failed, retained, abandoned, stack,
                 publishing, phase, gc>>

\* retain_module, for a host, a value or a parked execution
RetainModule(v) ==
  /\ Ready
  /\ Available(v)
  /\ retained[v] < MaxLeases
  /\ retained' = [retained EXCEPT ![v] = @ + 1]
  /\ UNCHANGED <<store, current, records, staged, token, failed, settled, abandoned, stack,
                 publishing, phase, gc>>

\* The last clone of a ProgramLease is dropped, on any thread.
ReleaseLease(v) ==
  /\ retained[v] > Cardinality({n \in 1 .. Len(stack) : stack[n] = v})
  /\ retained' = [retained EXCEPT ![v] = @ - 1]
  /\ UNCHANGED <<store, current, records, staged, token, failed, settled, abandoned, stack,
                 publishing, phase, gc>>

(***************************************************************************)
(* Collection.                                                             *)
(***************************************************************************)
\* collection_graph: the request is acknowledged before anything is traced.
Collect ==
  /\ Ready
  /\ publishing = None
  /\ gc' = [Idle EXCEPT !.at = "mark", !.restore = abandoned, !.scan = records]
  /\ abandoned' = FALSE
  /\ UNCHANGED <<store, current, records, staged, token, failed, retained, settled, stack,
                 publishing, phase>>

\* root_programs, for one version
Root(v) == v \in {current[i] : i \in Installations} \cup staged \/ retained[v] > 0

ScanRoot(v) ==
  /\ gc.at = "mark"
  /\ v \in gc.scan
  /\ LET root == Root(v) /\ Available(v) IN
     gc' = [gc EXCEPT !.scan = @ \ {v},
                      !.live = IF root THEN @ \cup {v} ELSE @,
                      !.pending = IF root THEN @ \cup {v} ELSE @]
  /\ UNCHANGED <<store, current, records, staged, token, failed, retained, settled, abandoned,
                 stack, publishing, phase>>

\* Mutant of Edges: a recipe keeps no version.
EdgesMutant(v) == {}

\* ProgramGraph::trace: the versions that v's unsettled statics came with
Edges(v) == Recipes(v)

\* One version is traced.  executable_edge resolves the far end of every edge.
Trace(v) ==
  /\ gc.at = "mark" /\ gc.scan = {}
  /\ v \in gc.pending
  /\ \A w \in Edges(v) : Available(w)
  /\ gc' = [gc EXCEPT !.pending = (@ \ {v}) \cup (Edges(v) \ gc.live),
                      !.live = @ \cup Edges(v)]
  /\ UNCHANGED <<store, current, records, staged, token, failed, retained, settled, abandoned,
                 stack, publishing, phase>>

\* The edge does not resolve: collect_inner gives up and collect quarantines.
TraceFails(v) ==
  /\ gc.at = "mark" /\ gc.scan = {}
  /\ v \in gc.pending
  /\ \E w \in Edges(v) : ~Available(w)
  /\ phase' = "quarantined"
  /\ abandoned' = (abandoned \/ gc.restore)
  /\ gc' = Idle
  /\ UNCHANGED <<store, current, records, staged, token, failed, retained, settled, stack,
                 publishing>>

\* Mutant of Detach: the request is acknowledged once the collection is through.
DetachMutant ==
  /\ gc.at = "mark" /\ gc.scan = {} /\ gc.pending = {}
  /\ records' = records \cap gc.live
  /\ staged' = staged \cap gc.live
  /\ gc' = Idle
  /\ abandoned' = FALSE
  /\ UNCHANGED <<store, current, token, failed, retained, settled, stack, publishing, phase>>

\* prepare_sweep and detach
Detach ==
  /\ gc.at = "mark" /\ gc.scan = {} /\ gc.pending = {}
  /\ records' = records \cap gc.live
  /\ staged' = staged \cap gc.live
  /\ gc' = Idle
  /\ UNCHANGED <<store, current, token, failed, retained, settled, abandoned, stack, publishing,
                 phase>>

\* Runtime::close retires every installation.
Close ==
  /\ Ready
  /\ publishing = None
  /\ stack = <<>>
  /\ current' = [i \in Installations |-> None]
  /\ phase' = "closed"
  /\ UNCHANGED <<store, records, staged, token, failed, retained, settled, abandoned, stack,
                 publishing, gc>>

Init ==
  /\ used = 0 /\ installed = 0
  /\ inst = [v \in Versions |-> None]
  /\ base = [v \in Versions |-> None]
  /\ statics = [v \in Versions |-> {}]
  /\ current = [i \in Installations |-> None]
  /\ records = {} /\ staged = {} /\ failed = {} /\ settled = {}
  /\ token = [v \in Versions |-> "none"]
  /\ retained = [v \in Versions |-> 0]
  /\ abandoned = FALSE
  /\ stack = <<>>
  /\ publishing = None
  /\ phase = "ready"
  /\ gc = Idle

Next ==
  \/ \E own \in BOOLEAN : StageLoad(own)
  \/ \E i \in Installations, own \in BOOLEAN : StageReload(i, own)
  \/ \E i \in Installations : BeginPublication(i)
  \/ DropGuard
  \/ \E v \in 1 .. used : PublishLoad(v)
  \/ \E v \in 1 .. used : Publish(v)
  \/ \E v \in 1 .. used : DropCandidate(v)
  \/ \E v \in 1 .. used : DropLease(v)
  \/ \E v \in 1 .. used : BeginExecution(v)
  \/ \E v \in 1 .. used : BeginCandidate(v)
  \/ \E v \in 1 .. used : SettleStatic(v)
  \/ \E v \in 1 .. used : RetainModule(v)
  \/ \E v \in 1 .. used : ReleaseLease(v)
  \/ \E v \in 1 .. used : ScanRoot(v)
  \/ \E v \in 1 .. used : Trace(v)
  \/ \E v \in 1 .. used : TraceFails(v)
  \/ \E error \in BOOLEAN : EndExecution(error)
  \/ Collect
  \/ Detach
  \/ Close

Spec == Init /\ [][Next]_vars

--------------------------------------------------------------------------------
(***************************************************************************)
(* Properties.                                                             *)
(***************************************************************************)
\* StagedProgram::publish: the version an installation runs is only ever replaced by
\* a candidate that was staged against it.  Of two candidates staged against one
\* version at most one is published, whatever happened between staging and
\* publishing.
NoLostUpdate ==
  [][\A i \in Installations :
        current'[i] \notin {current[i], None} => base'[current'[i]] = current[i]]_vars

\* Versions that somebody can still enter: the running ones, and published ones with
\* a retention lease.
Needed == ({current[i] : i \in Installations} \ {None})
            \cup {v \in Versions : retained[v] > 0 /\ token[v] = "published"}

\* detach: a version that can still be entered has its record, and so has every
\* version that its unsettled statics were introduced by: their initializers run the
\* code of that version, however many reloads ago it was.
VersionsWhole == \A v \in Needed : v \in records /\ Recipes(v) \subseteq records

\* collection_graph, CandidateLease: an abandoned candidate whose record is still
\* there has a collection asked for, or one in progress that will ask for it again
\* should it fail; a release that races with a collection is not lost.
AbandonmentAsked ==
  \A v \in staged : token[v] = "dropped" => abandoned \/ gc.restore

\* collection.rs: "Releases racing with this collection leave their own request set,
\* including programs already reached by marking": a release never makes a
\* collection fail.
RaceTolerated == phase # "quarantined"

--------------------------------------------------------------------------------
(***************************************************************************)
(* What the properties rest on.                                            *)
(***************************************************************************)
Tables ==
  /\ used \in 0 .. MaxVersions
  /\ DOMAIN inst = Versions /\ DOMAIN base = Versions /\ DOMAIN statics = Versions
  /\ current \in [Installations -> 0 .. used]
  /\ DOMAIN token = Versions /\ records \cup staged \subseteq Versions
  /\ retained \in [Versions -> Int]
  /\ gc \in [at : {"idle", "mark"}, restore : BOOLEAN, scan : SUBSET Versions,
             pending : SUBSET Versions, live : SUBSET Versions]
  /\ gc.at = "idle" => gc = Idle

\* The entry in `staged' goes when a candidate is published, and only a published
\* version runs.
PublishedOnce ==
  /\ \A v \in Versions : token[v] = "published" => v \notin staged
  /\ \A i \in Installations : current[i] # None => token[current[i]] = "published"

\* Every record has those its recipes need, staged ones included.
RecordsClosed == Needed \subseteq records /\ \A v \in records : Recipes(v) \subseteq records

\* While the collection marks, what is needed is marked or still to be looked at, and
\* what was traced leads to marked versions.  A marked candidate was available then.
MarkSound ==
  gc.at = "mark" =>
    /\ Needed \subseteq gc.scan \cup gc.live
    /\ \A v \in gc.live \ gc.pending : Edges(v) \subseteq gc.live
    /\ \A v \in gc.live \cap staged : token[v] = "dropped" => abandoned

VersionsInv ==
  /\ Tables /\ abandoned \in BOOLEAN
  /\ PublishedOnce /\ RecordsClosed /\ MarkSound /\ AbandonmentAsked
================================================================================
