-------------------------- MODULE StructuredGroups --------------------------
(***************************************************************************)
(* Structured pairs (session/group.rs, group/*.rs): an execution that      *)
(* awaits a composition owns a group of two branch executions, which may   *)
(* own groups of their own.  The runtime thread admits a group, drives its *)
(* branches, and tears groups down when they finish, when their parent     *)
(* retires or when a drain retires everything.  Cancellations, dropped     *)
(* owners and wakes arrive from other threads between any two steps.       *)
(* Teardown runs branch by branch, and each piece of it may fail.          *)
(***************************************************************************)
EXTENDS Naturals, FiniteSets, FiniteSetsExt

CONSTANTS MaxSessions,  \* executions ever started, at most
          MaxRoots,     \* root executions, started before any group
          MaxDepth,     \* max_group_depth
          MaxGroups,    \* max_groups
          MaxFaults,    \* host callbacks that panic, at most
          None

Sessions == 1..MaxSessions

(***************************************************************************)
(* The record of a group, the selected branch, and the runtime thread's    *)
(* job.                                                                    *)
(***************************************************************************)
Branches == [0..1 -> Sessions \cup {None}]
Outcomes == {"ok", "err", "fault", None}
Records == [st : {"Admitting", "Running", "Ready"}, branch : Branches,
            out : SUBSET (0..1), next : 0..1, res : Outcomes]
Activations == [of : Sessions, index : 0..1, exec : Sessions,
                did : {"none", "yield", "done", "error"}]
Disposals == [of : Sessions, rec : Records]
Jobs == [kind : {"none", "admit", "finish", "retire", "drain", "fail"},
         on : Sessions \cup {None}, rec : Records \cup {None}, res : Outcomes,
         then : {"none", "drain", "fail"}, sub : Disposals \cup {None},
         ids : SUBSET Sessions, all : BOOLEAN]

ASSUME GroupsAssumption ==
  /\ MaxSessions \in Nat /\ MaxDepth \in Nat \ {0}
  /\ None \notin Nat /\ None \notin Records \cup Activations \cup Disposals

VARIABLES live, used,     \* the session store: records, and how many were made
          gparent, depth, \* SessionState.group_parent and .group_depth
          cancelled, abandoned, ready,  \* flags of each ExecutionOwner
          terminated,     \* executions with a recorded termination
          group,          \* GroupStore.records
          queued,         \* the scheduler's WorkKey::Group entries
          attached,       \* groups in the wait dependencies
          act,            \* the BranchActivation that is out
          run,            \* the active session
          job,            \* the admission, teardown or drain under way
          quarantined, faults

sessions == <<live, used, gparent, depth>>
signals == <<cancelled, abandoned, ready, terminated>>
groups == <<group, queued, attached>>
health == <<quarantined, faults>>
vars == <<sessions, signals, groups, act, run, job, health>>

NoBranches == [i \in 0..1 |-> None]
NewGroup == [st |-> "Admitting", branch |-> NoBranches, out |-> {}, next |-> 0, res |-> None]
NoJob == [kind |-> "none", on |-> None, rec |-> None, res |-> None, then |-> "none",
          sub |-> None, ids |-> {}, all |-> FALSE]

Init ==
  /\ live = {} /\ used = 0
  /\ gparent = [s \in Sessions |-> None] /\ depth = [s \in Sessions |-> 0]
  /\ cancelled = {} /\ abandoned = {} /\ ready = {} /\ terminated = {}
  /\ group = [s \in Sessions |-> None] /\ queued = {} /\ attached = {}
  /\ act = None /\ run = None /\ job = NoJob
  /\ quarantined = FALSE /\ faults = 0

\* Host code and destructors under containment: a panic quarantines.
Returns == UNCHANGED health
Panics == faults < MaxFaults /\ faults' = faults + 1 /\ quarantined' = TRUE

\* t is n levels above s, by way of the sessions in S.
Climbs(s, n, t, S) ==
  \E path \in [0..n -> Sessions] :
    /\ path[0] = s /\ path[n] = t
    /\ \A k \in 1..n : path[k-1] \in S /\ path[k] = gparent[path[k-1]]

\* close_owned_groups looks a session's parent up in the store.
Distances(s, t) == {n \in 0..MaxDepth : Climbs(s, n, t, live)}

\* The state of p's group, if it has one.
Status(p) == IF group[p] = None THEN "none" ELSE group[p].st

\* poll_group_parent
Allowed(p) == ~quarantined /\ p \in live /\ p \notin cancelled \cup abandoned \cup terminated

\* require_idle_driver, with no other call of the runtime's thread under way
Idle == run = None /\ job = NoJob

-----------------------------------------------------------------------------
(***************************************************************************)
(* Executions, and what other threads do to them.                          *)
(***************************************************************************)
NewSession(parent) ==
  LET s == used + 1 IN
  /\ used < MaxSessions
  /\ used' = s /\ live' = live \cup {s}
  /\ gparent' = [gparent EXCEPT ![s] = parent]
  /\ depth' = [depth EXCEPT ![s] = IF parent = None THEN 0 ELSE depth[parent] + 1]
  /\ ready' = ready \cup {s}
  /\ cancelled' = IF parent \in cancelled THEN cancelled \cup {s} ELSE cancelled
  /\ UNCHANGED <<abandoned, terminated>>

StartRoot ==
  /\ Idle /\ act = None /\ ~quarantined
  /\ used < MaxRoots
  /\ NewSession(None)
  /\ UNCHANGED <<groups, act, run, job, health>>

\* A branch's token follows its parent's, inside the call of cancel; a cancelled
\* execution is ready.
CancelAll(s) ==
  LET hit == {t \in live : \E n \in 0..MaxDepth : Climbs(t, n, s, Sessions)} IN
  /\ cancelled' = cancelled \cup hit /\ ready' = ready \cup hit
  /\ UNCHANGED terminated

\* Only root executions have handles outside the runtime.
CancelSession(s) ==
  /\ s \in live \ cancelled /\ gparent[s] = None
  /\ CancelAll(s)
  /\ UNCHANGED <<sessions, abandoned, groups, act, run, job, health>>

\* The owner of a root execution is dropped.
Abandon(s) ==
  /\ s \in live \ abandoned /\ gparent[s] = None /\ run # s
  /\ abandoned' = abandoned \cup {s} /\ ready' = ready \cup {s}
  /\ UNCHANGED <<sessions, cancelled, terminated, groups, act, run, job, health>>

\* What an execution waits for is there, or its budget was all it lacked.
Wake(s) ==
  /\ s \in live \ ready
  /\ ready' = ready \cup {s}
  /\ UNCHANGED <<sessions, cancelled, abandoned, terminated, groups, act, run, job, health>>

\* A slice of a root execution.
Resume(s) ==
  /\ Idle /\ act = None /\ ~quarantined
  /\ s \in live \cap ready /\ gparent[s] = None /\ s \notin abandoned
  /\ run' = s /\ ready' = ready \ {s}
  /\ UNCHANGED <<sessions, cancelled, abandoned, terminated, groups, act, job, health>>

\* A slice of the selected branch.
ResumeBranch ==
  /\ Idle /\ act # None /\ act.did = "none" /\ act.exec \in live /\ ~quarantined
  /\ run' = act.exec /\ ready' = ready \ {act.exec}
  /\ UNCHANGED <<sessions, cancelled, abandoned, terminated, groups, act, job, health>>

\* The session's record is removed and its owner dropped; nothing reads the
\* flags of a dead execution.
Remove(s) ==
  /\ live' = live \ {s}
  /\ cancelled' = cancelled \ {s} /\ abandoned' = abandoned \ {s}
  /\ ready' = ready \ {s} /\ terminated' = terminated \ {s}
  /\ UNCHANGED <<used, gparent, depth>>

\* request_group: the running execution awaits a composition.
RequestGroup ==
  /\ run # None /\ Allowed(run)
  /\ depth[run] < MaxDepth
  /\ group[run] = None /\ Cardinality({s \in Sessions : group[s] # None}) < MaxGroups
  /\ group' = [group EXCEPT ![run] = NewGroup]
  /\ queued' = queued \cup {run}
  /\ UNCHANGED <<sessions, signals, attached, act, run, job, health>>

\* poll_group: the running execution takes its result.
PollGroup ==
  /\ run # None /\ Allowed(run)
  /\ Status(run) = "Ready"
  /\ group' = [group EXCEPT ![run] = None]
  /\ (Returns \/ Panics)
  /\ UNCHANGED <<sessions, signals, queued, attached, act, run, job>>

\* The slice ends: yield or wait, complete, or fail.  A slice begins by polling
\* the group, so it only yields on a pending one, and completes without one.
EndSlice(did) ==
  /\ run # None
  /\ did = "yield" => Status(run) # "Ready"
  /\ did = "done" => group[run] = None
  /\ run' = None
  /\ act' = IF act # None THEN [act EXCEPT !.did = did] ELSE None
  /\ job' = IF act = None /\ gparent[run] = None /\ did # "yield"
            THEN [NoJob EXCEPT !.kind = "retire", !.on = run] ELSE job
  /\ UNCHANGED <<sessions, signals, groups, health>>

-----------------------------------------------------------------------------
(***************************************************************************)
(* Teardown.                                                               *)
(***************************************************************************)
\* close_owned_groups: the groups that t and its descendants own, and the deepest
\* of them.
Below(t) == {q \in Sessions : group[q] # None /\ Distances(q, t) # {}}

\* Mutant of Deepest: any group below will do.
DeepestMutant(t) == Below(t)

Deepest(t) == {q \in Below(t) : \A r \in Below(t) : Min(Distances(r, t)) <= Min(Distances(q, t))}

Closing == job.kind \in {"finish", "retire"} /\ job.sub = None

\* dispose_group begins: the group leaves the dependencies, the scheduler and
\* the store.
CloseNext ==
  /\ Closing
  /\ \E q \in Deepest(job.on) :
       /\ job' = [job EXCEPT !.sub = [of |-> q, rec |-> group[q]]]
       /\ group' = [group EXCEPT ![q] = None]
       /\ queued' = queued \ {q} /\ attached' = attached \ {q}
  /\ UNCHANGED <<sessions, signals, act, run, health>>

\* dispose_group of the finishing group itself, once nothing is below it.
DisposeOwn ==
  /\ Closing /\ job.kind = "finish" /\ job.rec # None /\ Below(job.on) = {}
  /\ job' = [job EXCEPT !.sub = [of |-> job.on, rec |-> job.rec], !.rec = None]
  /\ attached' = attached \ {job.on}
  /\ UNCHANGED <<sessions, signals, group, queued, act, run, health>>

\* Mutant of DisposeBranch: a branch that fails to retire ends the loop.
DisposeBranchMutant(i) ==
  /\ job.sub # None /\ job.sub.rec.st = "Running" /\ job.sub.rec.branch[i] # None
  /\ Remove(job.sub.rec.branch[i])
  /\ \/ Returns /\ job' = [job EXCEPT !.sub.rec.branch[i] = None]
     \/ Panics /\ job' = [job EXCEPT !.sub.rec.branch = NoBranches, !.res = "fault"]
  /\ UNCHANGED <<groups, act, run>>

\* dispose_group: retire the next branch, if it is there still.  A failure is
\* remembered, and the rest is disposed of all the same.
DisposeBranch(i) ==
  /\ job.sub # None /\ job.sub.rec.st = "Running" /\ job.sub.rec.branch[i] # None
  /\ Remove(job.sub.rec.branch[i])
  /\ \/ Returns /\ job' = [job EXCEPT !.sub.rec.branch[i] = None]
     \/ Panics /\ job' = [job EXCEPT !.sub.rec.branch[i] = None, !.res = "fault"]
  /\ UNCHANGED <<groups, act, run>>

\* dispose_group: drop the record.
DisposeEnd ==
  /\ job.sub # None /\ job.sub.rec.branch = NoBranches
  /\ \/ Returns /\ job' = [job EXCEPT !.sub = None]
     \/ Panics /\ job' = [job EXCEPT !.sub = None, !.res = "fault"]
  /\ UNCHANGED <<sessions, signals, groups, act, run>>

\* finish_group_record begins: the parent's termination overrides the outcome.
Finish(p, rec, res) ==
  /\ quarantined' = (quarantined \/ res = "fault")
  /\ job' = [NoJob EXCEPT !.kind = "finish", !.on = p, !.rec = rec,
                          !.res = IF res # "fault" /\ ~Allowed(p) THEN "err" ELSE res]

\* Mutant of FinishInsert: the parent is not woken.
FinishInsertMutant ==
  /\ Closing /\ job.kind = "finish" /\ job.rec = None /\ Below(job.on) = {}
  /\ group' = [group EXCEPT ![job.on] = [NewGroup EXCEPT !.st = "Ready", !.res = job.res]]
  /\ queued' = queued \ {job.on}
  /\ job' = NoJob
  /\ UNCHANGED <<sessions, signals, attached, act, run, health>>

\* finish_group_record ends: the result is stored, a cancelled or exhausted
\* branch terminates the parent too, and the parent is woken.  A wake that panics
\* takes the place of the result.
FinishInsert ==
  /\ Closing /\ job.kind = "finish" /\ job.rec = None /\ Below(job.on) = {}
  /\ LET res == IF job.res = "ok" /\ ~Allowed(job.on) THEN "err" ELSE job.res IN
     \/ /\ Returns
        /\ group' = [group EXCEPT ![job.on] = [NewGroup EXCEPT !.st = "Ready", !.res = res]]
        /\ terminated' \in IF res = "err" THEN {terminated, terminated \cup {job.on}} ELSE {terminated}
     \/ /\ Panics /\ UNCHANGED terminated
        /\ group' = [group EXCEPT ![job.on] = [NewGroup EXCEPT !.st = "Ready", !.res = "fault"]]
  /\ queued' = queued \ {job.on}
  /\ ready' = IF job.on \in live THEN ready \cup {job.on} ELSE ready
  /\ job' = NoJob
  /\ UNCHANGED <<sessions, cancelled, abandoned, attached, act, run>>

\* retire_execution: with no group left below it, the session is removed, and
\* its frames, its wait and its owner are dropped.
RetireEnd ==
  /\ Closing /\ job.kind = "retire" /\ Below(job.on) = {}
  /\ Remove(job.on)
  /\ (Returns \/ Panics)
  /\ job' = CASE job.then = "drain" -> [job EXCEPT !.kind = "drain", !.on = None]
              [] job.then = "fail" -> [job EXCEPT !.kind = "fail", !.on = None]
              [] OTHER -> NoJob
  /\ UNCHANGED <<groups, act, run>>

\* drain_owned_executions: what is abandoned, or everything in quarantine.
DrainList(all) == {s \in live : all \/ s \in abandoned}

DrainBegin ==
  /\ Idle /\ DrainList(quarantined) # {}
  /\ job' = [NoJob EXCEPT !.kind = "drain", !.ids = DrainList(quarantined), !.all = quarantined]
  /\ UNCHANGED <<sessions, signals, groups, act, run, health>>

\* The next on the list, unless its parent's teardown has retired it already.
DrainNext(s) ==
  /\ job.kind = "drain" /\ s \in job.ids
  /\ job' = IF s \in live
            THEN [job EXCEPT !.kind = "retire", !.on = s, !.then = "drain", !.ids = @ \ {s}]
            ELSE [job EXCEPT !.ids = @ \ {s}]
  /\ UNCHANGED <<sessions, signals, groups, act, run, health>>

\* A fault found on the way condemns the sessions that were not on the list.
DrainEnd ==
  /\ job.kind = "drain" /\ job.ids = {}
  /\ job' = IF quarantined /\ ~job.all
            THEN [NoJob EXCEPT !.kind = "drain", !.ids = DrainList(TRUE), !.all = TRUE]
            ELSE NoJob
  /\ UNCHANGED <<sessions, signals, groups, act, run, health>>

\* The scheduler retires a cancelled root execution.
RetireCancelled(s) ==
  /\ Idle /\ act = None
  /\ s \in live \cap cancelled /\ gparent[s] = None
  /\ job' = [NoJob EXCEPT !.kind = "retire", !.on = s]
  /\ UNCHANGED <<sessions, signals, groups, act, run, health>>

-----------------------------------------------------------------------------
(***************************************************************************)
(* The scheduler's turn: admission, selection, and what becomes of the     *)
(* selected branch.                                                        *)
(***************************************************************************)
\* The branch to look at first when branch i has had its turn.
After(i) == (i + 1) % 2

\* acquire_group: the group of a terminated parent is closed; an admitting one
\* is admitted; of a running one a ready branch is selected, in rotation.
AcquireGroup(p) ==
  /\ Idle /\ act = None /\ p \in queued
  /\ \/ /\ Status(p) \in {"none", "Ready"}
        /\ queued' = queued \ {p}
        /\ UNCHANGED <<group, act, job, quarantined>>
     \/ /\ Status(p) \in {"Admitting", "Running"} /\ ~Allowed(p)
        /\ group' = [group EXCEPT ![p] = None]
        /\ Finish(p, group[p], "err")
        /\ UNCHANGED <<queued, act>>
     \/ /\ Status(p) = "Admitting" /\ Allowed(p)
        /\ group' = [group EXCEPT ![p] = None]
        /\ job' = [NoJob EXCEPT !.kind = "admit", !.on = p, !.rec = group[p]]
        /\ UNCHANGED <<queued, act, quarantined>>
     \/ /\ Status(p) = "Running" /\ Allowed(p)
        /\ LET sel == {i \in 0..1 : group[p].branch[i] # None /\ group[p].branch[i] \in ready}
               i == IF group[p].next \in sel THEN group[p].next ELSE After(group[p].next)
           IN  /\ sel # {}
               /\ act' = [of |-> p, index |-> i, exec |-> group[p].branch[i], did |-> "none"]
               /\ group' = [group EXCEPT ![p].branch[i] = None, ![p].next = After(i)]
        /\ UNCHANGED <<queued, job, quarantined>>
  /\ UNCHANGED <<sessions, signals, attached, run, faults>>

\* admit_group gives up: what was reserved so far is torn down.
AdmitFails ==
  /\ job.kind = "admit"
  /\ Finish(job.on, [job.rec EXCEPT !.st = "Running"], "err")
  /\ UNCHANGED <<sessions, signals, groups, act, run, faults>>

\* admit_group: reserve the next branch; registering its waker may panic.
AdmitBranch ==
  LET i == IF job.rec.branch[0] = None THEN 0 ELSE 1 IN
  /\ job.kind = "admit" /\ job.rec.branch[1] = None /\ Allowed(job.on)
  /\ NewSession(job.on)
  /\ LET rec == [job.rec EXCEPT !.branch[i] = used'] IN
     \/ Returns /\ job' = [job EXCEPT !.rec = rec]
     \/ Panics /\ job' = [NoJob EXCEPT !.kind = "finish", !.on = job.on, !.res = "fault",
                                       !.rec = [rec EXCEPT !.st = "Running"]]
  /\ UNCHANGED <<groups, act, run>>

\* admit_group: enter the dependencies, look at the parent once more and take both
\* futures, either of which may fail; the rest cannot.
AdmitCommit ==
  /\ job.kind = "admit" /\ job.rec.branch[1] # None
  /\ attached' = attached \cup {job.on}
  /\ \/ /\ Allowed(job.on)
        /\ group' = [group EXCEPT ![job.on] = [job.rec EXCEPT !.st = "Running"]]
        /\ job' = NoJob /\ UNCHANGED quarantined
     \/ /\ UNCHANGED group
        /\ Finish(job.on, [job.rec EXCEPT !.st = "Running"], "err")
  /\ UNCHANGED <<sessions, signals, queued, act, run, faults>>

\* BranchActivation::park: the branch goes back into its group.
BranchPark ==
  /\ Idle /\ act # None /\ act.did \in {"none", "yield"}
  /\ group[act.of] # None
  /\ group' = [group EXCEPT ![act.of].branch[act.index] = act.exec]
  /\ act' = None
  /\ UNCHANGED <<sessions, signals, queued, attached, run, job, health>>

\* The backend retires a branch that is done, then calls complete().
RetireBranch ==
  /\ Idle /\ act # None /\ act.did = "done" /\ act.exec \in live
  /\ job' = [NoJob EXCEPT !.kind = "retire", !.on = act.exec]
  /\ UNCHANGED <<sessions, signals, groups, act, run, health>>

\* BranchActivation::complete and accept_branch: keep the output and ask the
\* policy, which may finish, go on, fail or panic.
BranchComplete ==
  /\ Idle /\ act # None /\ act.did = "done" /\ act.exec \notin live
  /\ act' = None
  /\ IF group[act.of] = None THEN UNCHANGED <<group, job, health>> ELSE
     LET p == act.of
         rec == [group[p] EXCEPT !.out = @ \cup {act.index}]
     IN  \/ /\ Allowed(p) /\ rec.out # 0..1
            /\ group' = [group EXCEPT ![p] = rec]
            /\ UNCHANGED <<job, health>>
         \/ /\ Allowed(p)
            /\ group' = [group EXCEPT ![p] = None]
            /\ Finish(p, rec, "ok") /\ UNCHANGED faults
         \/ /\ group' = [group EXCEPT ![p] = None]
            /\ Finish(p, group[p], "err") /\ UNCHANGED faults
         \/ /\ Allowed(p) /\ Panics
            /\ group' = [group EXCEPT ![p] = None]
            /\ job' = [NoJob EXCEPT !.kind = "finish", !.on = p, !.rec = rec, !.res = "fault"]
  /\ UNCHANGED <<sessions, signals, queued, attached, run>>

\* BranchActivation::fail: the branch is retired, then its group is closed.
BranchFail ==
  /\ Idle /\ act # None /\ act.did = "error"
  /\ job' = IF act.exec \in live
            THEN [NoJob EXCEPT !.kind = "retire", !.on = act.exec, !.then = "fail"]
            ELSE [NoJob EXCEPT !.kind = "fail"]
  /\ UNCHANGED <<sessions, signals, groups, act, run, health>>

\* BranchActivation::close, also of a selection that is dropped: the branch goes
\* back into its group, which is closed; without a group it is retired.
BranchClose ==
  /\ act # None /\ run = None
  /\ \/ job.kind = "fail"
     \/ job = NoJob
  /\ act' = None
  /\ IF group[act.of] # None
     THEN /\ group' = [group EXCEPT ![act.of] = None]
          /\ Finish(act.of, [group[act.of] EXCEPT !.branch[act.index] = act.exec], "err")
     ELSE /\ UNCHANGED <<group, quarantined>>
          /\ job' = IF act.exec \in live
                    THEN [NoJob EXCEPT !.kind = "retire", !.on = act.exec] ELSE NoJob
  /\ UNCHANGED <<sessions, signals, queued, attached, run, faults>>

\* BranchActivation::close while the branch's stack is still active: the group
\* keeps the branch, cancelled, until the driver is idle; without a group the
\* branch cannot be retired here, and its owner is dropped.
AbandonSelection ==
  /\ act # None /\ run = act.exec
  /\ act' = None
  /\ IF group[act.of] # None
     THEN /\ CancelAll(run)
          /\ group' = [group EXCEPT ![act.of].branch[act.index] = act.exec]
          /\ UNCHANGED abandoned
     ELSE /\ abandoned' = abandoned \cup {run} /\ ready' = ready \cup {run}
          /\ UNCHANGED <<cancelled, terminated, group>>
  /\ UNCHANGED <<sessions, queued, attached, run, job, health>>

-----------------------------------------------------------------------------
Teardown ==
  \/ CloseNext \/ DisposeOwn \/ (\E i \in 0..1 : DisposeBranch(i)) \/ DisposeEnd
  \/ FinishInsert \/ RetireEnd \/ (\E s \in Sessions : DrainNext(s)) \/ DrainEnd

Admission == AdmitFails \/ AdmitBranch \/ AdmitCommit

Selected == BranchPark \/ RetireBranch \/ BranchComplete \/ BranchFail \/ BranchClose

Next ==
  \/ StartRoot
  \/ \E s \in Sessions : \/ CancelSession(s) \/ Abandon(s) \/ Wake(s) \/ Resume(s)
                         \/ RetireCancelled(s) \/ AcquireGroup(s)
  \/ ResumeBranch \/ RequestGroup \/ PollGroup
  \/ \E did \in {"yield", "done", "error"} : EndSlice(did)
  \/ Teardown \/ Admission \/ Selected \/ AbandonSelection \/ DrainBegin

Spec == Init /\ [][Next]_vars

-----------------------------------------------------------------------------
(***************************************************************************)
(* Properties.                                                             *)
(***************************************************************************)
\* A branch never outlives its group: between two calls, a branch execution that
\* is alive sits in the running group of a living parent, is the one that the
\* backend has selected, or is abandoned and will be drained, whatever failed,
\* panicked or was cancelled before.
NoOrphan ==
  job = NoJob => \A b \in live : gparent[b] # None =>
    \/ act # None /\ act.exec = b
    \/ b \in abandoned
    \/ /\ gparent[b] \in live /\ Status(gparent[b]) = "Running"
       /\ \E i \in 0..1 : group[gparent[b]].branch[i] = b

\* Descendants retire leaf-first: no branch that is about to be retired owns a
\* group, nor does anything below it, so that retiring it does not tear down
\* groups recursively.  dispose_group retires the branches that still exist.
LeafFirst ==
  job.sub # None => \A i \in 0..1 :
    job.sub.rec.branch[i] \in live => Below(job.sub.rec.branch[i]) = {}

\* A parent whose group is ready is ready to be resumed, or is at it, so the
\* result is never left lying with nobody to take it.
ParentWoken ==
  job = NoJob => \A p \in live : Status(p) = "Ready" =>
    p \in ready \/ run = p \/ (act # None /\ act.exec = p)

-----------------------------------------------------------------------------
(***************************************************************************)
(* The inductive invariant.                                                *)
(***************************************************************************)
\* The types, as far as the rest of the invariant needs them.
GroupTypes ==
  /\ used \in 0..MaxSessions /\ live \subseteq 1..used
  /\ gparent \in [Sessions -> Sessions \cup {None}]
  /\ depth \in [Sessions -> 0..MaxDepth]
  /\ group \in [Sessions -> Records \cup {None}]
  /\ act \in Activations \cup {None}
  /\ run \in live \cup {None}
  /\ job \in Jobs
  /\ job.kind = "none" => job = NoJob

\* A parent is older than its branches, and one level above them.
Ancestry ==
  /\ \A s \in Sessions : gparent[s] # None => gparent[s] < s /\ s <= used
  /\ \A s, t \in Sessions : \A n \in 0..MaxDepth :
       Climbs(s, n, t, Sessions) => depth[s] = n + depth[t]

\* What the record of p's group says is about branches of p.
Sound(p, rec) ==
  /\ p \in Sessions
  /\ rec.st # "Running" => rec.branch = NoBranches
  /\ \A i \in 0..1 : rec.branch[i] # None => gparent[rec.branch[i]] = p

\* Groups, and the groups under admission or teardown, are those of executions
\* that are alive and may have one; teardown works at or below its target.
Owners ==
  /\ \A p \in Sessions : group[p] # None =>
       p \in live /\ depth[p] < MaxDepth /\ Sound(p, group[p])
  /\ job.kind \in {"admit", "finish"} =>
       job.on \in live /\ depth[job.on] < MaxDepth /\ act = None
  /\ job.kind = "admit" =>
       /\ job.rec # None /\ group[job.on] = None
       /\ Sound(job.on, [job.rec EXCEPT !.st = "Running"])
  /\ job.rec # None => job.kind \in {"admit", "finish"}
  /\ job.kind = "finish" /\ job.rec # None => Sound(job.on, job.rec)
  /\ job.kind = "retire" => job.on # None
  /\ job.sub # None =>
       /\ job.kind \in {"finish", "retire"}
       /\ Sound(job.sub.of, job.sub.rec) /\ depth[job.on] <= depth[job.sub.of]

\* One thing at a time: a slice, a teardown, an activation.
Turns ==
  /\ job # NoJob => run = None
  /\ act # None =>
       /\ gparent[act.exec] = act.of
       /\ run \in {None, act.exec}
       /\ group[act.of] # None =>
            group[act.of].st = "Running" /\ group[act.of].branch[act.index] = None
  /\ run # None /\ act = None /\ gparent[run] # None => run \in ready

\* Every branch that is alive is somewhere.
Holds(rec, b) == rec # None /\ \E i \in 0..1 : rec.branch[i] = b

Homes ==
  \A b \in live : gparent[b] # None =>
    \/ act # None /\ act.exec = b
    \/ b \in abandoned
    \/ Holds(group[gparent[b]], b)
    \/ job.on = gparent[b] /\ Holds(job.rec, b)
    \/ job.sub # None /\ job.sub.of = gparent[b] /\ Holds(job.sub.rec, b)
    \/ job.kind = "retire" /\ job.on = b

\* Who takes the result of a group that is ready, or makes an end of it.
Debts ==
  \A p \in live : Status(p) = "Ready" =>
    \/ p \in ready \/ run = p
    \/ act # None /\ act.exec = p /\ act.did = "error"
    \/ job.kind = "retire" /\ job.on = p
    \/ job.kind = "finish" /\ Holds(job.rec, p)

\* Structured groups are consistent: every branch and every result is accounted
\* for, also while admit_group, finish_group_record or retire_execution is
\* half-way through.
GroupInv ==
  /\ GroupTypes /\ Ancestry /\ Owners /\ Turns /\ Homes /\ Debts /\ LeafFirst

=============================================================================
