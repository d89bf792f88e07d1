----------------------------- MODULE TaskScopes -----------------------------
(***************************************************************************)
(* A task scope (kagari-runtime/src/task): admission, activation, results, *)
(* cancellation, dispatch and teardown.  The runtime thread Rt owns the    *)
(* task table.  Wakes and the scope's cancellation token arrive on other   *)
(* threads, which touch only the atomics of ScopeControl and TaskSignal    *)
(* and the two mutexes.  A scope is managed when the runtime's scheduler   *)
(* drives it; the host drives the others, through a dispatcher.            *)
(***************************************************************************)
EXTENDS Naturals, FiniteSets

CONSTANTS Tasks,      \* task identities; a generation makes each unique
          Threads,    \* threads that wake and cancel
          Rt, None,
          MaxTasks,   \* capacity of the task table
          MaxEvents,  \* max_task_failure_events
          MaxFails,   \* notifications that fail, at most
          MaxGen,     \* dispatchers installed, at most
          MaxQuarantines  \* engine faults elsewhere in the runtime, at most

ASSUME NamesAssumption == None \notin Tasks

VARIABLES
  managed,                       \* ScopeControl.scheduler.is_some(), fixed at creation
  state, members,                \* the task table, and ScopeControl.members
  ready, finished, cause, token, \* TaskSignal, and its cancellation token
  oready,                        \* ExecutionOwner.ready of the task's execution
  closing, closed, dropped, released,  \* ScopeControl, and its removal
  failed, gen,                   \* the dispatcher's failure and generation
  told,                          \* tasks this generation has been notified of
  fails,                         \* failed notifications so far
  sig,                           \* each thread's place in a signalling call
  rpc, cur, res, born, back, batch, \* the runtime thread's place and locals
  result,                        \* the outcome a task was published with
  quarantined, events, suppressed, taken

signal == <<ready, finished, cause, token, oready>>
scope == <<closing, closed, dropped, released>>
dispatch == <<managed, failed, gen, told, fails>>
local == <<rpc, cur, res, born, back, batch>>
diagnostics == <<quarantined, events, suppressed, taken>>
vars == <<state, members, signal, scope, dispatch, sig, local, result, diagnostics>>

Procs == Threads \cup {Rt}
Live == {"Queued", "Driving", "Owned"}
Quiet == [pc |-> "none", task |-> None, todo |-> {}, why |-> None, gen |-> 0, last |-> FALSE]

Init ==
  /\ managed \in BOOLEAN
  /\ state = [t \in Tasks |-> "fresh"] /\ members = {}
  /\ ready = [t \in Tasks |-> FALSE] /\ finished = [t \in Tasks |-> FALSE]
  /\ cause = [t \in Tasks |-> None] /\ token = [t \in Tasks |-> FALSE]
  /\ oready = [t \in Tasks |-> FALSE]
  /\ closing = FALSE /\ closed = FALSE /\ dropped = FALSE /\ released = FALSE
  /\ failed = FALSE /\ gen = 1 /\ told = {} /\ fails = 0
  /\ sig = [p \in Procs |-> Quiet]
  /\ rpc = "idle" /\ cur = None /\ res = None /\ born = None /\ back = "idle"
  /\ batch = {}
  /\ result = [t \in Tasks |-> None]
  /\ quarantined = FALSE /\ events = 0 /\ suppressed = 0 /\ taken = 0

------------------------------------------------------------------------------
(* Signalling calls, one atomic access per step.  A failed notification    *)
(* cancels every member; the nested cancellations it causes are merged     *)
(* into the caller's own, since a second cancellation has no effect.       *)

Goto(p, pc) == sig' = [sig EXCEPT ![p].pc = pc]

\* Back in the loop over the members; what the last one needed is forgotten.
Loop(p) == sig' = [sig EXCEPT ![p].pc = "loop", ![p].task = None, ![p].gen = 0]

\* cancel: the next member, unless it has finished
NextMember(p) ==
  /\ sig[p].pc = "loop" /\ sig[p].todo # {}
  /\ \E t \in sig[p].todo :
       sig' = [sig EXCEPT ![p].todo = @ \ {t},
                          ![p].task = IF finished[t] THEN None ELSE t,
                          ![p].pc = IF finished[t] THEN "loop" ELSE "cause"]
  /\ UNCHANGED <<state, members, signal, scope, dispatch, local, result, diagnostics>>

\* cancel: the first cause wins
SetCause(p) ==
  /\ sig[p].pc = "cause"
  /\ cause' = [cause EXCEPT ![sig[p].task] = IF @ = None THEN sig[p].why ELSE @]
  /\ Goto(p, "token")
  /\ UNCHANGED <<state, members, ready, finished, token, oready, scope, dispatch,
                 local, result, diagnostics>>

\* cancel: the token, then the execution that subscribes to it
SetToken(p) ==
  /\ sig[p].pc = "token"
  /\ token' = [token EXCEPT ![sig[p].task] = TRUE]
  /\ Goto(p, "owner")
  /\ UNCHANGED <<state, members, ready, finished, cause, oready, scope, dispatch,
                 local, result, diagnostics>>

\* Mutant of CancelExecution: the task is not marked ready.
CancelExecutionMutant(p) ==
  /\ sig[p].pc = "owner"
  /\ oready' = [oready EXCEPT ![sig[p].task] = TRUE]
  /\ Loop(p)
  /\ UNCHANGED <<state, members, ready, finished, cause, token, scope, dispatch,
                 local, result, diagnostics>>

CancelExecution(p) ==
  /\ sig[p].pc = "owner"
  /\ oready' = [oready EXCEPT ![sig[p].task] = TRUE]
  /\ Goto(p, "mark")
  /\ UNCHANGED <<state, members, ready, finished, cause, token, scope, dispatch,
                 local, result, diagnostics>>

\* TaskSignal::mark_ready
MarkReady(p) ==
  LET t == sig[p].task IN
  /\ sig[p].pc = "mark"
  /\ IF finished[t] THEN UNCHANGED ready /\ Loop(p)
     ELSE /\ ready' = [ready EXCEPT ![t] = TRUE]
          /\ IF ready[t] THEN Loop(p) ELSE Goto(p, "notify")
  /\ UNCHANGED <<state, members, finished, cause, token, oready, scope, dispatch,
                 local, result, diagnostics>>

\* ScopeControl::notify: the failure flag, and the generation under the lock
LoadDispatcher(p) ==
  /\ sig[p].pc = "notify"
  /\ IF failed THEN Loop(p) ELSE sig' = [sig EXCEPT ![p].pc = "call", ![p].gen = gen]
  /\ UNCHANGED <<state, members, signal, scope, dispatch, local, result, diagnostics>>

CallDispatcher(p) ==
  /\ sig[p].pc = "call"
  /\ \/ /\ told' = IF sig[p].gen = gen /\ sig[p].task # None
                   THEN told \cup {sig[p].task} ELSE told
        /\ Loop(p)
        /\ UNCHANGED fails
     \/ /\ ~managed /\ fails < MaxFails
        /\ fails' = fails + 1
        /\ Goto(p, "late")
        /\ UNCHANGED told
  /\ UNCHANGED <<state, members, signal, scope, managed, failed, gen, local, result, diagnostics>>

\* a failure of the installed dispatcher cancels every member
DispatchFails(p) ==
  /\ sig[p].pc = "late"
  /\ IF sig[p].gen = gen
       THEN /\ failed' = TRUE
            /\ sig' = [sig EXCEPT ![p].todo = members, ![p].why = "dispatch",
                                  ![p].task = None, ![p].pc = "loop", ![p].gen = 0]
       ELSE UNCHANGED failed /\ Loop(p)
  /\ UNCHANGED <<state, members, signal, scope, managed, gen, told, fails, local, result,
                 diagnostics>>

\* ScopeControl::close: refuse new members first, then list those there are
CloseScope(p) ==
  /\ sig[p].pc \in {"close", "members"}
  /\ IF sig[p].pc = "close"
       THEN Goto(p, "members") /\ closing' = TRUE
       ELSE sig' = [sig EXCEPT ![p].todo = members, ![p].pc = "loop"] /\ UNCHANGED closing
  /\ UNCHANGED <<state, members, signal, closed, dropped, released, dispatch, local,
                 result, diagnostics>>

\* the call returns, after close's last notification or a replay's next one
Return(p) ==
  /\ sig[p].pc = "loop" /\ sig[p].todo = {}
  /\ sig' = [sig EXCEPT ![p] = IF @.last THEN [Quiet EXCEPT !.pc = "notify"] ELSE Quiet]
  /\ UNCHANGED <<state, members, signal, scope, dispatch, local, result, diagnostics>>

Signalling(p) ==
  \/ NextMember(p) \/ SetCause(p) \/ SetToken(p)
  \/ CancelExecution(p) \/ MarkReady(p)
  \/ LoadDispatcher(p) \/ CallDispatcher(p) \/ DispatchFails(p)
  \/ CloseScope(p) \/ Return(p)

\* the calls a thread makes
Mark(t) == [Quiet EXCEPT !.pc = "mark", !.task = t]
Notify(t) == [Quiet EXCEPT !.pc = "notify", !.task = t]
Cancel(t, why) == [Quiet EXCEPT !.pc = "loop", !.todo = {t}, !.why = why]
Close(why) == [Quiet EXCEPT !.pc = "close", !.why = why, !.last = TRUE]
Calls(p, call) == sig' = [sig EXCEPT ![p] = call]

\* ScopeCancellation::wake
TokenFires(p) ==
  /\ sig[p].pc = "none" /\ ~closing
  /\ Calls(p, Close("close"))
  /\ UNCHANGED <<state, members, signal, scope, dispatch, local, result, diagnostics>>

\* where the runtime thread holds an execution that can be woken
Started == {"waker", "clear", "slice", "run", "attach", "recheck"}

\* ExecutionWake: durable in the execution, and passed on once
WakeExecution(p, t) ==
  /\ sig[p].pc = "none" /\ state[t] \in {"Driving", "Owned"} /\ ~finished[t]
  /\ state[t] = "Driving" => cur = t /\ rpc \in Started
  /\ oready' = [oready EXCEPT ![t] = TRUE]
  /\ IF oready[t] THEN UNCHANGED sig ELSE Calls(p, Mark(t))
  /\ UNCHANGED <<state, members, ready, finished, cause, token, scope, dispatch,
                 local, result, diagnostics>>

------------------------------------------------------------------------------
(* The runtime thread.                                                     *)

RtAt(pcs) == sig[Rt].pc = "none" /\ rpc \in pcs
Records == {t \in Tasks : state[t] \notin {"fresh", "gone"}}

SpawnCheck(t) ==
  /\ RtAt({"idle", "run"}) /\ state[t] = "fresh"
  /\ ~quarantined /\ ~closing /\ ~failed /\ ~released
  /\ Cardinality(Records) < MaxTasks
  /\ born' = t /\ back' = rpc /\ rpc' = "attach"
  /\ UNCHANGED <<state, members, signal, scope, dispatch, sig, cur, res, batch,
                 result, diagnostics>>

\* attach, insert and mark_ready
SpawnAttach ==
  /\ RtAt({"attach"})
  /\ members' = members \cup {born}
  /\ state' = [state EXCEPT ![born] = "Admitting"]
  /\ Calls(Rt, Mark(born))
  /\ rpc' = "recheck"
  /\ UNCHANGED <<signal, scope, dispatch, cur, res, born, back, batch, result,
                 diagnostics>>

\* Mutant of SpawnRecheck: closing is not looked at a second time.
SpawnRecheckMutant ==
  /\ RtAt({"recheck"})
  /\ \E alive \in BOOLEAN :
       IF ~alive \/ failed \/ cause[born] = "dispatch"
       THEN /\ finished' = [finished EXCEPT ![born] = TRUE]
            /\ state' = [state EXCEPT ![born] = "gone"]
       ELSE /\ state' = [state EXCEPT ![born] = "Queued"]
            /\ UNCHANGED finished
  /\ rpc' = back /\ back' = "idle" /\ born' = None
  /\ UNCHANGED <<members, ready, cause, token, oready, scope, dispatch, sig, cur,
                 res, batch, result, diagnostics>>

\* the caller may have been terminated; the scope closed, or lost its dispatcher
SpawnRecheck ==
  /\ RtAt({"recheck"})
  /\ \E alive \in BOOLEAN :
       IF ~alive \/ failed \/ cause[born] = "dispatch" \/ closing
       THEN /\ finished' = [finished EXCEPT ![born] = TRUE]
            /\ state' = [state EXCEPT ![born] = "gone"]
       ELSE /\ state' = [state EXCEPT ![born] = "Queued"]
            /\ UNCHANGED finished
  /\ rpc' = back /\ back' = "idle" /\ born' = None
  /\ UNCHANGED <<members, ready, cause, token, oready, scope, dispatch, sig, cur,
                 res, batch, result, diagnostics>>

Publish(r) == res' = r /\ rpc' = "publish"

\* acquire_task_inner: readiness is consumed before anything else is looked at
Acquire(t) ==
  /\ RtAt({"idle"}) /\ state[t] \in {"Queued", "Owned"} /\ ready[t]
  /\ ready' = [ready EXCEPT ![t] = FALSE] /\ told' = told \ {t}
  /\ state' = [state EXCEPT ![t] = "Driving"]
  /\ cur' = t /\ rpc' = IF state[t] = "Queued" THEN "start" ELSE "owned"
  /\ UNCHANGED <<members, finished, cause, token, oready, scope, managed, failed, gen, fails,
                 sig, res, born, back, batch, result, diagnostics>>

StartQueued ==
  /\ RtAt({"start"})
  /\ \/ token[cur] /\ Publish("cancelled") /\ UNCHANGED oready
     \/ ~token[cur] /\ Publish(IF quarantined THEN "fault" ELSE "err") /\ UNCHANGED oready
     \/ /\ ~token[cur] /\ ~quarantined
        /\ oready' = [oready EXCEPT ![cur] = TRUE]
        /\ rpc' = "waker" /\ UNCHANGED res
  /\ UNCHANGED <<state, members, ready, finished, cause, token, scope, dispatch, sig,
                 cur, born, back, batch, result, diagnostics>>

\* set_waker finds the new execution ready, and says so to the signal
SetWaker ==
  /\ RtAt({"waker"})
  /\ Calls(Rt, Mark(cur))
  /\ rpc' = "clear"
  /\ UNCHANGED <<state, members, signal, scope, dispatch, cur, res, born, back, batch,
                 result, diagnostics>>

ClearReady ==
  /\ RtAt({"clear"})
  /\ ready' = [ready EXCEPT ![cur] = FALSE] /\ told' = told \ {cur}
  /\ rpc' = "slice"
  /\ UNCHANGED <<state, members, finished, cause, token, oready, scope, managed, failed, gen,
                 fails, sig, cur, res, born, back, batch, result, diagnostics>>

AcquireOwned ==
  /\ RtAt({"owned"})
  /\ IF token[cur] /\ managed
       THEN Publish("cancelled")
       ELSE rpc' = "slice" /\ UNCHANGED res
  /\ UNCHANGED <<state, members, signal, scope, dispatch, sig, cur, born, back, batch,
                 result, diagnostics>>

\* resume_owned_execution: a cancelled or quarantined execution ends here,
\* unless its cancellation is still on the way from the token
SliceStart ==
  /\ RtAt({"slice"})
  /\ oready' = [oready EXCEPT ![cur] = FALSE]
  /\ \/ token[cur] /\ Publish("cancelled")
     \/ quarantined /\ Publish("fault")
     \/ /\ ~quarantined
        /\ token[cur] => \E p \in Procs : sig[p].pc = "owner" /\ sig[p].task = cur
        /\ rpc' = "run" /\ UNCHANGED res
  /\ UNCHANGED <<state, members, ready, finished, cause, token, scope, dispatch, sig,
                 cur, born, back, batch, result, diagnostics>>

Complete ==
  /\ RtAt({"run"})
  /\ Publish("ok") \/ Publish("err") \/ (token[cur] /\ Publish("cancelled"))
  /\ UNCHANGED <<state, members, signal, scope, dispatch, sig, cur, born, back, batch,
                 result, diagnostics>>

\* the record owns the execution again, then park or drop signals
Yield(call) ==
  /\ RtAt({"run"})
  /\ state' = [state EXCEPT ![cur] = "Owned"]
  /\ Calls(Rt, call)
  /\ rpc' = "idle" /\ cur' = None
  /\ UNCHANGED <<members, signal, scope, dispatch, res, born, back, batch, result,
                 diagnostics>>

Park == Yield(Quiet) \/ Yield(Mark(cur))
DropActivation == Yield(Cancel(cur, "explicit"))

\* publish_task_result
StoreFinished ==
  /\ RtAt({"publish"})
  /\ finished' = [finished EXCEPT ![cur] = TRUE]
  /\ result' = [result EXCEPT ![cur] =
                  [kind |-> res, cause |-> IF res = "cancelled" THEN cause[cur] ELSE None]]
  /\ rpc' = "store" /\ res' = None
  /\ UNCHANGED <<state, members, ready, cause, token, oready, scope, dispatch, sig,
                 cur, born, back, batch, diagnostics>>

\* acknowledge_task_scopes, in the table tab
Acknowledged(tab) ==
  closed \/ (closing /\ ~released /\ \A t \in Tasks : tab[t] \in {"fresh", "gone", "Terminal"})

StoreTerminal ==
  /\ RtAt({"store"})
  /\ ready' = [ready EXCEPT ![cur] = TRUE]
  /\ state' = [state EXCEPT ![cur] = "Terminal"]
  /\ closed' = Acknowledged(state')
  /\ Calls(Rt, Notify(cur))
  /\ rpc' = "retire"
  /\ UNCHANGED <<members, finished, cause, token, oready, closing, dropped, released,
                 dispatch, cur, res, born, back, batch, result, diagnostics>>

\* retire_managed_task: the record goes, and a failure is kept or counted
RetireManaged ==
  /\ RtAt({"retire"})
  /\ IF managed
       THEN /\ state' = [state EXCEPT ![cur] = "gone"]
            /\ quarantined' = (quarantined \/ result[cur].kind = "fault")
            /\ \/ result[cur].kind = "ok" /\ UNCHANGED <<events, suppressed>>
               \/ /\ result[cur].kind # "ok" /\ events < MaxEvents
                  /\ events' = events + 1 /\ UNCHANGED suppressed
               \/ /\ result[cur].kind # "ok" /\ events >= MaxEvents
                  /\ suppressed' = suppressed + 1 /\ UNCHANGED events
            /\ UNCHANGED taken
       ELSE UNCHANGED <<state, diagnostics>>
  /\ cur' = None /\ rpc' = back
  /\ UNCHANGED <<members, signal, scope, dispatch, sig, res, born, back, batch, result>>

TakeEvent ==
  /\ RtAt({"idle"}) /\ events + suppressed > 0
  /\ IF events > 0
       THEN events' = events - 1 /\ taken' = taken + 1 /\ UNCHANGED suppressed
       ELSE suppressed' = 0 /\ taken' = taken + suppressed /\ UNCHANGED events
  /\ UNCHANGED <<state, members, signal, scope, dispatch, sig, local, result, quarantined>>

------------------------------------------------------------------------------
(* The owner and the host, on the runtime thread.                          *)

\* acknowledge_task_scopes and release_dropped_task_scopes
Settle ==
  /\ closed' = Acknowledged(state)
  /\ released' = (released \/ (dropped /\ closed'))
  /\ state' = [t \in Tasks |-> IF released' /\ t \in Records THEN "gone" ELSE state[t]]
  /\ UNCHANGED dropped

\* drain_cancelled_tasks takes its list first
DrainBegin ==
  /\ RtAt({"idle"}) /\ ~released
  /\ closing' = (closing \/ quarantined)
  /\ batch' = {t \in Tasks : state[t] \in {"Queued", "Owned"} /\ (quarantined \/ token[t])}
  /\ rpc' = "drain" /\ back' = "drain"
  /\ UNCHANGED <<state, members, signal, closed, dropped, released, dispatch, sig, cur,
                 res, born, result, diagnostics>>

DrainNext ==
  /\ RtAt({"drain"}) /\ batch # {}
  /\ \E t \in batch :
       /\ state' = [state EXCEPT ![t] = "Driving"]
       /\ cur' = t /\ batch' = batch \ {t}
  /\ Publish(IF quarantined THEN "fault" ELSE "cancelled")
  /\ UNCHANGED <<members, signal, scope, dispatch, sig, born, back, result, diagnostics>>

DrainEnd ==
  /\ RtAt({"drain"}) /\ batch = {}
  /\ Settle
  /\ rpc' = "idle" /\ back' = "idle"
  /\ UNCHANGED <<members, signal, closing, dispatch, sig, cur, res, born, batch, result,
                 diagnostics>>

\* the end of a scheduler turn
EndTurn ==
  /\ managed /\ RtAt({"idle"}) /\ closing
  /\ Settle
  /\ UNCHANGED <<members, signal, closing, dispatch, sig, local, result, diagnostics>>

TakeReport(t) ==
  /\ ~managed /\ RtAt({"idle"}) /\ state[t] = "Terminal" /\ ~dropped
  /\ state' = [state EXCEPT ![t] = "gone"]
  /\ UNCHANGED <<members, signal, scope, dispatch, sig, local, result, diagnostics>>

CancelTask(t) ==
  /\ RtAt({"idle", "run"}) /\ state[t] \in Live
  /\ Calls(Rt, Cancel(t, "explicit"))
  /\ UNCHANGED <<state, members, signal, scope, dispatch, local, result, diagnostics>>

OwnerClose ==
  /\ RtAt({"idle"}) /\ ~dropped /\ ~closing
  /\ Calls(Rt, Close("close"))
  /\ UNCHANGED <<state, members, signal, scope, dispatch, local, result, diagnostics>>

OwnerDrop ==
  /\ RtAt({"idle"}) /\ ~dropped
  /\ dropped' = TRUE
  /\ Calls(Rt, Close("drop"))
  /\ UNCHANGED <<state, members, signal, closing, closed, released, dispatch, local,
                 result, diagnostics>>

\* replace_dispatcher: install, list the ready members, tell the new one
Replace ==
  /\ ~managed /\ RtAt({"idle"}) /\ ~dropped /\ gen < MaxGen
  /\ gen' = gen + 1 /\ failed' = FALSE /\ told' = {}
  /\ rpc' = "list"
  /\ UNCHANGED <<state, members, signal, scope, managed, fails, sig, cur, res, born, back, batch,
                 result, diagnostics>>

\* Mutant of ListReady: nothing is replayed.
ListReadyMutant ==
  /\ RtAt({"list"})
  /\ batch' = {}
  /\ Calls(Rt, Notify(None))
  /\ rpc' = "replay"
  /\ UNCHANGED <<state, members, signal, scope, dispatch, cur, res, born, back, result,
                 diagnostics>>

ListReady ==
  /\ RtAt({"list"})
  /\ batch' = {t \in members : ready[t] /\ t \in Records}
  /\ Calls(Rt, Notify(None))
  /\ rpc' = "replay"
  /\ UNCHANGED <<state, members, signal, scope, dispatch, cur, res, born, back, result,
                 diagnostics>>

Replay ==
  /\ RtAt({"replay"})
  /\ IF failed \/ batch = {}
       THEN rpc' = "idle" /\ batch' = {} /\ UNCHANGED sig
       ELSE \E t \in batch : batch' = batch \ {t} /\ Calls(Rt, Notify(t)) /\ UNCHANGED rpc
  /\ UNCHANGED <<state, members, signal, scope, dispatch, cur, res, born, back, result,
                 diagnostics>>

\* an engine fault elsewhere in the runtime
Quarantine ==
  /\ RtAt({"idle"}) /\ ~quarantined /\ MaxQuarantines > 0
  /\ quarantined' = TRUE
  /\ UNCHANGED <<state, members, signal, scope, dispatch, sig, local, result, events,
                 suppressed, taken>>

------------------------------------------------------------------------------
\* the rest of a call the runtime thread is in
RtStep ==
  \/ SpawnAttach \/ SpawnRecheck
  \/ StartQueued \/ SetWaker \/ ClearReady \/ AcquireOwned \/ SliceStart
  \/ StoreFinished \/ StoreTerminal \/ RetireManaged
  \/ DrainNext \/ DrainEnd \/ ListReady \/ Replay

Next ==
  \/ \E p \in Procs : Signalling(p)
  \/ \E p \in Threads : TokenFires(p) \/ \E t \in Tasks : WakeExecution(p, t)
  \/ RtStep
  \/ \E t \in Tasks : SpawnCheck(t) \/ Acquire(t) \/ TakeReport(t) \/ CancelTask(t)
  \/ Complete \/ Park \/ DropActivation
  \/ TakeEvent \/ DrainBegin \/ EndTurn
  \/ OwnerClose \/ OwnerDrop \/ Replace \/ Quarantine

Spec == Init /\ [][Next]_vars

------------------------------------------------------------------------------
AllQuiet == \A p \in Procs : sig[p].pc = "none"

\* Once nobody is inside a signalling call, a scope that is closing, or whose
\* dispatcher failed, has cancelled every unfinished task: none was
\* admitted past the close and missed by it.
CloseReachesAll ==
  AllQuiet /\ (closing \/ failed) /\ ~quarantined
    => \A t \in Tasks : state[t] \in Live /\ ~finished[t] => token[t]

\* A queued or parked task that has been cancelled or woken is ready to be
\* acquired, unless the thread that woke it is still about to say so: neither
\* the coalescing of wakes nor the reset after a start loses one.
NoSleeper ==
  \A t \in Tasks :
    /\ state[t] \in {"Queued", "Owned"}
    /\ token[t] \/ (state[t] = "Owned" /\ oready[t])
    /\ ~\E p \in Procs : sig[p].task = t /\ sig[p].pc \in {"token", "owner", "mark"}
    => ready[t]

\* The installed dispatcher has been told of every ready task, or is about to
\* be, however replacements and failing notifications interleave.
NoLostNotice ==
  \A t \in Tasks :
    /\ ready[t] /\ state[t] \in {"Queued", "Owned", "Terminal"} /\ ~failed
    /\ rpc \notin {"list", "replay"}
    /\ ~\E p \in Procs : sig[p].task = t /\ sig[p].pc \in {"notify", "call", "late"}
    => t \in told

------------------------------------------------------------------------------
(* What the properties rest on.                                            *)

States == {"fresh", "Admitting", "Queued", "Driving", "Owned", "Terminal", "gone"}
SigLabels == {"none", "loop", "cause", "token", "owner", "mark", "notify", "call", "late",
              "close", "members"}
SigCall == [pc : SigLabels, task : Tasks \cup {None}, todo : SUBSET Tasks,
            why : {None, "dispatch", "close", "drop", "explicit"}, gen : Nat, last : BOOLEAN]

Tables ==
  /\ state \in [Tasks -> States]
  /\ ready \in [Tasks -> BOOLEAN] /\ finished \in [Tasks -> BOOLEAN]
  /\ token \in [Tasks -> BOOLEAN] /\ oready \in [Tasks -> BOOLEAN]
  /\ members = {t \in Tasks : state[t] # "fresh"}
  /\ \A t \in Tasks \ members : ~ready[t] /\ ~finished[t]
  /\ gen \in Nat

\* A call is about members only.
CallsSound ==
  /\ sig \in [Procs -> SigCall]
  /\ \A p \in Procs :
       /\ sig[p].pc = "none" => sig[p] = Quiet
       /\ sig[p].pc \in {"cause", "token", "owner", "mark"} => sig[p].task # None
       /\ sig[p].task # None => sig[p].task \in members
       /\ sig[p].todo \subseteq members

\* The runtime thread has the task it drives out of the table.
Driven == rpc \in {"start", "waker", "clear", "owned", "slice", "run", "publish", "store"}
            \/ (rpc \in {"attach", "recheck"} /\ back = "run")

RtPlaces ==
  /\ rpc \in {"idle", "attach", "recheck", "start", "waker", "clear", "owned", "slice", "run",
              "publish", "store", "retire", "drain", "list", "replay"}
  /\ back \in {"idle", "run", "drain"}
  /\ back = "run" => rpc \in {"attach", "recheck"}
  /\ back = "drain" => rpc \in {"drain", "publish", "store", "retire"}
  /\ rpc \in {"attach", "recheck"} => born \in Tasks
  /\ rpc = "attach" => state[born] = "fresh"
  /\ \A t \in Tasks : state[t] = "Admitting" <=> rpc = "recheck" /\ t = born
  /\ Driven => cur \in Tasks
  /\ \A t \in Tasks : state[t] = "Driving" <=> Driven /\ t = cur
  /\ rpc = "retire" => cur \in Tasks /\ state[cur] = "Terminal"
  /\ rpc = "drain" => back = "drain"
  /\ back = "drain" => \A t \in batch : t \in Tasks /\ state[t] \in {"Queued", "Owned"}
  /\ rpc = "replay" => batch \subseteq members
  /\ \A t \in Tasks : finished[t] => state[t] \in {"Terminal", "gone"} \/ (rpc = "store" /\ t = cur)

\* Somebody is going to mark t ready.
Marking(t) == \E p \in Procs : sig[p].task = t /\ sig[p].pc \in {"token", "owner", "mark"}

\* The execution of t may be woken and the slice that would notice has begun.
Asleep(t) == state[t] = "Owned"
               \/ (t = cur /\ (rpc = "run" \/ (rpc \in {"attach", "recheck"} /\ back = "run")))

WakeKept(t) ==
  /\ state[t] \in {"Admitting", "Queued"} =>
       ready[t] \/ (sig[Rt].pc = "mark" /\ sig[Rt].task = t)
  /\ Asleep(t) /\ (token[t] \/ oready[t]) => ready[t] \/ Marking(t)

\* Somebody is going to tell the dispatcher in place about t.
Noticing(t) ==
  \E p \in Procs : /\ sig[p].task = t
                   /\ sig[p].pc = "notify" \/ (sig[p].pc \in {"call", "late"} /\ sig[p].gen = gen)

NoticeKept(t) ==
  t \in Records /\ ready[t] /\ ~failed /\ rpc # "list" =>
    t \in told \/ Noticing(t) \/ (rpc = "replay" /\ t \in batch)

\* Somebody is going to cancel t.
Cancelling(t) ==
  \E p \in Procs : \/ sig[p].pc = "members"
                   \/ t \in sig[p].todo
                   \/ sig[p].task = t /\ sig[p].pc \in {"cause", "token"}

CloseKept(t) ==
  (closing \/ failed) /\ ~quarantined /\ t \in members /\ ~finished[t] =>
    token[t] \/ Cancelling(t) \/ state[t] = "Admitting"

TaskInv ==
  Tables /\ CallsSound /\ RtPlaces /\ \A t \in Tasks : WakeKept(t) /\ NoticeKept(t) /\ CloseKept(t)

=============================================================================
