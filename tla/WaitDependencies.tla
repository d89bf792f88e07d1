-------------------------- MODULE WaitDependencies --------------------------
(***************************************************************************)
(* The dependency registry of session/dependencies.rs: which execution     *)
(* session runs a Task, which session awaits a Task, and which session is  *)
(* the parent of a structured group.  These arcs form one wait graph.  An  *)
(* arc is admitted only after check_edge has searched the graph, under the *)
(* registry's mutex, for a path that the arc would close into a cycle.     *)
(*                                                                         *)
(* The search is modelled one popped node at a time, with the mutex held.  *)
(* The code pops the newest pending node; the model pops any of them, so   *)
(* what is shown does not depend on the order.                             *)
(*                                                                         *)
(* Callers attach fresh executions only.  The registry does not rely on    *)
(* it, so the model lets them pass any session that is not retired.        *)
(***************************************************************************)
EXTENDS Naturals, FiniteSets

CONSTANTS Sessions,         \* execution sessions; an identity is never reused
          Tasks,            \* Task identities
          MaxTaskWaiters,   \* limits.max_task_waiters
          MaxGroups,        \* limits.max_groups
          MaxSerial,        \* the largest waiter serial (u64::MAX in the code)
          None              \* no node: no search is running

ASSUME NodeAssumption == Sessions \cap Tasks = {} /\ None \notin Sessions \cup Tasks

ASSUME LimitAssumption ==
  MaxTaskWaiters \in Nat /\ MaxGroups \in Nat /\ MaxSerial \in Nat

VARIABLES sessions,   \* State.sessions: <<task, session>> pairs
          edges,      \* State.edges: the registered waits
          groups,     \* State.groups: parent and children
          serial,     \* State.serial
          leases,     \* the WaitLeases that have not been dropped
          terminal,   \* tasks whose outcome is published
          retired,    \* sessions of terminal tasks
          wakes,      \* waits whose waker complete returned, not yet woken
          woken,      \* waits whose waker has been woken
          phase,      \* what the holder of the mutex is doing
          call,       \* the arcs the holder wants to add
          left,       \* their targets that check_edge has not started on
          cur,        \* the target of the running check_edge
          pending, visited

graph == <<sessions, edges, groups>>
search == <<phase, call, left, cur, pending, visited>>
waiters == <<serial, leases, terminal, retired, wakes, woken>>
vars == <<graph, search, waiters>>

Nodes == Sessions \cup Tasks
Wait == [session : Sessions, target : Tasks, serial : 1..MaxSerial]
Group == [parent : Sessions, children : SUBSET Sessions]
Call == [op : {"attach", "group", "register"}, from : Nodes, tos : SUBSET Nodes]
NoCall == [op |-> "none", from |-> None, tos |-> {}]
Phases == {"free", "search", "cycle", "limit"}

Follows(n, m) ==
  \/ <<n, m>> \in sessions
  \/ \E e \in edges : e.session = n /\ e.target = m
  \/ \E g \in groups : g.parent = n /\ m \in g.children

\* Mutant of Succ: the search does not follow groups to their children.
SuccMutant(n) ==
  {m \in Nodes : \/ <<n, m>> \in sessions
                 \/ \E e \in edges : e.session = n /\ e.target = m}

Succ(n) == {m \in Nodes : Follows(n, m)}

Attached(t) == \E a \in sessions : a[1] = t
Blocked(s) == \/ \E e \in edges : e.session = s
              \/ \E g \in groups : g.parent = s

Init ==
  /\ sessions = {} /\ edges = {} /\ groups = {}
  /\ serial = 0 /\ leases = {} /\ terminal = {} /\ retired = {}
  /\ wakes = {} /\ woken = {}
  /\ phase = "free" /\ call = NoCall /\ left = {} /\ cur = None
  /\ pending = {} /\ visited = {}

------------------------------------------------------------------------------
(* Taking the mutex for an arc that needs a search.                        *)

Begin(op, from, tos) ==
  /\ phase = "free" /\ phase' = "search"
  /\ call' = [op |-> op, from |-> from, tos |-> tos]
  /\ left' = tos /\ pending' = {} /\ visited' = {}
  /\ UNCHANGED <<cur, graph, waiters>>

Attach(t, s) ==
  /\ t \notin terminal /\ s \notin retired
  /\ ~Attached(t)
  /\ Begin("attach", t, {s})

AttachGroup(p, children) ==
  /\ p \notin retired /\ children \cap retired = {}
  /\ ~Blocked(p)
  /\ Cardinality(groups) < MaxGroups
  /\ Begin("group", p, children)

\* begin_task_wait registers only while the target has no outcome
Register(s, t) ==
  /\ s \notin retired /\ t \notin terminal
  /\ ~Blocked(s)
  /\ Begin("register", s, {t})

(* check_edge: the traversal bound, and one iteration per popped node.     *)

Bound == 2 * Cardinality(sessions) + 2 * Cardinality(edges)
           + 3 * Cardinality(groups) + 2

\* Mutant of StartCheck: the traversal starts at the source of the arc.
StartCheckMutant(to) ==
  /\ phase = "search" /\ pending = {} /\ to \in left
  /\ left' = left \ {to}
  /\ cur' = to
  /\ pending' = {call.from} /\ visited' = {}
  /\ UNCHANGED <<phase, call, graph, waiters>>

StartCheck(to) ==
  /\ phase = "search" /\ pending = {} /\ to \in left
  /\ left' = left \ {to}
  /\ cur' = to
  /\ pending' = {to} /\ visited' = {}
  /\ UNCHANGED <<phase, call, graph, waiters>>

FoundCycle(n) ==
  /\ phase = "search" /\ n \in pending /\ n = call.from
  /\ phase' = "cycle"
  /\ UNCHANGED <<call, left, cur, pending, visited, graph, waiters>>

SkipVisited(n) ==
  /\ phase = "search" /\ n \in pending /\ n # call.from /\ n \in visited
  /\ pending' = pending \ {n}
  /\ UNCHANGED <<phase, call, left, cur, visited, graph, waiters>>

\* the length check guards the reserved capacity of both vectors
Visit(n) ==
  /\ phase = "search" /\ n \in pending /\ n # call.from /\ n \notin visited
  /\ IF Cardinality(visited) = Bound
       THEN phase' = "limit" /\ UNCHANGED <<pending, visited>>
       ELSE /\ visited' = visited \cup {n}
            /\ pending' = (pending \ {n}) \cup Succ(n)
            /\ phase' = phase
  /\ UNCHANGED <<call, left, cur, graph, waiters>>

(* Leaving the critical section.                                           *)

Unlock == /\ phase' = "free" /\ call' = NoCall /\ left' = {} /\ cur' = None
          /\ pending' = {} /\ visited' = {}

Refuse == phase \in {"cycle", "limit"} /\ Unlock /\ UNCHANGED <<graph, waiters>>

Passed(op) == phase = "search" /\ pending = {} /\ left = {} /\ call.op = op

CommitAttach ==
  /\ Passed("attach") /\ Unlock
  /\ sessions' = sessions \cup {<<call.from, s>> : s \in call.tos}
  /\ UNCHANGED <<edges, groups, waiters>>

CommitGroup ==
  /\ Passed("group") /\ Unlock
  /\ groups' = groups \cup {[parent |-> call.from, children |-> call.tos]}
  /\ UNCHANGED <<sessions, edges, waiters>>

RefuseRegister ==
  /\ Passed("register") /\ Unlock
  /\ Cardinality(edges) >= MaxTaskWaiters \/ serial = MaxSerial
  /\ UNCHANGED <<graph, waiters>>

CommitRegister ==
  /\ Passed("register") /\ Unlock
  /\ Cardinality(edges) < MaxTaskWaiters /\ serial # MaxSerial
  /\ serial' = serial + 1
  /\ \E t \in call.tos :
       LET w == [session |-> call.from, target |-> t, serial |-> serial + 1]
       IN edges' = edges \cup {w} /\ leases' = leases \cup {w}
  /\ UNCHANGED <<sessions, groups, terminal, retired, wakes, woken>>

------------------------------------------------------------------------------
(* Operations that only remove arcs: one critical section each.            *)

\* Mutant of DropLease: the lease removes whatever wait the session has now.
DropLeaseMutant(l) ==
  /\ phase = "free" /\ l \in leases
  /\ leases' = leases \ {l}
  /\ edges' = {e \in edges : e.session # l.session}
  /\ UNCHANGED <<sessions, groups, search, serial, terminal, retired, wakes, woken>>

\* Drop for WaitLease: the serial tells a stale lease from the current one
DropLease(l) ==
  /\ phase = "free" /\ l \in leases
  /\ leases' = leases \ {l}
  /\ edges' = {e \in edges : ~(e.session = l.session /\ e.serial = l.serial)}
  /\ UNCHANGED <<sessions, groups, search, serial, terminal, retired, wakes, woken>>

DetachGroup(p) ==
  /\ phase = "free"
  /\ groups' = {g \in groups : g.parent # p}
  /\ UNCHANGED <<sessions, edges, search, waiters>>

\* publish_task_result seals the outcome, then takes the waiters to wake
Complete(t) ==
  /\ phase = "free" /\ t \notin terminal
  /\ LET own == {s \in Sessions : <<t, s>> \in sessions}
         kept == {e \in edges : e.session \notin own}
     IN /\ sessions' = {a \in sessions : a[1] # t}
        /\ edges' = {e \in kept : e.target # t}
        /\ wakes' = wakes \cup {e \in kept : e.target = t}
        /\ retired' = retired \cup own
  /\ terminal' = terminal \cup {t}
  /\ UNCHANGED <<groups, search, serial, leases, woken>>

\* the loop of publish_task_result over the returned wakers, after the unlock
Wake(w) ==
  /\ w \in wakes
  /\ wakes' = wakes \ {w}
  /\ woken' = woken \cup {w}
  /\ UNCHANGED <<graph, search, serial, leases, terminal, retired>>

Search ==
  \/ \E n \in Nodes : StartCheck(n)
  \/ \E n \in Nodes : FoundCycle(n)
  \/ \E n \in Nodes : SkipVisited(n)
  \/ \E n \in Nodes : Visit(n)

Next ==
  \/ \E t \in Tasks, s \in Sessions : Attach(t, s)
  \/ \E p, a, b \in Sessions : AttachGroup(p, {a, b})
  \/ \E s \in Sessions, t \in Tasks : Register(s, t)
  \/ Search
  \/ Refuse \/ CommitAttach \/ CommitGroup
  \/ RefuseRegister \/ CommitRegister
  \/ \E l \in leases : DropLease(l)
  \/ \E p \in Sessions : DetachGroup(p)
  \/ \E t \in Tasks : Complete(t)
  \/ \E w \in wakes : Wake(w)

Spec == Init /\ [][Next]_vars

------------------------------------------------------------------------------
\* Types; the serial of a waiter stays within its width.
TypeOK ==
  /\ sessions \subseteq Tasks \X Sessions
  /\ edges \subseteq Wait /\ leases \subseteq Wait
  /\ wakes \subseteq Wait /\ woken \subseteq Wait
  /\ groups \subseteq Group
  /\ serial \in 0..MaxSerial
  /\ terminal \subseteq Tasks /\ retired \subseteq Sessions
  /\ phase \in Phases
  /\ call \in Call \cup {NoCall}
  /\ left \subseteq Nodes /\ cur \in Nodes \cup {None}
  /\ pending \subseteq Nodes /\ visited \subseteq Nodes

Closed(C) == \A n \in C : \A m \in Nodes : Follows(n, m) => m \in C

\* The wait graph never has a cycle: every non-empty set of sessions and tasks
\* has a member that waits for no other member.  With a cycle its members wait
\* for each other forever.  check_edge searches before each arc is inserted,
\* but attach_group inserts two arcs after two separate searches.
Acyclic ==
  \A S \in SUBSET Nodes :
    S # {} => \E n \in S : \A m \in S : ~Follows(n, m)

\* "Task wait cycle" is raised only for an arc that would close a cycle: its
\* source is then in every set that holds the target and is closed under the
\* arcs, that is, the target already waits for the source.
RefusalExact ==
  phase = "cycle" =>
    \A C \in SUBSET Nodes : cur \in C /\ Closed(C) => call.from \in C

\* A session that holds a lease and has not been woken is still registered, or
\* its waker is about to be woken, or its own Task is over.  A stale lease
\* must not remove a later wait, and complete must not forget a waiter:
\* either one leaves an execution suspended that nothing will resume.
NoLostWait ==
  \A l \in leases :
    l \in edges \/ l \in wakes \/ l \in woken \/ l.session \in retired

\* No wait is registered for a Task whose outcome is already published, since
\* complete runs once per Task and would never wake it.
NoLateWait == \A e \in edges : e.target \notin terminal

=============================================================================
