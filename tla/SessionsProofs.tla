--------------------------- MODULE SessionsProofs ---------------------------
(***************************************************************************)
(* Proofs about sessions, for any number of them.  The session store: an   *)
(* id never reaches another session.  The dependency registry: the wait    *)
(* graph stays acyclic, a refusal is justified, and no registered waiter   *)
(* is lost, whatever the limits.                                           *)
(***************************************************************************)
EXTENDS WaitDependencies, SessionTable, TLAPS

-----------------------------------------------------------------------------
(* The session store.                                                      *)

\* What the tables hold, and what an update of one slot leaves of them.
LEMMA TableFacts ==
    ASSUME Store!Tables
    PROVE  /\ Len(slots) \in Nat /\ \A k \in 1..Len(slots) : slots[k] \in Store!Record /\ slots[k].gen \in Nat
           /\ Len(free) \in Nat /\ DOMAIN free = 1..Len(free)
           /\ \A k \in 1..Len(free) : free[k] \in 1..Len(slots)
           /\ \A e \in Executions : Store!Named(e) => /\ id[e].slot \in 1..Len(slots) /\ id[e].gen \in Nat
                                                /\ Store!Slot(e).gen \in Nat
<1>1. Len(slots) \in Nat /\ \A k \in 1..Len(slots) : slots[k] \in Store!Record
  BY DEF Store!Tables
<1>2. \A k \in 1..Len(slots) : slots[k].gen \in Nat
  BY <1>1, Zenon DEF Store!Record
<1>3. Len(free) \in Nat /\ DOMAIN free = 1..Len(free) /\ \A k \in 1..Len(free) : free[k] \in 1..Len(slots)
  BY DEF Store!Tables
<1>4. \A e \in Executions : Store!Named(e) => id[e].slot \in 1..Len(slots) /\ id[e].gen \in Nat
  BY Zenon DEF Store!Tables
<1> QED  BY <1>1, <1>2, <1>3, <1>4, Zenon DEF Store!Slot

\* A sequence without its last element.
LEMMA Shorter ==
    ASSUME NEW S, NEW f \in Seq(S), Len(f) >= 1
    PROVE  LET p == SubSeq(f, 1, Len(f) - 1)
           IN  p \in Seq(S) /\ DOMAIN p = 1..(Len(f) - 1) /\ \A k \in 1..(Len(f) - 1) : p[k] = f[k]
<1> DEFINE n == Len(f) - 1
           p == SubSeq(f, 1, n)
<1>1. n \in Nat /\ 1..n \subseteq 1..Len(f)
  OBVIOUS
<1>2. p = [k \in 1..n |-> f[k]]
  BY <1>1
<1>3. \A k \in 1..n : f[k] \in S
  BY <1>1
<1>4. p \in Seq(S)
  BY <1>1, <1>2, <1>3
<1> QED  BY <1>1, <1>2, <1>4, Zenon

LEMMA SlotUpdate ==
    ASSUME Store!Tables, NEW k \in 1..Len(slots), NEW r \in Store!Record, slots' = [slots EXCEPT ![k] = r]
    PROVE  /\ slots' \in Seq(Store!Record) /\ Len(slots') = Len(slots)
           /\ slots'[k] = r /\ \A j \in 1..Len(slots) : j # k => slots'[j] = slots[j]
  BY DEF Store!Tables

LEMMA StoreReuse ==
    ASSUME Store!StoreInv, NEW e \in Executions, Store!InsertSession(e), free # <<>>
    PROVE  Store!StoreInv'
<1> DEFINE s == Store!Newest  r == [slots[s] EXCEPT !.state = e]
<1>1. Store!Tables /\ Store!Behind /\ Store!FreeIsNew
  BY Zenon DEF Store!StoreInv
<1>2. /\ slots' = [slots EXCEPT ![s].state = e] /\ free' = Store!Popped
      /\ id' = [id EXCEPT ![e] = [slot |-> s, gen |-> slots[s].gen]]
  BY Zenon DEF Store!InsertSession
<1>3. Len(free) \in 1..Len(free) /\ s = free[Len(free)] /\ s \in 1..Len(slots)
  BY <1>1, TableFacts DEF Store!Newest, Store!Tables
<1>4. slots[s] \in Store!Record
  BY <1>1, <1>3, TableFacts, Zenon
<1>5. r \in Store!Record /\ r.gen = slots[s].gen /\ r.state = e
  BY <1>4, Zenon DEF Store!Record
<1>6. slots' = [slots EXCEPT ![s] = r]
  BY <1>2, Zenon
<1>7. /\ Store!Popped \in Seq(1..Len(slots)) /\ DOMAIN Store!Popped = 1..(Len(free) - 1)
      /\ \A k \in DOMAIN Store!Popped : k \in 1..Len(free) /\ k # Len(free) /\ Store!Popped[k] = free[k]
  <2>1. Len(free) \in Nat /\ Len(free) >= 1 /\ free \in Seq(1..Len(slots))
    BY <1>1, <1>3, TableFacts DEF Store!Tables
  <2>2. /\ Store!Popped \in Seq(1..Len(slots)) /\ DOMAIN Store!Popped = 1..(Len(free) - 1)
        /\ \A k \in 1..(Len(free) - 1) : Store!Popped[k] = free[k]
    BY <2>1, Shorter, Zenon DEF Store!Popped
  <2>3. \A k \in 1..(Len(free) - 1) : k \in 1..Len(free) /\ k # Len(free)
    BY <2>1
  <2> QED  BY <2>2, <2>3, Zenon
<1>8. \A k \in DOMAIN Store!Popped : Store!Popped[k] \in 1..Len(slots) /\ Store!Popped[k] # s
  BY <1>1, <1>3, <1>7, TableFacts, Zenon DEF Store!FreeIsNew
<1>9. \A d \in Executions : Store!Named(d) /\ id[d].slot = s => id[d].gen < slots[s].gen
  BY <1>1, <1>3, TableFacts, Zenon DEF Store!FreeIsNew
<1> HIDE DEF r, s
<1>10. /\ slots' \in Seq(Store!Record) /\ Len(slots') = Len(slots)
       /\ slots'[s] = r /\ \A j \in 1..Len(slots) : j # s => slots'[j] = slots[j]
  BY <1>1, <1>3, <1>5, <1>6, SlotUpdate, Zenon
<1>11. /\ id'[e] = [slot |-> s, gen |-> slots[s].gen] /\ DOMAIN id' = Executions
       /\ \A d \in Executions \ {e} : id'[d] = id[d]
  BY <1>1, <1>2, Zenon DEF Store!Tables
<1>12. Store!Tables'
  BY <1>1, <1>2, <1>3, <1>4, <1>7, <1>10, <1>11, Zenon DEF Store!Tables, Store!Named, Store!Record
<1>13. Store!Behind'
  <2> SUFFICES ASSUME NEW d \in Executions, Store!Named(d)'
               PROVE  /\ id'[d].gen <= slots'[id'[d].slot].gen
                      /\ id'[d].gen = slots'[id'[d].slot].gen => slots'[id'[d].slot].state \in {d, Vacant}
    BY Zenon DEF Store!Behind, Store!Slot
  <2>1. CASE d = e
    BY <2>1, <1>3, <1>4, <1>5, <1>10, <1>11 DEF Store!Record
  <2>2. CASE d # e /\ id[d].slot = s
    BY <2>2, <1>1, <1>5, <1>9, <1>10, <1>11, TableFacts DEF Store!Named
  <2>3. CASE d # e /\ id[d].slot # s
    <3>1. id'[d] = id[d] /\ Store!Named(d)
      BY <2>3, <1>11, Zenon DEF Store!Named
    <3>2. slots'[id[d].slot] = slots[id[d].slot]
      BY <2>3, <3>1, <1>1, <1>10, TableFacts, Zenon
    <3> QED  BY <3>1, <3>2, <1>1, Zenon DEF Store!Behind, Store!Slot
  <2> QED  BY <2>1, <2>2, <2>3, Zenon
<1>14. Store!FreeIsNew'
  <2>1. ASSUME NEW k \in DOMAIN Store!Popped, NEW d \in Executions, Store!Named(d)', id'[d].slot = Store!Popped[k]
        PROVE  id'[d].gen < slots'[Store!Popped[k]].gen
    <3>1. d # e
      BY <2>1, <1>8, <1>11
    <3>2. Store!Named(d) /\ id[d].slot = free[k] /\ k \in DOMAIN free
      BY <2>1, <3>1, <1>1, <1>7, <1>11, TableFacts, Zenon DEF Store!Named
    <3>3. id'[d] = id[d] /\ slots'[Store!Popped[k]] = slots[free[k]]
      BY <2>1, <3>1, <1>7, <1>8, <1>10, <1>11, Zenon
    <3> QED  BY <3>2, <3>3, <1>1, Zenon DEF Store!FreeIsNew
  <2>2. \A j, k \in DOMAIN Store!Popped : j # k => Store!Popped[j] # Store!Popped[k]
    BY <1>1, <1>7, TableFacts, Zenon DEF Store!FreeIsNew
  <2> QED  BY <2>1, <2>2, <1>2, Zenon DEF Store!FreeIsNew
<1> QED  BY <1>12, <1>13, <1>14, Zenon DEF Store!StoreInv

LEMMA StoreGrow ==
    ASSUME Store!StoreInv, NEW e \in Executions, Store!InsertSession(e), free = <<>>
    PROVE  Store!StoreInv'
<1>1. Store!Tables /\ Store!Behind
  BY Zenon DEF Store!StoreInv
<1>2. /\ slots' = Append(slots, [gen |-> 0, state |-> e]) /\ free' = <<>>
      /\ id' = [id EXCEPT ![e] = [slot |-> Len(slots) + 1, gen |-> 0]]
  BY Zenon DEF Store!InsertSession
<1>3. /\ Len(slots) \in Nat /\ Len(slots') = Len(slots) + 1
      /\ slots'[Len(slots) + 1] = [gen |-> 0, state |-> e]
      /\ \A s \in 1..Len(slots) : slots'[s] = slots[s]
  BY <1>1, <1>2 DEF Store!Tables
<1>4. Store!Tables'
  BY <1>1, <1>2, <1>3 DEF Store!Tables, Store!Named, Store!Record
<1>5. Store!Behind'
  BY <1>1, <1>2, <1>3, TableFacts DEF Store!Tables, Store!Behind, Store!Named, Store!Slot
<1>6. Store!FreeIsNew'
  BY <1>2 DEF Store!FreeIsNew
<1> QED  BY <1>4, <1>5, <1>6, Zenon DEF Store!StoreInv

LEMMA StoreRemove ==
    ASSUME Store!StoreInv, NEW e \in Executions, Store!RemoveSession(e)
    PROVE  Store!StoreInv'
<1> DEFINE s == id[e].slot
           more == slots[s].gen < MaxGeneration
           r == IF more THEN [slots[s] EXCEPT !.state = Vacant, !.gen = @ + 1]
                ELSE [slots[s] EXCEPT !.state = Vacant]
<1>1. Store!Tables /\ Store!Behind /\ Store!FreeIsNew
  BY Zenon DEF Store!StoreInv
<1>2. Store!Named(e) /\ slots[s].gen = id[e].gen
  BY Zenon DEF Store!RemoveSession, Store!Get, Store!Named
<1>3. s \in 1..Len(slots) /\ slots[s] \in Store!Record /\ slots[s].gen \in Nat
  BY <1>1, <1>2, TableFacts, Zenon
<1>4. \A k \in 1..Len(free) : free[k] # s
  <2> SUFFICES ASSUME NEW k \in 1..Len(free), free[k] = s PROVE FALSE
    BY Zenon
  <2>1. id[e].gen < slots[s].gen
    BY <1>1, <1>2, TableFacts, Zenon DEF Store!FreeIsNew
  <2> QED  BY <2>1, <1>2, <1>3
<1>5. UNCHANGED id /\ slots' = [slots EXCEPT ![s] = r] /\ free' = IF more THEN Append(free, s) ELSE free
  BY Zenon DEF Store!RemoveSession, Store!Bump
<1>6. r \in Store!Record /\ r.state = Vacant /\ r.gen = IF more THEN slots[s].gen + 1 ELSE slots[s].gen
  <2>1. CASE more
    <3> DEFINE q == [slots[s] EXCEPT !.state = Vacant]
    <3>1. q \in Store!Record /\ q.state = Vacant /\ q.gen = slots[s].gen
      BY <1>3, Zenon DEF Store!Record
    <3>2. r = [q EXCEPT !.gen = slots[s].gen + 1]
      BY <2>1, Zenon
    <3> HIDE DEF q, r
    <3> QED  BY <2>1, <3>1, <3>2, <1>3 DEF Store!Record
  <2>2. CASE ~more
    BY <2>2, <1>3, Zenon DEF Store!Record
  <2> QED  BY <2>1, <2>2, Zenon
<1> HIDE DEF r, s, more
<1>7. /\ slots' \in Seq(Store!Record) /\ Len(slots') = Len(slots)
      /\ slots'[s] = r /\ \A j \in 1..Len(slots) : j # s => slots'[j] = slots[j]
  BY <1>1, <1>3, <1>5, <1>6, SlotUpdate, Zenon
<1>8. free' \in Seq(1..Len(slots))
  <2>1. free \in Seq(1..Len(slots)) /\ Append(free, s) \in Seq(1..Len(slots))
    BY <1>1, <1>3 DEF Store!Tables
  <2> QED  BY <2>1, <1>5, Zenon
<1>9. Store!Tables'
  BY <1>1, <1>5, <1>7, <1>8, Zenon DEF Store!Tables, Store!Named
<1>10. Store!Behind'
  <2> SUFFICES ASSUME NEW d \in Executions, Store!Named(d)
               PROVE  /\ id[d].gen <= slots'[id[d].slot].gen
                      /\ id[d].gen = slots'[id[d].slot].gen => slots'[id[d].slot].state \in {d, Vacant}
    BY <1>5, Zenon DEF Store!Behind, Store!Slot, Store!Named
  <2>1. CASE id[d].slot = s
    <3>1. id[d].gen <= slots[s].gen /\ id[d].gen \in Nat
      BY <2>1, <1>1, TableFacts, Zenon DEF Store!Behind, Store!Slot
    <3>2. slots'[id[d].slot].state = Vacant /\ slots'[id[d].slot].gen >= slots[s].gen
      BY <2>1, <1>3, <1>6, <1>7
    <3>3. slots'[id[d].slot].gen \in Nat
      BY <2>1, <1>3, <1>6, <1>7
    <3> QED  BY <3>1, <3>2, <3>3, <1>3
  <2>2. CASE id[d].slot # s
    BY <2>2, <1>1, <1>7, TableFacts, Zenon DEF Store!Behind, Store!Slot
  <2> QED  BY <2>1, <2>2, Zenon
<1>11. Store!FreeIsNew'
  <2>1. CASE ~more
    <3>1. ASSUME NEW k \in DOMAIN free, NEW d \in Executions, Store!Named(d), id[d].slot = free[k]
          PROVE  id[d].gen < slots'[free[k]].gen
      BY <3>1, <1>1, <1>4, <1>7, TableFacts, Zenon DEF Store!FreeIsNew
    <3> QED  BY <2>1, <3>1, <1>1, <1>5, Zenon DEF Store!FreeIsNew, Store!Named
  <2>2. CASE more
    <3>1. /\ Len(free) \in Nat /\ DOMAIN free' = 1..(Len(free) + 1) /\ free'[Len(free) + 1] = s
          /\ \A k \in 1..Len(free) : free'[k] = free[k]
      BY <2>2, <1>1, <1>3, <1>5 DEF Store!Tables
    <3>2. ASSUME NEW k \in 1..Len(free), NEW d \in Executions, Store!Named(d), id[d].slot = free[k]
          PROVE  id[d].gen < slots'[free[k]].gen
      BY <3>2, <1>1, <1>4, <1>7, TableFacts, Zenon DEF Store!FreeIsNew
    <3>3. ASSUME NEW d \in Executions, Store!Named(d), id[d].slot = s
          PROVE  id[d].gen < slots'[s].gen
      <4>1. id[d].gen <= slots[s].gen /\ id[d].gen \in Nat
        BY <3>3, <1>1, TableFacts, Zenon DEF Store!Behind, Store!Slot
      <4> QED  BY <4>1, <2>2, <1>3, <1>6, <1>7
    <3>4. \A j, k \in DOMAIN free' : j # k => free'[j] # free'[k]
      BY <3>1, <1>1, <1>4, TableFacts DEF Store!FreeIsNew
    <3>5. ASSUME NEW k \in DOMAIN free', NEW d \in Executions, Store!Named(d), id[d].slot = free'[k]
          PROVE  id[d].gen < slots'[free'[k]].gen
      BY <3>1, <3>2, <3>3, <3>5
    <3> QED  BY <3>4, <3>5, <1>5, Zenon DEF Store!FreeIsNew, Store!Named
  <2> QED  BY <2>1, <2>2, Zenon
<1> QED  BY <1>9, <1>10, <1>11, Zenon DEF Store!StoreInv

\* The id of a session reaches the record it was made for, or nothing, for any number
\* of sessions, slots and generations: remove retires a slot whose generations have run
\* out before any id could be handed out twice (session/store.rs: insert, get, remove).
THEOREM IdsNeverAlias == Store!Spec => []NoAlias
<1>1. Store!Init => Store!StoreInv
  BY DEF Store!Init, Store!StoreInv, Store!Tables, Store!Behind, Store!FreeIsNew, Store!Named
<1>2. ASSUME Store!StoreInv, UNCHANGED <<slots, free, id>> PROVE Store!StoreInv'
  BY <1>2, Zenon DEF Store!StoreInv, Store!Tables, Store!Behind, Store!FreeIsNew, Store!Named, Store!Slot
<1>3. Store!StoreInv /\ [Store!Next]_(Store!vars) => Store!StoreInv'
  <2> SUFFICES ASSUME Store!StoreInv, [Store!Next]_(Store!vars) PROVE Store!StoreInv'
    BY Zenon
  <2>1. ASSUME NEW e \in Executions, Store!PushFrame(e) \/ \E kind \in {"shared", "mut"} : Store!Borrow(e, kind)
        PROVE  Store!StoreInv'
    BY <1>2, <2>1, Zenon DEF Store!PushFrame, Store!Borrow
  <2>2. CASE Store!Release \/ UNCHANGED Store!vars
    BY <1>2, <2>2, Zenon DEF Store!Release, Store!vars
  <2> QED  BY <2>1, <2>2, StoreReuse, StoreGrow, StoreRemove, Zenon DEF Store!Next
<1>4. Store!StoreInv => NoAlias
  BY Zenon DEF Store!StoreInv, Store!Tables, Store!Behind, NoAlias, Store!NoAlias, Store!Get, Store!Named, Store!Slot, Store!Record
<1> QED  BY <1>1, <1>3, <1>4, PTL DEF Store!Spec

-----------------------------------------------------------------------------
(* The dependency registry.                                                *)

\* f is not reachable from c: a closed set holds the one and not the other.
Separated(c, f) == \E C \in SUBSET Nodes : c \in C /\ f \notin C /\ Closed(C)

\* What the running search has established so far.
SearchInv ==
  /\ phase = "free" => cur = None /\ pending = {} /\ visited = {}
  /\ phase # "free" => call \in Call
  /\ phase = "search" =>
       /\ call.from \notin visited
       /\ \A n \in visited : \A m \in Nodes : Follows(n, m) => m \in visited \cup pending
       /\ cur # None => cur \in visited \cup pending
       /\ \A c \in call.tos \ left : c = cur \/ Separated(c, call.from)
  /\ phase = "cycle" => call.from \in pending

\* The search meets nothing that its target does not reach.
ReachInv ==
  \A C \in SUBSET Nodes : cur \in C /\ Closed(C) => visited \cup pending \subseteq C

\* The call that holds the mutex passed the early checks of its operation.
CallInv ==
  phase # "free" =>
    /\ call.op = "attach" => call.from \in Tasks /\ call.tos \subseteq Sessions
    /\ call.op = "group" => call.from \in Sessions /\ call.tos \subseteq Sessions
    /\ call.op = "register" =>
         call.from \in Sessions /\ call.tos \subseteq Tasks /\ call.tos \cap terminal = {}

\* Every registered wait has its lease, and serials tell leases apart.
LeaseInv ==
  /\ edges \subseteq leases
  /\ \A l \in leases : l.serial <= serial
  /\ \A a, b \in leases : a.serial = b.serial => a = b

IInv == /\ TypeOK /\ SearchInv /\ ReachInv /\ CallInv /\ LeaseInv
        /\ Acyclic /\ NoLostWait /\ NoLateWait

------------------------------------------------------------------------------
(* Arcs from a node that none of their targets reaches close no cycle.     *)
LEMMA AcyclicExtend ==
  ASSUME Acyclic, NEW f, NEW T \in SUBSET Nodes,
         \A c \in T : Separated(c, f),
         \A n, m \in Nodes : Follows(n, m)' => Follows(n, m) \/ (n = f /\ m \in T)
  PROVE  Acyclic'
<1> DEFINE R == {n \in Nodes : Separated(n, f)}
<1>1. f \notin R
  BY Zenon DEF Separated
<1>2. \A n \in R : \A m \in Nodes : Follows(n, m) => m \in R
  <2> TAKE n \in R
  <2> TAKE m \in Nodes
  <2> HAVE Follows(n, m)
  <2>1. PICK C \in SUBSET Nodes : n \in C /\ f \notin C /\ Closed(C)
    BY Zenon DEF Separated
  <2>2. m \in C
    BY <2>1, Zenon DEF Closed
  <2> QED  BY <2>1, <2>2, Zenon DEF Separated
<1>3. T \subseteq R
  BY Zenon
<1>4. SUFFICES ASSUME NEW S \in SUBSET Nodes, S # {}
               PROVE  \E n \in S : \A m \in S : ~(Follows(n, m)')
  BY Zenon DEF Acyclic, Nodes
<1> HIDE DEF R
<1>5. CASE S \cap R # {}
  <2>1. PICK n \in S \cap R : \A m \in S \cap R : ~Follows(n, m)
    BY ZenonT(40), <1>5 DEF Acyclic
  <2>2. ASSUME NEW m \in S, Follows(n, m)'
        PROVE  FALSE
    <3>1. Follows(n, m)
      BY <2>1, <2>2, <1>1, Zenon
    <3> QED  BY <3>1, <2>1, <1>2, Zenon
  <2> QED  BY <2>1, <2>2, Zenon
<1>6. CASE S \cap R = {}
  <2>1. PICK n \in S : \A m \in S : ~Follows(n, m)
    BY <1>4, Zenon DEF Acyclic
  <2>2. ASSUME NEW m \in S, Follows(n, m)'
        PROVE  FALSE
    BY <2>1, <2>2, <1>3, <1>6, Zenon
  <2> QED  BY <2>1, <2>2, Zenon
<1> QED  BY <1>5, <1>6, Zenon

(* Removing arcs closes no cycle.                                          *)
LEMMA AcyclicShrink ==
  ASSUME Acyclic, \A n, m \in Nodes : Follows(n, m)' => Follows(n, m)
  PROVE  Acyclic'
<1> SUFFICES ASSUME NEW S \in SUBSET Nodes, S # {}
             PROVE  \E n \in S : \A m \in S : ~(Follows(n, m)')
  BY Zenon DEF Acyclic, Nodes
<1>1. PICK n \in S : \A m \in S : ~Follows(n, m)
  BY Zenon DEF Acyclic
<1> QED  BY <1>1, Zenon

(* A completed search proves every target separated from the source.       *)
LEMMA CheckedSeparated ==
  ASSUME TypeOK, SearchInv, phase = "search", pending = {},
         NEW c \in call.tos \ left, c \in Nodes
  PROVE  Separated(c, call.from)
<1>1. CASE c = cur
  <2>1. cur \in visited /\ call.from \notin visited /\ Closed(visited)
    BY <1>1, NodeAssumption, Zenon DEF SearchInv, Closed, TypeOK, Nodes
  <2> QED  BY <2>1, <1>1, Zenon DEF Separated, TypeOK
<1>2. CASE c # cur
  BY <1>2, Zenon DEF SearchInv
<1> QED  BY <1>1, <1>2, Zenon
------------------------------------------------------------------------------
THEOREM InitInv == Init => IInv
<1> SUFFICES ASSUME Init PROVE IInv
  BY Zenon
<1>1. TypeOK
  BY LimitAssumption DEF Init, TypeOK, Phases
<1>2. SearchInv /\ CallInv /\ LeaseInv /\ NoLostWait /\ NoLateWait
  BY Zenon DEF Init, SearchInv, CallInv, LeaseInv, NoLostWait, NoLateWait
<1>3. ReachInv
  BY Zenon DEF Init, ReachInv
<1>4. Acyclic
  BY Zenon DEF Init, Acyclic, Follows
<1> QED  BY <1>1, <1>2, <1>3, <1>4, Zenon DEF IInv

(* Steps of the search and of Begin leave the graph and the waiters alone. *)
LEMMA GraphUnchanged ==
  ASSUME IInv, UNCHANGED <<graph, waiters>>
  PROVE  /\ \A n, m : Follows(n, m)' <=> Follows(n, m)
         /\ \A C : Closed(C)' <=> Closed(C)
         /\ \A c, f : Separated(c, f)' <=> Separated(c, f)
         /\ LeaseInv' /\ Acyclic' /\ NoLostWait' /\ NoLateWait'
<1>1. \A n, m : Follows(n, m)' <=> Follows(n, m)
  BY Zenon DEF graph, Follows
<1>2. \A C : Closed(C)' <=> Closed(C)
  BY <1>1, Zenon DEF Closed
<1>3. \A c, f : Separated(c, f)' <=> Separated(c, f)
  BY <1>2, Zenon DEF Separated
<1>4. Acyclic'
  BY <1>1, AcyclicShrink, Zenon DEF IInv
<1>5. LeaseInv' /\ NoLostWait' /\ NoLateWait'
  BY Zenon DEF graph, waiters, IInv, LeaseInv, NoLostWait, NoLateWait
<1> QED  BY <1>1, <1>2, <1>3, <1>4, <1>5, Zenon
(* Taking the mutex starts a search about which nothing is known yet.      *)
LEMMA BeginStep ==
  ASSUME IInv, NEW op \in {"attach", "group", "register"}, NEW from \in Nodes,
         NEW tos \in SUBSET Nodes, Begin(op, from, tos),
         op = "attach" => from \in Tasks /\ tos \subseteq Sessions,
         op = "group" => from \in Sessions /\ tos \subseteq Sessions,
         op = "register" => from \in Sessions /\ tos \subseteq Tasks /\ tos \cap terminal = {}
  PROVE  IInv'
<1>1. UNCHANGED <<graph, waiters>>
  BY Zenon DEF Begin
<1>2. TypeOK'
  BY Zenon DEF IInv, TypeOK, Begin, graph, waiters, Phases, Call
<1>3. SearchInv'
  BY Zenon DEF IInv, SearchInv, Begin, Call
<1>4. ReachInv'
  BY Zenon DEF Begin, ReachInv
<1>5. CallInv'
  BY Zenon DEF Begin, CallInv, waiters
<1> QED  BY <1>1, <1>2, <1>3, <1>4, <1>5, GraphUnchanged, Zenon DEF IInv

LEMMA StartCheckStep ==
  ASSUME IInv, NEW to \in Nodes, StartCheck(to)
  PROVE  IInv'
<1>1. UNCHANGED <<graph, waiters>>
  BY Zenon DEF StartCheck
<1>2. TypeOK'
  BY Zenon DEF IInv, TypeOK, StartCheck, graph, waiters
<1>3. SearchInv'
  <2>1. ASSUME NEW c \in call.tos, c \notin left, c # to
        PROVE  Separated(c, call.from)
    <3>1. c \in Nodes
      BY Zenon DEF IInv, SearchInv, TypeOK, Call, StartCheck
    <3> QED  BY <2>1, <3>1, CheckedSeparated, Zenon DEF IInv, StartCheck
  <2>2. \A c \in call.tos \ left' : c = to \/ Separated(c, call.from)'
    BY <1>1, <2>1, GraphUnchanged, Zenon DEF StartCheck
  <2> QED  BY <2>2, Zenon DEF IInv, SearchInv, StartCheck
<1>4. ReachInv'
  BY Zenon DEF StartCheck, ReachInv
<1>5. CallInv'
  BY Zenon DEF StartCheck, IInv, CallInv, waiters
<1> QED  BY <1>1, <1>2, <1>3, <1>4, <1>5, GraphUnchanged, Zenon DEF IInv

LEMMA VisitStep ==
  ASSUME IInv, NEW n \in Nodes, Visit(n)
  PROVE  IInv'
<1>1. UNCHANGED <<graph, waiters>>
  BY Zenon DEF Visit
<1> USE <1>1, GraphUnchanged
<1>2. \/ phase' = "limit" /\ UNCHANGED <<pending, visited>>
      \/ /\ visited' = visited \cup {n}
         /\ pending' = (pending \ {n}) \cup Succ(n)
         /\ phase' = "search"
  BY Zenon DEF Visit
<1>3. phase = "search" /\ n \in pending /\ n # call.from /\ UNCHANGED <<call, left, cur>>
  BY Zenon DEF Visit
<1>4. TypeOK'
  BY <1>2, <1>3, Zenon DEF IInv, TypeOK, graph, waiters, Phases, Succ
<1>5. SearchInv'
  <2>1. call \in Call
    BY <1>3, Zenon DEF IInv, SearchInv
  <2>2. CASE phase' = "limit"
    BY <2>1, <2>2, <1>3, Zenon DEF SearchInv
  <2>3. CASE phase' = "search"
    <3>1. visited' = visited \cup {n} /\ pending' = (pending \ {n}) \cup Succ(n)
      BY <1>2, <2>3, Zenon
    <3>2. \A k \in visited' : \A m \in Nodes : Follows(k, m) => m \in visited' \cup pending'
      BY <3>1, <1>3, Zenon DEF IInv, SearchInv, Succ
    <3>3. cur # None => cur \in visited' \cup pending'
      BY <3>1, <1>3, Zenon DEF IInv, SearchInv
    <3>4. \A c \in call.tos \ left : c = cur \/ Separated(c, call.from)'
      BY <1>3, Zenon DEF IInv, SearchInv
    <3> QED  BY <2>1, <2>3, <1>3, <3>1, <3>2, <3>3, <3>4, Zenon DEF IInv, SearchInv
  <2> QED  BY <1>2, <2>2, <2>3, Zenon
<1>6. ReachInv'
  <2> SUFFICES ASSUME NEW C \in SUBSET Nodes, cur \in C, Closed(C)
               PROVE  visited' \cup pending' \subseteq C
    BY <1>3, Zenon DEF ReachInv
  <2>1. visited \cup pending \subseteq C
    BY Zenon DEF IInv, ReachInv
  <2> QED  BY <2>1, <1>2, <1>3, Zenon DEF Closed, Succ
<1>7. CallInv'
  BY <1>2, <1>3, Zenon DEF IInv, CallInv, waiters
<1> QED  BY <1>4, <1>5, <1>6, <1>7, Zenon DEF IInv

LEMMA SkipStep ==
  ASSUME IInv, NEW n \in Nodes, FoundCycle(n) \/ SkipVisited(n)
  PROVE  IInv'
<1>1. UNCHANGED <<graph, waiters>>
  BY Zenon DEF FoundCycle, SkipVisited
<1> USE <1>1, GraphUnchanged
<1>2. /\ phase = "search" /\ phase' \in {"search", "cycle"}
      /\ UNCHANGED <<call, left, cur, visited>>
      /\ pending' = pending \/ (n \in visited /\ pending' = pending \ {n})
      /\ phase' = "cycle" => call.from \in pending'
  BY Zenon DEF FoundCycle, SkipVisited
<1>3. TypeOK'
  BY <1>2, Zenon DEF IInv, TypeOK, graph, waiters, Phases
<1>4. visited' \cup pending' = visited \cup pending
  BY <1>2, Zenon
<1>5. SearchInv'
  BY <1>2, <1>4, Zenon DEF IInv, SearchInv
<1>6. ReachInv'
  BY <1>2, <1>4, Zenon DEF IInv, ReachInv
<1>7. CallInv'
  BY <1>2, Zenon DEF IInv, CallInv, waiters
<1> QED  BY <1>3, <1>5, <1>6, <1>7, Zenon DEF IInv
------------------------------------------------------------------------------
(* Releasing the mutex forgets the search.                                 *)
LEMMA UnlockStep ==
  ASSUME Unlock
  PROVE  SearchInv' /\ ReachInv' /\ CallInv'
BY Zenon DEF Unlock, SearchInv, ReachInv, CallInv, NoCall

\* Refuse and RefuseRegister
LEMMA RefuseStep ==
  ASSUME IInv, Unlock, UNCHANGED <<graph, waiters>>
  PROVE  IInv'
<1>1. TypeOK'
  BY Zenon DEF IInv, TypeOK, Unlock, graph, waiters, Phases
<1> QED  BY <1>1, UnlockStep, GraphUnchanged, Zenon DEF IInv

\* The arcs a call adds once every search of it has ended without a refusal.
LEMMA CommitAcyclic ==
  ASSUME IInv, NEW op, Passed(op),
         \A n, m \in Nodes :
           Follows(n, m)' => Follows(n, m) \/ (n = call.from /\ m \in call.tos)
  PROVE  Acyclic'
<1>1. call \in Call /\ phase = "search" /\ pending = {} /\ left = {}
  BY Zenon DEF IInv, SearchInv, Passed
<1>2. \A c \in call.tos : Separated(c, call.from)
  BY <1>1, CheckedSeparated, Zenon DEF IInv, Call
<1> QED  BY <1>1, <1>2, AcyclicExtend, Zenon DEF IInv, Call

LEMMA CommitStep ==
  ASSUME IInv, CommitAttach \/ CommitGroup
  PROVE  IInv'
<1>1. /\ Unlock /\ UNCHANGED <<edges, waiters>>
      /\ call \in Call /\ phase = "search"
  BY Zenon DEF CommitAttach, CommitGroup, Passed, IInv, SearchInv
<1>2. /\ sessions' \subseteq Tasks \X Sessions /\ groups' \subseteq Group
  BY <1>1 DEF CommitAttach, CommitGroup, Passed, IInv, TypeOK, CallInv, Group
<1>3. TypeOK'
  BY <1>1, <1>2, Zenon DEF IInv, TypeOK, Unlock, waiters, Phases
<1>4. Acyclic'
  BY CommitAcyclic DEF CommitAttach, CommitGroup, Follows
<1>5. LeaseInv' /\ NoLostWait' /\ NoLateWait'
  BY <1>1, Zenon DEF waiters, IInv, LeaseInv, NoLostWait, NoLateWait
<1> QED  BY <1>1, <1>3, <1>4, <1>5, UnlockStep, Zenon DEF IInv

LEMMA CommitRegisterStep ==
  ASSUME IInv, CommitRegister
  PROVE  IInv'
<1>1. PICK t \in call.tos :
        LET w == [session |-> call.from, target |-> t, serial |-> serial + 1]
        IN edges' = edges \cup {w} /\ leases' = leases \cup {w}
  BY Zenon DEF CommitRegister
<1> DEFINE w == [session |-> call.from, target |-> t, serial |-> serial + 1]
<1>2. /\ Unlock /\ Passed("register")
      /\ UNCHANGED <<sessions, groups, terminal, retired, wakes, woken>>
      /\ serial # MaxSerial /\ serial' = serial + 1
  BY Zenon DEF CommitRegister
<1>3. call.from \in Sessions /\ t \in Tasks /\ t \notin terminal
  BY <1>1, <1>2, Zenon DEF IInv, CallInv, Passed
<1>4. serial \in Nat /\ serial + 1 \in 1..MaxSerial
  BY <1>2, LimitAssumption DEF IInv, TypeOK
<1>5. w \in Wait
  BY <1>3, <1>4, Zenon DEF Wait
<1>6. w.session = call.from /\ w.target = t /\ w.serial = serial + 1
  BY Zenon
<1> HIDE DEF w
<1>7. edges' = edges \cup {w} /\ leases' = leases \cup {w}
  BY <1>1, Zenon DEF w
<1>8. TypeOK'
  BY <1>2, <1>4, <1>5, <1>7 DEF IInv, TypeOK, Unlock, Phases
<1>9. Acyclic'
  <2>1. \A n, m \in Nodes :
          Follows(n, m)' => Follows(n, m) \/ (n = call.from /\ m \in call.tos)
    BY <1>1, <1>2, <1>6, <1>7, Zenon DEF Follows
  <2> QED  BY <2>1, <1>2, CommitAcyclic, Zenon
<1>10. \A l \in leases : l.serial \in Nat /\ l.serial <= serial
  BY DEF IInv, LeaseInv, TypeOK, Wait
<1>11. LeaseInv'
  <2>1. LeaseInv
    BY Zenon DEF IInv
  <2>2. serial' = serial + 1 /\ w.serial = serial' /\ \A l \in leases : l.serial <= serial' /\ l.serial # serial'
    BY <1>2, <1>4, <1>6, <1>10
  <2> QED  BY <2>1, <2>2, <1>4, <1>7 DEF LeaseInv
<1>12. NoLostWait' /\ NoLateWait'
  BY <1>2, <1>3, <1>6, <1>7, Zenon DEF IInv, NoLostWait, NoLateWait
<1> QED  BY <1>2, <1>8, <1>9, <1>11, <1>12, UnlockStep, Zenon DEF IInv

------------------------------------------------------------------------------
(* Operations that remove arcs run while no search is in progress.         *)
LEMMA RemoveStep ==
  ASSUME IInv, phase = "free", UNCHANGED search,
         \A n, m \in Nodes : Follows(n, m)' => Follows(n, m)
  PROVE  SearchInv' /\ ReachInv' /\ CallInv' /\ Acyclic'
<1>1. SearchInv' /\ ReachInv' /\ CallInv'
  BY Zenon DEF search, IInv, SearchInv, ReachInv, CallInv
<1> QED  BY <1>1, AcyclicShrink, Zenon DEF IInv

LEMMA DropLeaseStep ==
  ASSUME IInv, NEW l \in leases, DropLease(l)
  PROVE  IInv'
<1>1. /\ phase = "free" /\ leases' = leases \ {l}
      /\ edges' = {e \in edges : ~(e.session = l.session /\ e.serial = l.serial)}
      /\ UNCHANGED <<sessions, groups, search, serial, terminal, retired, wakes, woken>>
  BY Zenon DEF DropLease
<1>2. edges' = edges \ {l}
  BY <1>1, Zenon DEF IInv, LeaseInv
<1>3. TypeOK'
  BY <1>1, <1>2, Zenon DEF IInv, TypeOK, search
<1>4. \A n, m \in Nodes : Follows(n, m)' => Follows(n, m)
  BY <1>1, <1>2, Zenon DEF Follows
<1>5. LeaseInv' /\ NoLostWait' /\ NoLateWait'
  BY <1>1, <1>2, Zenon DEF IInv, LeaseInv, NoLostWait, NoLateWait
<1> QED  BY <1>1, <1>3, <1>4, <1>5, RemoveStep, Zenon DEF IInv

LEMMA DetachGroupStep ==
  ASSUME IInv, NEW p \in Sessions, DetachGroup(p)
  PROVE  IInv'
<1>1. /\ phase = "free" /\ groups' \subseteq groups
      /\ UNCHANGED <<sessions, edges, search, waiters>>
  BY Zenon DEF DetachGroup
<1>2. TypeOK'
  BY <1>1, Zenon DEF IInv, TypeOK, search, waiters
<1>3. \A n, m \in Nodes : Follows(n, m)' => Follows(n, m)
  BY <1>1, Zenon DEF Follows
<1>4. LeaseInv' /\ NoLostWait' /\ NoLateWait'
  BY <1>1, Zenon DEF IInv, LeaseInv, NoLostWait, NoLateWait, waiters
<1> QED  BY <1>1, <1>2, <1>3, <1>4, RemoveStep, Zenon DEF IInv

LEMMA CompleteStep ==
  ASSUME IInv, NEW t \in Tasks, Complete(t)
  PROVE  IInv'
<1> DEFINE own == {s \in Sessions : <<t, s>> \in sessions}
<1>1. /\ phase = "free"
      /\ sessions' \subseteq sessions /\ edges' \subseteq edges
      /\ edges' = {e \in edges : e.session \notin own /\ e.target # t}
      /\ wakes' = wakes \cup {e \in edges : e.session \notin own /\ e.target = t}
      /\ retired' = retired \cup own /\ terminal' = terminal \cup {t}
      /\ UNCHANGED <<groups, search, serial, leases, woken>>
  BY Zenon DEF Complete
<1>2. own \subseteq Sessions
  BY Zenon
<1> HIDE DEF own
<1>3. TypeOK'
  BY <1>1, <1>2, Zenon DEF IInv, TypeOK, search
<1>4. \A n, m \in Nodes : Follows(n, m)' => Follows(n, m)
  BY <1>1, Zenon DEF Follows
<1>5. LeaseInv'
  BY <1>1, Zenon DEF IInv, LeaseInv
<1>6. NoLostWait' /\ NoLateWait'
  BY <1>1, Zenon DEF IInv, NoLostWait, NoLateWait
<1> QED  BY <1>1, <1>3, <1>4, <1>5, <1>6, RemoveStep, Zenon DEF IInv

LEMMA WakeStep ==
  ASSUME IInv, NEW w \in wakes, Wake(w)
  PROVE  IInv'
<1>1. /\ wakes' = wakes \ {w} /\ woken' = woken \cup {w}
      /\ UNCHANGED <<graph, search, serial, leases, terminal, retired>>
  BY Zenon DEF Wake
<1>2. TypeOK'
  BY <1>1, Zenon DEF IInv, TypeOK, search, graph
<1>3. \A n, m : Follows(n, m)' <=> Follows(n, m)
  BY <1>1, Zenon DEF Follows, graph
<1>4. \A C : Closed(C)' <=> Closed(C)
  BY <1>3, Zenon DEF Closed
<1>5. \A c, f : Separated(c, f)' <=> Separated(c, f)
  BY <1>4, Zenon DEF Separated
<1>6. SearchInv' /\ CallInv'
  BY <1>1, <1>3, <1>5, Zenon DEF IInv, SearchInv, CallInv, search
<1>7. ReachInv'
  BY <1>1, <1>4, Zenon DEF IInv, ReachInv, search
<1>8. Acyclic'
  BY <1>3, AcyclicShrink, Zenon DEF IInv
<1>9. LeaseInv' /\ NoLostWait' /\ NoLateWait'
  BY <1>1, Zenon DEF IInv, LeaseInv, NoLostWait, NoLateWait, graph
<1> QED  BY <1>2, <1>6, <1>7, <1>8, <1>9, Zenon DEF IInv

------------------------------------------------------------------------------
THEOREM NextInv == IInv /\ [Next]_vars => IInv'
<1> SUFFICES ASSUME IInv, [Next]_vars PROVE IInv'
  BY Zenon
<1>1. ASSUME NEW t \in Tasks, NEW s \in Sessions, Attach(t, s)
      PROVE  IInv'
  BY <1>1, BeginStep, Zenon DEF Attach, Nodes
<1>2. ASSUME NEW p \in Sessions, NEW a \in Sessions, NEW b \in Sessions,
             AttachGroup(p, {a, b})
      PROVE  IInv'
  BY <1>2, BeginStep, Zenon DEF AttachGroup, Nodes
<1>3. ASSUME NEW s \in Sessions, NEW t \in Tasks, Register(s, t)
      PROVE  IInv'
  BY <1>3, BeginStep, Zenon DEF Register, Nodes
<1>4. CASE Search
  BY <1>4, StartCheckStep, SkipStep, VisitStep, Zenon DEF Search
<1>5. CASE Refuse \/ RefuseRegister
  BY <1>5, RefuseStep, Zenon DEF Refuse, RefuseRegister
<1>6. CASE CommitAttach \/ CommitGroup \/ CommitRegister
  BY <1>6, CommitStep, CommitRegisterStep, Zenon
<1>7. CASE UNCHANGED vars
  <2>1. UNCHANGED <<graph, waiters>> /\ UNCHANGED search
    BY <1>7, Zenon DEF vars
  <2>2. TypeOK' /\ SearchInv' /\ ReachInv' /\ CallInv'
    BY ZenonT(40), <2>1, GraphUnchanged
       DEF IInv, TypeOK, SearchInv, ReachInv, CallInv, graph, waiters, search
  <2> QED  BY <2>1, <2>2, GraphUnchanged, Zenon DEF IInv
<1> QED
  BY ZenonT(40), <1>1, <1>2, <1>3, <1>4, <1>5, <1>6, <1>7, DropLeaseStep, DetachGroupStep,
     CompleteStep, WakeStep DEF Next

(* The inductive invariant holds in every reachable state.                 *)
THEOREM Invariance == Spec => []IInv
BY InitInv, NextInv, PTL DEF Spec

(* The registry's state is well typed; in particular the serial of a       *)
(* waiter never exceeds its largest value.                                 *)
THEOREM TypeCorrect == Spec => []TypeOK
<1>1. IInv => TypeOK
  BY Zenon DEF IInv
<1> QED  BY <1>1, Invariance, PTL

(* The wait graph of dependencies.rs never has a cycle, for any number of  *)
(* sessions, tasks, waiters and groups.                                    *)
THEOREM WaitsAcyclic == Spec => []Acyclic
<1>1. IInv => Acyclic
  BY Zenon DEF IInv
<1> QED  BY <1>1, Invariance, PTL

(* check_edge refuses only an arc whose target already waits for its       *)
(* source.                                                                 *)
THEOREM RefusalsJustified == Spec => []RefusalExact
<1>1. IInv => RefusalExact
  BY Zenon DEF IInv, RefusalExact, ReachInv, SearchInv
<1> QED  BY <1>1, Invariance, PTL

(* A session that holds a lease is registered, being woken, woken or over: *)
(* neither a stale lease nor a completion loses a waiter.                  *)
THEOREM WaitersKept == Spec => [](NoLostWait /\ NoLateWait)
<1>1. IInv => NoLostWait /\ NoLateWait
  BY Zenon DEF IInv
<1> QED  BY <1>1, Invariance, PTL

=============================================================================
