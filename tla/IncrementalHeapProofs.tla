----------------------- MODULE IncrementalHeapProofs -----------------------
(***************************************************************************)
(* Proofs about IncrementalHeap: what the operations on marks do to the    *)
(* colours, type correctness, and that every operation of the mutator but  *)
(* allocation preserves IInv: what it publishes is discovered before the   *)
(* step ends, so no black object names a white one.                        *)
(***************************************************************************)
EXTENDS IncrementalHeap, TLAPS

-----------------------------------------------------------------------------
(***************************************************************************)
(* What the operations on marks do to the colours.                         *)
(***************************************************************************)

\* The lazy reset of PageMarks::ensure changes no colour.
LEMMA EnsureLemma ==
    ASSUME NEW m \in MarkType, NEW P \in SUBSET Pages
    PROVE  /\ Ensure(m, P) \in MarkType
           /\ Ensure(m, P).current = m.current \cup P
           /\ Discovered(Ensure(m, P)) = Discovered(m)
           /\ Black(Ensure(m, P)) = Black(m)
           /\ Ensure(m, P).queued = m.queued \ (P \ m.current)
           /\ Ensure(m, P).jobs = m.jobs
           /\ m.scanned \subseteq m.discovered =>
                 Ensure(m, P).scanned \subseteq Ensure(m, P).discovered
<1> DEFINE e == Ensure(m, P)
           cleared == {o \in Objects : PageOf[o] \in P \ m.current}
<1>1. /\ e.current = m.current \cup (P \ m.current)
      /\ e.discovered = m.discovered \ cleared
      /\ e.scanned = m.scanned \ cleared
      /\ e.queued = m.queued \ (P \ m.current)
      /\ e.jobs = m.jobs
  BY Zenon DEF Ensure, MarkType
<1>2. e \in MarkType
  BY ZenonT(40) DEF Ensure, MarkType
<1>3. m.discovered \subseteq Objects /\ m.scanned \subseteq Objects
  BY Zenon DEF MarkType
<1> HIDE DEF e
<1>4. Discovered(e) = Discovered(m)
  BY <1>1, <1>3, Zenon DEF Discovered
<1>5. Black(e) = Black(m)
  BY <1>1, <1>3, Zenon DEF Black
<1> QED
  BY <1>1, <1>2, <1>4, <1>5, Zenon DEF e

\* PageMarks::set_black blackens o and nothing else.
LEMMA SetBlackLemma ==
    ASSUME NEW m \in MarkType, NEW o \in Objects
    PROVE  /\ SetBlack(m, o) \in MarkType
           /\ SetBlack(m, o).current = m.current \cup {PageOf[o]}
           /\ Discovered(SetBlack(m, o)) = Discovered(m) \cup {o}
           /\ Black(SetBlack(m, o)) = Black(m) \cup {o}
           /\ SetBlack(m, o).queued = m.queued \ ({PageOf[o]} \ m.current)
           /\ SetBlack(m, o).jobs = m.jobs
           /\ m.scanned \subseteq m.discovered =>
                 SetBlack(m, o).scanned \subseteq SetBlack(m, o).discovered
<1> DEFINE e == Ensure(m, {PageOf[o]})
           b == SetBlack(m, o)
<1>1. PageOf[o] \in Pages
  BY PageAssumption, Zenon
<1>2. /\ e \in MarkType
      /\ e.current = m.current \cup {PageOf[o]}
      /\ Discovered(e) = Discovered(m)
      /\ Black(e) = Black(m)
      /\ e.queued = m.queued \ ({PageOf[o]} \ m.current)
      /\ e.jobs = m.jobs
      /\ m.scanned \subseteq m.discovered => e.scanned \subseteq e.discovered
  BY <1>1, EnsureLemma
<1>3. b = [e EXCEPT !.discovered = @ \cup {o}, !.scanned = @ \cup {o}]
  BY Zenon DEF SetBlack
<1> HIDE DEF e, b
<1>4. /\ b \in MarkType
      /\ b.current = e.current /\ b.queued = e.queued /\ b.jobs = e.jobs
      /\ b.discovered = e.discovered \cup {o}
      /\ b.scanned = e.scanned \cup {o}
  BY ZenonT(40), <1>2, <1>3 DEF MarkType
<1>5. Discovered(b) = Discovered(e) \cup {o}
  BY <1>2, <1>4, Zenon DEF Discovered
<1>6. Black(b) = Black(e) \cup {o}
  BY <1>2, <1>4, Zenon DEF Black
<1> QED
  BY <1>2, <1>4, <1>5, <1>6, Zenon DEF b

\* Marking::publish_admitted discovers the objects of S, blackens no object that
\* has edges, and queues the page of every object it turns gray, once.
LEMMA ShadeLemma ==
    ASSUME NEW m \in MarkType, NEW S \in SUBSET Objects
    PROVE  /\ Shade(m, S) \in MarkType
           /\ m.current \subseteq Shade(m, S).current
           /\ Discovered(Shade(m, S)) = Discovered(m) \cup S
           /\ Black(Shade(m, S)) =
                 Black(m) \cup {o \in S \ Discovered(m) : Arity[o] = 0}
           /\ m.scanned \subseteq m.discovered =>
                 Shade(m, S).scanned \subseteq Shade(m, S).discovered
           /\ m.queued \subseteq m.current /\ JobsMatch(m) =>
                 /\ JobsMatch(Shade(m, S))
                 /\ m.queued \subseteq Shade(m, S).queued
                 /\ \A o \in S \ Discovered(m) :
                       Arity[o] # 0 => PageOf[o] \in Shade(m, S).queued
                 /\ \A p \in Shade(m, S).queued :
                       /\ p \in Shade(m, S).current
                       /\ p \in m.queued \/ \E o \in S : PageOf[o] = p
<1> DEFINE white == S \ Discovered(m)
           leaves == {o \in white : Arity[o] = 0}
           pages == {PageOf[o] : o \in white}
           gray == {PageOf[o] : o \in white \ leaves}
           e == Ensure(m, pages)
           newJobs == [p \in Pages |->
               IF p \in gray \ e.queued THEN e.jobs[p] + 1 ELSE e.jobs[p]]
           r == Shade(m, S)
<1>1. pages \in SUBSET Pages /\ gray \subseteq pages
  BY PageAssumption, Zenon
<1>2. /\ e \in MarkType
      /\ e.current = m.current \cup pages
      /\ Discovered(e) = Discovered(m)
      /\ Black(e) = Black(m)
      /\ e.queued = m.queued \ (pages \ m.current)
      /\ e.jobs = m.jobs
      /\ m.scanned \subseteq m.discovered => e.scanned \subseteq e.discovered
  <2> HIDE DEF pages
  <2> QED  BY <1>1, EnsureLemma, Zenon
<1>3. r = [e EXCEPT !.discovered = @ \cup white,
                    !.scanned = @ \cup leaves,
                    !.queued = @ \cup gray,
                    !.jobs = newJobs]
  BY Zenon DEF Shade
<1>4. /\ leaves \subseteq white /\ white \subseteq S
      /\ \A o \in white : PageOf[o] \in pages
      /\ \A o \in white \ leaves : PageOf[o] \in gray
      /\ \A p \in gray : \E o \in S : PageOf[o] = p
      /\ \A o \in leaves : Arity[o] = 0
      /\ \A o \in white : Arity[o] = 0 => o \in leaves
  BY Zenon
<1>5. leaves = {o \in S \ Discovered(m) : Arity[o] = 0} /\ white = S \ Discovered(m)
  BY Zenon
<1> HIDE DEF white, leaves, pages, gray, e, r
<1>6. /\ r.current = e.current
      /\ r.discovered = e.discovered \cup white
      /\ r.scanned = e.scanned \cup leaves
      /\ r.queued = e.queued \cup gray
      /\ r.jobs = newJobs
      /\ r \in MarkType
  <2>1. newJobs \in [Pages -> Nat]
    BY <1>2 DEF MarkType
  <2> HIDE DEF newJobs
  <2> QED  BY ZenonT(40), <1>1, <1>2, <1>3, <1>4, <2>1 DEF MarkType
<1>7. Discovered(r) = Discovered(m) \cup S
  BY <1>2, <1>4, <1>5, <1>6, Zenon DEF Discovered
<1>8. Black(r) = Black(m) \cup leaves
  BY <1>2, <1>4, <1>6, Zenon DEF Black
<1>9. ASSUME m.queued \subseteq m.current, JobsMatch(m)
      PROVE  /\ JobsMatch(r)
             /\ m.queued \subseteq r.queued
             /\ \A o \in S \ Discovered(m) : Arity[o] # 0 => PageOf[o] \in r.queued
             /\ \A p \in r.queued :
                   p \in r.current /\ (p \in m.queued \/ \E o \in S : PageOf[o] = p)
  <2>1. e.queued = m.queued
    BY <1>2, <1>9, Zenon
  <2>2. JobsMatch(r)
    BY <1>2, <1>6, <1>9, <2>1 DEF JobsMatch, MarkType
  <2>3. \A p \in r.queued :
           p \in r.current /\ (p \in m.queued \/ \E o \in S : PageOf[o] = p)
    BY <1>1, <1>2, <1>4, <1>6, <1>9, <2>1, Zenon
  <2>4. \A o \in S \ Discovered(m) : Arity[o] # 0 => PageOf[o] \in r.queued
    BY <1>4, <1>5, <1>6, Zenon
  <2> QED  BY <1>6, <2>1, <2>2, <2>3, <2>4, Zenon
<1> QED
  BY <1>2, <1>4, <1>5, <1>6, <1>7, <1>8, <1>9, Zenon DEF r

\* Reserving a free slot takes no colour from an object, and leaves the slot white.
LEMMA ReserveLemma ==
    ASSUME marks \in MarkType, occupied \subseteq Objects,
           NEW o \in Objects, o \notin occupied
    PROVE  /\ Reserve(o) \in MarkType
           /\ Discovered(Reserve(o)) \subseteq Discovered(marks) \ {o}
           /\ Discovered(Reserve(o)) \cap occupied = Discovered(marks) \cap occupied
           /\ Black(Reserve(o)) \subseteq Black(marks) \ {o}
           /\ Black(Reserve(o)) \cap occupied = Black(marks) \cap occupied
           /\ Discovered(Reserve(o)) \ Black(Reserve(o)) \subseteq Gray(marks)
           /\ Reserve(o).jobs = marks.jobs
           /\ (\A p \in marks.queued : PageExists(p) /\ p \in marks.current) =>
                 /\ Reserve(o).queued = marks.queued
                 /\ \A p \in marks.queued : p \in Reserve(o).current
           /\ Reserve(o).queued \subseteq marks.queued
           /\ marks.scanned \subseteq marks.discovered =>
                 Reserve(o).scanned \subseteq Reserve(o).discovered
<1> DEFINE p == PageOf[o]
           r == Reserve(o)
           gone == IF PageExists(p) THEN {} ELSE {p}
           cleared == IF PageExists(p) THEN {o} ELSE SlotsOf(p)
<1>1. /\ r.current = marks.current \ gone
      /\ r.discovered = marks.discovered \ cleared
      /\ r.scanned = marks.scanned \ cleared
      /\ r.queued = marks.queued \ gone
      /\ r.jobs = marks.jobs
      /\ r \in MarkType
  BY ZenonT(40) DEF Reserve, ClearSlot, MarkType
<1>2. /\ o \in cleared /\ cleared \cap occupied = {}
      /\ cleared \subseteq Objects
      /\ \A x \in Objects \ cleared : PageOf[x] \notin gone
  BY Zenon DEF PageExists, SlotsOf
<1>3. \A q \in gone : ~PageExists(q)
  BY Zenon
<1>4. \A x \in occupied : x \notin cleared
  BY <1>2, Zenon
<1> HIDE DEF r, gone, cleared
<1>5. marks.discovered \subseteq Objects /\ marks.scanned \subseteq Objects
  BY Zenon DEF MarkType
<1>6. \A x : x \in Discovered(r) <=> x \in Discovered(marks) /\ x \notin cleared
  BY <1>1, <1>2, <1>5, Zenon DEF Discovered
<1>7. \A x : x \in Black(r) <=> x \in Black(marks) /\ x \notin cleared
  BY <1>1, <1>2, <1>5, Zenon DEF Black
<1> QED
  BY <1>1, <1>2, <1>3, <1>4, <1>6, <1>7, Zenon DEF r, Gray

\* Taking a page off the queue, or putting it back, changes no colour.
LEMMA PopLemma ==
    ASSUME marks \in MarkType, NEW p \in Pages, marks.jobs[p] > 0
    PROVE  /\ Popped(p) \in MarkType
           /\ Popped(p).current = marks.current
           /\ Popped(p).discovered = marks.discovered
           /\ Popped(p).scanned = marks.scanned
           /\ Popped(p).queued = marks.queued \ {p}
           /\ Popped(p).jobs = [marks.jobs EXCEPT ![p] = @ - 1]
           /\ Requeued(p) \in MarkType
           /\ Requeued(p).current = marks.current
           /\ Requeued(p).discovered = marks.discovered
           /\ Requeued(p).scanned = marks.scanned
           /\ Requeued(p).queued = marks.queued \cup {p}
           /\ Requeued(p).jobs = marks.jobs
<1> DEFINE fewer == [marks.jobs EXCEPT ![p] = @ - 1]
<1>1. fewer \in [Pages -> Nat]
  BY DEF MarkType
<1>2. Popped(p) = [marks EXCEPT !.queued = @ \ {p}, !.jobs = fewer]
  BY Zenon DEF Popped
<1>3. /\ Popped(p) \in MarkType
      /\ Popped(p).current = marks.current
      /\ Popped(p).discovered = marks.discovered
      /\ Popped(p).scanned = marks.scanned
      /\ Popped(p).queued = marks.queued \ {p}
      /\ Popped(p).jobs = fewer
  <2> HIDE DEF fewer
  <2> QED  BY ZenonT(40), <1>1, <1>2 DEF MarkType
<1> QED
  BY <1>3, Zenon DEF Requeued, MarkType

-----------------------------------------------------------------------------
(***************************************************************************)
(* Type correctness.                                                       *)
(***************************************************************************)
LEMMA PublishType ==
    ASSUME NEW m \in MarkType, NEW S \in SUBSET Objects
    PROVE  Publish(m, S) \in MarkType
  BY ShadeLemma, Zenon DEF Publish

LEMMA TypeInit == Init => TypeOK
<1> SUFFICES ASSUME Init PROVE TypeOK
  BY Zenon
<1>1. EdgesTyped(edges)
  BY Zenon DEF Init, NoEdges, EdgesTyped
<1>2. marks \in MarkType
  BY Zenon DEF Init, NoMarks, MarkType
<1>3. active \in ScanType
  BY Zenon DEF Init, NoScan, ScanType
<1>4. TargetsTyped(targets)
  BY Zenon DEF Init, TargetsTyped
<1>5. cursor \in CursorType
  BY DEF Init, NoCursor, CursorType
<1>6. sweep \in SweepType
  BY Zenon DEF Init, NoSweep, SweepType
<1> QED
  BY ZenonT(40), <1>1, <1>2, <1>3, <1>4, <1>5, <1>6 DEF Init, TypeOK, Phases

\* A handle, an edge or a root that is not None is an object.
LEMMA TypeFacts ==
    ASSUME TypeOK
    PROVE  /\ marks \in MarkType
           /\ \A o \in Objects : Targets(edges, o, None) \subseteq Objects
           /\ \A o \in Objects : \A f \in Fields(o) :
                 /\ edges[o][f] \in Objects \cup {None}
                 /\ edges[o][f] # None => edges[o][f] \in Targets(edges, o, None)
           /\ \A o \in Objects : \A t \in Targets(edges, o, None) :
                 t # None /\ \E f \in Fields(o) : t = edges[o][f]
           /\ \A p \in Packs : \A i \in 1..Width[p] : targets[p][i] \in Objects \cup {None}
           /\ \A s \in SourceSlots : source[s] \in Objects \cup {None}
<1>1. marks \in MarkType
  BY Zenon DEF TypeOK
<1>2. \A o \in Objects : DOMAIN edges[o] = Fields(o)
                         /\ \A f \in Fields(o) : edges[o][f] \in Objects \cup {None}
  BY Zenon DEF TypeOK, EdgesTyped
<1>3. \A o \in Objects : \A f \in Fields(o) :
         edges[o][f] # None => edges[o][f] \in Targets(edges, o, None)
  BY <1>2, Zenon DEF Targets
<1>4. \A o \in Objects : \A t \in Targets(edges, o, None) :
         t # None /\ \E f \in Fields(o) : t = edges[o][f]
  BY <1>2, Zenon DEF Targets
<1>5. \A p \in Packs : \A i \in 1..Width[p] : targets[p][i] \in Objects \cup {None}
  <2>1. \A p \in Packs : targets[p] \in [1..Width[p] -> Objects \cup {None}]
    BY Zenon DEF TypeOK, TargetsTyped
  <2> QED  BY ZenonT(40), <2>1
<1>6. \A s \in SourceSlots : source[s] \in Objects \cup {None}
  BY Zenon DEF TypeOK
<1>7. \A o \in Objects : Targets(edges, o, None) \subseteq Objects
  BY <1>2, <1>4
<1> QED
  BY <1>1, <1>2, <1>3, <1>4, <1>5, <1>6, <1>7, Zenon

LEMMA EdgesUpdate ==
    ASSUME NEW g, EdgesTyped(g), NEW o \in Objects,
           NEW e \in [Fields(o) -> Objects \cup {None}]
    PROVE  EdgesTyped([g EXCEPT ![o] = e])
  BY Zenon DEF EdgesTyped

LEMMA TargetsUpdate ==
    ASSUME NEW g, TargetsTyped(g), NEW p \in Packs,
           NEW t \in [1..Width[p] -> Objects \cup {None}]
    PROVE  TargetsTyped([g EXCEPT ![p] = t])
  BY Zenon DEF TargetsTyped

\* An update of one position is an update of the whole edge or target list.
LEMMA PointUpdate ==
    ASSUME TypeOK, NEW v \in Objects \cup {None}
    PROVE  /\ \A o \in Objects : \A f \in Fields(o) :
                 EdgesTyped([edges EXCEPT ![o][f] = v])
           /\ \A p \in Packs : \A i \in 1..Width[p] :
                 TargetsTyped([targets EXCEPT ![p][i] = v])
  BY Zenon DEF TypeOK, EdgesTyped, TargetsTyped

LEMMA TypeStep == TypeOK /\ [Next]_vars => TypeOK'
<1> SUFFICES ASSUME TypeOK, [Next]_vars PROVE TypeOK'
  BY Zenon
<1> USE DEF TypeOK
<1>1. ASSUME OpenScope \/ CloseScope \/ MutatorFault \/ RootsDone \/ CollectorFault
      PROVE  TypeOK'
  BY ZenonT(40), <1>1 DEF OpenScope, CloseScope, MutatorFault, RootsDone, CollectorFault, Phases
<1>2. ASSUME NEW o \in Objects \cup {None}, Hold(o) PROVE TypeOK'
  BY <1>2, Zenon DEF Hold
<1>3. ASSUME NEW p \in Packs, NEW i \in 1..Width[p], GetRoot(p, i) PROVE TypeOK'
  BY <1>2, <1>3, TypeFacts, Zenon DEF GetRoot
<1>4. ASSUME NEW o \in held, NEW f \in Fields(o), Follow(o, f) PROVE TypeOK'
  BY <1>2, <1>4, TypeFacts, Zenon DEF Follow
<1>5. ASSUME NEW s \in SourceSlots, SourceGet(s) PROVE TypeOK'
  BY <1>2, <1>5, TypeFacts, Zenon DEF SourceGet
<1>6. ASSUME NEW p \in Packs, NEW i \in 1..Width[p], NEW v \in held \cup {None},
             SetRoot(p, i, v)
      PROVE  TypeOK'
  BY ZenonT(40), <1>6, PublishType, PointUpdate DEF SetRoot
<1>7. ASSUME NEW o \in held, NEW f \in Fields(o), RemoveRepaired(o, f)
      PROVE  TypeOK'
  <2> DEFINE e == [g \in Fields(o) |->
                 IF g < f THEN edges[o][g]
                 ELSE IF g < Arity[o] THEN edges[o][g + 1] ELSE None]
  <2>1. e \in [Fields(o) -> Objects \cup {None}]
    BY TypeFacts, ArityAssumption DEF Fields
  <2>2. edges' = [edges EXCEPT ![o] = e]
    BY <1>7, Zenon DEF RemoveRepaired
  <2>3. EdgesTyped(edges')
    <3> HIDE DEF e
    <3> QED  BY ZenonT(40), <2>1, <2>2, EdgesUpdate
  <2>4. active' \in ScanType
    BY <1>7, ArityAssumption DEF RemoveRepaired, ScanType, Fields
  <2> QED
    BY <1>7, <2>3, <2>4, Zenon DEF RemoveRepaired
<1>8. ASSUME NEW o \in held, NEW f \in Fields(o), NEW v \in held \cup {None},
             SetEdge(o, f, v)
      PROVE  TypeOK'
  BY <1>8, PublishType, PointUpdate DEF SetEdge, Phases
<1>9. ASSUME NEW s \in SourceSlots, NEW v \in held \cup {None}, SetSource(s, v)
      PROVE  TypeOK'
  BY <1>9, PublishType, Zenon DEF SetSource
<1>10. ASSUME NEW o \in Objects \ occupied, NEW e \in Contents(o), Allocate(o, e)
       PROVE  TypeOK'
  <2>1. e \in [Fields(o) -> Objects \cup {None}]
    BY Zenon DEF Contents
  <2>2. {e[f] : f \in Fields(o)} \ {None} \in SUBSET Objects
    BY <2>1, Zenon
  <2>3. Reserve(o) \in MarkType
    BY ReserveLemma, Zenon
  <2>4. marks' \in MarkType
    BY <1>10, <2>2, <2>3, PublishType, SetBlackLemma, Zenon DEF Allocate
  <2> QED
    BY ZenonT(40), <1>10, <2>1, <2>4, EdgesUpdate DEF Allocate
<1>11. ASSUME NEW o \in Objects \ occupied, NEW T \in SUBSET held, AllocateFails(o, T)
       PROVE  TypeOK'
  BY <1>11, ReserveLemma, PublishType, Zenon DEF AllocateFails
<1>12. ASSUME NEW o \in held, NEW e \in Rearranged(o),
              EditRestart(o, e) \/ EditContinue(o, e)
       PROVE  TypeOK'
  <2>1. e \in [Fields(o) -> Objects \cup {None}]
    BY TypeFacts, Zenon DEF Rearranged
  <2>2. Imported(o, e) \in SUBSET Objects /\ Moved(o, e) \in SUBSET Objects
    BY <2>1, Zenon DEF Imported, Moved
  <2>3. EdgesTyped([edges EXCEPT ![o] = e])
    BY <2>1, EdgesUpdate, Zenon
  <2>4. marks' \in MarkType
    BY <1>12, <2>2, PublishType DEF EditRestart, EditContinue
  <2>5. active' \in ScanType
    BY <1>12, Zenon DEF EditRestart, EditContinue, ScanType
  <2> QED
    BY <1>12, <2>3, <2>4, <2>5, Zenon DEF EditRestart, EditContinue
<1>13. ASSUME NEW p \in Packs \ Typed, CreateRoots(p) PROVE TypeOK'
  BY ZenonT(40), <1>13, TargetsUpdate DEF CreateRoots
<1>14. ASSUME NEW p \in Typed, NEW o \in held, Retain(p, o) PROVE TypeOK'
  BY ZenonT(40), <1>14, TypedAssumption, TargetsUpdate, PublishType DEF Retain
<1>15. ASSUME ScanEdge PROVE TypeOK'
  <2>1. /\ active.owner \in Objects
        /\ ScanPosition + 1 \in Fields(active.owner)
    BY <1>15, ArityAssumption DEF ScanEdge, ScanPosition, ScanType, Fields
  <2>2. {edges[active.owner][ScanPosition + 1]} \ {None} \in SUBSET Objects
    BY <2>1, TypeFacts
  <2>3. marks' \in MarkType
    BY ZenonT(40), <1>15, <2>2, ShadeLemma DEF ScanEdge
  <2>4. active' \in ScanType
    BY <1>15, <2>1 DEF ScanEdge, ScanType, Fields
  <2> QED
    BY <1>15, <2>3, <2>4, Zenon DEF ScanEdge
<1>16. ASSUME ScanDone PROVE TypeOK'
  <2>1. active.owner \in Objects /\ NoScan \in ScanType
    BY <1>16, Zenon DEF ScanDone, ScanType, NoScan
  <2> QED
    BY <1>16, <2>1, SetBlackLemma, Zenon DEF ScanDone
<1>17. ASSUME MarkDone PROVE TypeOK'
  <2>1. sweep' \in SweepType
    BY <1>17, Zenon DEF MarkDone, SweepType
  <2> QED  BY <1>17, <2>1, Zenon DEF MarkDone, Phases
<1>18. ASSUME SweepPagesDone PROVE TypeOK'
  <2>1. sweep' \in SweepType
    BY <1>18, Zenon DEF SweepPagesDone, SweepType, ReleasedPacks
  <2> QED  BY <1>18, <2>1, Zenon DEF SweepPagesDone
<1>19. ASSUME SweepDone PROVE TypeOK'
  <2>1. sweep' \in SweepType
    BY <1>19, Zenon DEF SweepDone, NoSweep, SweepType
  <2> QED  BY <1>19, <2>1, Zenon DEF SweepDone, Phases
<1>20. ASSUME NEW p \in Packs, ScanRootTarget(p) PROVE TypeOK'
  <2>1. cursor.at \in Nat \ {0} /\ cursor.at + 1 \in Nat \ {0}
    BY DEF CursorType
  <2>2. {targets[p][cursor.at]} \ {None} \in SUBSET Objects
    BY <1>20, Zenon DEF ScanRootTarget
  <2>3. cursor' \in CursorType
    BY ZenonT(40), <1>20, <2>1 DEF ScanRootTarget, CursorType
  <2> QED  BY <1>20, <2>2, <2>3, ShadeLemma, Zenon DEF ScanRootTarget
<1>21. ASSUME NEW p \in Packs, ScanRootNext(p) PROVE TypeOK'
  <2>1. cursor' \in CursorType
    <3>1. 1 \in Nat \ {0}
      OBVIOUS
    <3> QED  BY ZenonT(40), <1>21, <3>1 DEF ScanRootNext, CursorType
  <2> QED  BY <1>21, <2>1, Zenon DEF ScanRootNext
<1>22. ASSUME NEW p \in Packs, ReleaseRoot(p) PROVE TypeOK'
  <2>1. sweep' \in SweepType
    BY <1>22, Zenon DEF ReleaseRoot, SweepType
  <2> QED  BY ZenonT(40), <1>22, <2>1, TargetsUpdate DEF ReleaseRoot
<1>23. ASSUME NEW s \in SourceSlots, ScanSource(s) PROVE TypeOK'
  <2>1. cursor' \in CursorType
    BY <1>23, Zenon DEF ScanSource, CursorType
  <2>2. {source[s]} \ {None} \in SUBSET Objects
    BY TypeFacts
  <2> QED  BY <1>23, <2>1, <2>2, ShadeLemma, Zenon DEF ScanSource
<1>24. ASSUME NEW p \in Pages, BeginScan(p) PROVE TypeOK'
  <2>1. marks.jobs[p] \in Nat /\ marks.jobs[p] > 0
    BY <1>24, Zenon DEF BeginScan, MarkType
  <2>2. Popped(p) \in MarkType /\ Requeued(p) \in MarkType
    BY ZenonT(40), <2>1, PopLemma
  <2>3. marks' = Popped(p) \/ marks' = Requeued(p)
    BY <1>24, Zenon DEF BeginScan
  <2>5. active' \in ScanType
    <3>1. CASE UNCHANGED active
      BY <3>1, Zenon
    <3>2. ASSUME NEW o \in Objects,
                 active' = [owner |-> o, at |-> 0, restart |-> FALSE]
          PROVE  active' \in ScanType
      BY <3>2, Zenon DEF ScanType
    <3> QED  BY <1>24, <3>1, <3>2, Zenon DEF BeginScan
  <2> QED  BY <1>24, <2>2, <2>3, <2>5, Zenon DEF BeginScan
<1>25. ASSUME NEW o \in Objects, Retire(o)
       PROVE  occupied' \subseteq Objects /\ EdgesTyped(edges') /\ sweep' \in SweepType
  <2>1. NoEdges(o) \in [Fields(o) -> Objects \cup {None}]
    BY Zenon DEF NoEdges
  <2>2. sweep' \in SweepType
    BY <1>25, Zenon DEF Retire, SweepType
  <2> QED  BY ZenonT(40), <1>25, <2>1, <2>2, EdgesUpdate DEF Retire
<1>26. ASSUME NEW o \in Objects, SweepSlot(o) PROVE TypeOK'
  <2>1. [sweep EXCEPT !.ahead = @ \ {o}] \in SweepType
    BY Zenon DEF SweepType
  <2> QED  BY ZenonT(40), <1>25, <1>26, <2>1 DEF SweepSlot
<1>27. ASSUME NEW o \in Objects, SweepPanics(o) PROVE TypeOK'
  BY <1>25, <1>27, Zenon DEF SweepPanics, Phases
<1>28. ASSUME StartCycle PROVE TypeOK'
  <2>1. cursor' \in CursorType
    BY <1>28 DEF StartCycle, CursorType, LivePacks, ReleasedPacks
  <2>2. marks' \in MarkType
    BY <1>28, Zenon DEF StartCycle, MarkType
  <2> QED  BY <1>28, <2>1, <2>2, Zenon DEF StartCycle, Phases
<1>29. ASSUME Shutdown PROVE TypeOK'
  <2>1. EdgesTyped(edges')
    BY <1>29, Zenon DEF Shutdown, NoEdges, EdgesTyped
  <2>2. marks' \in MarkType
    BY <1>29, Zenon DEF Shutdown, NoMarks, MarkType
  <2>3. active' \in ScanType
    BY <1>29, Zenon DEF Shutdown, NoScan, ScanType
  <2>4. TargetsTyped(targets')
    BY ZenonT(40), <1>29 DEF Shutdown, TargetsTyped
  <2>5. cursor' \in CursorType
    BY <1>29 DEF Shutdown, NoCursor, CursorType
  <2>6. sweep' \in SweepType
    BY <1>29, Zenon DEF Shutdown, NoSweep, SweepType
  <2> QED
    BY <1>29, <2>1, <2>2, <2>3, <2>4, <2>5, <2>6, Zenon DEF Shutdown, Phases
<1>30. ASSUME NEW p \in Packs, DropLease(p) PROVE TypeOK'
  BY <1>30, Zenon DEF DropLease
<1>31. CASE UNCHANGED vars
  BY <1>31, Zenon DEF vars
<1> QED
  BY ZenonT(40), <1>1, <1>3, <1>4, <1>5, <1>6, <1>7, <1>8, <1>9, <1>10, <1>11, <1>12,
     <1>13, <1>14, <1>15, <1>16, <1>17, <1>18, <1>19, <1>20, <1>21, <1>22,
     <1>23, <1>24, <1>26, <1>27, <1>28, <1>29, <1>30, <1>31
     DEF Next, Mutator, CollectorStep

\* Every state the heap reaches is well typed (all of the state kept by Heap).
THEOREM TypeCorrect == Spec => []TypeOK
  BY TypeInit, TypeStep, PTL DEF Spec

-----------------------------------------------------------------------------
(***************************************************************************)
(* Consequences of publication.                                            *)
(***************************************************************************)

LEMMA BlackIsDiscovered ==
    ASSUME TypeOK, QueueInv
    PROVE  BlackNow \subseteq DiscoveredNow /\ DiscoveredNow \subseteq Objects
  BY TypeFacts, Zenon DEF QueueInv, BlackNow, DiscoveredNow, Black, Discovered, MarkType

\* Publishing objects that exist keeps the queue and the gray objects in order.
LEMMA PublishFacts ==
    ASSUME IInv, NEW S \in SUBSET occupied,
           marks' = Publish(marks, S),
           UNCHANGED <<phase, occupied>>,
           active'.owner = active.owner,
           active.owner # None => active'.at <= Arity[active.owner]
    PROVE  /\ QueueInv' /\ GrayInv'
           /\ DiscoveredNow \subseteq DiscoveredNow'
           /\ BlackNow \subseteq BlackNow'
           /\ ~Marking => DiscoveredNow' = DiscoveredNow /\ BlackNow' = BlackNow
           /\ Marking => DiscoveredNow' = DiscoveredNow \cup S
           /\ \A x \in BlackNow' \ BlackNow : Arity[x] = 0
<1>1. marks \in MarkType /\ occupied \subseteq Objects
  BY TypeFacts, Zenon DEF IInv, TypeOK
<1>2. CASE ~Marking
  <2>1. marks' = marks
    BY <1>2, Zenon DEF Publish, Marking
  <2>2. DiscoveredNow' = DiscoveredNow /\ BlackNow' = BlackNow
    BY <2>1, Zenon DEF DiscoveredNow, BlackNow
  <2>3. QueueInv'
    BY <1>2, <2>1, Zenon DEF IInv, QueueInv, Usable, Marking
  <2>4. GrayInv'
    BY <1>2, <2>1, <2>2, Zenon DEF IInv, GrayInv, Usable, Marking
  <2> QED  BY <1>2, <2>2, <2>3, <2>4, Zenon
<1>3. CASE Marking
  <2>1. marks' = Shade(marks, S) /\ S \in SUBSET Objects
    BY <1>1, <1>3, Zenon DEF Publish, Marking
  <2>2. /\ marks.scanned \subseteq marks.discovered
        /\ marks.queued \subseteq marks.current /\ JobsMatch(marks)
        /\ \A p \in marks.queued : PageExists(p)
    BY <1>3, Zenon DEF IInv, QueueInv, Usable, Marking
  <2>3. /\ marks' \in MarkType
        /\ Discovered(marks') = Discovered(marks) \cup S
        /\ Black(marks') = Black(marks) \cup {o \in S \ Discovered(marks) : Arity[o] = 0}
        /\ marks'.scanned \subseteq marks'.discovered
        /\ JobsMatch(marks')
        /\ marks.queued \subseteq marks'.queued
        /\ \A o \in S \ Discovered(marks) :
              Arity[o] # 0 => PageOf[o] \in marks'.queued
        /\ \A p \in marks'.queued :
              p \in marks'.current /\ (p \in marks.queued \/ \E o \in S : PageOf[o] = p)
    BY <1>1, <2>1, <2>2, ShadeLemma
  <2>4. \A o \in S : PageExists(PageOf[o])
    BY <1>1, Zenon DEF PageExists, SlotsOf
  <2>5. \A p : PageExists(p)' <=> PageExists(p)
    BY Zenon DEF PageExists
  <2>6. QueueInv'
    <3>1. \A p \in marks'.queued : p \in marks'.current /\ PageExists(p)'
      BY <2>2, <2>3, <2>4, <2>5, Zenon
    <3>2. Marking'
      BY <1>3, Zenon DEF Marking
    <3> QED  BY <2>3, <3>1, <3>2, Zenon DEF QueueInv, JobsMatch
  <2>7. /\ DiscoveredNow' = DiscoveredNow \cup S
        /\ BlackNow' = BlackNow \cup {o \in S \ DiscoveredNow : Arity[o] = 0}
    BY <2>3, Zenon DEF DiscoveredNow, BlackNow
  <2>8. \A o \in S \ DiscoveredNow : Arity[o] # 0 => PageOf[o] \in marks'.queued
    BY <2>3, Zenon DEF DiscoveredNow
  <2>9. GrayInv'
    BY <1>3, <2>3, <2>7, <2>8, Zenon DEF IInv, GrayInv, Usable, Marking
  <2> QED  BY <1>3, <2>6, <2>7, <2>9, Zenon
<1> QED  BY <1>2, <1>3, Zenon

\* Where the mutator can get at: before Sweep every object, in Sweep the black ones.
Nameable == IF phase = "Sweep" THEN occupied \cap BlackNow ELSE occupied

LEMMA NameableFacts ==
    ASSUME IInv, Usable
    PROVE  /\ EdgesWithin(Nameable, Nameable) /\ NamesWithin(Nameable)
           /\ \A o \in Nameable : CanPublish(o)
           /\ Nameable \subseteq occupied /\ occupied \subseteq Objects
<1>1. CASE phase = "Sweep"
  BY <1>1, Zenon DEF IInv, TypeOK, SweepInv, Safe, Nameable, CanPublish, BlackNow
<1>2. CASE phase # "Sweep"
  BY <1>2, Zenon DEF IInv, TypeOK, Usable, Phases, GraphInv, Nameable, CanPublish
<1> QED  BY <1>1, <1>2, Zenon

(***************************************************************************)
(* Every operation of a scope that allocates nothing publishes a set S,    *)
(* and writes to edges and roots only what is in S or was in the same      *)
(* place before.  The parts of that are named, to be cited one at a time.  *)
(***************************************************************************)
Publishes(S) ==
    /\ S \in SUBSET Objects /\ \A t \in S : CanPublish(t)
    /\ marks' = Publish(marks, S)
    /\ UNCHANGED <<phase, occupied, cursor, sweep>>

EdgeWrites(S) ==
    \A o \in Objects : \A f \in Fields(o) :
        edges'[o][f] \in S \cup {None} \/ \E g \in Fields(o) : edges'[o][f] = edges[o][g]

ScanKept ==
    /\ active'.owner = active.owner
    /\ active.owner # None => active'.at <= Arity[active.owner]

ScanWrites(S) ==
    active.owner # None /\ ~active'.restart =>
        /\ ~active.restart
        /\ \A f \in 1..active'.at :
              \/ edges'[active.owner][f] \in S \cup {None}
              \/ \E g \in 1..active.at : edges'[active.owner][f] = edges[active.owner][g]

RootWrites(S) ==
    /\ \A p \in Packs : packs'[p] = "live" => \A i \in 1..Width[p] :
          \/ targets'[p][i] \in S \cup {None}
          \/ packs[p] = "live" /\ targets'[p][i] = targets[p][i]
    /\ \A s \in SourceSlots : source'[s] \in S \cup {None} \/ source'[s] = source[s]

LEMMA MutatorStep ==
    ASSUME IInv, TypeOK', Usable, ScopeInv', held' \subseteq Nameable, NEW S,
           Publishes(S), EdgeWrites(S), ScanKept, ScanWrites(S), RootWrites(S)
    PROVE  IInv'
<1> DEFINE D == DiscoveredNow
           K == BlackNow
<1>1. /\ EdgesWithin(Nameable, Nameable) /\ NamesWithin(Nameable)
      /\ Nameable \subseteq occupied /\ occupied \subseteq Objects
  BY NameableFacts, Zenon
<1>2. S \subseteq Nameable
  BY Zenon DEF Publishes, CanPublish, Nameable, BlackNow
<1>3. /\ QueueInv' /\ GrayInv'
      /\ D \subseteq D' /\ K \subseteq K'
      /\ ~Marking => D' = D /\ K' = K
      /\ Marking => D' = D \cup S
      /\ \A x \in K' \ K : Arity[x] = 0
  BY <1>1, <1>2, PublishFacts, Zenon DEF Publishes, ScanKept
<1> HIDE DEF D, K
<1>4. phase' = phase /\ occupied' = occupied /\ cursor' = cursor /\ sweep' = sweep
  BY Zenon DEF Publishes
<1>5. Nameable' = Nameable
  BY <1>3, <1>4, Zenon DEF Nameable, Marking, K
<1>6. EdgesWithin(Nameable, Nameable)'
  BY <1>1, <1>2, <1>5 DEF EdgesWithin, EdgeWrites
<1>7. NamesWithin(Nameable)'
  BY <1>1, <1>2, <1>5, Zenon DEF NamesWithin, RootWrites
<1>8. GraphInv'
  BY <1>4, <1>6, <1>7, Zenon DEF GraphInv, Nameable
<1>9. SweepInv'
  <2>1. CASE phase = "Sweep"
    <3>1. BlackNow' = BlackNow /\ Nameable' = occupied' \cap BlackNow'
      BY <1>3, <1>4, <2>1, Zenon DEF Marking, Nameable, K
    <3>2. Safe(occupied \cap BlackNow)'
      BY <1>6, <1>7, <3>1, Zenon DEF Safe, EdgesWithin, NamesWithin
    <3> QED  BY <1>4, <2>1, <3>1, <3>2, Zenon DEF IInv, SweepInv
  <2>2. CASE phase # "Sweep"
    BY <1>4, <2>2, Zenon DEF SweepInv
  <2> QED  BY <2>1, <2>2, Zenon
<1>10. ColourInv'
  <2> SUFFICES ASSUME Marking PROVE ColourInv'
    BY <1>4, Zenon DEF ColourInv, Marking
  <2>1. EdgesWithin(K, D)
    BY Zenon DEF IInv, ColourInv, K, D
  <2>2. ASSUME NEW o \in K', NEW f \in Fields(o)
        PROVE  edges'[o][f] \in D' \cup {None}
    <3>1. o \in Objects
      BY <2>2, TypeFacts, Zenon DEF BlackNow, Black, MarkType, TypeOK, K
    <3>2. Arity[o] # 0
      BY <2>2, <3>1, ArityAssumption DEF Fields
    <3>3. o \in K
      BY <1>3, <2>2, <3>2, Zenon
    <3>4. \A g \in Fields(o) : edges[o][g] \in D \cup {None}
      BY <2>1, <3>3, Zenon DEF EdgesWithin
    <3> QED  BY <1>3, <2>2, <3>1, <3>4 DEF EdgeWrites
  <2>3. ASSUME active'.owner # None, ~active'.restart, NEW f \in 1..active'.at
        PROVE  edges'[active'.owner][f] \in D' \cup {None}
    <3>1. ~active.restart /\ active.owner # None
      BY <2>3, Zenon DEF ScanKept, ScanWrites
    <3>2. \A g \in 1..active.at : edges[active.owner][g] \in D \cup {None}
      BY <3>1, Zenon DEF IInv, ColourInv, D
    <3> QED  BY <1>3, <2>3, <3>1, <3>2, Zenon DEF ScanKept, ScanWrites
  <2> QED  BY <2>2, <2>3, Zenon DEF ColourInv, EdgesWithin, D, K
<1>11. RootInv'
  <2> SUFFICES ASSUME Marking PROVE RootInv'
    BY <1>4, Zenon DEF RootInv, Marking
  <2>1. /\ phase = "Roots" =>
              /\ cursor.pack # None => cursor.pack \in cursor.todo
              /\ cursor.pack = None => cursor.at = 1
        /\ \A p \in Packs : packs[p] = "live" => \A i \in 1..Width[p] :
              \/ targets[p][i] \in D \cup {None}
              \/ phase = "Roots" /\ p \in cursor.todo
                 /\ (p = cursor.pack => i >= cursor.at)
        /\ \A s \in SourceSlots :
              \/ source[s] \in D \cup {None}
              \/ phase = "Roots" /\ s \in cursor.source
    BY Zenon DEF IInv, RootInv, D
  <2> QED  BY <1>3, <1>4, <2>1, Zenon DEF RootInv, RootWrites, D
<1>12. FaultInv'
  BY <1>4, Zenon DEF FaultInv, Usable
<1> QED  BY <1>3, <1>8, <1>9, <1>10, <1>11, <1>12, Zenon DEF IInv

-----------------------------------------------------------------------------
(***************************************************************************)
(* The mutator's operations, one lemma per group.                          *)
(***************************************************************************)
LEMMA PublishNothing == marks \in MarkType /\ JobsMatch(marks) => Publish(marks, {}) = marks
<1> SUFFICES ASSUME marks \in MarkType PROVE Shade(marks, {}) = marks
  BY Zenon DEF Publish
<1> DEFINE r == Shade(marks, {})
<1>1. r \in MarkType
  BY ShadeLemma, Zenon
<1>2. /\ r.current = marks.current /\ r.discovered = marks.discovered
      /\ r.scanned = marks.scanned /\ r.queued = marks.queued
  BY DEF Shade, Ensure, MarkType
<1>3. r.jobs = marks.jobs
  BY Zenon DEF Shade, Ensure, MarkType
<1> HIDE DEF r
<1>4. r = marks
  BY <1>1, <1>2, <1>3 DEF MarkType
<1> QED  BY <1>4, Zenon DEF r

\* A scope opens or closes; a handle is taken of something nameable.
LEMMA ReadStep ==
    ASSUME IInv, TypeOK', Usable,
           UNCHANGED <<phase, occupied, edges, marks, active, packs, targets,
                       cursor, source, sweep>>,
           held' \subseteq Nameable, ScopeInv'
    PROVE  IInv'
<1>1. marks \in MarkType /\ JobsMatch(marks)
  BY Zenon DEF IInv, TypeOK, QueueInv
<1>2. marks' = Publish(marks, {})
  BY <1>1, PublishNothing, Zenon
<1>3. Publishes({})
  BY <1>2, Zenon DEF Publishes
<1>4. EdgeWrites({}) /\ RootWrites({})
  BY Zenon DEF EdgeWrites, RootWrites
<1>5. ScanKept
  BY Zenon DEF ScanKept, IInv, GrayInv
<1>6. ScanWrites({})
  BY Zenon DEF ScanWrites
<1> QED  BY <1>3, <1>4, <1>5, <1>6, MutatorStep, Zenon

LEMMA HoldStep ==
    ASSUME IInv, TypeOK', NEW o, o \in Nameable \cup {None}, Hold(o)
    PROVE  IInv'
<1>1. Usable /\ scope /\ o \in Nameable
  BY Zenon DEF Hold
<1>2. held' \subseteq Nameable
  BY <1>1, NameableFacts, Zenon DEF Hold, NamesWithin
<1>3. ScopeInv'
  BY <1>1, Zenon DEF Hold, ScopeInv
<1> QED  BY <1>1, <1>2, <1>3, ReadStep, Zenon DEF Hold

\* What an unchanged place amounts to, for the hypotheses of MutatorStep.
LEMMA Unmoved ==
    ASSUME IInv, Usable
    PROVE  /\ held \subseteq Nameable
           /\ active.owner # None => active.at <= Arity[active.owner]
           /\ active.at \in Nat
           /\ active.owner \in Objects \cup {None}
<1>1. active \in ScanType /\ GrayInv
  BY Zenon DEF IInv, TypeOK
<1>2. held \subseteq Nameable
  BY NameableFacts, Zenon DEF NamesWithin
<1>3. active.owner # None => active.at <= Arity[active.owner]
  BY <1>1, Zenon DEF GrayInv
<1> QED  BY <1>1, <1>2, <1>3, Zenon DEF ScanType

\* The parts that hold because the place is left alone.
LEMMA Still ==
    ASSUME IInv, Usable, NEW S
    PROVE  /\ UNCHANGED edges => EdgeWrites(S)
           /\ UNCHANGED active => ScanKept
           /\ UNCHANGED <<edges, active>> => ScanWrites(S)
           /\ UNCHANGED <<packs, targets, source>> => RootWrites(S)
           /\ UNCHANGED held => held' \subseteq Nameable
<1>1. UNCHANGED edges => EdgeWrites(S)
  BY Zenon DEF EdgeWrites
<1>2. UNCHANGED active => ScanKept
  BY Unmoved, Zenon DEF ScanKept
<1>3. UNCHANGED <<edges, active>> => ScanWrites(S)
  BY Zenon DEF ScanWrites
<1>4. UNCHANGED <<packs, targets, source>> => RootWrites(S)
  BY Zenon DEF RootWrites
<1>5. UNCHANGED held => held' \subseteq Nameable
  BY Unmoved, Zenon
<1> QED  BY <1>1, <1>2, <1>3, <1>4, <1>5, Zenon

LEMMA SetRootStep ==
    ASSUME IInv, TypeOK', NEW p \in Packs, NEW i \in 1..Width[p],
           NEW v \in held \cup {None}, SetRoot(p, i, v)
    PROVE  IInv'
<1> DEFINE S == {v} \ {None}
<1>1. Usable /\ scope /\ packs[p] = "live"
  BY Zenon DEF SetRoot
<1>2. S \in SUBSET Objects /\ (\A t \in S : CanPublish(t))
  BY Zenon DEF SetRoot, IInv, TypeOK
<1>3. \A q \in Packs : packs'[q] = "live" => \A j \in 1..Width[q] :
         \/ targets'[q][j] \in S \cup {None}
         \/ packs[q] = "live" /\ targets'[q][j] = targets[q][j]
  BY Zenon DEF SetRoot, IInv, TypeOK, TargetsTyped
<1>4. marks' = Publish(marks, S)
  BY Zenon DEF SetRoot
<1>5. ScopeInv'
  BY <1>1, Zenon DEF SetRoot, ScopeInv
<1> HIDE DEF S
<1>6. UNCHANGED <<phase, occupied, edges, active, cursor, source, sweep, scope, held>>
  BY Zenon DEF SetRoot
<1>7. Publishes(S)
  BY <1>2, <1>4, <1>6, Zenon DEF Publishes
<1>8. RootWrites(S)
  BY <1>3, <1>6, Zenon DEF RootWrites
<1>9. held' \subseteq Nameable /\ EdgeWrites(S) /\ ScanKept /\ ScanWrites(S)
  BY <1>1, <1>6, Still, Zenon
<1> QED  BY <1>1, <1>5, <1>7, <1>8, <1>9, MutatorStep, Zenon

LEMMA SetSourceStep ==
    ASSUME IInv, TypeOK', NEW s \in SourceSlots, NEW v \in held \cup {None},
           SetSource(s, v)
    PROVE  IInv'
<1> DEFINE S == {v} \ {None}
<1>1. Usable /\ scope
  BY Zenon DEF SetSource
<1>2. S \in SUBSET Objects /\ (\A t \in S : CanPublish(t))
  BY Zenon DEF SetSource, IInv, TypeOK
<1>3. \A r \in SourceSlots : source'[r] \in S \cup {None} \/ source'[r] = source[r]
  BY Zenon DEF SetSource, IInv, TypeOK
<1>4. marks' = Publish(marks, S)
  BY Zenon DEF SetSource
<1>5. ScopeInv'
  BY <1>1, Zenon DEF SetSource, ScopeInv
<1> HIDE DEF S
<1>6. UNCHANGED <<phase, occupied, edges, active, packs, targets, cursor, sweep,
                  scope, held>>
  BY Zenon DEF SetSource
<1>7. Publishes(S)
  BY <1>2, <1>4, <1>6, Zenon DEF Publishes
<1>8. RootWrites(S)
  BY <1>3, <1>6, Zenon DEF RootWrites
<1>9. held' \subseteq Nameable /\ EdgeWrites(S) /\ ScanKept /\ ScanWrites(S)
  BY <1>1, <1>6, Still, Zenon
<1> QED  BY <1>1, <1>5, <1>7, <1>8, <1>9, MutatorStep, Zenon

LEMMA RetainStep ==
    ASSUME IInv, TypeOK', NEW p \in Packs, NEW o \in held, Retain(p, o)
    PROVE  IInv'
<1> DEFINE S == {o}
<1>1. Usable /\ scope
  BY Zenon DEF Retain
<1>2. S \in SUBSET Objects /\ (\A t \in S : CanPublish(t))
  BY Zenon DEF Retain, IInv, TypeOK
<1>3. \A q \in Packs : packs'[q] = "live" => \A j \in 1..Width[q] :
         \/ targets'[q][j] \in S \cup {None}
         \/ packs[q] = "live" /\ targets'[q][j] = targets[q][j]
  BY Zenon DEF Retain, IInv, TypeOK, TargetsTyped
<1>4. marks' = Publish(marks, S)
  BY Zenon DEF Retain
<1>5. ScopeInv'
  BY <1>1, Zenon DEF Retain, ScopeInv
<1> HIDE DEF S
<1>6. UNCHANGED <<phase, occupied, edges, active, cursor, source, sweep, scope, held>>
  BY Zenon DEF Retain
<1>7. Publishes(S)
  BY <1>2, <1>4, <1>6, Zenon DEF Publishes
<1>8. RootWrites(S)
  BY <1>3, <1>6, Zenon DEF RootWrites
<1>9. held' \subseteq Nameable /\ EdgeWrites(S) /\ ScanKept /\ ScanWrites(S)
  BY <1>1, <1>6, Still, Zenon
<1> QED  BY <1>1, <1>5, <1>7, <1>8, <1>9, MutatorStep, Zenon

LEMMA CreateRootsStep ==
    ASSUME IInv, TypeOK', NEW p \in Packs, CreateRoots(p)
    PROVE  IInv'
<1>1. Usable /\ scope
  BY Zenon DEF CreateRoots
<1>2. \A q \in Packs : packs'[q] = "live" => \A j \in 1..Width[q] :
         \/ targets'[q][j] \in {} \cup {None}
         \/ packs[q] = "live" /\ targets'[q][j] = targets[q][j]
  BY Zenon DEF CreateRoots, IInv, TypeOK, TargetsTyped
<1>3. marks' = Publish(marks, {})
  BY <1>1, PublishNothing, Zenon DEF CreateRoots, IInv, TypeOK, QueueInv
<1>4. ScopeInv'
  BY <1>1, Zenon DEF CreateRoots, ScopeInv
<1>5. UNCHANGED <<phase, occupied, edges, active, cursor, source, sweep, scope, held>>
  BY Zenon DEF CreateRoots
<1>6. Publishes({})
  BY <1>3, <1>5, Zenon DEF Publishes
<1>7. RootWrites({})
  BY <1>2, <1>5, Zenon DEF RootWrites
<1>8. held' \subseteq Nameable /\ EdgeWrites({}) /\ ScanKept /\ ScanWrites({})
  BY <1>1, <1>5, Still, Zenon
<1> QED  BY <1>1, <1>4, <1>6, <1>7, <1>8, MutatorStep, Zenon

\* The heap faults: a protecting set is all that is left to keep.
LEMMA FaultStep ==
    ASSUME IInv, TypeOK', phase' = "Faulted", UNCHANGED marks, ScopeInv',
           NEW S \in SUBSET Objects, Safe(S)'
    PROVE  IInv'
<1>1. QueueInv'
  BY Zenon DEF IInv, QueueInv, Usable, Marking
<1>2. GrayInv' /\ GraphInv' /\ ColourInv' /\ RootInv' /\ SweepInv'
  BY Zenon DEF GrayInv, GraphInv, ColourInv, RootInv, SweepInv, Usable, Marking
<1>3. FaultInv'
  BY Zenon DEF FaultInv
<1> QED  BY <1>1, <1>2, <1>3, Zenon DEF IInv

LEMMA PlainFaultStep ==
    ASSUME IInv, TypeOK', Usable, phase' = "Faulted",
           UNCHANGED <<occupied, edges, marks, active, packs, targets, cursor,
                       source, sweep, scope, held>>
    PROVE  IInv'
<1>1. PICK S \in SUBSET Objects : Safe(S)
  <2>1. Safe(Nameable) /\ Nameable \in SUBSET Objects
    BY NameableFacts, Zenon DEF Safe
  <2> QED  BY <2>1, Zenon
<1>2. Safe(S)'
  BY <1>1, Zenon DEF Safe, EdgesWithin, NamesWithin
<1>3. ScopeInv'
  BY Zenon DEF IInv, ScopeInv
<1> QED  BY <1>2, <1>3, FaultStep, Zenon

LEMMA SetEdgeStep ==
    ASSUME IInv, TypeOK', NEW o \in held, NEW f \in Fields(o),
           NEW v \in held \cup {None}, SetEdge(o, f, v)
    PROVE  IInv'
<1> DEFINE S == {v} \ {None}
<1>1. Usable /\ scope /\ o \in Objects
  BY Zenon DEF SetEdge, IInv, TypeOK
<1>2. CASE v = None \/ CanPublish(v)
  <2>1. S \in SUBSET Objects /\ (\A t \in S : CanPublish(t))
    BY <1>2, Zenon DEF IInv, TypeOK
  <2>2. \A x \in Objects : \A g \in Fields(x) :
           edges'[x][g] = IF x = o /\ g = f THEN v ELSE edges[x][g]
    BY <1>1, <1>2 DEF SetEdge, IInv, TypeOK, EdgesTyped
  <2>3. marks' = Publish(marks, S) /\ phase' = phase
    BY <1>2, Zenon DEF SetEdge
  <2>4. ScopeInv'
    BY <1>1, Zenon DEF SetEdge, ScopeInv
  <2>5. UNCHANGED <<occupied, active, packs, targets, cursor, source, sweep, scope, held>>
    BY Zenon DEF SetEdge
  <2>6. v \in S \cup {None}
    BY Zenon
  <2> HIDE DEF S
  <2>7. Publishes(S)
    BY <2>1, <2>3, <2>5, Zenon DEF Publishes
  <2>8. EdgeWrites(S)
    BY <2>2, <2>6, Zenon DEF EdgeWrites
  <2>9. ScanWrites(S)
    <3> SUFFICES ASSUME active.owner # None, NEW g \in 1..active.at
                 PROVE  \/ edges'[active.owner][g] \in S \cup {None}
                        \/ edges'[active.owner][g] = edges[active.owner][g]
      BY <2>5, Zenon DEF ScanWrites
    <3>1. active.owner \in Objects /\ g \in Fields(active.owner)
      BY <1>1, Unmoved, ArityAssumption DEF Fields
    <3> QED  BY <2>2, <2>6, <3>1, Zenon
  <2>10. held' \subseteq Nameable /\ ScanKept /\ RootWrites(S)
    BY <1>1, <2>5, Still, Zenon
  <2> QED  BY <1>1, <2>4, <2>7, <2>8, <2>9, <2>10, MutatorStep, Zenon
<1>3. CASE ~(v = None \/ CanPublish(v))
  BY <1>1, <1>3, PlainFaultStep, Zenon DEF SetEdge
<1> QED  BY <1>2, <1>3, Zenon

LEMMA EditStep ==
    ASSUME IInv, TypeOK', NEW o \in held, NEW e \in Rearranged(o),
           EditRestart(o, e) \/ EditContinue(o, e)
    PROVE  IInv'
<1>1. /\ Usable /\ scope /\ o \in Objects
      /\ edges' = [edges EXCEPT ![o] = e]
      /\ UNCHANGED <<phase, occupied, packs, targets, cursor, source, sweep, scope, held>>
  BY Zenon DEF EditRestart, EditContinue, IInv, TypeOK
<1>2. ScopeInv'
  BY <1>1, Zenon DEF ScopeInv
<1>3. /\ e \in [Fields(o) -> Objects \cup {None}]
      /\ Imported(o, e) \in SUBSET Objects /\ Moved(o, e) \in SUBSET Objects
  <2>1. e \in [Fields(o) -> Objects \cup {None}]
    BY <1>1, TypeFacts, Zenon DEF Rearranged, IInv, TypeOK
  <2> QED  BY <2>1, Zenon DEF Imported, Moved
<1>4. \A x \in Objects : \A g \in Fields(x) :
         edges'[x][g] = IF x = o THEN e[g] ELSE edges[x][g]
  BY <1>1, Zenon DEF IInv, TypeOK, EdgesTyped
<1>5. /\ active.owner \in Objects \cup {None} /\ active.at \in Nat
      /\ active.owner # None => \A g \in 1..active.at : g \in Fields(active.owner)
      /\ active \in ScanType
  BY <1>1, Unmoved, ArityAssumption DEF Fields, IInv, TypeOK
<1>6. CASE EditRestart(o, e)
  <2>1. (\A t \in Imported(o, e) : CanPublish(t)) /\ marks' = Publish(marks, Imported(o, e))
    BY <1>6, Zenon DEF EditRestart
  <2>2. /\ active'.owner = active.owner /\ active'.at = active.at
        /\ active'.restart = (active.restart \/ active.owner = o)
    BY <1>5, <1>6, Zenon DEF EditRestart, ScanType
  <2>3. \A g \in Fields(o) : e[g] \in Imported(o, e) \cup {None}
                             \/ \E h \in Fields(o) : e[g] = edges[o][h]
    BY <1>1, TypeFacts DEF Imported, IInv
  <2>4. Publishes(Imported(o, e))
    BY <1>1, <1>3, <2>1, Zenon DEF Publishes
  <2>5. EdgeWrites(Imported(o, e))
    BY <1>4, <2>3, Zenon DEF EdgeWrites
  <2>6. active.owner # None /\ ~active'.restart =>
           ~active.restart /\ \A g \in 1..active'.at : edges'[active.owner][g] = edges[active.owner][g]
    BY ZenonT(40), <1>4, <1>5, <2>2
  <2>7. ScanWrites(Imported(o, e))
    BY <2>2, <2>6, Zenon DEF ScanWrites
  <2>8. ScanKept
    BY <1>1, <2>2, Unmoved, Zenon DEF ScanKept
  <2>9. held' \subseteq Nameable /\ RootWrites(Imported(o, e))
    BY <1>1, Still, Zenon
  <2> QED  BY <1>1, <1>2, <2>4, <2>5, <2>7, <2>8, <2>9, MutatorStep, Zenon
<1>7. CASE EditContinue(o, e)
  <2>1. /\ (\A t \in Moved(o, e) : CanPublish(t)) /\ marks' = Publish(marks, Moved(o, e))
        /\ active' = active
    BY <1>7, Zenon DEF EditContinue
  <2>2. \A g \in Fields(o) : e[g] \in Moved(o, e) \cup {None} \/ e[g] = edges[o][g]
    BY Zenon DEF Moved
  <2>3. \A x \in Objects : \A g \in Fields(x) :
           edges'[x][g] \in Moved(o, e) \cup {None} \/ edges'[x][g] = edges[x][g]
    BY <1>4, <2>2, Zenon
  <2>4. active.owner # None => \A g \in 1..active.at :
           \/ edges'[active.owner][g] \in Moved(o, e) \cup {None}
           \/ edges'[active.owner][g] = edges[active.owner][g]
    BY <1>5, <2>3, Zenon
  <2>5. Publishes(Moved(o, e))
    BY <1>1, <1>3, <2>1, Zenon DEF Publishes
  <2>6. EdgeWrites(Moved(o, e))
    BY <2>3, Zenon DEF EdgeWrites
  <2>7. ScanWrites(Moved(o, e))
    BY <2>1, <2>4, Zenon DEF ScanWrites
  <2>8. held' \subseteq Nameable /\ ScanKept /\ RootWrites(Moved(o, e))
    BY <1>1, <2>1, Still, Zenon
  <2> QED  BY <1>1, <1>2, <2>5, <2>6, <2>7, <2>8, MutatorStep, Zenon
<1> QED  BY <1>6, <1>7, Zenon

LEMMA RemoveStep ==
    ASSUME IInv, TypeOK', NEW o \in held, NEW i \in Fields(o), RemoveRepaired(o, i)
    PROVE  IInv'
<1>1. /\ Usable /\ scope /\ o \in Objects
      /\ UNCHANGED <<phase, occupied, marks, packs, targets, cursor, source, sweep,
                     scope, held>>
  BY Zenon DEF RemoveRepaired, IInv, TypeOK
<1>2. ScopeInv'
  BY <1>1, Zenon DEF ScopeInv
<1>3. marks' = Publish(marks, {})
  BY ZenonT(40), <1>1, PublishNothing DEF IInv, TypeOK, QueueInv
<1>4. /\ active \in ScanType /\ i \in Nat /\ i >= 1 /\ i <= Arity[o] /\ Arity[o] \in Nat
      /\ active.owner \in Objects \cup {None} /\ active.at \in Nat
      /\ active.owner # None =>
            active.at <= Arity[active.owner] /\ Arity[active.owner] \in Nat
  <2>1. active \in ScanType /\ i \in 1..Arity[o] /\ Arity[o] \in Nat
    BY <1>1, Unmoved, ArityAssumption, Zenon DEF IInv, TypeOK, Fields
  <2>2. active.owner # None => active.at <= Arity[active.owner] /\ Arity[active.owner] \in Nat
    BY <1>1, Unmoved, ArityAssumption, Zenon
  <2> QED  BY <2>1, <2>2 DEF ScanType
<1>5. \A x \in Objects : \A g \in Fields(x) :
         edges'[x][g] = IF x # o \/ g < i THEN edges[x][g]
                        ELSE IF g < Arity[o] THEN edges[o][g + 1] ELSE None
  BY <1>1, Zenon DEF RemoveRepaired, IInv, TypeOK, EdgesTyped
<1>6. /\ active'.owner = active.owner /\ active'.restart = active.restart
      /\ active'.at = IF active.owner = o /\ ~active.restart /\ i <= active.at
                      THEN active.at - 1 ELSE active.at
  BY <1>4, Zenon DEF RemoveRepaired, ScanType
<1>7. \A x \in Objects : \A g \in Fields(x) :
         edges'[x][g] \in {} \cup {None} \/ \E h \in Fields(x) : edges'[x][g] = edges[x][h]
  <2> SUFFICES ASSUME NEW x \in Objects, NEW g \in Fields(x)
               PROVE  edges'[x][g] = None \/ \E h \in Fields(x) : edges'[x][g] = edges[x][h]
    BY Zenon
  <2>1. CASE x # o \/ g < i
    BY <1>5, <2>1, Zenon
  <2>2. CASE x = o /\ ~(g < i) /\ g < Arity[o]
    <3>1. g + 1 \in Fields(x) /\ edges'[x][g] = edges[x][g + 1]
      BY <1>4, <1>5, <2>2 DEF Fields
    <3> QED  BY <3>1, Zenon
  <2>3. CASE x = o /\ ~(g < i) /\ ~(g < Arity[o])
    BY <1>5, <2>3, Zenon
  <2> QED  BY <2>1, <2>2, <2>3, Zenon
<1>8. active.owner # None /\ ~active'.restart =>
         /\ ~active.restart
         /\ \A g \in 1..active'.at :
               \/ edges'[active.owner][g] \in {} \cup {None}
               \/ \E h \in 1..active.at : edges'[active.owner][g] = edges[active.owner][h]
  <2> SUFFICES ASSUME active.owner # None, ~active.restart, NEW g \in 1..active'.at
               PROVE  \E h \in 1..active.at : edges'[active.owner][g] = edges[active.owner][h]
    BY <1>6, Zenon
  <2>1. g \in Fields(active.owner) /\ g \in 1..active.at
    BY <1>4, <1>6 DEF Fields
  <2>2. CASE active.owner # o \/ g < i
    BY <1>4, <1>5, <2>1, <2>2, Zenon
  <2>3. CASE active.owner = o /\ ~(g < i)
    <3>1. g + 1 \in 1..active.at /\ g < Arity[o]
      BY <1>4, <1>6, <2>1, <2>3
    <3>2. edges'[active.owner][g] = edges[active.owner][g + 1]
      BY <1>4, <1>5, <2>1, <2>3, <3>1, Zenon
    <3> QED  BY <3>1, <3>2, Zenon
  <2> QED  BY <2>2, <2>3, Zenon
<1>9. active.owner # None => active'.at <= Arity[active.owner]
  BY <1>4, <1>6
<1>10. Publishes({})
  BY <1>1, <1>3, Zenon DEF Publishes
<1>11. EdgeWrites({}) /\ ScanWrites({})
  BY <1>7, <1>8, Zenon DEF EdgeWrites, ScanWrites
<1>12. ScanKept
  BY <1>6, <1>9, Zenon DEF ScanKept
<1>13. held' \subseteq Nameable /\ RootWrites({})
  BY <1>1, Still, Zenon
<1> QED  BY <1>1, <1>2, <1>10, <1>11, <1>12, <1>13, MutatorStep, Zenon

\* The mutator gives up names, and gains none: a scope or a lease ends.
LEMMA ForgetStep ==
    ASSUME IInv, TypeOK',
           UNCHANGED <<phase, occupied, edges, marks, active, targets, cursor,
                       source, sweep>>,
           held' \subseteq held, ScopeInv',
           \A p \in Packs : packs'[p] = "live" => packs[p] = "live"
    PROVE  IInv'
<1>1. QueueInv' /\ GrayInv'
  <2>1. QueueInv'
    BY Zenon DEF IInv, QueueInv, Usable, Marking, JobsMatch, PageExists, DiscoveredNow, BlackNow
  <2>2. GrayInv'
    BY Zenon DEF IInv, GrayInv, Usable, Marking, JobsMatch, PageExists, DiscoveredNow, BlackNow
  <2> QED  BY <2>1, <2>2, Zenon
<1>2. \A T : NamesWithin(T) => held' \subseteq T
                /\ (\A p \in Packs : packs'[p] = "live" =>
                      \A i \in 1..Width[p] : targets'[p][i] \in T \cup {None})
                /\ (\A s \in SourceSlots : source'[s] \in T \cup {None})
  BY Zenon DEF NamesWithin
<1>3. GraphInv'
  BY <1>2, Zenon DEF IInv, GraphInv, EdgesWithin, NamesWithin
<1>4. ColourInv'
  BY Zenon DEF IInv, ColourInv, EdgesWithin, Marking, DiscoveredNow, BlackNow
<1>5. RootInv'
  BY Zenon DEF IInv, RootInv, Marking, DiscoveredNow
<1>6. \A S : Safe(S) => S \subseteq occupied' /\ EdgesWithin(S, S)
                /\ held' \subseteq S
                /\ (\A p \in Packs : packs'[p] = "live" =>
                      \A i \in 1..Width[p] : targets'[p][i] \in S \cup {None})
                /\ (\A s \in SourceSlots : source'[s] \in S \cup {None})
  BY <1>2, Zenon DEF Safe
<1>7. SweepInv'
  <2>1. BlackNow' = BlackNow
    BY Zenon DEF BlackNow
  <2> QED  BY <1>6, <2>1, Zenon DEF IInv, SweepInv, Safe, EdgesWithin, NamesWithin
<1>8. FaultInv'
  <2> SUFFICES ASSUME phase = "Faulted" PROVE FaultInv'
    BY Zenon DEF FaultInv
  <2>1. PICK S \in SUBSET Objects : Safe(S)
    BY Zenon DEF IInv, FaultInv
  <2>2. Safe(S)'
    BY <1>6, <2>1, Zenon DEF Safe, EdgesWithin, NamesWithin
  <2> QED  BY <2>2, Zenon DEF FaultInv
<1> QED  BY <1>1, <1>3, <1>4, <1>5, <1>7, <1>8, Zenon DEF IInv
=============================================================================
