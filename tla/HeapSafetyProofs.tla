-------------------------- MODULE HeapSafetyProofs --------------------------
(***************************************************************************)
(* Every iteration of marking preserves IInv: roots, then gray pages one   *)
(* field at a time, until no gray object is left.  The steps that change   *)
(* which slots are occupied, allocation and sweeping, preserve it too: it  *)
(* is inductive, and nothing the mutator can reach is reclaimed.  So the   *)
(* heap implements its abstract specification, and a cycle reclaims what   *)
(* was garbage when it began.                                              *)
(***************************************************************************)
EXTENDS IncrementalHeapProofs, HeapHistory

-----------------------------------------------------------------------------
(***************************************************************************)
(* The collector's steps.                                                  *)
(***************************************************************************)

\* A step within Roots or Mark moves colours, the queue and the cursors only.
LEMMA MarkingStep ==
    ASSUME IInv, TypeOK', Marking,
           UNCHANGED <<phase, occupied, edges, packs, targets, source, sweep,
                       scope, held>>,
           QueueInv', GrayInv', ColourInv', RootInv'
    PROVE  IInv'
<1>1. GraphInv'
  BY Zenon DEF IInv, GraphInv, EdgesWithin, NamesWithin
<1>2. SweepInv' /\ FaultInv' /\ ScopeInv'
  BY Zenon DEF IInv, SweepInv, FaultInv, ScopeInv, Marking
<1> QED  BY <1>1, <1>2, Zenon DEF IInv

\* Scanning shades what it finds; the colour invariant of the objects scanned
\* before survives it.
LEMMA ShadeStep ==
    ASSUME IInv, Marking, NEW S \in SUBSET occupied,
           marks' = Shade(marks, S),
           UNCHANGED <<phase, occupied, edges, packs, targets, source>>,
           active'.owner = active.owner,
           active.owner # None => active'.at <= Arity[active.owner]
    PROVE  /\ QueueInv' /\ GrayInv' /\ Marking'
           /\ DiscoveredNow' = DiscoveredNow \cup S
           /\ EdgesWithin(BlackNow, DiscoveredNow)'
<1>1. marks' = Publish(marks, S)
  BY Zenon DEF Publish, Marking
<1>2. /\ QueueInv' /\ GrayInv'
      /\ DiscoveredNow' = DiscoveredNow \cup S
      /\ \A x \in BlackNow' \ BlackNow : Arity[x] = 0
  BY <1>1, PublishFacts, Zenon
<1>3. EdgesWithin(BlackNow, DiscoveredNow)
  BY Zenon DEF IInv, ColourInv
<1>4. EdgesWithin(BlackNow, DiscoveredNow)'
  BY <1>2, <1>3, ArityAssumption DEF EdgesWithin, Fields
<1> QED  BY <1>2, <1>4, Zenon DEF Marking

LEMMA RootScanStep ==
    ASSUME IInv, TypeOK', NEW p \in Packs, ScanRootTarget(p)
    PROVE  IInv'
<1> DEFINE v == targets[p][cursor.at]
           S == {v} \ {None}
<1>1. /\ phase = "Roots" /\ p \in cursor.todo /\ cursor.pack \in {None, p}
      /\ v \in occupied \cup {None}
      /\ marks' = Shade(marks, S)
      /\ UNCHANGED <<phase, occupied, edges, active, packs, targets, source,
                     sweep, scope, held>>
  BY Zenon DEF ScanRootTarget, AtPack
<1>2. /\ cursor \in CursorType /\ cursor.at \in Nat
      /\ cursor'.todo = cursor.todo /\ cursor'.pack = p
      /\ cursor'.at = cursor.at + 1 /\ cursor'.source = cursor.source
  BY Zenon DEF ScanRootTarget, IInv, TypeOK, CursorType
<1>3. Marking /\ active.owner = None
  BY ZenonT(40), <1>1 DEF Marking, IInv, GrayInv, Usable
<1>4. S \in SUBSET occupied /\ v \in S \cup {None}
  BY <1>1, Zenon
<1> HIDE DEF S
<1>5. /\ QueueInv' /\ GrayInv' /\ Marking'
      /\ DiscoveredNow' = DiscoveredNow \cup S
      /\ EdgesWithin(BlackNow, DiscoveredNow)'
  BY <1>1, <1>3, <1>4, ShadeStep, Zenon
<1>6. ColourInv'
  BY <1>1, <1>3, <1>5, Zenon DEF ColourInv
<1>7. RootInv'
  <2>1. ASSUME NEW q \in Packs, packs[q] = "live", NEW i \in 1..Width[q]
        PROVE  \/ targets[q][i] \in DiscoveredNow' \cup {None}
               \/ q \in cursor.todo /\ (q = p => i >= cursor.at + 1)
    <3>1. \/ targets[q][i] \in DiscoveredNow \cup {None}
          \/ q \in cursor.todo /\ (q = cursor.pack => i >= cursor.at)
      BY <1>1, <1>3, <2>1, Zenon DEF IInv, RootInv
    <3>2. CASE q # p
      BY <1>5, <3>1, <3>2, Zenon
    <3>3. CASE q = p /\ i = cursor.at
      BY <1>4, <1>5, <3>3, Zenon
    <3>4. CASE q = p /\ i # cursor.at
      <4>1. cursor.pack = None => cursor.at = 1
        BY <1>1, Zenon DEF IInv, RootInv
      <4>2. i \in Nat /\ i >= 1
        BY WidthAssumption
      <4> QED  BY <1>1, <1>2, <1>5, <3>1, <3>4, <4>1, <4>2
    <3> QED  BY ZenonT(40), <3>2, <3>3, <3>4
  <2>2. \A s \in SourceSlots :
           source[s] \in DiscoveredNow' \cup {None} \/ s \in cursor.source
    BY ZenonT(40), <1>1, <1>3, <1>5 DEF IInv, RootInv
  <2> QED  BY ZenonT(40), <1>1, <1>2, <2>1, <2>2, NoneAssumption DEF RootInv
<1> QED  BY ZenonT(40), <1>1, <1>3, <1>5, <1>6, <1>7, MarkingStep

LEMMA RootNextStep ==
    ASSUME IInv, TypeOK', NEW p \in Packs, ScanRootNext(p)
    PROVE  IInv'
<1>1. /\ phase = "Roots" /\ p \in cursor.todo /\ cursor.pack \in {None, p}
      /\ packs[p] = "live" => cursor.at > Width[p]
      /\ UNCHANGED <<phase, occupied, edges, marks, active, packs, targets,
                     source, sweep, scope, held>>
  BY Zenon DEF ScanRootNext, AtPack
<1>2. /\ cursor.at \in Nat
      /\ cursor'.todo = cursor.todo \ {p} /\ cursor'.pack = None
      /\ cursor'.at = 1 /\ cursor'.source = cursor.source
  BY Zenon DEF ScanRootNext, IInv, TypeOK, CursorType
<1>3. Marking /\ Marking' /\ DiscoveredNow' = DiscoveredNow /\ BlackNow' = BlackNow
  BY <1>1, Zenon DEF Marking, DiscoveredNow, BlackNow
<1>4. QueueInv' /\ GrayInv' /\ ColourInv'
  BY <1>1, <1>3, Zenon DEF IInv, QueueInv, GrayInv, ColourInv, EdgesWithin, Usable,
                    JobsMatch, PageExists
<1>5. RootInv'
  <2>1. ASSUME NEW q \in Packs, packs[q] = "live", NEW i \in 1..Width[q]
        PROVE  targets[q][i] \in DiscoveredNow \cup {None} \/ q \in cursor.todo \ {p}
    <3>1. \/ targets[q][i] \in DiscoveredNow \cup {None}
          \/ q \in cursor.todo /\ (q = cursor.pack => i >= cursor.at)
      BY ZenonT(40), <1>1, <1>3, <2>1 DEF IInv, RootInv
    <3>2. CASE q # p
      BY <3>1, <3>2, Zenon
    <3>3. CASE q = p
      <4>1. /\ cursor.pack = None => cursor.at = 1
            /\ Width[p] \in Nat /\ Width[p] >= 1 /\ cursor.at > Width[p] /\ i \in 1..Width[p]
        BY <1>1, <2>1, <3>3, WidthAssumption DEF IInv, RootInv
      <4> QED  BY <1>1, <1>2, <3>1, <3>3, <4>1
    <3> QED  BY <3>2, <3>3, Zenon
  <2>2. \A s \in SourceSlots :
           source[s] \in DiscoveredNow \cup {None} \/ s \in cursor.source
    BY <1>1, <1>3, Zenon DEF IInv, RootInv
  <2> QED  BY ZenonT(40), <1>1, <1>2, <1>3, <2>1, <2>2, NoneAssumption DEF RootInv
<1> QED  BY <1>1, <1>3, <1>4, <1>5, MarkingStep, Zenon

LEMMA SourceScanStep ==
    ASSUME IInv, TypeOK', NEW s \in SourceSlots, ScanSource(s)
    PROVE  IInv'
<1> DEFINE S == {source[s]} \ {None}
<1>1. /\ phase = "Roots" /\ source[s] \in occupied \cup {None}
      /\ marks' = Shade(marks, S)
      /\ UNCHANGED <<phase, occupied, edges, active, packs, targets, source,
                     sweep, scope, held>>
  BY Zenon DEF ScanSource
<1>2. /\ cursor'.todo = cursor.todo /\ cursor'.pack = cursor.pack
      /\ cursor'.at = cursor.at /\ cursor'.source = cursor.source \ {s}
  BY Zenon DEF ScanSource, IInv, TypeOK, CursorType
<1>3. Marking /\ active.owner = None
  BY <1>1, Zenon DEF Marking, IInv, GrayInv, Usable
<1>4. S \in SUBSET occupied /\ source[s] \in S \cup {None}
  BY <1>1, Zenon
<1> HIDE DEF S
<1>5. /\ QueueInv' /\ GrayInv' /\ Marking'
      /\ DiscoveredNow' = DiscoveredNow \cup S
      /\ EdgesWithin(BlackNow, DiscoveredNow)'
  BY <1>1, <1>3, <1>4, ShadeStep, Zenon
<1>6. ColourInv'
  BY ZenonT(40), <1>1, <1>3, <1>5 DEF ColourInv
<1>7. RootInv'
  BY ZenonT(40), <1>1, <1>2, <1>3, <1>4, <1>5 DEF IInv, RootInv
<1> QED  BY <1>1, <1>3, <1>5, <1>6, <1>7, MarkingStep, Zenon

LEMMA StartStep ==
    ASSUME IInv, TypeOK', StartCycle
    PROVE  IInv'
<1>1. /\ phase = "Idle" /\ phase' = "Roots"
      /\ UNCHANGED <<occupied, edges, active, packs, targets, source, sweep, scope, held>>
      /\ cursor'.todo = LivePacks \cup ReleasedPacks /\ cursor'.pack = None
      /\ cursor'.at = 1 /\ cursor'.source = SourceSlots
  BY Zenon DEF StartCycle
<1>2. /\ marks'.current = {} /\ marks'.discovered = marks.discovered
      /\ marks'.scanned = marks.scanned /\ marks'.queued = marks.queued
      /\ marks'.jobs = marks.jobs
  BY Zenon DEF StartCycle, IInv, TypeOK, MarkType
<1>3. DiscoveredNow' = {} /\ BlackNow' = {}
  BY <1>2, Zenon DEF DiscoveredNow, BlackNow, Discovered, Black
<1>4. Usable /\ ~Marking /\ active.owner = None /\ marks.queued = {}
  BY <1>1, Zenon DEF IInv, QueueInv, GrayInv, Usable, Marking
<1>5. QueueInv'
  BY <1>2, <1>4, Zenon DEF IInv, QueueInv, JobsMatch
<1>6. GrayInv' /\ ColourInv'
  BY <1>1, <1>3, <1>4, Zenon DEF GrayInv, ColourInv, EdgesWithin
<1>7. GraphInv'
  BY <1>1, Zenon DEF IInv, GraphInv, EdgesWithin, NamesWithin
<1>8. RootInv'
  BY <1>1, NoneAssumption, Zenon DEF RootInv, LivePacks
<1>9. SweepInv' /\ FaultInv' /\ ScopeInv'
  BY ZenonT(40), <1>1 DEF SweepInv, FaultInv, ScopeInv, IInv
<1> QED  BY <1>5, <1>6, <1>7, <1>8, <1>9, Zenon DEF IInv

LEMMA RootsDoneStep ==
    ASSUME IInv, TypeOK', RootsDone
    PROVE  IInv'
<1>1. /\ phase = "Roots" /\ phase' = "Mark"
      /\ cursor.todo = {} /\ cursor.source = {}
      /\ UNCHANGED <<occupied, edges, marks, active, packs, targets, cursor,
                     source, sweep, scope, held>>
  BY Zenon DEF RootsDone
<1>2. Marking /\ Marking' /\ Usable /\ Usable'
      /\ DiscoveredNow' = DiscoveredNow /\ BlackNow' = BlackNow
  BY <1>1, Zenon DEF Marking, Usable, DiscoveredNow, BlackNow
<1>3. QueueInv' /\ GrayInv' /\ ColourInv'
  BY <1>1, <1>2, Zenon
     DEF IInv, QueueInv, GrayInv, ColourInv, EdgesWithin, JobsMatch, PageExists
<1>4. GraphInv'
  BY <1>1, Zenon DEF IInv, GraphInv, EdgesWithin, NamesWithin
<1>5. RootInv'
  BY <1>1, <1>2, Zenon DEF IInv, RootInv
<1>6. SweepInv' /\ FaultInv' /\ ScopeInv'
  BY <1>1, Zenon DEF SweepInv, FaultInv, ScopeInv, IInv
<1> QED  BY <1>3, <1>4, <1>5, <1>6, Zenon DEF IInv

LEMMA BeginScanStep ==
    ASSUME IInv, TypeOK', NEW p \in Pages, BeginScan(p)
    PROVE  IInv'
<1> DEFINE gray == Gray(marks) \cap SlotsOf(p)
<1>1. /\ phase = "Mark" /\ active.owner = None /\ marks.jobs[p] > 0
      /\ UNCHANGED <<phase, occupied, edges, packs, targets, cursor, source,
                     sweep, scope, held>>
  BY Zenon DEF BeginScan
<1>2. Marking /\ Usable /\ Marking' /\ Usable' /\ marks \in MarkType
  BY ZenonT(40), <1>1 DEF Marking, Usable, IInv, TypeOK
<1>3. JobsMatch(marks) /\ p \in marks.queued /\ marks.jobs[p] = 1
  BY <1>1, <1>2 DEF IInv, QueueInv, JobsMatch
<1>4. /\ marks' = Popped(p) \/ marks' = Requeued(p)
      /\ marks' = Popped(p) => gray = {} \/ gray = {active'.owner}
      /\ \/ active' = active
         \/ /\ active'.owner \in gray \cap occupied
            /\ active'.at = 0 /\ active'.restart = FALSE
  <2>1. CASE gray = {}
    BY ZenonT(40), <2>1 DEF BeginScan
  <2>2. CASE gray # {}
    <3>1. PICK o \in gray \cap occupied :
             /\ active' = [owner |-> o, at |-> 0, restart |-> FALSE]
             /\ marks' = IF gray = {o} THEN Popped(p) ELSE Requeued(p)
      BY ZenonT(40), <2>2 DEF BeginScan
    <3>2. active'.owner = o /\ active'.at = 0 /\ active'.restart = FALSE
      BY <3>1, Zenon
    <3>3. Popped(p) # Requeued(p)
      BY ZenonT(40), <1>1, <1>2, PopLemma
    <3> HIDE DEF gray
    <3> QED  BY <3>1, <3>2, <3>3, Zenon
  <2> QED  BY ZenonT(40), <2>1, <2>2
<1>5. /\ marks'.current = marks.current /\ marks'.discovered = marks.discovered
      /\ marks'.scanned = marks.scanned
      /\ marks'.queued \subseteq marks.queued
      /\ \A q \in marks.queued : q # p => q \in marks'.queued
      /\ marks' = Requeued(p) => marks'.queued = marks.queued
      /\ JobsMatch(marks')
  <2>1. CASE marks' = Popped(p)
    <3>1. /\ Popped(p).queued = marks.queued \ {p}
          /\ Popped(p).jobs = [marks.jobs EXCEPT ![p] = @ - 1]
          /\ Popped(p).current = marks.current
          /\ Popped(p).discovered = marks.discovered
          /\ Popped(p).scanned = marks.scanned
          /\ Requeued(p).queued = marks.queued \cup {p}
      BY ZenonT(40), <1>1, <1>2, PopLemma
    <3>2. \A q \in Pages : Popped(p).jobs[q] = IF q = p THEN 0 ELSE marks.jobs[q]
      BY <1>2, <1>3, <3>1 DEF MarkType
    <3>3. JobsMatch(Popped(p))
      BY <1>3, <3>1, <3>2, Zenon DEF JobsMatch
    <3> QED  BY <1>3, <2>1, <3>1, <3>3, Zenon
  <2>2. CASE marks' = Requeued(p)
    <3>1. /\ Requeued(p).queued = marks.queued \cup {p}
          /\ Requeued(p).jobs = marks.jobs
          /\ Requeued(p).current = marks.current
          /\ Requeued(p).discovered = marks.discovered
          /\ Requeued(p).scanned = marks.scanned
      BY ZenonT(40), <1>1, <1>2, PopLemma
    <3> QED  BY <1>3, <2>2, <3>1, Zenon DEF JobsMatch
  <2> QED  BY ZenonT(40), <1>4, <2>1, <2>2
<1>6. DiscoveredNow' = DiscoveredNow /\ BlackNow' = BlackNow
  BY ZenonT(40), <1>5 DEF DiscoveredNow, BlackNow, Discovered, Black
<1>7. QueueInv'
  BY ZenonT(40), <1>1, <1>2, <1>5 DEF IInv, QueueInv, PageExists
<1>8. GrayInv'
  <2>1. ASSUME NEW o \in DiscoveredNow \ BlackNow
        PROVE  o = active'.owner \/ PageOf[o] \in marks'.queued
    <3>1. PageOf[o] \in marks.queued /\ o \in Objects /\ o # None
      BY <1>1, <1>2, BlackIsDiscovered, NoneAssumption, Zenon DEF IInv, GrayInv
    <3>2. CASE PageOf[o] # p \/ marks' = Requeued(p)
      BY <1>5, <3>1, <3>2, Zenon
    <3>3. CASE PageOf[o] = p /\ marks' = Popped(p)
      <4>1. o \in gray
        BY <2>1, <3>1, <3>3, Zenon DEF Gray, SlotsOf, DiscoveredNow, BlackNow
      <4> QED  BY <1>4, <3>3, <4>1, Zenon
    <3> QED  BY <1>4, <3>2, <3>3, Zenon
  <2>2. active'.owner # None => /\ active'.owner \in DiscoveredNow \ BlackNow
                                /\ active'.at <= Arity[active'.owner]
    <3> SUFFICES ASSUME active'.owner # None PROVE <2>2!2
      BY Zenon
    <3>1. active'.owner \in gray \cap occupied /\ active'.at = 0
      BY <1>1, <1>4, Zenon
    <3>2. Arity[active'.owner] \in Nat
      BY <3>1, ArityAssumption, Zenon DEF IInv, TypeOK
    <3> QED  BY <3>1, <3>2 DEF Gray, DiscoveredNow, BlackNow
  <2> QED  BY <1>1, <1>2, <1>6, <2>1, <2>2, Zenon DEF IInv, GrayInv
<1>9. ColourInv'
  <2>1. active'.owner # None => active'.at = 0
    BY <1>1, <1>4, Zenon
  <2> QED  BY <1>1, <1>2, <1>6, <2>1 DEF IInv, ColourInv, EdgesWithin
<1>10. RootInv'
  BY <1>1, <1>2, <1>6, Zenon DEF IInv, RootInv
<1> QED  BY <1>1, <1>2, <1>7, <1>8, <1>9, <1>10, MarkingStep, Zenon

LEMMA ScanEdgeStep ==
    ASSUME IInv, TypeOK', ScanEdge
    PROVE  IInv'
<1> DEFINE o == active.owner
           n == ScanPosition + 1
           S == {edges[o][n]} \ {None}
<1>1. /\ phase = "Mark" /\ o # None /\ n <= Arity[o]
      /\ edges[o][n] \in occupied \cup {None}
      /\ marks' = Shade(marks, S)
      /\ active'.owner = o /\ active'.at = n /\ active'.restart = FALSE
      /\ UNCHANGED <<phase, occupied, edges, packs, targets, cursor, source,
                     sweep, scope, held>>
  BY Zenon DEF ScanEdge
<1>2. Marking /\ Usable
  BY ZenonT(40), <1>1 DEF Marking, Usable
<1>3. S \in SUBSET occupied /\ edges[o][n] \in S \cup {None}
  BY <1>1, Zenon
<1>4. active.at \in Nat /\ o \in Objects
  BY <1>1, Zenon DEF IInv, TypeOK, ScanType
<1> HIDE DEF S
<1>5. /\ QueueInv' /\ GrayInv' /\ Marking'
      /\ DiscoveredNow' = DiscoveredNow \cup S
      /\ EdgesWithin(BlackNow, DiscoveredNow)'
  BY <1>1, <1>2, <1>3, ShadeStep, Zenon
<1>6. ColourInv'
  <2>1. ASSUME NEW f \in 1..n PROVE edges[o][f] \in DiscoveredNow' \cup {None}
    <3>1. CASE f = n
      BY <1>3, <1>5, <3>1, Zenon
    <3>2. CASE f # n
      <4>1. ~active.restart /\ f \in 1..active.at
        BY <1>4, <2>1, <3>2 DEF ScanPosition
      <4> QED  BY <1>1, <1>2, <1>5, <4>1, Zenon DEF IInv, ColourInv
    <3> QED  BY <3>1, <3>2, Zenon
  <2> QED  BY <1>1, <1>5, <2>1, Zenon DEF ColourInv
<1>7. RootInv'
  BY <1>1, <1>2, <1>5, Zenon DEF IInv, RootInv
<1> QED  BY <1>1, <1>2, <1>5, <1>6, <1>7, MarkingStep, Zenon

LEMMA ScanDoneStep ==
    ASSUME IInv, TypeOK', ScanDone
    PROVE  IInv'
<1> DEFINE o == active.owner
<1>1. /\ phase = "Mark" /\ o # None /\ ScanPosition >= Arity[o]
      /\ marks' = SetBlack(marks, o) /\ active'.owner = None
      /\ UNCHANGED <<phase, occupied, edges, packs, targets, cursor, source,
                     sweep, scope, held>>
  BY Zenon DEF ScanDone, NoScan
<1>2. Marking /\ Usable /\ Marking' /\ Usable'
  BY <1>1, Zenon DEF Marking, Usable
<1>3. /\ o \in Objects /\ marks \in MarkType /\ Arity[o] \in Nat /\ active.at \in Nat
      /\ o \in DiscoveredNow \ BlackNow /\ active.at <= Arity[o]
      /\ marks.scanned \subseteq marks.discovered
  BY ZenonT(40), <1>1, <1>2, ArityAssumption
     DEF IInv, TypeOK, ScanType, GrayInv, QueueInv
<1>4. PageOf[o] \in marks.current
  BY <1>3, Zenon DEF DiscoveredNow, Discovered
<1>5. /\ marks'.current = marks.current /\ marks'.queued = marks.queued
      /\ marks'.jobs = marks.jobs
      /\ DiscoveredNow' = DiscoveredNow \cup {o} /\ BlackNow' = BlackNow \cup {o}
      /\ marks'.scanned \subseteq marks'.discovered
  <2>1. /\ SetBlack(marks, o).current = marks.current \cup {PageOf[o]}
        /\ Discovered(SetBlack(marks, o)) = Discovered(marks) \cup {o}
        /\ Black(SetBlack(marks, o)) = Black(marks) \cup {o}
        /\ SetBlack(marks, o).queued = marks.queued \ ({PageOf[o]} \ marks.current)
        /\ SetBlack(marks, o).jobs = marks.jobs
        /\ SetBlack(marks, o).scanned \subseteq SetBlack(marks, o).discovered
    BY <1>3, SetBlackLemma
  <2> QED  BY <1>1, <1>4, <2>1, Zenon DEF DiscoveredNow, BlackNow
<1>6. DiscoveredNow' = DiscoveredNow
  BY <1>3, <1>5, Zenon
<1>7. QueueInv'
  BY <1>1, <1>2, <1>5, Zenon DEF IInv, QueueInv, JobsMatch, PageExists
<1>8. GrayInv'
  BY <1>1, <1>2, <1>5, <1>6, Zenon DEF IInv, GrayInv
<1>9. ColourInv'
  <2>1. ASSUME NEW f \in Fields(o) PROVE edges[o][f] \in DiscoveredNow \cup {None}
    <3>1. ~active.restart /\ f \in 1..active.at
      BY <1>1, <1>3 DEF ScanPosition, Fields
    <3> QED  BY ZenonT(40), <1>1, <1>2, <3>1 DEF IInv, ColourInv
  <2> QED  BY ZenonT(40), <1>1, <1>2, <1>5, <1>6, <2>1 DEF IInv, ColourInv, EdgesWithin
<1>10. RootInv'
  BY ZenonT(40), <1>1, <1>2, <1>6 DEF IInv, RootInv
<1> QED  BY <1>1, <1>2, <1>7, <1>8, <1>9, <1>10, MarkingStep, Zenon

LEMMA MarkDoneStep ==
    ASSUME IInv, TypeOK', MarkDone
    PROVE  IInv'
<1>1. /\ phase = "Mark" /\ ~scope /\ active.owner = None
      /\ \A p \in Pages : marks.jobs[p] = 0
      /\ phase' = "Sweep" /\ sweep'.stage = "Physical"
      /\ sweep'.ahead = {o \in Objects : PageExists(PageOf[o])}
      /\ UNCHANGED <<occupied, edges, marks, active, packs, targets, cursor,
                     source, scope, held>>
  BY Zenon DEF MarkDone
<1>2. Marking /\ Usable /\ ~Marking' /\ Usable'
      /\ DiscoveredNow' = DiscoveredNow /\ BlackNow' = BlackNow
  BY <1>1, Zenon DEF Marking, Usable, DiscoveredNow, BlackNow
<1>3. marks.queued = {} /\ JobsMatch(marks)
  <2>1. JobsMatch(marks) /\ marks.queued \subseteq Pages
    BY <1>2, Zenon DEF IInv, QueueInv, TypeOK, MarkType
  <2> QED  BY <1>1, <2>1 DEF JobsMatch
<1>4. DiscoveredNow = BlackNow /\ DiscoveredNow \subseteq occupied
  <2>1. \A o \in DiscoveredNow \ BlackNow : o = None
    BY ZenonT(40), <1>1, <1>2, <1>3 DEF IInv, GrayInv
  <2>2. BlackNow \subseteq DiscoveredNow /\ DiscoveredNow \subseteq Objects
    BY BlackIsDiscovered, Zenon DEF IInv
  <2> QED  BY <1>2, <2>1, <2>2, NoneAssumption, Zenon DEF IInv, GrayInv
<1>5. QueueInv' /\ GrayInv'
  BY ZenonT(40), <1>1, <1>2, <1>3, <1>4 DEF IInv, QueueInv, GrayInv, JobsMatch
<1>6. SweepInv'
  <2> DEFINE T == occupied \cap BlackNow
  <2>1. T = BlackNow /\ T = DiscoveredNow /\ T \subseteq occupied /\ T' = T
    BY <1>1, <1>2, <1>4, Zenon
  <2> HIDE DEF T
  <2>2. EdgesWithin(T, T)'
    BY <1>1, <1>2, <2>1, Zenon DEF IInv, ColourInv, EdgesWithin
  <2>3. NamesWithin(T)'
    <3>1. held' = {}
      BY <1>1, Zenon DEF IInv, ScopeInv
    <3>2. /\ \A p \in Packs : packs[p] = "live" =>
                \A i \in 1..Width[p] : targets[p][i] \in T \cup {None}
          /\ \A s \in SourceSlots : source[s] \in T \cup {None}
      BY <1>1, <1>2, <2>1, Zenon DEF IInv, RootInv
    <3> QED  BY ZenonT(40), <1>1, <2>1, <3>1, <3>2 DEF NamesWithin
  <2>4. occupied' \ BlackNow' \subseteq sweep'.ahead
    BY ZenonT(40), <1>1 DEF PageExists, SlotsOf, IInv, TypeOK
  <2>5. Safe(T)'
    BY ZenonT(40), <1>1, <2>1, <2>2, <2>3 DEF Safe
  <2> QED  BY <1>1, <2>4, <2>5, Zenon DEF SweepInv, T
<1>7. GraphInv' /\ ColourInv' /\ RootInv' /\ FaultInv' /\ ScopeInv'
  BY ZenonT(40), <1>1, <1>2 DEF GraphInv, ColourInv, RootInv, FaultInv, IInv, ScopeInv
<1> QED  BY <1>5, <1>6, <1>7, Zenon DEF IInv

-----------------------------------------------------------------------------
(***************************************************************************)
(* Allocation.                                                             *)
(***************************************************************************)
(* A slot is reserved and a set S published; N is the new object, or       *)
(* nothing if the allocation fails.                                        *)
Admits(N, S) ==
    /\ N \in SUBSET (Objects \ occupied) /\ S \in SUBSET Nameable
    /\ occupied' = occupied \cup N /\ held' = held \cup N
    /\ UNCHANGED <<phase, active, packs, targets, cursor, source, sweep, scope>>

AdmitEdges(N, S) ==
    /\ \A x \in Objects \ N : edges'[x] = edges[x]
    /\ \A x \in N : \A f \in Fields(x) : edges'[x][f] \in S \cup {None}

\* The marks m while marking, with the set S published and N born black.
MarkingMarks(m, N, S) ==
    /\ Discovered(m) = DiscoveredNow \cup S \cup N
    /\ Black(m) = BlackNow \cup {x \in S \ DiscoveredNow : Arity[x] = 0} \cup N
    /\ marks.queued \subseteq m.queued
    /\ \A p \in m.queued : p \in m.current /\ PageExists(p)
    /\ \A x \in S \ DiscoveredNow : Arity[x] # 0 => PageOf[x] \in m.queued

\* The marks m at any other time.
QuietMarks(m) ==
    /\ m.queued = {} /\ Discovered(m) \subseteq Black(m)
    /\ Black(m) \cap occupied = BlackNow \cap occupied

SoundMarks(m, N, S) ==
    /\ m.scanned \subseteq m.discovered /\ JobsMatch(m)
    /\ Marking => MarkingMarks(m, N, S)
    /\ ~Marking => QuietMarks(m)

LEMMA AdmitStep ==
    ASSUME IInv, TypeOK', Usable, scope, NEW N, NEW S,
           Admits(N, S), AdmitEdges(N, S), SoundMarks(marks', N, S),
           phase = "Sweep" => N \subseteq BlackNow'
    PROVE  IInv'
<1>1. /\ EdgesWithin(Nameable, Nameable) /\ NamesWithin(Nameable)
      /\ Nameable \subseteq occupied /\ occupied \subseteq Objects
  BY NameableFacts, Zenon
<1>2. /\ N \subseteq Objects \ occupied /\ S \subseteq Nameable
      /\ occupied' = occupied \cup N /\ held' = held \cup N
      /\ phase' = phase /\ active' = active /\ cursor' = cursor
      /\ sweep' = sweep /\ scope' = scope
  BY Zenon DEF Admits
<1>3. packs' = packs /\ targets' = targets /\ source' = source
  BY Zenon DEF Admits
<1>4. Marking' = Marking /\ Usable'
  BY <1>2, Zenon DEF Marking, Usable
<1>5. Marking =>
         /\ DiscoveredNow' = DiscoveredNow \cup S \cup N
         /\ BlackNow' = BlackNow \cup {x \in S \ DiscoveredNow : Arity[x] = 0} \cup N
         /\ marks.queued \subseteq marks'.queued
         /\ \A x \in S \ DiscoveredNow : Arity[x] # 0 => PageOf[x] \in marks'.queued
  BY Zenon DEF SoundMarks, MarkingMarks, DiscoveredNow, BlackNow
<1>6. ~Marking => /\ DiscoveredNow' \subseteq BlackNow'
                  /\ BlackNow' \cap occupied = BlackNow \cap occupied
  BY Zenon DEF SoundMarks, QuietMarks, DiscoveredNow, BlackNow
<1>7. Nameable' = Nameable \cup N
  BY <1>2, <1>6, Zenon DEF Nameable, Marking
<1>8. QueueInv'
  <2>1. \A p : PageExists(p) => PageExists(p)'
    BY <1>2, Zenon DEF PageExists
  <2>2. JobsMatch(marks)'
    BY Zenon DEF SoundMarks, JobsMatch
  <2>3. Marking => \A p \in marks'.queued : p \in marks'.current /\ PageExists(p)
    BY Zenon DEF SoundMarks, MarkingMarks
  <2> QED  BY <1>4, <2>1, <2>2, <2>3, Zenon DEF QueueInv, SoundMarks, QuietMarks
<1>9. GrayInv'
  <2>1. CASE Marking
    BY <1>1, <1>2, <1>4, <1>5, <2>1, Zenon DEF IInv, GrayInv
  <2>2. CASE ~Marking
    BY <1>2, <1>4, <1>6, <2>2, Zenon DEF IInv, GrayInv
  <2> QED  BY <2>1, <2>2, Zenon
<1>10. EdgesWithin(Nameable, Nameable)'
  BY <1>1, <1>2, <1>7, Zenon DEF EdgesWithin, AdmitEdges
<1>11. NamesWithin(Nameable)'
  BY <1>1, <1>2, <1>3, <1>7, Zenon DEF NamesWithin
<1>12. GraphInv'
  BY <1>2, <1>10, <1>11, Zenon DEF GraphInv, Nameable
<1>13. SweepInv'
  <2> SUFFICES ASSUME phase = "Sweep" PROVE SweepInv'
    BY <1>2, Zenon DEF SweepInv
  <2>1. Nameable' = (occupied \cap BlackNow)'
    BY <1>2, Zenon DEF Nameable
  <2>2. Safe(occupied \cap BlackNow)'
    BY ZenonT(40), <1>10, <1>11, <2>1 DEF Safe, EdgesWithin, NamesWithin
  <2>3. occupied' \ BlackNow' \subseteq sweep'.ahead
    BY <1>2, <1>6, Zenon DEF IInv, SweepInv, Marking
  <2> QED  BY <1>2, <2>2, <2>3, Zenon DEF IInv, SweepInv
<1>14. ColourInv'
  <2> SUFFICES ASSUME Marking PROVE ColourInv'
    BY <1>4, Zenon DEF ColourInv
  <2>1. EdgesWithin(BlackNow, DiscoveredNow) /\ BlackNow \subseteq DiscoveredNow
        /\ DiscoveredNow \subseteq occupied
    BY BlackIsDiscovered, Zenon DEF IInv, ColourInv, GrayInv
  <2>2. ASSUME NEW x \in BlackNow', NEW f \in Fields(x)
        PROVE  edges'[x][f] \in DiscoveredNow' \cup {None}
    <3>1. x \in BlackNow \/ x \in N
      BY <1>1, <1>2, <1>5, <2>2, ArityAssumption DEF Fields
    <3>2. CASE x \in N
      BY <1>5, <2>2, <3>2, Zenon DEF AdmitEdges
    <3>3. CASE x \in BlackNow
      BY <1>1, <1>2, <1>5, <2>1, <2>2, <3>3, Zenon DEF EdgesWithin, AdmitEdges
    <3> QED  BY <3>1, <3>2, <3>3, Zenon
  <2>3. ASSUME active'.owner # None, ~active'.restart, NEW f \in 1..active'.at
        PROVE  edges'[active'.owner][f] \in DiscoveredNow' \cup {None}
    <3>1. active.owner \in DiscoveredNow
      BY <1>2, <2>3, Zenon DEF IInv, GrayInv
    <3>2. active.owner \in Objects \ N
      BY <1>1, <1>2, <2>1, <3>1, Zenon
    <3>3. edges[active.owner][f] \in DiscoveredNow \cup {None}
      BY <1>2, <2>3, Zenon DEF IInv, ColourInv
    <3> QED  BY <1>2, <1>5, <3>2, <3>3, Zenon DEF AdmitEdges
  <2> QED  BY <2>2, <2>3, Zenon DEF ColourInv, EdgesWithin
<1>15. RootInv'
  <2>1. CASE Marking
    <3>1. DiscoveredNow \subseteq DiscoveredNow'
      BY <1>5, <2>1, Zenon
    <3>2. RootInv
      BY Zenon DEF IInv
    <3> HIDE DEF DiscoveredNow
    <3> QED  BY <1>2, <1>3, <1>4, <2>1, <3>1, <3>2, Zenon DEF RootInv
  <2>2. CASE ~Marking
    BY ZenonT(40), <1>2, <2>2 DEF RootInv, Marking
  <2> QED  BY <2>1, <2>2, Zenon
<1>16. FaultInv' /\ ScopeInv'
  BY <1>2, Zenon DEF FaultInv, Usable, ScopeInv
<1> QED  BY <1>8, <1>9, <1>12, <1>13, <1>14, <1>15, <1>16, Zenon DEF IInv

\* The marks after a reservation and the publication of what will be stored.
LEMMA ReservedMarks ==
    ASSUME IInv, Usable, NEW o \in Objects \ occupied, NEW S \in SUBSET Nameable,
           NEW m, m = Publish(Reserve(o), S)
    PROVE  m \in MarkType /\ SoundMarks(m, {}, S)
<1>1. /\ marks \in MarkType /\ occupied \subseteq Objects /\ S \in SUBSET Objects
      /\ S \subseteq occupied
  BY NameableFacts, Zenon DEF IInv, TypeOK
<1>2. /\ Reserve(o) \in MarkType
      /\ Discovered(Reserve(o)) \subseteq DiscoveredNow
      /\ Discovered(Reserve(o)) \cap occupied = DiscoveredNow \cap occupied
      /\ Black(Reserve(o)) \subseteq BlackNow
      /\ Black(Reserve(o)) \cap occupied = BlackNow \cap occupied
      /\ Discovered(Reserve(o)) \ Black(Reserve(o)) \subseteq Gray(marks)
      /\ Reserve(o).jobs = marks.jobs
      /\ (\A p \in marks.queued : PageExists(p) /\ p \in marks.current) =>
            /\ Reserve(o).queued = marks.queued
            /\ \A p \in marks.queued : p \in Reserve(o).current
      /\ Reserve(o).queued \subseteq marks.queued
      /\ Reserve(o).scanned \subseteq Reserve(o).discovered
  BY ZenonT(40), <1>1, ReserveLemma DEF DiscoveredNow, BlackNow, IInv, QueueInv
<1>3. CASE ~Marking
  <2>1. m = Reserve(o)
    BY <1>3, Zenon DEF Publish, Marking
  <2>2. Gray(marks) = {} /\ marks.queued = {} /\ JobsMatch(marks)
    BY <1>3, Zenon DEF IInv, GrayInv, QueueInv, Gray, DiscoveredNow, BlackNow
  <2>3. JobsMatch(m)
    BY ZenonT(40), <1>2, <2>1, <2>2 DEF JobsMatch
  <2> QED  BY ZenonT(40), <1>2, <1>3, <2>1, <2>2, <2>3 DEF SoundMarks, QuietMarks
<1>4. CASE Marking
  <2>1. m = Shade(Reserve(o), S)
    BY <1>4, Zenon DEF Publish, Marking
  <2>2. /\ DiscoveredNow \subseteq occupied /\ BlackNow \subseteq DiscoveredNow
        /\ JobsMatch(marks)
        /\ \A p \in marks.queued : PageExists(p) /\ p \in marks.current
    BY <1>4, BlackIsDiscovered, Zenon DEF IInv, GrayInv, QueueInv
  <2>3. Discovered(Reserve(o)) = DiscoveredNow /\ Black(Reserve(o)) = BlackNow
    BY ZenonT(40), <1>2, <2>2
  <2>4. /\ Reserve(o).queued = marks.queued
        /\ Reserve(o).queued \subseteq Reserve(o).current
        /\ JobsMatch(Reserve(o))
    BY <1>2, <2>2, Zenon DEF JobsMatch
  <2>5. /\ m \in MarkType
        /\ Discovered(m) = DiscoveredNow \cup S
        /\ Black(m) = BlackNow \cup {x \in S \ DiscoveredNow : Arity[x] = 0}
        /\ m.scanned \subseteq m.discovered /\ JobsMatch(m)
        /\ Reserve(o).queued \subseteq m.queued
        /\ \A x \in S \ DiscoveredNow : Arity[x] # 0 => PageOf[x] \in m.queued
        /\ \A p \in m.queued : p \in m.current
              /\ (p \in Reserve(o).queued \/ \E x \in S : PageOf[x] = p)
    <3> DEFINE r == Reserve(o)
    <3>1. /\ r \in MarkType /\ S \in SUBSET Objects /\ r.scanned \subseteq r.discovered
          /\ r.queued \subseteq r.current /\ JobsMatch(r)
      BY <1>1, <1>2, <2>4, Zenon
    <3>2. m = Shade(r, S) /\ Discovered(r) = DiscoveredNow /\ Black(r) = BlackNow
      BY <2>1, <2>3, Zenon
    <3> HIDE DEF r
    <3>3. /\ m \in MarkType
          /\ Discovered(m) = Discovered(r) \cup S
          /\ Black(m) = Black(r) \cup {x \in S \ Discovered(r) : Arity[x] = 0}
          /\ m.scanned \subseteq m.discovered /\ JobsMatch(m)
          /\ r.queued \subseteq m.queued
          /\ \A x \in S \ Discovered(r) : Arity[x] # 0 => PageOf[x] \in m.queued
          /\ \A p \in m.queued : p \in m.current
                /\ (p \in r.queued \/ \E x \in S : PageOf[x] = p)
      BY <3>1, <3>2, ShadeLemma
    <3> QED  BY <3>2, <3>3, Zenon DEF r
  <2>6. \A x \in S : PageExists(PageOf[x])
    BY <1>1, Zenon DEF PageExists, SlotsOf
  <2>7. MarkingMarks(m, {}, S)
    BY ZenonT(40), <2>2, <2>4, <2>5, <2>6 DEF MarkingMarks
  <2> QED  BY <1>4, <2>5, <2>7, Zenon DEF SoundMarks
<1> QED  BY <1>3, <1>4, Zenon

LEMMA AllocateFailsStep ==
    ASSUME IInv, TypeOK', NEW o \in Objects \ occupied, NEW S \in SUBSET held,
           AllocateFails(o, S)
    PROVE  IInv'
<1>1. /\ Usable /\ scope /\ marks' = Publish(Reserve(o), S)
      /\ UNCHANGED <<phase, occupied, edges, active, packs, targets, cursor,
                     source, sweep, scope, held>>
  BY Zenon DEF AllocateFails
<1>2. S \in SUBSET Nameable
  BY <1>1, NameableFacts, Zenon DEF NamesWithin
<1>3. Admits({}, S) /\ AdmitEdges({}, S)
  BY <1>1, <1>2, Zenon DEF Admits, AdmitEdges
<1>4. SoundMarks(marks', {}, S)
  BY <1>1, <1>2, ReservedMarks, Zenon
<1> QED  BY <1>1, <1>3, <1>4, AdmitStep, Zenon

LEMMA AllocateStep ==
    ASSUME IInv, TypeOK', NEW o \in Objects \ occupied, NEW e \in Contents(o),
           Allocate(o, e)
    PROVE  IInv'
<1> DEFINE S == {e[f] : f \in Fields(o)} \ {None}
           m == Publish(Reserve(o), S)
<1>1. /\ Usable /\ scope
      /\ marks' = IF phase = "Idle" THEN m ELSE SetBlack(m, o)
      /\ occupied' = occupied \cup {o} /\ held' = held \cup {o}
      /\ edges' = [edges EXCEPT ![o] = e]
      /\ UNCHANGED <<phase, active, packs, targets, cursor, source, sweep, scope>>
  BY ZenonT(40) DEF Allocate
<1>2. S \in SUBSET Nameable
  BY ZenonT(40), <1>1, NameableFacts DEF Contents, NamesWithin
<1>3. AdmitEdges({o}, S)
  BY <1>1, Zenon DEF IInv, TypeOK, EdgesTyped, AdmitEdges
<1> HIDE DEF S
<1>4. m \in MarkType /\ SoundMarks(m, {}, S)
  BY <1>1, <1>2, ReservedMarks, Zenon
<1> HIDE DEF m
<1>5. /\ SetBlack(m, o).current = m.current \cup {PageOf[o]}
      /\ Discovered(SetBlack(m, o)) = Discovered(m) \cup {o}
      /\ Black(SetBlack(m, o)) = Black(m) \cup {o}
      /\ SetBlack(m, o).queued = m.queued \ ({PageOf[o]} \ m.current)
      /\ SetBlack(m, o).jobs = m.jobs
      /\ SetBlack(m, o).scanned \subseteq SetBlack(m, o).discovered
  <2>1. m \in MarkType /\ o \in Objects /\ m.scanned \subseteq m.discovered
    BY <1>4, Zenon DEF SoundMarks
  <2>2. m.scanned \subseteq m.discovered =>
          SetBlack(m, o).scanned \subseteq SetBlack(m, o).discovered
    BY <2>1, SetBlackLemma, Zenon
  <2>3. /\ SetBlack(m, o).current = m.current \cup {PageOf[o]}
        /\ Discovered(SetBlack(m, o)) = Discovered(m) \cup {o}
        /\ Black(SetBlack(m, o)) = Black(m) \cup {o}
        /\ SetBlack(m, o).queued = m.queued \ ({PageOf[o]} \ m.current)
        /\ SetBlack(m, o).jobs = m.jobs
    BY <2>1, SetBlackLemma
  <2> QED  BY <2>1, <2>2, <2>3, Zenon
<1>6. m.queued \subseteq m.current
  BY ZenonT(40), <1>4 DEF SoundMarks, MarkingMarks, QuietMarks
<1>7. SetBlack(m, o).queued = m.queued
  BY <1>5, <1>6, Zenon
<1>8. JobsMatch(SetBlack(m, o))
  BY <1>4, <1>5, <1>7, Zenon DEF JobsMatch, SoundMarks
<1>9. MarkingMarks(m, {}, S) => MarkingMarks(SetBlack(m, o), {o}, S)
  BY ZenonT(40), <1>5, <1>7 DEF MarkingMarks
<1>10. QuietMarks(m) => QuietMarks(SetBlack(m, o))
  BY ZenonT(40), <1>5, <1>7 DEF QuietMarks
<1>11. SoundMarks(SetBlack(m, o), {o}, S)
  BY <1>4, <1>5, <1>8, <1>9, <1>10, Zenon DEF SoundMarks
<1>12. SoundMarks(marks', {o}, S)
  <2>1. CASE phase = "Idle"
    BY <1>1, <1>4, <2>1, Zenon DEF SoundMarks, Marking
  <2>2. CASE phase # "Idle"
    BY <1>1, <1>11, <2>2, Zenon
  <2> QED  BY <2>1, <2>2, Zenon
<1>13. phase = "Sweep" => {o} \subseteq BlackNow'
  BY ZenonT(40), <1>1, <1>5 DEF BlackNow
<1>14. Admits({o}, S)
  BY <1>1, <1>2, Zenon DEF Admits
<1> QED  BY <1>1, <1>3, <1>12, <1>13, <1>14, AdmitStep, Zenon

-----------------------------------------------------------------------------
(***************************************************************************)
(* Sweeping.                                                               *)
(***************************************************************************)
\* What retiring a white object leaves: all black objects, and as much work ahead.
LEMMA RetireLemma ==
    ASSUME IInv, phase = "Sweep", NEW o \in Objects, o \notin BlackNow, Retire(o),
           UNCHANGED <<marks, packs, targets, source, held>>
    PROVE  /\ Safe(occupied \cap BlackNow)'
           /\ occupied' \ BlackNow' \subseteq sweep'.ahead
           /\ sweep'.stage = sweep.stage
           /\ sweep'.ahead \subseteq sweep.ahead
<1> DEFINE T == occupied \cap BlackNow
<1>1. /\ occupied' = occupied \ {o} /\ edges' = [edges EXCEPT ![o] = NoEdges(o)]
      /\ sweep'.stage = sweep.stage
      /\ sweep'.ahead = sweep.ahead \ (IF SlotsOf(PageOf[o]) \cap occupied = {o}
                                       THEN SlotsOf(PageOf[o]) ELSE {o})
  BY Zenon DEF Retire, IInv, TypeOK, SweepType
<1>2. T' = T /\ o \notin T /\ BlackNow' = BlackNow
  BY <1>1, Zenon DEF BlackNow
<1>3. /\ Safe(T) /\ T \subseteq Objects
      /\ occupied \ BlackNow \subseteq sweep.ahead
  BY Zenon DEF IInv, TypeOK, SweepInv
<1>4. \A x \in T : edges'[x] = edges[x]
  BY ZenonT(40), <1>1, <1>2, <1>3 DEF IInv, TypeOK, EdgesTyped
<1>5. T \subseteq occupied'
  BY <1>1, <1>2, Zenon
<1>6. occupied' \ BlackNow' \subseteq sweep'.ahead
  BY <1>1, <1>2, <1>3, Zenon
<1> HIDE DEF T
<1>7. Safe(T)'
  BY <1>2, <1>3, <1>4, <1>5, Zenon DEF Safe, EdgesWithin, NamesWithin
<1> QED  BY <1>1, <1>6, <1>7, Zenon DEF T

\* A step within Sweep.
LEMMA SweepingStep ==
    ASSUME IInv, TypeOK', phase = "Sweep", SweepInv', ScopeInv',
           UNCHANGED <<phase, marks, active>>
    PROVE  IInv'
<1>1. QueueInv' /\ GrayInv'
  BY ZenonT(40)
     DEF IInv, QueueInv, GrayInv, Usable, Marking, JobsMatch, DiscoveredNow, BlackNow
<1>2. GraphInv' /\ ColourInv' /\ RootInv' /\ FaultInv'
  BY Zenon DEF GraphInv, ColourInv, RootInv, FaultInv, Marking
<1> QED  BY <1>1, <1>2, Zenon DEF IInv

LEMMA SweepSlotStep ==
    ASSUME IInv, TypeOK', NEW o \in Objects, SweepSlot(o)
    PROVE  IInv'
<1>1. /\ phase = "Sweep" /\ sweep.stage = "Physical"
      /\ UNCHANGED <<phase, marks, active, packs, targets, cursor, source, scope, held>>
  BY Zenon DEF SweepSlot, Sweeping
<1>2. SweepInv'
  <2>1. CASE o \in occupied /\ o \notin BlackNow
    <3>1. Retire(o)
      BY <2>1, Zenon DEF SweepSlot, BlackNow
    <3> QED  BY <1>1, <2>1, <3>1, RetireLemma, Zenon DEF SweepInv
  <2>2. CASE ~(o \in occupied /\ o \notin BlackNow)
    <3>1. UNCHANGED <<occupied, edges>> /\ sweep' = [sweep EXCEPT !.ahead = @ \ {o}]
      BY <2>2, Zenon DEF SweepSlot, BlackNow
    <3>2. sweep'.stage = sweep.stage /\ sweep'.ahead = sweep.ahead \ {o}
      BY <3>1, Zenon DEF IInv, TypeOK, SweepType
    <3>3. BlackNow' = BlackNow
      BY <1>1, Zenon DEF BlackNow
    <3>4. Safe(occupied \cap BlackNow)'
      BY <1>1, <3>1, <3>3, Zenon DEF IInv, SweepInv, Safe, EdgesWithin, NamesWithin
    <3> QED  BY <1>1, <2>2, <3>1, <3>2, <3>3, <3>4, Zenon DEF IInv, SweepInv
  <2> QED  BY <2>1, <2>2, Zenon
<1>3. ScopeInv'
  BY <1>1, Zenon DEF IInv, ScopeInv
<1> QED  BY <1>1, <1>2, <1>3, SweepingStep, Zenon

LEMMA SweepPanicsStep ==
    ASSUME IInv, TypeOK', NEW o \in Objects, SweepPanics(o)
    PROVE  IInv'
<1>1. /\ phase = "Sweep" /\ o \notin BlackNow /\ Retire(o) /\ phase' = "Faulted"
      /\ UNCHANGED <<marks, active, packs, targets, cursor, source, scope, held>>
  BY Zenon DEF SweepPanics, Sweeping, BlackNow
<1>2. Safe(occupied \cap BlackNow)'
  BY <1>1, RetireLemma, Zenon
<1>3. ScopeInv' /\ (occupied \cap BlackNow)' \in SUBSET Objects
  BY <1>1, Zenon DEF IInv, ScopeInv, TypeOK
<1>4. FaultInv'
  BY <1>2, <1>3, Zenon DEF FaultInv
<1>5. QueueInv'
  BY <1>1, Zenon DEF IInv, QueueInv, Usable, Marking
<1>6. GrayInv' /\ GraphInv' /\ ColourInv' /\ RootInv' /\ SweepInv'
  BY ZenonT(40), <1>1
     DEF GrayInv, GraphInv, ColourInv, RootInv, SweepInv, Usable, Marking
<1> QED  BY <1>3, <1>4, <1>5, <1>6, Zenon DEF IInv

LEMMA SweepRootsStep ==
    ASSUME IInv, TypeOK', SweepPagesDone \/ \E p \in Packs : ReleaseRoot(p)
    PROVE  IInv'
<1>1. /\ phase = "Sweep" /\ sweep'.ahead = sweep.ahead
      /\ sweep'.stage = "Roots" => sweep.ahead = {}
      /\ UNCHANGED <<phase, occupied, edges, marks, active, cursor, source, scope, held>>
  BY ZenonT(40) DEF SweepPagesDone, ReleaseRoot, IInv, SweepInv, TypeOK, SweepType
<1>2. \A p \in Packs : packs'[p] = "live" => packs[p] = "live" /\ targets'[p] = targets[p]
  BY Zenon DEF SweepPagesDone, ReleaseRoot, IInv, TypeOK, TargetsTyped
<1>3. BlackNow' = BlackNow
  BY <1>1, Zenon DEF BlackNow
<1>4. Safe(occupied \cap BlackNow)'
  BY ZenonT(40), <1>1, <1>2, <1>3 DEF IInv, SweepInv, Safe, EdgesWithin, NamesWithin
<1>5. SweepInv' /\ ScopeInv'
  BY ZenonT(40), <1>1, <1>3, <1>4 DEF IInv, SweepInv, ScopeInv
<1> QED  BY <1>1, <1>5, SweepingStep, Zenon

LEMMA SweepDoneStep ==
    ASSUME IInv, TypeOK', SweepDone
    PROVE  IInv'
<1>1. /\ phase = "Sweep" /\ sweep.stage = "Roots" /\ phase' = "Idle"
      /\ UNCHANGED <<occupied, edges, marks, active, packs, targets, cursor,
                     source, scope, held>>
  BY Zenon DEF SweepDone
<1>2. occupied \cap BlackNow = occupied
  BY <1>1, Zenon DEF IInv, SweepInv
<1>3. Safe(occupied)
  BY <1>1, <1>2, Zenon DEF IInv, SweepInv
<1>4. GraphInv'
  BY <1>1, <1>3, Zenon DEF GraphInv, Safe, EdgesWithin, NamesWithin
<1>5. QueueInv' /\ GrayInv'
  BY ZenonT(40), <1>1
     DEF IInv, QueueInv, GrayInv, Usable, Marking, JobsMatch, DiscoveredNow, BlackNow
<1>6. ColourInv' /\ RootInv' /\ SweepInv' /\ FaultInv' /\ ScopeInv'
  BY ZenonT(40), <1>1
     DEF ColourInv, RootInv, SweepInv, FaultInv, ScopeInv, IInv, Marking
<1> QED  BY <1>4, <1>5, <1>6, Zenon DEF IInv

LEMMA ShutdownStep ==
    ASSUME IInv, TypeOK', Shutdown
    PROVE  IInv'
<1>1. phase' = "Closed" /\ marks' = NoMarks /\ UNCHANGED <<scope, held>>
  BY Zenon DEF Shutdown
<1>2. QueueInv'
  BY <1>1, Zenon DEF QueueInv, NoMarks, Usable, Marking
<1>3. GrayInv' /\ GraphInv' /\ ColourInv' /\ RootInv' /\ SweepInv' /\ FaultInv' /\ ScopeInv'
  BY ZenonT(40), <1>1
     DEF GrayInv, GraphInv, ColourInv, RootInv, SweepInv, FaultInv, ScopeInv,
              IInv, Usable, Marking
<1> QED  BY <1>2, <1>3, Zenon DEF IInv

-----------------------------------------------------------------------------
(***************************************************************************)
(* The theorems.                                                           *)
(***************************************************************************)
LEMMA InvInit == Init => IInv
<1> SUFFICES ASSUME Init PROVE IInv
  BY Zenon
<1>1. TypeOK
  BY TypeInit, Zenon
<1>2. DiscoveredNow = {} /\ BlackNow = {}
  BY Zenon DEF Init, NoMarks, DiscoveredNow, BlackNow, Discovered, Black
<1>3. QueueInv
  BY Zenon DEF Init, NoMarks, QueueInv, JobsMatch, Marking
<1>4. GrayInv /\ ColourInv /\ RootInv /\ SweepInv /\ FaultInv /\ ScopeInv
  BY ZenonT(40), <1>2 DEF Init, NoScan, GrayInv, ColourInv, RootInv, SweepInv, FaultInv,
              ScopeInv, Marking
<1>5. GraphInv
  BY Zenon DEF Init, GraphInv, EdgesWithin, NamesWithin
<1> QED  BY <1>1, <1>3, <1>4, <1>5, Zenon DEF IInv

LEMMA InvStep == IInv /\ [Next]_vars => IInv'
<1> SUFFICES ASSUME IInv, [Next]_vars PROVE IInv'
  BY Zenon
<1> TypeOK'
  BY TypeStep, Zenon DEF IInv
<1>1. ASSUME OpenScope \/ CloseScope PROVE IInv'
  BY <1>1, ForgetStep, Zenon DEF OpenScope, CloseScope, ScopeInv, IInv
<1>2. ASSUME MutatorFault \/ CollectorFault PROVE IInv'
  BY <1>2, PlainFaultStep, Zenon DEF MutatorFault, CollectorFault
<1>3. ASSUME NEW p \in Packs, NEW i \in 1..Width[p], GetRoot(p, i) PROVE IInv'
  <2>1. Usable /\ Hold(targets[p][i]) /\ packs[p] = "live"
    BY <1>3, Zenon DEF GetRoot, Hold
  <2>2. targets[p][i] \in Nameable \cup {None}
    BY <2>1, NameableFacts, Zenon DEF NamesWithin
  <2> QED  BY <2>1, <2>2, HoldStep, Zenon
<1>4. ASSUME NEW o \in held, NEW f \in Fields(o), Follow(o, f) PROVE IInv'
  <2>1. Usable /\ Hold(edges[o][f])
    BY <1>4, Zenon DEF Follow, Hold
  <2>2. edges[o][f] \in Nameable \cup {None}
    BY <2>1, NameableFacts, Zenon DEF NamesWithin, EdgesWithin
  <2> QED  BY <2>1, <2>2, HoldStep, Zenon
<1>5. ASSUME NEW s \in SourceSlots, SourceGet(s) PROVE IInv'
  <2>1. Usable /\ Hold(source[s])
    BY <1>5, Zenon DEF SourceGet, Hold
  <2>2. source[s] \in Nameable \cup {None}
    BY <2>1, NameableFacts, Zenon DEF NamesWithin
  <2> QED  BY <2>1, <2>2, HoldStep, Zenon
<1>6. ASSUME NEW p \in Packs, NEW i \in 1..Width[p], NEW v \in held \cup {None},
             SetRoot(p, i, v)
      PROVE  IInv'
  BY <1>6, SetRootStep, Zenon
<1>7. ASSUME NEW o \in held, NEW f \in Fields(o), RemoveRepaired(o, f) PROVE IInv'
  BY <1>7, RemoveStep, Zenon
<1>8. ASSUME NEW o \in held, NEW f \in Fields(o), NEW v \in held \cup {None},
             SetEdge(o, f, v)
      PROVE  IInv'
  BY <1>8, SetEdgeStep, Zenon
<1>9. ASSUME NEW s \in SourceSlots, NEW v \in held \cup {None}, SetSource(s, v)
      PROVE  IInv'
  BY <1>9, SetSourceStep, Zenon
<1>10. ASSUME NEW o \in Objects \ occupied, NEW e \in Contents(o), Allocate(o, e)
       PROVE  IInv'
  BY <1>10, AllocateStep, Zenon
<1>11. ASSUME NEW o \in Objects \ occupied, NEW T \in SUBSET held, AllocateFails(o, T)
       PROVE  IInv'
  BY <1>11, AllocateFailsStep, Zenon
<1>12. ASSUME NEW o \in held, NEW e \in Rearranged(o),
              EditRestart(o, e) \/ EditContinue(o, e)
       PROVE  IInv'
  BY <1>12, EditStep, Zenon
<1>13. ASSUME NEW p \in Packs \ Typed, CreateRoots(p) PROVE IInv'
  BY <1>13, CreateRootsStep, Zenon
<1>14. ASSUME NEW p \in Typed, NEW o \in held, Retain(p, o) PROVE IInv'
  BY <1>14, TypedAssumption, RetainStep, Zenon
<1>15. CASE Mutator
  BY <1>1, <1>2, <1>3, <1>4, <1>5, <1>6, <1>7, <1>8, <1>9, <1>10, <1>11, <1>12,
     <1>13, <1>14, <1>15, Zenon DEF Mutator
<1>16. CASE CollectorStep
  BY <1>16, RootsDoneStep, ScanEdgeStep, ScanDoneStep, MarkDoneStep, SweepRootsStep,
     SweepDoneStep, RootScanStep, RootNextStep, SourceScanStep, BeginScanStep,
     SweepSlotStep, Zenon DEF CollectorStep
<1>17. ASSUME NEW p \in Packs, DropLease(p) PROVE IInv'
  <2>1. \A q \in Packs : packs'[q] = "live" => packs[q] = "live"
    BY <1>17, Zenon DEF DropLease, IInv, TypeOK
  <2> QED  BY <1>17, <2>1, ForgetStep, Zenon DEF DropLease, ScopeInv, IInv
<1>18. CASE UNCHANGED vars
  BY <1>18, ForgetStep, Zenon DEF vars, ScopeInv, IInv
<1> QED
  BY <1>2, <1>15, <1>16, <1>17, <1>18, StartStep, ShutdownStep, SweepPanicsStep, Zenon DEF Next

\* The tri-colour invariant, the page queue, the root and sweep cursors fit together
\* in every state of the heap (everything Heap::service and the scopes rely on).
THEOREM InvariantHolds == Spec => []IInv
  BY InvInit, InvStep, PTL DEF Spec

\* A set that protects what can be named bounds what can be reached.
LEMMA LiveWithin ==
    ASSUME TypeOK, NEW S \in SUBSET Objects, EdgesWithin(S, S), NamesWithin(S)
    PROVE  Live \subseteq S
<1>1. Rooted \subseteq S
  <2>1. ASSUME NEW r \in RootSlots PROVE RootValue(r) \in S \cup {None}
    <3>1. CASE \E s \in SourceSlots : r = <<s, 0>>
      BY <3>1 DEF RootValue, NamesWithin
    <3>2. CASE \E p \in Packs : \E i \in 1..Width[p] : r = <<p, i>>
      BY <3>2, WidthAssumption DEF RootValue, NamesWithin
    <3> QED  BY <3>1, <3>2 DEF RootSlots
  <2> QED  BY <2>1, Zenon DEF Rooted, NamesWithin
<1>2. ClosedUnder(S, edges, None)
  <2> SUFFICES ASSUME NEW o \in S, NEW t \in Targets(edges, o, None) PROVE t \in S
    BY Zenon DEF ClosedUnder
  <2>1. o \in Objects
    BY Zenon
  <2>2. PICK f \in Fields(o) : t # None /\ t = edges[o][f]
    BY <2>1, TypeFacts
  <2> QED  BY <2>2, Zenon DEF EdgesWithin
<1> QED  BY <1>1, <1>2, Zenon DEF Live, Reachable

\* Nothing the mutator can reach is reclaimed, for every heap, page layout, root
\* table and execution source, whatever the order of steps and scopes (Heap::sweep).
THEOREM LiveNeverReclaimed == Spec => []LiveIsOccupied
<1>1. IInv => LiveIsOccupied
  <2> SUFFICES ASSUME IInv, phase # "Closed" PROVE Live \subseteq occupied
    BY Zenon DEF LiveIsOccupied
  <2>1. PICK S \in SUBSET Objects : Safe(S)
    <3>1. CASE Usable
      <4>1. Safe(Nameable) /\ Nameable \in SUBSET Objects
        BY <3>1, NameableFacts, Zenon DEF Safe
      <4> QED  BY <4>1, Zenon
    <3>2. CASE ~Usable
      BY <3>2, Zenon DEF Usable, IInv, FaultInv
    <3> QED  BY <3>1, <3>2, Zenon
  <2> QED  BY <2>1, LiveWithin, Zenon DEF Safe, IInv
<1> QED  BY <1>1, InvariantHolds, PTL

\* A legal mutator never meets "publication of condemned object"
\* (Marking::publish_admitted).
THEOREM NeverCondemned == Spec => []PublicationNeverRefused
<1>1. IInv => PublicationNeverRefused
  <2> SUFFICES ASSUME IInv, Usable, NEW o \in Live PROVE CanPublish(o)
    BY Zenon DEF PublicationNeverRefused
  <2>1. /\ EdgesWithin(Nameable, Nameable) /\ NamesWithin(Nameable)
        /\ \A x \in Nameable : CanPublish(x)
        /\ Nameable \in SUBSET Objects
    BY NameableFacts, Zenon
  <2>2. Live \subseteq Nameable
    BY <2>1, LiveWithin, Zenon DEF IInv
  <2> QED  BY <2>1, <2>2, Zenon
<1> QED  BY <1>1, InvariantHolds, PTL

\* Marking cannot end while a gray object is left, and a page is queued at most
\* once (Marking::next, the reserved capacity of Marking::pending).
THEOREM GrayAlwaysQueued == Spec => []NoGrayLost
<1>1. IInv => NoGrayLost
  BY Zenon DEF IInv, NoGrayLost, GrayInv, QueueInv, JobsMatch, Gray, DiscoveredNow, BlackNow
<1> QED  BY <1>1, InvariantHolds, PTL

-----------------------------------------------------------------------------
(* The refinement: what a step is to the users of the heap.                *)

\* The places outside the graph, and what they hold before and after a step.
LEMMA RootSlotCases ==
    /\ \A s \in SourceSlots : <<s, 0>> \in RootSlots
    /\ \A p \in Packs : \A i \in 1..Width[p] : <<p, i>> \in RootSlots
    /\ \A r \in RootSlots : \/ \E s \in SourceSlots : r = <<s, 0>>
                            \/ \E p \in Packs : \E i \in 1..Width[p] : r = <<p, i>>
  BY DEF RootSlots

LEMMA RootValues ==
    /\ \A s \in SourceSlots : /\ RootValue(<<s, 0>>) = source[s]
                              /\ RootValue(<<s, 0>>)' = source'[s]
    /\ \A p \in Packs : \A i \in 1..Width[p] :
          /\ RootValue(<<p, i>>) = IF packs[p] = "live" THEN targets[p][i] ELSE None
          /\ RootValue(<<p, i>>)' = IF packs'[p] = "live" THEN targets'[p][i] ELSE None
<1>1. \A p \in Packs : \A i \in 1..Width[p] : i # 0
  BY WidthAssumption
<1> QED  BY <1>1, Zenon DEF RootValue

LEMMA RootsKept ==
    ASSUME UNCHANGED source,
           \A p \in Packs : \A i \in 1..Width[p] : RootValue(<<p, i>>)' = RootValue(<<p, i>>)
    PROVE  UNCHANGED RootMap
<1>1. ASSUME NEW r \in RootSlots PROVE RootValue(r)' = RootValue(r)
  BY RootSlotCases, RootValues, Zenon
<1> QED  BY <1>1, Zenon DEF RootMap

LEMMA StatusFacts ==
    /\ Usable => Status = "usable"
    /\ Usable' => Status' = "usable"
    /\ phase' = "Faulted" => Status' = "faulted"
    /\ phase' = "Closed" => Status' = "closed"
    /\ phase' = phase => Status' = Status
  BY Zenon DEF Status, Usable

\* Nothing that the mutator could see.
LEMMA Unseen ==
    ASSUME UNCHANGED <<occupied, edges, packs, targets, source, scope, held>>,
           phase' = phase \/ (Usable /\ Usable')
    PROVE  UNCHANGED Abstract!vars
<1>1. UNCHANGED Status
  BY StatusFacts, Zenon
<1>2. UNCHANGED RootMap
  BY RootsKept, RootValues, Zenon
<1> QED  BY <1>1, <1>2, Zenon DEF Abstract!vars

LEMMA FaultSeen ==
    ASSUME Usable, phase' = "Faulted",
           UNCHANGED <<occupied, edges, packs, targets, source, scope, held>>
    PROVE  Abstract!Fault
<1>1. UNCHANGED RootMap
  BY RootsKept, RootValues, Zenon
<1> QED  BY <1>1, StatusFacts, Zenon DEF Abstract!Fault

\* A handle comes from a root or from an edge of a held object.
LEMMA ReadSeen ==
    ASSUME TypeOK, NEW o, Hold(o),
           \/ \E r \in RootSlots : RootValue(r) = o
           \/ \E h \in held : \E f \in Fields(h) : edges[h][f] = o
    PROVE  \E x \in Objects : Abstract!Read(x)
<1>1. /\ Usable /\ scope /\ o # None /\ held' = held \cup {o}
      /\ UNCHANGED <<phase, occupied, edges, packs, targets, source, scope>>
  BY Zenon DEF Hold
<1>2. UNCHANGED Status /\ UNCHANGED RootMap /\ Status = "usable"
  BY <1>1, StatusFacts, RootsKept, RootValues, Zenon
<1>3. o \in Objects
  <2>1. CASE \E h \in held : \E f \in Fields(h) : edges[h][f] = o
    BY <1>1, <2>1 DEF TypeOK, EdgesTyped
  <2>2. ASSUME NEW r \in RootSlots, RootValue(r) = o PROVE o \in Objects
    <3>1. CASE \E s \in SourceSlots : r = <<s, 0>>
      BY <1>1, <2>2, <3>1, RootValues DEF TypeOK
    <3>2. ASSUME NEW p \in Packs, NEW i \in 1..Width[p], r = <<p, i>> PROVE o \in Objects
      <4>1. targets[p][i] \in Objects \cup {None}
        BY TypeFacts, Zenon DEF TypeOK, TargetsTyped
      <4>2. o = IF packs[p] = "live" THEN targets[p][i] ELSE None
        BY <2>2, <3>2, RootValues, Zenon
      <4> QED  BY <1>1, <4>1, <4>2, Zenon
    <3> QED  BY <3>1, <3>2, RootSlotCases, Zenon
  <2> QED  BY <2>1, <2>2, Zenon
<1>4. \/ \E r \in RootSlots : RootMap[r] = o
      \/ \E h \in held : o \in Targets(edges, h, None)
  <2>1. CASE \E r \in RootSlots : RootValue(r) = o
    BY <2>1, Zenon DEF RootMap
  <2>2. ASSUME NEW h \in held, NEW f \in Fields(h), edges[h][f] = o
        PROVE  o \in Targets(edges, h, None)
    BY <1>1, <2>2, TypeFacts, Zenon DEF TypeOK
  <2> QED  BY <2>1, <2>2, Zenon
<1> QED  BY <1>1, <1>2, <1>3, <1>4, Zenon DEF Abstract!Read, Abstract!Targets, Targets

\* One object gets other edges, to what it referred to or to held objects.
LEMMA WriteSeen ==
    ASSUME TypeOK, Usable, scope, NEW o \in held, NEW e \in Rearranged(o),
           edges' = [edges EXCEPT ![o] = e],
           UNCHANGED <<phase, occupied, packs, targets, source, scope, held>>
    PROVE  Abstract!Write(o) /\ o \in Objects
<1>1. UNCHANGED Status /\ UNCHANGED RootMap /\ Status = "usable"
  BY StatusFacts, RootsKept, RootValues, Zenon
<1>2. o \in Objects /\ DOMAIN edges = Objects
  BY Zenon DEF TypeOK, EdgesTyped
<1>3. edges'[o] = e /\ \A x \in Objects \ {o} : edges'[x] = edges[x]
  BY <1>2, Zenon
<1>4. Targets(edges', o, None) \subseteq held \cup Targets(edges, o, None)
  BY <1>3, Zenon DEF Targets, Rearranged
<1> QED  BY <1>1, <1>2, <1>3, <1>4, Zenon DEF Abstract!Write, Abstract!Targets, Targets

\* Root slots come to hold what is held.
LEMMA WriteRootsSeen ==
    ASSUME Usable, scope, UNCHANGED <<phase, occupied, edges, scope, held>>,
           NEW S \in SUBSET held, RootWrites(S)
    PROVE  Abstract!WriteRoots
<1>1. UNCHANGED Status /\ Status = "usable"
  BY StatusFacts, Zenon
<1>2. ASSUME NEW p \in Packs, NEW i \in 1..Width[p]
      PROVE  RootValue(<<p, i>>)' \in {RootValue(<<p, i>>), None} \cup held
  BY RootValues DEF RootWrites
<1>3. ASSUME NEW s \in SourceSlots
      PROVE  RootValue(<<s, 0>>)' \in {RootValue(<<s, 0>>), None} \cup held
  BY RootValues, Zenon DEF RootWrites
<1>4. \A r \in RootSlots : RootValue(r)' \in {RootValue(r), None} \cup held
  BY <1>2, <1>3, RootSlotCases, Zenon
<1>5. \A r \in RootSlots : RootMap'[r] \in {RootMap[r], None} \cup held
  BY <1>4, Zenon DEF RootMap
<1> QED  BY <1>1, <1>5, Zenon DEF Abstract!WriteRoots

\* A lease that ends, or an entry that is given back, names nothing any more.
LEMMA DropRootsSeen ==
    ASSUME UNCHANGED <<phase, occupied, edges, source, scope, held>>,
           \A p \in Packs : \A i \in 1..Width[p] :
              RootValue(<<p, i>>)' \in {RootValue(<<p, i>>), None}
    PROVE  Abstract!DropRoots
<1>1. UNCHANGED Status
  BY StatusFacts, Zenon
<1>2. ASSUME NEW r \in RootSlots PROVE RootValue(r)' \in {RootValue(r), None}
  BY RootSlotCases, RootValues, Zenon
<1>3. \A r \in RootSlots : RootMap'[r] \in {RootMap[r], None}
  BY <1>2, Zenon DEF RootMap
<1> QED  BY <1>1, <1>3, Zenon DEF Abstract!DropRoots

LEMMA AllocateSeen ==
    ASSUME TypeOK, NEW o \in Objects \ occupied, NEW e \in Contents(o), Allocate(o, e)
    PROVE  Abstract!Create(o)
<1>1. /\ Usable /\ scope /\ occupied' = occupied \cup {o} /\ held' = held \cup {o}
      /\ edges' = [edges EXCEPT ![o] = e]
      /\ UNCHANGED <<phase, packs, targets, source, scope>>
  BY Zenon DEF Allocate
<1>2. UNCHANGED Status /\ UNCHANGED RootMap /\ Status = "usable"
  BY <1>1, StatusFacts, RootsKept, RootValues, Zenon
<1>3. edges'[o] = e /\ \A x \in Objects \ {o} : edges'[x] = edges[x]
  BY <1>1, Zenon DEF TypeOK, EdgesTyped
<1>4. Targets(edges', o, None) \subseteq held
  BY <1>3, Zenon DEF Targets, Contents
<1> QED  BY <1>1, <1>2, <1>3, <1>4, Zenon DEF Abstract!Create, Abstract!Targets, Targets

\* What a sweep frees is beyond the mutator's reach: the black objects protect
\* all that it can name.
LEMMA RetireSeen ==
    ASSUME IInv, NEW o \in Objects, Sweeping(o), o \in occupied, o \notin Black(marks),
           Retire(o), phase' \in {phase, "Faulted"},
           UNCHANGED <<packs, targets, source, scope, held>>
    PROVE  Abstract!Reclaim(o)
<1>1. phase = "Sweep" /\ ~scope
  BY Zenon DEF Sweeping
<1>2. Status = "usable" /\ Status' \in {"usable", "faulted"} /\ UNCHANGED RootMap
  BY <1>1, StatusFacts, RootsKept, RootValues, Zenon DEF Usable
<1>3. Live \subseteq occupied \cap BlackNow
  <2>1. Safe(occupied \cap BlackNow) /\ TypeOK /\ occupied \in SUBSET Objects
    BY <1>1, Zenon DEF IInv, SweepInv, TypeOK
  <2>2. occupied \cap BlackNow \in SUBSET Objects
    BY <2>1, Zenon
  <2> QED  BY <2>1, <2>2, LiveWithin, Zenon DEF Safe
<1>4. Abstract!Live = Live
  <2>1. {RootMap[r] : r \in RootSlots} = {RootValue(r) : r \in RootSlots}
    BY Zenon DEF RootMap
  <2> QED  BY <2>1, Zenon DEF Abstract!Live, Live, Rooted, Abstract!Reachable, Reachable,
                       Abstract!ClosedUnder, ClosedUnder, Abstract!Targets, Targets
<1>5. occupied' = occupied \ {o} /\ \A x \in Objects \ {o} : edges'[x] = edges[x]
  BY Zenon DEF Retire, IInv, TypeOK, EdgesTyped
<1> QED  BY <1>1, <1>2, <1>3, <1>4, <1>5, Zenon DEF Abstract!Reclaim, BlackNow

LEMMA MutatorSeen ==
    ASSUME IInv, Mutator
    PROVE  Abstract!Next \/ UNCHANGED Abstract!vars
<1> USE DEF Abstract!Next
<1>0. TypeOK
  BY Zenon DEF IInv
<1>1. ASSUME OpenScope \/ CloseScope PROVE Abstract!Next
  <2>1. UNCHANGED Status /\ UNCHANGED RootMap /\ (OpenScope => Status = "usable")
    BY <1>1, StatusFacts, RootsKept, RootValues, Zenon DEF OpenScope, CloseScope
  <2>2. CASE OpenScope
    BY <2>1, <2>2, Zenon DEF OpenScope, Abstract!Enter
  <2>3. CASE CloseScope
    BY <2>1, <2>3, Zenon DEF CloseScope, Abstract!Leave
  <2> QED  BY <1>1, <2>2, <2>3, Zenon
<1>2. ASSUME MutatorFault PROVE Abstract!Next
  BY <1>2, FaultSeen, Zenon DEF MutatorFault
<1>3. ASSUME NEW p \in Packs, NEW i \in 1..Width[p], GetRoot(p, i) PROVE Abstract!Next
  <2>1. RootValue(<<p, i>>) = targets[p][i] /\ <<p, i>> \in RootSlots /\ Hold(targets[p][i])
    BY <1>3, RootSlotCases, RootValues, Zenon DEF GetRoot
  <2> QED  BY <1>0, <2>1, ReadSeen, Zenon
<1>4. ASSUME NEW s \in SourceSlots, SourceGet(s) PROVE Abstract!Next
  <2>1. RootValue(<<s, 0>>) = source[s] /\ <<s, 0>> \in RootSlots /\ Hold(source[s])
    BY <1>4, RootSlotCases, RootValues, Zenon DEF SourceGet
  <2> QED  BY <1>0, <2>1, ReadSeen, Zenon
<1>5. ASSUME NEW o \in held, NEW f \in Fields(o), Follow(o, f) PROVE Abstract!Next
  BY <1>0, <1>5, ReadSeen, Zenon DEF Follow
<1>6. ASSUME NEW p \in Packs, NEW i \in 1..Width[p], NEW v \in held \cup {None}, SetRoot(p, i, v)
      PROVE  Abstract!Next
  <2>1. RootWrites({v} \ {None})
    BY <1>0, <1>6, Zenon DEF SetRoot, TypeOK, TargetsTyped, RootWrites
  <2>2. {v} \ {None} \subseteq held
    BY Zenon
  <2> QED  BY <1>6, <2>1, <2>2, WriteRootsSeen, Zenon DEF SetRoot
<1>7. ASSUME NEW s \in SourceSlots, NEW v \in held \cup {None}, SetSource(s, v)
      PROVE  Abstract!Next
  <2>1. RootWrites({v} \ {None})
    BY <1>0, <1>7, Zenon DEF SetSource, TypeOK, RootWrites
  <2>2. {v} \ {None} \subseteq held
    BY Zenon
  <2> QED  BY <1>7, <2>1, <2>2, WriteRootsSeen, Zenon DEF SetSource
<1>8. ASSUME NEW p \in Packs \ Typed, CreateRoots(p) PROVE Abstract!Next
  <2>1. RootWrites({})
    BY <1>0, <1>8, Zenon DEF CreateRoots, TypeOK, TargetsTyped, RootWrites
  <2> QED  BY <1>8, <2>1, WriteRootsSeen, Zenon DEF CreateRoots
<1>9. ASSUME NEW p \in Typed, NEW o \in held, Retain(p, o) PROVE Abstract!Next
  <2>1. p \in Packs
    BY TypedAssumption, Zenon
  <2>2. RootWrites({o})
    BY <1>0, <1>9, <2>1, Zenon DEF Retain, TypeOK, TargetsTyped, RootWrites
  <2> QED  BY <1>9, <2>2, WriteRootsSeen, Zenon DEF Retain
<1>10. ASSUME NEW o \in held, NEW e \in Rearranged(o), EditRestart(o, e) \/ EditContinue(o, e)
       PROVE  Abstract!Next
  BY <1>0, <1>10, WriteSeen, Zenon DEF EditRestart, EditContinue
<1>11. ASSUME NEW o \in held, NEW i \in Fields(o), RemoveRepaired(o, i) PROVE Abstract!Next
  <2> DEFINE e == [f \in Fields(o) |->
                     IF f < i THEN edges[o][f] ELSE IF f < Arity[o] THEN edges[o][f + 1] ELSE None]
  <2>1. o \in Objects /\ Arity[o] \in Nat /\ edges' = [edges EXCEPT ![o] = e]
    BY <1>0, <1>11, ArityAssumption, Zenon DEF RemoveRepaired, TypeOK, EdgesTyped
  <2>2. e \in Rearranged(o)
    <3>1. \A f \in Fields(o) : f < Arity[o] => f + 1 \in Fields(o)
      BY <2>1 DEF Fields
    <3> QED  BY <1>0, <2>1, <3>1, TypeFacts, Zenon DEF Rearranged
  <2> HIDE DEF e
  <2> QED  BY <1>0, <1>11, <2>1, <2>2, WriteSeen, Zenon DEF RemoveRepaired
<1>12. ASSUME NEW o \in held, NEW f \in Fields(o), NEW v \in held \cup {None}, SetEdge(o, f, v)
       PROVE  Abstract!Next
  <2>1. CASE v = None \/ CanPublish(v)
    <3> DEFINE e == [edges[o] EXCEPT ![f] = v]
    <3>1. o \in Objects /\ edges' = [edges EXCEPT ![o] = e]
      BY <1>0, <1>12, <2>1, Zenon DEF SetEdge, TypeOK, EdgesTyped
    <3>2. e \in Rearranged(o)
      BY <1>0, <3>1, TypeFacts DEF Rearranged, TypeOK, EdgesTyped
    <3> HIDE DEF e
    <3> QED  BY <1>0, <1>12, <2>1, <3>1, <3>2, WriteSeen, Zenon DEF SetEdge
  <2>2. CASE ~(v = None \/ CanPublish(v))
    BY <1>12, <2>2, FaultSeen, Zenon DEF SetEdge
  <2> QED  BY <2>1, <2>2, Zenon
<1>13. ASSUME NEW o \in Objects \ occupied, NEW e \in Contents(o), Allocate(o, e)
       PROVE  Abstract!Next
  BY <1>0, <1>13, AllocateSeen, Zenon
<1>14. ASSUME NEW o \in Objects \ occupied, NEW T \in SUBSET held, AllocateFails(o, T)
       PROVE  UNCHANGED Abstract!vars
  BY <1>14, Unseen, Zenon DEF AllocateFails
<1> QED
  BY <1>1, <1>2, <1>3, <1>4, <1>5, <1>6, <1>7, <1>8, <1>9, <1>10, <1>11, <1>12, <1>13,
     <1>14, Zenon DEF Mutator

LEMMA CollectorSeen ==
    ASSUME IInv, CollectorStep
    PROVE  Abstract!Next \/ UNCHANGED Abstract!vars
<1>1. ASSUME \/ RootsDone \/ ScanEdge \/ ScanDone \/ MarkDone \/ SweepPagesDone \/ SweepDone
             \/ \E p \in Packs : ScanRootTarget(p) \/ ScanRootNext(p)
             \/ \E s \in SourceSlots : ScanSource(s)
             \/ \E p \in Pages : BeginScan(p)
      PROVE  UNCHANGED Abstract!vars
  <2>1. UNCHANGED <<occupied, edges, packs, targets, source, scope, held>>
    BY <1>1, Zenon DEF RootsDone, ScanEdge, ScanDone, MarkDone, SweepPagesDone, SweepDone,
           ScanRootTarget, ScanRootNext, ScanSource, BeginScan
  <2>2. phase' = phase \/ (Usable /\ Usable')
    BY <1>1, Zenon DEF RootsDone, ScanEdge, ScanDone, MarkDone, SweepPagesDone, SweepDone,
           ScanRootTarget, ScanRootNext, ScanSource, BeginScan, Usable
  <2> QED  BY <2>1, <2>2, Unseen, Zenon
<1>2. ASSUME NEW p \in Packs, ReleaseRoot(p) PROVE Abstract!Next
  <2>1. \A q \in Packs : packs[q] # "live" => packs'[q] # "live"
    BY <1>2, Zenon DEF ReleaseRoot, IInv, TypeOK
  <2>2. \A q \in Packs : packs[q] = "live" => packs'[q] = "live" /\ targets'[q] = targets[q]
    BY <1>2, Zenon DEF ReleaseRoot, IInv, TypeOK, TargetsTyped
  <2>3. \A q \in Packs : \A i \in 1..Width[q] : RootValue(<<q, i>>)' \in {RootValue(<<q, i>>), None}
    <3> SUFFICES ASSUME NEW q \in Packs, NEW i \in 1..Width[q]
                 PROVE  RootValue(<<q, i>>)' \in {RootValue(<<q, i>>), None}
      BY Zenon
    <3>1. RootValue(<<q, i>>) = IF packs[q] = "live" THEN targets[q][i] ELSE None
      BY RootValues, Zenon
    <3>2. RootValue(<<q, i>>)' = IF packs'[q] = "live" THEN targets'[q][i] ELSE None
      BY RootValues, Zenon
    <3> QED  BY <2>1, <2>2, <3>1, <3>2, Zenon
  <2> QED  BY <1>2, <2>3, DropRootsSeen, Zenon DEF ReleaseRoot, Abstract!Next
<1>3. ASSUME NEW o \in Objects, SweepSlot(o) PROVE Abstract!Next \/ UNCHANGED Abstract!vars
  <2>1. CASE o \in occupied /\ o \notin Black(marks)
    BY <1>3, <2>1, RetireSeen, Zenon DEF SweepSlot, Abstract!Next
  <2>2. CASE ~(o \in occupied /\ o \notin Black(marks))
    BY <1>3, <2>2, Unseen, Zenon DEF SweepSlot
  <2> QED  BY <2>1, <2>2, Zenon
<1> QED  BY <1>1, <1>2, <1>3, Zenon DEF CollectorStep

LEMMA StepSeen == IInv /\ [Next]_vars => [Abstract!Next]_(Abstract!vars)
<1> SUFFICES ASSUME IInv, [Next]_vars PROVE Abstract!Next \/ UNCHANGED Abstract!vars
  BY Zenon
<1>1. CASE Mutator
  BY <1>1, MutatorSeen, Zenon
<1>2. CASE CollectorStep
  BY <1>2, CollectorSeen, Zenon
<1>3. CASE StartCycle
  BY <1>3, Unseen, Zenon DEF StartCycle, Usable
<1>4. CASE CollectorFault
  BY <1>4, FaultSeen, Zenon DEF CollectorFault, Abstract!Next
<1>5. CASE Shutdown
  <2>1. Status' = "closed"
    BY <1>5, StatusFacts, Zenon DEF Shutdown
  <2>2. Abstract!Close
    BY <1>5, <2>1, Zenon DEF Shutdown, Abstract!Close
  <2> QED  BY <2>2, Zenon DEF Abstract!Next
<1>6. ASSUME NEW o \in Objects, SweepPanics(o) PROVE Abstract!Next
  BY <1>6, RetireSeen, Zenon DEF SweepPanics, Abstract!Next
<1>7. ASSUME NEW p \in Packs, DropLease(p) PROVE Abstract!Next
  <2>1. \A q \in Packs : packs'[q] = "live" => packs[q] = "live"
    BY <1>7, Zenon DEF DropLease, IInv, TypeOK
  <2>2. \A q \in Packs : \A i \in 1..Width[q] : RootValue(<<q, i>>)' \in {RootValue(<<q, i>>), None}
    <3> SUFFICES ASSUME NEW q \in Packs, NEW i \in 1..Width[q]
                 PROVE  RootValue(<<q, i>>)' \in {RootValue(<<q, i>>), None}
      BY Zenon
    <3>1. RootValue(<<q, i>>) = IF packs[q] = "live" THEN targets[q][i] ELSE None
      BY RootValues, Zenon
    <3>2. RootValue(<<q, i>>)' = IF packs'[q] = "live" THEN targets[q][i] ELSE None
      BY <1>7, RootValues, Zenon DEF DropLease
    <3> QED  BY <2>1, <3>1, <3>2, Zenon
  <2> QED  BY <1>7, <2>2, DropRootsSeen, Zenon DEF DropLease, Abstract!Next
<1>8. CASE UNCHANGED vars
  BY <1>8, Unseen, Zenon DEF vars
<1> QED  BY <1>1, <1>2, <1>3, <1>4, <1>5, <1>6, <1>7, <1>8, Zenon DEF Next

\* The incremental heap does what ManagedHeap promises: every operation of a scope is
\* one of its operations, and every step of the collector is nothing to the mutator,
\* or the disappearance of one object that it cannot reach (Heap::service, Heap::sweep).
THEOREM HeapRefines == Spec => ImplementsManagedHeap
<1>1. Init => Abstract!Init
  <2> SUFFICES ASSUME Init PROVE Abstract!Init
    BY Zenon
  <2>1. \A o \in Objects : Targets(edges, o, None) = {}
    BY Zenon DEF Init, NoEdges, Targets
  <2>2. \A r \in RootSlots : RootMap[r] = None
    BY RootSlotCases, RootValues DEF Init, RootMap
  <2>3. Status = "usable"
    BY Zenon DEF Init, Status
  <2> QED  BY <2>1, <2>2, <2>3, Zenon DEF Init, Abstract!Init, Abstract!Targets, Targets
<1> QED  BY <1>1, StepSeen, InvariantHolds, PTL DEF Spec, ImplementsManagedHeap, Abstract!Spec

-----------------------------------------------------------------------------
(* Garbage of the start of a cycle is gone at its end.                     *)

\* Nobody gets at a forgotten object again: the mutator reads only what is named,
\* and writes only what it has read.
LEMMA ForgottenKept ==
    ASSUME IInv, IInv', Forgotten, [Abstract!Next]_(Abstract!vars),
           doomed' = doomed \cap occupied'
    PROVE  Forgotten'
<1> USE DEF Abstract!Targets
<1>1. \A r \in RootSlots : RootMap[r] = RootValue(r) /\ RootMap'[r] = RootValue(r)'
  BY Zenon DEF RootMap
<1>2. /\ doomed \subseteq occupied /\ held \cap doomed = {}
      /\ \A r \in RootSlots : RootMap[r] \notin doomed
      /\ \A o \in occupied \ doomed : Targets(edges, o, None) \cap doomed = {}
  BY <1>1, Zenon DEF Forgotten
<1>3. occupied \subseteq Objects /\ occupied' \subseteq Objects /\ None \notin doomed
  BY <1>2, NoneAssumption, Zenon DEF IInv, TypeOK
<1>4. Forgotten' <=> /\ held' \cap doomed' = {}
                     /\ \A r \in RootSlots : RootMap'[r] \notin doomed'
                     /\ \A o \in occupied' \ doomed' : Targets(edges', o, None) \cap doomed' = {}
  BY <1>1, Zenon DEF Forgotten
<1>5. Status = "usable" => held \subseteq occupied
  <2>1. Status = "usable" => Usable
    BY Zenon DEF Status, Usable
  <2> QED  BY <2>1, NameableFacts, Zenon DEF NamesWithin
<1>6. CASE UNCHANGED Abstract!vars
  BY <1>2, <1>4, <1>6, Zenon DEF Abstract!vars
<1>7. CASE Abstract!Enter \/ Abstract!Leave \/ Abstract!Fault
  BY <1>2, <1>4, <1>7, Zenon DEF Abstract!Enter, Abstract!Leave, Abstract!Fault
<1>8. CASE Abstract!WriteRoots \/ Abstract!DropRoots
  BY <1>2, <1>3, <1>4, <1>8, Zenon DEF Abstract!WriteRoots, Abstract!DropRoots
<1>9. CASE Abstract!Close
  BY <1>4, <1>9, Zenon DEF Abstract!Close
<1>10. ASSUME NEW o \in Objects, Abstract!Read(o) PROVE Forgotten'
  <2>1. o \notin doomed
    BY <1>2, <1>5, <1>10, Zenon DEF Abstract!Read, Targets
  <2>2. held' = held \cup {o} /\ UNCHANGED <<occupied, edges, RootMap>>
    BY <1>10, Zenon DEF Abstract!Read
  <2> QED  BY <1>2, <1>4, <2>1, <2>2, Zenon
<1>11. ASSUME NEW o \in Objects, Abstract!Create(o) PROVE Forgotten'
  <2>1. /\ o \notin doomed /\ o \notin occupied /\ occupied' = occupied \cup {o}
        /\ held' = held \cup {o} /\ RootMap' = RootMap
        /\ \A x \in Objects \ {o} : edges'[x] = edges[x]
        /\ Targets(edges', o, None) \subseteq held
    BY <1>2, <1>11, Zenon DEF Abstract!Create, Targets
  <2>2. doomed' = doomed
    BY <1>2, <2>1, Zenon
  <2>3. \A x \in Objects \ {o} : Targets(edges', x, None) = Targets(edges, x, None)
    BY <2>1, Zenon DEF Targets
  <2> QED  BY <1>2, <1>3, <1>4, <2>1, <2>2, <2>3
<1>12. ASSUME NEW o \in Objects, Abstract!Write(o) PROVE Forgotten'
  <2>1. /\ UNCHANGED <<occupied, held, RootMap>>
        /\ \A x \in Objects \ {o} : edges'[x] = edges[x]
        /\ Targets(edges', o, None) \subseteq held \cup Targets(edges, o, None)
    BY <1>12, Zenon DEF Abstract!Write, Targets
  <2>2. doomed' = doomed
    BY <1>2, <2>1, Zenon
  <2>3. \A x \in Objects \ {o} : Targets(edges', x, None) = Targets(edges, x, None)
    BY <2>1, Zenon DEF Targets
  <2> QED  BY <1>2, <1>3, <1>4, <2>1, <2>2, <2>3, Zenon
<1>13. ASSUME NEW o \in Objects, Abstract!Reclaim(o) PROVE Forgotten'
  <2>1. /\ UNCHANGED <<held, RootMap>> /\ occupied' = occupied \ {o}
        /\ \A x \in Objects \ {o} : edges'[x] = edges[x]
    BY <1>13, Zenon DEF Abstract!Reclaim
  <2>2. \A x \in Objects \ {o} : Targets(edges', x, None) = Targets(edges, x, None)
    BY <2>1, Zenon DEF Targets
  <2> QED  BY <1>2, <1>3, <1>4, <2>1, <2>2, Zenon
<1> QED
  BY <1>6, <1>7, <1>8, <1>9, <1>10, <1>11, <1>12, <1>13, Zenon DEF Abstract!Next

\* What a step publishes is not doomed, so neither is what it discovers.
LEMMA PublishSpares ==
    ASSUME IInv, DiscoveredNow \cap doomed = {}, NEW m \in MarkType,
           Discovered(m) \subseteq DiscoveredNow, NEW S \in SUBSET Objects, S \cap doomed = {}
    PROVE  /\ Publish(m, S) \in MarkType /\ Discovered(Publish(m, S)) \cap doomed = {}
           /\ Shade(m, S) \in MarkType /\ Discovered(Shade(m, S)) \cap doomed = {}
<1>1. Shade(m, S) \in MarkType /\ Discovered(Shade(m, S)) = Discovered(m) \cup S
  BY ShadeLemma, Zenon
<1>2. Discovered(Shade(m, S)) \cap doomed = {}
  BY <1>1, Zenon
<1> QED  BY <1>1, <1>2, Zenon DEF Publish

LEMMA MutatorSpares ==
    ASSUME IInv, Forgotten, DiscoveredNow \cap doomed = {}, Mutator, phase' # "Faulted"
    PROVE  DiscoveredNow' \cap doomed = {} /\ phase' = phase
<1>1. /\ marks \in MarkType /\ held \in SUBSET Objects /\ occupied \subseteq Objects
      /\ Discovered(marks) = DiscoveredNow
  BY Zenon DEF IInv, TypeOK, DiscoveredNow
<1>2. held \cap doomed = {} /\ doomed \subseteq occupied
  BY Zenon DEF Forgotten
<1>3. ASSUME NEW S \in SUBSET held, marks' = Publish(marks, S)
      PROVE  DiscoveredNow' \cap doomed = {}
  <2>1. S \in SUBSET Objects /\ S \cap doomed = {}
    BY <1>1, <1>2, Zenon
  <2> QED  BY <1>1, <1>3, <2>1, PublishSpares, Zenon DEF DiscoveredNow
<1>4. ASSUME UNCHANGED <<marks, phase>> PROVE DiscoveredNow' \cap doomed = {} /\ phase' = phase
  BY <1>4, Zenon DEF DiscoveredNow
<1>5. ASSUME OpenScope \/ CloseScope PROVE UNCHANGED <<marks, phase>>
  BY <1>5, Zenon DEF OpenScope, CloseScope
<1>6. ASSUME NEW p \in Packs, NEW i \in 1..Width[p], GetRoot(p, i) PROVE UNCHANGED <<marks, phase>>
  BY <1>6, Zenon DEF GetRoot, Hold
<1>7. ASSUME NEW o \in held, NEW f \in Fields(o), Follow(o, f) \/ RemoveRepaired(o, f)
      PROVE  UNCHANGED <<marks, phase>>
  BY <1>7, Zenon DEF Follow, Hold, RemoveRepaired
<1>8. ASSUME NEW s \in SourceSlots, SourceGet(s) PROVE UNCHANGED <<marks, phase>>
  BY <1>8, Zenon DEF SourceGet, Hold
<1>9. ASSUME NEW p \in Packs \ Typed, CreateRoots(p) PROVE UNCHANGED <<marks, phase>>
  BY <1>9, Zenon DEF CreateRoots
<1>10. ASSUME NEW p \in Packs, NEW i \in 1..Width[p], NEW v \in held \cup {None}, SetRoot(p, i, v)
       PROVE  DiscoveredNow' \cap doomed = {} /\ phase' = phase
  BY <1>3, <1>10, Zenon DEF SetRoot
<1>11. ASSUME NEW o \in held, NEW f \in Fields(o), NEW v \in held \cup {None}, SetEdge(o, f, v)
       PROVE  DiscoveredNow' \cap doomed = {} /\ phase' = phase
  BY <1>3, <1>11 DEF SetEdge
<1>12. ASSUME NEW s \in SourceSlots, NEW v \in held \cup {None}, SetSource(s, v)
       PROVE  DiscoveredNow' \cap doomed = {} /\ phase' = phase
  BY <1>3, <1>12, Zenon DEF SetSource
<1>13. ASSUME NEW p \in Typed, NEW o \in held, Retain(p, o)
       PROVE  DiscoveredNow' \cap doomed = {} /\ phase' = phase
  BY <1>3, <1>13, Zenon DEF Retain
<1>14. ASSUME NEW o \in held, NEW e \in Rearranged(o), EditRestart(o, e)
       PROVE  DiscoveredNow' \cap doomed = {} /\ phase' = phase
  <2>1. Imported(o, e) \in SUBSET held
    BY <1>14, Zenon DEF EditRestart
  <2> QED  BY <1>3, <1>14, <2>1, Zenon DEF EditRestart
\* An edit that moves an edge publishes what the object, itself not doomed, refers to.
<1>15. ASSUME NEW o \in held, NEW e \in Rearranged(o), EditContinue(o, e)
       PROVE  DiscoveredNow' \cap doomed = {} /\ phase' = phase
  <2>1. Usable /\ marks' = Publish(marks, Moved(o, e)) /\ phase' = phase
    BY <1>15, Zenon DEF EditContinue
  <2>2. held \subseteq occupied
    BY <2>1, NameableFacts, Zenon DEF NamesWithin
  <2>3. Targets(edges, o, None) \cap doomed = {} /\ Targets(edges, o, None) \subseteq Objects
    BY <1>1, <1>2, <2>2, TypeFacts, Zenon DEF Forgotten, IInv
  <2>4. Moved(o, e) \subseteq held \cup Targets(edges, o, None)
    BY Zenon DEF Moved, Rearranged
  <2>5. Moved(o, e) \in SUBSET Objects /\ Moved(o, e) \cap doomed = {}
    BY <1>1, <1>2, <2>3, <2>4, Zenon
  <2> QED  BY <1>1, <2>1, <2>5, PublishSpares, Zenon DEF DiscoveredNow
<1>16. ASSUME NEW o \in Objects \ occupied, NEW S \in SUBSET held
       PROVE  /\ Publish(Reserve(o), S) \in MarkType
              /\ Discovered(Publish(Reserve(o), S)) \cap doomed = {}
  <2>1. Reserve(o) \in MarkType /\ Discovered(Reserve(o)) \subseteq DiscoveredNow
    BY <1>1, ReserveLemma, Zenon
  <2>2. S \in SUBSET Objects /\ S \cap doomed = {}
    BY <1>1, <1>2, Zenon
  <2> QED  BY <2>1, <2>2, PublishSpares, Zenon
<1>17. ASSUME NEW o \in Objects \ occupied, NEW T \in SUBSET held, AllocateFails(o, T)
       PROVE  DiscoveredNow' \cap doomed = {} /\ phase' = phase
  BY <1>16, <1>17, Zenon DEF AllocateFails, DiscoveredNow
<1>18. ASSUME NEW o \in Objects \ occupied, NEW e \in Contents(o), Allocate(o, e)
       PROVE  DiscoveredNow' \cap doomed = {} /\ phase' = phase
  <2> DEFINE stored == {e[f] : f \in Fields(o)} \ {None}
             m == Publish(Reserve(o), stored)
  <2>1. stored \in SUBSET held
    BY Zenon DEF Contents
  <2>2. m \in MarkType /\ Discovered(m) \cap doomed = {}
    BY <1>16, <2>1, Zenon
  <2>3. phase' = phase /\ marks' = IF phase = "Idle" THEN m ELSE SetBlack(m, o)
    BY <1>18, Zenon DEF Allocate
  <2> HIDE DEF m
  <2>4. Discovered(SetBlack(m, o)) = Discovered(m) \cup {o}
    BY <2>2, SetBlackLemma, Zenon
  <2> QED  BY <1>2, <2>2, <2>3, <2>4, Zenon DEF DiscoveredNow
<1>19. ASSUME MutatorFault PROVE FALSE
  BY <1>19, Zenon DEF MutatorFault
<1> QED
  BY <1>4, <1>5, <1>6, <1>7, <1>8, <1>9, <1>10, <1>11, <1>12, <1>13, <1>14, <1>15, <1>17, <1>18,
     <1>19, Zenon DEF Mutator

\* The cycle discovers what roots, and what objects it has discovered, refer to.
LEMMA CollectorSpares ==
    ASSUME IInv, Forgotten, DiscoveredNow \cap doomed = {}, CollectorStep
    PROVE  DiscoveredNow' \cap doomed = {}
<1>1. /\ TypeOK /\ marks \in MarkType /\ occupied \subseteq Objects
      /\ Discovered(marks) = DiscoveredNow /\ doomed \subseteq occupied
  BY Zenon DEF IInv, TypeOK, DiscoveredNow, Forgotten
<1>2. ASSUME NEW t \in Objects \cup {None}, t \notin doomed, marks' = Shade(marks, {t} \ {None})
      PROVE  DiscoveredNow' \cap doomed = {}
  <2>1. {t} \ {None} \in SUBSET Objects /\ ({t} \ {None}) \cap doomed = {}
    BY <1>2, Zenon
  <2> QED  BY <1>1, <1>2, <2>1, PublishSpares, Zenon DEF DiscoveredNow
<1>3. ASSUME marks'.current = marks.current, marks'.discovered = marks.discovered
      PROVE  DiscoveredNow' \cap doomed = {}
  BY <1>3, Zenon DEF DiscoveredNow, Discovered
<1>4. ASSUME NEW p \in Packs, ScanRootTarget(p) PROVE DiscoveredNow' \cap doomed = {}
  <2>1. /\ packs[p] = "live" /\ cursor.at \in 1..Width[p]
        /\ marks' = Shade(marks, {targets[p][cursor.at]} \ {None})
    <3>1. packs[p] = "live" /\ cursor.at <= Width[p]
          /\ marks' = Shade(marks, {targets[p][cursor.at]} \ {None})
      BY <1>4, Zenon DEF ScanRootTarget
    <3>2. cursor.at \in Nat /\ cursor.at >= 1
      BY <1>1 DEF TypeOK, CursorType
    <3> QED  BY <3>1, <3>2, WidthAssumption
  <2>2. targets[p][cursor.at] \in Objects \cup {None}
    BY <1>1, <2>1, TypeFacts, Zenon
  <2>3. targets[p][cursor.at] \notin doomed
    BY <2>1, RootSlotCases, RootValues, Zenon DEF Forgotten
  <2> QED  BY <1>2, <2>1, <2>2, <2>3, Zenon
<1>5. ASSUME NEW s \in SourceSlots, ScanSource(s) PROVE DiscoveredNow' \cap doomed = {}
  <2>1. source[s] \in Objects \cup {None} /\ marks' = Shade(marks, {source[s]} \ {None})
    BY <1>1, <1>5, TypeFacts, Zenon DEF ScanSource
  <2>2. source[s] \notin doomed
    BY RootSlotCases, RootValues, Zenon DEF Forgotten
  <2> QED  BY <1>2, <2>1, <2>2, Zenon
<1>6. ASSUME ScanEdge PROVE DiscoveredNow' \cap doomed = {}
  <2> DEFINE o == active.owner
             t == edges[o][ScanPosition + 1]
  <2>1. /\ phase = "Mark" /\ o # None /\ ScanPosition + 1 <= Arity[o]
        /\ t \in occupied \cup {None} /\ marks' = Shade(marks, {t} \ {None})
    BY <1>6, Zenon DEF ScanEdge
  <2>2. o \in DiscoveredNow /\ o \in occupied
    BY <2>1, Zenon DEF IInv, GrayInv, Usable, Marking
  <2>3. ScanPosition + 1 \in Fields(o) /\ o \in Objects
    <3>1. o \in Objects /\ Arity[o] \in Nat
      BY <1>1, <2>2, ArityAssumption, Zenon
    <3>2. ScanPosition \in Nat
      BY <1>1, Zenon DEF TypeOK, ScanType, ScanPosition
    <3> QED  BY <2>1, <3>1, <3>2 DEF Fields
  <2>4. t # None => t \in Targets(edges, o, None)
    BY <1>1, <2>3, TypeFacts, Zenon
  <2>5. Targets(edges, o, None) \cap doomed = {}
    BY <2>2, Zenon DEF Forgotten
  <2> HIDE DEF t
  <2>6. t \in Objects \cup {None} /\ t \notin doomed
    BY <1>1, <2>1, <2>4, <2>5, NoneAssumption, Zenon
  <2> QED  BY <1>2, <2>1, <2>6, Zenon
<1>7. ASSUME ScanDone PROVE DiscoveredNow' \cap doomed = {}
  <2>1. /\ phase = "Mark" /\ active.owner # None /\ marks' = SetBlack(marks, active.owner)
    BY <1>7, Zenon DEF ScanDone
  <2>2. active.owner \in DiscoveredNow /\ active.owner \in Objects
    BY <1>1, <2>1, Zenon DEF IInv, GrayInv, Usable, Marking
  <2>3. Discovered(marks') = DiscoveredNow \cup {active.owner}
    BY <1>1, <2>1, <2>2, SetBlackLemma, Zenon
  <2> QED  BY <2>2, <2>3, Zenon DEF DiscoveredNow
<1>8. ASSUME NEW p \in Pages, BeginScan(p) PROVE DiscoveredNow' \cap doomed = {}
  <2>1. marks' \in {Popped(p), Requeued(p)} /\ marks.jobs[p] > 0
    BY <1>8, Zenon DEF BeginScan
  <2> QED  BY <1>1, <1>3, <2>1, PopLemma, Zenon
<1>9. ASSUME \/ RootsDone \/ MarkDone \/ SweepPagesDone \/ SweepDone
             \/ \E p \in Packs : ScanRootNext(p) \/ ReleaseRoot(p)
             \/ \E o \in Objects : SweepSlot(o)
      PROVE  DiscoveredNow' \cap doomed = {}
  <2>1. marks' = marks
    BY <1>9, Zenon DEF RootsDone, MarkDone, SweepPagesDone, SweepDone, ScanRootNext, ReleaseRoot, SweepSlot
  <2> QED  BY <1>3, <2>1, Zenon
<1> QED  BY <1>4, <1>5, <1>6, <1>7, <1>8, <1>9, Zenon DEF CollectorStep

\* What can be reached is closed, and it holds all that is named.
LEMMA LiveClosed ==
    ASSUME TypeOK
    PROVE  /\ Rooted \subseteq Live /\ Live \subseteq Objects
           /\ \A o \in Live : Targets(edges, o, None) \subseteq Live
<1>1. Rooted \subseteq Objects
  <2>1. \A r \in RootSlots : RootValue(r) \in Objects \cup {None}
    BY RootSlotCases, RootValues, TypeFacts
  <2> QED  BY <2>1, Zenon DEF Rooted, TypeOK
<1>2. Rooted \subseteq Live
  BY <1>1, Zenon DEF Live, Reachable
<1>3. ASSUME NEW o \in Live, NEW t \in Targets(edges, o, None) PROVE t \in Live
  <2>1. o \in Objects /\ t \in Objects
    BY TypeFacts, Zenon DEF Live, Reachable
  <2>2. ASSUME NEW S \in SUBSET Objects, Rooted \subseteq S, ClosedUnder(S, edges, None)
        PROVE  t \in S
    BY <2>2, Zenon DEF Live, Reachable, ClosedUnder
  <2> QED  BY <2>1, <2>2, Zenon DEF Live, Reachable
<1> QED  BY <1>2, <1>3, Zenon DEF Live, Reachable

\* A cycle starts: whatever is out of reach is forgotten, and nothing is discovered.
LEMMA StartForgets ==
    ASSUME IInv, StartCycle, doomed' = occupied \ Live
    PROVE  Forgotten' /\ DiscoveredNow' = {}
<1>1. /\ TypeOK /\ UNCHANGED <<occupied, edges, packs, targets, source, held>>
      /\ marks'.current = {}
  BY Zenon DEF IInv, TypeOK, StartCycle, MarkType
<1>2. \A r \in RootSlots : RootValue(r)' = RootValue(r)
  BY <1>1, Zenon DEF RootValue
<1>3. \A r \in RootSlots : RootValue(r) \notin occupied \ Live
  BY <1>1, LiveClosed, NoneAssumption, Zenon DEF Rooted, TypeOK
<1>4. held \cap (occupied \ Live) = {}
  BY <1>1, LiveClosed, NoneAssumption, Zenon DEF Rooted, TypeOK
<1>5. \A o \in occupied \ (occupied \ Live) : Targets(edges, o, None) \cap (occupied \ Live) = {}
  BY <1>1, LiveClosed, Zenon
<1>6. Forgotten'
  BY <1>1, <1>2, <1>3, <1>4, <1>5, Zenon DEF Forgotten
<1> QED  BY <1>1, <1>6, Zenon DEF DiscoveredNow, Discovered

\* A cycle ends when the sweep has passed every object that is not black.
LEMMA SweepLeavesNothing ==
    ASSUME IInv, Forgotten, Undiscovered, SweepDone
    PROVE  doomed = {}
<1>1. phase = "Sweep" /\ sweep.stage = "Roots"
  BY Zenon DEF SweepDone
<1>2. occupied \subseteq BlackNow
  BY <1>1, Zenon DEF IInv, SweepInv
<1>3. BlackNow \subseteq DiscoveredNow
  BY BlackIsDiscovered, Zenon DEF IInv
<1> QED  BY <1>1, <1>2, <1>3, Zenon DEF Forgotten, Undiscovered

\* Only StartCycle begins a cycle, and only SweepDone ends one that has not failed.
LEMMA PhaseStep ==
    ASSUME Next
    PROVE  /\ ~StartCycle /\ phase' \in {"Roots", "Mark", "Sweep"}
                => phase \in {"Roots", "Mark", "Sweep"}
           /\ phase' = "Idle" => phase = "Idle" \/ SweepDone
<1>1. ASSUME Mutator PROVE phase' \in {phase, "Faulted"}
  BY <1>1, Zenon DEF Mutator, OpenScope, CloseScope, MutatorFault, GetRoot, Hold, SetRoot, Follow,
         RemoveRepaired, SetEdge, SourceGet, SetSource, Allocate, AllocateFails, EditRestart,
         EditContinue, CreateRoots, Retain
<1>2. ASSUME CollectorStep PROVE /\ phase \in {"Roots", "Mark", "Sweep"}
                                 /\ phase' = "Idle" => SweepDone
  BY <1>2, Zenon DEF CollectorStep, RootsDone, ScanEdge, ScanDone, MarkDone, SweepPagesDone, SweepDone,
         ScanRootTarget, ScanRootNext, AtPack, ReleaseRoot, ScanSource, BeginScan, SweepSlot, Sweeping
<1>3. ASSUME CollectorFault \/ Shutdown \/ \E o \in Objects : SweepPanics(o)
      PROVE  phase' \in {"Faulted", "Closed"}
  BY <1>3, Zenon DEF CollectorFault, Shutdown, SweepPanics
<1>4. ASSUME \E p \in Packs : DropLease(p) PROVE phase' = phase
  BY <1>4, Zenon DEF DropLease
<1> QED  BY <1>1, <1>2, <1>3, <1>4, Zenon DEF Next, StartCycle

LEMMA GarbageStep == IInv /\ GarbageInv /\ HistoryNext => GarbageInv'
<1> SUFFICES ASSUME IInv, GarbageInv, HistoryNext PROVE GarbageInv'
  BY Zenon
<1> USE DEF GarbageInv
<1>1. IInv' /\ [Abstract!Next]_(Abstract!vars) /\ Next
  BY InvStep, StepSeen, Zenon DEF HistoryNext
<1>2. CASE StartCycle
  <2>1. doomed' = occupied \ Live /\ phase' = "Roots"
    BY <1>2, Zenon DEF StartCycle, HistoryNext
  <2>2. Forgotten' /\ DiscoveredNow' = {}
    BY <1>2, <2>1, StartForgets, Zenon
  <2> QED  BY <2>1, <2>2, Zenon DEF Undiscovered, GarbageReclaimed
<1>3. CASE ~StartCycle
  <2>1. ~(phase = "Idle" /\ phase' = "Roots")
    BY <1>1, <1>3, PhaseStep, Zenon
  <2>2. doomed' = doomed \cap occupied'
    BY <2>1, Zenon DEF HistoryNext
  <2>3. Forgotten'
    BY <1>1, <2>2, ForgottenKept, Zenon
  <2>4. Undiscovered'
    <3> SUFFICES ASSUME phase' \in {"Roots", "Mark", "Sweep"} PROVE DiscoveredNow' \cap doomed = {}
      BY <2>2, Zenon DEF Undiscovered
    <3>1. phase \in {"Roots", "Mark", "Sweep"}
      BY <1>1, <1>3, PhaseStep, Zenon
    <3>2. DiscoveredNow \cap doomed = {}
      BY <3>1, Zenon DEF Undiscovered
    <3>3. ASSUME NEW p \in Packs, DropLease(p) PROVE DiscoveredNow' \cap doomed = {}
      BY <3>2, <3>3, Zenon DEF DropLease, DiscoveredNow
    <3>4. ASSUME CollectorFault \/ Shutdown \/ \E o \in Objects : SweepPanics(o) PROVE FALSE
      BY <3>4, Zenon DEF CollectorFault, Shutdown, SweepPanics
    <3> QED  BY <1>1, <1>3, <3>2, <3>3, <3>4, MutatorSpares, CollectorSpares, Zenon DEF Next
  <2>5. GarbageReclaimed'
    <3> SUFFICES ASSUME phase' = "Idle" PROVE doomed = {}
      BY <2>2, Zenon DEF GarbageReclaimed
    <3>1. phase = "Idle" \/ SweepDone
      BY <1>1, PhaseStep, Zenon
    <3> QED  BY <3>1, SweepLeavesNothing, Zenon DEF GarbageReclaimed
  <2> QED  BY <2>3, <2>4, <2>5, Zenon
<1> QED  BY <1>2, <1>3, Zenon

\* Whatever was garbage when a cycle began is reclaimed when the cycle ends: a lease
\* dropped before it keeps nothing alive, nor does a peer that is garbage itself, and no
\* operation of a scope brings one back (Heap::scan_roots, Heap::sweep).
THEOREM CycleReclaims == HistorySpec => []GarbageReclaimed
<1>1. HistoryInit => IInv /\ GarbageInv
  <2> SUFFICES ASSUME Init, doomed = {} PROVE IInv /\ GarbageInv
    BY Zenon DEF HistoryInit
  <2>1. IInv
    BY InvInit, Zenon
  <2>2. Forgotten /\ Undiscovered /\ GarbageReclaimed
    BY Zenon DEF Forgotten, Undiscovered, GarbageReclaimed
  <2> QED  BY <2>1, <2>2, Zenon DEF GarbageInv
<1>2. IInv /\ GarbageInv /\ [HistoryNext]_<<vars, doomed>> => (IInv /\ GarbageInv)'
  <2> SUFFICES ASSUME IInv, GarbageInv, [HistoryNext]_<<vars, doomed>> PROVE (IInv /\ GarbageInv)'
    BY Zenon
  <2>1. [Next]_vars
    BY Zenon DEF HistoryNext
  <2>2. CASE HistoryNext
    BY <2>1, <2>2, InvStep, GarbageStep, Zenon
  <2>3. CASE UNCHANGED <<vars, doomed>>
    <3>1. GarbageInv'
      BY <2>3, Zenon DEF vars, GarbageInv, Forgotten, Undiscovered, GarbageReclaimed, RootValue,
                  DiscoveredNow
    <3> QED  BY <2>1, <3>1, InvStep, Zenon
  <2> QED  BY <2>2, <2>3, Zenon
<1>3. GarbageInv => GarbageReclaimed
  BY Zenon DEF GarbageInv
<1> QED  BY <1>1, <1>2, <1>3, PTL DEF HistorySpec
=============================================================================
