------------------------ MODULE ProgramVersionsProofs ------------------------
(***************************************************************************)
(* Proofs about program versions, for any number of versions, of           *)
(* installations and of leases, and about the cancellation token, for any  *)
(* number of cancellers and registrations.  They share no variable.        *)
(***************************************************************************)
EXTENDS ProgramVersions, TokenTable, TLAPS

-----------------------------------------------------------------------------
(* Publication.                                                            *)

\* What a committed publication is: the installation ran what the candidate was
\* staged against, and the candidate's record is there.
LEMMA PublicationChecked ==
    ASSUME NEW v \in 1 .. used, PublishLoad(v) \/ Publish(v)
    PROVE  \/ UNCHANGED <<staged, current>> /\ token' = [token EXCEPT ![v] = "releasing"]
           \/ ~Stale(v) /\ v \in records /\ Commit(v)
  BY Zenon DEF PublishLoad, Publish, Live, Available

\* current changes when a version is published and when the runtime closes.
LEMMA CurrentChanges ==
    ASSUME [Next]_vars
    PROVE  \/ current' = current
           \/ current' = [i \in Installations |-> None]
           \/ \E v \in 1 .. used : /\ ~Stale(v) /\ current' = [current EXCEPT ![inst[v]] = v]
                                   /\ base' = base
<1>1. ASSUME NEW v \in 1 .. used, PublishLoad(v) \/ Publish(v)
      PROVE  \/ current' = current
             \/ ~Stale(v) /\ current' = [current EXCEPT ![inst[v]] = v] /\ base' = base
  BY <1>1, PublicationChecked, Zenon DEF Commit, PublishLoad, Publish, store
<1> QED  BY <1>1, Zenon DEF Next, vars, StageLoad, StageReload, BeginPublication, DropGuard, DropCandidate,
           DropLease, BeginExecution, BeginCandidate, SettleStatic, RetainModule, ReleaseLease,
           ScanRoot, Trace, TraceFails, EndExecution, Collect, Detach, Close

-----------------------------------------------------------------------------
(* The inductive invariant, action by action.                              *)

LEMMA VersionsInit == Init => VersionsInv
<1> SUFFICES ASSUME Init PROVE VersionsInv
  BY Zenon
<1>1. Tables
  <2>1. /\ used \in 0 .. MaxVersions /\ current \in [Installations -> 0 .. used]
        /\ retained \in [Versions -> Int]
    BY BoundsAssumption DEF Init, None
  <2>2. gc = Idle /\ Idle.at = "idle"
        /\ Idle \in [at : {"idle", "mark"}, restore : BOOLEAN, scan : SUBSET Versions,
                     pending : SUBSET Versions, live : SUBSET Versions]
    BY Zenon DEF Init, Idle
  <2> QED  BY <2>1, <2>2, Zenon DEF Init, Tables
<1>2. PublishedOnce /\ RecordsClosed /\ MarkSound /\ AbandonmentAsked
  BY Zenon DEF Init, PublishedOnce, RecordsClosed, MarkSound, AbandonmentAsked, Idle, None, Needed
<1>3. abandoned \in BOOLEAN
  BY Zenon DEF Init
<1> QED  BY <1>1, <1>2, <1>3, Zenon DEF VersionsInv

\* A candidate is staged against no version, or against one that runs.
LEMMA StageStep ==
    ASSUME VersionsInv, Ready, NEW i, NEW b \in 0 .. used, NEW own \in BOOLEAN, Stage(i, b, own),
           b = None \/ b \in Needed,
           UNCHANGED <<current, retained, settled, abandoned, gc>>
    PROVE  VersionsInv'
<1> DEFINE v == used + 1
<1> USE DEF VersionsInv
<1>1. /\ used \in 0 .. MaxVersions /\ used < MaxVersions /\ v \in Versions /\ used' = v /\ v \notin 0 .. used
      /\ gc.at = "idle" /\ gc = Idle /\ MaxVersions \in Nat
  BY BoundsAssumption DEF Tables, Stage, Versions, Ready
<1>2. /\ records' = records \cup {v} /\ staged' = staged \cup {v} /\ token' = [token EXCEPT ![v] = "held"]
      /\ statics' = [statics EXCEPT ![v] = (IF b = None THEN {} ELSE statics[b]) \cup (IF own THEN {v} ELSE {})]
      /\ DOMAIN inst' = Versions /\ DOMAIN base' = Versions /\ DOMAIN statics' = Versions
      /\ DOMAIN token' = Versions
  BY Zenon DEF Stage, Tables
<1> HIDE DEF v
<1>3. token'[v] = "held" /\ \A w \in Versions \ {v} : token'[w] = token[w]
  BY <1>1, <1>2, Zenon DEF Tables
<1>4. Tables'
  <2>1. current' \in [Installations -> 0 .. used']
    BY <1>1 DEF Tables, v
  <2> QED  BY <2>1, <1>1, <1>2 DEF Tables, Versions
<1>5. \A j \in Installations : current[j] \in 0 .. used /\ current[j] # v
  BY <1>1 DEF Tables
<1>6. PublishedOnce'
  BY <1>1, <1>2, <1>3, <1>5 DEF PublishedOnce, Versions, None
<1>7. Needed' \subseteq Needed
  BY <1>2, <1>3, Zenon DEF Needed
<1>8. \A w \in records' : statics'[w] \ settled' \subseteq records'
  <2>1. statics'[v] \ settled' \subseteq records'
    <3>1. statics'[v] = (IF b = None THEN {} ELSE statics[b]) \cup (IF own THEN {v} ELSE {})
      BY <1>1, <1>2, Zenon DEF Tables
    <3>2. b # None => statics[b] \ settled \subseteq records
      BY Zenon DEF RecordsClosed, Recipes
    <3> QED  BY <3>1, <3>2, <1>2, Zenon
  <2>2. ASSUME NEW w \in records, w # v PROVE statics'[w] \ settled' \subseteq records'
    BY <2>2, <1>2, Zenon DEF Recipes, RecordsClosed, Tables
  <2> QED  BY <2>1, <2>2, <1>2, Zenon
<1>9. RecordsClosed'
  BY <1>2, <1>7, <1>8, Zenon DEF RecordsClosed, Recipes
<1>10. MarkSound'
  BY <1>1, Zenon DEF MarkSound, Idle
<1>11. AbandonmentAsked'
  <2>1. ASSUME NEW w \in staged, w # v, token'[w] = "dropped" PROVE token[w] = "dropped"
    BY <2>1, <1>2, Zenon DEF Tables
  <2> QED  BY <2>1, <1>2, <1>3, Zenon DEF AbandonmentAsked
<1> QED  BY <1>4, <1>6, <1>9, <1>10, <1>11, Zenon

\* A candidate is published, or refused and dropped.
LEMMA PublishStep ==
    ASSUME VersionsInv, NEW v \in 1 .. used, PublishLoad(v) \/ Publish(v)
    PROVE  VersionsInv'
<1> USE DEF VersionsInv
<1>1. /\ v \in Versions /\ UNCHANGED <<store, records, retained, settled, abandoned, gc>>
      /\ gc = Idle /\ gc.at = "idle"
  BY BoundsAssumption DEF Tables, Versions, PublishLoad, Publish, Boundary, Ready
<1>2. CASE UNCHANGED <<staged, current>> /\ token' = [token EXCEPT ![v] = "releasing"]
  <2> SUFFICES token[v] # "published"
    BY <1>1, <1>2 DEF Tables, PublishedOnce, RecordsClosed, MarkSound, AbandonmentAsked, Needed,
                      Recipes, Edges, store
  <2> QED  BY Zenon DEF PublishLoad, Publish, IsStaged
<1>3. CASE v \in records /\ Commit(v)
  <2>1. /\ DOMAIN token' = Versions /\ token'[v] = "published"
        /\ \A w \in Versions \ {v} : token'[w] = token[w]
    BY <1>1, <1>3, Zenon DEF Commit, Tables
  <2>2. /\ current' \in [Installations -> 0 .. used]
        /\ \A i \in Installations : current'[i] \in {current[i], v}
    <3>1. v \in 0 .. used /\ current \in [Installations -> 0 .. used]
      BY BoundsAssumption DEF Tables
    <3>2. current' = [current EXCEPT ![inst[v]] = v]
      BY <1>3, Zenon DEF Commit
    <3> QED  BY <3>1, <3>2, Zenon
  <2>3. staged' = staged \ {v}
    BY <1>3, Zenon DEF Commit
  <2>4. Tables'
    BY <1>1, <2>1, <2>2, <2>3, Zenon DEF Tables, store
  <2>5. \A i \in Installations : current[i] # None => current[i] \in Versions
    BY BoundsAssumption DEF Tables, Versions, None
  <2>6. PublishedOnce'
    BY <2>1, <2>2, <2>3, <2>5, Zenon DEF PublishedOnce
  <2>7. Needed' \subseteq Needed \cup {v}
    <3>1. ASSUME NEW w \in Versions, w # v, retained'[w] > 0, token'[w] = "published" PROVE w \in Needed
      BY <3>1, <1>1, <2>1, Zenon DEF Needed
    <3>2. ASSUME NEW i \in Installations, current'[i] # None PROVE current'[i] \in Needed \cup {v}
      BY <3>2, <2>2, Zenon DEF Needed
    <3> QED  BY <3>1, <3>2, Zenon DEF Needed
  <2>8. RecordsClosed'
    BY <1>1, <1>3, <2>7, Zenon DEF RecordsClosed, Recipes, store
  <2>9. MarkSound' /\ AbandonmentAsked'
    <3>1. ASSUME NEW w \in staged', token'[w] = "dropped" PROVE w \in staged /\ token[w] = "dropped"
      BY <3>1, <1>3, <2>3, Zenon DEF Commit, Tables
    <3> QED  BY <3>1, <1>1, Zenon DEF MarkSound, AbandonmentAsked
  <2> QED  BY <1>1, <2>4, <2>6, <2>8, <2>9, Zenon
<1> QED  BY <1>2, <1>3, PublicationChecked, Zenon

\* A candidate is dropped, then its lease; a retention lease is released.
LEMMA DropStep ==
    ASSUME VersionsInv, NEW v \in 1 .. used, DropCandidate(v) \/ DropLease(v) \/ ReleaseLease(v)
    PROVE  VersionsInv'
<1> USE DEF VersionsInv
<1>1. v \in Versions
  BY BoundsAssumption DEF Tables, Versions
<1>2. CASE DropCandidate(v) \/ DropLease(v)
  <2>1. /\ token[v] \in {"held", "releasing"} /\ \A w \in Versions \ {v} : token'[w] = token[w]
        /\ token'[v] \in {"releasing", "dropped"} /\ DOMAIN token' = Versions
        /\ token'[v] = "dropped" => abandoned'
        /\ abandoned => abandoned'
    BY <1>1, <1>2, Zenon DEF DropCandidate, DropLease, Tables
  <2>2. UNCHANGED <<store, current, records, staged, retained, settled, gc>>
    BY <1>2, Zenon DEF DropCandidate, DropLease
  <2>3. Tables'
    BY <2>1, <2>2, Zenon DEF Tables, store
  <2>4. PublishedOnce'
    BY <2>1, <2>2, BoundsAssumption DEF PublishedOnce, Tables, Versions, None
  <2>5. Needed' \subseteq Needed
    BY <2>1, <2>2, Zenon DEF Needed
  <2>6. RecordsClosed'
    BY <2>2, <2>5, Zenon DEF RecordsClosed, Recipes, store
  <2>7. ASSUME NEW w \in Versions, token'[w] = "dropped" PROVE token[w] = "dropped" \/ abandoned'
    BY <2>1, <2>7, Zenon
  <2>8. MarkSound'
    BY <2>1, <2>2, <2>5, <2>7, Zenon DEF MarkSound, Tables, Edges, Recipes, store
  <2>9. AbandonmentAsked'
    BY <2>1, <2>2, <2>7, Zenon DEF AbandonmentAsked, Tables
  <2>10. abandoned' \in BOOLEAN
    BY <1>2, Zenon DEF DropCandidate, DropLease
  <2> QED  BY <2>3, <2>4, <2>6, <2>8, <2>9, <2>10, Zenon
<1>3. CASE ReleaseLease(v)
  <2>1. /\ UNCHANGED <<store, current, records, staged, token, settled, abandoned, gc>>
        /\ retained' = [retained EXCEPT ![v] = @ - 1]
    BY <1>3, Zenon DEF ReleaseLease
  <2>2. Tables' /\ \A w \in Versions : retained'[w] <= retained[w] /\ retained[w] \in Int /\ retained'[w] \in Int
    BY <1>1, <2>1 DEF Tables, store
  <2>3. Needed' \subseteq Needed
    BY <2>1, <2>2 DEF Needed
  <2> QED  BY <2>1, <2>2, <2>3, Zenon DEF PublishedOnce, RecordsClosed, MarkSound, AbandonmentAsked, Recipes, Edges, store
<1> QED  BY <1>2, <1>3, Zenon

\* Sessions begin and end, versions are retained, guards come and go.
LEMMA SessionStep ==
    ASSUME VersionsInv,
           \/ \E i \in Installations : BeginPublication(i)
           \/ DropGuard
           \/ \E v \in 1 .. used : BeginExecution(v) \/ BeginCandidate(v) \/ RetainModule(v)
           \/ \E v \in 1 .. used : SettleStatic(v)
           \/ \E error \in BOOLEAN : EndExecution(error)
           \/ Close
    PROVE  VersionsInv'
<1> USE DEF VersionsInv
<1>1. UNCHANGED <<store, records, staged, token, abandoned, gc>> /\ gc.at = "idle"
  BY Zenon DEF BeginPublication, DropGuard, BeginExecution, BeginCandidate, RetainModule, SettleStatic,
         EndExecution, Close, Ready, Boundary
<1>2. \/ UNCHANGED current
      \/ current' = [i \in Installations |-> None]
  BY Zenon DEF BeginPublication, DropGuard, BeginExecution, BeginCandidate, RetainModule, SettleStatic,
         EndExecution, Close
<1>3. settled \subseteq settled'
  BY Zenon DEF BeginPublication, DropGuard, BeginExecution, BeginCandidate, RetainModule, SettleStatic,
         EndExecution, Close
<1>4. \/ UNCHANGED retained
      \/ \E v \in 1 .. used : v \in records /\ retained' = [retained EXCEPT ![v] = @ + 1]
      \/ retained' = [retained EXCEPT ![Innermost] = @ - 1]
  BY Zenon DEF BeginPublication, DropGuard, BeginExecution, BeginCandidate, RetainModule, SettleStatic,
         EndExecution, Close, Available, Live
<1>5. /\ retained' \in [Versions -> Int]
      /\ \A v \in Versions : retained'[v] > 0 => retained[v] > 0 \/ v \in records
  <2>1. retained \in [Versions -> Int] /\ 1 .. used \subseteq Versions
    BY BoundsAssumption DEF Tables, Versions
  <2>2. ASSUME NEW v \in Versions, NEW n \in Int, retained' = [retained EXCEPT ![v] = n]
        PROVE  /\ retained' \in [Versions -> Int] /\ retained'[v] = n
               /\ \A w \in Versions \ {v} : retained'[w] = retained[w]
    BY <2>1, <2>2, Zenon
  <2>3. ASSUME NEW v \in 1 .. used, v \in records, retained' = [retained EXCEPT ![v] = @ + 1]
        PROVE  /\ retained' \in [Versions -> Int]
               /\ \A w \in Versions : retained'[w] > 0 => retained[w] > 0 \/ w \in records
    BY <2>1, <2>2, <2>3
  <2>4. ASSUME NEW v \in Versions, retained' = [retained EXCEPT ![v] = @ - 1]
        PROVE  /\ retained' \in [Versions -> Int]
               /\ \A w \in Versions : retained'[w] > 0 => retained[w] > 0
    BY <2>1, <2>2, <2>4
  <2>5. ASSUME NEW v, v \notin Versions, retained' = [retained EXCEPT ![v] = @ - 1]
        PROVE  retained' = retained
    BY <2>1, <2>5, Zenon
  <2> QED  BY <2>1, <2>3, <2>4, <2>5, <1>4, Zenon
<1>6. current' \in [Installations -> 0 .. used] /\ \A i \in Installations : current'[i] \in {current[i], None}
  BY <1>2 DEF Tables, None
<1>7. Tables' /\ abandoned' \in BOOLEAN
  BY <1>1, <1>5, <1>6, Zenon DEF Tables, store
<1>8. PublishedOnce'
  BY <1>1, <1>6, Zenon DEF PublishedOnce
<1>9. Needed' \subseteq records
  BY <1>1, <1>5, <1>6, Zenon DEF Needed, RecordsClosed
<1>10. RecordsClosed'
  BY <1>1, <1>3, <1>9, Zenon DEF RecordsClosed, Recipes, store
<1>11. MarkSound' /\ AbandonmentAsked'
  BY <1>1, Zenon DEF MarkSound, AbandonmentAsked
<1> QED  BY <1>7, <1>8, <1>10, <1>11, Zenon

\* The collection begins, looks at a version, follows its edges, or gives up.
LEMMA MarkStep ==
    ASSUME VersionsInv,
           Collect \/ \E v \in 1 .. used : ScanRoot(v) \/ Trace(v) \/ TraceFails(v)
    PROVE  VersionsInv'
<1> USE DEF VersionsInv
<1>1. UNCHANGED <<store, current, records, staged, token, retained, settled>>
  BY Zenon DEF Collect, ScanRoot, Trace, TraceFails
<1>2. PublishedOnce' /\ RecordsClosed' /\ Needed' = Needed /\ \A v : Edges(v)' = Edges(v)
  BY <1>1 DEF PublishedOnce, RecordsClosed, Needed, Recipes, Edges, store
<1>3. /\ gc.at \in {"idle", "mark"} /\ gc.restore \in BOOLEAN /\ gc.scan \subseteq Versions
      /\ gc.pending \subseteq Versions /\ gc.live \subseteq Versions
  BY Zenon DEF Tables
<1> DEFINE G(a, r, s, p, l) == gc' = [at |-> a, restore |-> r, scan |-> s, pending |-> p, live |-> l]
<1>4. ASSUME Collect PROVE VersionsInv'
  <2>1. G("mark", abandoned, records, {}, {}) /\ abandoned' = FALSE /\ gc = Idle
    BY <1>4, Zenon DEF Collect, Idle, Ready, Tables
  <2>2. Tables' /\ abandoned' \in BOOLEAN
    BY <2>1, <1>1, Zenon DEF Tables, store
  <2>3. MarkSound'
    BY <2>1, <1>1, <1>2, Zenon DEF MarkSound, RecordsClosed
  <2>4. AbandonmentAsked'
    BY <2>1, <1>1, Zenon DEF AbandonmentAsked, Idle
  <2> QED  BY <2>2, <2>3, <2>4, <1>2, Zenon
<1>5. ASSUME NEW v \in 1 .. used, ScanRoot(v) PROVE VersionsInv'
  <2> DEFINE L == IF Root(v) /\ Available(v) THEN gc.live \cup {v} ELSE gc.live
             P == IF Root(v) /\ Available(v) THEN gc.pending \cup {v} ELSE gc.pending
  <2>1. G("mark", gc.restore, gc.scan \ {v}, P, L) /\ UNCHANGED abandoned /\ gc.at = "mark"
    BY <1>5, Zenon DEF ScanRoot, Tables
  <2>2. v \in Versions
    BY BoundsAssumption DEF Tables, Versions
  <2>3. v \in Needed => Root(v) /\ Available(v)
    BY <2>2, Zenon DEF Needed, Root, Available, PublishedOnce, RecordsClosed
  <2>4. L \subseteq Versions /\ P \subseteq Versions /\ gc.live \subseteq L /\ L \ P \subseteq gc.live \ gc.pending
        /\ (v \in Needed => v \in L)
    BY <2>2, <2>3, <1>3, Zenon
  <2>5. L \subseteq gc.live \cup {v} /\ (v \in L => v \in gc.live \/ Available(v))
    BY Zenon
  <2> HIDE DEF L, P
  <2>6. Tables' /\ abandoned' \in BOOLEAN
    BY <2>1, <2>4, <1>1, <1>3, Zenon DEF Tables, store
  <2>7. MarkSound'
    BY <2>1, <2>4, <2>5, <1>1, <1>2, Zenon DEF MarkSound, Available
  <2>8. AbandonmentAsked'
    BY <2>1, <1>1, Zenon DEF AbandonmentAsked
  <2> QED  BY <2>6, <2>7, <2>8, <1>2, Zenon
<1>6. ASSUME NEW v \in 1 .. used, Trace(v) PROVE VersionsInv'
  <2> DEFINE E == Edges(v)
  <2>1. /\ G("mark", gc.restore, gc.scan, (gc.pending \ {v}) \cup (E \ gc.live), gc.live \cup E)
        /\ UNCHANGED abandoned /\ gc.at = "mark"
    BY <1>6, Zenon DEF Trace, Tables
  <2>2. \A w \in E : Available(w) /\ w \in Versions
    BY <1>6, Zenon DEF Trace, Available, Tables
  <2> HIDE DEF E
  <2>3. Tables' /\ abandoned' \in BOOLEAN
    BY <2>1, <2>2, <1>1, <1>3, Zenon DEF Tables, store
  <2>4. MarkSound'
    BY <2>1, <2>2, <1>1, <1>2, Zenon DEF MarkSound, Available, E
  <2>5. AbandonmentAsked'
    BY <2>1, <1>1, Zenon DEF AbandonmentAsked
  <2> QED  BY <2>3, <2>4, <2>5, <1>2, Zenon
<1>7. ASSUME NEW v \in 1 .. used, TraceFails(v) PROVE VersionsInv'
  <2>1. gc' = Idle /\ abandoned' = (abandoned \/ gc.restore) /\ Idle.at = "idle"
    BY <1>7, Zenon DEF TraceFails, Idle
  <2>2. Tables'
    BY <2>1, <1>1, Zenon DEF Tables, store, Idle
  <2>3. MarkSound' /\ AbandonmentAsked'
    BY <2>1, <1>1, Zenon DEF MarkSound, AbandonmentAsked
  <2>4. abandoned' \in BOOLEAN
    BY <2>1, Zenon
  <2> QED  BY <2>2, <2>3, <2>4, <1>2, Zenon
<1> QED  BY <1>4, <1>5, <1>6, <1>7, Zenon

\* What is detached is neither needed nor led to by what stays.
LEMMA DetachStep ==
    ASSUME VersionsInv, Detach
    PROVE  VersionsInv'
<1> USE DEF VersionsInv
<1>1. /\ records' = records \cap gc.live /\ staged' = staged \cap gc.live /\ gc' = Idle /\ Idle.at = "idle"
      /\ UNCHANGED <<store, current, token, retained, settled, abandoned>>
      /\ gc.at = "mark" /\ gc.scan = {} /\ gc.pending = {}
  BY Zenon DEF Detach, Idle
<1>2. Tables' /\ abandoned' \in BOOLEAN
  BY <1>1, Zenon DEF Tables, store, Idle
<1>3. PublishedOnce' /\ Needed' = Needed
  BY <1>1, Zenon DEF PublishedOnce, Needed
<1>4. RecordsClosed'
  BY <1>1, <1>3, Zenon DEF RecordsClosed, MarkSound, Edges, Recipes, store
<1>5. MarkSound' /\ AbandonmentAsked'
  BY <1>1, Zenon DEF MarkSound, AbandonmentAsked
<1> QED  BY <1>2, <1>3, <1>4, <1>5, Zenon

LEMMA VersionsNext == VersionsInv /\ [Next]_vars => VersionsInv'
<1> SUFFICES ASSUME VersionsInv, [Next]_vars PROVE VersionsInv'
  BY Zenon
<1>1. ASSUME NEW own \in BOOLEAN, StageLoad(own) PROVE VersionsInv'
  <2>1. /\ Ready /\ Stage(installed + 1, None, own)
        /\ UNCHANGED <<current, retained, settled, abandoned, gc>>
    BY <1>1, Zenon DEF StageLoad, Boundary
  <2>2. None \in 0 .. used
    BY DEF None, VersionsInv, Tables
  <2> QED  BY <2>1, <2>2, StageStep, Zenon
<1>2. ASSUME NEW i \in Installations, NEW own \in BOOLEAN, StageReload(i, own) PROVE VersionsInv'
  <2>1. /\ Ready /\ current[i] # None /\ Stage(i, current[i], own)
        /\ UNCHANGED <<current, retained, settled, abandoned, gc>>
    BY <1>2, Zenon DEF StageReload
  <2>2. current[i] \in 0 .. used /\ current[i] \in Needed
    BY <2>1, Zenon DEF Needed, VersionsInv, Tables
  <2> QED  BY <2>1, <2>2, StageStep, Zenon
<1>3. CASE UNCHANGED vars
  BY <1>3 DEF vars, VersionsInv, Tables, PublishedOnce, RecordsClosed, MarkSound, AbandonmentAsked,
              Needed, Recipes, Edges
<1>4. CASE Next
  BY Zenon, <1>4, <1>1, <1>2, PublishStep, DropStep, SessionStep, MarkStep, DetachStep DEF Next
<1> QED  BY <1>3, <1>4, Zenon

-----------------------------------------------------------------------------
(* Theorems.                                                               *)

\* publish never replaces a version that the candidate was not staged against: of
\* any number of candidates staged against one version, at most one is published.
THEOREM UpdatesNeverLost == Spec => NoLostUpdate
<1>1. VersionsInv /\ [Next]_vars =>
        [\A i \in Installations :
           current'[i] \notin {current[i], None} => base'[current'[i]] = current[i]]_vars
  BY CurrentChanges, Zenon DEF VersionsInv, Tables, Stale
<1> QED  BY <1>1, VersionsInit, VersionsNext, PTL DEF Spec, NoLostUpdate

\* detach leaves the record of every version that can still be entered, and those
\* its unsettled statics came with.
THEOREM VersionsKept == Spec => []VersionsWhole
<1>1. VersionsInv => VersionsWhole
  BY Zenon DEF VersionsInv, RecordsClosed, VersionsWhole
<1> QED  BY <1>1, VersionsInit, VersionsNext, PTL DEF Spec

\* The request that the drop of a CandidateLease makes outlives any collection that
\* does not take the candidate's record, including one that races with the drop.
THEOREM AbandonmentNeverForgotten == Spec => []AbandonmentAsked
<1>1. VersionsInv => AbandonmentAsked
  BY Zenon DEF VersionsInv
<1> QED  BY <1>1, VersionsInit, VersionsNext, PTL DEF Spec

-----------------------------------------------------------------------------
(* The cancellation token.                                                 *)

(* Where the wake owed to a registration still is: nowhere, in the list,   *)
(* or with one canceller.                                                  *)
Placement ==
  /\ \A s \in Subs : sub[s] = "new" => s \notin subscribers /\ wakeups[s] = 0
  /\ \A s \in Subs, c \in Cancellers : s \in unwoken[c] =>
       s \notin subscribers /\ sub[s] # "new"
  /\ \A c, d \in Cancellers : c # d => unwoken[c] \cap unwoken[d] = {}

(* A registration that cancel() has not woken yet was woken by its own     *)
(* check at most; one that has not checked yet, by cancel() at most.       *)
WakeBudget ==
  /\ \A s \in Subs : wakeups[s] \in 0..2
  /\ \A s \in Subs : s \in subscribers => wakeups[s] <= 1
  /\ \A s \in Subs, c \in Cancellers : s \in unwoken[c] => wakeups[s] <= 1
  /\ \A s \in Subs : sub[s] = "pushed" => wakeups[s] <= 1
  /\ \A s \in Subs : sub[s] = "pushed" /\ s \in subscribers => wakeups[s] = 0
  /\ \A s \in Subs, c \in Cancellers : sub[s] = "pushed" /\ s \in unwoken[c] => wakeups[s] = 0

(* A returned registration is still listed, or owed, or was woken.         *)
Owed ==
  /\ \A c \in Cancellers : cancelPc[c] # "ready" => cancelled
  /\ \A s \in Subs : sub[s] \in {"pushed", "live"} /\ ~cancelled => s \in subscribers
  /\ \A s \in Subs : sub[s] = "live" /\ cancelled =>
       \/ wakeups[s] > 0
       \/ s \in subscribers /\ \E c \in Cancellers : cancelPc[c] = "swapped"
       \/ \E c \in Cancellers : cancelPc[c] = "waking" /\ s \in unwoken[c]

TokenInv == Token!TypeOK /\ Placement /\ WakeBudget /\ Owed

LEMMA TokenInit == Token!Init => TokenInv
<1> SUFFICES ASSUME Token!Init PROVE TokenInv
  BY Zenon
<1>1. Token!TypeOK
  <2>1. cancelled \in BOOLEAN /\ subscribers \in SUBSET Subs
    BY ZenonT(40) DEF Token!Init
  <2>2. sub \in [Subs -> {"new", "pushed", "live", "dropped"}]
    BY Zenon DEF Token!Init
  <2>3. cancelPc \in [Cancellers -> {"ready", "swapped", "waking", "done"}]
    BY Zenon DEF Token!Init
  <2>4. upgraded \in [Cancellers -> SUBSET Subs] /\ unwoken \in [Cancellers -> SUBSET Subs]
    BY Zenon DEF Token!Init
  <2>5. wakeups \in [Subs -> 0..2]
    BY DEF Token!Init
  <2> QED
    BY <2>1, <2>2, <2>3, <2>4, <2>5, Zenon DEF Token!TypeOK
<1>2. Placement
  BY Zenon DEF Token!Init, Placement
<1>3. WakeBudget
  BY DEF Token!Init, WakeBudget
<1>4. Owed
  BY Zenon DEF Token!Init, Owed
<1> QED
  BY <1>1, <1>2, <1>3, <1>4, Zenon DEF TokenInv

LEMMA TokenNext == TokenInv /\ [Token!Next]_(Token!vars) => TokenInv'
<1> SUFFICES ASSUME TokenInv, [Token!Next]_(Token!vars) PROVE TokenInv'
  BY Zenon
<1> USE DEF TokenInv, Token!TypeOK, Placement, WakeBudget, Owed
<1>1. ASSUME NEW c \in Cancellers, Token!CancelSwap(c) PROVE TokenInv'
  BY <1>1, Zenon DEF Token!CancelSwap
<1>2. ASSUME NEW c \in Cancellers, Token!CancelTake(c) PROVE TokenInv'
  <2> DEFINE T == {s \in subscribers : Token!Strong(s)}
  <2>1. /\ cancelPc[c] = "swapped" /\ subscribers' = {} /\ cancelPc' = [cancelPc EXCEPT ![c] = "waking"]
        /\ unwoken' = [unwoken EXCEPT ![c] = T] /\ upgraded' = [upgraded EXCEPT ![c] = T]
        /\ UNCHANGED <<cancelled, sub, wakeups>>
    BY <1>2, Zenon DEF Token!CancelTake
  <2>2. T \subseteq subscribers /\ \A s \in subscribers : sub[s] = "live" => s \in T
    BY Zenon DEF Token!Strong
  <2> HIDE DEF T
  <2>3. Token!TypeOK'
    BY <2>1, <2>2, Zenon
  <2>4. Placement'
    BY <2>1, <2>2
  <2>5. WakeBudget'
    BY <2>1, <2>2, Zenon
  <2>6. Owed'
    BY <2>1, <2>2
  <2> QED
    BY <2>3, <2>4, <2>5, <2>6, Zenon
<1>3. ASSUME NEW c \in Cancellers, NEW s \in Subs, Token!CancelWake(c, s) PROVE TokenInv'
  BY <1>3 DEF Token!CancelWake
<1>4. ASSUME NEW c \in Cancellers, Token!CancelReturn(c) PROVE TokenInv'
  BY <1>4, Zenon DEF Token!CancelReturn
<1>5. ASSUME NEW s \in Subs, Token!SubscribePush(s) PROVE TokenInv'
  BY <1>5 DEF Token!SubscribePush, Token!Strong
<1>6. ASSUME NEW s \in Subs, Token!SubscribeCheck(s) PROVE TokenInv'
  BY <1>6 DEF Token!SubscribeCheck
<1>7. ASSUME NEW s \in Subs, Token!DropSubscription(s) PROVE TokenInv'
  BY <1>7, Zenon DEF Token!DropSubscription
<1>8. CASE UNCHANGED Token!vars
  BY <1>8, Zenon DEF Token!vars
<1> QED
  BY ZenonT(40), <1>1, <1>2, <1>3, <1>4, <1>5, <1>6, <1>7, <1>8 DEF Token!Next, Token!Cancel

(* The types hold, and no waker is called more than twice.                 *)
THEOREM TokenTypes == Token!Spec => []Token!TypeOK
<1>1. TokenInv => Token!TypeOK
  BY Zenon DEF TokenInv
<1> QED
  BY TokenInit, TokenNext, <1>1, PTL DEF Token!Spec

(* No cancellation is lost, whatever the race of cancel() and subscribe(). *)
THEOREM CancellationNeverLost == Token!Spec => []NoLostCancellation
<1>1. TokenInv => NoLostCancellation
  BY Zenon DEF TokenInv, Owed, NoLostCancellation, Token!NoLostCancellation, Token!Quiet, Token!TypeOK
<1> QED
  BY TokenInit, TokenNext, <1>1, PTL DEF Token!Spec

==============================================================================
