----------------------- MODULE StructuredGroupsProofs -----------------------
(***************************************************************************)
(* Structured groups keep their promises for any number of executions, any *)
(* depth and any number of panics: no branch is orphaned, teardown is      *)
(* leaf-first, and a ready result has somebody to take it.                 *)
(***************************************************************************)
EXTENDS StructuredGroups, TLAPS

-----------------------------------------------------------------------------
(* Climbing from a session to its parents.                                 *)

LEMMA ClimbZero ==
  ASSUME NEW s \in Sessions, NEW S PROVE Climbs(s, 0, s, S)
<1> DEFINE path == [k \in 0..0 |-> s]
<1>1. path \in [0..0 -> Sessions] /\ path[0] = s
  OBVIOUS
<1>2. \A k \in 1..0 : path[k-1] \in S /\ path[k] = gparent[path[k-1]]
  OBVIOUS
<1> QED  BY <1>1, <1>2, Zenon DEF Climbs

LEMMA ClimbOne ==
  ASSUME NEW s \in Sessions, NEW S, s \in S, gparent[s] \in Sessions
  PROVE  Climbs(s, 1, gparent[s], S)
<1> DEFINE path == [k \in 0..1 |-> IF k = 0 THEN s ELSE gparent[s]]
<1>1. path \in [0..1 -> Sessions] /\ path[0] = s /\ path[1] = gparent[s]
  OBVIOUS
<1>2. \A k \in 1..1 : path[k-1] \in S /\ path[k] = gparent[path[k-1]]
  BY <1>1
<1> HIDE DEF path
<1> QED  BY <1>1, <1>2, Zenon DEF Climbs

\* One climb after another.
LEMMA ClimbJoin ==
  ASSUME NEW r, NEW q, NEW t, NEW m \in Nat, NEW n \in Nat, NEW S,
         Climbs(r, m, q, S), Climbs(q, n, t, S)
  PROVE  Climbs(r, m + n, t, S)
<1>1. PICK a \in [0..m -> Sessions] :
        /\ a[0] = r /\ a[m] = q
        /\ \A k \in 1..m : a[k-1] \in S /\ a[k] = gparent[a[k-1]]
  BY Zenon DEF Climbs
<1>2. PICK b \in [0..n -> Sessions] :
        /\ b[0] = q /\ b[n] = t
        /\ \A k \in 1..n : b[k-1] \in S /\ b[k] = gparent[b[k-1]]
  BY Zenon DEF Climbs
<1> DEFINE path == [k \in 0..(m + n) |-> IF k <= m THEN a[k] ELSE b[k - m]]
<1>3. path \in [0..(m + n) -> Sessions]
  OBVIOUS
<1>4. path[0] = r
  BY <1>1
<1>5. path[m + n] = t
  <2>1. CASE n = 0
    BY <1>1, <1>2, <2>1
  <2>2. CASE n > 0
    BY <1>2, <2>2
  <2> QED  BY <2>1, <2>2
<1>6. ASSUME NEW k \in 1..(m + n)
      PROVE  path[k-1] \in S /\ path[k] = gparent[path[k-1]]
  <2>1. CASE k <= m
    <3>1. path[k-1] = a[k-1] /\ path[k] = a[k] /\ k \in 1..m
      BY <2>1
    <3> QED  BY <1>1, <3>1, Zenon
  <2>2. CASE k = m + 1
    <3>1. path[k-1] = a[m] /\ path[k] = b[1] /\ 1 \in 1..n
      BY <2>2
    <3>2. b[0] \in S /\ b[1] = gparent[b[0]]
      BY <1>2, <3>1
    <3> QED  BY <1>1, <1>2, <3>1, <3>2, Zenon
  <2>3. CASE k > m + 1
    <3>1. path[k-1] = b[k-1-m] /\ path[k] = b[k-m] /\ k-m \in 1..n /\ k-1-m = (k-m)-1
      BY <2>3
    <3> HIDE DEF path
    <3>2. b[(k-m)-1] \in S /\ b[k-m] = gparent[b[(k-m)-1]]
      BY <1>2, <3>1, Zenon
    <3> QED  BY <3>1, <3>2, Zenon
  <2> QED  BY <2>1, <2>2, <2>3
<1> HIDE DEF path
<1> QED  BY <1>3, <1>4, <1>5, <1>6, Zenon DEF Climbs

LEMMA ClimbMore ==
  ASSUME NEW s, NEW n, NEW t, NEW S, NEW T, S \subseteq T, Climbs(s, n, t, S)
  PROVE  Climbs(s, n, t, T)
BY Zenon DEF Climbs

LEMMA ClimbEnds ==
  ASSUME NEW s, NEW n \in Nat, NEW t, NEW S, Climbs(s, n, t, S)
  PROVE  s \in Sessions /\ t \in Sessions
<1>1. PICK a \in [0..n -> Sessions] : a[0] = s /\ a[n] = t
  BY Zenon DEF Climbs
<1> QED  BY <1>1

\* A climb of some length is a step, and the rest.
LEMMA ClimbTail ==
  ASSUME NEW s, NEW n \in Nat, n > 0, NEW t, NEW S, Climbs(s, n, t, S)
  PROVE  s \in S /\ Climbs(gparent[s], n - 1, t, S)
<1>1. PICK a \in [0..n -> Sessions] :
        /\ a[0] = s /\ a[n] = t
        /\ \A k \in 1..n : a[k-1] \in S /\ a[k] = gparent[a[k-1]]
  BY Zenon DEF Climbs
<1> DEFINE path == [k \in 0..(n - 1) |-> a[k + 1]]
<1>2. path \in [0..(n - 1) -> Sessions] /\ path[0] = a[1] /\ path[n - 1] = t
  BY <1>1
<1>3. s \in S /\ a[1] = gparent[s]
  <2>1. 1 \in 1..n /\ 1 - 1 = 0
    OBVIOUS
  <2> QED  BY <1>1, <2>1, Zenon
<1>4. ASSUME NEW k \in 1..(n - 1)
      PROVE  path[k-1] \in S /\ path[k] = gparent[path[k-1]]
  <2>1. path[k-1] = a[k] /\ path[k] = a[k+1] /\ k+1 \in 1..n /\ (k+1)-1 = k
    OBVIOUS
  <2> HIDE DEF path
  <2>2. a[(k+1)-1] \in S /\ a[k+1] = gparent[a[(k+1)-1]]
    BY <1>1, <2>1, Zenon
  <2> QED  BY <2>1, <2>2, Zenon
<1> HIDE DEF path
<1> QED  BY <1>2, <1>3, <1>4, Zenon DEF Climbs

-----------------------------------------------------------------------------
(* Levels, and the groups below a session.                                 *)

LEMMA Numbers == MaxSessions \in Nat /\ MaxDepth \in Nat /\ MaxDepth > 0 /\ None \notin Sessions
BY GroupsAssumption DEF Sessions

LEMMA Levels ==
  ASSUME GroupTypes, Ancestry, NEW s \in Sessions, gparent[s] # None
  PROVE  gparent[s] \in Sessions /\ depth[s] = 1 + depth[gparent[s]]
<1>1. gparent[s] \in Sessions
  BY Zenon DEF GroupTypes
<1>2. Climbs(s, 1, gparent[s], Sessions)
  BY <1>1, ClimbOne, Zenon
<1>3. 1 \in 0..MaxDepth
  BY Numbers
<1> QED  BY <1>1, <1>2, <1>3, Zenon DEF Ancestry

LEMMA DistanceIs ==
  ASSUME GroupTypes, Ancestry, NEW s, NEW t, NEW n \in Distances(s, t)
  PROVE  /\ n \in 0..MaxDepth /\ s \in Sessions /\ t \in Sessions
         /\ Climbs(s, n, t, live) /\ depth[s] = n + depth[t]
<1>1. n \in 0..MaxDepth /\ Climbs(s, n, t, live)
  BY Zenon DEF Distances
<1>2. n \in Nat
  BY <1>1, Numbers
<1>3. s \in Sessions /\ t \in Sessions
  BY <1>1, <1>2, ClimbEnds, Zenon
<1>4. live \subseteq Sessions
  BY Numbers DEF GroupTypes, Sessions
<1>5. Climbs(s, n, t, Sessions)
  BY <1>1, <1>4, ClimbMore, Zenon
<1> QED  BY <1>1, <1>3, <1>5, Zenon DEF Ancestry

LEMMA BelowSelf ==
  ASSUME NEW p \in Sessions, Below(p) = {} PROVE group[p] = None
<1>1. Climbs(p, 0, p, live)
  BY ClimbZero, Zenon
<1>2. 0 \in 0..MaxDepth
  BY Numbers
<1> QED  BY <1>1, <1>2, Zenon DEF Below, Distances

\* What is below a branch is below whoever its parent is below.
LEMMA BelowUp ==
  ASSUME GroupTypes, Ancestry, NEW b \in live, gparent[b] # None, NEW t,
         NEW n \in Distances(gparent[b], t), NEW r \in Below(b)
  PROVE  r \in Below(t) /\ depth[r] > depth[gparent[b]]
<1>1. PICK m \in Distances(r, b) : TRUE
  BY Zenon DEF Below
<1>2. /\ m \in 0..MaxDepth /\ r \in Sessions /\ b \in Sessions
      /\ Climbs(r, m, b, live) /\ depth[r] = m + depth[b]
  BY <1>1, DistanceIs, Zenon
<1>3. gparent[b] \in Sessions /\ depth[b] = 1 + depth[gparent[b]]
  BY <1>2, Levels, Zenon
<1>4. /\ n \in 0..MaxDepth /\ t \in Sessions
      /\ Climbs(gparent[b], n, t, live) /\ depth[gparent[b]] = n + depth[t]
  BY DistanceIs, Zenon
<1>5. m \in Nat /\ n \in Nat /\ 1 \in Nat /\ m + 1 \in Nat
  BY <1>2, <1>4, Numbers
<1>6. Climbs(b, 1, gparent[b], live)
  BY <1>2, <1>3, ClimbOne, Zenon
<1>7. Climbs(r, m + 1, gparent[b], live)
  BY <1>2, <1>5, <1>6, ClimbJoin, Zenon
<1>8. Climbs(r, (m + 1) + n, t, live)
  BY <1>4, <1>5, <1>7, ClimbJoin, Zenon
<1>9. depth[r] \in 0..MaxDepth /\ depth[t] \in 0..MaxDepth /\ depth[gparent[b]] \in 0..MaxDepth
  BY <1>2, <1>3, <1>4, Zenon DEF GroupTypes
<1>10. (m + 1) + n \in 0..MaxDepth /\ depth[r] > depth[gparent[b]]
  BY <1>2, <1>3, <1>4, <1>5, <1>9, Numbers
<1>11. (m + 1) + n \in Distances(r, t)
  BY <1>8, <1>10, Zenon DEF Distances
<1> QED  BY <1>2, <1>10, <1>11, Zenon DEF Below

LEMMA MinIs == ASSUME NEW d \in Nat PROVE Min({d}) = d
BY DEF Min

LEMMA DeepestIs ==
  ASSUME GroupTypes, Ancestry, NEW t, NEW q \in Deepest(t), NEW r \in Below(t)
  PROVE  q \in Below(t) /\ depth[r] <= depth[q]
<1>1. q \in Below(t) /\ Min(Distances(r, t)) <= Min(Distances(q, t))
  BY Zenon DEF Deepest
<1>2. ASSUME NEW s \in Below(t)
      PROVE  /\ Min(Distances(s, t)) \in Nat /\ depth[t] \in Nat
             /\ depth[s] = Min(Distances(s, t)) + depth[t]
  <2>1. PICK n \in Distances(s, t) : TRUE
    BY <1>2, Zenon DEF Below
  <2>2. \A m \in Distances(s, t) :
          m \in 0..MaxDepth /\ s \in Sessions /\ t \in Sessions /\ depth[s] = m + depth[t]
    BY DistanceIs, Zenon
  <2>3. depth[s] \in 0..MaxDepth /\ depth[t] \in 0..MaxDepth
    BY <2>1, <2>2, Zenon DEF GroupTypes
  <2>4. ASSUME NEW m \in Distances(s, t) PROVE m = n
    <3>1. m \in 0..MaxDepth /\ n \in 0..MaxDepth
      BY <2>1, <2>2, Zenon
    <3>2. depth[s] = m + depth[t] /\ depth[s] = n + depth[t]
      BY <2>1, <2>2, Zenon
    <3> QED  BY <2>3, <3>1, <3>2, Numbers
  <2>5. Distances(s, t) = {n}
    BY <2>1, <2>4, Zenon
  <2>6. n \in Nat /\ depth[t] \in Nat
    BY <2>1, <2>2, <2>3, Numbers
  <2>7. Min(Distances(s, t)) = n
    BY <2>5, <2>6, MinIs, Zenon
  <2> QED  BY <2>1, <2>2, <2>6, <2>7, Zenon
<1>3. /\ Min(Distances(q, t)) \in Nat /\ depth[t] \in Nat
      /\ depth[q] = Min(Distances(q, t)) + depth[t]
  BY <1>1, <1>2, Zenon
<1>4. Min(Distances(r, t)) \in Nat /\ depth[r] = Min(Distances(r, t)) + depth[t]
  BY <1>2, Zenon
<1> QED  BY <1>1, <1>3, <1>4

LEMMA BelowShrinks ==
  ASSUME gparent' = gparent, live' \subseteq live,
         \A q \in Sessions : group'[q] # None => group[q] # None, NEW t
  PROVE  Below(t)' \subseteq Below(t)
<1>1. \A s, n : Climbs(s, n, t, live)' => Climbs(s, n, t, live)
  BY Zenon DEF Climbs
<1>2. \A s : Distances(s, t)' \subseteq Distances(s, t)
  BY <1>1, Zenon DEF Distances
<1> QED  BY <1>2, Zenon DEF Below

-----------------------------------------------------------------------------
(* Steps of the same kind.                                                 *)

LEMMA AncestryKept ==
  ASSUME Ancestry, UNCHANGED <<used, gparent, depth>> PROVE Ancestry'
<1>1. \A s, n, t : Climbs(s, n, t, Sessions)' => Climbs(s, n, t, Sessions)
  BY Zenon DEF Climbs
<1> QED  BY <1>1, Zenon DEF Ancestry

\* None is neither a session nor a record.
LEMMA Names ==
  ASSUME GroupInv
  PROVE  /\ live \subseteq Sessions /\ None \notin Sessions /\ None \notin Records
         /\ None \notin Activations /\ None \notin Disposals
         /\ group \in [Sessions -> Records \cup {None}]
         /\ gparent \in [Sessions -> Sessions \cup {None}]
<1>1. live \subseteq Sessions
  BY Numbers DEF GroupInv, GroupTypes, Sessions
<1>2. None \notin Records /\ None \notin Activations /\ None \notin Disposals
  BY GroupsAssumption, Zenon
<1> QED  BY <1>1, <1>2, Numbers, Zenon DEF GroupInv, GroupTypes

LEMMA LeafKept ==
  ASSUME LeafFirst, gparent' = gparent, live' \subseteq live, job'.sub = job.sub,
         \A q \in Sessions : group'[q] # None => group[q] # None
  PROVE  LeafFirst'
<1> SUFFICES ASSUME job.sub # None, NEW b \in live',
                    NEW i \in 0..1, job.sub.rec.branch[i] = b
             PROVE  Below(b)' = {}
  BY Zenon DEF LeafFirst, Below, Distances, Climbs
<1>1. Below(b) = {}
  BY Zenon DEF LeafFirst
<1>2. \A t : Below(t)' \subseteq Below(t)
  BY BelowShrinks, Zenon
<1> QED  BY <1>1, <1>2, Zenon

\* Other threads.
LEMMA SignalStep ==
  ASSUME GroupInv, UNCHANGED <<live, used, gparent, depth, group, act, run, job>>,
         abandoned \subseteq abandoned', ready \subseteq ready'
  PROVE  GroupInv'
<1>1. GroupTypes'
  BY Zenon DEF GroupInv, GroupTypes
<1>2. Ancestry'
  BY AncestryKept, Zenon DEF GroupInv
<1>3. Owners'
  BY Zenon DEF GroupInv, Owners, Sound
<1>4. Turns'
  BY Zenon DEF GroupInv, Turns
<1>5. Homes'
  BY Zenon DEF GroupInv, Homes
<1>6. Debts'
  BY Zenon DEF GroupInv, Debts, Holds, Status
<1>7. LeafFirst'
  BY LeafKept, Zenon DEF GroupInv
<1> QED  BY <1>1, <1>2, <1>3, <1>4, <1>5, <1>6, <1>7, Zenon DEF GroupInv

\* The runtime thread turns to another job, with nothing in its hands.
LEMMA JobStep ==
  ASSUME GroupInv,
         UNCHANGED <<live, used, gparent, depth, abandoned, ready, group, act, run>>,
         run = None, job.kind \in {"none", "drain", "fail"},
         job' \in Jobs, job'.kind \in {"none", "retire", "drain", "fail"},
         job'.rec = None, job'.sub = None,
         job'.kind = "none" => job' = NoJob,
         job'.kind = "retire" => job'.on # None
  PROVE  GroupInv'
<1>1. GroupTypes'
  BY Zenon DEF GroupInv, GroupTypes
<1>2. Ancestry'
  BY AncestryKept, Zenon DEF GroupInv
<1>3. Owners'
  BY Zenon DEF GroupInv, Owners, Sound
<1>4. Turns'
  BY Zenon DEF GroupInv, Turns
<1>5. Homes'
  BY Zenon DEF GroupInv, Homes, Holds, Owners
<1>6. Debts'
  BY Zenon DEF GroupInv, Debts, Holds, Status
<1>7. LeafFirst'
  BY Zenon DEF LeafFirst
<1> QED  BY <1>1, <1>2, <1>3, <1>4, <1>5, <1>6, <1>7, Zenon DEF GroupInv

\* finish_group_record begins: the record R goes from the store, or from the
\* admission, into the hands of the teardown.
LEMMA FinishStep ==
  ASSUME GroupInv,
         UNCHANGED <<live, used, gparent, depth, abandoned, ready, run>>,
         run = None, job.kind \in {"none", "admit", "fail"},
         NEW p \in live, depth[p] < MaxDepth, NEW R \in Records, Sound(p, R),
         job' \in Jobs, job'.kind = "finish", job'.on = p, job'.rec = R, job'.sub = None,
         act' = None, group' = [group EXCEPT ![p] = None],
         \A b \in live : Holds(group[p], b) \/ (act # None /\ act.exec = b) \/ Holds(job.rec, b)
                           => Holds(R, b)
  PROVE  GroupInv'
<1>0. /\ p \in Sessions /\ group \in [Sessions -> Records \cup {None}]
      /\ None \notin Records /\ R # None /\ live \subseteq Sessions /\ None \notin Sessions
  BY Names, Zenon
<1>a. /\ group' \in [Sessions -> Records \cup {None}] /\ group'[p] = None
      /\ \A q \in Sessions : q # p => group'[q] = group[q]
  BY <1>0, Zenon
<1>1. GroupTypes'
  BY <1>a, Zenon DEF GroupInv, GroupTypes
<1>2. Ancestry'
  BY AncestryKept, Zenon DEF GroupInv
<1>3. Owners'
  <2>1. \A q \in Sessions : group'[q] # None =>
          q \in live /\ depth[q] < MaxDepth /\ Sound(q, group[q]) /\ group'[q] = group[q]
    BY <1>a, Zenon DEF GroupInv, Owners
  <2>2. (\A q \in Sessions : group[q] # None =>
           q \in live /\ depth[q] < MaxDepth /\ Sound(q, group[q]))'
    BY <2>1, SMT DEF Sound
  <2>3. Sound(p, R)'
    BY Zenon DEF Sound
  <2> QED  BY <2>2, <2>3, Zenon DEF Owners, Sound
<1>4. Turns'
  BY Zenon DEF GroupInv, Turns
<1>5. Homes'
  <2> SUFFICES ASSUME NEW b \in live, gparent[b] # None
               PROVE  \/ b \in abandoned
                      \/ Holds(group'[gparent[b]], b)
                      \/ p = gparent[b] /\ Holds(R, b)
    BY Zenon DEF Homes
  <2>1. ~Holds(R, b) => \/ b \in abandoned
                        \/ Holds(group[gparent[b]], b) /\ gparent[b] # p
    BY Zenon DEF GroupInv, Homes, Owners
  <2>2. Holds(R, b) => gparent[b] = p
    BY <1>0, SMT DEF Sound, Holds
  <2>3. gparent[b] \in Sessions
    BY <1>0, Names, Zenon
  <2> QED  BY <1>a, <2>1, <2>2, <2>3, Zenon
<1>6. Debts'
  <2> SUFFICES ASSUME NEW q \in live, Status(q)' = "Ready"
               PROVE  q \in ready \/ Holds(R, q)
    BY Zenon DEF Debts
  <2>1. q \in Sessions
    BY <1>0, Zenon
  <2>2. Status(q) = "Ready"
    BY <1>a, <2>1, Zenon DEF Status
  <2>3. q # None
    BY <1>0, <2>1, Zenon
  <2> QED  BY <2>2, <2>3, Zenon DEF GroupInv, Debts
<1>7. LeafFirst'
  BY Zenon DEF LeafFirst
<1> QED  BY <1>1, <1>2, <1>3, <1>4, <1>5, <1>6, <1>7, Zenon DEF GroupInv

-----------------------------------------------------------------------------
(* What the actions do.                                                    *)

LEMMA OutsideStep ==
  ASSUME GroupInv, NEW s, CancelSession(s) \/ Abandon(s) \/ Wake(s)
  PROVE  GroupInv'
<1>1. /\ UNCHANGED <<live, used, gparent, depth, group, act, run, job>>
      /\ abandoned \subseteq abandoned' /\ ready \subseteq ready'
  BY Zenon DEF CancelSession, CancelAll, Abandon, Wake, sessions, groups
<1> QED  BY <1>1, SignalStep, Zenon

LEMMA DrainStep ==
  ASSUME GroupInv, quarantined \in BOOLEAN,
         \/ DrainBegin \/ DrainEnd \/ (\E s \in Sessions : DrainNext(s) \/ RetireCancelled(s))
         \/ RetireBranch \/ BranchFail
  PROVE  GroupInv'
<1> USE DEF sessions, signals, groups
<1>0. /\ live \subseteq Sessions /\ None \notin Sessions /\ job \in Jobs
      /\ NoJob.kind = "none" /\ NoJob \in Jobs
      /\ job.kind = "drain" => job.rec = None /\ job.sub = None /\ run = None
  <2>1. NoJob.kind = "none" /\ NoJob \in Jobs
    BY Zenon DEF NoJob, Jobs, Outcomes
  <2> QED  BY <2>1, Names, Zenon DEF GroupInv, GroupTypes, Owners, Turns
<1>1. CASE DrainBegin
  <2>1. /\ DrainList(quarantined) \in SUBSET Sessions /\ run = None /\ job = NoJob
        /\ job' = [NoJob EXCEPT !.kind = "drain", !.ids = DrainList(quarantined), !.all = quarantined]
    BY <1>0, <1>1, Zenon DEF DrainBegin, DrainList, Idle
  <2>2. job' \in Jobs /\ job'.kind = "drain" /\ job'.rec = None /\ job'.sub = None
    BY <2>1, Zenon DEF NoJob, Jobs, Outcomes
  <2>3. UNCHANGED <<live, used, gparent, depth, abandoned, ready, group, act, run>>
    BY <1>1, Zenon DEF DrainBegin
  <2> QED  BY <1>0, <2>1, <2>2, <2>3, JobStep, Zenon
<1>2. CASE DrainEnd
  <2>1. /\ job.kind = "drain" /\ run = None
        /\ \/ job' = [NoJob EXCEPT !.kind = "drain", !.ids = DrainList(TRUE), !.all = TRUE]
           \/ job' = NoJob
    BY <1>0, <1>2, Zenon DEF DrainEnd
  <2>2. DrainList(TRUE) \in SUBSET Sessions
    BY <1>0, Zenon DEF DrainList
  <2>3. job' \in Jobs /\ job'.kind \in {"none", "drain"} /\ job'.rec = None /\ job'.sub = None
    <3>1. CASE job' = [NoJob EXCEPT !.kind = "drain", !.ids = DrainList(TRUE), !.all = TRUE]
      BY <2>2, <3>1, Zenon DEF NoJob, Jobs, Outcomes
    <3>2. CASE job' = NoJob
      BY <3>2, Zenon DEF NoJob, Jobs, Outcomes
    <3> QED  BY <2>1, <3>1, <3>2, Zenon
  <2>4. job'.kind = "none" => job' = NoJob
    BY <2>1, <2>2, Zenon DEF NoJob
  <2>5. UNCHANGED <<live, used, gparent, depth, abandoned, ready, group, act, run>>
    BY <1>2, Zenon DEF DrainEnd
  <2> QED  BY <1>0, <2>1, <2>3, <2>4, <2>5, JobStep, Zenon
<1>3. ASSUME NEW s \in Sessions, DrainNext(s) PROVE GroupInv'
  <2>1. /\ job.kind = "drain" /\ run = None
        /\ \/ job' = [job EXCEPT !.kind = "retire", !.on = s, !.then = "drain", !.ids = @ \ {s}]
           \/ job' = [job EXCEPT !.ids = @ \ {s}]
    BY <1>0, <1>3, Zenon DEF DrainNext
  <2>2. /\ job' \in Jobs /\ job'.kind \in {"retire", "drain"} /\ job'.rec = None /\ job'.sub = None
        /\ job'.kind = "retire" => job'.on = s
    <3>1. CASE job' = [job EXCEPT !.kind = "retire", !.on = s, !.then = "drain", !.ids = @ \ {s}]
      BY <1>0, <2>1, <3>1, Zenon DEF Jobs
    <3>2. CASE job' = [job EXCEPT !.ids = @ \ {s}]
      BY <1>0, <2>1, <3>2, Zenon DEF Jobs
    <3> QED  BY <2>1, <3>1, <3>2, Zenon
  <2>3. UNCHANGED <<live, used, gparent, depth, abandoned, ready, group, act, run>>
    BY <1>3, Zenon DEF DrainNext
  <2> QED  BY <1>0, <2>1, <2>2, <2>3, JobStep, Zenon
<1>4. ASSUME NEW s \in Sessions, RetireCancelled(s) PROVE GroupInv'
  <2>1. run = None /\ job = NoJob /\ job' = [NoJob EXCEPT !.kind = "retire", !.on = s]
    BY <1>4, Zenon DEF RetireCancelled, Idle
  <2>2. job' \in Jobs /\ job'.kind = "retire" /\ job'.on = s /\ job'.rec = None /\ job'.sub = None
    BY <2>1, Zenon DEF NoJob, Jobs, Outcomes
  <2>3. UNCHANGED <<live, used, gparent, depth, abandoned, ready, group, act, run>>
    BY <1>4, Zenon DEF RetireCancelled
  <2> QED  BY <1>0, <2>1, <2>2, <2>3, JobStep, Zenon
<1>5. CASE RetireBranch \/ BranchFail
  <2>1. /\ run = None /\ job = NoJob /\ act.exec \in Sessions
        /\ \/ job' = [NoJob EXCEPT !.kind = "retire", !.on = act.exec]
           \/ job' = [NoJob EXCEPT !.kind = "retire", !.on = act.exec, !.then = "fail"]
           \/ job' = [NoJob EXCEPT !.kind = "fail"]
    <3>1. act # None /\ act \in Activations
      BY <1>5, Zenon DEF RetireBranch, BranchFail, GroupInv, GroupTypes
    <3>2. act.exec \in Sessions
      BY <3>1, Zenon DEF Activations
    <3> QED  BY <1>5, <3>2, Zenon DEF RetireBranch, BranchFail, Idle
  <2>2. /\ job' \in Jobs /\ job'.kind \in {"retire", "fail"} /\ job'.rec = None /\ job'.sub = None
        /\ job'.kind = "retire" => job'.on = act.exec
    <3>1. CASE job' = [NoJob EXCEPT !.kind = "retire", !.on = act.exec]
      BY <2>1, <3>1, Zenon DEF NoJob, Jobs, Outcomes
    <3>2. CASE job' = [NoJob EXCEPT !.kind = "retire", !.on = act.exec, !.then = "fail"]
      BY <2>1, <3>2, Zenon DEF NoJob, Jobs, Outcomes
    <3>3. CASE job' = [NoJob EXCEPT !.kind = "fail"]
      BY <3>3, Zenon DEF NoJob, Jobs, Outcomes
    <3> QED  BY <2>1, <3>1, <3>2, <3>3, Zenon
  <2>3. UNCHANGED <<live, used, gparent, depth, abandoned, ready, group, act, run>>
    BY <1>5, Zenon DEF RetireBranch, BranchFail
  <2> QED  BY <1>0, <2>1, <2>2, <2>3, JobStep, Zenon
<1> QED  BY <1>1, <1>2, <1>3, <1>4, <1>5, Zenon

\* Nobody's job is an empty one.
LEMMA Nothing ==
  ASSUME GroupInv
  PROVE  /\ NoJob \in Jobs /\ NoJob.kind = "none" /\ NoJob.rec = None /\ NoJob.sub = None
         /\ run # None => job = NoJob
         /\ job = NoJob => job.kind = "none" /\ job.rec = None /\ job.sub = None
<1>1. NoJob \in Jobs /\ NoJob.kind = "none" /\ NoJob.rec = None /\ NoJob.sub = None
  BY Zenon DEF NoJob, Jobs, Outcomes
<1> QED  BY <1>1, Zenon DEF GroupInv, Turns

LEMMA ResumeStep ==
  ASSUME GroupInv, (\E s \in Sessions : Resume(s)) \/ ResumeBranch
  PROVE  GroupInv'
<1> USE DEF sessions, groups
<1>1. PICK s \in live : /\ run' = s /\ ready' = ready \ {s} /\ run = None /\ job = NoJob
                        /\ \/ act = None /\ gparent[s] = None
                           \/ act # None /\ act.exec = s /\ act.did = "none"
  BY Zenon DEF Resume, ResumeBranch, Idle
<1>2. UNCHANGED <<live, used, gparent, depth, abandoned, group, act, job>>
  BY Zenon DEF Resume, ResumeBranch
<1>3. GroupTypes'
  BY <1>1, <1>2, Zenon DEF GroupInv, GroupTypes
<1>4. Ancestry'
  BY <1>2, AncestryKept, Zenon DEF GroupInv
<1>5. Owners'
  BY <1>2, Zenon DEF GroupInv, Owners, Sound
<1>6. Turns'
  BY <1>1, <1>2, Zenon DEF GroupInv, Turns
<1>7. Homes'
  BY <1>2, Zenon DEF GroupInv, Homes
<1>8. Debts'
  <2> SUFFICES ASSUME NEW p \in live, Status(p) = "Ready"
               PROVE  \/ p \in ready' \/ run' = p
                      \/ act # None /\ act.exec = p /\ act.did = "error"
    BY <1>2, Zenon DEF Debts, Status
  <2>1. p # None
    BY Names, Zenon
  <2>2. \/ p \in ready
        \/ act # None /\ act.exec = p /\ act.did = "error"
    BY <1>1, <2>1, Nothing, Zenon DEF GroupInv, Debts
  <2> QED  BY <1>1, <2>2, Zenon
<1>9. LeafFirst'
  BY <1>2, LeafKept, Zenon DEF GroupInv
<1> QED  BY <1>3, <1>4, <1>5, <1>6, <1>7, <1>8, <1>9, Zenon DEF GroupInv

\* request_group and poll_group: only the running execution's own group changes,
\* and it has no branches.
LEMMA OwnGroupStep ==
  ASSUME GroupInv, RequestGroup \/ PollGroup PROVE GroupInv'
<1> USE DEF sessions, signals
<1>1. /\ run \in Sessions /\ run \in live /\ run # None /\ job = NoJob
      /\ UNCHANGED <<live, used, gparent, depth, abandoned, ready, act, run, job>>
  BY Names, Nothing, Zenon DEF RequestGroup, PollGroup, Allowed
<1> DEFINE g == group'[run]
<1>2. NewGroup \in Records /\ NewGroup.st = "Admitting" /\ NewGroup.branch = NoBranches
  BY GroupsAssumption DEF NewGroup, Records, NoBranches, Branches, Outcomes
<1>3. /\ group' \in [Sessions -> Records \cup {None}]
      /\ group'[run] \in {None, NewGroup} /\ depth[run] < MaxDepth
      /\ \A q \in Sessions : q # run => group'[q] = group[q]
      /\ \A b : ~Holds(group[run], b) \/ b = None
  <2>1. CASE RequestGroup
    <3>1. group' = [group EXCEPT ![run] = NewGroup] /\ group[run] = None /\ depth[run] < MaxDepth
      BY <2>1, Zenon DEF RequestGroup
    <3> QED  BY <1>1, <1>2, <3>1, Names, Zenon DEF Holds
  <2>2. CASE PollGroup
    <3>1. /\ group' = [group EXCEPT ![run] = None] /\ group[run] # None /\ group[run].st = "Ready"
          /\ Sound(run, group[run]) /\ depth[run] < MaxDepth
      BY <1>1, <2>2, Zenon DEF PollGroup, Status, GroupInv, Owners
    <3>2. group[run].branch = NoBranches
      BY <3>1, Zenon DEF Sound
    <3>3. \A b : Holds(group[run], b) => b = None
      BY <3>2, Zenon DEF Holds, NoBranches
    <3> QED  BY <1>1, <3>1, <3>3, Names, Zenon
  <2> QED  BY <2>1, <2>2, Zenon
<1>4. GroupTypes'
  BY <1>1, <1>3, Zenon DEF GroupInv, GroupTypes
<1>5. Ancestry'
  BY <1>1, AncestryKept, Zenon DEF GroupInv
<1>6. Owners'
  <2>1. (\A p \in Sessions : group[p] # None =>
           p \in live /\ depth[p] < MaxDepth /\ Sound(p, group[p]))'
    <3> SUFFICES ASSUME NEW p \in Sessions, group'[p] # None
                 PROVE  p \in live /\ depth[p] < MaxDepth /\ Sound(p, group[p])'
      BY <1>1, Zenon
    <3>1. CASE p = run
      <4>1. group'[p] = NewGroup
        BY <1>3, <3>1, Zenon
      <4>2. \A i \in 0..1 : NewGroup.branch[i] = None
        BY <1>2, Zenon DEF NoBranches
      <4> QED  BY <1>1, <1>2, <1>3, <3>1, <4>1, <4>2, Zenon DEF Sound
    <3>2. CASE p # run
      <4>1. group'[p] = group[p]
        BY <1>3, <3>2, Zenon
      <4> QED  BY <1>1, <4>1 DEF GroupInv, Owners, Sound
    <3> QED  BY <3>1, <3>2, Zenon
  <2>2. job'.kind = "none" /\ job'.rec = None /\ job'.sub = None
    BY <1>1, Nothing, Zenon
  <2> QED  BY <2>1, <2>2, Zenon DEF Owners
<1>7. Turns'
  <2>1. act # None => act.of \in Sessions /\ act.of # run
    <3> SUFFICES ASSUME act # None PROVE act.of \in Sessions /\ act.of # run
      BY Zenon
    <3>1. act \in Activations
      BY Zenon DEF GroupInv, GroupTypes
    <3>2. act.of \in Sessions /\ act.exec \in Sessions
      BY <3>1, Zenon DEF Activations
    <3>3. run = act.exec /\ gparent[act.exec] = act.of
      BY <1>1, Zenon DEF GroupInv, Turns
    <3>4. act.of < act.exec
      BY <3>2, <3>3, Names, Zenon DEF GroupInv, Ancestry
    <3> QED  BY <3>2, <3>3, <3>4 DEF Sessions
  <2>2. act # None => group'[act.of] = group[act.of]
    BY <1>3, <2>1, Zenon
  <2> QED  BY <1>1, <2>2, Zenon DEF GroupInv, Turns
<1>8. Homes'
  <2> SUFFICES ASSUME NEW b \in live, gparent[b] # None
               PROVE  \/ act # None /\ act.exec = b
                      \/ b \in abandoned
                      \/ Holds(group'[gparent[b]], b)
    BY <1>1, Zenon DEF Homes
  <2>1. \/ act # None /\ act.exec = b
        \/ b \in abandoned
        \/ Holds(group[gparent[b]], b)
    BY <1>1, Nothing, Zenon DEF GroupInv, Homes, Holds
  <2>2. b # None /\ gparent[b] \in Sessions
    BY Names, Zenon
  <2> QED  BY <1>3, <2>1, <2>2, Zenon
<1>9. Debts'
  <2> SUFFICES ASSUME NEW p \in live, Status(p)' = "Ready"
               PROVE  \/ p \in ready \/ run = p
                      \/ act # None /\ act.exec = p /\ act.did = "error"
    BY <1>1, Zenon DEF Debts
  <2>1. CASE p = run
    BY <2>1, Zenon
  <2>2. CASE p # run
    <3>1. Status(p) = "Ready"
      BY <1>3, <2>2, Names, Zenon DEF Status
    <3> QED  BY <1>1, <3>1, Nothing, Zenon DEF GroupInv, Debts
  <2> QED  BY <2>1, <2>2, Zenon
<1>10. LeafFirst'
  BY <1>1, Nothing, Zenon DEF LeafFirst
<1> QED  BY <1>4, <1>5, <1>6, <1>7, <1>8, <1>9, <1>10, Zenon DEF GroupInv

LEMMA EndSliceStep ==
  ASSUME GroupInv, NEW did \in {"yield", "done", "error"}, EndSlice(did)
  PROVE  GroupInv'
<1> USE DEF sessions, signals, groups
<1>1. /\ run \in live /\ run \in Sessions /\ run # None /\ job = NoJob /\ run' = None
      /\ UNCHANGED <<live, used, gparent, depth, abandoned, ready, group>>
  <2>1. run # None /\ run' = None
    BY Zenon DEF EndSlice
  <2>2. UNCHANGED <<live, used, gparent, depth, abandoned, ready, group>>
    BY Zenon DEF EndSlice
  <2> QED  BY <2>1, <2>2, Names, Nothing, Zenon DEF GroupInv, GroupTypes
<1>2. act' = IF act # None THEN [act EXCEPT !.did = did] ELSE None
  BY Zenon DEF EndSlice
<1>3. act # None => /\ act' \in Activations /\ act'.exec = act.exec /\ act'.of = act.of
                    /\ act'.index = act.index /\ act'.did = did /\ act'# None /\ act.exec = run
  <2> SUFFICES ASSUME act # None
               PROVE  /\ act' \in Activations /\ act'.exec = act.exec /\ act'.of = act.of
                      /\ act'.index = act.index /\ act'.did = did /\ act'# None /\ act.exec = run
    BY Zenon
  <2>1. act \in Activations /\ act.exec = run
    BY <1>1, Zenon DEF GroupInv, GroupTypes, Turns
  <2>2. act' = [act EXCEPT !.did = did]
    BY <1>2, Zenon
  <2>3. /\ act' \in Activations /\ act'.exec = act.exec /\ act'.of = act.of
        /\ act'.index = act.index /\ act'.did = did
    BY <2>1, <2>2, Zenon DEF Activations
  <2> QED  BY <2>1, <2>3, Names, Zenon
<1>4. act = None => act' = None
  BY <1>2, Zenon
<1>5. /\ job' \in Jobs /\ job'.kind \in {"none", "retire"} /\ job'.rec = None /\ job'.sub = None
      /\ job'.kind = "none" => job' = NoJob
      /\ job'.kind = "retire" => job'.on = run
      /\ act = None /\ gparent[run] = None /\ did # "yield" => job'.kind = "retire"
  <2>1. CASE act = None /\ gparent[run] = None /\ did # "yield"
    <3>1. job' = [NoJob EXCEPT !.kind = "retire", !.on = run]
      BY <2>1, Zenon DEF EndSlice
    <3> QED  BY <1>1, <3>1, Zenon DEF NoJob, Jobs, Outcomes
  <2>2. CASE ~(act = None /\ gparent[run] = None /\ did # "yield")
    <3>1. job' = NoJob
      BY <1>1, <2>2, Zenon DEF EndSlice
    <3> QED  BY <2>2, <3>1, Nothing, Zenon
  <2> QED  BY <2>1, <2>2, Zenon
<1>6. GroupTypes'
  BY <1>1, <1>3, <1>4, <1>5, Zenon DEF GroupInv, GroupTypes
<1>7. Ancestry'
  BY <1>1, AncestryKept, Zenon DEF GroupInv
<1>8. Owners'
  <2>1. \A p \in Sessions : group[p] # None =>
          p \in live /\ depth[p] < MaxDepth /\ Sound(p, group[p])
    BY Zenon DEF GroupInv, Owners
  <2> QED  BY <1>1, <1>5, <2>1, Zenon DEF Owners, Sound
<1>9. Turns'
  BY <1>1, <1>3, <1>4, Zenon DEF GroupInv, Turns
<1>10. Homes'
  <2> SUFFICES ASSUME NEW b \in live, gparent[b] # None
               PROVE  \/ act' # None /\ act'.exec = b
                      \/ b \in abandoned
                      \/ Holds(group[gparent[b]], b)
    BY <1>1, Zenon DEF Homes
  <2>1. \/ act # None /\ act.exec = b
        \/ b \in abandoned
        \/ Holds(group[gparent[b]], b)
    BY <1>1, Nothing, Zenon DEF GroupInv, Homes, Holds
  <2> QED  BY <1>3, <2>1, Zenon
<1>11. Debts'
  <2> SUFFICES ASSUME NEW p \in live, Status(p) = "Ready"
               PROVE  \/ p \in ready
                      \/ act' # None /\ act'.exec = p /\ act'.did = "error"
                      \/ job'.kind = "retire" /\ job'.on = p
    BY <1>1, Zenon DEF Debts, Status
  <2>1. \/ p \in ready \/ run = p
        \/ act # None /\ act.exec = p
    BY <1>1, Nothing, Zenon DEF GroupInv, Debts
  <2>2. SUFFICES ASSUME run = p
               PROVE  \/ p \in ready
                      \/ act' # None /\ act'.exec = p /\ act'.did = "error"
                      \/ job'.kind = "retire" /\ job'.on = p
    BY <1>3, <2>1, Zenon
  <2>3. did = "error"
    <3>1. did # "yield"
      BY <2>2, Zenon DEF EndSlice
    <3>2. did # "done"
      BY <2>2, Zenon DEF EndSlice, Status
    <3> QED  BY <3>1, <3>2, Zenon
  <2>4. CASE act # None
    BY <1>3, <2>2, <2>3, <2>4, Zenon
  <2>5. CASE act = None /\ gparent[run] = None
    BY <1>5, <2>2, <2>3, <2>5, Zenon
  <2>6. CASE act = None /\ gparent[run] # None
    BY <1>1, <2>2, <2>6, Zenon DEF GroupInv, Turns
  <2> QED  BY <2>4, <2>5, <2>6, Zenon
<1>12. LeafFirst'
  BY <1>5, Zenon DEF LeafFirst
<1> QED  BY <1>6, <1>7, <1>8, <1>9, <1>10, <1>11, <1>12, Zenon DEF GroupInv

-----------------------------------------------------------------------------
(* A new execution.                                                        *)

LEMMA NewFacts ==
  ASSUME GroupInv, NEW parent \in live \cup {None}, NewSession(parent)
  PROVE  /\ used + 1 \in Sessions /\ used' = used + 1
         /\ live' = live \cup {used + 1} /\ used + 1 \notin live
         /\ gparent' \in [Sessions -> Sessions \cup {None}]
         /\ gparent'[used + 1] = parent /\ gparent[used + 1] = None
         /\ \A q \in Sessions : q # used + 1 => gparent'[q] = gparent[q] /\ depth'[q] = depth[q]
         /\ \A q \in Sessions : gparent'[q] # used + 1
         /\ depth' = [depth EXCEPT ![used + 1] = IF parent = None THEN 0 ELSE depth[parent] + 1]
<1>1. /\ used' = used + 1 /\ live' = live \cup {used + 1} /\ used < MaxSessions
      /\ gparent' = [gparent EXCEPT ![used + 1] = parent]
      /\ depth' = [depth EXCEPT ![used + 1] = IF parent = None THEN 0 ELSE depth[parent] + 1]
  BY Zenon DEF NewSession
<1>2. /\ used \in 0..MaxSessions /\ live \subseteq 1..used
      /\ gparent \in [Sessions -> Sessions \cup {None}] /\ depth \in [Sessions -> 0..MaxDepth]
  BY Zenon DEF GroupInv, GroupTypes
<1>3. used + 1 \in Sessions /\ used + 1 \notin live /\ used \in Nat
  BY <1>1, <1>2, Numbers DEF Sessions
<1>4. parent \in Sessions \cup {None}
  BY Names, Zenon
<1>5. gparent[used + 1] = None
  <2>1. gparent[used + 1] # None => used + 1 <= used
    BY <1>3, Zenon DEF GroupInv, Ancestry
  <2> QED  BY <1>3, <2>1
<1>6. /\ gparent' \in [Sessions -> Sessions \cup {None}] /\ gparent'[used + 1] = parent
      /\ \A q \in Sessions : q # used + 1 => gparent'[q] = gparent[q] /\ depth'[q] = depth[q]
  BY <1>1, <1>2, <1>3, <1>4, Zenon
<1>7. ASSUME NEW q \in Sessions PROVE gparent'[q] # used + 1
  <2>1. CASE q = used + 1
    BY <1>2, <1>3, <1>6, <2>1, Names, Zenon
  <2>2. CASE q # used + 1
    <3>1. gparent'[q] = gparent[q] /\ (gparent[q] # None => gparent[q] < q /\ q <= used)
      BY <1>6, <2>2, Zenon DEF GroupInv, Ancestry
    <3>2. gparent[q] = used + 1 => gparent[q] # None
      BY <1>3, Names, Zenon
    <3> QED  BY <1>3, <3>1, <3>2 DEF Sessions
  <2> QED  BY <2>1, <2>2, Zenon
<1> QED  BY <1>1, <1>3, <1>5, <1>6, <1>7, Zenon

LEMMA NewTypes ==
  ASSUME GroupInv, NEW parent \in live \cup {None}, NewSession(parent),
         parent # None => depth[parent] < MaxDepth
  PROVE  /\ used' \in 0..MaxSessions /\ live' \subseteq 1..used'
         /\ depth' \in [Sessions -> 0..MaxDepth]
         /\ \A s \in Sessions : gparent'[s] # None => gparent'[s] < s /\ s <= used'
         /\ parent # None => depth'[used + 1] = depth[parent] + 1
<1>1. /\ used \in 0..MaxSessions /\ live \subseteq 1..used /\ depth \in [Sessions -> 0..MaxDepth]
      /\ used < MaxSessions
  BY Zenon DEF GroupInv, GroupTypes, NewSession
<1>2. /\ used' \in 0..MaxSessions /\ live' \subseteq 1..used'
  <2>1. used' = used + 1 /\ live' = live \cup {used + 1}
    BY NewFacts, Zenon
  <2> QED  BY <1>1, <2>1, Numbers
<1>3. (IF parent = None THEN 0 ELSE depth[parent] + 1) \in 0..MaxDepth
  <2>1. CASE parent = None
    BY <2>1, Numbers
  <2>2. CASE parent # None
    <3>1. parent \in Sessions /\ depth[parent] \in 0..MaxDepth
      BY <1>1, <2>2, Names, Zenon
    <3> QED  BY <2>2, <3>1, Numbers
  <2> QED  BY <2>1, <2>2, Zenon
<1>4. /\ depth' \in [Sessions -> 0..MaxDepth]
      /\ parent # None => depth'[used + 1] = depth[parent] + 1
  BY <1>1, <1>3, NewFacts, Zenon
<1>5. ASSUME NEW s \in Sessions, gparent'[s] # None PROVE gparent'[s] < s /\ s <= used'
  <2>1. CASE s = used + 1
    <3>1. gparent'[s] = parent /\ parent \in 1..used
      BY <1>1, <1>5, <2>1, NewFacts, Zenon
    <3> QED  BY <1>1, <2>1, <3>1, NewFacts
  <2>2. CASE s # used + 1
    <3>1. gparent'[s] = gparent[s] /\ gparent[s] < s /\ s <= used /\ used' = used + 1
      BY <1>5, <2>2, NewFacts, Zenon DEF GroupInv, Ancestry
    <3> QED  BY <1>1, <3>1 DEF Sessions
  <2> QED  BY <2>1, <2>2, Zenon
<1> QED  BY <1>2, <1>4, <1>5, Zenon

LEMMA NewAncestry ==
  ASSUME GroupInv, NEW parent \in live \cup {None}, NewSession(parent),
         parent # None => depth[parent] < MaxDepth
  PROVE  Ancestry'
<1> DEFINE x == used + 1
<1>0. /\ x \in Sessions /\ x # None
      /\ \A q \in Sessions : q # x => gparent'[q] = gparent[q] /\ depth'[q] = depth[q]
      /\ \A q \in Sessions : gparent'[q] # x
      /\ gparent'[x] = parent
  BY NewFacts, Names, Zenon
<1> HIDE DEF x
<1>1. ASSUME NEW s \in Sessions, NEW t \in Sessions, NEW n \in 0..MaxDepth,
             Climbs(s, n, t, Sessions)'
      PROVE  depth'[s] = n + depth'[t]
  <2>1. PICK path \in [0..n -> Sessions] :
          /\ path[0] = s /\ path[n] = t
          /\ \A k \in 1..n : path[k-1] \in Sessions /\ path[k] = gparent'[path[k-1]]
    BY <1>1, Zenon DEF Climbs
  <2>2. n \in Nat /\ 0 \in 0..n /\ n \in 0..n
    BY Numbers
  <2>3. ASSUME NEW k \in 1..n PROVE path[k] # x
    <3>1. path[k-1] \in Sessions /\ path[k] = gparent'[path[k-1]]
      BY <2>1, Zenon
    <3>2. gparent'[path[k-1]] # x
      BY <1>0, <3>1, Zenon
    <3> QED  BY <3>1, <3>2, Zenon
  <2>4. CASE s # x
    <3>1. \A k \in 0..n : path[k] # x
      <4>1. ASSUME NEW k \in 0..n PROVE k = 0 \/ k \in 1..n
        BY <2>2
      <4> QED  BY <2>1, <2>3, <2>4, <4>1, Zenon
    <3>2. \A k \in 1..n : k - 1 \in 0..n
      BY <2>2
    <3>3. \A k \in 1..n : path[k-1] \in Sessions /\ path[k] = gparent[path[k-1]]
      BY <1>0, <2>1, <3>1, <3>2, Zenon
    <3>4. Climbs(s, n, t, Sessions)
      BY <2>1, <3>3, Zenon DEF Climbs
    <3>5. depth[s] = n + depth[t]
      BY <3>4, Zenon DEF GroupInv, Ancestry
    <3>6. t # x
      BY <2>1, <2>2, <3>1, Zenon
    <3> QED  BY <1>0, <2>4, <3>5, <3>6, Zenon
  <2>5. CASE s = x /\ n = 0
    <3>1. s = t
      BY <2>1, <2>5, Zenon
    <3>2. depth'[s] \in 0..MaxDepth
      BY NewTypes, Zenon
    <3> QED  BY <2>5, <3>1, <3>2, Numbers
  <2>6. CASE s = x /\ n > 0
    <3> DEFINE tail == [k \in 0..(n - 1) |-> path[k + 1]]
    <3>1. n - 1 \in 0..MaxDepth /\ n - 1 \in Nat /\ 1 \in 1..n /\ 1 - 1 = 0 /\ n \in 1..n
      BY <2>2, <2>6, Numbers
    <3>2. path[1] = parent /\ path[1] \in Sessions /\ parent # None
      <4>1. path[1] = gparent'[path[1 - 1]]
        BY <2>1, <3>1, Zenon
      <4>2. path[1] \in Sessions
        BY <2>1, <3>1
      <4>3. path[1 - 1] = x
        BY <2>1, <2>6, <3>1, Zenon
      <4>4. path[1] = parent
        BY <1>0, <4>1, <4>3, Zenon
      <4> QED  BY <4>2, <4>4, Names, Zenon
    <3>3. tail \in [0..(n - 1) -> Sessions] /\ tail[0] = path[1] /\ tail[n - 1] = t
      BY <2>1, <2>2, <2>6
    <3>4. ASSUME NEW k \in 1..(n - 1)
          PROVE  tail[k-1] \in Sessions /\ tail[k] = gparent[tail[k-1]]
      <4>1. tail[k-1] = path[k] /\ tail[k] = path[k+1] /\ k+1 \in 1..n /\ (k+1)-1 = k /\ k \in 1..n
        BY <2>2, <2>6
      <4> HIDE DEF tail
      <4>2. path[(k+1)-1] \in Sessions /\ path[k+1] = gparent'[path[(k+1)-1]]
        BY <2>1, <4>1, Zenon
      <4>3. path[k] \in Sessions /\ path[k+1] = gparent'[path[k]] /\ path[k] # x
        BY <2>3, <4>1, <4>2, Zenon
      <4> QED  BY <1>0, <4>1, <4>3, Zenon
    <3> HIDE DEF tail
    <3>5. Climbs(parent, n - 1, t, Sessions)
      BY <3>2, <3>3, <3>4, Zenon DEF Climbs
    <3>6. depth[parent] = (n - 1) + depth[t]
      BY <3>1, <3>2, <3>5, Zenon DEF GroupInv, Ancestry
    <3>7. t # x /\ depth'[t] = depth[t]
      BY <1>0, <2>1, <2>3, <3>1, Zenon
    <3>8. depth'[s] = depth[parent] + 1
      BY <2>6, <3>2, NewTypes, Zenon DEF x
    <3>9. depth[t] \in 0..MaxDepth
      BY Zenon DEF GroupInv, GroupTypes
    <3> QED  BY <2>2, <3>1, <3>6, <3>7, <3>8, <3>9, Numbers
  <2>7. n = 0 \/ n > 0
    BY <2>2
  <2> QED  BY <2>4, <2>5, <2>6, <2>7, Zenon
<1>2. \A s \in Sessions : gparent'[s] # None => gparent'[s] < s /\ s <= used'
  BY NewTypes, Zenon
<1> QED  BY <1>1, <1>2, Zenon DEF Ancestry

\* A record that was sound is sound still: a new session was nobody's branch.
LEMMA NewSound ==
  ASSUME GroupInv, NEW parent \in live \cup {None}, NewSession(parent),
         NEW p, NEW rec \in Records, Sound(p, rec)
  PROVE  Sound(p, rec)'
<1>1. ASSUME NEW i \in 0..1, rec.branch[i] # None PROVE gparent'[rec.branch[i]] = p
  <2>1. rec.branch[i] \in Sessions
    BY <1>1, Zenon DEF Records, Branches
  <2>2. gparent[rec.branch[i]] = p /\ p # None
    BY <1>1, Names, Zenon DEF Sound
  <2>3. rec.branch[i] # used + 1
    BY <2>2, NewFacts, Zenon
  <2> QED  BY <2>1, <2>2, <2>3, NewFacts, Zenon
<1> QED  BY <1>1, Zenon DEF Sound

\* What a new session leaves alone, when only the job knows of it.
LEMMA NewStep ==
  ASSUME GroupInv, NEW parent \in live \cup {None}, NewSession(parent),
         parent # None => depth[parent] < MaxDepth,
         run = None, act = None, UNCHANGED <<group, act, run>>,
         job.sub = None, job' \in Jobs, job'.kind = "none" => job' = NoJob, job'.sub = None
  PROVE  /\ GroupTypes' /\ Ancestry' /\ Turns' /\ LeafFirst'
         /\ (\A p \in Sessions : group[p] # None =>
               p \in live /\ depth[p] < MaxDepth /\ Sound(p, group[p]))'
         /\ (job.kind \notin {"retire", "finish"} => Debts')
<1>1. GroupTypes'
  BY NewFacts, NewTypes, Zenon DEF GroupInv, GroupTypes
<1>2. Ancestry'
  BY NewAncestry, Zenon
<1>3. Turns'
  BY Zenon DEF Turns
<1>4. LeafFirst'
  BY Zenon DEF LeafFirst
<1>5. (\A p \in Sessions : group[p] # None =>
         p \in live /\ depth[p] < MaxDepth /\ Sound(p, group[p]))'
  <2> SUFFICES ASSUME NEW p \in Sessions, group[p] # None
               PROVE  p \in live' /\ depth'[p] < MaxDepth /\ Sound(p, group[p])'
    BY Zenon
  <2>1. p \in live /\ depth[p] < MaxDepth /\ Sound(p, group[p]) /\ group[p] \in Records
    BY Names, Zenon DEF GroupInv, Owners
  <2>2. p \in live' /\ p # used + 1
    BY <2>1, NewFacts, Zenon
  <2>3. depth'[p] = depth[p]
    BY <2>2, NewFacts, Zenon
  <2>4. \A rec \in Records : Sound(p, rec) => Sound(p, rec)'
    BY NewSound, Zenon
  <2>5. Sound(p, group[p])'
    BY <2>1, <2>4, Zenon DEF Sound
  <2> QED  BY <2>1, <2>2, <2>3, <2>5, Zenon
<1>6. ASSUME job.kind \notin {"retire", "finish"} PROVE Debts'
  <2> SUFFICES ASSUME NEW p \in live', Status(p) = "Ready" PROVE p \in ready'
    BY Zenon DEF Debts, Status
  <2>1. group[p] # None /\ p \in Sessions
    BY NewFacts, Names, Zenon DEF Status
  <2>2. p \in live
    BY <2>1, Zenon DEF GroupInv, Owners
  <2>3. p \in ready
    BY <1>6, <2>2, Names, Zenon DEF GroupInv, Debts
  <2> QED  BY <2>3, Zenon DEF NewSession
<1> QED  BY <1>1, <1>2, <1>3, <1>4, <1>5, <1>6, Zenon

LEMMA StartRootStep ==
  ASSUME GroupInv, StartRoot PROVE GroupInv'
<1>1. /\ run = None /\ act = None /\ job = NoJob /\ NewSession(None)
      /\ UNCHANGED <<group, act, run, job>> /\ None \in live \cup {None}
  BY Zenon DEF StartRoot, Idle, groups
<1>2. /\ job.sub = None /\ job' \in Jobs /\ job'.kind = "none" /\ job'.sub = None /\ job'.rec = None
  BY <1>1, Nothing, Zenon
<1>3. /\ GroupTypes' /\ Ancestry' /\ Turns' /\ LeafFirst' /\ Debts'
      /\ (\A p \in Sessions : group[p] # None =>
            p \in live /\ depth[p] < MaxDepth /\ Sound(p, group[p]))'
  BY <1>1, <1>2, NewStep, Zenon
<1>4. Owners'
  BY <1>2, <1>3, Zenon DEF Owners
<1>5. Homes'
  <2> SUFFICES ASSUME NEW b \in live', gparent'[b] # None
               PROVE  b \in abandoned' \/ Holds(group[gparent'[b]], b)
    BY <1>1, Zenon DEF Homes
  <2>1. b # used + 1 /\ b \in live /\ gparent'[b] = gparent[b]
    BY <1>1, NewFacts, Names, Zenon
  <2>2. abandoned' = abandoned
    BY <1>1, Zenon DEF NewSession
  <2> QED  BY <1>1, <1>2, <2>1, <2>2, Zenon DEF GroupInv, Homes, Holds
<1> QED  BY <1>3, <1>4, <1>5, Zenon DEF GroupInv

LEMMA AdmitBranchStep ==
  ASSUME GroupInv, AdmitBranch PROVE GroupInv'
<1> DEFINE i == IF job.rec.branch[0] = None THEN 0 ELSE 1
           x == used + 1
           rec == [job.rec EXCEPT !.branch[i] = x]
<1>0. /\ job.kind = "admit" /\ job.rec.branch[1] = None /\ NewSession(job.on) /\ used' = x
      /\ \/ job' = [job EXCEPT !.rec = rec]
         \/ job' = [NoJob EXCEPT !.kind = "finish", !.on = job.on, !.res = "fault",
                                 !.rec = [rec EXCEPT !.st = "Running"]]
      /\ UNCHANGED <<group, act, run>>
  <2>1. used' = x
    BY Zenon DEF AdmitBranch, NewSession
  <2> QED  BY <2>1, Zenon DEF AdmitBranch, groups
<1>1. /\ job \in Jobs /\ job.on \in live /\ job.on \in Sessions /\ depth[job.on] < MaxDepth
      /\ act = None /\ run = None /\ job.rec # None /\ group[job.on] = None
      /\ Sound(job.on, [job.rec EXCEPT !.st = "Running"])
      /\ job.sub = None
  BY <1>0, Names, Nothing, Zenon DEF GroupInv, GroupTypes, Owners, Turns
<1>2. job.rec \in Records
  BY <1>1, Zenon DEF Jobs
<1>3. i \in 0..1 /\ job.rec.branch[i] = None
  BY <1>0
<1>4. x \in Sessions /\ x # None
  BY <1>0, <1>1, NewFacts, Names, Zenon
<1> HIDE DEF i, x
<1>5. /\ rec \in Records /\ rec.st = job.rec.st /\ rec.branch = [job.rec.branch EXCEPT ![i] = x]
      /\ job.rec.branch \in Branches
  BY <1>2, <1>3, <1>4, Zenon DEF Records, Branches
<1>6. /\ rec.branch[i] = x
      /\ \A k \in 0..1 : k # i => rec.branch[k] = job.rec.branch[k]
      /\ \A b \in Sessions : Holds(job.rec, b) => Holds(rec, b)
      /\ Holds(rec, x)
  <2>1. /\ rec.branch[i] = x
        /\ \A k \in 0..1 : k # i => rec.branch[k] = job.rec.branch[k]
    BY <1>3, <1>5, Zenon DEF Branches
  <2>2. rec # None
    BY <1>5, Names, Zenon
  <2> QED  BY <1>3, <2>1, <2>2, Names, Zenon DEF Holds
<1> HIDE DEF rec
<1> DEFINE final == [rec EXCEPT !.st = "Running"]
<1>7. final \in Records /\ final.branch = rec.branch /\ final.st = "Running"
  BY <1>5, Zenon DEF Records
<1>8. /\ job' \in Jobs /\ job'.on = job.on /\ job'.sub = None /\ job'.kind \in {"admit", "finish"}
      /\ job'.kind = "admit" => job'.rec = rec
      /\ job'.kind = "finish" => job'.rec = final
  <2>1. CASE job' = [job EXCEPT !.rec = rec]
    BY <1>0, <1>1, <1>5, <2>1, Zenon DEF Jobs
  <2>2. CASE job' = [NoJob EXCEPT !.kind = "finish", !.on = job.on, !.res = "fault", !.rec = final]
    <3> HIDE DEF final
    <3> QED  BY <1>1, <1>7, <2>2, Zenon DEF Jobs, NoJob, Outcomes
  <2> QED  BY <1>0, <2>1, <2>2, Zenon
<1>9. /\ final.st = "Running"
      /\ \A k \in 0..1 : final.branch[k] # None => gparent'[final.branch[k]] = job.on
  <2>1. /\ x \in Sessions /\ gparent'[x] = job.on
        /\ \A q \in Sessions : q # x => gparent'[q] = gparent[q]
        /\ gparent[x] = None
    BY <1>0, <1>1, NewFacts, Zenon DEF x
  <2>2. \A k \in 0..1 : job.rec.branch[k] # None =>
          job.rec.branch[k] \in Sessions /\ gparent[job.rec.branch[k]] = job.on
    <3>1. [job.rec EXCEPT !.st = "Running"].branch = job.rec.branch
      BY <1>2, Zenon DEF Records
    <3> QED  BY <1>1, <1>5, <3>1, Zenon DEF Sound, Branches
  <2>3. ASSUME NEW k \in 0..1, final.branch[k] # None PROVE gparent'[final.branch[k]] = job.on
    <3>1. CASE k = i
      BY <1>6, <1>7, <2>1, <3>1, Zenon
    <3>2. CASE k # i
      <4>1. final.branch[k] = job.rec.branch[k]
        BY <1>6, <1>7, <3>2, Zenon
      <4>2. job.on # None
        BY <1>1, Names, Zenon
      <4> QED  BY <2>1, <2>2, <2>3, <4>1, <4>2, Zenon
    <3> QED  BY <3>1, <3>2, Zenon
  <2> HIDE DEF final
  <2> QED  BY <1>7, <2>3, Zenon
<1>10. job'.kind = "none" => job' = NoJob
  BY <1>8, Zenon
<1>11. /\ GroupTypes' /\ Ancestry' /\ Turns' /\ LeafFirst' /\ Debts'
       /\ (\A p \in Sessions : group[p] # None =>
             p \in live /\ depth[p] < MaxDepth /\ Sound(p, group[p]))'
  <2>1. job.on \in live \cup {None} /\ job.kind \notin {"retire", "finish"}
    BY <1>0, <1>1, Zenon
  <2> QED  BY <1>0, <1>1, <1>8, <1>10, <2>1, NewStep, Zenon
<1>12. Owners'
  <2>1. job.on \in live' /\ depth'[job.on] = depth[job.on]
    <3>1. job.on # used + 1
      BY <1>0, <1>1, NewFacts, Zenon
    <3> QED  BY <1>0, <1>1, <3>1, NewFacts, Zenon
  <2>2. rec # None /\ final # None
    BY <1>5, <1>7, Names, Zenon
  <2> HIDE DEF final
  <2>3. job'.kind = "admit" => Sound(job.on, [job.rec EXCEPT !.st = "Running"])'
    <3>1. job'.kind = "admit" => [job'.rec EXCEPT !.st = "Running"] = final
      BY <1>8, Zenon DEF final
    <3> QED  BY <1>1, <1>8, <1>9, <3>1, Zenon DEF Sound
  <2>4. job'.kind = "finish" => Sound(job.on, job.rec)'
    BY <1>1, <1>8, <1>9, Zenon DEF Sound
  <2> QED  BY <1>0, <1>1, <1>8, <1>11, <2>1, <2>2, <2>3, <2>4, Zenon DEF Owners
<1>13. Homes'
  <2> SUFFICES ASSUME NEW b \in live', gparent'[b] # None
               PROVE  \/ b \in abandoned' \/ Holds(group[gparent'[b]], b)
                      \/ job'.on = gparent'[b] /\ Holds(job'.rec, b)
    BY <1>0, Zenon DEF Homes
  <2>1. ASSUME Holds(rec, b) PROVE Holds(job'.rec, b)
    <3>1. Holds(final, b)
      BY <1>7, <2>1, Names, Zenon DEF Holds
    <3> QED  BY <1>8, <2>1, <3>1, Zenon
  <2>2. CASE b = used + 1
    BY <1>0, <1>1, <1>6, <1>8, <2>1, <2>2, NewFacts, Zenon DEF x
  <2>3. CASE b # used + 1
    <3>1. b \in live /\ gparent'[b] = gparent[b] /\ abandoned' = abandoned /\ b \in Sessions
      <4>1. b \in live /\ abandoned' = abandoned /\ b \in Sessions
        BY <1>0, <1>1, <2>3, NewFacts, Names, Zenon DEF NewSession
      <4> QED  BY <1>0, <1>1, <2>3, <4>1, NewFacts, Zenon
    <3>2. \/ b \in abandoned \/ Holds(group[gparent[b]], b)
          \/ job.on = gparent[b] /\ Holds(job.rec, b)
      BY <1>0, <1>1, <3>1, Zenon DEF GroupInv, Homes
    <3> QED  BY <1>6, <1>8, <2>1, <3>1, <3>2, Zenon
  <2> QED  BY <2>2, <2>3, Zenon
<1> QED  BY <1>11, <1>12, <1>13, Zenon DEF GroupInv

-----------------------------------------------------------------------------
(* Teardown.                                                               *)

\* The parts of the invariant that a step of the teardown leaves alone.
LEMMA TeardownKeeps ==
  ASSUME GroupInv, UNCHANGED <<used, gparent, depth, run>>, run = None
  PROVE  /\ Ancestry'
         /\ \A p, rec : Sound(p, rec) => Sound(p, rec)'
<1>1. Ancestry'
  BY AncestryKept, Zenon DEF GroupInv
<1>2. \A p, rec : Sound(p, rec) => Sound(p, rec)'
  BY Zenon DEF Sound
<1> QED  BY <1>1, <1>2, Zenon

LEMMA ClosingFacts ==
  ASSUME GroupInv, Closing
  PROVE  /\ run = None /\ job \in Jobs /\ job.kind \in {"finish", "retire"} /\ job.sub = None
         /\ job.on \in Sessions /\ job # NoJob
<1>1. job \in Jobs /\ job.kind \in {"finish", "retire"} /\ job.sub = None
  BY Zenon DEF Closing, GroupInv, GroupTypes
<1>2. job # NoJob
  BY <1>1, Nothing, Zenon
<1>3. job.on # None /\ job.on \in Sessions \cup {None}
  <2>1. job.on # None
    BY <1>1, Names, Zenon DEF GroupInv, Owners
  <2> QED  BY <1>1, <2>1, Zenon DEF Jobs
<1> QED  BY <1>1, <1>2, <1>3, Zenon DEF GroupInv, Turns

LEMMA CloseNextStep ==
  ASSUME GroupInv, CloseNext PROVE GroupInv'
<1>1. PICK q \in Deepest(job.on) :
        /\ job' = [job EXCEPT !.sub = [of |-> q, rec |-> group[q]]]
        /\ group' = [group EXCEPT ![q] = None]
  BY Zenon DEF CloseNext
<1>2. UNCHANGED <<live, used, gparent, depth, abandoned, ready, act, run>>
  BY Zenon DEF CloseNext, sessions, signals
<1>3. /\ run = None /\ job \in Jobs /\ job.kind \in {"finish", "retire"} /\ job.sub = None
      /\ job.on \in Sessions
  BY ClosingFacts, Zenon DEF CloseNext
<1>4. q \in Below(job.on) /\ q \in Sessions /\ group[q] # None
  <2>1. q \in Below(job.on)
    BY Zenon DEF Deepest
  <2> QED  BY <2>1, Zenon DEF Below
<1>5. group[q] \in Records /\ q \in live /\ Sound(q, group[q])
  BY <1>4, Names, Zenon DEF GroupInv, Owners
<1>6. /\ job' \in Jobs /\ job'.kind = job.kind /\ job'.on = job.on /\ job'.rec = job.rec
      /\ job'.sub.of = q /\ job'.sub.rec = group[q] /\ job'.sub # None
  <2>1. /\ job' \in Jobs /\ job'.kind = job.kind /\ job'.on = job.on /\ job'.rec = job.rec
        /\ job'.sub = [of |-> q, rec |-> group[q]]
    BY <1>1, <1>3, <1>4, <1>5, Zenon DEF Jobs, Disposals
  <2>2. [of |-> q, rec |-> group[q]] \in Disposals
    BY <1>4, <1>5, Zenon DEF Disposals
  <2>3. job'.sub # None
    BY <2>1, <2>2, Names, Zenon
  <2> QED  BY <2>1, <2>3
<1>7. /\ group' \in [Sessions -> Records \cup {None}] /\ group'[q] = None
      /\ \A p \in Sessions : p # q => group'[p] = group[p]
  BY <1>1, <1>4, Names, Zenon
<1>8. PICK n \in Distances(q, job.on) : depth[q] = n + depth[job.on] /\ n \in 0..MaxDepth
  <2>1. PICK n \in Distances(q, job.on) : TRUE
    BY <1>4, Zenon DEF Below
  <2>2. depth[q] = n + depth[job.on] /\ n \in 0..MaxDepth
    BY <2>1, DistanceIs, Zenon DEF GroupInv
  <2> QED  BY <2>2, Zenon
<1>9. GroupTypes'
  BY <1>2, <1>3, <1>6, <1>7, Zenon DEF GroupInv, GroupTypes
<1>10. Ancestry' /\ \A p, rec : Sound(p, rec) => Sound(p, rec)'
  BY <1>2, <1>3, TeardownKeeps, Zenon
<1>11. Owners'
  <2>1. (\A p \in Sessions : group[p] # None =>
           p \in live /\ depth[p] < MaxDepth /\ Sound(p, group[p]))'
    <3> SUFFICES ASSUME NEW p \in Sessions, group'[p] # None
                 PROVE  p \in live' /\ depth'[p] < MaxDepth /\ Sound(p, group[p])'
      BY Zenon
    <3>1. group'[p] = group[p] /\ p \in live /\ depth[p] < MaxDepth /\ Sound(p, group[p])
      BY <1>7, Zenon DEF GroupInv, Owners
    <3> QED  BY <1>2, <3>1, Zenon DEF Sound
  <2>2. depth[job.on] <= depth[q]
    <3>1. depth[job.on] \in 0..MaxDepth
      BY <1>3, Zenon DEF GroupInv, GroupTypes
    <3> QED  BY <1>8, <3>1, Numbers
  <2>3. Sound(job.sub.of, job.sub.rec)'
    BY <1>2, <1>5, <1>6, Zenon DEF Sound
  <2>4. job'.kind = "finish" /\ job'.rec # None => Sound(job.on, job.rec)'
    BY <1>2, <1>6, Zenon DEF GroupInv, Owners, Sound
  <2>5. /\ job.kind = "finish" => job.on \in live /\ depth[job.on] < MaxDepth /\ act = None
        /\ job.rec # None => job.kind = "finish"
        /\ job.kind = "retire" => job.on # None
    BY <1>3, Zenon DEF GroupInv, Owners
  <2> QED  BY <1>2, <1>3, <1>6, <2>1, <2>2, <2>3, <2>4, <2>5, Zenon DEF Owners
<1>12. Turns'
  <2>1. act # None => act.of \in Sessions
    <3>1. act # None => act \in Activations
      BY Zenon DEF GroupInv, GroupTypes
    <3> QED  BY <3>1, Zenon DEF Activations
  <2>2. act # None /\ group'[act.of] # None => group'[act.of] = group[act.of]
    BY <1>7, <2>1, Zenon
  <2> QED  BY <1>2, <1>3, <2>2, Zenon DEF GroupInv, Turns
<1>13. Homes'
  <2> SUFFICES ASSUME NEW b \in live, gparent[b] # None
               PROVE  \/ act # None /\ act.exec = b
                      \/ b \in abandoned
                      \/ Holds(group'[gparent[b]], b)
                      \/ job.on = gparent[b] /\ Holds(job.rec, b)
                      \/ q = gparent[b] /\ Holds(group[q], b)
                      \/ job.kind = "retire" /\ job.on = b
    BY <1>2, <1>6, Zenon DEF Homes
  <2>1. gparent[b] \in Sessions
    BY Names, Zenon
  <2>2. \/ act # None /\ act.exec = b
        \/ b \in abandoned
        \/ Holds(group[gparent[b]], b)
        \/ job.on = gparent[b] /\ Holds(job.rec, b)
        \/ job.kind = "retire" /\ job.on = b
    BY <1>3, Zenon DEF GroupInv, Homes
  <2>3. gparent[b] = q \/ group'[gparent[b]] = group[gparent[b]]
    BY <1>7, <2>1, Zenon
  <2> QED  BY <2>2, <2>3, Zenon
<1>14. Debts'
  <2> SUFFICES ASSUME NEW p \in live, Status(p)' = "Ready"
               PROVE  \/ p \in ready \/ run = p
                      \/ act # None /\ act.exec = p /\ act.did = "error"
                      \/ job.kind = "retire" /\ job.on = p
                      \/ job.kind = "finish" /\ Holds(job.rec, p)
    BY <1>2, <1>6, Zenon DEF Debts
  <2>1. Status(p) = "Ready"
    BY <1>7, Names, Zenon DEF Status
  <2> QED  BY <2>1, Zenon DEF GroupInv, Debts
<1>15. LeafFirst'
  <2> SUFFICES ASSUME NEW i \in 0..1, NEW b \in live, group[q].branch[i] = b
               PROVE  Below(b)' = {}
    BY <1>2, <1>6, Zenon DEF LeafFirst, Below, Distances, Climbs
  <2>1. gparent[b] = q /\ gparent[b] # None
    BY <1>4, <1>5, Names, Zenon DEF Sound
  <2>2. ASSUME NEW r \in Below(b) PROVE FALSE
    <3>1. r \in Below(job.on) /\ depth[r] > depth[q]
      BY <1>8, <2>1, BelowUp, Zenon DEF GroupInv
    <3>2. depth[r] <= depth[q]
      BY <3>1, DeepestIs, Zenon DEF GroupInv
    <3>3. r \in Sessions /\ depth[r] \in 0..MaxDepth /\ depth[q] \in 0..MaxDepth
      BY <1>4, <3>1, Zenon DEF Below, GroupInv, GroupTypes
    <3> QED  BY <3>1, <3>2, <3>3, Numbers
  <2>3. \A p \in Sessions : group'[p] # None => group[p] # None
    BY <1>4, <1>7, Zenon
  <2>4. live' \subseteq live /\ gparent' = gparent
    BY <1>2, Zenon
  <2>5. Below(b)' \subseteq Below(b)
    BY <2>3, <2>4, BelowShrinks, Zenon
  <2> QED  BY <2>2, <2>5, Zenon
<1> QED  BY <1>9, <1>10, <1>11, <1>12, <1>13, <1>14, <1>15, Zenon DEF GroupInv

\* Below a branch of the session that is torn down there is nothing left.
LEMMA NothingBelow ==
  ASSUME GroupInv, NEW t \in Sessions, Below(t) = {}, NEW b \in live, gparent[b] = t
  PROVE  Below(b) = {} /\ group[b] = None
<1>1. Climbs(t, 0, t, live) /\ 0 \in 0..MaxDepth
  BY ClimbZero, Numbers
<1>2. 0 \in Distances(t, t)
  BY <1>1, Zenon DEF Distances
<1>3. gparent[b] # None /\ b \in Sessions
  BY Names, Zenon
<1>4. \A r \in Below(b) : r \in Below(t)
  BY <1>2, <1>3, BelowUp, Zenon DEF GroupInv
<1>5. Below(b) = {}
  BY <1>4, Zenon
<1> QED  BY <1>3, <1>5, BelowSelf, Zenon

LEMMA DisposeOwnStep ==
  ASSUME GroupInv, DisposeOwn PROVE GroupInv'
<1>1. /\ run = None /\ job \in Jobs /\ job.kind = "finish" /\ job.sub = None
      /\ job.on \in Sessions /\ job.rec # None /\ Below(job.on) = {}
      /\ job' = [job EXCEPT !.sub = [of |-> job.on, rec |-> job.rec], !.rec = None]
  BY ClosingFacts, Zenon DEF DisposeOwn
<1>2. UNCHANGED <<live, used, gparent, depth, abandoned, ready, group, act, run>>
  BY Zenon DEF DisposeOwn, sessions, signals
<1>3. job.rec \in Records /\ Sound(job.on, job.rec)
  <2>1. Sound(job.on, job.rec)
    BY <1>1, Zenon DEF GroupInv, Owners
  <2> QED  BY <1>1, <2>1, Zenon DEF Jobs
<1>4. /\ job' \in Jobs /\ job'.kind = "finish" /\ job'.on = job.on /\ job'.rec = None
      /\ job'.sub.of = job.on /\ job'.sub.rec = job.rec
  <2>1. /\ job' \in Jobs /\ job'.kind = "finish" /\ job'.on = job.on /\ job'.rec = None
        /\ job'.sub = [of |-> job.on, rec |-> job.rec]
    BY <1>1, <1>3, Zenon DEF Jobs, Disposals
  <2> QED  BY <2>1
<1>5. GroupTypes'
  BY <1>1, <1>2, <1>4, Zenon DEF GroupInv, GroupTypes
<1>6. Ancestry'
  BY <1>1, <1>2, TeardownKeeps, Zenon
<1>7. Owners'
  <2>1. (\A p \in Sessions : group[p] # None =>
           p \in live /\ depth[p] < MaxDepth /\ Sound(p, group[p]))'
    BY <1>2, Zenon DEF GroupInv, Owners, Sound
  <2>2. Sound(job.sub.of, job.sub.rec)'
    BY <1>2, <1>3, <1>4, Zenon DEF Sound
  <2>3. job.on \in live /\ depth[job.on] < MaxDepth /\ act = None
    BY <1>1, Zenon DEF GroupInv, Owners
  <2>4. depth'[job'.on] <= depth'[job'.sub.of]
    <3>1. depth[job.on] \in 0..MaxDepth
      BY <1>1, Zenon DEF GroupInv, GroupTypes
    <3>2. depth[job.on] <= depth[job.on]
      BY <3>1, Numbers
    <3> QED  BY <1>2, <1>4, <3>2, Zenon
  <2>5. job'.on \in live' /\ depth'[job'.on] < MaxDepth /\ act' = None
    BY <1>2, <1>4, <2>3, Zenon
  <2> QED  BY <1>4, <2>1, <2>2, <2>4, <2>5, Zenon DEF Owners
<1>8. Turns'
  BY <1>1, <1>2, Zenon DEF GroupInv, Turns
<1>9. job'.sub # None
  <2>1. [of |-> job.on, rec |-> job.rec] \in Disposals
    BY <1>1, <1>3, Zenon DEF Disposals
  <2>2. job'.sub = [of |-> job.on, rec |-> job.rec]
    BY <1>1, Zenon DEF Jobs
  <2> QED  BY <2>1, <2>2, Names, Zenon
<1>10. Homes'
  <2> SUFFICES ASSUME NEW b \in live, gparent[b] # None
               PROVE  \/ act # None /\ act.exec = b
                      \/ b \in abandoned
                      \/ Holds(group[gparent[b]], b)
                      \/ job.on = gparent[b] /\ Holds(job.rec, b)
    BY <1>2, <1>4, <1>9, Zenon DEF Homes
  <2> QED  BY <1>1, Zenon DEF GroupInv, Homes
<1>11. Debts'
  <2> SUFFICES ASSUME NEW p \in live, Status(p) = "Ready"
               PROVE  p \in ready
    BY <1>2, Zenon DEF Debts, Status
  <2>1. act = None
    BY <1>1, Zenon DEF GroupInv, Owners
  <2>2. group[p] # None /\ p # None
    BY Names, Zenon DEF Status
  <2>3. ~Holds(job.rec, p)
    <3>1. Holds(job.rec, p) => gparent[p] = job.on
      BY <1>3, <2>2, Zenon DEF Sound, Holds
    <3> QED  BY <1>1, <2>2, <3>1, NothingBelow, Zenon
  <2> QED  BY <1>1, <2>1, <2>2, <2>3, Zenon DEF GroupInv, Debts
<1>12. LeafFirst'
  <2> SUFFICES ASSUME NEW i \in 0..1, NEW b \in live, job.rec.branch[i] = b
               PROVE  Below(b)' = {}
    BY <1>2, <1>4, Zenon DEF LeafFirst, Below, Distances, Climbs
  <2>1. gparent[b] = job.on
    BY <1>3, Names, Zenon DEF Sound
  <2>2. Below(b) = {}
    BY <1>1, <2>1, NothingBelow, Zenon
  <2>3. live' \subseteq live /\ gparent' = gparent /\ \A p \in Sessions : group'[p] # None => group[p] # None
    BY <1>2, Zenon
  <2>4. Below(b)' \subseteq Below(b)
    BY <2>3, BelowShrinks, Zenon
  <2> QED  BY <2>2, <2>4, Zenon
<1> QED  BY <1>5, <1>6, <1>7, <1>8, <1>10, <1>11, <1>12, Zenon DEF GroupInv

LEMMA DisposeEndStep ==
  ASSUME GroupInv, DisposeEnd PROVE GroupInv'
<1>1. /\ job.sub # None /\ job.sub.rec.branch = NoBranches
      /\ job' = [job EXCEPT !.sub = None] \/ job' = [job EXCEPT !.sub = None, !.res = "fault"]
  BY Zenon DEF DisposeEnd
<1>2. UNCHANGED <<live, used, gparent, depth, abandoned, ready, group, act, run>>
  BY Zenon DEF DisposeEnd, sessions, signals, groups
<1>3. job \in Jobs /\ job.kind \in {"finish", "retire"}
  BY <1>1, Zenon DEF GroupInv, GroupTypes, Owners
<1>4. /\ job' \in Jobs /\ job'.kind = job.kind /\ job'.on = job.on /\ job'.rec = job.rec
      /\ job'.sub = None
  <2>1. CASE job' = [job EXCEPT !.sub = None]
    BY <1>3, <2>1, Zenon DEF Jobs
  <2>2. CASE job' = [job EXCEPT !.sub = None, !.res = "fault"]
    BY <1>3, <2>2, Zenon DEF Jobs, Outcomes
  <2> QED  BY <1>1, <2>1, <2>2, Zenon
<1>5. job # NoJob /\ run = None
  BY <1>3, Nothing, Zenon DEF GroupInv, Turns
<1>6. GroupTypes'
  BY <1>2, <1>3, <1>4, Zenon DEF GroupInv, GroupTypes
<1>7. Ancestry'
  BY <1>2, <1>5, TeardownKeeps, Zenon
<1>8. Owners'
  <2>1. (\A p \in Sessions : group[p] # None =>
           p \in live /\ depth[p] < MaxDepth /\ Sound(p, group[p]))'
    BY <1>2, Zenon DEF GroupInv, Owners, Sound
  <2>2. job'.kind = "finish" /\ job'.rec # None => Sound(job.on, job.rec)'
    BY <1>2, <1>4, Zenon DEF GroupInv, Owners, Sound
  <2>3. /\ job.kind = "finish" => job.on \in live /\ depth[job.on] < MaxDepth /\ act = None
        /\ job.rec # None => job.kind = "finish"
        /\ job.kind = "retire" => job.on # None
    BY <1>3, Zenon DEF GroupInv, Owners
  <2> QED  BY <1>2, <1>3, <1>4, <2>1, <2>2, <2>3, Zenon DEF Owners
<1>9. Turns'
  BY <1>2, <1>5, Zenon DEF GroupInv, Turns
<1>10. Homes'
  <2> SUFFICES ASSUME NEW b \in live, gparent[b] # None
               PROVE  \/ act # None /\ act.exec = b
                      \/ b \in abandoned
                      \/ Holds(group[gparent[b]], b)
                      \/ job.on = gparent[b] /\ Holds(job.rec, b)
                      \/ job.kind = "retire" /\ job.on = b
    BY <1>2, <1>4, Zenon DEF Homes
  <2>1. ~Holds(job.sub.rec, b)
    <3>1. \A i \in 0..1 : job.sub.rec.branch[i] = None
      BY <1>1, Zenon DEF NoBranches
    <3> QED  BY <3>1, Names, Zenon DEF Holds
  <2> QED  BY <2>1, Zenon DEF GroupInv, Homes
<1>11. Debts'
  BY <1>2, <1>4, Zenon DEF GroupInv, Debts, Status
<1>12. LeafFirst'
  BY <1>4, Zenon DEF LeafFirst
<1> QED  BY <1>6, <1>7, <1>8, <1>9, <1>10, <1>11, <1>12, Zenon DEF GroupInv

LEMMA DisposeBranchStep ==
  ASSUME GroupInv, NEW i \in 0..1, DisposeBranch(i) PROVE GroupInv'
<1> DEFINE b == job.sub.rec.branch[i]
<1>1. /\ job.sub # None /\ job.sub.rec.st = "Running" /\ b # None
      /\ live' = live \ {b} /\ abandoned' = abandoned \ {b} /\ ready' = ready \ {b}
      /\ UNCHANGED <<used, gparent, depth, group, act, run>>
      /\ \/ job' = [job EXCEPT !.sub.rec.branch[i] = None]
         \/ job' = [job EXCEPT !.sub.rec.branch[i] = None, !.res = "fault"]
  BY Zenon DEF DisposeBranch, Remove, groups
<1>2. /\ job \in Jobs /\ job.kind \in {"finish", "retire"}
      /\ Sound(job.sub.of, job.sub.rec) /\ depth[job.on] <= depth[job.sub.of]
  BY <1>1, Zenon DEF GroupInv, GroupTypes, Owners
<1>3. job.sub \in Disposals /\ job.sub.of \in Sessions /\ job.sub.rec \in Records /\ b \in Sessions
  BY <1>1, <1>2, Zenon DEF Jobs, Disposals, Records, Branches
<1>4. /\ job' \in Jobs /\ job'.kind = job.kind /\ job'.on = job.on /\ job'.rec = job.rec
      /\ job'.sub \in Disposals /\ job'.sub.of = job.sub.of
      /\ job'.sub.rec.st = "Running"
      /\ job'.sub.rec.branch = [job.sub.rec.branch EXCEPT ![i] = None]
  <2>1. CASE job' = [job EXCEPT !.sub.rec.branch[i] = None]
    BY <1>1, <1>2, <1>3, <2>1, Zenon DEF Jobs, Disposals, Records, Branches
  <2>2. CASE job' = [job EXCEPT !.sub.rec.branch[i] = None, !.res = "fault"]
    BY <1>1, <1>2, <1>3, <2>2, Zenon DEF Jobs, Disposals, Records, Branches, Outcomes
  <2> QED  BY <1>1, <2>1, <2>2, Zenon
<1>5. job # NoJob /\ run = None
  BY <1>2, Nothing, Zenon DEF GroupInv, Turns
<1>6. /\ job'.sub.rec.branch[i] = None
      /\ \A k \in 0..1 : k # i => job'.sub.rec.branch[k] = job.sub.rec.branch[k]
  BY <1>3, <1>4, Zenon DEF Records, Branches
<1>7. group[b] = None /\ gparent[b] = job.sub.of
  <2>1. gparent[b] = job.sub.of
    BY <1>1, <1>2, Zenon DEF Sound
  <2>2. CASE b \in live
    <3>1. Below(b) = {}
      BY <1>1, <2>2, Zenon DEF GroupInv, LeafFirst
    <3> QED  BY <1>3, <2>1, <3>1, BelowSelf, Zenon
  <2>3. CASE b \notin live
    BY <1>3, <2>1, <2>3, Zenon DEF GroupInv, Owners
  <2> QED  BY <2>2, <2>3, Zenon
<1>8. job.on # b
  <2>1. depth[b] = 1 + depth[job.sub.of]
    BY <1>3, <1>7, Levels, Names, Zenon DEF GroupInv
  <2>2. depth[b] \in 0..MaxDepth /\ depth[job.sub.of] \in 0..MaxDepth
    BY <1>3, Zenon DEF GroupInv, GroupTypes
  <2>3. ~(depth[b] <= depth[job.sub.of])
    BY <2>1, <2>2, Numbers
  <2> QED  BY <1>2, <2>3, Zenon
<1> HIDE DEF b
<1>9. GroupTypes'
  <2>1. live' \subseteq 1..used' /\ used' \in 0..MaxSessions
    BY <1>1, Zenon DEF GroupInv, GroupTypes
  <2> QED  BY <1>1, <1>2, <1>4, <1>5, <2>1, Zenon DEF GroupInv, GroupTypes
<1>10. Ancestry'
  BY <1>1, <1>5, TeardownKeeps, Zenon
<1>11. Owners'
  <2>1. (\A p \in Sessions : group[p] # None =>
           p \in live /\ depth[p] < MaxDepth /\ Sound(p, group[p]))'
    <3> SUFFICES ASSUME NEW p \in Sessions, group[p] # None
                 PROVE  p \in live' /\ depth[p] < MaxDepth /\ Sound(p, group[p])'
      BY <1>1, Zenon
    <3>1. p # b /\ p \in live /\ depth[p] < MaxDepth /\ Sound(p, group[p])
      BY <1>7, Zenon DEF GroupInv, Owners
    <3> QED  BY <1>1, <3>1, Zenon DEF Sound
  <2>2. Sound(job.sub.of, job.sub.rec)'
    <3>1. \A k \in 0..1 : job'.sub.rec.branch[k] # None => gparent[job'.sub.rec.branch[k]] = job.sub.of
      BY <1>2, <1>6, Zenon DEF Sound
    <3> QED  BY <1>1, <1>3, <1>4, <3>1, Zenon DEF Sound
  <2>3. job'.kind = "finish" /\ job'.rec # None => Sound(job.on, job.rec)'
    <3>1. job.kind = "finish" /\ job.rec # None => Sound(job.on, job.rec)
      BY Zenon DEF GroupInv, Owners
    <3> QED  BY <1>1, <1>4, <3>1, Zenon DEF Sound
  <2>4. /\ job.kind = "finish" => job.on \in live' /\ depth[job.on] < MaxDepth /\ act = None
        /\ job.rec # None => job.kind = "finish"
        /\ job.kind = "retire" => job.on # None
    BY <1>1, <1>2, <1>8, Zenon DEF GroupInv, Owners
  <2> QED  BY <1>1, <1>2, <1>4, <2>1, <2>2, <2>3, <2>4, Zenon DEF Owners
<1>12. Turns'
  BY <1>1, <1>5, Zenon DEF GroupInv, Turns
<1>13. Homes'
  <2> SUFFICES ASSUME NEW c \in live, c # b, gparent[c] # None
               PROVE  \/ act # None /\ act.exec = c
                      \/ c \in abandoned'
                      \/ Holds(group[gparent[c]], c)
                      \/ job.on = gparent[c] /\ Holds(job.rec, c)
                      \/ job.sub.of = gparent[c] /\ Holds(job'.sub.rec, c)
                      \/ job.kind = "retire" /\ job.on = c
    <3>1. job'.sub # None
      BY <1>4, Names, Zenon
    <3> QED  BY <1>1, <1>4, <3>1, Zenon DEF Homes
  <2>1. Holds(job.sub.rec, c) => Holds(job'.sub.rec, c)
    <3>1. job'.sub.rec # None
      BY <1>4, Names, Zenon DEF Disposals
    <3> QED  BY <1>6, <3>1, Zenon DEF Holds, b
  <2> QED  BY <1>1, <2>1, Zenon DEF GroupInv, Homes
<1>14. Debts'
  <2> SUFFICES ASSUME NEW p \in live, p # b, Status(p) = "Ready"
               PROVE  \/ p \in ready'
                      \/ act # None /\ act.exec = p /\ act.did = "error"
                      \/ job.kind = "retire" /\ job.on = p
                      \/ job.kind = "finish" /\ Holds(job.rec, p)
    BY <1>1, <1>4, Zenon DEF Debts, Status
  <2>1. p # None
    BY Names, Zenon
  <2> QED  BY <1>1, <1>5, <2>1, Zenon DEF GroupInv, Debts
<1>15. LeafFirst'
  <2> SUFFICES ASSUME NEW k \in 0..1, NEW c \in live', job'.sub.rec.branch[k] = c
               PROVE  Below(c)' = {}
    BY <1>1, <1>4, Zenon DEF LeafFirst, Below, Distances, Climbs
  <2>1. job.sub.rec.branch[k] = c /\ c \in live
    BY <1>1, <1>6, Names, Zenon
  <2>2. Below(c) = {}
    BY <1>1, <2>1, Zenon DEF GroupInv, LeafFirst
  <2>3. live' \subseteq live /\ gparent' = gparent /\ \A p \in Sessions : group'[p] # None => group[p] # None
    BY <1>1, Zenon
  <2>4. Below(c)' \subseteq Below(c)
    BY <2>3, BelowShrinks, Zenon
  <2> QED  BY <2>2, <2>4, Zenon
<1> QED  BY <1>9, <1>10, <1>11, <1>12, <1>13, <1>14, <1>15, Zenon DEF GroupInv

LEMMA RetireEndStep ==
  ASSUME GroupInv, RetireEnd PROVE GroupInv'
<1> DEFINE t == job.on
<1>1. /\ run = None /\ job \in Jobs /\ job.kind = "retire" /\ job.sub = None
      /\ t \in Sessions /\ Below(t) = {}
      /\ live' = live \ {t} /\ abandoned' = abandoned \ {t} /\ ready' = ready \ {t}
      /\ UNCHANGED <<used, gparent, depth, group, act, run>>
      /\ job' = CASE job.then = "drain" -> [job EXCEPT !.kind = "drain", !.on = None]
                  [] job.then = "fail" -> [job EXCEPT !.kind = "fail", !.on = None]
                  [] OTHER -> NoJob
  BY ClosingFacts, Zenon DEF RetireEnd, Remove, groups
<1>2. job.rec = None
  BY <1>1, Zenon DEF GroupInv, Owners
<1>3. /\ job' \in Jobs /\ job'.kind \in {"none", "drain", "fail"} /\ job'.rec = None
      /\ job'.sub = None
      /\ job'.kind = "none" => job' = NoJob
  <2>1. CASE job.then = "drain"
    <3>1. job' = [job EXCEPT !.kind = "drain", !.on = None]
      BY <1>1, <2>1, Zenon
    <3> QED  BY <1>1, <1>2, <3>1, Zenon DEF Jobs
  <2>2. CASE job.then = "fail"
    <3>1. job' = [job EXCEPT !.kind = "fail", !.on = None]
      BY <1>1, <2>2, Zenon
    <3> QED  BY <1>1, <1>2, <3>1, Zenon DEF Jobs
  <2>3. CASE job.then \notin {"drain", "fail"}
    <3>1. job' = NoJob
      BY <1>1, <2>3, Zenon
    <3> QED  BY <3>1, Nothing, Zenon
  <2> QED  BY <2>1, <2>2, <2>3, Zenon
<1>4. group[t] = None
  BY <1>1, BelowSelf, Zenon
<1>5. t # None
  BY <1>1, Names, Zenon
<1> HIDE DEF t
<1>6. GroupTypes'
  <2>1. live' \subseteq 1..used' /\ used' \in 0..MaxSessions
    BY <1>1, Zenon DEF GroupInv, GroupTypes
  <2> QED  BY <1>1, <1>3, <2>1, Zenon DEF GroupInv, GroupTypes
<1>7. Ancestry'
  BY <1>1, TeardownKeeps, Zenon
<1>8. Owners'
  <2>1. (\A p \in Sessions : group[p] # None =>
           p \in live /\ depth[p] < MaxDepth /\ Sound(p, group[p]))'
    <3> SUFFICES ASSUME NEW p \in Sessions, group[p] # None
                 PROVE  p \in live' /\ depth[p] < MaxDepth /\ Sound(p, group[p])'
      BY <1>1, Zenon
    <3>1. p # t /\ p \in live /\ depth[p] < MaxDepth /\ Sound(p, group[p])
      BY <1>4, Zenon DEF GroupInv, Owners
    <3> QED  BY <1>1, <3>1, Zenon DEF Sound
  <2> QED  BY <1>3, <2>1, Zenon DEF Owners
<1>9. Turns'
  BY <1>1, Zenon DEF GroupInv, Turns
<1>10. Homes'
  <2> SUFFICES ASSUME NEW c \in live, c # t, gparent[c] # None
               PROVE  \/ act # None /\ act.exec = c
                      \/ c \in abandoned'
                      \/ Holds(group[gparent[c]], c)
    BY <1>1, Zenon DEF Homes
  <2>1. ~Holds(job.rec, c)
    BY <1>2, Zenon DEF Holds
  <2> QED  BY <1>1, <2>1, Zenon DEF GroupInv, Homes, t
<1>11. Debts'
  <2> SUFFICES ASSUME NEW p \in live, p # t, Status(p) = "Ready"
               PROVE  \/ p \in ready'
                      \/ act # None /\ act.exec = p /\ act.did = "error"
    BY <1>1, Zenon DEF Debts, Status
  <2>1. p # None
    BY Names, Zenon
  <2> QED  BY <1>1, <2>1, Zenon DEF GroupInv, Debts, t
<1>12. LeafFirst'
  BY <1>3, Zenon DEF LeafFirst
<1> QED  BY <1>6, <1>7, <1>8, <1>9, <1>10, <1>11, <1>12, Zenon DEF GroupInv

LEMMA FinishInsertStep ==
  ASSUME GroupInv, FinishInsert PROVE GroupInv'
<1> DEFINE t == job.on
<1>1. /\ run = None /\ job \in Jobs /\ job.kind = "finish" /\ job.sub = None /\ job.rec = None
      /\ t \in Sessions /\ Below(t) = {}
      /\ ready' = IF t \in live THEN ready \cup {t} ELSE ready
      /\ UNCHANGED <<live, used, gparent, depth, abandoned, act, run>>
      /\ job' = NoJob
  <2>1. Closing /\ job.kind = "finish" /\ job.rec = None /\ Below(t) = {} /\ job' = NoJob
    BY Zenon DEF FinishInsert
  <2>2. /\ ready' = IF t \in live THEN ready \cup {t} ELSE ready
        /\ UNCHANGED <<live, used, gparent, depth, abandoned, act, run>>
    BY Zenon DEF FinishInsert, sessions
  <2> QED  BY <2>1, <2>2, ClosingFacts, Zenon
<1>2. t \in live /\ depth[t] < MaxDepth /\ act = None
  BY <1>1, Zenon DEF GroupInv, Owners
<1>3. \E res \in Outcomes : group' = [group EXCEPT ![t] = [NewGroup EXCEPT !.st = "Ready", !.res = res]]
  <2>1. \A res : group' = [group EXCEPT ![t] = [NewGroup EXCEPT !.st = "Ready", !.res = res]] /\ res \in Outcomes
                   => \E r \in Outcomes : group' = [group EXCEPT ![t] = [NewGroup EXCEPT !.st = "Ready", !.res = r]]
    BY Zenon
  <2>2. (IF job.res = "ok" /\ ~Allowed(job.on) THEN "err" ELSE job.res) \in Outcomes /\ "fault" \in Outcomes
    <3>1. job.res \in Outcomes /\ "err" \in Outcomes /\ "fault" \in Outcomes
      BY <1>1, Zenon DEF Jobs, Outcomes
    <3> QED  BY <3>1, Zenon
  <2> QED  BY <2>1, <2>2, Zenon DEF FinishInsert
<1>4. PICK res \in Outcomes : group' = [group EXCEPT ![t] = [NewGroup EXCEPT !.st = "Ready", !.res = res]]
  BY <1>3, Zenon
<1> DEFINE R == [NewGroup EXCEPT !.st = "Ready", !.res = res]
<1>5. R \in Records /\ R.st = "Ready" /\ R.branch = NoBranches
  <2>1. NewGroup \in Records /\ NewGroup.branch = NoBranches
    BY GroupsAssumption DEF NewGroup, Records, NoBranches, Branches, Outcomes
  <2> QED  BY <2>1, Zenon DEF Records
<1>6. \A i \in 0..1 : R.branch[i] = None
  BY <1>5, Zenon DEF NoBranches
<1> HIDE DEF t, R
<1>7. /\ group' \in [Sessions -> Records \cup {None}] /\ group'[t] = R /\ R # None
      /\ \A p \in Sessions : p # t => group'[p] = group[p]
  BY <1>1, <1>4, <1>5, Names, Zenon DEF R
<1>8. group[t] = None /\ t # None
  BY <1>1, BelowSelf, Names, Zenon
<1>9. GroupTypes'
  BY <1>1, <1>7, Nothing, Zenon DEF GroupInv, GroupTypes
<1>10. Ancestry'
  BY <1>1, TeardownKeeps, Zenon
<1>11. Owners'
  <2>1. (\A p \in Sessions : group[p] # None =>
           p \in live /\ depth[p] < MaxDepth /\ Sound(p, group[p]))'
    <3> SUFFICES ASSUME NEW p \in Sessions, group'[p] # None
                 PROVE  p \in live /\ depth[p] < MaxDepth /\ Sound(p, group[p])'
      BY <1>1, Zenon
    <3>1. CASE p = t
      BY <1>1, <1>2, <1>5, <1>6, <1>7, <3>1, Zenon DEF Sound
    <3>2. CASE p # t
      <4>1. group'[p] = group[p] /\ p \in live /\ depth[p] < MaxDepth /\ Sound(p, group[p])
        BY <1>7, <3>2, Zenon DEF GroupInv, Owners
      <4> QED  BY <1>1, <4>1, Zenon DEF Sound
    <3> QED  BY <3>1, <3>2, Zenon
  <2>2. job'.kind = "none" /\ job'.rec = None /\ job'.sub = None
    BY <1>1, Nothing, Zenon
  <2> QED  BY <2>1, <2>2, Zenon DEF Owners
<1>12. Turns'
  BY <1>1, <1>2, Zenon DEF Turns
<1>13. Homes'
  <2> SUFFICES ASSUME NEW b \in live, gparent[b] # None
               PROVE  b \in abandoned \/ Holds(group'[gparent[b]], b)
    BY <1>1, Zenon DEF Homes
  <2>1. b \in abandoned \/ Holds(group[gparent[b]], b)
    BY <1>1, <1>2, Zenon DEF GroupInv, Homes, Holds
  <2>2. gparent[b] \in Sessions
    BY Names, Zenon
  <2>3. Holds(group[gparent[b]], b) => gparent[b] # t
    BY <1>8, Zenon DEF Holds
  <2> QED  BY <1>7, <2>1, <2>2, <2>3, Zenon
<1>14. Debts'
  <2> SUFFICES ASSUME NEW p \in live, Status(p)' = "Ready"
               PROVE  p \in ready'
    BY <1>1, Zenon DEF Debts
  <2>1. CASE p = t
    BY <1>1, <2>1, Zenon
  <2>2. CASE p # t
    <3>1. Status(p) = "Ready" /\ p # None
      BY <1>7, <2>2, Names, Zenon DEF Status
    <3>2. p \in ready
      BY <1>1, <1>2, <3>1, Zenon DEF GroupInv, Debts, Holds
    <3> QED  BY <1>1, <3>2, Zenon
  <2> QED  BY <2>1, <2>2, Zenon
<1>15. LeafFirst'
  BY <1>1, Nothing, Zenon DEF LeafFirst
<1> QED  BY <1>9, <1>10, <1>11, <1>12, <1>13, <1>14, <1>15, Zenon DEF GroupInv

-----------------------------------------------------------------------------
(* The scheduler's turn.                                                   *)

\* What finish_group_record makes of a record.
LEMMA FinishJob ==
  ASSUME NEW p \in Sessions, NEW rec \in Records, NEW res \in {"ok", "err", "fault"},
         Finish(p, rec, res)
  PROVE  /\ job' \in Jobs /\ job'.kind = "finish" /\ job'.on = p /\ job'.rec = rec
         /\ job'.sub = None
<1>1. PICK r \in {"ok", "err", "fault"} :
        job' = [NoJob EXCEPT !.kind = "finish", !.on = p, !.rec = rec, !.res = r]
  <2>1. (IF res # "fault" /\ ~Allowed(p) THEN "err" ELSE res) \in {"ok", "err", "fault"}
    BY Zenon
  <2> QED  BY <2>1, Zenon DEF Finish
<1> QED  BY <1>1, Zenon DEF NoJob, Jobs, Outcomes

LEMMA AdmitFailsStep ==
  ASSUME GroupInv, AdmitFails PROVE GroupInv'
<1> DEFINE R == [job.rec EXCEPT !.st = "Running"]
<1>1. job.kind = "admit" /\ Finish(job.on, R, "err")
  BY Zenon DEF AdmitFails
<1>2. UNCHANGED <<live, used, gparent, depth, abandoned, ready, group, act, run>>
  BY Zenon DEF AdmitFails, sessions, signals, groups
<1>3. /\ job \in Jobs /\ job.on \in live /\ job.on \in Sessions /\ depth[job.on] < MaxDepth
      /\ act = None /\ job.rec # None /\ group[job.on] = None /\ Sound(job.on, R)
      /\ run = None
  BY <1>1, Names, Nothing, Zenon DEF GroupInv, GroupTypes, Owners, Turns
<1>4. job.rec \in Records
  BY <1>3, Zenon DEF Jobs
<1>5. R \in Records /\ R.branch = job.rec.branch
  BY <1>4, Zenon DEF Records
<1> HIDE DEF R
<1>6. /\ job' \in Jobs /\ job'.kind = "finish" /\ job'.on = job.on /\ job'.rec = R
      /\ job'.sub = None
  BY <1>1, <1>3, <1>5, FinishJob, Zenon
<1>7. group' = [group EXCEPT ![job.on] = None]
  BY <1>2, <1>3, Names, Zenon
<1>8. \A b \in live : Holds(group[job.on], b) \/ (act # None /\ act.exec = b) \/ Holds(job.rec, b)
                        => Holds(R, b)
  BY <1>3, <1>5, Names, Zenon DEF Holds
<1>9. UNCHANGED <<live, used, gparent, depth, abandoned, ready, run>> /\ act' = None
  BY <1>2, <1>3, Zenon
<1> QED  BY <1>1, <1>3, <1>5, <1>6, <1>7, <1>8, <1>9, FinishStep, Zenon

LEMMA AdmitCommitStep ==
  ASSUME GroupInv, AdmitCommit PROVE GroupInv'
<1> DEFINE R == [job.rec EXCEPT !.st = "Running"]
           t == job.on
<1>1. /\ job.kind = "admit"
      /\ \/ Allowed(t) /\ group' = [group EXCEPT ![t] = R] /\ job' = NoJob
         \/ group' = group /\ Finish(t, R, "err")
  BY Zenon DEF AdmitCommit
<1>2. UNCHANGED <<live, used, gparent, depth, abandoned, ready, act, run>>
  BY Zenon DEF AdmitCommit, sessions, signals
<1>3. /\ job \in Jobs /\ t \in live /\ t \in Sessions /\ depth[t] < MaxDepth
      /\ act = None /\ job.rec # None /\ group[t] = None /\ Sound(t, R)
      /\ run = None /\ job.sub = None
  BY <1>1, Names, Nothing, Zenon DEF GroupInv, GroupTypes, Owners, Turns
<1>4. job.rec \in Records
  BY <1>3, Zenon DEF Jobs
<1>5. R \in Records /\ R.branch = job.rec.branch /\ R.st = "Running"
  BY <1>4, Zenon DEF Records
<1>6. \A b : Holds(job.rec, b) => Holds(R, b)
  BY <1>5, Names, Zenon DEF Holds
<1> HIDE DEF R, t
<1>7. CASE group' = group /\ Finish(t, R, "err")
  <2>1. /\ job' \in Jobs /\ job'.kind = "finish" /\ job'.on = t /\ job'.rec = R
        /\ job'.sub = None
    BY <1>3, <1>5, <1>7, FinishJob, Zenon
  <2>2. group' = [group EXCEPT ![t] = None]
    BY <1>3, <1>7, Names, Zenon
  <2>3. \A b \in live : Holds(group[t], b) \/ (act # None /\ act.exec = b) \/ Holds(job.rec, b)
                          => Holds(R, b)
    BY <1>3, <1>6, Zenon DEF Holds
  <2>4. UNCHANGED <<live, used, gparent, depth, abandoned, ready, run>> /\ act' = None
    BY <1>2, <1>3, Zenon
  <2> QED  BY <1>1, <1>3, <1>5, <2>1, <2>2, <2>3, <2>4, FinishStep, Zenon
<1>8. CASE group' = [group EXCEPT ![t] = R] /\ job' = NoJob
  <2>1. /\ group' \in [Sessions -> Records \cup {None}] /\ group'[t] = R /\ R # None
        /\ \A p \in Sessions : p # t => group'[p] = group[p]
    BY <1>3, <1>5, <1>8, Names, Zenon
  <2>2. GroupTypes'
    BY <1>2, <1>8, <2>1, Nothing, Zenon DEF GroupInv, GroupTypes
  <2>3. Ancestry'
    BY <1>2, <1>3, TeardownKeeps, Zenon
  <2>4. Owners'
    <3>1. (\A p \in Sessions : group[p] # None =>
             p \in live /\ depth[p] < MaxDepth /\ Sound(p, group[p]))'
      <4> SUFFICES ASSUME NEW p \in Sessions, group'[p] # None
                   PROVE  p \in live /\ depth[p] < MaxDepth /\ Sound(p, group[p])'
        BY <1>2, Zenon
      <4>1. CASE p = t
        BY <1>2, <1>3, <2>1, <4>1, Zenon DEF Sound
      <4>2. CASE p # t
        <5>1. group'[p] = group[p] /\ p \in live /\ depth[p] < MaxDepth /\ Sound(p, group[p])
          BY <2>1, <4>2, Zenon DEF GroupInv, Owners
        <5> QED  BY <1>2, <5>1, Zenon DEF Sound
      <4> QED  BY <4>1, <4>2, Zenon
    <3>2. job'.kind = "none" /\ job'.rec = None /\ job'.sub = None
      BY <1>8, Nothing, Zenon
    <3> QED  BY <3>1, <3>2, Zenon DEF Owners
  <2>5. Turns'
    BY <1>2, <1>3, Zenon DEF Turns
  <2>6. Homes'
    <3> SUFFICES ASSUME NEW b \in live, gparent[b] # None
                 PROVE  b \in abandoned \/ Holds(group'[gparent[b]], b)
      BY <1>2, Zenon DEF Homes
    <3>1. \/ b \in abandoned
          \/ Holds(group[gparent[b]], b) /\ gparent[b] # t
          \/ gparent[b] = t /\ Holds(R, b)
      BY <1>1, <1>3, <1>6, Zenon DEF GroupInv, Homes, Holds, t
    <3>2. gparent[b] \in Sessions
      BY Names, Zenon
    <3> QED  BY <2>1, <3>1, <3>2, Zenon
  <2>7. Debts'
    <3> SUFFICES ASSUME NEW p \in live, Status(p)' = "Ready"
                 PROVE  p \in ready
      BY <1>2, Zenon DEF Debts
    <3>1. p # t
      BY <1>5, <2>1, Zenon DEF Status
    <3>2. Status(p) = "Ready" /\ p # None
      BY <2>1, <3>1, Names, Zenon DEF Status
    <3> QED  BY <1>1, <1>3, <3>2, Zenon DEF GroupInv, Debts
  <2>8. LeafFirst'
    BY <1>8, Nothing, Zenon DEF LeafFirst
  <2> QED  BY <2>2, <2>3, <2>4, <2>5, <2>6, <2>7, <2>8, Zenon DEF GroupInv
<1> QED  BY <1>1, <1>7, <1>8, Zenon

-----------------------------------------------------------------------------
(* What becomes of the selected branch.                                    *)

\* A step between two teardowns: at most the group of p and the activation
\* change, and every branch of p that was held somewhere stays held.
LEMMA TurnStep ==
  ASSUME GroupInv,
         UNCHANGED <<live, used, gparent, depth, run>>,
         ready \subseteq ready', abandoned \subseteq abandoned',
         job.kind \in {"none", "fail"},
         job' \in Jobs, job'.kind \in {"none", "retire"}, job'.rec = None, job'.sub = None,
         job'.kind = "none" => job' = NoJob,
         job'.kind = "retire" => job'.on # None /\ run = None,
         NEW p \in Sessions, act # None => act.of = p,
         group' \in [Sessions -> Records \cup {None}],
         \A q \in Sessions : q # p => group'[q] = group[q],
         group'[p] # None => /\ group[p] # None /\ group'[p].st = "Running"
                             /\ Sound(p, group'[p]),
         act' \in Activations \cup {None},
         act' # None => /\ act'.of = p /\ gparent[act'.exec] = p /\ run = None
                        /\ group'[p] # None => group'[p].branch[act'.index] = None,
         run # None /\ act' = None /\ gparent[run] # None => run \in ready',
         \A b \in live :
           gparent[b] = p /\ (Holds(group[p], b) \/ (act # None /\ act.exec = b)) =>
             \/ act' # None /\ act'.exec = b
             \/ b \in abandoned'
             \/ Holds(group'[p], b)
             \/ job'.kind = "retire" /\ job'.on = b,
         \A q \in live : act # None /\ act.exec = q /\ act.did = "error" =>
             run = q \/ (job'.kind = "retire" /\ job'.on = q)
  PROVE  GroupInv'
<1>1. /\ job.rec = None /\ job.sub = None /\ job.kind # "finish" /\ job.kind # "retire"
  BY Zenon DEF GroupInv, Owners
<1>2. GroupTypes'
  BY Zenon DEF GroupInv, GroupTypes
<1>3. Ancestry'
  BY AncestryKept, Zenon DEF GroupInv
<1>4. Owners'
  <2>1. (\A q \in Sessions : group[q] # None =>
           q \in live /\ depth[q] < MaxDepth /\ Sound(q, group[q]))'
    <3> SUFFICES ASSUME NEW q \in Sessions, group'[q] # None
                 PROVE  q \in live /\ depth[q] < MaxDepth /\ Sound(q, group[q])'
      BY Zenon
    <3>1. q \in live /\ depth[q] < MaxDepth /\ Sound(q, group'[q])
      BY Zenon DEF GroupInv, Owners
    <3> QED  BY <3>1, Zenon DEF Sound
  <2> QED  BY <2>1, Zenon DEF Owners
<1>5. Turns'
  <2>1. job' # NoJob => run = None
    BY Zenon
  <2> QED  BY <2>1, Zenon DEF Turns
<1>6. Homes'
  <2> SUFFICES ASSUME NEW b \in live, gparent[b] # None
               PROVE  \/ act' # None /\ act'.exec = b
                      \/ b \in abandoned'
                      \/ Holds(group'[gparent[b]], b)
                      \/ job'.kind = "retire" /\ job'.on = b
    BY Zenon DEF Homes
  <2>1. \/ act # None /\ act.exec = b
        \/ b \in abandoned
        \/ Holds(group[gparent[b]], b)
    BY <1>1, Zenon DEF GroupInv, Homes, Holds
  <2>2. gparent[b] \in Sessions
    BY Names, Zenon
  <2>3. act # None /\ act.exec = b => gparent[b] = p
    BY Zenon DEF GroupInv, Turns
  <2> QED  BY <2>1, <2>2, <2>3, Zenon
<1>7. Debts'
  <2> SUFFICES ASSUME NEW q \in live, Status(q)' = "Ready"
               PROVE  \/ q \in ready' \/ run = q
                      \/ job'.kind = "retire" /\ job'.on = q
    BY Zenon DEF Debts
  <2>1. q \in Sessions /\ "Ready" # "none" /\ "Ready" # "Running"
    BY Names, Zenon
  <2>2. q # p
    BY <2>1, Zenon DEF Status
  <2>3. Status(q) = "Ready"
    BY <2>1, <2>2, Zenon DEF Status
  <2> QED  BY <1>1, <2>3, Zenon DEF GroupInv, Debts
<1>8. LeafFirst'
  BY Zenon DEF LeafFirst
<1> QED  BY <1>2, <1>3, <1>4, <1>5, <1>6, <1>7, <1>8, Zenon DEF GroupInv

\* The selected branch, and its group, if that is there.
LEMMA Selection ==
  ASSUME GroupInv, act # None
  PROVE  /\ act \in Activations /\ act.of \in Sessions /\ act.index \in 0..1
         /\ act.exec \in Sessions /\ gparent[act.exec] = act.of
         /\ group[act.of] # None =>
              /\ group[act.of] \in Records /\ group[act.of].st = "Running"
              /\ group[act.of].branch[act.index] = None
              /\ Sound(act.of, group[act.of])
              /\ act.of \in live /\ depth[act.of] < MaxDepth
<1>1. act \in Activations
  BY Zenon DEF GroupInv, GroupTypes
<1>2. act.of \in Sessions /\ act.index \in 0..1 /\ act.exec \in Sessions
  BY <1>1, Zenon DEF Activations
<1> QED  BY <1>1, <1>2, Names, Zenon DEF GroupInv, Turns, Owners

\* The branch goes back into its group.
LEMMA PutBack ==
  ASSUME GroupInv, act # None, group[act.of] # None,
         NEW R, R = [group[act.of] EXCEPT !.branch[act.index] = act.exec]
  PROVE  /\ R \in Records /\ R.st = "Running" /\ Sound(act.of, R) /\ R # None
         /\ \A b : Holds(group[act.of], b) \/ act.exec = b => Holds(R, b) \/ b = None
<1> DEFINE p == act.of
           i == act.index
<1>1. /\ p \in Sessions /\ i \in 0..1 /\ act.exec \in Sessions /\ gparent[act.exec] = p
      /\ group[p] \in Records /\ group[p].st = "Running" /\ group[p].branch[i] = None
      /\ Sound(p, group[p])
  BY Selection, Zenon
<1> HIDE DEF p, i
<1>2. R = [group[p] EXCEPT !.branch[i] = act.exec]
  BY Zenon DEF p, i
<1>3. /\ R \in Records /\ R.st = "Running" /\ R.branch[i] = act.exec
      /\ \A k \in 0..1 : k # i => R.branch[k] = group[p].branch[k]
  BY <1>1, <1>2 DEF Records, Branches
<1>4. R # None
  BY <1>3, Names, Zenon
<1>5. Sound(p, R)
  BY <1>1, <1>3, Zenon DEF Sound
<1>6. \A b : Holds(group[p], b) \/ act.exec = b => Holds(R, b) \/ b = None
  BY <1>1, <1>3, <1>4, Zenon DEF Holds
<1> QED  BY <1>3, <1>4, <1>5, <1>6, Zenon DEF p

LEMMA BranchParkStep ==
  ASSUME GroupInv, BranchPark PROVE GroupInv'
<1> DEFINE R == [group[act.of] EXCEPT !.branch[act.index] = act.exec]
           p == act.of
<1>1. /\ act # None /\ run = None /\ job = NoJob /\ job' = job /\ act' = None
      /\ group[p] # None /\ group' = [group EXCEPT ![p] = R] /\ act.did # "error"
      /\ UNCHANGED <<live, used, gparent, depth, abandoned, ready, run>>
  <2>1. /\ act # None /\ run = None /\ job = NoJob /\ act' = None /\ group[p] # None
        /\ act.did \in {"none", "yield"}
        /\ UNCHANGED <<live, used, gparent, depth, abandoned, ready, run, job>>
    BY Zenon DEF BranchPark, Idle, sessions, signals, health
  <2>2. group' = [group EXCEPT ![p] = R]
    BY Zenon DEF BranchPark
  <2>3. act.did # "error"
    BY <2>1, Zenon
  <2> QED  BY <2>1, <2>2, <2>3, Zenon
<1>2. /\ R \in Records /\ R.st = "Running" /\ Sound(p, R) /\ R # None
      /\ \A b : Holds(group[p], b) \/ act.exec = b => Holds(R, b) \/ b = None
  BY <1>1, PutBack, Zenon
<1>3. p \in Sessions
  BY <1>1, Selection, Zenon
<1> HIDE DEF R, p
<1>4. /\ group' \in [Sessions -> Records \cup {None}] /\ group'[p] = R
      /\ \A q \in Sessions : q # p => group'[q] = group[q]
  BY <1>1, <1>2, <1>3, Names, Zenon
<1>5. \A b \in live : Holds(group[p], b) \/ (act # None /\ act.exec = b) => Holds(group'[p], b)
  BY <1>2, <1>4, Names, Zenon
<1>6. /\ job' \in Jobs /\ job'.kind = "none" /\ job'.rec = None /\ job'.sub = None
      /\ job' = NoJob /\ job.kind = "none"
  BY <1>1, Nothing, Zenon
<1>7. "none" # "retire" /\ act.of = p
  BY Zenon DEF p
<1> QED  BY <1>1, <1>2, <1>3, <1>4, <1>5, <1>6, <1>7, TurnStep, Zenon

\* A group that goes on, or ends, with one more output.
LEMMA OutputRecord ==
  ASSUME NEW rec \in Records, NEW i \in 0..1
  PROVE  /\ [rec EXCEPT !.out = @ \cup {i}] \in Records
         /\ [rec EXCEPT !.out = @ \cup {i}].st = rec.st
         /\ [rec EXCEPT !.out = @ \cup {i}].branch = rec.branch
BY Zenon DEF Records

LEMMA BranchCompleteStep ==
  ASSUME GroupInv, BranchComplete PROVE GroupInv'
<1> DEFINE p == act.of
           R == [group[p] EXCEPT !.out = @ \cup {act.index}]
<1>1. /\ act # None /\ run = None /\ job = NoJob /\ act' = None
      /\ act.exec \notin live
      /\ UNCHANGED <<live, used, gparent, depth, abandoned, ready, run>>
  BY Zenon DEF BranchComplete, Idle, sessions, signals
<1>2. /\ p \in Sessions /\ act.index \in 0..1
      /\ group[p] # None => /\ group[p] \in Records /\ group[p].st = "Running"
                            /\ Sound(p, group[p]) /\ p \in live /\ depth[p] < MaxDepth
  BY <1>1, Selection, Zenon
<1>3. group[p] # None => /\ R \in Records /\ R.st = "Running" /\ R.branch = group[p].branch
  BY <1>2, OutputRecord, Zenon
<1>4. \/ group[p] = None /\ group' = group /\ job' = job
      \/ group[p] # None /\ group' = [group EXCEPT ![p] = R] /\ job' = job
      \/ group[p] # None /\ group' = [group EXCEPT ![p] = None] /\ Finish(p, R, "ok")
      \/ group[p] # None /\ group' = [group EXCEPT ![p] = None] /\ Finish(p, group[p], "err")
      \/ /\ group[p] # None /\ group' = [group EXCEPT ![p] = None]
         /\ job' = [NoJob EXCEPT !.kind = "finish", !.on = p, !.rec = R, !.res = "fault"]
  BY Zenon DEF BranchComplete
<1>5. act.of = p
  BY Zenon
<1> HIDE DEF p, R
<1>6. ASSUME group[p] # None, group' = [group EXCEPT ![p] = None],
             NEW Q \in Records, Q.st = "Running", Q.branch = group[p].branch,
             job' \in Jobs, job'.kind = "finish", job'.on = p, job'.rec = Q, job'.sub = None
      PROVE  GroupInv'
  <2>1. Sound(p, Q)
    BY <1>2, <1>6, Zenon DEF Sound
  <2>2. job.kind = "none" /\ job.rec = None
    BY <1>1, Nothing, Zenon
  <2>3. Q # None
    BY Names, Zenon
  <2>4. \A b \in live : Holds(group[p], b) \/ (act # None /\ act.exec = b) \/ Holds(job.rec, b)
                          => Holds(Q, b)
    BY <1>1, <1>6, <2>2, <2>3, Zenon DEF Holds
  <2> QED  BY <1>1, <1>2, <1>6, <2>1, <2>2, <2>4, FinishStep, Zenon
<1>7. ASSUME group' \in [Sessions -> Records \cup {None}], job' = job,
             \A q \in Sessions : q # p => group'[q] = group[q],
             group'[p] # None => /\ group[p] # None /\ group'[p].st = "Running"
                                 /\ Sound(p, group'[p]),
             \A b : Holds(group[p], b) => Holds(group'[p], b)
      PROVE  GroupInv'
  <2>1. /\ job' \in Jobs /\ job'.kind = "none" /\ job'.rec = None /\ job'.sub = None
        /\ job' = NoJob /\ job.kind = "none" /\ "none" # "retire"
    BY <1>1, <1>7, Nothing, Zenon
  <2> QED  BY <1>1, <1>2, <1>5, <1>7, <2>1, TurnStep, Zenon
<1>8. CASE group[p] = None /\ group' = group /\ job' = job
  BY <1>7, <1>8, Names, Zenon
<1>9. CASE group[p] # None /\ group' = [group EXCEPT ![p] = R] /\ job' = job
  <2>1. /\ group' \in [Sessions -> Records \cup {None}] /\ group'[p] = R
        /\ \A q \in Sessions : q # p => group'[q] = group[q]
    BY <1>2, <1>3, <1>9, Names, Zenon
  <2>2. Sound(p, R) /\ R # None
    BY <1>2, <1>3, <1>9, Names, Zenon DEF Sound
  <2>3. \A b : Holds(group[p], b) => Holds(R, b)
    BY <1>3, <1>9, <2>2, Zenon DEF Holds
  <2> QED  BY <1>3, <1>7, <1>9, <2>1, <2>2, <2>3, Zenon
<1>10. CASE group[p] # None /\ group' = [group EXCEPT ![p] = None] /\ Finish(p, R, "ok")
  BY <1>2, <1>3, <1>6, <1>10, FinishJob, Zenon
<1>11. CASE group[p] # None /\ group' = [group EXCEPT ![p] = None] /\ Finish(p, group[p], "err")
  BY <1>2, <1>6, <1>11, FinishJob, Zenon
<1>12. CASE /\ group[p] # None /\ group' = [group EXCEPT ![p] = None]
            /\ job' = [NoJob EXCEPT !.kind = "finish", !.on = p, !.rec = R, !.res = "fault"]
  <2>1. /\ job' \in Jobs /\ job'.kind = "finish" /\ job'.on = p /\ job'.rec = R
        /\ job'.sub = None
    BY <1>2, <1>3, <1>12, Zenon DEF NoJob, Jobs, Outcomes
  <2> QED  BY <1>3, <1>6, <1>12, <2>1, Zenon
<1> QED  BY <1>4, <1>8, <1>9, <1>10, <1>11, <1>12, Zenon

LEMMA BranchCloseStep ==
  ASSUME GroupInv, BranchClose PROVE GroupInv'
<1> DEFINE R == [group[act.of] EXCEPT !.branch[act.index] = act.exec]
           p == act.of
<1>1. /\ act # None /\ run = None /\ act' = None /\ job.kind \in {"none", "fail"}
      /\ UNCHANGED <<live, used, gparent, depth, abandoned, ready, run>>
  BY Nothing, Zenon DEF BranchClose, sessions, signals
<1>2. /\ p \in Sessions /\ act.exec \in Sessions
      /\ group[p] # None => p \in live /\ depth[p] < MaxDepth
  BY <1>1, Selection, Zenon
<1>3. job.rec = None
  BY <1>1, Nothing, Zenon DEF GroupInv, Owners
<1>4. CASE group[p] # None
  <2>1. group' = [group EXCEPT ![p] = None] /\ Finish(p, R, "err")
    BY <1>4, Zenon DEF BranchClose
  <2>2. /\ R \in Records /\ R.st = "Running" /\ Sound(p, R) /\ R # None
        /\ \A b : Holds(group[p], b) \/ act.exec = b => Holds(R, b) \/ b = None
    BY <1>1, <1>4, PutBack, Zenon
  <2> HIDE DEF R, p
  <2>3. /\ job' \in Jobs /\ job'.kind = "finish" /\ job'.on = p /\ job'.rec = R
        /\ job'.sub = None
    BY <1>2, <2>1, <2>2, FinishJob, Zenon
  <2>4. \A b \in live : Holds(group[p], b) \/ (act # None /\ act.exec = b) \/ Holds(job.rec, b)
                          => Holds(R, b)
    BY <1>3, <2>2, Names, Zenon DEF Holds
  <2> QED  BY <1>1, <1>2, <1>4, <2>1, <2>2, <2>3, <2>4, FinishStep, Zenon
<1>5. CASE group[p] = None
  <2>1. /\ group' = group
        /\ job' = IF act.exec \in live
                  THEN [NoJob EXCEPT !.kind = "retire", !.on = act.exec] ELSE NoJob
    BY <1>5, Zenon DEF BranchClose
  <2>2. act.of = p
    BY Zenon
  <2> HIDE DEF R, p
  <2>3. /\ job' \in Jobs /\ job'.kind \in {"none", "retire"} /\ job'.rec = None
        /\ job'.sub = None
        /\ job'.kind = "none" => job' = NoJob
    BY <1>2, <2>1, Zenon DEF NoJob, Jobs, Outcomes
  <2>4. act.exec \in live => job'.kind = "retire" /\ job'.on = act.exec
    BY <2>1, Zenon DEF NoJob
  <2>5. job'.kind = "retire" => job'.on # None
    BY <1>2, <2>1, Names, Zenon DEF NoJob
  <2>6. \A b : ~Holds(group[p], b)
    BY <1>5, Zenon DEF Holds
  <2> QED  BY <1>1, <1>2, <1>5, <2>1, <2>2, <2>3, <2>4, <2>5, <2>6, TurnStep, Names, Zenon
<1> QED  BY <1>4, <1>5, Zenon

LEMMA AbandonSelectionStep ==
  ASSUME GroupInv, AbandonSelection PROVE GroupInv'
<1> DEFINE R == [group[act.of] EXCEPT !.branch[act.index] = act.exec]
           p == act.of
<1>1. /\ act # None /\ run = act.exec /\ act' = None /\ job' = job
      /\ UNCHANGED <<live, used, gparent, depth, run>>
  BY Zenon DEF AbandonSelection, sessions, health
<1>2. p \in Sessions /\ act.exec \in Sessions /\ run # None /\ run \in live
  BY <1>1, Selection, Names, Zenon DEF GroupInv, GroupTypes
<1>3. /\ job' \in Jobs /\ job'.kind = "none" /\ job'.rec = None /\ job'.sub = None
      /\ job' = NoJob /\ job.kind = "none" /\ "none" # "retire"
  BY <1>1, <1>2, Nothing, Zenon
<1>4. CASE group[p] # None
  <2>1. /\ CancelAll(run) /\ UNCHANGED abandoned
        /\ group' = [group EXCEPT ![p] = R]
    BY <1>4, Zenon DEF AbandonSelection
  <2>2. 0 \in 0..MaxDepth /\ Climbs(run, 0, run, Sessions)
    BY <1>1, <1>2, ClimbZero, GroupsAssumption
  <2>3. ready \subseteq ready' /\ run \in ready'
    BY <1>2, <2>1, <2>2, Zenon DEF CancelAll
  <2>4. /\ R \in Records /\ R.st = "Running" /\ Sound(p, R) /\ R # None
        /\ \A b : Holds(group[p], b) \/ act.exec = b => Holds(R, b) \/ b = None
    BY <1>1, <1>4, PutBack, Zenon
  <2>5. act.of = p
    BY Zenon
  <2> HIDE DEF R, p
  <2>6. /\ group' \in [Sessions -> Records \cup {None}] /\ group'[p] = R
        /\ \A q \in Sessions : q # p => group'[q] = group[q]
    BY <1>2, <2>1, <2>4, Names, Zenon
  <2>7. \A b \in live : Holds(group[p], b) \/ (act # None /\ act.exec = b) => Holds(group'[p], b)
    BY <2>4, <2>6, Names, Zenon
  <2> QED  BY <1>1, <1>2, <1>3, <1>4, <2>1, <2>3, <2>4, <2>5, <2>6, <2>7, TurnStep, Zenon
<1>5. CASE group[p] = None
  <2>1. /\ abandoned' = abandoned \cup {run} /\ ready' = ready \cup {run} /\ group' = group
    BY <1>5, Zenon DEF AbandonSelection
  <2>2. act.of = p
    BY Zenon
  <2> HIDE DEF R, p
  <2>3. \A b : ~Holds(group[p], b)
    BY <1>5, Zenon DEF Holds
  <2>4. /\ ready \subseteq ready' /\ abandoned \subseteq abandoned'
        /\ run \in ready' /\ run \in abandoned'
    BY <2>1, Zenon
  <2> QED  BY <1>1, <1>2, <1>3, <1>5, <2>1, <2>2, <2>3, <2>4, TurnStep, Names, Zenon
<1> QED  BY <1>4, <1>5, Zenon

\* The branch that acquire_group selects.
LEMMA SelectedBranch ==
  ASSUME NEW n \in 0..1, NEW sel \in SUBSET (0..1), sel # {}
  PROVE  (IF n \in sel THEN n ELSE After(n)) \in sel
<1>1. After(n) \in 0..1 /\ \A k \in 0..1 : k = n \/ k = After(n)
  BY DEF After
<1>2. PICK k \in 0..1 : k \in sel
  BY Zenon
<1> QED  BY <1>1, <1>2, Zenon

LEMMA AcquireGroupStep ==
  ASSUME GroupInv, NEW p \in Sessions, AcquireGroup(p) PROVE GroupInv'
<1>1. /\ act = None /\ run = None /\ job = NoJob
      /\ UNCHANGED <<live, used, gparent, depth, abandoned, ready, run>>
  BY Zenon DEF AcquireGroup, Idle, sessions, signals
<1>2. \/ UNCHANGED <<group, act, job>>
      \/ /\ group[p] # None /\ act' = act /\ group' = [group EXCEPT ![p] = None]
         /\ Finish(p, group[p], "err")
      \/ /\ group[p] # None /\ group[p].st = "Admitting" /\ act' = act
         /\ group' = [group EXCEPT ![p] = None]
         /\ job' = [NoJob EXCEPT !.kind = "admit", !.on = p, !.rec = group[p]]
      \/ /\ group[p] # None /\ group[p].st = "Running" /\ job' = job
         /\ LET sel == {i \in 0..1 : group[p].branch[i] # None /\ group[p].branch[i] \in ready}
                i == IF group[p].next \in sel THEN group[p].next ELSE After(group[p].next)
            IN  /\ sel # {}
                /\ act' = [of |-> p, index |-> i, exec |-> group[p].branch[i], did |-> "none"]
                /\ group' = [group EXCEPT ![p].branch[i] = None, ![p].next = After(i)]
  <2>1. Status(p) \in {"Admitting", "Running"} => group[p] # None /\ group[p].st = Status(p)
    BY Zenon DEF Status
  <2>2. Status(p) = "Admitting" \/ Status(p) = "Running" => Status(p) \in {"Admitting", "Running"}
    BY Zenon
  <2> QED  BY <2>1, <2>2, Zenon DEF AcquireGroup
<1>3. /\ job.kind = "none" /\ job.rec = None /\ job.sub = None
      /\ group[p] # None => /\ group[p] \in Records /\ p \in live /\ depth[p] < MaxDepth
                            /\ Sound(p, group[p])
  BY <1>1, Nothing, Names, Zenon DEF GroupInv, Owners
<1>4. CASE UNCHANGED <<group, act, job>>
  BY <1>1, <1>4, SignalStep, Zenon
<1>5. CASE /\ group[p] # None /\ act' = act /\ group' = [group EXCEPT ![p] = None]
           /\ Finish(p, group[p], "err")
  <2>1. /\ job' \in Jobs /\ job'.kind = "finish" /\ job'.on = p /\ job'.rec = group[p]
        /\ job'.sub = None
    BY <1>3, <1>5, FinishJob, Zenon
  <2>2. \A b \in live : Holds(group[p], b) \/ (act # None /\ act.exec = b) \/ Holds(job.rec, b)
                          => Holds(group[p], b)
    BY <1>1, <1>3, Zenon DEF Holds
  <2> QED  BY <1>1, <1>3, <1>5, <2>1, <2>2, FinishStep, Zenon
<1>6. CASE /\ group[p] # None /\ group[p].st = "Admitting" /\ act' = act
           /\ group' = [group EXCEPT ![p] = None]
           /\ job' = [NoJob EXCEPT !.kind = "admit", !.on = p, !.rec = group[p]]
  <2>1. /\ job' \in Jobs /\ job'.kind = "admit" /\ job'.on = p /\ job'.rec = group[p]
        /\ job'.sub = None
    BY <1>3, <1>6, Zenon DEF NoJob, Jobs, Outcomes
  <2>2. /\ group' \in [Sessions -> Records \cup {None}] /\ group'[p] = None
        /\ \A q \in Sessions : q # p => group'[q] = group[q]
    BY <1>6, Names, Zenon
  <2>3. Sound(p, [group[p] EXCEPT !.st = "Running"])
    <3>1. /\ [group[p] EXCEPT !.st = "Running"].st = "Running"
          /\ [group[p] EXCEPT !.st = "Running"].branch = group[p].branch
      BY <1>3, <1>6, Zenon DEF Records
    <3> QED  BY <1>3, <1>6, <3>1, Zenon DEF Sound
  <2>4. \A b \in live : ~Holds(group[p], b)
    <3>1. group[p].branch = NoBranches
      BY <1>3, <1>6, Zenon DEF Sound
    <3> QED  BY <3>1, Names, SMT DEF Holds, NoBranches
  <2>5. GroupTypes'
    BY <1>1, <1>6, <2>1, <2>2, "admit" # "none", Zenon DEF GroupInv, GroupTypes
  <2>6. Ancestry'
    BY <1>1, TeardownKeeps, Zenon
  <2>7. Owners'
    <3>1. (\A q \in Sessions : group[q] # None =>
             q \in live /\ depth[q] < MaxDepth /\ Sound(q, group[q]))'
      <4> SUFFICES ASSUME NEW q \in Sessions, group'[q] # None
                   PROVE  q \in live /\ depth[q] < MaxDepth /\ Sound(q, group[q])'
        BY <1>1, Zenon
      <4>1. group'[q] = group[q] /\ q \in live /\ depth[q] < MaxDepth /\ Sound(q, group[q])
        BY <2>2, Zenon DEF GroupInv, Owners
      <4> QED  BY <1>1, <4>1, Zenon DEF Sound
    <3>2. Sound(job.on, [job.rec EXCEPT !.st = "Running"])'
      BY <1>1, <2>1, <2>3, TeardownKeeps, Zenon
    <3>3. job'.kind # "finish" /\ job'.kind # "retire" /\ job'.kind \in {"admit", "finish"}
      BY <2>1, Zenon
    <3>4. (/\ job.on \in live /\ depth[job.on] < MaxDepth /\ act = None
           /\ job.rec # None /\ group[job.on] = None)'
      <4>1. /\ p \in live' /\ depth'[p] < MaxDepth /\ act' = None
            /\ group[p] # None /\ group'[p] = None
        BY <1>1, <1>3, <1>6, <2>2, Zenon
      <4> QED  BY <2>1, <4>1, Zenon
    <3> QED  BY <2>1, <3>1, <3>2, <3>3, <3>4, Zenon DEF Owners
  <2>8. Turns'
    BY <1>1, <1>6, Zenon DEF Turns
  <2>9. Homes'
    <3> SUFFICES ASSUME NEW b \in live, gparent[b] # None
                 PROVE  b \in abandoned \/ Holds(group'[gparent[b]], b)
      BY <1>1, Zenon DEF Homes
    <3>1. b \in abandoned \/ Holds(group[gparent[b]], b)
      BY <1>1, <1>3, "none" # "retire", Zenon DEF GroupInv, Homes, Holds
    <3>2. gparent[b] \in Sessions
      BY Names, Zenon
    <3> QED  BY <2>2, <2>4, <3>1, <3>2, Zenon
  <2>10. Debts'
    <3> SUFFICES ASSUME NEW q \in live, Status(q)' = "Ready"
                 PROVE  q \in ready
      BY <1>1, Zenon DEF Debts
    <3>1. q \in Sessions /\ q # None /\ "none" # "Ready" /\ "none" # "retire" /\ "none" # "finish"
      BY Names, Zenon
    <3>2. Status(q) = "Ready"
      BY <2>2, <3>1, Zenon DEF Status
    <3> QED  BY <1>1, <1>3, <3>1, <3>2, Zenon DEF GroupInv, Debts
  <2>11. LeafFirst'
    BY <2>1, Zenon DEF LeafFirst
  <2> QED  BY <2>5, <2>6, <2>7, <2>8, <2>9, <2>10, <2>11, Zenon DEF GroupInv
<1>7. CASE /\ group[p] # None /\ group[p].st = "Running" /\ job' = job
           /\ LET sel == {i \in 0..1 : group[p].branch[i] # None /\ group[p].branch[i] \in ready}
                  i == IF group[p].next \in sel THEN group[p].next ELSE After(group[p].next)
              IN  /\ sel # {}
                  /\ act' = [of |-> p, index |-> i, exec |-> group[p].branch[i], did |-> "none"]
                  /\ group' = [group EXCEPT ![p].branch[i] = None, ![p].next = After(i)]
  <2> DEFINE sel == {i \in 0..1 : group[p].branch[i] # None /\ group[p].branch[i] \in ready}
             i == IF group[p].next \in sel THEN group[p].next ELSE After(group[p].next)
             R == [group[p] EXCEPT !.branch[i] = None, !.next = After(i)]
             x == group[p].branch[i]
  <2>1. /\ sel # {} /\ act' = [of |-> p, index |-> i, exec |-> x, did |-> "none"]
        /\ group' = [group EXCEPT ![p].branch[i] = None, ![p].next = After(i)]
    BY <1>7, Zenon
  <2> HIDE DEF sel
  <2>0. i = IF group[p].next \in sel THEN group[p].next ELSE After(group[p].next)
    BY Zenon
  <2> HIDE DEF i
  <2>2. /\ i \in 0..1 /\ x \in Sessions /\ x # None /\ R \in Records /\ R.st = group[p].st
        /\ R.branch[i] = None
        /\ \A k \in 0..1 : k # i => R.branch[k] = group[p].branch[k]
    <3>1. group[p] \in Records /\ sel # {} /\ sel \in SUBSET (0..1)
      <4>1. group[p] \in Records
        BY <1>3, <1>7, Zenon
      <4>2. sel \in SUBSET (0..1)
        BY Zenon DEF sel
      <4> QED  BY <2>1, <4>1, <4>2, Zenon
    <3>2. group[p].next \in 0..1
      BY <3>1, Zenon DEF Records
    <3>3. i \in sel
      BY <2>0, <3>1, <3>2, SelectedBranch, Zenon
    <3>4. i \in 0..1 /\ group[p].branch[i] # None
      BY <3>3, Zenon DEF sel
    <3>5. After(i) \in 0..1 /\ group[p].branch[i] \in Sessions
      BY <3>1, <3>4 DEF After, Records, Branches
    <3>6. /\ R \in Records /\ R.st = group[p].st /\ R.branch[i] = None
          /\ \A k \in 0..1 : k # i => R.branch[k] = group[p].branch[k]
      BY <3>1, <3>4, <3>5, Zenon DEF Records, Branches
    <3> QED  BY <3>4, <3>5, <3>6, Zenon
  <2>3. group' = [group EXCEPT ![p] = R]
    BY <2>1, Zenon
  <2>4. act' \in Activations /\ act'.of = p /\ act'.index = i /\ act'.exec = x
    BY <2>1, <2>2, Zenon DEF Activations
  <2>5. x = group[p].branch[i]
    BY Zenon
  <2> HIDE DEF R, x
  <2>6. gparent[x] = p /\ Sound(p, R) /\ R # None
    BY <1>3, <1>7, <2>2, <2>5, Names, Zenon DEF Sound
  <2>7. /\ group' \in [Sessions -> Records \cup {None}] /\ group'[p] = R
        /\ \A q \in Sessions : q # p => group'[q] = group[q]
    BY <2>2, <2>3, Names, Zenon
  <2>8. \A b : Holds(group[p], b) => act'.exec = b \/ Holds(group'[p], b)
    BY <2>2, <2>4, <2>5, <2>6, <2>7, Zenon DEF Holds
  <2>9. act' # None
    BY <2>4, Names, Zenon
  <2>10. /\ job' \in Jobs /\ job'.kind = "none" /\ job'.rec = None /\ job'.sub = None
         /\ job' = NoJob /\ job.kind = "none" /\ "none" # "retire"
    BY <1>1, <1>7, Nothing, Zenon
  <2>11. group[p] # None /\ group'[p].st = "Running" /\ Sound(p, group'[p])
    BY <1>7, <2>2, <2>6, <2>7, Zenon
  <2>12. /\ act'.of = p /\ gparent[act'.exec] = p /\ group'[p].branch[act'.index] = None
    BY <2>2, <2>4, <2>6, <2>7, Zenon
  <2> QED  BY <1>1, <2>4, <2>7, <2>8, <2>9, <2>10, <2>11, <2>12, TurnStep, Zenon
<1> QED  BY <1>2, <1>4, <1>5, <1>6, <1>7, Zenon

-----------------------------------------------------------------------------
(* The invariant, and what follows from it.                                *)

LEMMA GroupInit == ASSUME Init PROVE GroupInv
<1>1. /\ live = {} /\ used = 0 /\ act = None /\ run = None /\ job = NoJob
      /\ gparent = [s \in Sessions |-> None] /\ depth = [s \in Sessions |-> 0]
      /\ group = [s \in Sessions |-> None]
  BY Zenon DEF Init
<1>2. NoJob \in Jobs /\ NoJob.kind = "none" /\ NoJob.rec = None /\ NoJob.sub = None
  BY Zenon DEF NoJob, Jobs, Outcomes
<1>3. None \notin Sessions /\ 0 \in 0..MaxSessions /\ 0 \in 0..MaxDepth
  BY GroupsAssumption DEF Sessions
<1>4. GroupTypes
  <2>1. /\ gparent \in [Sessions -> Sessions \cup {None}]
        /\ depth \in [Sessions -> 0..MaxDepth]
        /\ group \in [Sessions -> Records \cup {None}]
    BY <1>1, <1>3, Zenon
  <2> QED  BY <1>1, <1>2, <1>3, <2>1, Zenon DEF GroupTypes
<1>5. Ancestry
  <2>1. \A s \in Sessions : gparent[s] = None /\ depth[s] = 0
    BY <1>1, Zenon
  <2>2. ASSUME NEW s \in Sessions, NEW t \in Sessions, NEW n \in 0..MaxDepth,
               Climbs(s, n, t, Sessions)
        PROVE  depth[s] = n + depth[t]
    <3>1. PICK path \in [0..n -> Sessions] :
            \A k \in 1..n : path[k-1] \in Sessions /\ path[k] = gparent[path[k-1]]
      BY <2>2, Zenon DEF Climbs
    <3>2. n = 0
      <4> SUFFICES ASSUME n # 0 PROVE FALSE
        BY Zenon
      <4>1. 1 \in 1..n /\ 1 \in 0..n
        BY GroupsAssumption
      <4>2. path[1] \in Sessions /\ path[1] = None
        BY <2>1, <3>1, <4>1, Zenon
      <4> QED  BY <1>3, <4>2, Zenon
    <3> QED  BY <2>1, <3>2
  <2> QED  BY <2>1, <2>2, Zenon DEF Ancestry
<1>6. Owners
  <2>1. \A p \in Sessions : group[p] = None
    BY <1>1, Zenon
  <2>2. job.kind \notin {"admit", "finish"} /\ job.kind # "retire"
    BY <1>1, <1>2, Zenon
  <2> QED  BY <1>1, <1>2, <2>1, <2>2, Zenon DEF Owners
<1>7. Turns /\ Homes /\ Debts /\ LeafFirst
  BY <1>1, <1>2, Zenon DEF Turns, Homes, Debts, LeafFirst
<1> QED  BY <1>4, <1>5, <1>6, <1>7, Zenon DEF GroupInv

LEMMA QuarantineStep ==
  ASSUME quarantined \in BOOLEAN, [Next]_vars PROVE quarantined' \in BOOLEAN
<1>1. quarantined' = quarantined \/ quarantined' \in BOOLEAN
  <2>1. CASE UNCHANGED vars
    BY <2>1, Zenon DEF vars, health
  <2>2. CASE StartRoot \/ ResumeBranch \/ RequestGroup \/ PollGroup \/ AbandonSelection \/ DrainBegin
    BY <2>2, Zenon DEF StartRoot, ResumeBranch, RequestGroup, PollGroup, AbandonSelection,
                       DrainBegin, health, Returns, Panics
  <2>3. CASE \E s \in Sessions : \/ CancelSession(s) \/ Abandon(s) \/ Wake(s) \/ Resume(s)
                                 \/ RetireCancelled(s) \/ AcquireGroup(s)
    BY <2>3, Zenon DEF CancelSession, Abandon, Wake, Resume, RetireCancelled, AcquireGroup,
                       Finish, health
  <2>4. CASE \E did \in {"yield", "done", "error"} : EndSlice(did)
    BY <2>4, Zenon DEF EndSlice, health
  <2>5. CASE Teardown
    BY <2>5, Zenon DEF Teardown, CloseNext, DisposeOwn, DisposeBranch, DisposeEnd, FinishInsert,
                       RetireEnd, DrainNext, DrainEnd, Returns, Panics, health
  <2>6. CASE Admission
    BY <2>6, Zenon DEF Admission, AdmitFails, AdmitBranch, AdmitCommit, Finish, Returns, Panics, health
  <2>7. CASE Selected
    BY <2>7, Zenon DEF Selected, BranchPark, RetireBranch, BranchComplete, BranchFail, BranchClose,
                       Finish, Panics, health
  <2> QED  BY <2>1, <2>2, <2>3, <2>4, <2>5, <2>6, <2>7, Zenon DEF Next
<1> QED  BY <1>1, Zenon

LEMMA GroupStep ==
  ASSUME GroupInv, quarantined \in BOOLEAN, [Next]_vars PROVE GroupInv'
<1>1. CASE UNCHANGED vars
  <2>1. UNCHANGED <<live, used, gparent, depth, group, act, run, job, abandoned, ready>>
    BY <1>1, Zenon DEF vars, sessions, signals, groups
  <2> QED  BY <2>1, SignalStep, Zenon
<1>2. CASE StartRoot
  BY <1>2, StartRootStep, Zenon
<1>3. CASE \E s \in Sessions : CancelSession(s) \/ Abandon(s) \/ Wake(s)
  BY <1>3, OutsideStep, Zenon
<1>4. CASE (\E s \in Sessions : Resume(s)) \/ ResumeBranch
  BY <1>4, ResumeStep, Zenon
<1>5. CASE \E s \in Sessions : AcquireGroup(s)
  BY <1>5, AcquireGroupStep, Zenon
<1>6. CASE RequestGroup \/ PollGroup
  BY <1>6, OwnGroupStep, Zenon
<1>7. CASE \E did \in {"yield", "done", "error"} : EndSlice(did)
  BY <1>7, EndSliceStep, Zenon
<1>8. CASE \/ DrainBegin \/ DrainEnd \/ (\E s \in Sessions : DrainNext(s) \/ RetireCancelled(s))
           \/ RetireBranch \/ BranchFail
  BY <1>8, DrainStep, Zenon
<1>9. CASE CloseNext \/ DisposeOwn \/ (\E i \in 0..1 : DisposeBranch(i)) \/ DisposeEnd
  BY <1>9, CloseNextStep, DisposeOwnStep, DisposeBranchStep, DisposeEndStep, Zenon
<1>10. CASE FinishInsert \/ RetireEnd
  BY <1>10, FinishInsertStep, RetireEndStep, Zenon
<1>11. CASE Admission
  BY <1>11, AdmitFailsStep, AdmitBranchStep, AdmitCommitStep, Zenon DEF Admission
<1>12. CASE BranchPark \/ BranchComplete \/ BranchClose \/ AbandonSelection
  BY <1>12, BranchParkStep, BranchCompleteStep, BranchCloseStep, AbandonSelectionStep, Zenon
<1> QED
  BY <1>1, <1>2, <1>3, <1>4, <1>5, <1>6, <1>7, <1>8, <1>9, <1>10, <1>11, <1>12, Zenon
     DEF Next, Teardown, Selected

\* The bookkeeping of structured groups is consistent in every reachable state:
\* parents are older than their branches and one level above them, every branch
\* that is alive is held by somebody, every group belongs to a living execution,
\* and the teardown under way knows whose group it disposes of.
THEOREM GroupsConsistent == Spec => [](GroupInv /\ quarantined \in BOOLEAN)
<1>1. Init => GroupInv /\ quarantined \in BOOLEAN
  BY GroupInit, Zenon DEF Init
<1>2. GroupInv /\ quarantined \in BOOLEAN /\ [Next]_vars => (GroupInv /\ quarantined \in BOOLEAN)'
  BY GroupStep, QuarantineStep, Zenon
<1> QED  BY <1>1, <1>2, PTL DEF Spec

\* A branch execution never outlives its group: between two calls of the runtime
\* it sits in the running group of a living parent, is the branch the backend has
\* selected, or is abandoned and due to be drained.  This is what admit_group,
\* dispose_group, retire_execution and BranchActivation achieve together,
\* whichever of their steps fails or panics and whatever is cancelled meanwhile.
THEOREM BranchesNeverOrphaned == Spec => []NoOrphan
<1>1. GroupInv => NoOrphan
  <2> SUFFICES ASSUME GroupInv, job = NoJob, NEW b \in live, gparent[b] # None,
                      ~(act # None /\ act.exec = b), b \notin abandoned
               PROVE  /\ gparent[b] \in live /\ Status(gparent[b]) = "Running"
                      /\ \E i \in 0..1 : group[gparent[b]].branch[i] = b
    BY Zenon DEF NoOrphan
  <2>1. job.kind = "none" /\ job.rec = None /\ job.sub = None /\ "none" # "retire"
    BY Nothing, Zenon
  <2>2. Holds(group[gparent[b]], b)
    BY <2>1, Zenon DEF GroupInv, Homes, Holds
  <2>3. PICK i \in 0..1 : group[gparent[b]].branch[i] = b
    BY <2>2, Zenon DEF Holds
  <2>4. /\ gparent[b] \in Sessions /\ group[gparent[b]] # None /\ gparent[b] \in live
        /\ Sound(gparent[b], group[gparent[b]]) /\ b # None
    BY <2>2, Names, Zenon DEF GroupInv, Owners, Holds
  <2>5. group[gparent[b]].st = "Running"
    <3>1. NoBranches[i] = None
      BY Zenon DEF NoBranches
    <3> QED  BY <2>3, <2>4, <3>1, Zenon DEF Sound
  <2> QED  BY <2>3, <2>4, <2>5, Zenon DEF Status
<1> QED  BY <1>1, GroupsConsistent, PTL

\* Descendants retire leaf-first: close_owned_groups has emptied everything below
\* a branch before dispose_group retires it, so that no retirement tears groups
\* down recursively, at any depth of nesting.
THEOREM TeardownLeafFirst == Spec => []LeafFirst
<1>1. GroupInv => LeafFirst
  BY Zenon DEF GroupInv
<1> QED  BY <1>1, GroupsConsistent, PTL

\* A parent whose group is ready is ready to be resumed, or is at it: no wake-up
\* is lost between finish_group_record and the slices that consume the readiness
\* of an execution.
THEOREM ReadyParentsWoken == Spec => []ParentWoken
<1>1. GroupInv => ParentWoken
  <2> SUFFICES ASSUME GroupInv, job = NoJob PROVE ParentWoken
    BY Zenon DEF ParentWoken
  <2>1. job.kind # "retire" /\ job.kind # "finish"
    BY Nothing, Zenon
  <2> QED  BY <2>1, Zenon DEF GroupInv, Debts, ParentWoken
<1> QED  BY <1>1, GroupsConsistent, PTL

=============================================================================
