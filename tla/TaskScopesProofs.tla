-------------------------- MODULE TaskScopesProofs --------------------------
(***************************************************************************)
(* Proofs about task scopes, for any number of tasks, threads, failing     *)
(* notifications, dispatchers and engine faults.                           *)
(***************************************************************************)
EXTENDS TaskScopes, TLAPS

-----------------------------------------------------------------------------
(* What a step of a signalling call does to the calls in progress.         *)

Others(p) == sig' \in [Procs -> SigCall] /\ \A q \in Procs \ {p} : sig'[q] = sig[q]
Same(p) == sig'[p].todo = sig[p].todo /\ sig'[p].why = sig[p].why /\ sig'[p].last = sig[p].last

LEMMA GotoFacts ==
    ASSUME CallsSound, NEW p \in Procs, NEW l \in SigLabels, Goto(p, l)
    PROVE  /\ Others(p) /\ Same(p) /\ sig'[p].pc = l
           /\ sig'[p].task = sig[p].task /\ sig'[p].gen = sig[p].gen
  BY Zenon DEF CallsSound, Goto, Others, Same, SigCall

LEMMA LoopFacts ==
    ASSUME CallsSound, NEW p \in Procs, Loop(p)
    PROVE  /\ Others(p) /\ Same(p) /\ sig'[p].pc = "loop"
           /\ sig'[p].task = None /\ sig'[p].gen = 0
<1> DEFINE c == [sig[p] EXCEPT !.pc = "loop", !.task = None, !.gen = 0]
<1>1. sig \in [Procs -> SigCall] /\ sig[p] \in SigCall
  BY Zenon DEF CallsSound
<1>2. sig' = [sig EXCEPT ![p] = c]
  BY Zenon DEF Loop
<1>3. /\ c \in SigCall /\ c.pc = "loop" /\ c.task = None /\ c.gen = 0
      /\ c.todo = sig[p].todo /\ c.why = sig[p].why /\ c.last = sig[p].last
  BY <1>1, Zenon DEF SigCall, SigLabels
<1> HIDE DEF c
<1> QED  BY <1>1, <1>2, <1>3, Zenon DEF Others, Same

LEMMA CallsFacts ==
    ASSUME CallsSound, NEW p \in Procs, NEW c \in SigCall, Calls(p, c)
    PROVE  Others(p) /\ sig'[p] = c
  BY Zenon DEF CallsSound, Calls, Others

LEMMA QuietCall ==
    Quiet \in SigCall /\ Quiet.pc = "none" /\ Quiet.task = None /\ Quiet.todo = {}
  BY Zenon DEF Quiet, SigCall, SigLabels

LEMMA MarkCall ==
    ASSUME NEW t \in Tasks
    PROVE  Mark(t) \in SigCall /\ Mark(t).pc = "mark" /\ Mark(t).task = t /\ Mark(t).todo = {}
  BY Zenon DEF Mark, Quiet, SigCall, SigLabels

LEMMA NotifyCall ==
    ASSUME NEW t \in Tasks \cup {None}
    PROVE  Notify(t) \in SigCall /\ Notify(t).pc = "notify" /\ Notify(t).task = t /\ Notify(t).todo = {}
  BY Zenon DEF Notify, Quiet, SigCall, SigLabels

LEMMA CancelCall ==
    ASSUME NEW t \in Tasks
    PROVE  /\ Cancel(t, "explicit") \in SigCall /\ Cancel(t, "explicit").pc = "loop"
           /\ Cancel(t, "explicit").task = None /\ Cancel(t, "explicit").todo = {t}
  BY Zenon DEF Cancel, Quiet, SigCall, SigLabels

LEMMA CloseCall ==
    ASSUME NEW why \in {"close", "drop"}
    PROVE  /\ Close(why) \in SigCall /\ Close(why).pc = "close"
           /\ Close(why).task = None /\ Close(why).todo = {}
  BY Zenon DEF Close, Quiet, SigCall, SigLabels

LEMMA NextMemberFacts ==
    ASSUME CallsSound, NEW p \in Procs, NextMember(p)
    PROVE  /\ Others(p)
           /\ \E t \in sig[p].todo :
                /\ sig'[p].todo = sig[p].todo \ {t}
                /\ \/ finished[t] /\ sig'[p].pc = "loop" /\ sig'[p].task = None
                   \/ ~finished[t] /\ sig'[p].pc = "cause" /\ sig'[p].task = t
<1>0. PICK t \in sig[p].todo :
       sig' = [sig EXCEPT ![p].todo = @ \ {t},
                          ![p].task = IF finished[t] THEN None ELSE t,
                          ![p].pc = IF finished[t] THEN "loop" ELSE "cause"]
  BY Zenon DEF NextMember
<1>1. sig \in [Procs -> SigCall] /\ sig[p] \in SigCall /\ t \in Tasks
  BY Zenon DEF CallsSound, SigCall
<1>2. CASE finished[t]
  <2> DEFINE c == [sig[p] EXCEPT !.todo = sig[p].todo \ {t}, !.task = None, !.pc = "loop"]
  <2>1. sig' = [sig EXCEPT ![p] = c]
    BY <1>0, <1>2, Zenon
  <2>2. c \in SigCall /\ c.todo = sig[p].todo \ {t} /\ c.task = None /\ c.pc = "loop"
    BY <1>1, Zenon DEF SigCall, SigLabels
  <2> HIDE DEF c
  <2>3. Others(p) /\ sig'[p] = c
    BY <1>1, <2>1, <2>2, Zenon DEF Others
  <2> QED  BY <1>2, <2>2, <2>3, Zenon
<1>3. CASE ~finished[t]
  <2> DEFINE c == [sig[p] EXCEPT !.todo = sig[p].todo \ {t}, !.task = t, !.pc = "cause"]
  <2>1. sig' = [sig EXCEPT ![p] = c]
    BY <1>0, <1>3, Zenon
  <2>2. c \in SigCall /\ c.todo = sig[p].todo \ {t} /\ c.task = t /\ c.pc = "cause"
    BY <1>1, Zenon DEF SigCall, SigLabels
  <2> HIDE DEF c
  <2>3. Others(p) /\ sig'[p] = c
    BY <1>1, <2>1, <2>2, Zenon DEF Others
  <2> QED  BY <1>3, <2>2, <2>3, Zenon
<1> QED  BY <1>2, <1>3, Zenon

LEMMA OtherCallFacts ==
    ASSUME CallsSound, gen \in Nat, members \subseteq Tasks, NEW p \in Procs
    PROVE  /\ LoadDispatcher(p) /\ ~failed =>
                /\ Others(p) /\ Same(p) /\ sig'[p].pc = "call"
                /\ sig'[p].task = sig[p].task /\ sig'[p].gen = gen
           /\ DispatchFails(p) /\ sig[p].gen = gen =>
                Others(p) /\ sig'[p].pc = "loop" /\ sig'[p].task = None /\ sig'[p].todo = members
           /\ CloseScope(p) /\ sig[p].pc # "close" =>
                /\ Others(p) /\ sig'[p].pc = "loop" /\ sig'[p].task = sig[p].task
                /\ sig'[p].todo = members
           /\ Return(p) =>
                /\ Others(p) /\ sig'[p].todo = {}
                /\ sig'[p] = Quiet \/ (sig'[p].pc = "notify" /\ sig'[p].task = None)
<1>1. sig \in [Procs -> SigCall] /\ sig[p] \in SigCall
  BY Zenon DEF CallsSound
<1>2. ASSUME LoadDispatcher(p), ~failed
      PROVE  /\ Others(p) /\ Same(p) /\ sig'[p].pc = "call"
             /\ sig'[p].task = sig[p].task /\ sig'[p].gen = gen
  <2> DEFINE c == [sig[p] EXCEPT !.pc = "call", !.gen = gen]
  <2>1. sig' = [sig EXCEPT ![p] = c]
    BY <1>2, Zenon DEF LoadDispatcher
  <2>2. /\ c \in SigCall /\ c.todo = sig[p].todo /\ c.task = sig[p].task /\ c.pc = "call" /\ c.gen = gen
        /\ c.why = sig[p].why /\ c.last = sig[p].last
    BY <1>1, Zenon DEF SigCall, SigLabels
  <2> HIDE DEF c
  <2> QED  BY <1>1, <2>1, <2>2, Zenon DEF Others, Same
<1>3. ASSUME DispatchFails(p), sig[p].gen = gen
      PROVE  Others(p) /\ sig'[p].pc = "loop" /\ sig'[p].task = None /\ sig'[p].todo = members
  <2> DEFINE c == [sig[p] EXCEPT !.todo = members, !.why = "dispatch", !.task = None, !.pc = "loop",
                                 !.gen = 0]
  <2>1. sig' = [sig EXCEPT ![p] = c]
    BY <1>3, Zenon DEF DispatchFails
  <2>2. c \in SigCall /\ c.todo = members /\ c.task = None /\ c.pc = "loop"
    BY <1>1, Zenon DEF SigCall, SigLabels
  <2> HIDE DEF c
  <2> QED  BY <1>1, <2>1, <2>2, Zenon DEF Others
<1>4. ASSUME CloseScope(p), sig[p].pc # "close"
      PROVE  /\ Others(p) /\ sig'[p].pc = "loop" /\ sig'[p].task = sig[p].task
             /\ sig'[p].todo = members
  <2> DEFINE c == [sig[p] EXCEPT !.todo = members, !.pc = "loop"]
  <2>1. sig' = [sig EXCEPT ![p] = c]
    BY <1>4, Zenon DEF CloseScope
  <2>2. c \in SigCall /\ c.todo = members /\ c.task = sig[p].task /\ c.pc = "loop"
    BY <1>1, Zenon DEF SigCall, SigLabels
  <2> HIDE DEF c
  <2> QED  BY <1>1, <2>1, <2>2, Zenon DEF Others
<1>5. ASSUME Return(p)
      PROVE  /\ Others(p) /\ sig'[p].todo = {}
             /\ sig'[p] = Quiet \/ (sig'[p].pc = "notify" /\ sig'[p].task = None)
  <2> DEFINE c == [Quiet EXCEPT !.pc = "notify"]
  <2>1. sig' = [sig EXCEPT ![p] = Quiet] \/ sig' = [sig EXCEPT ![p] = c]
    BY <1>5, Zenon DEF Return
  <2>2. c \in SigCall /\ c.todo = {} /\ c.task = None /\ c.pc = "notify"
    BY Zenon DEF Quiet, SigCall, SigLabels
  <2> HIDE DEF c
  <2> QED  BY <1>1, <2>1, <2>2, QuietCall, Zenon DEF Others
<1> QED  BY <1>2, <1>3, <1>4, <1>5, Zenon

-----------------------------------------------------------------------------
(* The shape of the state: types, calls about members, and the place of    *)
(* the runtime thread.                                                     *)

Shape == Tables /\ CallsSound /\ RtPlaces

\* One thread goes on with its call, or makes one; the table may grow.
LEMMA CallGoesOn ==
    ASSUME CallsSound, NEW p \in Procs, Others(p), members \subseteq members',
           sig'[p].pc = "none" => sig'[p] = Quiet,
           sig'[p].pc \in {"cause", "token", "owner", "mark"} => sig'[p].task # None,
           sig'[p].task # None => sig'[p].task \in members',
           sig'[p].todo \subseteq members'
    PROVE  CallsSound'
<1>1. \A q \in Procs \ {p} :
        /\ sig'[q].pc = "none" => sig'[q] = Quiet
        /\ sig'[q].pc \in {"cause", "token", "owner", "mark"} => sig'[q].task # None
        /\ sig'[q].task # None => sig'[q].task \in members'
        /\ sig'[q].todo \subseteq members'
  BY Zenon DEF CallsSound, Others
<1> QED  BY <1>1, Zenon DEF CallsSound, Others, Procs

LEMMA CallBegins ==
    ASSUME CallsSound, NEW p \in Procs, NEW c \in SigCall, Calls(p, c), members \subseteq members',
           c.pc = "none" => c = Quiet,
           c.pc \in {"cause", "token", "owner", "mark"} => c.task # None,
           c.task # None => c.task \in members',
           c.todo \subseteq members'
    PROVE  CallsSound' /\ Others(p) /\ sig'[p] = c
  BY CallGoesOn, CallsFacts, Zenon

LEMMA MarkBegins ==
    ASSUME CallsSound, NEW p \in Procs, NEW t \in Tasks, t \in members', Calls(p, Mark(t)),
           members \subseteq members'
    PROVE  CallsSound' /\ Others(p) /\ sig'[p] = Mark(t)
  BY MarkCall, CallBegins, NamesAssumption, Zenon

LEMMA NotifyBegins ==
    ASSUME CallsSound, NEW p \in Procs, NEW t \in Tasks \cup {None}, t # None => t \in members',
           Calls(p, Notify(t)), members \subseteq members'
    PROVE  CallsSound' /\ Others(p) /\ sig'[p] = Notify(t)
  BY NotifyCall, CallBegins

LEMMA CancelBegins ==
    ASSUME CallsSound, NEW p \in Procs, NEW t \in Tasks, t \in members', Calls(p, Cancel(t, "explicit")),
           members \subseteq members'
    PROVE  CallsSound' /\ Others(p)
<1>1. Cancel(t, "explicit").todo \subseteq members'
  BY CancelCall, Zenon
<1> QED  BY <1>1, CancelCall, CallBegins, Zenon

LEMMA CloseBegins ==
    ASSUME CallsSound, NEW p \in Procs, NEW why \in {"close", "drop"}, Calls(p, Close(why)),
           members \subseteq members'
    PROVE  CallsSound' /\ Others(p)
  BY CloseCall, CallBegins, Zenon

LEMMA NoCall ==
    ASSUME CallsSound, UNCHANGED sig, members \subseteq members'
    PROVE  CallsSound'
  BY Zenon DEF CallsSound, Procs

LEMMA SignallingSound ==
    ASSUME Tables, CallsSound, NEW p \in Procs, Signalling(p)
    PROVE  CallsSound' /\ Others(p)
<1>1. members' = members /\ members \subseteq Tasks /\ gen \in Nat
  BY Zenon DEF Tables, Signalling, NextMember, SetCause, SetToken, CancelExecution, MarkReady, LoadDispatcher,
         CallDispatcher, DispatchFails, CloseScope, Return
<1>2. /\ sig[p].pc \in {"cause", "token", "owner", "mark"} => sig[p].task # None
      /\ sig[p].task # None => sig[p].task \in members
      /\ sig[p].todo \subseteq members
  BY Zenon DEF CallsSound
<1>3. CASE Loop(p)
  BY <1>1, <1>2, <1>3, LoopFacts, CallGoesOn, Zenon DEF Same
<1>4. ASSUME NEW l \in {"token", "owner", "mark", "notify", "late", "members"}, Goto(p, l),
             sig[p].pc \in {"cause", "token", "owner", "mark"} \/ l \in {"late", "members"}
      PROVE  CallsSound' /\ Others(p)
  <2>1. l \in SigLabels /\ l # "none" /\ l # "cause"
    BY Zenon DEF SigLabels
  <2> QED  BY <1>1, <1>2, <1>4, <2>1, GotoFacts, CallGoesOn, Zenon DEF Same
<1>5. CASE NextMember(p)
  BY <1>1, <1>2, <1>5, NextMemberFacts, CallGoesOn, NamesAssumption, Zenon
<1>6. CASE LoadDispatcher(p) /\ ~failed
  BY <1>1, <1>2, <1>6, OtherCallFacts, CallGoesOn, Zenon DEF Same
<1>7. CASE DispatchFails(p) /\ sig[p].gen = gen
  BY <1>1, <1>7, OtherCallFacts, CallGoesOn, Zenon
<1>8. CASE CloseScope(p) /\ sig[p].pc # "close"
  BY <1>1, <1>2, <1>8, OtherCallFacts, CallGoesOn, Zenon
<1>9. CASE Return(p)
  BY <1>1, <1>9, OtherCallFacts, CallGoesOn, QuietCall, Zenon
<1>10. CASE SetCause(p) \/ SetToken(p) \/ CancelExecution(p)
  BY <1>4, <1>10, Zenon DEF SetCause, SetToken, CancelExecution
<1>11. CASE MarkReady(p)
  BY <1>3, <1>4, <1>11, Zenon DEF MarkReady
<1>12. CASE CallDispatcher(p)
  BY <1>3, <1>4, <1>12, Zenon DEF CallDispatcher
<1>13. CASE LoadDispatcher(p) /\ failed
  BY <1>3, <1>13, Zenon DEF LoadDispatcher
<1>14. CASE DispatchFails(p) /\ sig[p].gen # gen
  BY <1>3, <1>14, Zenon DEF DispatchFails
<1>15. CASE CloseScope(p) /\ sig[p].pc = "close"
  BY <1>4, <1>15, Zenon DEF CloseScope
<1> QED  BY <1>5, <1>6, <1>7, <1>8, <1>9, <1>10, <1>11, <1>12, <1>13, <1>14, <1>15, Zenon DEF Signalling

LEMMA SignallingShape ==
    ASSUME Shape, NEW p \in Procs, Signalling(p)
    PROVE  Shape'
<1> USE DEF Shape
<1>1. UNCHANGED <<state, members, finished, gen, local>>
  BY Zenon DEF Signalling, NextMember, SetCause, SetToken, CancelExecution, MarkReady, LoadDispatcher,
         CallDispatcher, DispatchFails, CloseScope, Return, signal, dispatch
<1>2. sig[p].pc \in {"token", "owner", "mark"} => sig[p].task \in Tasks /\ sig[p].task \in members
  BY Zenon DEF CallsSound, Tables
<1>3. /\ ready' \in [Tasks -> BOOLEAN] /\ \A t \in Tasks \ members : ready'[t] = ready[t]
  <2>1. UNCHANGED ready \/ (sig[p].pc = "mark" /\ ready' = [ready EXCEPT ![sig[p].task] = TRUE])
    BY Zenon DEF Signalling, NextMember, SetCause, SetToken, CancelExecution, MarkReady, LoadDispatcher,
         CallDispatcher, DispatchFails, CloseScope, Return, signal
  <2> QED  BY <1>2, <2>1, Zenon DEF Tables
<1>4. token' \in [Tasks -> BOOLEAN]
  <2>1. UNCHANGED token \/ (sig[p].pc = "token" /\ token' = [token EXCEPT ![sig[p].task] = TRUE])
    BY Zenon DEF Signalling, NextMember, SetCause, SetToken, CancelExecution, MarkReady, LoadDispatcher,
         CallDispatcher, DispatchFails, CloseScope, Return, signal
  <2> QED  BY <1>2, <2>1, Zenon DEF Tables
<1>5. oready' \in [Tasks -> BOOLEAN]
  <2>1. UNCHANGED oready \/ (sig[p].pc = "owner" /\ oready' = [oready EXCEPT ![sig[p].task] = TRUE])
    BY Zenon DEF Signalling, NextMember, SetCause, SetToken, CancelExecution, MarkReady, LoadDispatcher,
         CallDispatcher, DispatchFails, CloseScope, Return, signal
  <2> QED  BY <1>2, <2>1, Zenon DEF Tables
<1>6. Tables'
  BY <1>1, <1>3, <1>4, <1>5, Zenon DEF Tables
<1>7. RtPlaces'
  BY <1>1, Zenon DEF RtPlaces, Driven, local
<1> QED  BY <1>6, <1>7, SignallingSound, Zenon

\* One task changes its state.
LEMMA StateUpdate ==
    ASSUME Tables, NEW t \in Tasks, NEW x \in States, x # "fresh", state' = [state EXCEPT ![t] = x]
    PROVE  /\ state' \in [Tasks -> States] /\ state'[t] = x
           /\ \A u \in Tasks \ {t} : state'[u] = state[u]
           /\ {u \in Tasks : state'[u] # "fresh"} = members \cup {t}
  BY Zenon DEF Tables

\* The tables when one member changes its state and flags of members change.
LEMMA TablesKept ==
    ASSUME Tables, NEW t \in members, NEW x \in States, x # "fresh", state' = [state EXCEPT ![t] = x],
           UNCHANGED <<members, gen>>,
           ready' \in [Tasks -> BOOLEAN], finished' \in [Tasks -> BOOLEAN],
           token' \in [Tasks -> BOOLEAN], oready' \in [Tasks -> BOOLEAN],
           \A u \in Tasks \ {t} : ready'[u] = ready[u] /\ finished'[u] = finished[u]
    PROVE  Tables'
<1>1. t \in Tasks /\ members \cup {t} = members
  BY Zenon DEF Tables
<1>2. state' \in [Tasks -> States] /\ {u \in Tasks : state'[u] # "fresh"} = members
  BY <1>1, StateUpdate, Zenon
<1> QED  BY <1>1, <1>2, Zenon DEF Tables

\* A task is admitted: checked, attached and checked again.
LEMMA SpawnShape ==
    ASSUME Shape, (\E t \in Tasks : SpawnCheck(t)) \/ SpawnAttach \/ SpawnRecheck
    PROVE  Shape'
<1> USE DEF Shape
<1>1. ASSUME NEW t \in Tasks, SpawnCheck(t) PROVE Shape'
  <2>1. Tables' /\ CallsSound'
    BY <1>1, NoCall, Zenon DEF SpawnCheck, Tables, signal, dispatch
  <2>2. RtPlaces'
    BY <1>1, Zenon DEF SpawnCheck, RtAt, RtPlaces, Driven, signal
  <2> QED  BY <2>1, <2>2, Zenon
<1>2. CASE SpawnAttach
  <2>1. /\ born \in Tasks /\ state[born] = "fresh" /\ state' = [state EXCEPT ![born] = "Admitting"]
        /\ members' = members \cup {born} /\ UNCHANGED <<signal, gen>> /\ Calls(Rt, Mark(born))
        /\ rpc = "attach" /\ rpc' = "recheck" /\ UNCHANGED <<cur, res, born, back, batch>>
    BY <1>2, Zenon DEF SpawnAttach, RtAt, RtPlaces, dispatch
  <2>2. /\ state' \in [Tasks -> States] /\ state'[born] = "Admitting"
        /\ \A u \in Tasks \ {born} : state'[u] = state[u]
        /\ {u \in Tasks : state'[u] # "fresh"} = members \cup {born}
    BY <2>1, StateUpdate, Zenon DEF States
  <2>3. Tables'
    BY <2>1, <2>2, Zenon DEF Tables, signal
  <2>4. CallsSound'
    BY <2>1, MarkBegins, Zenon DEF Procs
  <2>5. RtPlaces'
    <3>1. born \notin members /\ ~finished[born]
      BY <2>1, Zenon DEF Tables
    <3> QED  BY <2>1, <2>2, <3>1, Zenon DEF RtPlaces, Driven, signal
  <2> QED  BY <2>3, <2>4, <2>5, Zenon
<1>3. CASE SpawnRecheck
  <2>1. /\ born \in Tasks /\ state[born] = "Admitting" /\ born \in members
        /\ UNCHANGED <<ready, cause, token, oready, sig, gen, members, cur, batch>>
        /\ rpc = "recheck" /\ rpc' = back /\ back' = "idle" /\ back \in {"idle", "run"}
    BY <1>3 DEF SpawnRecheck, RtAt, RtPlaces, Tables, dispatch
  <2>2. \/ finished' = [finished EXCEPT ![born] = TRUE] /\ state' = [state EXCEPT ![born] = "gone"]
        \/ UNCHANGED finished /\ state' = [state EXCEPT ![born] = "Queued"]
    BY <1>3, Zenon DEF SpawnRecheck
  <2>3. /\ finished' \in [Tasks -> BOOLEAN] /\ \A u \in Tasks \ {born} : finished'[u] = finished[u]
    BY <2>1, <2>2, Zenon DEF Tables
  <2>4. Tables' /\ CallsSound'
    BY <2>1, <2>2, <2>3, TablesKept, NoCall, Zenon DEF Tables, States
  <2>5. RtPlaces'
    <3>1. /\ \A u \in Tasks \ {born} : state'[u] = state[u]
          /\ state'[born] = "gone" \/ (state'[born] = "Queued" /\ finished'[born] = finished[born])
      BY <2>1, <2>2, StateUpdate, Zenon DEF States
    <3> QED  BY <2>1, <2>3, <3>1, Zenon DEF RtPlaces, Driven
  <2> QED  BY <2>4, <2>5, Zenon
<1> QED  BY <1>1, <1>2, <1>3, Zenon

\* A ready task is acquired and its execution started or taken up again.
LEMMA ActivateShape ==
    ASSUME Shape,
           \/ \E t \in Tasks : Acquire(t)
           \/ StartQueued \/ SetWaker \/ ClearReady \/ AcquireOwned \/ SliceStart \/ Complete
    PROVE  Shape'
<1> USE DEF Shape
<1>1. ASSUME NEW t \in Tasks, Acquire(t) PROVE Shape'
  <2>1. /\ t \in members /\ state' = [state EXCEPT ![t] = "Driving"] /\ ready' = [ready EXCEPT ![t] = FALSE]
        /\ UNCHANGED <<members, finished, token, oready, gen, sig, born, back, batch>>
        /\ state[t] \in {"Queued", "Owned"} /\ rpc = "idle" /\ cur' = t /\ rpc' \in {"start", "owned"}
    BY <1>1, Zenon DEF Acquire, RtAt, Tables
  <2>2. ready' \in [Tasks -> BOOLEAN] /\ \A u \in Tasks \ {t} : ready'[u] = ready[u]
    BY <2>1, Zenon DEF Tables
  <2>3. Tables' /\ CallsSound'
    BY <2>1, <2>2, TablesKept, NoCall, Zenon DEF Tables, States
  <2>4. state'[t] = "Driving" /\ \A u \in Tasks \ {t} : state'[u] = state[u]
    BY <2>1, StateUpdate, Zenon DEF States
  <2>5. RtPlaces'
    BY <2>1, <2>4, Zenon DEF RtPlaces, Driven
  <2> QED  BY <2>3, <2>5, Zenon
<1>2. ASSUME StartQueued \/ ClearReady \/ AcquireOwned \/ SliceStart \/ Complete PROVE Shape'
  <2>1. /\ rpc \in {"start", "clear", "owned", "slice", "run"}
        /\ rpc' \in {"waker", "slice", "run", "publish"}
        /\ UNCHANGED <<state, members, finished, token, gen, sig, born, cur, back, batch>>
    BY <1>2, Zenon DEF StartQueued, ClearReady, AcquireOwned, SliceStart, Complete, Publish, RtAt, signal, dispatch
  <2>2. cur \in Tasks /\ cur \in members /\ back # "run" /\ back # "drain"
    BY <2>1, Zenon DEF RtPlaces, Driven, Tables
  <2>3. \E x \in BOOLEAN : oready' = oready \/ oready' = [oready EXCEPT ![cur] = x]
    BY <1>2, Zenon DEF StartQueued, ClearReady, AcquireOwned, SliceStart, Complete, signal
  <2>4. ready' = ready \/ ready' = [ready EXCEPT ![cur] = FALSE]
    BY <1>2, Zenon DEF StartQueued, ClearReady, AcquireOwned, SliceStart, Complete, signal
  <2>5. oready' \in [Tasks -> BOOLEAN]
    BY <2>2, <2>3, Zenon DEF Tables
  <2>6. ready' \in [Tasks -> BOOLEAN] /\ \A u \in Tasks \ {cur} : ready'[u] = ready[u]
    BY <2>2, <2>4, Zenon DEF Tables
  <2>7. Tables' /\ CallsSound'
    BY <2>1, <2>2, <2>5, <2>6, NoCall, Zenon DEF Tables
  <2>8. RtPlaces'
    BY <2>1, <2>2, Zenon DEF RtPlaces, Driven
  <2> QED  BY <2>7, <2>8, Zenon
<1>3. CASE SetWaker
  <2>1. /\ rpc = "waker" /\ rpc' = "clear" /\ Calls(Rt, Mark(cur))
        /\ UNCHANGED <<state, members, signal, gen, born, cur, back, batch>>
    BY <1>3, Zenon DEF SetWaker, RtAt, dispatch
  <2>2. cur \in Tasks /\ cur \in members
    BY <2>1, Zenon DEF RtPlaces, Driven, Tables
  <2>3. Tables' /\ CallsSound'
    <3>1. CallsSound'
      BY <2>1, <2>2, MarkBegins, Zenon DEF Procs
    <3> QED  BY <2>1, <3>1, Zenon DEF Tables, signal
  <2>4. RtPlaces'
    BY <2>1, Zenon DEF RtPlaces, Driven, signal
  <2> QED  BY <2>3, <2>4, Zenon
<1> QED  BY <1>1, <1>2, <1>3, Zenon

\* An activation ends: the execution parks, is dropped, or its outcome is stored.
LEMMA EndShape ==
    ASSUME Shape, Park \/ DropActivation \/ StoreFinished \/ StoreTerminal \/ RetireManaged
    PROVE  Shape'
<1> USE DEF Shape
<1>1. cur \in Tasks /\ cur \in members
  BY Zenon DEF Park, DropActivation, Yield, StoreFinished, StoreTerminal, RetireManaged, RtAt, RtPlaces, Driven,
         Tables
<1>2. CASE Park \/ DropActivation
  <2>1. PICK c \in {Quiet, Mark(cur), Cancel(cur, "explicit")} : Yield(c)
    BY <1>2, Zenon DEF Park, DropActivation
  <2>2. /\ rpc = "run" /\ rpc' = "idle" /\ state' = [state EXCEPT ![cur] = "Owned"] /\ Calls(Rt, c)
        /\ UNCHANGED <<members, signal, gen, born, back, batch>>
    BY <2>1, Zenon DEF Yield, RtAt, dispatch
  <2>3. CallsSound'
    <3>1. CASE c = Mark(cur)
      BY <1>1, <2>2, <3>1, MarkBegins, Zenon DEF Procs
    <3>2. CASE c = Cancel(cur, "explicit")
      BY <1>1, <2>2, <3>2, CancelBegins, Zenon DEF Procs
    <3>3. CASE c = Quiet
      BY <2>2, <3>3, QuietCall, CallBegins, Zenon DEF Procs
    <3> QED  BY <3>1, <3>2, <3>3, Zenon
  <2>4. Tables'
    BY <1>1, <2>2, TablesKept, Zenon DEF Tables, States, signal
  <2>5. state'[cur] = "Owned" /\ \A u \in Tasks \ {cur} : state'[u] = state[u]
    BY <1>1, <2>2, StateUpdate, Zenon DEF States
  <2>6. RtPlaces'
    BY <1>1, <2>2, <2>5, Zenon DEF RtPlaces, Driven, signal
  <2> QED  BY <2>3, <2>4, <2>6, Zenon
<1>3. CASE StoreFinished
  <2>1. /\ rpc = "publish" /\ rpc' = "store" /\ finished' = [finished EXCEPT ![cur] = TRUE]
        /\ UNCHANGED <<state, members, ready, token, oready, sig, gen, born, cur, back, batch>>
    BY <1>3, Zenon DEF StoreFinished, RtAt, dispatch
  <2>2. finished' \in [Tasks -> BOOLEAN] /\ \A u \in Tasks \ {cur} : finished'[u] = finished[u]
    BY <1>1, <2>1, Zenon DEF Tables
  <2>3. Tables' /\ CallsSound'
    BY <1>1, <2>1, <2>2, NoCall, Zenon DEF Tables
  <2>4. RtPlaces'
    BY <1>1, <2>1, <2>2, Zenon DEF RtPlaces, Driven
  <2> QED  BY <2>3, <2>4, Zenon
<1>4. CASE StoreTerminal
  <2>1. /\ rpc = "store" /\ rpc' = "retire" /\ ready' = [ready EXCEPT ![cur] = TRUE]
        /\ state' = [state EXCEPT ![cur] = "Terminal"] /\ Calls(Rt, Notify(cur))
        /\ UNCHANGED <<members, finished, token, oready, gen, born, cur, back, batch>>
    BY <1>4, Zenon DEF StoreTerminal, RtAt, dispatch
  <2>2. ready' \in [Tasks -> BOOLEAN] /\ \A u \in Tasks \ {cur} : ready'[u] = ready[u]
    BY <1>1, <2>1, Zenon DEF Tables
  <2>3. CallsSound'
    BY <1>1, <2>1, NotifyBegins, Zenon DEF Procs
  <2>4. Tables'
    BY <1>1, <2>1, <2>2, TablesKept, Zenon DEF Tables, States
  <2>5. state'[cur] = "Terminal" /\ \A u \in Tasks \ {cur} : state'[u] = state[u]
    BY <1>1, <2>1, StateUpdate, Zenon DEF States
  <2>6. RtPlaces'
    BY <1>1, <2>1, <2>5, Zenon DEF RtPlaces, Driven
  <2> QED  BY <2>3, <2>4, <2>6, Zenon
<1>5. CASE RetireManaged
  <2>1. /\ rpc = "retire" /\ rpc' = back /\ UNCHANGED <<members, signal, sig, gen, born, back, batch>>
        /\ state' = [state EXCEPT ![cur] = "gone"] \/ UNCHANGED state
    BY <1>5, Zenon DEF RetireManaged, RtAt, dispatch
  <2>2. CallsSound'
    BY <2>1, NoCall, Zenon
  <2>3. CASE UNCHANGED state
    BY <2>1, <2>2, <2>3, Zenon DEF Tables, RtPlaces, Driven, signal
  <2>4. CASE state' = [state EXCEPT ![cur] = "gone"]
    <3>1. Tables'
      BY <1>1, <2>1, <2>4, TablesKept, Zenon DEF Tables, States, signal
    <3>2. state'[cur] = "gone" /\ \A u \in Tasks \ {cur} : state'[u] = state[u]
      BY <1>1, <2>4, StateUpdate, Zenon DEF States
    <3> QED  BY <1>1, <2>1, <2>2, <3>1, <3>2, Zenon DEF RtPlaces, Driven, signal
  <2> QED  BY <2>1, <2>3, <2>4, Zenon
<1> QED  BY <1>2, <1>3, <1>4, <1>5, Zenon

\* The drain of cancelled tasks, the end of a turn, the owner's and the host's calls.
LEMMA HostShape ==
    ASSUME Shape,
           \/ DrainBegin \/ DrainNext \/ DrainEnd \/ EndTurn
           \/ \E t \in Tasks : TakeReport(t) \/ CancelTask(t)
           \/ OwnerClose \/ OwnerDrop \/ Replace \/ ListReady \/ Replay
    PROVE  Shape'
<1> USE DEF Shape
<1>1. CASE DrainBegin
  <2>1. /\ rpc = "idle" /\ rpc' = "drain" /\ back' = "drain"
        /\ UNCHANGED <<state, members, signal, sig, gen, born, cur>>
        /\ \A t \in batch' : t \in Tasks /\ state[t] \in {"Queued", "Owned"}
    BY <1>1, Zenon DEF DrainBegin, RtAt, dispatch
  <2> QED  BY <2>1, NoCall, Zenon DEF Tables, RtPlaces, Driven, signal
<1>2. CASE DrainNext
  <2>1. PICK t \in batch : /\ state' = [state EXCEPT ![t] = "Driving"]
                           /\ cur' = t /\ batch' = batch \ {t}
    BY <1>2, Zenon DEF DrainNext
  <2>2. /\ rpc = "drain" /\ rpc' = "publish" /\ UNCHANGED <<members, signal, sig, gen, born, back>>
        /\ t \in Tasks /\ state[t] \in {"Queued", "Owned"} /\ t \in members
    BY <1>2, Zenon DEF DrainNext, Publish, RtAt, RtPlaces, Tables, dispatch
  <2>3. Tables' /\ CallsSound'
    BY <2>1, <2>2, TablesKept, NoCall, Zenon DEF Tables, States, signal
  <2>4. state'[t] = "Driving" /\ \A u \in Tasks \ {t} : state'[u] = state[u]
    BY <2>1, <2>2, StateUpdate, Zenon DEF States
  <2>5. RtPlaces'
    BY <2>1, <2>2, <2>4, Zenon DEF RtPlaces, Driven, signal
  <2> QED  BY <2>3, <2>5, Zenon
<1>3. CASE DrainEnd \/ EndTurn
  <2>1. /\ rpc \in {"drain", "idle"} /\ rpc' = "idle" /\ (back' = "idle" \/ (back' = back /\ rpc = "idle"))
        /\ UNCHANGED <<members, signal, sig, gen, born, cur, batch>> /\ Settle
    BY <1>3, Zenon DEF DrainEnd, EndTurn, RtAt, dispatch, local
  <2>2. /\ state' \in [Tasks -> States]
        /\ \A t \in Tasks : state'[t] = state[t] \/ (state'[t] = "gone" /\ state[t] # "fresh")
    BY <2>1, Zenon DEF Settle, Records, Tables, States
  <2>3. Tables' /\ CallsSound'
    BY <2>1, <2>2, NoCall, Zenon DEF Tables, signal
  <2>4. RtPlaces'
    BY <2>1, <2>2, Zenon DEF RtPlaces, Driven, signal
  <2> QED  BY <2>3, <2>4, Zenon
<1>4. ASSUME NEW t \in Tasks, TakeReport(t) PROVE Shape'
  <2>1. /\ rpc = "idle" /\ state[t] = "Terminal" /\ t \in members /\ state' = [state EXCEPT ![t] = "gone"]
        /\ UNCHANGED <<members, signal, sig, gen, local>>
    BY <1>4, Zenon DEF TakeReport, RtAt, Tables, dispatch
  <2>2. Tables' /\ CallsSound'
    BY <2>1, TablesKept, NoCall, Zenon DEF Tables, States, signal
  <2>3. state'[t] = "gone" /\ \A u \in Tasks \ {t} : state'[u] = state[u]
    BY <2>1, StateUpdate, Zenon DEF States
  <2>4. RtPlaces'
    BY <2>1, <2>3, Zenon DEF RtPlaces, Driven, signal, local
  <2> QED  BY <2>2, <2>4, Zenon
<1>5. ASSUME NEW t \in Tasks, CancelTask(t) PROVE Shape'
  <2>1. t \in members /\ UNCHANGED <<state, members, signal, gen, local>> /\ Calls(Rt, Cancel(t, "explicit"))
    BY <1>5, Zenon DEF CancelTask, Live, Tables, dispatch
  <2>2. CallsSound'
    BY <2>1, CancelBegins, Zenon DEF Procs
  <2> QED  BY <2>1, <2>2, Zenon DEF Tables, RtPlaces, Driven, signal, local
<1>6. CASE OwnerClose \/ OwnerDrop
  <2>1. UNCHANGED <<state, members, signal, gen, local>> /\ \E why \in {"close", "drop"} : Calls(Rt, Close(why))
    BY <1>6, Zenon DEF OwnerClose, OwnerDrop, dispatch
  <2>2. CallsSound'
    BY <2>1, CloseBegins, Zenon DEF Procs
  <2> QED  BY <2>1, <2>2, Zenon DEF Tables, RtPlaces, Driven, signal, local
<1>7. CASE Replace
  <2>1. /\ rpc = "idle" /\ rpc' = "list" /\ gen' = gen + 1
        /\ UNCHANGED <<state, members, signal, sig, born, cur, back, batch>>
    BY <1>7, Zenon DEF Replace, RtAt
  <2>2. Tables' /\ CallsSound'
    BY <2>1, NoCall DEF Tables, signal
  <2> QED  BY <2>1, <2>2, Zenon DEF RtPlaces, Driven, signal
<1>8. CASE ListReady
  <2>1. /\ rpc = "list" /\ rpc' = "replay" /\ Calls(Rt, Notify(None))
        /\ UNCHANGED <<state, members, signal, gen, born, cur, back>>
    BY <1>8, Zenon DEF ListReady, RtAt, dispatch
  <2>2. CallsSound'
    BY <2>1, NotifyBegins, Zenon DEF Procs
  <2>3. batch' \subseteq members'
    BY <1>8, <2>1, Zenon DEF ListReady
  <2> QED  BY <2>1, <2>2, <2>3, Zenon DEF Tables, RtPlaces, Driven, signal
<1>9. CASE Replay
  <2>1. rpc = "replay" /\ UNCHANGED <<state, members, signal, gen, born, cur, back>>
    BY <1>9, Zenon DEF Replay, RtAt, dispatch
  <2>2. \/ rpc' = "idle" /\ batch' = {} /\ UNCHANGED sig
        \/ rpc' = rpc /\ batch' \subseteq batch /\ \E t \in batch : Calls(Rt, Notify(t))
    BY <1>9, Zenon DEF Replay
  <2>3. batch \subseteq members /\ members \subseteq Tasks
    BY <2>1, Zenon DEF RtPlaces, Tables
  <2>4. CallsSound'
    <3>1. CASE UNCHANGED sig
      BY <2>1, <3>1, NoCall, Zenon
    <3>2. ASSUME NEW t \in batch, Calls(Rt, Notify(t)) PROVE CallsSound'
      BY <2>1, <2>3, <3>2, NotifyBegins, Zenon DEF Procs
    <3> QED  BY <2>2, <3>1, <3>2, Zenon
  <2> QED  BY <2>1, <2>2, <2>3, <2>4, Zenon DEF Tables, RtPlaces, Driven, signal
<1> QED  BY <1>1, <1>2, <1>3, <1>4, <1>5, <1>6, <1>7, <1>8, <1>9, Zenon

\* A scope's token fires, an execution is woken, and what concerns no task.
LEMMA OutsideShape ==
    ASSUME Shape,
           \/ \E p \in Threads : TokenFires(p) \/ \E t \in Tasks : WakeExecution(p, t)
           \/ TakeEvent \/ Quarantine \/ UNCHANGED vars
    PROVE  Shape'
<1> USE DEF Shape
<1>1. ASSUME NEW p \in Threads, TokenFires(p) PROVE Shape'
  <2>1. UNCHANGED <<state, members, signal, gen, local>> /\ Calls(p, Close("close"))
    BY <1>1, Zenon DEF TokenFires, dispatch
  <2>2. CallsSound'
    BY <2>1, CloseBegins, Zenon DEF Procs
  <2> QED  BY <2>1, <2>2, Zenon DEF Tables, RtPlaces, Driven, signal, local
<1>2. ASSUME NEW p \in Threads, NEW t \in Tasks, WakeExecution(p, t) PROVE Shape'
  <2>1. /\ UNCHANGED <<state, members, ready, finished, token, gen, local>>
        /\ oready' = [oready EXCEPT ![t] = TRUE] /\ t \in members
        /\ UNCHANGED sig \/ Calls(p, Mark(t))
    BY <1>2, Zenon DEF WakeExecution, dispatch, Tables
  <2>2. CallsSound'
    <3>1. CASE UNCHANGED sig
      BY <2>1, <3>1, NoCall, Zenon
    <3>2. CASE Calls(p, Mark(t))
      BY <2>1, <3>2, MarkBegins, Zenon DEF Procs
    <3> QED  BY <2>1, <3>1, <3>2, Zenon
  <2> QED  BY <2>1, <2>2, Zenon DEF Tables, RtPlaces, Driven, local
<1>3. CASE TakeEvent \/ Quarantine \/ UNCHANGED vars
  <2>1. UNCHANGED <<state, members, signal, gen, local, sig>>
    BY <1>3, Zenon DEF TakeEvent, Quarantine, vars, dispatch
  <2> QED  BY <2>1, NoCall, Zenon DEF Tables, RtPlaces, Driven, signal, local
<1> QED  BY <1>1, <1>2, <1>3, Zenon

\* The steps of the runtime thread outside the signalling calls it makes.
RtTurn ==
  \/ RtStep
  \/ \E t \in Tasks : SpawnCheck(t) \/ Acquire(t) \/ TakeReport(t) \/ CancelTask(t)
  \/ Complete \/ Park \/ DropActivation
  \/ TakeEvent \/ DrainBegin \/ EndTurn
  \/ OwnerClose \/ OwnerDrop \/ Replace \/ Quarantine

\* It takes them between two calls, and begins at most one.
LEMMA RtCalls ==
    ASSUME Shape, RtTurn
    PROVE  sig[Rt].pc = "none" /\ Others(Rt)
<1> USE DEF Shape
<1>1. sig[Rt].pc = "none"
  BY Zenon DEF RtTurn, RtStep, SpawnCheck, Acquire, TakeReport, CancelTask, Complete, Park, DropActivation, Yield,
         TakeEvent, DrainBegin, EndTurn, OwnerClose, OwnerDrop, Replace, Quarantine, SpawnAttach,
         SpawnRecheck, StartQueued, SetWaker, ClearReady, AcquireOwned, SliceStart, StoreFinished,
         StoreTerminal, RetireManaged, DrainNext, DrainEnd, ListReady, Replay, RtAt
<1>2. UNCHANGED sig => Others(Rt)
  BY Zenon DEF CallsSound, Others
<1>3. ASSUME NEW c \in SigCall, Calls(Rt, c) PROVE Others(Rt)
  BY <1>3, CallsFacts, Zenon DEF Procs
<1>4. CASE SpawnAttach \/ SetWaker \/ Park \/ DropActivation \/ StoreTerminal
  <2>1. /\ SpawnAttach => born \in Tasks
        /\ SetWaker \/ Park \/ DropActivation \/ StoreTerminal => cur \in Tasks
    BY Zenon DEF SpawnAttach, SetWaker, Park, DropActivation, Yield, StoreTerminal, RtAt, RtPlaces, Driven
  <2>2. \/ born \in Tasks /\ Calls(Rt, Mark(born))
        \/ /\ cur \in Tasks
           /\ Calls(Rt, Quiet) \/ Calls(Rt, Mark(cur)) \/ Calls(Rt, Cancel(cur, "explicit"))
                \/ Calls(Rt, Notify(cur))
    BY <1>4, <2>1, Zenon DEF SpawnAttach, SetWaker, Park, DropActivation, Yield, StoreTerminal
  <2>3. /\ \A t \in Tasks : {Quiet, Mark(t), Cancel(t, "explicit"), Notify(t)} \subseteq SigCall
    BY QuietCall, MarkCall, CancelCall, NotifyCall
  <2> QED  BY <1>1, <2>2, <2>3, <1>3, Zenon
<1>5. ASSUME NEW t \in Tasks, CancelTask(t) PROVE Others(Rt)
  BY <1>3, <1>5, CancelCall, Zenon DEF CancelTask
<1>6. CASE OwnerClose \/ OwnerDrop \/ ListReady
  <2>1. {Close("close"), Close("drop"), Notify(None)} \subseteq SigCall
    BY CloseCall, NotifyCall, Zenon
  <2>2. Calls(Rt, Close("close")) \/ Calls(Rt, Close("drop")) \/ Calls(Rt, Notify(None))
    BY <1>6, Zenon DEF OwnerClose, OwnerDrop, ListReady
  <2> QED  BY <1>1, <1>3, <2>1, <2>2, Zenon
<1>7. CASE Replay
  <2>1. UNCHANGED sig \/ \E t \in Tasks : Calls(Rt, Notify(t))
    BY <1>7, Zenon DEF Replay, RtAt, RtPlaces, Tables
  <2>2. \A t \in Tasks : Notify(t) \in SigCall
    BY NotifyCall, Zenon
  <2> QED  BY <1>1, <2>1, <2>2, <1>2, <1>3, Zenon
<1>8. CASE \/ SpawnRecheck \/ StartQueued \/ ClearReady \/ AcquireOwned \/ SliceStart \/ StoreFinished
           \/ RetireManaged \/ DrainNext \/ DrainEnd \/ Complete \/ TakeEvent \/ DrainBegin \/ EndTurn
           \/ Replace \/ Quarantine \/ \E t \in Tasks : SpawnCheck(t) \/ Acquire(t) \/ TakeReport(t)
  <2>1. UNCHANGED sig
    BY <1>8, Zenon DEF SpawnCheck, Acquire, TakeReport, Complete, TakeEvent, DrainBegin, EndTurn, Replace,
         Quarantine, SpawnRecheck, StartQueued, ClearReady, AcquireOwned, SliceStart, StoreFinished,
         RetireManaged, DrainNext, DrainEnd
  <2> QED  BY <1>1, <1>2, <2>1, Zenon
<1> QED  BY <1>1, <1>4, <1>5, <1>6, <1>7, <1>8, Zenon DEF RtTurn, RtStep

-----------------------------------------------------------------------------
(* No wake is lost.                                                        *)

\* A step outside the calls in progress, in which t is not woken.
LEMMA WakeFrame ==
    ASSUME CallsSound, NEW t \in Tasks, WakeKept(t), NEW p \in Procs, sig[p].pc = "none", Others(p),
           ready[t] => ready'[t], token'[t] => token[t], oready'[t] => oready[t],
           state'[t] \in {"Admitting", "Queued"} => state[t] \in {"Admitting", "Queued"},
           Asleep(t)' => Asleep(t)
    PROVE  WakeKept(t)'
<1>1. \A q \in Procs : sig[q].pc # "none" => sig'[q] = sig[q]
  BY Zenon DEF Others
<1>2. Marking(t) => Marking(t)'
  BY <1>1, Zenon DEF Marking
<1>3. sig[Rt].pc = "mark" => sig'[Rt] = sig[Rt]
  BY <1>1, Zenon DEF Procs
<1> QED  BY <1>2, <1>3, Zenon DEF WakeKept

LEMMA WakeSignalling ==
    ASSUME Shape, NEW p \in Procs, Signalling(p), NEW t \in Tasks, WakeKept(t)
    PROVE  WakeKept(t)'
<1> USE DEF Shape
<1>1. UNCHANGED <<state, finished, local>>
  BY Zenon DEF Signalling, NextMember, SetCause, SetToken, CancelExecution, MarkReady, LoadDispatcher,
         CallDispatcher, DispatchFails, CloseScope, Return, signal
<1>2. /\ Asleep(t)' <=> Asleep(t)
      /\ Asleep(t) \/ state[t] \in {"Admitting", "Queued"} => ~finished[t]
  BY <1>1, Zenon DEF Asleep, local, RtPlaces, Driven
<1>3. Others(p) /\ CallsSound'
  BY SignallingSound, Zenon
<1>4. ASSUME sig[p].task # t \/ sig[p].pc \notin {"token", "owner", "mark"} PROVE WakeKept(t)'
  <2>1. ready'[t] = ready[t] /\ token'[t] = token[t] /\ oready'[t] = oready[t]
    BY <1>4, Zenon DEF Signalling, NextMember, SetCause, SetToken, CancelExecution, MarkReady, LoadDispatcher,
         CallDispatcher, DispatchFails, CloseScope, Return, signal, Tables
  <2>2. Marking(t) => Marking(t)'
    BY <1>3, <1>4, Zenon DEF Marking, Others
  <2>3. sig[Rt].pc = "mark" /\ sig[Rt].task = t => sig'[Rt] = sig[Rt]
    BY <1>3, <1>4, Zenon DEF Others, Procs
  <2> QED  BY <1>1, <1>2, <2>1, <2>2, <2>3, Zenon DEF WakeKept
<1>5. ASSUME sig[p].task = t, sig[p].pc \in {"token", "owner"} PROVE WakeKept(t)'
  <2>1. SetToken(p) \/ CancelExecution(p)
    BY <1>5, Zenon DEF Signalling, NextMember, SetCause, SetToken, CancelExecution, MarkReady, LoadDispatcher,
         CallDispatcher, DispatchFails, CloseScope, Return
  <2>2. sig'[p].task = t /\ sig'[p].pc \in {"owner", "mark"} /\ UNCHANGED ready
    BY <1>5, <2>1, GotoFacts, Zenon DEF SetToken, CancelExecution, SigLabels
  <2>3. Marking(t)'
    BY <2>2, Zenon DEF Marking
  <2>4. sig[Rt].pc = "mark" => sig'[Rt] = sig[Rt]
    BY <1>3, <1>5, Zenon DEF Others, Procs
  <2> QED  BY <1>1, <2>2, <2>3, <2>4, Zenon DEF WakeKept
<1>6. ASSUME sig[p].task = t, sig[p].pc = "mark" PROVE WakeKept(t)'
  <2>1. MarkReady(p)
    BY <1>6, Zenon DEF Signalling, NextMember, SetCause, SetToken, CancelExecution, MarkReady, LoadDispatcher,
         CallDispatcher, DispatchFails, CloseScope, Return
  <2>2. ~finished[t] => ready'[t]
    BY <1>6, <2>1, Zenon DEF MarkReady, Tables
  <2> QED  BY <1>1, <1>2, <2>2, Zenon DEF WakeKept
<1> QED  BY <1>4, <1>5, <1>6, Zenon

\* The runtime thread wakes nobody, except that it starts a slice only after
\* it has consumed the readiness of the execution.
LEMMA WakeTurn ==
    ASSUME Shape, RtTurn, NEW t \in Tasks, WakeKept(t)
    PROVE  WakeKept(t)'
<1> USE DEF Shape
<1>1. sig[Rt].pc = "none" /\ Others(Rt) /\ Rt \in Procs
  BY RtCalls, Zenon DEF Procs
<1>2. ASSUME UNCHANGED signal,
             state'[t] \in {"Admitting", "Queued"} => state[t] \in {"Admitting", "Queued"},
             Asleep(t)' => Asleep(t)
      PROVE  WakeKept(t)'
  BY <1>1, <1>2, WakeFrame, Zenon DEF signal
<1>3. ASSUME NEW u \in Tasks, SpawnCheck(u) PROVE WakeKept(t)'
  BY <1>2, <1>3, Zenon DEF SpawnCheck, RtAt, Asleep, RtPlaces
<1>4. CASE SpawnAttach
  <2>1. /\ born \in Tasks /\ state' = [state EXCEPT ![born] = "Admitting"] /\ Calls(Rt, Mark(born))
        /\ rpc = "attach" /\ rpc' = "recheck" /\ UNCHANGED <<signal, cur, back>> /\ (born # cur \/ ~Driven)
        /\ state[born] = "fresh"
    BY <1>4, Zenon DEF SpawnAttach, RtAt, RtPlaces
  <2>2. state'[born] = "Admitting" /\ \A u \in Tasks \ {born} : state'[u] = state[u]
    BY <2>1, StateUpdate, Zenon DEF States
  <2>3. CASE t = born
    <3>1. sig'[Rt].pc = "mark" /\ sig'[Rt].task = t
      <4>1. Mark(born) \in SigCall /\ Mark(born).pc = "mark" /\ Mark(born).task = born
        BY <2>1, MarkCall, Zenon
      <4>2. sig'[Rt] = Mark(born)
        BY <1>1, <2>1, <4>1, CallsFacts, Zenon
      <4> QED  BY <2>3, <4>1, <4>2, Zenon
    <3>2. back = "run" => cur # born
      BY <2>1, Zenon DEF Driven
    <3>3. ~Asleep(t)'
      BY <2>1, <2>2, <2>3, <3>2, Zenon DEF Asleep
    <3> QED  BY <3>1, <3>3, Zenon DEF WakeKept
  <2>4. CASE t # born
    <3>1. state'[t] = state[t] /\ (Asleep(t)' => Asleep(t))
      BY <2>1, <2>2, <2>4, Zenon DEF Asleep
    <3> QED  BY <1>2, <2>1, <3>1, Zenon
  <2> QED  BY <2>3, <2>4, Zenon
<1>5. CASE SpawnRecheck
  <2>1. /\ born \in Tasks /\ UNCHANGED <<ready, token, oready, sig, cur>>
        /\ rpc = "recheck" /\ rpc' = back /\ back' = "idle" /\ back \in {"idle", "run"}
        /\ state[born] = "Admitting"
    BY <1>5, Zenon DEF SpawnRecheck, RtAt, RtPlaces
  <2>2. \/ state' = [state EXCEPT ![born] = "gone"]
        \/ state' = [state EXCEPT ![born] = "Queued"]
    BY <1>5, Zenon DEF SpawnRecheck
  <2>3. \A u \in Tasks : state'[u] = state[u] \/ (u = born /\ state'[u] \in {"gone", "Queued"})
    BY <2>1, <2>2, StateUpdate, Zenon DEF States
  <2>4. Asleep(t)' => Asleep(t)
    BY <2>1, <2>3, Zenon DEF Asleep
  <2> QED  BY <1>1, <2>1, <2>3, <2>4, WakeFrame, Zenon
<1>6. CASE StartQueued \/ ClearReady
  <2>1. /\ cur \in Tasks /\ state[cur] = "Driving" /\ UNCHANGED state /\ rpc' \in {"publish", "waker", "slice"}
        /\ ready' = [ready EXCEPT ![cur] = FALSE] \/ UNCHANGED ready
        /\ oready' = [oready EXCEPT ![cur] = TRUE] \/ UNCHANGED oready
        /\ UNCHANGED <<token, cur>>
    BY <1>6, Zenon DEF StartQueued, ClearReady, Publish, RtAt, RtPlaces, Driven
  <2>2. ~Asleep(cur)' /\ (Asleep(t)' => Asleep(t))
    BY <2>1, Zenon DEF Asleep
  <2>3. CASE t = cur
    BY <2>1, <2>2, <2>3, Zenon DEF WakeKept
  <2>4. t # cur => ready'[t] = ready[t] /\ oready'[t] = oready[t]
    BY <2>1, Zenon DEF Tables
  <2>5. CASE t # cur
    BY <1>1, <2>1, <2>2, <2>4, <2>5, WakeFrame, Zenon
  <2> QED  BY <2>3, <2>5, Zenon
<1>7. CASE SliceStart
  <2>1. /\ cur \in Tasks /\ state[cur] = "Driving" /\ UNCHANGED <<state, ready, token, cur, sig>>
        /\ oready' = [oready EXCEPT ![cur] = FALSE]
        /\ rpc' = "publish" \/ (token[cur] => \E p \in Procs : sig[p].pc = "owner" /\ sig[p].task = cur)
        /\ rpc' \in {"publish", "run"} /\ rpc = "slice"
    BY <1>7, Zenon DEF SliceStart, Publish, RtAt, RtPlaces, Driven
  <2>2. CASE t = cur
    <3>1. ~oready'[t] /\ state'[t] = "Driving"
      BY <2>1, <2>2, Zenon DEF Tables
    <3>2. CASE rpc' = "publish"
      BY <2>2, <3>1, <3>2, Zenon DEF WakeKept, Asleep
    <3>3. CASE token[cur] => \E p \in Procs : sig[p].pc = "owner" /\ sig[p].task = cur
      <4>1. token'[t] => Marking(t)'
        BY <2>1, <2>2, <3>3, Zenon DEF Marking
      <4> QED  BY <3>1, <4>1, Zenon DEF WakeKept
    <3> QED  BY <2>1, <3>2, <3>3, Zenon
  <2>3. CASE t # cur
    <3>1. oready'[t] = oready[t] /\ (Asleep(t)' => Asleep(t))
      BY <2>1, <2>3, Zenon DEF Tables, Asleep
    <3> QED  BY <1>1, <2>1, <3>1, WakeFrame, Zenon
  <2> QED  BY <2>2, <2>3, Zenon
<1>8. ASSUME NEW u \in Tasks, Acquire(u) PROVE WakeKept(t)'
  <2>1. /\ state' = [state EXCEPT ![u] = "Driving"] /\ ready' = [ready EXCEPT ![u] = FALSE]
        /\ UNCHANGED <<token, oready>> /\ rpc = "idle" /\ rpc' \in {"start", "owned"}
    BY <1>8, Zenon DEF Acquire, RtAt
  <2>2. state'[u] = "Driving" /\ \A v \in Tasks \ {u} : state'[v] = state[v] /\ ready'[v] = ready[v]
    BY <2>1, Zenon DEF Tables
  <2>3. CASE t = u
    BY <2>1, <2>2, <2>3, Zenon DEF WakeKept, Asleep
  <2>4. CASE t # u
    <3>1. Asleep(t)' => Asleep(t)
      BY <2>1, <2>2, <2>4, Zenon DEF Asleep
    <3> QED  BY <1>1, <2>1, <2>2, <2>4, <3>1, WakeFrame, Zenon
  <2> QED  BY <2>3, <2>4, Zenon
<1>9. CASE Park \/ DropActivation
  <2>1. /\ cur \in Tasks /\ state' = [state EXCEPT ![cur] = "Owned"] /\ UNCHANGED signal
        /\ rpc = "run" /\ rpc' = "idle"
    BY <1>9, Zenon DEF Park, DropActivation, Yield, RtAt, RtPlaces, Driven
  <2>2. state'[cur] = "Owned" /\ \A u \in Tasks \ {cur} : state'[u] = state[u]
    BY <2>1, StateUpdate, Zenon DEF States
  <2>3. Asleep(t)' => Asleep(t)
    BY <2>1, <2>2, Zenon DEF Asleep
  <2>4. state'[t] \in {"Admitting", "Queued"} => state'[t] = state[t]
    BY <2>2, Zenon
  <2> QED  BY <1>2, <2>1, <2>3, <2>4, Zenon
<1>10. CASE StoreFinished \/ StoreTerminal
  <2>1. /\ cur \in Tasks
        /\ state' = [state EXCEPT ![cur] = "Terminal"] \/ UNCHANGED state
        /\ ready' = [ready EXCEPT ![cur] = TRUE] \/ UNCHANGED ready
        /\ UNCHANGED <<token, oready>> /\ rpc' \in {"store", "retire"}
    BY <1>10, Zenon DEF StoreFinished, StoreTerminal, RtAt, RtPlaces, Driven
  <2>2. state'[t] = state[t] \/ state'[t] = "Terminal"
    BY <2>1, Zenon DEF Tables
  <2>3. ready[t] => ready'[t]
    BY <2>1, Zenon DEF Tables
  <2>4. Asleep(t)' => Asleep(t)
    BY <2>1, <2>2, Zenon DEF Asleep
  <2> QED  BY <1>1, <2>1, <2>2, <2>3, <2>4, WakeFrame, Zenon
<1>11. CASE RetireManaged \/ DrainNext \/ DrainEnd \/ EndTurn \/ \E u \in Tasks : TakeReport(u)
  <2>1. UNCHANGED signal /\ rpc' \notin {"run", "attach", "recheck"}
    BY <1>11, Zenon DEF RetireManaged, DrainNext, DrainEnd, EndTurn, TakeReport, Publish, RtAt, RtPlaces, local
  <2>2. state'[t] = state[t] \/ state'[t] \in {"Driving", "gone"}
    BY <1>11, Zenon DEF RetireManaged, DrainNext, DrainEnd, EndTurn, TakeReport, Settle, Tables
  <2>3. Asleep(t)' => Asleep(t)
    BY <2>1, <2>2, Zenon DEF Asleep
  <2> QED  BY <1>2, <2>1, <2>2, <2>3, Zenon
<1>12. CASE \/ SetWaker \/ AcquireOwned \/ Complete \/ DrainBegin \/ OwnerClose \/ OwnerDrop \/ Replace
            \/ ListReady \/ Replay \/ TakeEvent \/ Quarantine \/ \E u \in Tasks : CancelTask(u)
  <2>1. /\ UNCHANGED <<state, signal, cur>>
        /\ UNCHANGED back \/ DrainBegin
        /\ rpc' = rpc \/ rpc' \notin {"run", "attach", "recheck"}
    BY <1>12, Zenon DEF SetWaker, AcquireOwned, Complete, DrainBegin, OwnerClose, OwnerDrop, Replace, ListReady,
                 Replay, TakeEvent, Quarantine, CancelTask, Publish, local
  <2>2. DrainBegin => rpc' = "drain"
    BY Zenon DEF DrainBegin
  <2>3. Asleep(t)' => Asleep(t)
    BY <2>1, <2>2, Zenon DEF Asleep
  <2> QED  BY <1>2, <2>1, <2>3, Zenon
<1> QED  BY <1>3, <1>4, <1>5, <1>6, <1>7, <1>8, <1>9, <1>10, <1>11, <1>12, Zenon DEF RtTurn, RtStep

\* Other threads: a wake is passed on unless one is on its way.
LEMMA WakeOutside ==
    ASSUME Shape, NEW t \in Tasks, WakeKept(t),
           \/ \E p \in Threads : TokenFires(p) \/ \E u \in Tasks : WakeExecution(p, u)
           \/ UNCHANGED vars
    PROVE  WakeKept(t)'
<1> USE DEF Shape
<1>1. ASSUME NEW p \in Threads, TokenFires(p) PROVE WakeKept(t)'
  <2>1. UNCHANGED <<state, signal, local>> /\ Calls(p, Close("close")) /\ sig[p].pc = "none" /\ p \in Procs
    BY <1>1, Zenon DEF TokenFires, Procs
  <2>2. Others(p)
    BY <2>1, CallsFacts, CloseCall, Zenon
  <2> QED  BY <2>1, <2>2, WakeFrame, Zenon DEF signal, local, Asleep
<1>2. ASSUME NEW p \in Threads, NEW u \in Tasks, WakeExecution(p, u) PROVE WakeKept(t)'
  <2>1. /\ UNCHANGED <<state, ready, token, local>> /\ oready' = [oready EXCEPT ![u] = TRUE]
        /\ sig[p].pc = "none" /\ p \in Procs
        /\ IF oready[u] THEN UNCHANGED sig ELSE Calls(p, Mark(u))
    BY <1>2, Zenon DEF WakeExecution, Procs
  <2>2. Others(p) /\ (~oready[u] => sig'[p] = Mark(u))
    <3>1. UNCHANGED sig => Others(p)
      BY Zenon DEF Others, CallsSound
    <3>2. Mark(u) \in SigCall
      BY MarkCall, Zenon
    <3> QED  BY <2>1, <3>1, <3>2, CallsFacts, Zenon
  <2>3. Asleep(t)' = Asleep(t)
    BY <2>1, Zenon DEF Asleep, local
  <2>4. CASE t # u \/ oready[u]
    <3>1. oready'[t] => oready[t]
      BY <2>1, <2>4, Zenon DEF Tables
    <3> QED  BY <2>1, <2>2, <2>3, <3>1, WakeFrame, Zenon
  <2>5. CASE t = u /\ ~oready[u]
    <3>1. Marking(t)'
      BY <2>1, <2>2, <2>5, MarkCall DEF Marking
    <3>2. sig[Rt].pc = "mark" => sig'[Rt] = sig[Rt]
      BY <2>1, <2>2, Zenon DEF Others, Procs
    <3> QED  BY <2>1, <3>1, <3>2, Zenon DEF WakeKept
  <2> QED  BY <2>4, <2>5, Zenon
<1>3. CASE UNCHANGED vars
  BY <1>3, Zenon DEF vars, signal, local, WakeKept, Asleep, Marking
<1> QED  BY <1>1, <1>2, <1>3, Zenon

-----------------------------------------------------------------------------
(* The dispatcher in place is told.                                        *)

\* A step outside the calls in progress and outside a replacement, which
\* makes t neither a record nor ready.
LEMMA NoticeFrame ==
    ASSUME NEW t \in Tasks, NoticeKept(t), NEW p \in Procs, sig[p].pc = "none", Others(p),
           UNCHANGED <<failed, gen>>, t \in told => t \in told', rpc \notin {"list", "replay"},
           ready'[t] => ready[t], t \in Records' => t \in Records
    PROVE  NoticeKept(t)'
<1>1. Noticing(t) => Noticing(t)'
  BY Zenon DEF Noticing, Others
<1> QED  BY <1>1, Zenon DEF NoticeKept

LEMMA NoticeSignalling ==
    ASSUME Shape, NEW p \in Procs, Signalling(p), NEW t \in Tasks, NoticeKept(t)
    PROVE  NoticeKept(t)'
<1> USE DEF Shape
<1>1. UNCHANGED <<state, finished, local, gen>> /\ told \subseteq told'
  BY Zenon DEF Signalling, NextMember, SetCause, SetToken, CancelExecution, MarkReady, LoadDispatcher,
         CallDispatcher, DispatchFails, CloseScope, Return, signal, dispatch
<1>2. Others(p) /\ CallsSound' /\ Records' = Records
  BY <1>1, SignallingSound, Zenon DEF Records
<1>3. ASSUME UNCHANGED failed, ready'[t] => ready[t],
             sig[p].task # t \/ sig[p].pc \notin {"notify", "call", "late"}
      PROVE  NoticeKept(t)'
  <2>1. Noticing(t) => Noticing(t)'
    BY <1>1, <1>2, <1>3, Zenon DEF Noticing, Others
  <2> QED  BY <1>1, <1>2, <1>3, <2>1, Zenon DEF NoticeKept, local
<1>4. CASE NextMember(p) \/ SetCause(p) \/ SetToken(p) \/ CancelExecution(p) \/ CloseScope(p) \/ Return(p)
  <2>1. UNCHANGED <<ready, failed>> /\ sig[p].pc \notin {"notify", "call", "late"}
    BY <1>4, Zenon DEF NextMember, SetCause, SetToken, CancelExecution, CloseScope, Return, signal, dispatch
  <2> QED  BY <1>3, <2>1, Zenon
<1>5. CASE MarkReady(p)
  <2>1. UNCHANGED failed /\ sig[p].pc = "mark" /\ sig[p].task \in Tasks
    BY <1>5, Zenon DEF MarkReady, dispatch, CallsSound, Tables
  <2>2. CASE ready'[t] => ready[t]
    BY <1>3, <2>1, <2>2, Zenon
  <2>3. CASE ready'[t] /\ ~ready[t]
    <3>1. sig[p].task = t /\ Goto(p, "notify")
      BY <1>5, <2>1, <2>3, Zenon DEF MarkReady, Tables
    <3>2. Noticing(t)'
      BY <3>1, GotoFacts, Zenon DEF Noticing, SigLabels
    <3> QED  BY <3>2, Zenon DEF NoticeKept
  <2> QED  BY <2>2, <2>3, Zenon
<1>6. CASE LoadDispatcher(p) \/ CallDispatcher(p) \/ DispatchFails(p)
  <2>1. UNCHANGED ready /\ sig[p].pc \in {"notify", "call", "late"} /\ (failed => failed')
    BY <1>6, Zenon DEF LoadDispatcher, CallDispatcher, DispatchFails, signal, dispatch
  <2>2. CASE failed'
    BY <2>2, Zenon DEF NoticeKept
  <2>3. CASE ~failed' /\ sig[p].task # t
    BY <1>3, <1>6, <2>1, <2>3, Zenon DEF LoadDispatcher, CallDispatcher, DispatchFails, dispatch
  <2>4. CASE ~failed' /\ sig[p].task = t
    <3>1. ~failed /\ t # None
      BY <2>1, <2>4, NamesAssumption, Zenon
    <3>2. CASE LoadDispatcher(p)
      <4>1. Noticing(t)'
        BY <1>1, <2>4, <3>1, <3>2, OtherCallFacts, Zenon DEF Noticing, Tables
      <4> QED  BY <4>1, Zenon DEF NoticeKept
    <3>3. CASE CallDispatcher(p) /\ sig[p].gen = gen
      <4>1. t \in told' \/ Goto(p, "late")
        BY <2>4, <3>1, <3>3, Zenon DEF CallDispatcher
      <4>2. Goto(p, "late") => Noticing(t)'
        BY <1>1, <2>4, <3>3, GotoFacts, Zenon DEF Noticing, SigLabels
      <4> QED  BY <4>1, <4>2, Zenon DEF NoticeKept
    <3>4. CASE (CallDispatcher(p) /\ sig[p].gen # gen) \/ DispatchFails(p)
      <4>1. sig[p].pc \in {"call", "late"} /\ sig[p].gen # gen
        BY <2>4, <3>4, Zenon DEF CallDispatcher, DispatchFails
      <4>2. Noticing(t) => Noticing(t)'
        BY <1>1, <1>2, <4>1, Zenon DEF Noticing, Others
      <4> QED  BY <1>1, <1>2, <2>1, <3>1, <4>2, Zenon DEF NoticeKept, local
    <3> QED  BY <1>6, <3>2, <3>3, <3>4, Zenon
  <2> QED  BY <2>2, <2>3, <2>4, Zenon
<1> QED  BY <1>4, <1>5, <1>6, Zenon DEF Signalling

\* The runtime thread: what it consumes is not ready any more, what it makes
\* ready it tells, and a new dispatcher gets a replay.
LEMMA NoticeTurn ==
    ASSUME Shape, RtTurn, NEW t \in Tasks, NoticeKept(t)
    PROVE  NoticeKept(t)'
<1> USE DEF Shape
<1>1. sig[Rt].pc = "none" /\ Others(Rt) /\ Rt \in Procs
  BY RtCalls, Zenon DEF Procs
<1>2. ASSUME UNCHANGED <<failed, gen>>, t \in told => t \in told', rpc \notin {"list", "replay"},
             ready'[t] => ready[t], t \in Records' => t \in Records
      PROVE  NoticeKept(t)'
  BY <1>1, <1>2, NoticeFrame, Zenon
<1>3. CASE SpawnAttach
  <2>1. /\ born \in Tasks /\ state[born] = "fresh" /\ state' = [state EXCEPT ![born] = "Admitting"]
        /\ UNCHANGED <<signal, dispatch>> /\ rpc = "attach"
    BY <1>3, Zenon DEF SpawnAttach, RtAt, RtPlaces
  <2>2. CASE t = born
    <3>1. ~ready'[t]
      BY <2>1, <2>2, Zenon DEF Tables, signal
    <3> QED  BY <3>1, Zenon DEF NoticeKept
  <2>3. CASE t # born
    <3>1. state'[t] = state[t]
      BY <2>1, <2>3, Zenon DEF Tables
    <3> QED  BY <1>2, <2>1, <3>1, Zenon DEF signal, dispatch, Records
  <2> QED  BY <2>2, <2>3, Zenon
<1>4. ASSUME NEW u \in Tasks, Acquire(u) PROVE NoticeKept(t)'
  <2>1. /\ state' = [state EXCEPT ![u] = "Driving"] /\ ready' = [ready EXCEPT ![u] = FALSE]
        /\ told' = told \ {u} /\ UNCHANGED <<failed, gen>> /\ rpc = "idle"
    BY <1>4, Zenon DEF Acquire, RtAt
  <2>2. CASE t = u
    <3>1. ~ready'[t]
      BY <2>1, <2>2, Zenon DEF Tables
    <3> QED  BY <3>1, Zenon DEF NoticeKept
  <2>3. CASE t # u
    <3>1. state'[t] = state[t] /\ ready'[t] = ready[t]
      BY <2>1, <2>3, Zenon DEF Tables
    <3> QED  BY <1>2, <2>1, <2>3, <3>1, Zenon DEF Records
  <2> QED  BY <2>2, <2>3, Zenon
<1>5. CASE ClearReady
  <2>1. /\ cur \in Tasks /\ ready' = [ready EXCEPT ![cur] = FALSE]
        /\ told' = told \ {cur} /\ UNCHANGED <<state, failed, gen>> /\ rpc = "clear"
    BY <1>5, Zenon DEF ClearReady, RtAt, RtPlaces, Driven
  <2>2. CASE t = cur
    <3>1. ~ready'[t]
      BY <2>1, <2>2, Zenon DEF Tables
    <3> QED  BY <3>1, Zenon DEF NoticeKept
  <2>3. CASE t # cur
    <3>1. ready'[t] = ready[t]
      BY <2>1, <2>3, Zenon DEF Tables
    <3> QED  BY <1>2, <2>1, <2>3, <3>1, Zenon DEF Records
  <2> QED  BY <2>2, <2>3, Zenon
<1>6. CASE StoreTerminal
  <2>1. /\ cur \in Tasks /\ ready' = [ready EXCEPT ![cur] = TRUE] /\ Calls(Rt, Notify(cur))
        /\ state' = [state EXCEPT ![cur] = "Terminal"] /\ UNCHANGED dispatch /\ rpc = "store"
    BY <1>6, Zenon DEF StoreTerminal, RtAt, RtPlaces, Driven
  <2>2. CASE t = cur
    <3>1. Notify(t) \in SigCall /\ Notify(t).pc = "notify" /\ Notify(t).task = t
      BY NotifyCall, Zenon
    <3>2. Noticing(t)'
      BY <1>1, <2>1, <2>2, <3>1, CallsFacts, Zenon DEF Noticing
    <3> QED  BY <3>2, Zenon DEF NoticeKept
  <2>3. CASE t # cur
    <3>1. state'[t] = state[t] /\ ready'[t] = ready[t]
      BY <2>1, <2>3, Zenon DEF Tables
    <3> QED  BY <1>2, <2>1, <2>3, <3>1, Zenon DEF Records, dispatch
  <2> QED  BY <2>2, <2>3, Zenon
<1>7. CASE Replace
  BY <1>7, Zenon DEF Replace, NoticeKept
<1>8. CASE ListReady
  <2>1. /\ rpc' = "replay" /\ batch' = {u \in members : ready[u] /\ u \in Records}
        /\ UNCHANGED <<state, ready>>
    BY <1>8, Zenon DEF ListReady, signal
  <2>2. t \in Records' /\ ready'[t] => t \in batch'
    BY <2>1, Zenon DEF Records, Tables
  <2> QED  BY <2>1, <2>2, Zenon DEF NoticeKept
<1>9. CASE Replay
  <2>1. /\ rpc = "replay" /\ UNCHANGED <<state, ready, failed, gen, told>>
        /\ \/ failed \/ (batch = {} /\ UNCHANGED sig)
           \/ rpc' = rpc /\ \E u \in batch : batch' = batch \ {u} /\ Calls(Rt, Notify(u))
    BY <1>9, Zenon DEF Replay, RtAt, signal, dispatch
  <2>2. Records' = Records
    BY <2>1, Zenon DEF Records
  <2>3. Noticing(t) => Noticing(t)'
    BY <1>1, <2>1, Zenon DEF Noticing, Others
  <2>4. CASE failed \/ (batch = {} /\ UNCHANGED sig)
    BY <2>1, <2>2, <2>3, <2>4, Zenon DEF NoticeKept
  <2>5. CASE rpc' = rpc /\ \E u \in batch : batch' = batch \ {u} /\ Calls(Rt, Notify(u))
    <3>1. PICK u \in batch : batch' = batch \ {u} /\ Calls(Rt, Notify(u))
      BY <2>5, Zenon
    <3>2. CASE t = u
      <4>1. Notify(t) \in SigCall /\ Notify(t).pc = "notify" /\ Notify(t).task = t
        BY NotifyCall, Zenon
      <4>2. Noticing(t)'
        BY <1>1, <3>1, <3>2, <4>1, CallsFacts, Zenon DEF Noticing
      <4> QED  BY <4>2, Zenon DEF NoticeKept
    <3>3. CASE t # u
      <4>1. t \in batch => t \in batch'
        BY <3>1, <3>3, Zenon
      <4> QED  BY <2>1, <2>2, <2>3, <2>5, <4>1, Zenon DEF NoticeKept
    <3> QED  BY <3>2, <3>3, Zenon
  <2> QED  BY <2>1, <2>4, <2>5, Zenon
<1>10. CASE \/ SpawnRecheck \/ Park \/ DropActivation \/ RetireManaged \/ DrainNext \/ DrainEnd \/ EndTurn
            \/ \E u \in Tasks : TakeReport(u)
  <2>1. rpc \notin {"list", "replay"} /\ UNCHANGED <<ready, failed, gen, told>>
    BY <1>10, Zenon DEF SpawnRecheck, Park, DropActivation, Yield, RetireManaged, DrainNext, DrainEnd, EndTurn,
                 TakeReport, RtAt, signal, dispatch
  <2>2. t \in Records' => t \in Records
    <3>1. CASE SpawnRecheck
      BY <3>1, Zenon DEF SpawnRecheck, RtAt, RtPlaces, Records, Tables
    <3>2. CASE Park \/ DropActivation
      BY <3>2, Zenon DEF Park, DropActivation, Yield, RtAt, RtPlaces, Driven, Records, Tables
    <3>3. CASE RetireManaged \/ \E u \in Tasks : TakeReport(u)
      BY <3>3, Zenon DEF RetireManaged, TakeReport, Records, Tables
    <3>4. CASE DrainNext
      BY <3>4, Zenon DEF DrainNext, RtAt, RtPlaces, Records, Tables
    <3>5. CASE DrainEnd \/ EndTurn
      BY <3>5, Zenon DEF DrainEnd, EndTurn, Settle, Records, Tables
    <3> QED  BY <1>10, <3>1, <3>2, <3>3, <3>4, <3>5, Zenon
  <2> QED  BY <1>2, <2>1, <2>2, Zenon
<1>11. CASE \/ StartQueued \/ SetWaker \/ AcquireOwned \/ SliceStart \/ StoreFinished \/ Complete
            \/ TakeEvent \/ DrainBegin \/ OwnerClose \/ OwnerDrop \/ Quarantine
            \/ \E u \in Tasks : SpawnCheck(u) \/ CancelTask(u)
  <2>1. rpc \notin {"list", "replay"} /\ UNCHANGED <<state, ready, failed, gen, told>>
    BY <1>11, Zenon DEF StartQueued, SetWaker, AcquireOwned, SliceStart, StoreFinished, Complete, TakeEvent,
                 DrainBegin, OwnerClose, OwnerDrop, Quarantine, SpawnCheck, CancelTask, RtAt, signal, dispatch
  <2> QED  BY <1>2, <2>1, Zenon DEF Records
<1> QED  BY <1>3, <1>4, <1>5, <1>6, <1>7, <1>8, <1>9, <1>10, <1>11, Zenon DEF RtTurn, RtStep

-----------------------------------------------------------------------------
(* A close, or the failure of the dispatcher, reaches every member.        *)

\* A step outside the calls in progress, which admits nobody.
LEMMA CloseFrame ==
    ASSUME CallsSound, NEW t \in Tasks, CloseKept(t), NEW p \in Procs, sig[p].pc = "none", Others(p),
           UNCHANGED members, closing' /\ ~quarantined' => closing, failed' => failed,
           quarantined => quarantined', token[t] => token'[t], finished[t] => finished'[t],
           state[t] = "Admitting" => state'[t] = "Admitting"
    PROVE  CloseKept(t)'
<1>1. sig[p].todo = {}
  BY QuietCall, Zenon DEF CallsSound
<1>2. Cancelling(t) => Cancelling(t)'
  BY <1>1, Zenon DEF Cancelling, Others
<1> QED  BY <1>2, Zenon DEF CloseKept

LEMMA CloseSignalling ==
    ASSUME Shape, NEW p \in Procs, Signalling(p), NEW t \in Tasks, CloseKept(t)
    PROVE  CloseKept(t)'
<1> USE DEF Shape
<1>1. UNCHANGED <<state, members, finished, quarantined>> /\ members \subseteq Tasks /\ gen \in Nat
  BY Zenon DEF Signalling, NextMember, SetCause, SetToken, CancelExecution, MarkReady, LoadDispatcher,
         CallDispatcher, DispatchFails, CloseScope, Return, signal, diagnostics, Tables
<1>2. Others(p) /\ CallsSound'
  BY SignallingSound, Zenon
<1>3. token[t] => token'[t]
  BY Zenon DEF Signalling, NextMember, SetCause, SetToken, CancelExecution, MarkReady, LoadDispatcher,
         CallDispatcher, DispatchFails, CloseScope, Return, signal, Tables
<1>4. ASSUME sig'[p].pc = "members" \/ (t \in members => t \in sig'[p].todo)
      PROVE  CloseKept(t)'
  <2>1. t \in members => Cancelling(t)'
    BY <1>4, Zenon DEF Cancelling
  <2> QED  BY <1>1, <2>1, Zenon DEF CloseKept
<1>5. CASE CloseScope(p) \/ (DispatchFails(p) /\ sig[p].gen = gen)
  <2>1. CASE CloseScope(p) /\ sig[p].pc = "close"
    BY <1>4, <2>1, GotoFacts, Zenon DEF CloseScope, SigLabels
  <2>2. CASE CloseScope(p) /\ sig[p].pc # "close"
    BY <1>1, <1>4, <2>2, OtherCallFacts, Zenon
  <2>3. CASE DispatchFails(p) /\ sig[p].gen = gen
    BY <1>1, <1>4, <2>3, OtherCallFacts, Zenon
  <2> QED  BY <1>5, <2>1, <2>2, <2>3, Zenon
<1>6. ASSUME UNCHANGED <<closing, failed>>,
             ~finished[t] /\ (\/ sig[p].pc = "members" \/ t \in sig[p].todo
                              \/ sig[p].task = t /\ sig[p].pc \in {"cause", "token"})
               => token'[t] \/ Cancelling(t)'
      PROVE  CloseKept(t)'
  <2>1. Cancelling(t) /\ ~finished[t] => token'[t] \/ Cancelling(t)'
    BY <1>2, <1>6, Zenon DEF Cancelling, Others
  <2> QED  BY <1>1, <1>3, <1>6, <2>1, Zenon DEF CloseKept
<1>7. CASE NextMember(p)
  <2>1. UNCHANGED <<closing, failed>> /\ sig[p].pc = "loop"
    BY <1>7, Zenon DEF NextMember, scope, dispatch
  <2>2. ~finished[t] /\ t \in sig[p].todo =>
          t \in sig'[p].todo \/ (sig'[p].pc = "cause" /\ sig'[p].task = t)
    BY <1>7, NextMemberFacts, Zenon
  <2>3. ~finished[t] /\ t \in sig[p].todo => Cancelling(t)'
    BY <2>2, Zenon DEF Cancelling
  <2> QED  BY <1>6, <2>1, <2>3, Zenon
<1>8. CASE SetCause(p)
  <2>1. /\ UNCHANGED <<closing, failed>> /\ sig[p].pc = "cause" /\ sig'[p].pc = "token"
        /\ sig'[p].task = sig[p].task /\ sig'[p].todo = sig[p].todo
    BY <1>8, GotoFacts, Zenon DEF SetCause, scope, dispatch, SigLabels, Same
  <2>2. t \in sig[p].todo \/ sig[p].task = t => Cancelling(t)'
    BY <2>1, Zenon DEF Cancelling
  <2> QED  BY <1>6, <2>1, <2>2, Zenon
<1>9. CASE SetToken(p)
  <2>1. /\ UNCHANGED <<closing, failed>> /\ sig[p].pc = "token" /\ sig'[p].todo = sig[p].todo
    BY <1>9, GotoFacts, Zenon DEF SetToken, scope, dispatch, SigLabels, Same
  <2>2. sig[p].task = t => token'[t]
    BY <1>9, Zenon DEF SetToken, Tables
  <2>3. t \in sig[p].todo => Cancelling(t)'
    BY <2>1, Zenon DEF Cancelling
  <2> QED  BY <1>6, <2>1, <2>2, <2>3, Zenon
<1>10. CASE \/ CancelExecution(p) \/ MarkReady(p) \/ LoadDispatcher(p) \/ CallDispatcher(p)
            \/ (DispatchFails(p) /\ sig[p].gen # gen)
  <2>1. /\ UNCHANGED <<closing, failed>> /\ sig[p].pc \notin {"members", "cause", "token"}
        /\ \/ Loop(p) \/ \E l \in {"mark", "notify", "late"} : Goto(p, l)
           \/ (LoadDispatcher(p) /\ ~failed)
    BY <1>10, Zenon DEF CancelExecution, MarkReady, LoadDispatcher, CallDispatcher, DispatchFails, scope, dispatch
  <2>2. sig'[p].todo = sig[p].todo
    <3>1. CASE Loop(p)
      BY <3>1, LoopFacts, Zenon DEF Same
    <3>2. ASSUME NEW l \in {"mark", "notify", "late"}, Goto(p, l) PROVE sig'[p].todo = sig[p].todo
      BY <3>2, GotoFacts, Zenon DEF Same, SigLabels
    <3>3. CASE LoadDispatcher(p) /\ ~failed
      BY <1>1, <3>3, OtherCallFacts, Zenon DEF Same
    <3> QED  BY <2>1, <3>1, <3>2, <3>3, Zenon
  <2>3. t \in sig[p].todo => Cancelling(t)'
    BY <2>2, Zenon DEF Cancelling
  <2> QED  BY <1>6, <2>1, <2>3, Zenon
<1>11. CASE Return(p)
  <2>1. UNCHANGED <<closing, failed>> /\ sig[p].pc = "loop" /\ sig[p].todo = {}
    BY <1>11, Zenon DEF Return, scope, dispatch
  <2> QED  BY <1>6, <2>1, Zenon
<1> QED  BY <1>5, <1>7, <1>8, <1>9, <1>10, <1>11, Zenon DEF Signalling

\* What the runtime thread leaves alone, unless it admits a task.
LEMMA RtRecheck ==
    ASSUME RtTurn, rpc = "recheck"
    PROVE  SpawnRecheck
  BY Zenon DEF RtTurn, RtStep, SpawnCheck, Acquire, TakeReport, CancelTask, SpawnAttach, RetireManaged,
         DrainBegin, Quarantine, Complete, Park, DropActivation, Yield, TakeEvent, EndTurn, OwnerClose,
         OwnerDrop, Replace, RtAt, StartQueued, SetWaker, ClearReady, AcquireOwned, SliceStart,
         StoreFinished, StoreTerminal, DrainNext, DrainEnd, ListReady, Replay

LEMMA RtFrame ==
    ASSUME Shape, RtTurn, rpc # "recheck", ~SpawnAttach, NEW t \in Tasks
    PROVE  /\ UNCHANGED <<members, token>>
           /\ finished[t] => finished'[t]
           /\ failed' => failed
           /\ closing' /\ ~quarantined' => closing
           /\ quarantined => quarantined'
<1>1. CASE DrainBegin
  BY <1>1, Zenon DEF DrainBegin, signal, dispatch, diagnostics
<1>2. CASE RetireManaged
  BY <1>2, Zenon DEF RetireManaged, signal, scope, dispatch, diagnostics
<1>3. CASE Quarantine
  BY <1>3, Zenon DEF Quarantine, signal, scope, dispatch
<1>4. CASE StoreFinished
  BY <1>4, Zenon DEF StoreFinished, scope, dispatch, diagnostics, Shape, Tables
<1>5. CASE ~DrainBegin /\ ~RetireManaged /\ ~Quarantine /\ ~StoreFinished
  <2> USE <1>5
      DEF  RtTurn, RtStep, SpawnCheck, Acquire, TakeReport, CancelTask, SpawnRecheck,
           Complete, Park, DropActivation, Yield, TakeEvent, EndTurn, OwnerClose,
           OwnerDrop, Replace, RtAt, StartQueued, SetWaker, ClearReady, AcquireOwned, SliceStart,
           StoreFinished, StoreTerminal, DrainNext, DrainEnd, ListReady, Replay
  <2>1. UNCHANGED members
    BY Zenon
  <2>2. UNCHANGED <<token, finished>>
    BY Zenon DEF signal
  <2>3. failed' => failed
    BY Zenon DEF dispatch
  <2>4. UNCHANGED closing
    BY Zenon DEF scope
  <2>5. UNCHANGED quarantined
    BY Zenon DEF diagnostics
  <2> QED  BY ONLY <2>1, <2>2, <2>3, <2>4, <2>5, Zenon
<1> QED  BY <1>1, <1>2, <1>3, <1>4, <1>5, Zenon

\* The runtime thread: a task is admitted before the scope is looked at again,
\* and given up when that finds it closing or without its dispatcher.
LEMMA CloseTurn ==
    ASSUME Shape, RtTurn, NEW t \in Tasks, CloseKept(t)
    PROVE  CloseKept(t)'
<1> USE DEF Shape
<1>1. sig[Rt].pc = "none" /\ Others(Rt) /\ Rt \in Procs
  BY RtCalls, Zenon DEF Procs
<1>2. ASSUME UNCHANGED members, closing' /\ ~quarantined' => closing, failed' => failed,
             quarantined => quarantined', token[t] => token'[t], finished[t] => finished'[t],
             state[t] = "Admitting" => state'[t] = "Admitting"
      PROVE  CloseKept(t)'
  BY <1>1, <1>2, CloseFrame, Zenon
<1>3. CASE SpawnAttach
  <2>1. /\ born \in Tasks /\ state' = [state EXCEPT ![born] = "Admitting"]
        /\ UNCHANGED <<closing, failed, quarantined, token, finished>> /\ members' = members \cup {born}
    BY <1>3, Zenon DEF SpawnAttach, RtAt, RtPlaces, scope, dispatch, diagnostics, signal
  <2>2. CASE t = born
    <3>1. state'[t] = "Admitting"
      BY <2>1, <2>2, Zenon DEF Tables
    <3> QED  BY <3>1, Zenon DEF CloseKept
  <2>3. CASE t # born
    <3>1. state'[t] = state[t] /\ (t \in members' <=> t \in members)
      BY <2>1, <2>3, Zenon DEF Tables
    <3>2. sig[Rt].todo = {}
      BY <1>1, QuietCall, Zenon DEF CallsSound
    <3>3. Cancelling(t) => Cancelling(t)'
      BY <1>1, <3>2, Zenon DEF Cancelling, Others
    <3> QED  BY <2>1, <3>1, <3>3, Zenon DEF CloseKept
  <2> QED  BY <2>2, <2>3, Zenon
<1>4. CASE SpawnRecheck
  <2>1. /\ born \in Tasks /\ UNCHANGED <<members, closing, failed, quarantined, token, sig>>
        /\ \/ finished' = [finished EXCEPT ![born] = TRUE] /\ state' = [state EXCEPT ![born] = "gone"]
           \/ ~failed /\ ~closing
    BY <1>4, Zenon DEF SpawnRecheck, RtAt, RtPlaces, scope, dispatch, diagnostics
  <2>2. CASE ~failed /\ ~closing
    BY <2>1, <2>2, Zenon DEF CloseKept
  <2>3. CASE finished' = [finished EXCEPT ![born] = TRUE] /\ state' = [state EXCEPT ![born] = "gone"]
    <3>1. CASE t = born
      BY <2>1, <2>3, <3>1, Zenon DEF CloseKept, Tables
    <3>2. CASE t # born
      <4>1. finished'[t] = finished[t] /\ state'[t] = state[t]
        BY <2>1, <2>3, <3>2, Zenon DEF Tables
      <4> QED  BY <1>2, <2>1, <4>1, Zenon
    <3> QED  BY <3>1, <3>2, Zenon
  <2> QED  BY <2>1, <2>2, <2>3, Zenon
<1>5. rpc = "recheck" => SpawnRecheck
  BY RtRecheck, Zenon
<1>6. CASE rpc # "recheck" /\ ~SpawnAttach
  <2>1. state[t] # "Admitting"
    BY <1>6, Zenon DEF RtPlaces
  <2> QED  BY <1>2, <1>6, <2>1, RtFrame, Zenon
<1> QED  BY <1>3, <1>4, <1>5, <1>6, Zenon

\* What the other threads and stuttering leave alone.
LEMMA RestKept ==
    ASSUME Shape, NEW t \in Tasks, NoticeKept(t), CloseKept(t),
           \/ \E p \in Threads : TokenFires(p) \/ \E u \in Tasks : WakeExecution(p, u)
           \/ UNCHANGED vars
    PROVE  NoticeKept(t)' /\ CloseKept(t)'
<1> USE DEF Shape
<1>1. /\ UNCHANGED <<state, members, ready, finished, token, local, dispatch>>
      /\ UNCHANGED <<closing, quarantined>>
  BY Zenon DEF TokenFires, WakeExecution, vars, signal, scope, diagnostics
<1>2. \/ UNCHANGED sig
      \/ \E p \in Threads, c \in SigCall : Calls(p, c) /\ sig[p].pc = "none"
  <2>1. Close("close") \in SigCall /\ \A u \in Tasks : Mark(u) \in SigCall
    BY CloseCall, MarkCall, Zenon
  <2> QED  BY <2>1, Zenon DEF TokenFires, WakeExecution, vars
<1>3. (Noticing(t) => Noticing(t)') /\ (Cancelling(t) => Cancelling(t)')
  <2>1. CASE UNCHANGED sig
    BY <1>1, <2>1, Zenon DEF Noticing, Cancelling, dispatch
  <2>2. ASSUME NEW p \in Threads, NEW c \in SigCall, Calls(p, c), sig[p].pc = "none"
        PROVE  (Noticing(t) => Noticing(t)') /\ (Cancelling(t) => Cancelling(t)')
    <3>1. p \in Procs /\ Others(p)
      BY <2>2, CallsFacts, Zenon DEF Procs
    <3>2. sig[p].todo = {}
      BY <2>2, <3>1, QuietCall, Zenon DEF CallsSound
    <3> QED  BY <1>1, <2>2, <3>1, <3>2, Zenon DEF Noticing, Cancelling, Others, dispatch
  <2> QED  BY <1>2, <2>1, <2>2, Zenon
<1> QED  BY <1>1, <1>3, Zenon DEF NoticeKept, CloseKept, Records, local, dispatch

-----------------------------------------------------------------------------
(* The theorems.                                                           *)

LEMMA TasksInit == Init => TaskInv
<1> SUFFICES ASSUME Init PROVE TaskInv
  BY Zenon
<1>1. Tables
  BY Zenon DEF Init, Tables, States
<1>2. CallsSound
  BY QuietCall, Zenon DEF Init, CallsSound
<1>3. RtPlaces
  BY Zenon DEF Init, RtPlaces, Driven
<1>4. ASSUME NEW t \in Tasks PROVE WakeKept(t) /\ NoticeKept(t) /\ CloseKept(t)
  BY Zenon DEF Init, WakeKept, Asleep, NoticeKept, Records, CloseKept
<1> QED  BY <1>1, <1>2, <1>3, <1>4, Zenon DEF TaskInv

LEMMA TasksNext == TaskInv /\ [Next]_vars => TaskInv'
<1> SUFFICES ASSUME TaskInv, [Next]_vars PROVE TaskInv'
  BY Zenon
<1>0. Shape /\ \A t \in Tasks : WakeKept(t) /\ NoticeKept(t) /\ CloseKept(t)
  BY Zenon DEF TaskInv, Shape
<1>1. \/ \E p \in Procs : Signalling(p)
      \/ RtTurn
      \/ \E p \in Threads : TokenFires(p) \/ \E u \in Tasks : WakeExecution(p, u)
      \/ UNCHANGED vars
  BY Zenon DEF Next, RtTurn
<1>2. Shape'
  <2>1. CASE RtTurn
    BY <1>0, <2>1, SpawnShape, ActivateShape, EndShape, HostShape, OutsideShape, Zenon DEF RtTurn, RtStep
  <2> QED  BY <1>0, <1>1, <2>1, SignallingShape, OutsideShape, Zenon
<1>3. ASSUME NEW t \in Tasks PROVE WakeKept(t)'
  BY <1>0, <1>1, WakeSignalling, WakeTurn, WakeOutside, Zenon
<1>4. ASSUME NEW t \in Tasks PROVE NoticeKept(t)'
  BY <1>0, <1>1, NoticeSignalling, NoticeTurn, RestKept, Zenon
<1>5. ASSUME NEW t \in Tasks PROVE CloseKept(t)'
  BY <1>0, <1>1, CloseSignalling, CloseTurn, RestKept, Zenon
<1> QED  BY <1>2, <1>3, <1>4, <1>5, Zenon DEF TaskInv, Shape

LEMMA TasksInvariant == Spec => []TaskInv
  BY TasksInit, TasksNext, PTL DEF Spec

\* Once nobody is inside a call, a scope that is closing or has lost its
\* dispatcher has cancelled every unfinished task: the second look at the scope
\* in spawn gives up the one task that a close running at the same time can miss.
THEOREM ClosesReachAll == Spec => []CloseReachesAll
<1>1. TaskInv => CloseReachesAll
  <2> SUFFICES ASSUME TaskInv, AllQuiet, closing \/ failed, ~quarantined,
                      NEW t \in Tasks, state[t] \in Live, ~finished[t]
               PROVE  token[t]
    BY Zenon DEF CloseReachesAll
  <2>1. \A p \in Procs : sig[p].pc = "none" /\ sig[p].todo = {}
    BY QuietCall, Zenon DEF TaskInv, AllQuiet, CallsSound
  <2>2. ~Cancelling(t)
    BY <2>1, Zenon DEF Cancelling
  <2>3. t \in members
    BY Zenon DEF TaskInv, Tables, Live
  <2>4. state[t] # "Admitting"
    BY Zenon DEF Live
  <2> QED  BY <2>2, <2>3, <2>4, Zenon DEF TaskInv, CloseKept
<1> QED  BY <1>1, TasksInvariant, PTL

\* A queued or parked task that has been cancelled or woken is ready to be
\* acquired, or the thread that woke it is about to mark it so.
THEOREM NoTaskSleeps == Spec => []NoSleeper
<1>1. TaskInv => NoSleeper
  <2> SUFFICES ASSUME TaskInv, NEW t \in Tasks, state[t] \in {"Queued", "Owned"},
                      token[t] \/ (state[t] = "Owned" /\ oready[t]),
                      ~\E p \in Procs : sig[p].task = t /\ sig[p].pc \in {"token", "owner", "mark"}
               PROVE  ready[t]
    BY Zenon DEF NoSleeper
  <2>1. ~Marking(t) /\ ~(sig[Rt].pc = "mark" /\ sig[Rt].task = t)
    BY Zenon DEF Marking, Procs
  <2> QED  BY <2>1, Zenon DEF TaskInv, WakeKept, Asleep
<1> QED  BY <1>1, TasksInvariant, PTL

\* The dispatcher in place has been told of every ready task, or is about to be,
\* however notifications that fail and replacements interleave.
THEOREM NoticesNeverLost == Spec => []NoLostNotice
<1>1. TaskInv => NoLostNotice
  <2> SUFFICES ASSUME TaskInv, NEW t \in Tasks, ready[t], state[t] \in {"Queued", "Owned", "Terminal"},
                      ~failed, rpc \notin {"list", "replay"},
                      ~\E p \in Procs : sig[p].task = t /\ sig[p].pc \in {"notify", "call", "late"}
               PROVE  t \in told
    BY Zenon DEF NoLostNotice
  <2>1. ~Noticing(t) /\ t \in Records
    BY Zenon DEF Noticing, Records
  <2> QED  BY <2>1, Zenon DEF TaskInv, NoticeKept
<1> QED  BY <1>1, TasksInvariant, PTL
=============================================================================
