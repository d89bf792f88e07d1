------------------------ MODULE StaticInitialization ------------------------
(***************************************************************************)
(* Lazy statics (module/state/initialization.rs, frame/statics.rs): the    *)
(* first access to a static pushes a hidden frame that runs its recipe.    *)
(* The cell and the frame share an attempt, whose completion is set once.  *)
(* Recipes access other statics, and call hosts that enter the runtime     *)
(* again; an entry that fails or is dropped takes its frames with it, but  *)
(* the host that made it may carry on.  `Session' below is such an entry:  *)
(* an invocation with the frames it pushed.                                *)
(***************************************************************************)
EXTENDS Integers, Sequences

CONSTANTS Cells,
          MaxAttempts,  \* attempts prepared, at most
          MaxSessions,  \* sessions nested, at most
          None

VARIABLES cell,      \* of each static: its state and its attempt
          done,      \* the completion of each attempt that was begun
          stack,     \* of each open session: its initializer frames, the last on top
          active,    \* the share that each open session's frames have in
                     \* static_initializers; entries of one execution add up
          failing,   \* the innermost session has an error to unwind
          touched    \* cells accessed while they were being initialized

vars == <<cell, done, stack, active, failing, touched>>

Init ==
  /\ cell = [c \in Cells |-> [st |-> "Uninitialized", attempt |-> None]]
  /\ done = <<>> /\ stack = << <<>> >> /\ active = <<0>> /\ failing = FALSE
  /\ touched = {}

\* InitializationAttempt::failure
Failed(n) == n # None /\ done[n] = "failed"

\* StaticCell::snapshot: the attempt's failure is authoritative.
Snapshot(c) == IF Failed(cell[c].attempt) THEN "Failed" ELSE cell[c].st

\* InitializationAttempt::fail: a completion that is set stays.
Fail(d, n) == IF d[n] = None THEN [d EXCEPT ![n] = "failed"] ELSE d

\* The innermost session, which runs, and its topmost initializer frame.
Session == Len(stack)
Top == stack[Session][Len(stack[Session])]

Popped(s) == SubSeq(s, 1, Len(s) - 1)

\* The host, called from a frame, enters the runtime again.
EnterSession ==
  /\ ~failing /\ Session < MaxSessions
  /\ stack' = Append(stack, <<>>)
  /\ active' = Append(active, 0)
  /\ UNCHANGED <<cell, done, failing, touched>>

\* prepare_static_initialization refuses, or the frame is not admitted.
AccessFails(c) ==
  /\ ~failing /\ Snapshot(c) \in {"Uninitialized", "Failed"}
  /\ failing' = TRUE
  /\ UNCHANGED <<cell, done, stack, active, touched>>

\* Mutant of AccessCycle: the attempt that is under way is left alone.
AccessCycleMutant(c) ==
  /\ ~failing /\ Snapshot(c) = "Initializing"
  /\ UNCHANGED done
  /\ failing' = TRUE
  /\ touched' = touched \cup {c}
  /\ UNCHANGED <<cell, stack, active>>

\* poison_static_cycle: the static is being initialized, further down the stack.
AccessCycle(c) ==
  /\ ~failing /\ Snapshot(c) = "Initializing"
  /\ done' = Fail(done, cell[c].attempt)
  /\ failing' = TRUE
  /\ touched' = touched \cup {c}
  /\ UNCHANGED <<cell, stack, active>>

\* prepare_static_initialization, and begin() as the frame is pushed.
Begin(c) ==
  /\ ~failing /\ Snapshot(c) = "Uninitialized" /\ Len(done) < MaxAttempts
  /\ done' = Append(done, None)
  /\ cell' = [cell EXCEPT ![c] = [st |-> "Initializing", attempt |-> Len(done) + 1]]
  /\ stack' = [stack EXCEPT ![Session] = Append(@, [cell |-> c, attempt |-> Len(done) + 1])]
  /\ active' = [active EXCEPT ![Session] = @ + 1]
  /\ UNCHANGED <<failing, touched>>

\* The innermost frame is an initializer, and returns.
TopReturns == ~failing /\ stack[Session] # <<>>

\* finish_static_return with commit(): the value is published once, by the
\* attempt that the cell knows, unless that has failed.
Commit ==
  LET c == Top.cell IN
  /\ TopReturns /\ ~Failed(Top.attempt)
  /\ cell[c] = [st |-> "Initializing", attempt |-> Top.attempt]
  /\ done' = [done EXCEPT ![Top.attempt] = "ok"]
  /\ cell' = [cell EXCEPT ![c] = [st |-> "Ready", attempt |-> None]]
  /\ stack' = [stack EXCEPT ![Session] = Popped(@)]
  /\ active' = [active EXCEPT ![Session] = @ - 1]
  /\ UNCHANGED <<failing, touched>>

\* finish_static_return refuses the value: it has the wrong type, the session is
\* terminated, or the attempt has failed before.
CommitFails ==
  /\ TopReturns
  /\ done' = Fail(done, Top.attempt)
  /\ stack' = [stack EXCEPT ![Session] = Popped(@)]
  /\ active' = [active EXCEPT ![Session] = @ - 1]
  /\ failing' = TRUE
  /\ UNCHANGED <<cell, touched>>

\* The script traps, is cancelled or exhausts a budget.
Trap ==
  /\ ~failing /\ failing' = TRUE
  /\ UNCHANGED <<cell, done, stack, active, touched>>

\* Mutant of Settled: only the innermost frame's attempt fails.
SettledMutant(gone) == IF gone = <<>> THEN done ELSE Fail(done, gone[Len(gone)].attempt)

\* fail_static_initializers, and Drop for StaticInitialization, of the frames
\* that go.
Settled(gone) ==
  [n \in DOMAIN done |-> IF \E i \in DOMAIN gone : gone[i].attempt = n
                         THEN Fail(done, n)[n] ELSE done[n]]

\* The session ends with its error, or is dropped, and its frames with it.  The
\* host that entered it fails in turn, or carries on.
Unwind ==
  /\ failing \/ Session > 1
  /\ done' = Settled(stack[Session])
  /\ IF Session > 1
     THEN stack' = Popped(stack) /\ active' = Popped(active) /\ failing' \in {FALSE, failing}
     ELSE stack' = << <<>> >> /\ active' = <<0>> /\ failing' = FALSE
  /\ UNCHANGED <<cell, touched>>

Next ==
  \/ EnterSession \/ Commit \/ CommitFails \/ Trap \/ Unwind
  \/ \E c \in Cells : AccessFails(c) \/ AccessCycle(c) \/ Begin(c)

Spec == Init /\ [][Next]_vars

-----------------------------------------------------------------------------
\* The frame runs the attempt that the cell knows.
Initializes(s, i, c) == stack[s][i] = [cell |-> c, attempt |-> cell[c].attempt]

\* No static is left half initialized: one that looks as if it were being
\* initialized has exactly one frame at it, in whatever way sessions end.
InitializingHasFrame ==
  \A c \in Cells : Snapshot(c) = "Initializing" =>
    \E s \in DOMAIN stack : \E i \in DOMAIN stack[s] :
      /\ Initializes(s, i, c)
      /\ \A t \in DOMAIN stack : \A j \in DOMAIN stack[t] :
           Initializes(t, j, c) => t = s /\ j = i

\* A static whose recipe came back to it, in its own session or in one that the
\* host nested, never becomes ready, even if the host swallows the error.
CycleNeverReady == \A c \in touched : Snapshot(c) # "Ready"

-----------------------------------------------------------------------------
(* The inductive invariant.                                                *)

Frame == [cell : Cells, attempt : Nat]
Frames == Seq(Frame)

StaticTypes ==
  /\ cell \in [Cells -> [st : {"Uninitialized", "Initializing", "Ready"},
                        attempt : Nat \cup {None}]]
  /\ done \in Seq({None, "failed", "ok"})
  /\ stack \in Seq(Frames) /\ Session > 0
  /\ active \in Seq(Nat) /\ Len(active) = Session
  /\ failing \in BOOLEAN
  /\ touched \subseteq Cells

\* Every frame has an attempt of its own.
OwnAttempt ==
  \A s \in DOMAIN stack : \A i \in DOMAIN stack[s] :
    /\ stack[s][i].attempt \in DOMAIN done
    /\ \A t \in DOMAIN stack : \A j \in DOMAIN stack[t] :
         stack[t][j].attempt = stack[s][i].attempt => t = s /\ j = i

\* A cell has an attempt exactly while it is being initialized; it shares it with
\* no other cell, the attempt has not succeeded, and while it is open some frame
\* runs it.
CellAttempt ==
  \A c \in Cells :
    LET n == cell[c].attempt IN
    /\ cell[c].st = "Initializing" <=> n # None
    /\ n # None =>
         /\ n \in DOMAIN done /\ done[n] # "ok"
         /\ \A d \in Cells : cell[d].attempt = n => d = c
         /\ done[n] = None =>
              \E s \in DOMAIN stack : \E i \in DOMAIN stack[s] : Initializes(s, i, c)

\* The attempt that a cycle met has failed, and the cell keeps it.
TouchedFailed == \A c \in touched : Failed(cell[c].attempt)

\* A session's share is the number of its initializers.
ActiveCounts == \A s \in DOMAIN stack : active[s] = Len(stack[s])

StaticInv == StaticTypes /\ OwnAttempt /\ CellAttempt /\ TouchedFailed /\ ActiveCounts

=============================================================================
