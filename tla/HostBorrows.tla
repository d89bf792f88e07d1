----------------------------- MODULE HostBorrows ----------------------------
(***************************************************************************)
(* The host borrow table (kagari-runtime host/borrows.rs): the frames of   *)
(* host calls hold shared and unique borrows of paths within host objects. *)
(***************************************************************************)
EXTENDS Naturals, Sequences, FiniteSets, SequencesExt

CONSTANTS Objects,     \* installed and external ones, told apart by their keys
          Paths,       \* field paths; <<>> is the whole object
          MaxFrames,   \* the largest frame identity
          MaxBorrows,  \* records a frame holds, at most
          MaxCount     \* the largest shared_count

Kinds == {"Shared", "Unique"}
VARIABLES next,         \* next_frame_id (and next_epoch, which keeps in step)
          frames,       \* active_frames: each one's borrows
          counts,       \* object_borrows: of each object, its paths with counts
          quarantined   \* an invariant of the table was seen broken or exhausted

vars == <<next, frames, counts, quarantined>>

Init ==
  /\ next = 0 /\ frames = <<>>
  /\ counts = [o \in Objects |-> {}]
  /\ quarantined = FALSE

\* enter_frame_in: identities are not used again, and run out.
EnterFrame ==
  /\ ~quarantined
  /\ IF next = MaxFrames THEN quarantined' = TRUE /\ UNCHANGED <<next, frames>>
     ELSE /\ next' = next + 1
          /\ frames' = [f \in DOMAIN frames \cup {next} |->
                          IF f = next THEN <<>> ELSE frames[f]]
          /\ UNCHANGED quarantined
  /\ UNCHANGED counts

\* Mutant of Overlap: only equal paths are told to overlap.
OverlapMutant(p, q) == p = q

\* paths_overlap
Overlap(p, q) == IsPrefix(p, q) \/ IsPrefix(q, p)

Conflict(o, kind, p) ==
  \E c \in counts[o] : /\ Overlap(c.path, p)
                       /\ c.unique > 0 \/ (kind = "Unique" /\ c.shared > 0)

\* The counts of a path, zero if it has none yet.
CountsAt(o, p) ==
  IF \E c \in counts[o] : c.path = p THEN CHOOSE c \in counts[o] : c.path = p
  ELSE [path |-> p, shared |-> 0, unique |-> 0]

\* A path without a borrow is not kept.
InUse(c) == IF c.shared = 0 /\ c.unique = 0 THEN {} ELSE {c}

\* borrow_record.  A conflict changes nothing, and a failed allocation leaves at
\* most an entry for the object that has no path.
Borrow(f, o, kind, p) ==
  /\ ~quarantined
  /\ f \in DOMAIN frames /\ Len(frames[f]) < MaxBorrows
  /\ ~Conflict(o, kind, p)
  /\ LET c == CountsAt(o, p) IN
     IF kind = "Shared" /\ c.shared = MaxCount
     THEN quarantined' = TRUE /\ UNCHANGED <<frames, counts>>
     ELSE /\ counts' = [counts EXCEPT ![o] = (@ \ {c}) \cup
               {IF kind = "Shared" THEN [c EXCEPT !.shared = @ + 1]
                ELSE [c EXCEPT !.unique = @ + 1]}]
          /\ frames' = [frames EXCEPT ![f] =
               Append(@, [object |-> o, kind |-> kind, path |-> p])]
          /\ UNCHANGED quarantined
  /\ UNCHANGED next

\* leave_frame, for one record: the count goes down, and an unused path goes.
\* A path that is gone or a count that is zero already breaks the table.
Release(s, r) ==
  LET c == CHOOSE d \in s.counts[r.object] : d.path = r.path
      n == IF r.kind = "Shared" THEN c.shared ELSE c.unique
      left == IF n > 0 THEN n - 1 ELSE 0
      rest == IF r.kind = "Shared" THEN [c EXCEPT !.shared = left] ELSE [c EXCEPT !.unique = left]
  IN  IF ~\E d \in s.counts[r.object] : d.path = r.path THEN [s EXCEPT !.broken = TRUE]
      ELSE [counts |-> [s.counts EXCEPT ![r.object] = (@ \ {c}) \cup InUse(rest)],
            broken |-> s.broken \/ n = 0]

\* leave_frame; guards are dropped in any order, in quarantine too.
LeaveFrame(f) ==
  LET s == FoldLeft(Release, [counts |-> counts, broken |-> FALSE], frames[f]) IN
  /\ f \in DOMAIN frames
  /\ frames' = [g \in DOMAIN frames \ {f} |-> frames[g]]
  /\ counts' = s.counts
  /\ quarantined' = (quarantined \/ s.broken)
  /\ UNCHANGED next

Next ==
  \/ EnterFrame
  \/ \E f \in DOMAIN frames :
       \/ LeaveFrame(f)
       \/ \E o \in Objects, kind \in Kinds, p \in Paths : Borrow(f, o, kind, p)

Spec == Init /\ [][Next]_vars

-----------------------------------------------------------------------------
Records == {<<f, i>> \in (DOMAIN frames) \X (1..MaxBorrows) : i <= Len(frames[f])}
At(x) == frames[x[1]][x[2]]

\* No borrow overlaps a unique one: of two borrows held at one time, by one frame
\* or by two, of a path and a part of it, both are shared.
NoAliasing ==
  \A x, y \in Records :
    x # y /\ At(x).object = At(y).object /\ IsPrefix(At(x).path, At(y).path)
      => At(x).kind = "Shared" /\ At(y).kind = "Shared"

=============================================================================
