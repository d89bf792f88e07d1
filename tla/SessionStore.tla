---------------------------- MODULE SessionStore ----------------------------
(***************************************************************************)
(* The session store (session/store.rs): records in slots that are reused, *)
(* ids that carry the generation of their slot, and beside the records a   *)
(* bucket of frames for each slot, borrowed independently of them.         *)
(***************************************************************************)
EXTENDS Naturals, Sequences

CONSTANTS Executions,     \* each is inserted once
          MaxSlots,       \* slots that can be allocated
          MaxGeneration,  \* the largest u64
          None

VARIABLES slots,   \* Records.slots: generation, and whose state is there
          free,    \* Records.free
          frames,  \* the executions whose frames are in each bucket
          borrow,  \* of the frames: "none", "shared" or "mut"
          id       \* the id each execution got, for good

vars == <<slots, free, frames, borrow, id>>

Init ==
  /\ slots = <<>> /\ free = <<>> /\ frames = <<>>
  /\ borrow = "none"
  /\ id = [e \in Executions |-> None]

\* get: the record that an id reaches.
Get(i) ==
  IF i # None /\ i.slot \in DOMAIN slots /\ slots[i.slot].gen = i.gen
  THEN slots[i.slot].state ELSE None

\* frames.resize_with: the buckets that are missing are made, empty.
Resize(f, n) == f \o [k \in 1..(n - Len(f)) |-> {}]

\* The slot freed last, and the others.
Newest == free[Len(free)]
Popped == SubSeq(free, 1, Len(free) - 1)

\* insert: refused while the frames are borrowed or memory is short; a free
\* slot first, the last one freed.
InsertSession(e) ==
  /\ id[e] = None /\ borrow = "none"
  /\ \/ /\ free # <<>>
        /\ free' = Popped
        /\ slots' = [slots EXCEPT ![Newest].state = e]
        /\ id' = [id EXCEPT ![e] = [slot |-> Newest, gen |-> slots[Newest].gen]]
     \/ /\ free = <<>> /\ Len(slots) < MaxSlots
        /\ slots' = Append(slots, [gen |-> 0, state |-> e])
        /\ id' = [id EXCEPT ![e] = [slot |-> Len(slots) + 1, gen |-> 0]]
        /\ UNCHANGED free
  /\ frames' = Resize(frames, Len(slots'))
  /\ UNCHANGED borrow

\* Any view of the frames, through frames() or frames_mut() of a live id.
Borrow(e, kind) ==
  /\ borrow = "none" /\ Get(id[e]) # None
  /\ borrow' = kind
  /\ UNCHANGED <<slots, free, frames, id>>

Release ==
  /\ borrow # "none"
  /\ borrow' = "none"
  /\ UNCHANGED <<slots, free, frames, id>>

\* An activation pushes or pops its frames.
PushFrame(e) ==
  /\ borrow = "none" /\ Get(id[e]) # None
  /\ frames' \in {[frames EXCEPT ![id[e].slot] = @ \cup {e}],
                  [frames EXCEPT ![id[e].slot] = @ \ {e}]}
  /\ UNCHANGED <<slots, free, borrow, id>>

\* Mutant of Bump: the generation saturates, and the slot is used again.
BumpMutant(s) ==
  /\ slots' = [slots EXCEPT ![s].state = None,
                            ![s].gen = IF @ < MaxGeneration THEN @ + 1 ELSE @]
  /\ free' = Append(free, s)

\* remove takes the state; the slot is free again under the next generation, and
\* never when there is none.
Bump(s) ==
  IF slots[s].gen < MaxGeneration
  THEN /\ slots' = [slots EXCEPT ![s].state = None, ![s].gen = @ + 1]
       /\ free' = Append(free, s)
  ELSE /\ slots' = [slots EXCEPT ![s].state = None]
       /\ UNCHANGED free

\* remove, also of an id that is retired already: under a view of the frames
\* only a session whose bucket is empty can go.
RemoveSession(e) ==
  /\ Get(id[e]) # None
  /\ \/ borrow = "none"
     \/ borrow = "shared" /\ frames[id[e].slot] = {}
  /\ Bump(id[e].slot)
  /\ frames' = IF borrow = "none" THEN [frames EXCEPT ![id[e].slot] = {}] ELSE frames
  /\ UNCHANGED <<borrow, id>>

Next ==
  \/ Release
  \/ \E e \in Executions :
       \/ InsertSession(e) \/ PushFrame(e) \/ RemoveSession(e)
       \/ \E kind \in {"shared", "mut"} : Borrow(e, kind)

Spec == Init /\ [][Next]_vars

-----------------------------------------------------------------------------
\* An id reaches the record it was made for until that is removed, and nothing
\* ever after, however often the slot has been used again.
NoAlias == \A e \in Executions : Get(id[e]) \in {e, None}

-----------------------------------------------------------------------------
(***************************************************************************)
(* The inductive invariant: no id is ahead of its slot, one abreast of it  *)
(* finds its own record or none, and those of a free slot are all behind.  *)
(***************************************************************************)
Named(e) == id[e] # None
Slot(e) == slots[id[e].slot]

Record == [gen : Nat, state : Executions \cup {None}]

Tables ==
  /\ slots \in Seq(Record)
  /\ free \in Seq(1..Len(slots))
  /\ DOMAIN id = Executions
  /\ \A e \in Executions : Named(e) => id[e] \in [slot : 1..Len(slots), gen : Nat]

Behind ==
  \A e \in Executions : Named(e) =>
    /\ id[e].gen <= Slot(e).gen
    /\ id[e].gen = Slot(e).gen => Slot(e).state \in {e, None}

FreeIsNew ==
  /\ \A k \in DOMAIN free, e \in Executions :
       Named(e) /\ id[e].slot = free[k] => id[e].gen < slots[free[k]].gen
  /\ \A j, k \in DOMAIN free : j # k => free[j] # free[k]

StoreInv == Tables /\ Behind /\ FreeIsNew

=============================================================================
