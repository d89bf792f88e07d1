---------------------------- MODULE MetadataTable ---------------------------
(***************************************************************************)
(* The metadata table of the collector (kagari-gc table.rs): numeric       *)
(* identities in a radix tree that grows at the root, gives empty blocks   *)
(* back as entries are removed, and can be trimmed.  The tree is checked   *)
(* against the map it stands for.                                          *)
(***************************************************************************)
EXTENDS Naturals, Sequences, FiniteSets, FiniteSetsExt

CONSTANTS BITS, LEAF_BITS,  \* identity bits that a branch and a leaf cover
          MaxShift,         \* the shift of the highest branch
          Values, None

WIDTH == 2 ^ BITS
LEAF == 2 ^ LEAF_BITS
Capacity == 2 ^ (MaxShift + BITS)

VARIABLES table,     \* the root block
          prepared,  \* the identity that a prepare has reserved
          live       \* the map that the table stands for

vars == <<table, prepared, live>>

\* A leaf's slots grow on demand; a branch has all its children from the start.
Leaf == [shift |-> 0, slots |-> <<>>, full |-> {}, len |-> 0]
Branch(shift) == [shift |-> shift, children |-> [i \in 0..WIDTH-1 |-> None],
                  full |-> {}, len |-> 0]

Init == table = Leaf /\ prepared = None /\ live = <<>>

IsFull(t) == t.full = IF t.shift = 0 THEN 0..LEAF-1 ELSE 0..WIDTH-1

\* The lowest position that is not marked full.
FirstFree(t) == CHOOSE i \in 0..LEAF+WIDTH : i \notin t.full /\ \A j \in 0..i-1 : j \in t.full

Below(shift) == IF shift = LEAF_BITS THEN 0 ELSE shift - BITS
Above(shift) == IF shift = 0 THEN LEAF_BITS ELSE shift + BITS

-----------------------------------------------------------------------------
\* prepare_slot: the table afterwards, and the identity.  An allocation for a
\* block whose parent has shift "fail", or for the slots (fail = 0), does not
\* succeed; what was allocated on the way down stays.
RECURSIVE PrepareSlot(_, _)
PrepareSlot(t, fail) ==
  LET i == FirstFree(t) IN
  IF t.shift = 0
  THEN IF i < Len(t.slots) THEN [t |-> t, id |-> i]
       ELSE IF fail = 0 THEN [t |-> t, id |-> None]
       ELSE [t |-> [t EXCEPT !.slots = @ \o [k \in 1..(i + 1 - Len(@)) |-> None]], id |-> i]
  ELSE IF t.children[i] = None /\ fail = t.shift THEN [t |-> t, id |-> None]
  ELSE LET child == IF t.children[i] # None THEN t.children[i]
                    ELSE IF t.shift = LEAF_BITS THEN Leaf ELSE Branch(Below(t.shift))
           sub == PrepareSlot(child, fail)
       IN  [t |-> [t EXCEPT !.children[i] = sub.t],
            id |-> IF sub.id = None THEN None ELSE i * 2 ^ t.shift + sub.id]

\* prepare: a full root becomes the first child of a new one, and counts as full.
Grow(t) ==
  [Branch(Above(t.shift)) EXCEPT !.len = t.len, !.children[0] = t, !.full = {0}]

RECURSIVE InsertInto(_, _, _)
InsertInto(t, id, v) ==
  IF t.shift = 0
  THEN [t EXCEPT !.slots[id + 1] = v, !.full = @ \cup {id}, !.len = @ + 1]
  ELSE LET i == id \div 2 ^ t.shift
           child == InsertInto(t.children[i], id % 2 ^ t.shift, v)
       IN  [t EXCEPT !.children[i] = child, !.len = @ + 1,
                     !.full = IF IsFull(child) THEN @ \cup {i} ELSE @]

RECURSIVE Get(_, _)
Get(t, id) ==
  IF t.shift = 0
  THEN IF id < Len(t.slots) THEN t.slots[id + 1] ELSE None
  ELSE LET i == id \div 2 ^ t.shift IN
       IF i >= WIDTH THEN None
       ELSE IF t.children[i] = None THEN None
       ELSE Get(t.children[i], id % 2 ^ t.shift)

\* A child that has lost an entry does not count as full any more.
Unmark(t, i, child) == t.full \ {i}

\* remove of an identity that is there: a block left empty goes.
RECURSIVE RemoveFrom(_, _)
RemoveFrom(t, id) ==
  LET i == id \div 2 ^ t.shift
      child == RemoveFrom(t.children[i], id % 2 ^ t.shift)
      rest == IF t.shift = 0
              THEN [t EXCEPT !.slots[id + 1] = None, !.full = @ \ {id}, !.len = @ - 1]
              ELSE [t EXCEPT !.children[i] = IF child.len = 0 THEN None ELSE child,
                             !.full = Unmark(t, i, child), !.len = @ - 1]
  IN  IF rest.len = 0 THEN Leaf ELSE rest

\* prune_empty
RECURSIVE Prune(_)
Prune(t) ==
  IF t.shift = 0 THEN t
  ELSE [t EXCEPT !.children = [i \in 0..WIDTH-1 |->
          IF @[i] = None THEN None ELSE IF @[i].len = 0 THEN None ELSE Prune(@[i])]]

\* Mutant of Shallow: the root is replaced while its first child is all but all.
ShallowMutant(t) == t.shift # 0 /\ t.children[0] # None /\ t.children[0].len + 1 >= t.len

\* The root is superfluous: all its entries are in the first child.
Shallow(t) ==
  t.shift # 0 /\ t.children[0] # None /\ t.children[0].len = t.len

RECURSIVE Lower(_)
Lower(t) == IF Shallow(t) THEN Lower(t.children[0]) ELSE t

-----------------------------------------------------------------------------
AtLimit == IsFull(table) /\ table.shift = MaxShift

\* prepare, and the allocation of it that fails, if one does.
Prepare(fail) ==
  /\ prepared = None
  /\ ~AtLimit
  /\ LET r == PrepareSlot(IF IsFull(table) THEN Grow(table) ELSE table, fail) IN
     table' = r.t /\ prepared' = r.id
  /\ UNCHANGED live

\* The caller has its value, or gives up.
Insert(v) ==
  /\ prepared # None
  /\ Get(table, prepared) = None  \* assert!(... "prepared empty metadata slot")
  /\ table' = InsertInto(table, prepared, v)
  /\ live' = [i \in DOMAIN live \cup {prepared} |-> IF i = prepared THEN v ELSE live[i]]
  /\ prepared' = None

GiveUp ==
  /\ prepared # None /\ prepared' = None
  /\ UNCHANGED <<table, live>>

Removal(id) ==
  /\ prepared = None /\ Get(table, id) # None
  /\ table' = RemoveFrom(table, id)
  /\ live' = [i \in DOMAIN live \ {id} |-> live[i]]
  /\ UNCHANGED prepared

Trim ==
  /\ prepared = None
  /\ table' = IF table.len = 0 THEN Leaf ELSE Lower(Prune(table))
  /\ UNCHANGED <<prepared, live>>

Shifts == {s \in 0..MaxShift : s = 0 \/ (s >= LEAF_BITS /\ (s - LEAF_BITS) % BITS = 0)}

Next ==
  \/ \E fail \in Shifts \cup {None} : Prepare(fail)
  \/ (\E v \in Values : Insert(v)) \/ GiveUp
  \/ \E id \in 0..Capacity-1 : Removal(id)
  \/ Trim

Spec == Init /\ [][Next]_vars

-----------------------------------------------------------------------------
(***************************************************************************)
(* Properties.                                                             *)
(***************************************************************************)
\* Lookups agree with the map for every identity, those beyond the tree's reach
\* included, through every growth, removal, failed allocation and trim, and an
\* identity that is prepared is vacant, as insert asserts.
LookupExact ==
  /\ \A id \in 0..2*Capacity : Get(table, id) = IF id \in DOMAIN live THEN live[id] ELSE None
  /\ prepared # None => prepared \notin DOMAIN live

=============================================================================
