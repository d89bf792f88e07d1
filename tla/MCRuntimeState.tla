--------------------------- MODULE MCRuntimeState ---------------------------
(***************************************************************************)
(* Tables and queues of the runtime: the wake hub, the session store, the  *)
(* statics, the host borrows and the table of identities.  The modules     *)
(* share no variable, so a behaviour follows one of them, `part', and the  *)
(* others rest in their initial state.                                     *)
(***************************************************************************)
EXTENDS HubTable, SessionTable, StaticsTable

CONSTANTS None, a, b, w1, w2, e1, e2, p1,
          Objects, MaxFrames, MaxBorrows, MaxCount,
          BITS, LEAF_BITS, MaxShift, Values

VARIABLES next, borrows, counts, broken,
          table, prepared, entries,
          part

MCPaths == {<<>>, <<a>>, <<b>>, <<a, b>>}

borrowVars == <<next, borrows, counts, broken>>
tableVars == <<table, prepared, entries>>

Borrows == INSTANCE HostBorrows
             WITH frames <- borrows, quarantined <- broken, Paths <- MCPaths
Table == INSTANCE MetadataTable WITH live <- entries

HubAlone == UNCHANGED <<storeVars, staticVars, borrowVars, tableVars, part>>
StoreAlone == UNCHANGED <<hub, staticVars, borrowVars, tableVars, part>>
StaticsAlone == UNCHANGED <<hub, storeVars, borrowVars, tableVars, part>>
BorrowsAlone == UNCHANGED <<hub, storeVars, staticVars, tableVars, part>>
TableAlone == UNCHANGED <<hub, storeVars, staticVars, borrowVars, part>>

PartInit ==
  /\ Hub!Init /\ Store!Init /\ Statics!Init /\ Borrows!Init /\ Table!Init
  /\ part \in {"hub", "store", "statics", "borrows", "table"}

HubNext ==
  \/ \E p \in Hub!Procs : part = "hub" /\ Hub!MarkReady(p) /\ HubAlone
  \/ \E p \in Hub!Procs : part = "hub" /\ Hub!Notify(p) /\ HubAlone
  \/ \E p \in Hub!Procs : part = "hub" /\ Hub!Wake(p) /\ HubAlone
  \/ \E p \in Hub!Procs : part = "hub" /\ Hub!ContainStore(p) /\ HubAlone
  \/ \E p \in Hub!Procs : part = "hub" /\ Hub!WakePanics(p) /\ HubAlone
  \/ \E p \in Hub!Procs : part = "hub" /\ Hub!Contain(p) /\ HubAlone
  \/ \E p \in Signallers, e \in Work : part = "hub" /\ Hub!Signal(p, e) /\ HubAlone
  \/ \E e \in Work : part = "hub" /\ Hub!Schedule(e) /\ HubAlone
  \/ \E w \in HubWakers : part = "hub" /\ Hub!Borrow(w) /\ HubAlone
  \/ \E w \in HubWakers : part = "hub" /\ Hub!BeginTurn(w, FALSE) /\ HubAlone
  \/ \E w \in HubWakers : part = "hub" /\ borrowed # Nobody /\ Hub!BeginTurn(w, TRUE) /\ HubAlone
  \/ \E w \in HubWakers : part = "hub" /\ Hub!CloneRoutePanics(w, FALSE) /\ HubAlone
  \/ \E w \in HubWakers : part = "hub" /\ borrowed # Nobody /\ Hub!CloneRoutePanics(w, TRUE) /\ HubAlone
  \/ part = "hub" /\ Hub!DropRegistration /\ HubAlone
  \/ part = "hub" /\ Hub!DropRoutePanics /\ HubAlone
  \/ part = "hub" /\ Hub!Close /\ HubAlone
  \/ part = "hub" /\ Hub!NextWork /\ HubAlone
  \/ part = "hub" /\ Hub!Replay /\ HubAlone
  \/ part = "hub" /\ Hub!Unroute /\ HubAlone
  \/ part = "hub" /\ Hub!CheckRoute /\ HubAlone
  \/ part = "hub" /\ Hub!ClearDirty /\ HubAlone
  \/ part = "hub" /\ Hub!Park /\ HubAlone
  \/ part = "hub" /\ Hub!Finish /\ HubAlone
  \/ part = "hub" /\ Hub!EndTurn /\ HubAlone

StoreNext ==
  \/ part = "store" /\ Store!Release /\ StoreAlone
  \/ \E e \in Executions : part = "store" /\ Store!InsertSession(e) /\ StoreAlone
  \/ \E e \in Executions : part = "store" /\ Store!PushFrame(e) /\ StoreAlone
  \/ \E e \in Executions : part = "store" /\ Store!RemoveSession(e) /\ StoreAlone
  \/ \E e \in Executions, kind \in {"shared", "mut"} : part = "store" /\ Store!Borrow(e, kind) /\ StoreAlone

StaticsNext ==
  \/ part = "statics" /\ Statics!EnterSession /\ StaticsAlone
  \/ part = "statics" /\ Statics!Commit /\ StaticsAlone
  \/ part = "statics" /\ Statics!CommitFails /\ StaticsAlone
  \/ part = "statics" /\ Statics!Trap /\ StaticsAlone
  \/ part = "statics" /\ Statics!Unwind /\ StaticsAlone
  \/ \E c \in Cells : part = "statics" /\ Statics!AccessFails(c) /\ StaticsAlone
  \/ \E c \in Cells : part = "statics" /\ Statics!AccessCycle(c) /\ StaticsAlone
  \/ \E c \in Cells : part = "statics" /\ Statics!Begin(c) /\ StaticsAlone

BorrowsNext ==
  \/ part = "borrows" /\ Borrows!EnterFrame /\ BorrowsAlone
  \/ \E f \in DOMAIN borrows : part = "borrows" /\ Borrows!LeaveFrame(f) /\ BorrowsAlone
  \/ \E f \in DOMAIN borrows, o \in Objects, kind \in Borrows!Kinds, p \in MCPaths :
       part = "borrows" /\ Borrows!Borrow(f, o, kind, p) /\ BorrowsAlone

TableNext ==
  \/ \E fail \in Table!Shifts \cup {None} : part = "table" /\ Table!Prepare(fail) /\ TableAlone
  \/ \E v \in Values : part = "table" /\ Table!Insert(v) /\ TableAlone
  \/ part = "table" /\ Table!GiveUp /\ TableAlone
  \/ \E i \in 0..Table!Capacity-1 : part = "table" /\ Table!Removal(i) /\ TableAlone
  \/ part = "table" /\ Table!Trim /\ TableAlone

PartNext == HubNext \/ StoreNext \/ StaticsNext \/ BorrowsNext \/ TableNext
PartVars == <<hub, storeVars, staticVars, borrowVars, tableVars, part>>
PartSpec == PartInit /\ [][PartNext]_PartVars

-----------------------------------------------------------------------------
(* What a part promises is asked of the behaviours that follow it.         *)

\* Of two borrows held at one time of a path and a part of it, by one frame or by
\* two, both are shared (host/borrows.rs).
NoAliasing == part = "borrows" => Borrows!NoAliasing

\* The radix table agrees with a finite map through growth, failed allocations,
\* removals and trims (table.rs).
LookupExact == part = "table" => Table!LookupExact
=============================================================================
