---------------------------- MODULE SessionTable ----------------------------
(***************************************************************************)
(* The session store as one of the runtime's parts, with what it promises. *)
(***************************************************************************)
EXTENDS Naturals, Sequences

CONSTANTS Executions, MaxSlots, MaxGeneration,
          Vacant              \* no execution, no id

VARIABLES slots, free, buckets, borrow, id

storeVars == <<slots, free, buckets, borrow, id>>

Store == INSTANCE SessionStore WITH frames <- buckets, None <- Vacant

\* The id of a removed session reaches no other session, until the generation of
\* its slot runs out and beyond (session/store.rs: remove and get).
NoAlias == Store!NoAlias
=============================================================================
