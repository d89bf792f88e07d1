-------------------------- MODULE MCHeapProgress --------------------------
(***************************************************************************)
(* The progress instance of IncrementalHeap: two objects on one page, with  *)
(* two edges and one, and one root slot.                                   *)
(***************************************************************************)
EXTENDS IncrementalHeap, TLC

MCObjects == {"a", "b"}
MCPages == {"p"}
MCPageOf == [o \in MCObjects |-> "p"]
MCArity == ("a" :> 2) @@ ("b" :> 1)
MCPacks == {"set"}
MCWidth == [p \in MCPacks |-> 1]
=============================================================================
