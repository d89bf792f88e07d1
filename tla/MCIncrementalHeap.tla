------------------------- MODULE MCIncrementalHeap -------------------------
(***************************************************************************)
(* The graph instance of IncrementalHeap: "a" and "b", with an edge each,  *)
(* share a page; the leaf "c" has a page of its own.                       *)
(***************************************************************************)
EXTENDS IncrementalHeap, TLC

MCObjects == {"a", "b", "c"}
MCPages == {"p", "q"}
MCPageOf == ("a" :> "p") @@ ("b" :> "p") @@ ("c" :> "q")
MCArity == ("a" :> 1) @@ ("b" :> 1) @@ ("c" :> 0)
MCPacks == {"set"}
MCWidth == [p \in MCPacks |-> 1]
=============================================================================
