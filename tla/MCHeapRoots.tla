---------------------------- MODULE MCHeapRoots ----------------------------
(***************************************************************************)
(* The roots instance of IncrementalHeap: a node and a leaf, a typed root, *)
(* a pack of two root slots and one slot of the execution source.          *)
(***************************************************************************)
EXTENDS HeapHistory, FiniteSets, TLC

MCObjects == {"a", "c"}
MCPages == {"p", "q"}
MCPageOf == ("a" :> "p") @@ ("c" :> "q")
MCArity == ("a" :> 1) @@ ("c" :> 0)
MCPacks == {"root", "set"}
MCWidth == ("root" :> 1) @@ ("set" :> 2)

\* At most two of the typed root, the pack and the source are in use at a time.
TwoRoots ==
    Cardinality({p \in Packs : packs[p] # "none"} \cup {s \in SourceSlots : source[s] # None}) <= 2
=============================================================================
