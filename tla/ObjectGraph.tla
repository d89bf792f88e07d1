---------------------------- MODULE ObjectGraph ----------------------------
(***************************************************************************)
(* Reachability in the managed object graph.  Constant operators only: the *)
(* heap modules pass the object set, the edge function and the roots.      *)
(*                                                                         *)
(* Reachability is the least closed set rather than a recursion, so that a *)
(* proof can bound it by exhibiting one closed set.                        *)
(***************************************************************************)
EXTENDS Naturals

\* The objects stored in the fields of o.
Targets(edges, o, None) == {edges[o][f] : f \in DOMAIN edges[o]} \ {None}

\* S contains everything its members refer to.
ClosedUnder(S, edges, None) == \A o \in S : Targets(edges, o, None) \subseteq S

\* What the objects in From lead to, From included.
Reachable(Objects, edges, None, From) ==
    {o \in Objects : \A S \in SUBSET Objects :
        From \subseteq S /\ ClosedUnder(S, edges, None) => o \in S}
=============================================================================
