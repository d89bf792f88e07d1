------------------------- MODULE MCStructuredGroups -------------------------
(***************************************************************************)
(* A root execution whose group has a group in turn: five executions, on   *)
(* three levels, with a panic at any of the steps.                         *)
(***************************************************************************)
EXTENDS StructuredGroups
=============================================================================
