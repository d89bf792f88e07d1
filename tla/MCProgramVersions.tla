--------------------------- MODULE MCProgramVersions ---------------------------
(* Bounded instances of ProgramVersions. *)
EXTENDS ProgramVersions
================================================================================
