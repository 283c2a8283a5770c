----------------------------- MODULE MCJobStream -----------------------------
(* The instance of JobStream for TLC: liveness, so no symmetry.             *)
EXTENDS JobStream

MCPriorities == {0, 1}
=============================================================================
