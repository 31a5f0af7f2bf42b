--------------------------- MODULE MCRuntimeLease ---------------------------
(***************************************************************************)
(* Instances of RuntimeLease for TLC: three wrappers, interchangeable      *)
(* where no liveness is asked.                                             *)
(***************************************************************************)
EXTENDS RuntimeLease, TLC

MCProcSymmetry == Permutations(Procs)
=============================================================================
