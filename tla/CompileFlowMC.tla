--------------------------- MODULE CompileFlowMC -----------------------------
(***************************************************************************)
(* CompileFlow for TLC.  The switches and the bound come from the .cfg of  *)
(* each run.                                                               *)
(***************************************************************************)
EXTENDS CompileFlow

=============================================================================
