----------------------------- MODULE MCHardening -----------------------------
(***************************************************************************)
(* The hardened pipeline and the transitive scan, which it calls and which *)
(* is called by itself, in one run.  They share no state: a behaviour is a *)
(* scan of any source and disk, or it is a run of the pipeline, before     *)
(* which a source that imports nothing is scanned, as the pipeline does.   *)
(***************************************************************************)
EXTENDS MCHardenedPipeline, MCTransitiveScan

VARIABLE part  \* what this behaviour is about

PipelineRests == claim = (CHOOSE c \in PipelineClaims : TRUE) /\ installed = {}

NothingToScan ==
  entry = Importing(TRUE, <<>>) /\ disk = [f \in Paths |-> NoText("absent")]

HardeningInit ==
  /\ \/ part = "scan" /\ PipelineRests
     \/ part = "pipeline" /\ NothingToScan
  /\ HardenedInit /\ ScanInit

HardeningNext ==
  /\ UNCHANGED part
  /\ \/ part = "scan" /\ ScanNext /\ UNCHANGED hardenedVars
     \/ part = "pipeline" /\ ScanStep /\ UNCHANGED hardenedVars
     \/ part = "pipeline" /\ Ended /\ HardenedNext /\ UNCHANGED scanVars

(* The scan is a loop without waits; nothing makes anybody run a pipeline. *)
HardeningSpec ==
  /\ HardeningInit /\ [][HardeningNext]_<<part, scanVars, hardenedVars>>
  /\ WF_scanVars(ScanStep)
=============================================================================
