----------------------------- MODULE MCPipeline -----------------------------
(***************************************************************************)
(* Pipeline for TLC: with one configuration, under which a PDF may fit, be *)
(* optimised, be refused by Azure in either form, or be given up because   *)
(* Ghostscript leaves it above the maximum.  Submission is checked with    *)
(* all configurations.                                                     *)
(***************************************************************************)
EXTENDS Pipeline

MCInit == PipelineInit /\ config = [threshold |-> 0, max |-> 1]
MCSpec == MCInit /\ [][PipelineNext]_all
=============================================================================
