----------------------------- MODULE MCRunPipeline -----------------------------
(* RunPipeline for TLC: two providers. *)
EXTENDS RunPipeline

CONSTANTS p1, p2
===============================================================================
