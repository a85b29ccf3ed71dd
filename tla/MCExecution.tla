------------------------------ MODULE MCExecution ------------------------------
(***************************************************************************)
(* Small instances of ExecutionPipeline for TLC.                            *)
(***************************************************************************)
EXTENDS ExecutionPipeline, TLC

\* Jobs and slots are interchangeable: no operator of the pipeline tells one
\* job or one slot from another.  Used by the safety runs only.
Symmetry == Permutations(Jobs) \cup Permutations(Slots)
================================================================================
