----------------------------- MODULE MCWorkflow -----------------------------
(* WorkflowRun for TLC: the approval calls are interchangeable.              *)
EXTENDS WorkflowRun, TLC

Interchangeable == Permutations(Submitters)

\* Bound: the stores fail only while the run is at its first plan.
FailuresEarly == failures = {} \/ planned <= 1
=============================================================================
