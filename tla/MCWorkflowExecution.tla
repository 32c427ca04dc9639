--------------------------- MODULE MCWorkflowExecution ----------------------------
(* Small instance of WorkflowExecution.  Requests, and definitions, are           *)
(* interchangeable.                                                               *)
EXTENDS WorkflowExecution, TLC

Interchangeable == Permutations(Request) \cup Permutations(Definition)
===================================================================================
