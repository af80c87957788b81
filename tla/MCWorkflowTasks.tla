--------------------------- MODULE MCWorkflowTasks ---------------------------
(***************************************************************************)
(* WorkflowTasks on a small instance: two processors and any three events  *)
(* around the first task.                                                  *)
(***************************************************************************)
EXTENDS WorkflowTasks
=============================================================================
