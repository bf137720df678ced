-------------------------- MODULE MCWorkflowControl --------------------------
(* WorkflowControl on small instances with one worker stage.               *)
EXTENDS WorkflowControl

OneStage == [s \in 1..1 |-> "DISCUSSING"]
=============================================================================
