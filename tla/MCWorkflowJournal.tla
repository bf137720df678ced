-------------------------- MODULE MCWorkflowJournal --------------------------
(* WorkflowJournal with at most one worker stage.                          *)
EXTENDS WorkflowJournal

OneStage == [s \in 1..1 |-> "DISCUSSING"]
=============================================================================
