------------------------- MODULE MCOrchestrationLog -------------------------
(***************************************************************************)
(* A small log with a polling worker, a request that advances the episode, *)
(* and another request.  Which of the two runners is which makes no        *)
(* difference to the properties, which are all of safety.                  *)
(***************************************************************************)
EXTENDS OrchestrationLog, TLC

CONSTANTS worker, advance, edit

MCRunner == {worker, advance}
MCClient == {edit}

Symmetry == Permutations(MCRunner)

=============================================================================
