---------------------------- MODULE MCDiscussion ----------------------------
(* Discussion with three panelists, in a roomy, a just roomy and a tight   *)
(* episode, with and without bridge and cross examination.                 *)
EXTENDS Discussion

Briefs ==
  {[maximum |-> 16, monologue |-> 4, bridge |-> 3, high |-> FALSE],
   [maximum |-> 15, monologue |-> 2, bridge |-> 1, high |-> TRUE],
   [maximum |-> 13, monologue |-> 3, bridge |-> 0, high |-> FALSE],
   [maximum |-> 10, monologue |-> 3, bridge |-> 3, high |-> FALSE]}
=============================================================================
