---------------------------- MODULE MCVisualJobs ----------------------------
(* Small instances of VisualJobs for TLC. *)
EXTENDS VisualJobs

MCNamed == {TRUE, FALSE}
MCMade == 0..2
=============================================================================
