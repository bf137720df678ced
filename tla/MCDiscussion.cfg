\* Three panelists, four briefs: three with time for every turn, one without;
\* a discussion that is started twice.
CONSTANTS
  Host = Host
  N = 3
  Second = 1
  Brief <- Briefs
  MaxRuns = 2
SPECIFICATION FairSpec
INVARIANTS
  ReservationExact
  TimeToConclude
  EverybodyHeard
PROPERTIES
  DiscussionEnds
CHECK_DEADLOCK FALSE
