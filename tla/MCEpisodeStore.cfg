\* An edit and a pause against passes of four stages; the loop polls fairly.
CONSTANTS
  e1 = e1
  e2 = e2
  Edit <- Requests
  Pausing <- PauseRequest
  Path <- Pass
SPECIFICATION StoreFairSpec
INVARIANTS
  VersionNamesRow
PROPERTIES
  WorkGetsDone
  LossWindow
