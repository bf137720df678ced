\* Two timelines, two renders, packages and publish jobs, one crash; the render
\* worker and the deliveries come to an end.
CONSTANTS
  d1 = d1
  Sender <- Senders
  RenderRequest <- Requests
  PreviewExport <- NoPreviewExport
  AutoLive = TRUE
  MaxTimelines = 2
  MaxRenders = 2
  MaxPackages = 2
  MaxJobs = 2
  MaxCrashes = 1
SPECIFICATION FairSpec
INVARIANTS
  OneRequestPerRender
  DeliveriesOnRecord
PROPERTIES
  FinalFollowsReview
  QueueDrains
CHECK_DEADLOCK FALSE
