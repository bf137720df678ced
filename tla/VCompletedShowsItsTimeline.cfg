\* One language; an asset is replaced between the final render and completion.
CONSTANTS
  en = en
  fr = fr
  Source = en
  Language = {}
  MaxEdits = 1
SPECIFICATION Spec
PROPERTIES
  CompletedShowsItsTimeline
CHECK_DEADLOCK FALSE
