\* Two scripts, a plan of two visuals, recordings of two lengths.
CONSTANTS
  Script = {1, 2}
  Version = {1}
  Profile <- Narrators
  ExcludePeople = TRUE
  Target = 4
  Shot = 2
  Margin = 1
  Tolerance = 1
  Length = {5, 6}
  Trim = {4}
  Beats = 2
  MaxBeats = 2
  Offered = {"seen"}
  Media = {"video", "still"}
  Judgement = {"free"}
  Kept = 1
  MaxVoices = 2
  MaxRequests = 7
SPECIFICATION Spec
INVARIANTS
  NarrationReleased
  RenderTellsItsPlan
  ExcerptsReviewed
  ApprovedFits
CHECK_DEADLOCK FALSE
