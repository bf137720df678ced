\* One localized output; two edits of any kind at any time.
CONSTANTS
  en = en
  fr = fr
  Source = en
  Language <- OneLanguage
  MaxEdits = 2
SPECIFICATION Spec
INVARIANTS
  StopsOnlyForPeople
  JudgesAgree
PROPERTIES
  ReachesCompletion
CHECK_DEADLOCK FALSE
