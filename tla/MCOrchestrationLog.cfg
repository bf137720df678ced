\* A log of two entries.
CONSTANTS
  LogRetention = 2
  worker = worker
  advance = advance
  edit = edit
  Runner <- MCRunner
  Client <- MCClient
SYMMETRY Symmetry
SPECIFICATION LogSpec
INVARIANT AttemptsNumbered
PROPERTY RetriesOutlastSaves
CHECK_DEADLOCK FALSE
