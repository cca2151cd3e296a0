\* One crash between two statements of a start.
SPECIFICATION FairSpec
CONSTANTS
  Releases = {15}
  Watched = {}
  MaxCrashes = 1
  SelectFails = FALSE
PROPERTY ServesInTheEnd
