\* Upgrades of a database, starts that are cut off, and a SELECT that may fail.
SPECIFICATION FairSpec
CONSTANTS
  Releases = {3, 7, 11, 15}
  Watched = {"messages", "Tickets"}
  MaxCrashes = 2
  SelectFails = TRUE
INVARIANTS TypeOK ServesWholeSchema
PROPERTIES DataSurvives ServesUnlessCutOff
