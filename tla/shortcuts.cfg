SPECIFICATION PartSpec
CONSTANTS
  app = app
  lib = lib
  util = util
  Package = {app, lib, util}
  Version = {1, 2, 3}
  ROOT = ROOT
  RootVersion = 1
  NoRange = NoRange
  Absent = Absent
  LookAhead = TRUE
  Widening = FALSE
  AbortThreshold = 1
  MaxIterations = 4
  Problems <- TrialProblems
  Preferences <- MCPreferences
  Decidable = {"p", "p[x]", "q"}
  BaseOf <- MCBaseOf
  Matching <- MCMatching
  Place <- MCPlace
  RebuildMinimum = 1
  MaxMoves = 2
  FullRange = 2
  Nobody = "nobody"
  Declarations <- LockDeclarations
  Published <- MCPublished
  Projects <- LockProjects
  Releases = {1, 2}
  Environments <- LockEnvironments
  MaxEdits = 2
  Missing = 0
INVARIANTS TrialSound QueueSound VerdictHolds
