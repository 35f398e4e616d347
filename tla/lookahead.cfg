SPECIFICATION FairSpec
CONSTANTS
  app = app
  lib = lib
  util = util
  Package = {app, lib, util}
  Version = {1, 2, 3}
  ROOT = ROOT
  RootVersion = 1
  NoRange = NoRange
  Absent = Absent
  LookAhead = TRUE
  Widening = TRUE
  AbortThreshold = 1
  MaxIterations = 16
  RestartThreshold = 2
  MaxRestarts = 1
  CulpritThreshold = 2
  TargetedMinConflicts = 2
  MaxTargetedBacktracks = 1
  Problems <- ScanProblems
INVARIANT ClausesSound
PROPERTIES KeepsPromise Termination
