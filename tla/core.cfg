SPECIFICATION Spec
CONSTANTS
  app = app
  lib = lib
  util = util
  Package = {app, lib, util}
  Version = {1, 2, 3}
  ROOT = ROOT
  RootVersion = 1
  NoRange = NoRange
  Absent = Absent
  LookAhead = FALSE
  Widening = FALSE
  AbortThreshold = 1
  MaxIterations = 12
  RestartThreshold = 2
  MaxRestarts = 1
  CulpritThreshold = 2
  TargetedMinConflicts = 2
  MaxTargetedBacktracks = 1
  Problems <- SearchProblems
INVARIANTS
  TypeOK
  ClausesSound
  FailureIsReal
  StampsCurrent
  NoConflictMissed
  RequirementsDerived
  DependenciesKnown
  CandidatesLeft
  TrailShape
  Narrowing
  ConflictSatisfied
PROPERTIES
  KeepsPromise
  ResolutionMovesBack
  BackjumpAsserts
