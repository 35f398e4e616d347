SPECIFICATION Spec
CONSTANTS
  Releases <- MCReleases
  Matrices <- MCMatrices
  Target = {"a", "b"}
  MaxAsks = 2
  NoFile = 0
  Candidates <- MCCandidates
  NoPackage = "none"
  Worlds <- MCWorlds
PROPERTY CorruptEndsResolve
