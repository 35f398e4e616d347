SPECIFICATION LockSpec
CONSTANTS
  Declarations <- LockDeclarations
  Published <- PublishedBack
  Projects <- LockProjects
  Releases = {1, 2}
  Environments <- LockEnvironments
  MaxEdits = 2
  Missing = 0
INVARIANT AcceptedMeans
