SPECIFICATION Spec
CONSTANTS
  Process = {p}
  MaxListing = 1
  Empty = {}
  Page = {u1, u2}
  MaxFaults = 1
  None = None
  Corrupt = Corrupt
INVARIANT BlobFitsPage
