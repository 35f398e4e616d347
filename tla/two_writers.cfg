SPECIFICATION Spec
CONSTANTS
  Process = {p, q}
  MaxListing = 2
  Empty = {}
  Page = {u}
  MaxFaults = 0
  None = None
  Corrupt = Corrupt
INVARIANT NothingOlderConfirmed
