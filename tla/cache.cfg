SPECIFICATION Spec
CONSTANTS
  Process = {p}
  MaxListing = 3
  Empty = {2}
  Page = {u1, u2}
  MaxFaults = 2
  None = None
  Corrupt = Corrupt
INVARIANTS TypeOK NotModifiedConfirms EntryCoherent AbsenceIsCurrent
PROPERTY ReadsEnd
