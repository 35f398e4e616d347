SPECIFICATION FairSpec
CONSTANTS
  Package = {p}
  Kind = {"listing", "metadata"}
  Caller = {c1}
  MaxRuns = 2
  MaxConcurrency = 1
  OnDemand = {TRUE}
PROPERTY WaitersUnblock
CHECK_DEADLOCK FALSE
