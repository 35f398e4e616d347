SPECIFICATION PartSpec
CONSTANTS
  c1 = c1
  c2 = c2
  p = p
  q = q
  Package = {p, q}
  Kind = {"listing", "metadata", "range", "sdist", "archive"}
  Caller = {c1, c2}
  MaxRuns = 2
  MaxConcurrency = 2
  OnDemand = {TRUE, FALSE}
INVARIANTS TypeOK SingleFlight WokenInformed
PROPERTIES AnswerStands WaitersWake
