SPECIFICATION PartSpec
CONSTANTS
  Reader = {"a", "b"}
  Wheel <- MCWheel
  MaxReads = 2
  Headers <- MCHeaders
  Shifts <- MCShifts
  Floors <- MCFloors
  Ceiling = 6
  DefaultAge = 3
  MaxTime = 3
  MaxSets = 1
  NoField <- No
  IndexName = {"main", "alias", "extra"}
  ClientOf <- MCClientOf
  Order <- MCOrder
  Routed = {"a", "b"}
  Pinned <- MCPinned
  Walker = {1, 2}
  MaxCalls = 4
  Nowhere = "nowhere"
  File = {"x", "y", "z"}
  Locks <- MCLocks
  Present <- MCPresent
  Contents = {1, 2, 3}
  MaxFetching = 2
  NoFile = 0
INVARIANTS RoutesHold ReadsSound WindowsHold DownloadSound
PROPERTY CallsEnd
