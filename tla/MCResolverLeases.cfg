SPECIFICATION LeasesSpec
CONSTANTS
  Ids = {c1, c2, c3}
  MaxInFlight = 2
  MaxLeases = 1
  MaxFiles = 1
  PerSecret = 1
SYMMETRY Interchangeable
INVARIANTS
  GivenPathsExist
  SettledCalls
  ReleasedMeansEmpty
