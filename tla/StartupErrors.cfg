SPECIFICATION Spec
CONSTANT
  Programs = {"edge_zero", "edge", "forwarder"}
INVARIANTS
  CleanFailure
  ReleasesWhatItHolds
  EdgeZeroRuns
  OnlyAfterIgnoredFailure
