SPECIFICATION FairSpec
CONSTANTS
  Nil = Nil
  Versions = {"v1", "v2"}
  Descriptions = {"x", "y"}
  Specs <- MCSpecs
  DriftRoutings <- MCDriftRoutings
  Int32Values = 256
  TotalWeight = 100
  Faults = {"error", "lost", "status", "crash"}
  MaxEdits = 3
  MaxOutOfBand = 2
  MaxFaults = 1
INVARIANTS TypeOK RoutedAsWritten
PROPERTIES AliasKeepsFinalizerPromise AliasSettlesOrReports AliasDeletionCompletes
CHECK_DEADLOCK FALSE
