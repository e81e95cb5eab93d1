SPECIFICATION FairSpec
CONSTANTS
  Nil = Nil
  TagKeys <- MCTagKeys
  TagValues = {"v1", "v2"}
  AWSTagKeys = {"a"}
  SystemTagKeys = {"d"}
  DefaultTags <- MCDefaultTags
  CRs = {"c1", "c2"}
  TagSets <- MCTagSets
  DriftTags <- MCDriftTags
  Faults = {"error", "lost", "status", "crash"}
  MaxEdits = 3
  MaxDisturbances = 1
INVARIANT TypeOK
PROPERTIES OwnersKeepFinalizerPromise SharedActivitySurvives ActivityDeletionCompletes AgreedTagsConverge
CHECK_DEADLOCK FALSE
