SPECIFICATION FairSpec
CONSTANTS
  Nil = Nil
  TagKeys <- MCTagKeys
  TagValues = {"v1", "v2"}
  AWSTagKeys = {"a"}
  SystemTagKeys = {"d"}
  DefaultTags <- MCDefaultTags
  Docs = {"d1", "d2"}
  Formats = {"f1", "f2"}
  Names = {"sm"}
  RoleARNs = {"role1"}
  RoleRefs = {"ref"}
  DestLists <- MCDestLists
  Specs <- TagSpecs
  DriftConfigs = {}
  DriftTags <- MCDriftTags
  Faults = {"error", "lost", "status", "crash"}
  MaxEdits = 3
  MaxOutOfBand = 2
  MaxFaults = 2
INVARIANT CreateOnlyWhenAbsent
PROPERTIES AWSTagsOnlyChangeOutOfBand TagsConverge DeletionCompletes
CHECK_DEADLOCK FALSE
