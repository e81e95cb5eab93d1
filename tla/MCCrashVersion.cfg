SPECIFICATION FairSpec
CONSTANTS
  Nil = Nil
  TagKeys <- MCTagKeys
  TagValues = {"v1", "v2"}
  AWSTagKeys = {"a"}
  SystemTagKeys = {"d"}
  DefaultTags <- MCDefaultTags
  Docs = {"d1", "d2"}
  Formats = {"f1", "f2"}
  Names = {"sm"}
  RoleARNs = {"role1"}
  RoleRefs = {"ref"}
  DestLists <- MCDestLists
  Specs <- PublishSpecs
  DriftConfigs = {}
  DriftTags = {}
  Faults = {"crash"}
  MaxEdits = 2
  MaxOutOfBand = 0
  MaxFaults = 1
PROPERTY RecordedVersionRecovers
CHECK_DEADLOCK FALSE
