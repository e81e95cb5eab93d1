SPECIFICATION FairSpec
CONSTANTS
  Nil = Nil
  TagKeys <- MCTagKeys
  TagValues = {"v1", "v2"}
  AWSTagKeys = {"a"}
  SystemTagKeys = {"d"}
  DefaultTags <- MCDefaultTags
  Docs = {"d1", "d2"}
  Formats = {"f1", "f2"}
  Names = {"sm"}
  RoleARNs = {"role1"}
  RoleRefs = {"ref"}
  DestLists <- MCDestLists
  Specs <- PublishSpecs
  DriftConfigs <- MCDriftConfigs
  DriftTags = {}
  Faults = {"error"}
  MaxEdits = 3
  MaxOutOfBand = 2
  MaxFaults = 1
INVARIANTS TypeOK RecordedVersionHoldsPush NoOrphan
PROPERTIES KeepsFinalizerPromise PublishSettles ConfigConverges
CHECK_DEADLOCK FALSE
