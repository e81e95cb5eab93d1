SPECIFICATION PushSpec
CONSTANTS
  Nil = Nil
  TagKeys <- MCTagKeys
  TagValues = {"v"}
  AWSTagKeys = {}
  SystemTagKeys = {}
  DefaultTags <- MCNoTags
  Docs = {"d1", "d2"}
  Formats = {"f1", "f2"}
  Names = {"sm"}
  RoleARNs = {"role1", "role2"}
  RoleRefs = {"ref"}
  DestLists <- MCDestLists
  PushedSpecs <- MCSpecs
  StoredConfigs <- MCConfigs
INVARIANT UnchangedSpecHasNoDelta
