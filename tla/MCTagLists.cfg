SPECIFICATION Spec
CONSTANTS
  Nil = Nil
  TagKeys <- MCTagKeys
  TagValues = {"", "v"}
  AWSTagKeys = {"a"}
  SystemTagKeys = {"d"}
  DefaultTags <- MCDefaultTags
  MaxTags = 3
  InitialTags <- MCInitialTags
INVARIANTS FilteredTagsAreTheUsers SyncedTagsAreDesired
