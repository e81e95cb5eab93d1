---------------------------- MODULE ResourceTags ----------------------------
(***************************************************************************)
(* The tag algebra of the controller: what a reconcile pass does to the    *)
(* tags of a resource between reading the custom resource and calling the  *)
(* AWS tagging API.  A tag set is a map (acktags.Tags, a Go map) and is a  *)
(* total function here: Nil is the value of an absent key.  The list form  *)
(* the custom resource keeps is the subject of module TagLists.            *)
(*                                                                         *)
(* Source: pkg/util/tags.go, pkg/resource/state_machine/{tags,manager}.go  *)
(***************************************************************************)
EXTENDS Pointers

CONSTANTS
  TagKeys,        \* the tag keys of the instance
  TagValues,      \* the tag values of the instance
  AWSTagKeys,     \* the keys that start with "aws:"
  SystemTagKeys,  \* the keys given on startup with --resource-tags
  DefaultTags     \* GetDefaultTags(cfg, ko, md): the tags of that flag

Tags == [TagKeys -> TagValues \cup {Nil}]
NoTags == [k \in TagKeys |-> Nil]
KeysOf(tags) == {k \in TagKeys : tags[k] # Nil}

ASSUME TagConstants ==
  /\ Nil \notin TagValues
  /\ AWSTagKeys \subseteq TagKeys
  /\ SystemTagKeys \subseteq TagKeys
  /\ DefaultTags \in Tags
  /\ KeysOf(DefaultTags) \subseteq SystemTagKeys \ AWSTagKeys

-----------------------------------------------------------------------------
\* acktags.Merge(a, b) (runtime library): the union, a's value wins.
Merge(a, b) == [k \in TagKeys |-> IF a[k] # Nil THEN a[k] ELSE b[k]]

\* manager.EnsureTags: the controller's tags fill in what the user left out.
EnsureTags(tags) == Merge(tags, DefaultTags)

\* Variant: the tags of AWS are not looked at.
NothingMirrored(a, b) == a

\* tags.syncAWSTags: every "aws:" tag of b is copied into a.
syncAWSTags(a, b) ==
  [k \in TagKeys |-> IF k \in AWSTagKeys /\ b[k] # Nil THEN b[k] ELSE a[k]]

\* manager.mirrorAWSTags: the desired tags take over what was observed.
mirrorAWSTags(desired, observed) == syncAWSTags(desired, observed)

\* tags.ignoreSystemTags: the tags of AWS and of the controller go.
ignoreSystemTags(tags) ==
  [k \in TagKeys |-> IF k \in AWSTagKeys \cup SystemTagKeys THEN Nil ELSE tags[k]]

\* manager.FilterSystemTags, before the spec is written back to the cluster.
FilterSystemTags(tags) == ignoreSystemTags(tags)

\* ackcompare.GetTagsDifference(from, to) (runtime library): the keys to write,
\* because they are new or their value changed, and the keys to delete.
TagsAdded(from, to) == {k \in TagKeys : to[k] # Nil /\ to[k] # from[k]}
TagsRemoved(from, to) == {k \in TagKeys : from[k] # Nil /\ to[k] = Nil}

\* util.SyncResourceTags: the two calls it makes, in this order, and what each
\* one leaves in AWS.  A call for an empty set of keys is not made.  (Variant:
\* the tags to remove are computed and then not removed.)
NothingUntagged(tags, keys) == tags
UntagResource(tags, keys) == [k \in TagKeys |-> IF k \in keys THEN Nil ELSE tags[k]]
TagResource(tags, keys, to) == [k \in TagKeys |-> IF k \in keys THEN to[k] ELSE tags[k]]
=============================================================================
