------------------------------ MODULE TagLists ------------------------------
(***************************************************************************)
(* The tags of a custom resource as the list they are.  ResourceTags works *)
(* on maps; around every use of a map the code converts a list into one    *)
(* and back, and a Go map forgets the order and the duplicates of a list   *)
(* and is iterated in any order.  This module follows one list through a   *)
(* pass: EnsureTags, mirrorAWSTags, SyncResourceTags, FilterSystemTags.    *)
(*                                                                         *)
(* Source: pkg/resource/state_machine/{tags,manager}.go, pkg/util/tags.go  *)
(***************************************************************************)
EXTENDS ResourceTags, SequencesExt, Naturals

CONSTANTS
  MaxTags,      \* the longest list a user writes
  InitialTags   \* the tags a state machine has before the pass

ASSUME TagListConstants ==
  /\ IsFiniteSet(TagKeys) /\ Nil \notin TagKeys /\ "" \in TagValues
  /\ MaxTags \in Nat /\ InitialTags \subseteq Tags

Tag == [key : TagKeys \cup {Nil}, value : TagValues \cup {Nil}]

ValueOf(tag) == IF tag.value = Nil THEN "" ELSE tag.value

\* Variant: a tag without a value is skipped like one without a key.
ValuelessSkipped(tags) ==
  [k \in TagKeys |->
     LET last == SelectLastInSeq(tags, LAMBDA t : t.key = k)
     IN IF last = 0 THEN Nil ELSE tags[last].value]

\* tags.convertToOrderedACKTags: the map (the last of several equal keys wins,
\* a tag without a key is skipped, a nil value is the empty string) ...  It
\* would dereference an element that is nil, which util.toACKTags skips; neither
\* the schema of the custom resource nor AWS allows one, and Tag has none.
ConvertedTags(tags) ==
  [k \in TagKeys |->
     LET last == SelectLastInSeq(tags, LAMBDA t : t.key = k)
     IN IF last = 0 THEN Nil ELSE ValueOf(tags[last])]

\* ... and the keys a list has; the order convertToOrderedACKTags returns with
\* the map is that of the list.
KeysIn(tags) == {k \in TagKeys : \E i \in DOMAIN tags : tags[i].key = k}

\* The first loop of fromACKTags: the keys of the list that the map has, in the
\* list's order, and once each because a key is deleted when it is written.
\* (Variant: as often as the list has it.)
KeysRepeated(tags, list) ==
  SelectSeq([i \in DOMAIN list |-> list[i].key],
            LAMBDA k : IF k = Nil THEN FALSE ELSE tags[k] # Nil)

KeysWritten(tags, list) ==
  LET written[n \in 0 .. Len(list)] ==
        IF n = 0 THEN <<>>
        ELSE IF \/ list[n].key \notin KeysOf(tags)
                \/ Contains(written[n - 1], list[n].key)
          THEN written[n - 1]
        ELSE Append(written[n - 1], list[n].key)
  IN written[Len(list)]

\* tags.fromACKTags: these keys first, then the others in the order the map
\* happens to be iterated in.
fromACKTags(tags, list) ==
  LET written == KeysWritten(tags, list)
  IN {[i \in DOMAIN keys |-> [key |-> keys[i], value |-> tags[keys[i]]]] :
        keys \in {written \o p : p \in SetToSeqs(KeysOf(tags) \ ToSet(written))}}

\* util.toACKTags: the conversion SyncResourceTags uses, written separately.
toACKTags(tags) ==
  LET m[n \in 0 .. Len(tags)] ==
        IF n = 0 THEN NoTags
        ELSE IF tags[n].key = Nil THEN m[n - 1]
        ELSE [m[n - 1] EXCEPT ![tags[n].key] = ValueOf(tags[n])]
  IN m[Len(tags)]

-----------------------------------------------------------------------------
VARIABLES
  spec,    \* the list the user wrote
  tags,    \* the list in the pass's copy of the custom resource
  latest,  \* the list read from AWS
  aws,     \* the tags in AWS
  aws0,    \* ghost: the tags in AWS before the pass
  pc       \* the next step of the pass

vars == <<spec, tags, latest, aws, aws0, pc>>

\* AWS refuses "aws:" keys from the user.
Init ==
  /\ spec \in {s \in BoundedSeq(Tag, MaxTags) : KeysIn(s) \cap AWSTagKeys = {}}
  /\ aws \in InitialTags /\ aws0 = aws
  /\ tags = spec /\ latest = <<>> /\ pc = "ensure"

\* manager.EnsureTags
Ensure ==
  /\ pc = "ensure" /\ pc' = "list"
  /\ tags' \in fromACKTags(EnsureTags(ConvertedTags(tags)), tags)
  /\ UNCHANGED <<spec, latest, aws, aws0>>

\* util.GetResourceTags: one element per tag, in the order AWS lists them.
GetResourceTags ==
  /\ pc = "list" /\ pc' = "mirror"
  /\ latest' \in fromACKTags(aws, <<>>)
  /\ UNCHANGED <<spec, tags, aws, aws0>>

\* manager.mirrorAWSTags
Mirror ==
  /\ pc = "mirror" /\ pc' = "sync"
  /\ tags' \in fromACKTags(mirrorAWSTags(ConvertedTags(tags), ConvertedTags(latest)), tags)
  /\ UNCHANGED <<spec, latest, aws, aws0>>

\* util.SyncResourceTags, called when customPreCompare's difference is not empty.
Sync ==
  /\ pc = "sync" /\ pc' = "filter"
  /\ LET from == ConvertedTags(latest)
         to   == ConvertedTags(tags) IN
     aws' = IF TagsAdded(from, to) \cup TagsRemoved(from, to) = {} THEN aws
            ELSE LET f == toACKTags(latest)
                     t == toACKTags(tags)
                 IN TagResource(UntagResource(aws, TagsRemoved(f, t)), TagsAdded(f, t), t)
  /\ UNCHANGED <<spec, tags, latest, aws0>>

\* manager.FilterSystemTags, before the list goes back to the cluster.
Filter ==
  /\ pc = "filter" /\ pc' = "done"
  /\ tags' \in fromACKTags(FilterSystemTags(ConvertedTags(tags)), tags)
  /\ UNCHANGED <<spec, latest, aws, aws0>>

\* The next pass over the same custom resource.
Again ==
  /\ pc = "done" /\ pc' = "ensure"
  /\ tags' = spec /\ latest' = <<>> /\ aws0' = aws
  /\ UNCHANGED <<spec, aws>>

Next == Ensure \/ GetResourceTags \/ Mirror \/ Sync \/ Filter \/ Again
Spec == Init /\ [][Next]_vars

-----------------------------------------------------------------------------
UserKeys == KeysIn(spec)
FirstOf(k) == SelectInSeq(spec, LAMBDA t : t.key = k)

\* What goes back to the cluster is what the user wrote, however Go iterates
\* its maps: each of the user's keys once, with the last value given for it, in
\* the order of the list, and no tag of the controller's or of AWS's
\* (tags.go 57-60, manager.go 303-316).
FilteredTagsAreTheUsers ==
  pc = "done" =>
    /\ KeysIn(tags) = UserKeys \ (SystemTagKeys \cup AWSTagKeys)
    /\ \A i, j \in DOMAIN tags : i < j => FirstOf(tags[i].key) < FirstOf(tags[j].key)
    /\ \A i \in DOMAIN tags :
         \E j \in DOMAIN spec :
           /\ spec[j].key = tags[i].key /\ ValueOf(spec[j]) = tags[i].value
           /\ \A l \in j + 1 .. Len(spec) : spec[l].key # tags[i].key

\* After a sync AWS has every tag of the user's, the controller's default for
\* the keys the user left out, its own "aws:" tags as they were, and nothing
\* else: the two conversions of a list into a map agree.
SyncedTagsAreDesired ==
  pc \in {"filter", "done"} =>
    \A k \in TagKeys :
      aws[k] = IF k \in AWSTagKeys THEN aws0[k]
               ELSE IF k \in UserKeys
                 THEN ValueOf(spec[SelectLastInSeq(spec, LAMBDA t : t.key = k)])
                 ELSE DefaultTags[k]
=============================================================================
