------------------------- MODULE StateMachineProofs -------------------------
(***************************************************************************)
(* What holds of StateMachine for every value of its constants: its types, *)
(* its safety properties, and that it implements ManagedResource.  Two of  *)
(* the safety properties hold whatever goes wrong; the other two and the   *)
(* implementation hold as long as no answer of AWS is lost and the         *)
(* controller does not stop in the middle of a pass, and the runs          *)
(* crash_orphan and crash_version show that they need that.                *)
(***************************************************************************)
EXTENDS StateMachine, StateMachinePush, TLAPS

-----------------------------------------------------------------------------
(* Types of the conversions.                                               *)

LEMMA EnsureTagsType ==
  ASSUME NEW t \in Tags PROVE EnsureTags(t) \in Tags
BY TagConstants DEF EnsureTags, Merge, Tags

LEMMA MirrorType ==
  ASSUME NEW a \in Tags, NEW b \in Tags PROVE mirrorAWSTags(a, b) \in Tags
BY DEF mirrorAWSTags, syncAWSTags, Tags

LEMMA TagCallsType ==
  ASSUME NEW a \in Tags, NEW b \in Tags, NEW K
  PROVE  UntagResource(a, K) \in Tags /\ TagResource(a, K, b) \in Tags
BY DEF UntagResource, TagResource, Tags

LEMMA LoggingPayloadStored ==
  ASSUME NEW l \in LoggingSpec
  PROVE  /\ LoggingPayload(l) # Nil
         /\ StoredLogging(LoggingPayload(l))
              \in [dests : DestLists, ied : Bools, level : Levels]
<1>1. LoggingPayload(l) \in LoggingRequest /\ l # Nil
  BY FieldConstants DEF LoggingSpec, LoggingRequest, LoggingPayload, Deref, Ptr, Bools
<1>2. LoggingPayload(l) # Nil
  BY <1>1, FieldConstants
<1>3. QED
  BY <1>1, <1>2, FieldConstants DEF LoggingRequest, StoredLogging, Deref, Ptr, Levels

LEMMA CreateConfigType ==
  ASSUME NEW s \in StateMachineSpec
  PROVE  CreateConfig(newCreateRequestPayload(s)) \in Config
BY FieldConstants, LoggingPayloadStored, ZenonT(60)
   DEF CreateConfig, newCreateRequestPayload, Config, StateMachineSpec, TracingPayload,
       Ptr, Deref, TracingSpec, Bools, Levels, Types, LoggingPayload

LEMMA UpdateConfigType ==
  ASSUME NEW c \in Config, NEW s \in StateMachineSpec
  PROVE  UpdateConfig(c, newUpdateRequestPayload(s)) \in Config
BY FieldConstants, LoggingPayloadStored, ZenonT(60)
   DEF UpdateConfig, newUpdateRequestPayload, Config, StateMachineSpec, TracingPayload,
       Ptr, Deref, TracingSpec, Bools, Levels, Types, LoggingPayload

LEMMA DescribeIntoType ==
  ASSUME NEW c \in Config, NEW s \in StateMachineSpec
  PROVE  DescribeInto(s, c) \in StateMachineSpec
BY DEF DescribeInto, Config, StateMachineSpec, LoggingSpec, TracingSpec, Ptr

LEMMA DeltaType ==
  ASSUME NEW a, NEW b, NEW v PROVE newResourceDelta(a, b, v) \in SUBSET Paths
BY DEF newResourceDelta, customPreCompare, Differs, LoggingDelta, TracingDelta, Paths

-----------------------------------------------------------------------------
(* What the conversions do together.                                       *)

LEMMA LoggingPushed ==
  ASSUME NEW l \in LoggingSpec
  PROVE  LoggingDelta(l, [dests |-> StoredLogging(LoggingPayload(l)).dests,
                          ied |-> StoredLogging(LoggingPayload(l)).ied,
                          level |-> StoredLogging(LoggingPayload(l)).level])
           = (IF l.ied = Nil THEN {"Spec.LoggingConfiguration.IncludeExecutionData"} ELSE {})
             \cup (IF l.level = Nil THEN {"Spec.LoggingConfiguration.Level"} ELSE {})
<1> DEFINE s == StoredLogging(LoggingPayload(l))
           b == [dests |-> s.dests, ied |-> s.ied, level |-> s.level]
<1>1. l # Nil /\ b # Nil
  BY FieldConstants, LoggingPayloadStored DEF LoggingSpec, Ptr
<1>2. /\ b.dests = Deref(l.dests, <<>>) /\ b.ied = Deref(l.ied, "false")
      /\ b.level = IF Deref(l.level, "") = "" THEN "OFF" ELSE l.level
  BY <1>1 DEF LoggingPayload, StoredLogging, Deref
<1>3. b.dests # Nil /\ "OFF" # Nil /\ "false" # Nil /\ (l.level # Nil => l.level # "")
  BY <1>2, FieldConstants DEF LoggingSpec, Deref, Ptr, Bools, Levels
<1> HIDE DEF b
<1>4. QED
  BY <1>1, <1>2, <1>3 DEF LoggingDelta, Differs, Deref, b

LEMMA TracingPushed ==
  ASSUME NEW t \in TracingSpec
  PROVE  /\ TracingPayload(t) # Nil
         /\ TracingDelta(t, [enabled |-> TracingPayload(t).enabled])
              = IF t.enabled = Nil THEN {"Spec.TracingConfiguration.Enabled"} ELSE {}
<1>1. t # Nil /\ TracingPayload(t) \in [enabled : Bools]
  BY FieldConstants DEF TracingSpec, TracingPayload, Deref, Ptr, Bools
<1>2. TracingPayload(t) \in TracingSpec /\ [enabled |-> TracingPayload(t).enabled] \in TracingSpec
  BY <1>1 DEF TracingSpec, Ptr
<1>3. QED
  BY <1>1, <1>2, FieldConstants DEF TracingDelta, TracingPayload, Differs, Deref, Bools

\* The delta, field by field, of a spec and what AWS stores.
LEMMA DeltaOfStored ==
  ASSUME NEW s \in StateMachineSpec, NEW c \in Config, NEW v
  PROVE  newResourceDelta(s, DescribeInto(s, c), v) =
           (IF s.publish = "true" /\ v = Nil THEN {"Spec.Publish"} ELSE {})
           \cup Differs("Spec.Definition", s.definition.doc, c.definition.doc)
           \cup LoggingDelta(s.logging, [dests |-> c.logging.dests, ied |-> c.logging.ied,
                                         level |-> c.logging.level])
           \cup Differs("Spec.Name", s.name, c.name)
           \cup Differs("Spec.RoleARN", s.roleARN, c.roleARN)
           \cup TracingDelta(s.tracing, [enabled |-> c.tracing.enabled])
           \cup Differs("Spec.Type", s.type, c.type)
<1> DEFINE d == DescribeInto(s, c)
<1>1. /\ d.definition = c.definition /\ d.name = c.name /\ d.roleARN = c.roleARN /\ d.type = c.type
      /\ d.logging = [dests |-> c.logging.dests, ied |-> c.logging.ied, level |-> c.logging.level]
      /\ d.tracing = [enabled |-> c.tracing.enabled]
      /\ d.tags = s.tags /\ d.roleRef = s.roleRef
  BY DEF DescribeInto, StateMachineSpec
<1> HIDE DEF d
<1>2. TagsAdded(d.tags, s.tags) \cup TagsRemoved(d.tags, s.tags) = {}
  BY <1>1 DEF TagsAdded, TagsRemoved
<1>3. Differs("Spec.RoleRef", s.roleRef, d.roleRef) = {}
  BY <1>1 DEF Differs
<1>4. customPreCompare(s, d, v) = IF s.publish = "true" /\ v = Nil THEN {"Spec.Publish"} ELSE {}
  BY <1>2 DEF customPreCompare
<1>5. QED
  BY <1>1, <1>3, <1>4 DEF newResourceDelta, d

\* What a configuration owes to the push of a spec.
Pushed(s, c) ==
  /\ c \in Config /\ c.definition = s.definition
  /\ s.logging # Nil => c.logging = StoredLogging(LoggingPayload(s.logging))
  /\ s.tracing # Nil => c.tracing = TracingPayload(s.tracing)
  /\ s.roleARN # Nil => c.roleARN = s.roleARN

LEMMA PushedLeavesUnpushable ==
  ASSUME NEW s \in StateMachineSpec, NEW c, Pushed(s, c), NEW v
  PROVE  OnlyUnpushableLeft(s, c, v)
<1>1. LoggingDelta(s.logging, [dests |-> c.logging.dests, ied |-> c.logging.ied, level |-> c.logging.level])
        = IF s.logging = Nil THEN {"Spec.LoggingConfiguration"}
          ELSE (IF s.logging.ied = Nil THEN {"Spec.LoggingConfiguration.IncludeExecutionData"} ELSE {})
               \cup (IF s.logging.level = Nil THEN {"Spec.LoggingConfiguration.Level"} ELSE {})
  <2>1. CASE s.logging = Nil
    <3>1. [dests |-> c.logging.dests, ied |-> c.logging.ied, level |-> c.logging.level] \in LoggingSpec
      BY DEF Pushed, Config, LoggingSpec, Ptr
    <3>2. QED
      BY <2>1, <3>1, FieldConstants DEF LoggingDelta
  <2>2. CASE s.logging # Nil
    BY <2>2, LoggingPushed DEF Pushed, StateMachineSpec, Ptr
  <2>3. QED
    BY <2>1, <2>2
<1>2. TracingDelta(s.tracing, [enabled |-> c.tracing.enabled])
        = IF s.tracing = Nil THEN {"Spec.TracingConfiguration"}
          ELSE IF s.tracing.enabled = Nil THEN {"Spec.TracingConfiguration.Enabled"} ELSE {}
  <2>1. CASE s.tracing = Nil
    <3>1. [enabled |-> c.tracing.enabled] \in TracingSpec
      BY DEF Pushed, Config, TracingSpec, Ptr
    <3>2. QED
      BY <2>1, <3>1, FieldConstants DEF TracingDelta
  <2>2. CASE s.tracing # Nil
    BY <2>2, TracingPushed DEF Pushed, StateMachineSpec, Ptr
  <2>3. QED
    BY <2>1, <2>2
<1>3. Differs("Spec.Definition", s.definition.doc, c.definition.doc) = {}
  BY DEF Differs, Pushed
<1>4. Differs("Spec.RoleARN", s.roleARN, c.roleARN)
        = IF s.roleARN = Nil /\ c.roleARN # Nil THEN {"Spec.RoleARN"} ELSE {}
  BY DEF Differs, Pushed
<1>5. c \in Config
  BY DEF Pushed
<1>6. QED
  BY <1>1, <1>2, <1>3, <1>4, <1>5, DeltaOfStored DEF OnlyUnpushableLeft, UnpushablePaths, Differs

\* A push, by create or by update, whatever was stored before, leaves nothing to
\* push again but what no request can carry (sdk.go 259-328, hooks.go 206-259):
\* no field of the spec is lost between the two payloads, the defaults of AWS,
\* the reading back and the delta.
THEOREM PushLeavesNothingElse ==
  ASSUME NEW s \in StateMachineSpec, NEW v
  PROVE  /\ OnlyUnpushableLeft(s, CreateConfig(newCreateRequestPayload(s)), v)
         /\ \A c \in Config : OnlyUnpushableLeft(s, UpdateConfig(c, newUpdateRequestPayload(s)), v)
<1>1. s.logging # Nil => LoggingPayload(s.logging) # Nil
  BY LoggingPayloadStored DEF StateMachineSpec, Ptr
<1>2. s.tracing # Nil => TracingPayload(s.tracing) # Nil
  BY TracingPushed DEF StateMachineSpec, Ptr
<1>3. Pushed(s, CreateConfig(newCreateRequestPayload(s)))
  BY <1>1, <1>2, CreateConfigType DEF Pushed, CreateConfig, newCreateRequestPayload, Deref
<1>4. ASSUME NEW c \in Config PROVE Pushed(s, UpdateConfig(c, newUpdateRequestPayload(s)))
  BY <1>1, <1>2, UpdateConfigType DEF Pushed, UpdateConfig, newUpdateRequestPayload, Deref
<1>5. QED
  BY <1>3, <1>4, PushedLeavesUnpushable

PushInv ==
  /\ userSpec \in StateMachineSpec /\ stored \in Config \cup {Nil}
  /\ PushLeavesOnlyUnpushable

\* After a push of any spec the next pass sees exactly the differences that no
\* push can remove, whatever AWS had stored (hooks.go 200-205, delta.go 49).
THEOREM PushIsComplete == PushSpec => []PushLeavesOnlyUnpushable
<1> USE DEF PushInv, PushLeavesOnlyUnpushable
<1>1. PushInit => PushInv
  BY PushConstants DEF PushInit
<1>2. PushInv /\ [PushNext]_pushVars => PushInv'
  <2> SUFFICES ASSUME PushInv, [PushNext]_pushVars PROVE PushInv'
    OBVIOUS
  <2>1. CASE Create
    <3>1. CreateConfig(newCreateRequestPayload(userSpec)) \in Config
      BY CreateConfigType
    <3>2. QED
      BY <2>1, <3>1, PushLeavesNothingElse DEF Create
  <2>2. CASE Update
    <3>1. stored \in Config /\ UpdateConfig(stored, newUpdateRequestPayload(userSpec)) \in Config
      BY <2>2, UpdateConfigType DEF Update
    <3>2. QED
      BY <2>2, <3>1, PushLeavesNothingElse DEF Update
  <2>3. CASE Settled \/ UNCHANGED pushVars
    BY <2>3 DEF Settled, pushVars
  <2>4. QED
    BY <2>1, <2>2, <2>3 DEF PushNext
<1>3. PushInv => PushLeavesOnlyUnpushable
  OBVIOUS
<1>4. QED
  BY <1>1, <1>2, <1>3, PTL DEF PushSpec

\* One pass over the tags, whatever the user wrote, the pass observed and AWS has
\* by the time of the calls (util/tags.go 73-131, manager.go 284-357): with nothing
\* changed in between AWS ends up with the desired tags; a tag that the pass saw
\* as desired is left as somebody else may have made it, so are all of AWS's own;
\* and what goes back to the cluster is the user's part.
THEOREM TagSyncIsExact ==
  ASSUME NEW user \in Tags, \A k \in AWSTagKeys : user[k] = Nil,
         NEW observed \in Tags, NEW actual \in Tags, NEW want,
         want = mirrorAWSTags(EnsureTags(user), observed),
         NEW synced,
         synced = TagResource(UntagResource(actual, TagsRemoved(observed, want)),
                              TagsAdded(observed, want), want)
  PROVE  /\ actual = observed => synced = want
         /\ \A k \in TagKeys : observed[k] = want[k] => synced[k] = actual[k]
         /\ \A k \in AWSTagKeys : synced[k] = actual[k]
         /\ FilterSystemTags(want) = FilterSystemTags(user)
<1>1. want \in Tags /\ synced \in Tags
  BY EnsureTagsType, MirrorType, TagCallsType
<1>2. \A k \in TagKeys :
        synced[k] = IF want[k] # Nil /\ want[k] # observed[k] THEN want[k]
                    ELSE IF observed[k] # Nil /\ want[k] = Nil THEN Nil ELSE actual[k]
  BY DEF TagResource, UntagResource, TagsRemoved, TagsAdded
<1>3. \A k \in TagKeys :
        want[k] = IF k \in AWSTagKeys /\ observed[k] # Nil THEN observed[k]
                  ELSE IF user[k] # Nil THEN user[k] ELSE DefaultTags[k]
  BY DEF mirrorAWSTags, syncAWSTags, EnsureTags, Merge
<1>4. \A k \in AWSTagKeys : k \in TagKeys /\ DefaultTags[k] = Nil
  BY TagConstants DEF KeysOf
<1>5. \A k \in AWSTagKeys : observed[k] = want[k]
  BY <1>3, <1>4
<1>6. \A k \in TagKeys : observed[k] = want[k] => synced[k] = actual[k]
  BY <1>2
<1>7. ASSUME actual = observed PROVE synced = want
  <2>1. \A k \in TagKeys : synced[k] = want[k]
    BY <1>2, <1>7
  <2>2. QED
    BY <1>1, <2>1 DEF Tags
<1>8. FilterSystemTags(want) = FilterSystemTags(user)
  <2>1. \A k \in TagKeys \ (AWSTagKeys \cup SystemTagKeys) : want[k] = user[k]
    BY <1>3, TagConstants DEF KeysOf, Tags
  <2>2. QED
    BY <2>1 DEF FilterSystemTags, ignoreSystemTags
<1>9. QED
  BY <1>4, <1>5, <1>6, <1>7, <1>8

-----------------------------------------------------------------------------
(* Types of the custom resource.                                           *)

LEMMA WithTagsType ==
  ASSUME NEW r \in Resource, NEW t \in Tags
  PROVE  /\ WithTags(r, t) \in Resource
         /\ WithTags(r, t).ver = r.ver
         /\ WithTags(r, t).arn = r.arn
         /\ WithTags(r, t).phase = r.phase
         /\ WithTags(r, t).finalizers = r.finalizers
         /\ WithTags(r, t).spec.tags = t
BY DEF WithTags, Resource, StateMachineSpec

LEMMA UnmanagedType ==
  ASSUME NEW r \in Resource \cup {Nil}
  PROVE  /\ Unmanaged(r) \in Resource \cup {Nil}
         /\ Unmanaged(r) # Nil => r # Nil /\ Unmanaged(r).ver = r.ver /\ r.phase = "live"
BY StateMachineConstants DEF Unmanaged, Resource

-----------------------------------------------------------------------------
(* Type correctness.                                                       *)

\* A push keeps AWS well-typed and never loses a version's number.
LEMMA PushType ==
  ASSUME TypeOK, NEW c \in Config, NEW t \in Tags, NEW p,
         NEW rv \in DOMAIN vers \cup {Nil}, Push(c, t, p, rv)
  PROVE  /\ sm' \in Machine
         /\ sm'.revver \in DOMAIN vers' \cup {Nil}
         /\ vers' \in Seq(Config \cup {Nil})
         /\ pushed' \in Config
         /\ DOMAIN vers \subseteq DOMAIN vers'
         /\ PublishedVersion(p, rv) \in (DOMAIN vers' \cup {Nil}) \cap (Nat \cup {Nil})
<1> DEFINE v == PublishedVersion(p, rv)
<1>1. /\ vers \in Seq(Config \cup {Nil})
      /\ Len(vers) \in Nat
      /\ DOMAIN vers = 1 .. Len(vers)
      /\ Append(vers, c) \in Seq(Config \cup {Nil})
      /\ DOMAIN Append(vers, c) = 1 .. (Len(vers) + 1)
  BY DEF TypeOK
<1>2. v \in DOMAIN vers \cup {Nil, Len(vers) + 1}
  BY <1>1 DEF PublishedVersion
<1>3. v \in Nat \cup {Nil} /\ rv \in Nat \cup {Nil}
  BY <1>1, <1>2
<1>4. vers' = IF v # Nil /\ v = Len(vers) + 1 THEN Append(vers, c) ELSE vers
  BY DEF Push
<1>5. DOMAIN vers \subseteq DOMAIN vers' /\ v \in DOMAIN vers' \cup {Nil}
  BY <1>1, <1>2, <1>4
<1>6. vers' \in Seq(Config \cup {Nil})
  BY <1>1, <1>4
<1>7. sm' = [status |-> "active", cfg |-> c, tags |-> t,
             revver |-> IF v = Nil THEN rv ELSE v] /\ pushed' = c
  BY DEF Push
<1>8. sm' \in Machine /\ sm'.revver \in DOMAIN vers' \cup {Nil}
  BY <1>3, <1>5, <1>7 DEF Machine
<1>9. QED
  BY <1>3, <1>5, <1>6, <1>7, <1>8

LEMMA UpdateEffectType ==
  ASSUME TypeOK, pc = "update", Active, UpdateEffect
  PROVE  /\ sm' \in Machine
         /\ sm'.revver \in DOMAIN vers' \cup {Nil}
         /\ vers' \in Seq(Config \cup {Nil})
         /\ pushed' \in Config
         /\ DOMAIN vers \subseteq DOMAIN vers'
         /\ MirrorVersion(desired, PublishedVersion(UpdatePublish, UpdatedRevver)) \in Resource
         /\ MirrorVersion(desired, PublishedVersion(UpdatePublish, UpdatedRevver)).ver
              \in DOMAIN vers' \cup {Nil}
<1>1. desired \in Resource /\ sm \in Machine /\ sm # Nil
  BY DEF TypeOK, Active
<1>2. UpdatedConfig \in Config /\ sm.tags \in Tags
  BY <1>1, UpdateConfigType DEF UpdatedConfig, Resource, Machine
<1>3. UpdatedRevver \in DOMAIN vers \cup {Nil}
  BY <1>1 DEF UpdatedRevver, TypeOK
<1>4. QED
  BY <1>1, <1>2, <1>3, PushType DEF UpdateEffect, MirrorVersion, Resource

LEMMA CreateEffectType ==
  ASSUME TypeOK, pc = "create", CreateEffect
  PROVE  /\ sm' \in Machine
         /\ sm'.revver \in DOMAIN vers' \cup {Nil}
         /\ vers' \in Seq(Config \cup {Nil})
         /\ pushed' \in Config
         /\ DOMAIN vers \subseteq DOMAIN vers'
         /\ Created(desired, PublishedVersion(CreatePublish, CreatedRevver)) \in Resource
         /\ Created(desired, PublishedVersion(CreatePublish, CreatedRevver)).ver
              \in DOMAIN vers' \cup {Nil}
<1>1. desired \in Resource /\ desired.spec \in StateMachineSpec /\ sm \in Machine \cup {Nil}
  BY DEF TypeOK, Resource
<1>2. CreatedConfig \in Config
  BY <1>1, CreateConfigType DEF CreatedConfig
<1>3. CreatedTags \in Tags
  BY <1>1 DEF CreatedTags, newCreateRequestPayload, Machine, StateMachineSpec
<1>4. CreatedRevver \in DOMAIN vers \cup {Nil}
  BY DEF CreatedRevver, TypeOK
<1>5. QED
  BY <1>1, <1>2, <1>3, <1>4, PushType DEF CreateEffect, Created, Resource

\* The user, the other clients of AWS, and AWS itself.
LEMMA EnvironmentType ==
  ASSUME TypeOK, User \/ OtherClients \/ FinishDelete PROVE TypeOK'
<1> USE DEF vars, k8s, aws, pass, bounds
<1>0. /\ vers \in Seq(Config \cup {Nil}) /\ Len(vers) \in Nat
      /\ DOMAIN vers = 1 .. Len(vers)
  BY DEF TypeOK
<1>1. ASSUME NEW s \in Specs, CreateCR(s) PROVE TypeOK'
  BY <1>1, StateMachineConstants DEF TypeOK, CreateCR, Acts, Resource
<1>2. ASSUME NEW s \in Specs, EditSpec(s) PROVE TypeOK'
  BY <1>2, StateMachineConstants DEF TypeOK, EditSpec, Acts, Resource
<1>3. CASE DeleteCR
  BY <1>3, StateMachineConstants DEF TypeOK, DeleteCR, Acts, Resource
<1>4. ASSUME NEW c \in DriftConfigs, DriftConfig(c) PROVE TypeOK'
  <2> DEFINE new == [c EXCEPT !.name = sm.cfg.name, !.type = sm.cfg.type]
  <2>1. sm # Nil /\ sm \in Machine /\ sm.cfg \in Config /\ c \in Config
    BY <1>4, StateMachineConstants DEF TypeOK, DriftConfig, Active, Machine
  <2>2. new \in Config
    BY <2>1 DEF Config
  <2>3. sm' = [sm EXCEPT !.cfg = new, !.revver = Nil]
    BY <1>4 DEF DriftConfig
  <2>4. sm' \in Machine /\ sm'.revver = Nil
    BY <2>1, <2>2, <2>3 DEF Machine
  <2>5. QED
    BY <1>4, <2>4 DEF TypeOK, DriftConfig, Drifts
<1>5. ASSUME NEW t \in DriftTags, DriftTag(t) PROVE TypeOK'
  BY <1>5, StateMachineConstants DEF TypeOK, DriftTag, Drifts, Machine, Active
<1>6. ASSUME NEW v \in DOMAIN vers, DeleteVersion(v) PROVE TypeOK'
  <2>1. vers' \in Seq(Config \cup {Nil}) /\ DOMAIN vers' = DOMAIN vers
    BY <1>0, <1>6 DEF DeleteVersion
  <2>2. QED
    BY <1>6, <2>1 DEF TypeOK, DeleteVersion, Drifts
<1>7. CASE DeleteMachine
  BY <1>7, StateMachineConstants DEF TypeOK, DeleteMachine, Drifts, Machine, Active
<1>8. CASE FinishDelete
  <2>1. vers' \in Seq(Config \cup {Nil}) /\ DOMAIN vers' = DOMAIN vers
    BY <1>0, <1>8 DEF FinishDelete
  <2>2. QED
    BY <1>8, <2>1 DEF TypeOK, FinishDelete
<1>9. QED
  BY <1>1, <1>2, <1>3, <1>4, <1>5, <1>6, <1>7, <1>8 DEF User, OtherClients

\* The calls of a reconcile pass.
LEMMA ControllerType ==
  ASSUME TypeOK, Controller PROVE TypeOK'
<1> USE StateMachineConstants DEF vars, k8s, aws, pass, bounds
<1>0. /\ vers \in Seq(Config \cup {Nil}) /\ Len(vers) \in Nat
      /\ DOMAIN vers = 1 .. Len(vers)
  BY DEF TypeOK
<1>1. CASE Reconcile
  <2>1. cr \in Resource /\ cr.spec.tags \in Tags
    BY <1>1 DEF TypeOK, Reconcile, Resource, StateMachineSpec
  <2>2. desired' \in Resource /\ desired'.ver = cr.ver
    BY <1>1, <2>1, EnsureTagsType, WithTagsType DEF Reconcile
  <2>3. QED
    BY <1>1, <2>1, <2>2 DEF TypeOK, Reconcile, PCs
<1>2. CASE sdkFind
  <2>1. CASE desired.arn # Nil /\ sm # Nil
    <3>1. desired \in Resource /\ sm.cfg \in Config
      BY <1>2, <2>1 DEF TypeOK, sdkFind, Machine
    <3>2. DescribeInto(desired.spec, sm.cfg) \in StateMachineSpec
      BY <3>1, DescribeIntoType DEF Resource
    <3>3. latest' \in Resource /\ latest'.ver = desired.ver
      BY <1>2, <2>1, <3>1, <3>2 DEF sdkFind, Resource
    <3>4. QED
      BY <1>2, <2>1, <3>1, <3>3 DEF TypeOK, sdkFind, PCs
  <2>2. CASE ~(desired.arn # Nil /\ sm # Nil)
    BY <1>2, <2>2 DEF TypeOK, sdkFind, PCs
  <2>3. QED
    BY <2>1, <2>2
<1>3. CASE GetResourceTags
  <2>1. CASE sm = Nil
    BY <1>3, <2>1 DEF TypeOK, GetResourceTags, Return, PCs
  <2>2. CASE sm # Nil
    <3>1. latest \in Resource /\ sm.tags \in Tags
      BY <1>3, <2>2 DEF TypeOK, GetResourceTags, Machine
    <3>2. latest' \in Resource /\ latest'.ver = latest.ver
      BY <1>3, <2>2, <3>1, WithTagsType DEF GetResourceTags
    <3>3. QED
      BY <1>3, <2>2, <3>1, <3>2 DEF TypeOK, GetResourceTags, PCs
  <2>3. QED
    BY <2>1, <2>2
<1>4. CASE clearDeletedVersionARN
  BY <1>4 DEF TypeOK, clearDeletedVersionARN, PCs, Resource
<1>5. CASE Compare
  <2> DEFINE d  == WithTags(desired, mirrorAWSTags(desired.spec.tags, latest.spec.tags))
             dl == newResourceDelta(d.spec, latest.spec, latest.ver)
  <2>1. /\ desired \in Resource /\ desired.spec.tags \in Tags
        /\ latest \in Resource /\ latest.spec.tags \in Tags
    BY <1>5 DEF TypeOK, Compare, Resource, StateMachineSpec
  <2>2. d \in Resource /\ d.ver = desired.ver
    BY <2>1, MirrorType, WithTagsType
  <2>3. dl \in SUBSET Paths
    BY DeltaType
  <2>4. CASE desired.phase = "deleting"
    BY <1>5, <2>4 DEF TypeOK, Compare, PCs
  <2>5. CASE desired.phase # "deleting" /\ ~DifferentAtSpec(dl)
    BY <1>5, <2>5, <2>1 DEF TypeOK, Compare, Return, PCs
  <2>6. CASE desired.phase # "deleting" /\ DifferentAtSpec(dl)
    <3> HIDE DEF d, dl
    <3>1. desired' = d /\ delta' = dl /\ latest' = latest
          /\ pc' \in {"update", "untag", "tag"}
      BY <1>5, <2>6 DEF Compare, d, dl
    <3>2. QED
      BY <1>5, <2>1, <2>2, <2>3, <3>1 DEF TypeOK, Compare, PCs
  <2>7. QED
    BY <2>4, <2>5, <2>6
<1>6. CASE SyncUntag
  <2>1. /\ desired \in Resource /\ latest \in Resource
        /\ sm # Nil => sm \in Machine
    BY <1>6 DEF TypeOK, SyncUntag
  <2>2. sm # Nil => untagged \in Machine /\ untagged.revver = sm.revver
    BY <2>1, TagCallsType DEF untagged, Machine
  <2>3. QED
    BY <1>6, <2>1, <2>2 DEF TypeOK, SyncUntag, UpdateRest, Return, PCs
<1>7. CASE SyncTag
  <2>1. /\ desired \in Resource /\ latest \in Resource /\ desired.spec.tags \in Tags
        /\ sm # Nil => sm \in Machine
    BY <1>7 DEF TypeOK, SyncTag, Resource, StateMachineSpec
  <2>2. sm # Nil => tagged \in Machine /\ tagged.revver = sm.revver
    BY <2>1, TagCallsType DEF tagged, Machine
  <2>3. QED
    BY <1>7, <2>1, <2>2 DEF TypeOK, SyncTag, UpdateRest, Return, PCs
<1>8. CASE MarkManaged
  <2>1. CASE cr = Nil
    BY <1>8, <2>1 DEF TypeOK, MarkManaged, Forget, PCs
  <2>2. CASE cr # Nil
    <3>1. cr \in Resource /\ desired \in Resource
      BY <1>8, <2>2 DEF TypeOK, MarkManaged
    <3>2. /\ cr' \in Resource /\ cr'.ver = cr.ver
          /\ desired' \in Resource /\ desired'.ver = desired.ver
      BY <1>8, <2>2, <3>1 DEF MarkManaged, Resource
    <3>3. QED
      BY <1>8, <2>2, <3>1, <3>2 DEF TypeOK, MarkManaged, PCs
  <2>3. QED
    BY <2>1, <2>2
<1>9. CASE sdkDelete
  BY <1>9 DEF TypeOK, sdkDelete, DeleteEffect, PCs, Machine
<1>10. CASE MarkUnmanaged
  BY <1>10, UnmanagedType DEF TypeOK, MarkUnmanaged, Forget, PCs
<1>11. CASE Persist
  BY <1>11 DEF TypeOK, Persist, Forget, PCs, Resource
<1>12. CASE updateStateMachine
  <2>1. CASE Active
    <3>1. UpdateEffect /\ pc = "update"
      BY <1>12, <2>1 DEF updateStateMachine
    <3>2. QED
      BY <1>12, <2>1, <3>1, UpdateEffectType DEF TypeOK, updateStateMachine, Return, PCs
  <2>2. CASE ~Active
    BY <1>12, <2>2 DEF TypeOK, updateStateMachine, Return, PCs
  <2>3. QED
    BY <2>1, <2>2
<1>13. CASE sdkCreate
  <2>1. CASE Creatable
    <3>1. CreateEffect /\ pc = "create"
      BY <1>13, <2>1 DEF sdkCreate
    <3>2. QED
      BY <1>13, <2>1, <3>1, CreateEffectType DEF TypeOK, sdkCreate, Return, PCs
  <2>2. CASE ~Creatable
    BY <1>13, <2>2, UnmanagedType DEF TypeOK, sdkCreate, CreateFailed, Return, PCs
  <2>3. QED
    BY <2>1, <2>2
<1>14. QED
  BY <1>1, <1>2, <1>3, <1>4, <1>5, <1>6, <1>7, <1>8, <1>9, <1>10, <1>11, <1>12, <1>13
     DEF Controller

\* The faults.
LEMMA FaultType ==
  ASSUME TypeOK, ApiError \/ LostResponse \/ StatusPatchFails \/ Crash PROVE TypeOK'
<1> USE StateMachineConstants DEF vars, k8s, aws, pass, bounds
<1>1. CASE ApiError
  BY <1>1, UnmanagedType DEF TypeOK, ApiError, Fails, CreateFailed, Return, Forget, PCs
<1>2. CASE LostResponse
  <2>1. CASE pc \in {"untag", "tag", "delete"} /\ vers' = vers /\ pushed' = pushed
    <3>1. /\ desired \in Resource /\ latest \in Resource /\ desired.spec.tags \in Tags
          /\ sm # Nil => sm \in Machine
      BY <2>1 DEF TypeOK, Resource, StateMachineSpec
    <3>2. sm # Nil => /\ untagged \in Machine /\ untagged.revver = sm.revver
                      /\ tagged \in Machine /\ tagged.revver = sm.revver
      BY <3>1, TagCallsType DEF untagged, tagged, Machine
    <3>3. /\ sm' \in Machine \cup {Nil}
          /\ sm' # Nil => sm # Nil /\ sm'.revver = sm.revver
          /\ Return(latest) /\ cr' = cr
      BY <1>2, <2>1, <3>1, <3>2 DEF LostResponse, DeleteEffect, Machine
    <3>4. QED
      BY <1>2, <2>1, <3>1, <3>3 DEF TypeOK, LostResponse, Fails, Return, PCs
  <2>2. CASE pc = "update" /\ Active /\ UpdateEffect /\ Return(latest) /\ UNCHANGED k8s
    BY <1>2, <2>2, UpdateEffectType DEF TypeOK, LostResponse, Fails, Return, PCs
  <2>3. CASE pc = "create" /\ Creatable /\ CreateEffect /\ CreateFailed
    BY <1>2, <2>3, CreateEffectType, UnmanagedType
       DEF TypeOK, LostResponse, Fails, CreateFailed, Return, PCs
  <2>4. QED
    BY <1>2, <2>1, <2>2, <2>3 DEF LostResponse
<1>3. CASE StatusPatchFails \/ Crash
  BY <1>3 DEF TypeOK, StatusPatchFails, Crash, Fails, Forget, PCs
<1>4. QED
  BY <1>1, <1>2, <1>3

\* Every reachable state is well-typed, whatever the specs, the bounds and the
\* faults: no pass makes a call without the copies the call needs, and no
\* status names a version that was never published.
THEOREM TypeCorrect == Spec => []TypeOK
<1>1. Init => TypeOK
  BY DEF Init, TypeOK, PCs
<1>2. TypeOK /\ [Next]_vars => TypeOK'
  <2> SUFFICES ASSUME TypeOK, [Next]_vars PROVE TypeOK'
    OBVIOUS
  <2>1. CASE Next
    BY <2>1, ControllerType, EnvironmentType, FaultType DEF Next
  <2>2. CASE UNCHANGED vars
    BY <2>2 DEF TypeOK, vars
  <2>3. QED
    BY <2>1, <2>2
<1>3. QED
  BY <1>1, <1>2, PTL DEF Spec

-----------------------------------------------------------------------------
(* Creation.                                                               *)

\* Only a pass that was told NotFound creates, and nobody else does.
LEMMA CreateOnlyWhenAbsentStep ==
  ASSUME TypeOK, CreateOnlyWhenAbsent, Next PROVE CreateOnlyWhenAbsent'
<1> USE DEF CreateOnlyWhenAbsent, k8s, aws, pass, bounds
<1>1. CASE Controller
  <2>1. CASE sdkFind
    BY <2>1 DEF sdkFind
  <2>2. CASE MarkManaged
    BY <2>2 DEF MarkManaged, Forget, TypeOK, Resource
  <2>3. CASE Reconcile \/ GetResourceTags \/ clearDeletedVersionARN \/ Compare
    BY <2>3 DEF Reconcile, GetResourceTags, clearDeletedVersionARN, Compare, Return
  <2>4. CASE SyncUntag \/ SyncTag \/ updateStateMachine
    BY <2>4 DEF SyncUntag, SyncTag, updateStateMachine, UpdateRest, Return
  <2>5. CASE sdkCreate \/ sdkDelete \/ MarkUnmanaged \/ Persist
    BY <2>5 DEF sdkCreate, CreateFailed, sdkDelete, MarkUnmanaged, Persist, Return, Forget
  <2>6. QED
    BY <1>1, <2>1, <2>2, <2>3, <2>4, <2>5 DEF Controller
<1>2. CASE User
  BY <1>2, SMTT(30) DEF User, CreateCR, EditSpec, DeleteCR
<1>3. CASE OtherClients \/ FinishDelete
  BY <1>3 DEF OtherClients, DriftConfig, DriftTag, DeleteVersion, DeleteMachine,
              FinishDelete, Active
<1>4. CASE ApiError \/ LostResponse \/ StatusPatchFails \/ Crash
  BY <1>4 DEF ApiError, LostResponse, StatusPatchFails, Crash, CreateFailed, Return, Forget
<1>5. QED
  BY <1>1, <1>2, <1>3, <1>4 DEF Next

\* For every set of specs and every pattern of faults, creation is attempted
\* for a resource with a recorded ARN only while AWS has no such state machine.
THEOREM CreationIsSafe == Spec => []CreateOnlyWhenAbsent
<1>1. Init => CreateOnlyWhenAbsent
  BY DEF Init, CreateOnlyWhenAbsent
<1>2. TypeOK /\ CreateOnlyWhenAbsent /\ [Next]_vars => CreateOnlyWhenAbsent'
  BY CreateOnlyWhenAbsentStep DEF CreateOnlyWhenAbsent, vars
<1>3. QED
  BY <1>1, <1>2, TypeCorrect, PTL DEF Spec

-----------------------------------------------------------------------------
(* The tags of AWS.                                                        *)

NoAWSTags(tags) == \A k \in AWSTagKeys : tags[k] = Nil

\* Until the comparison the desired tags have no "aws:" key, and after it they
\* agree with the tags that were read on every "aws:" key: mirrorAWSTags copies
\* those that were there, and those that were not there are not desired.
AWSTagsMirrored ==
  /\ cr # Nil => NoAWSTags(cr.spec.tags)
  /\ pc \in {"describe", "listTags", "probe", "compare"} => NoAWSTags(desired.spec.tags)
  /\ pc \in {"untag", "tag"} =>
       \A k \in AWSTagKeys : desired.spec.tags[k] = latest.spec.tags[k]

LEMMA EnsureTagsKeepsOffAWS ==
  ASSUME NEW t \in Tags, NoAWSTags(t) PROVE NoAWSTags(EnsureTags(t))
<1>1. \A k \in AWSTagKeys : k \in TagKeys /\ DefaultTags[k] = Nil
  BY TagConstants DEF KeysOf
<1>2. QED
  BY <1>1 DEF NoAWSTags, EnsureTags, Merge

LEMMA MirrorAgrees ==
  ASSUME NEW a \in Tags, NEW b \in Tags, NoAWSTags(a), NEW k \in AWSTagKeys
  PROVE  mirrorAWSTags(a, b)[k] = b[k]
BY TagConstants DEF NoAWSTags, mirrorAWSTags, syncAWSTags

LEMMA AWSTagsMirroredStep ==
  ASSUME TypeOK, AWSTagsMirrored, Next PROVE AWSTagsMirrored'
<1> USE DEF k8s, aws, pass, bounds
<1>1. CASE Reconcile
  <2>1. cr \in Resource /\ cr.spec.tags \in Tags /\ cr # Nil
    BY <1>1 DEF TypeOK, Reconcile, Resource, StateMachineSpec
  <2>2. NoAWSTags(desired'.spec.tags)
    BY <1>1, <2>1, EnsureTagsType, EnsureTagsKeepsOffAWS, WithTagsType
       DEF Reconcile, AWSTagsMirrored
  <2>3. QED
    BY <1>1, <2>2 DEF Reconcile, AWSTagsMirrored
<1>2. CASE Compare
  <2> DEFINE d == WithTags(desired, mirrorAWSTags(desired.spec.tags, latest.spec.tags))
  <2>1. /\ desired \in Resource /\ desired.spec.tags \in Tags
        /\ latest \in Resource /\ latest.spec.tags \in Tags
    BY <1>2 DEF TypeOK, Compare, Resource, StateMachineSpec
  <2>2. d.spec.tags = mirrorAWSTags(desired.spec.tags, latest.spec.tags)
    BY <2>1, MirrorType, WithTagsType
  <2>3. \A k \in AWSTagKeys : d.spec.tags[k] = latest.spec.tags[k]
    BY <1>2, <2>1, <2>2, MirrorAgrees DEF AWSTagsMirrored, Compare
  <2>4. pc' \in {"untag", "tag"} => desired' = d /\ latest' = latest
    BY <1>2 DEF Compare, Return
  <2>5. /\ cr' = cr
        /\ pc' \notin {"describe", "listTags", "probe", "compare"}
    BY <1>2 DEF Compare, Return
  <2>6. QED
    BY <2>3, <2>4, <2>5 DEF AWSTagsMirrored
<1>3. CASE sdkFind \/ GetResourceTags \/ clearDeletedVersionARN
  BY <1>3 DEF sdkFind, GetResourceTags, clearDeletedVersionARN, Return, AWSTagsMirrored
<1>4. CASE SyncUntag \/ SyncTag \/ updateStateMachine
  BY <1>4 DEF SyncUntag, SyncTag, updateStateMachine, UpdateRest, Return, AWSTagsMirrored
<1>5. CASE MarkManaged
  BY <1>5 DEF MarkManaged, Forget, AWSTagsMirrored, TypeOK, Resource
<1>6. ASSUME cr' \in {cr, Unmanaged(cr), Nil}, pc' \in {"idle", "persist", "unmanage"}
      PROVE  AWSTagsMirrored'
  BY <1>6 DEF Unmanaged, AWSTagsMirrored, TypeOK, Resource
<1>7. CASE sdkCreate \/ sdkDelete \/ MarkUnmanaged
  BY <1>6, <1>7 DEF sdkCreate, CreateFailed, sdkDelete, MarkUnmanaged, Return, Forget
<1>8. CASE Persist
  BY <1>8 DEF Persist, Forget, AWSTagsMirrored, TypeOK, Resource
<1>9. CASE User
  <2>1. ASSUME NEW s \in Specs PROVE NoAWSTags(s.tags)
    BY StateMachineConstants, TagConstants DEF NoAWSTags, KeysOf
  <2>2. cr' # Nil => (cr # Nil /\ cr'.spec.tags = cr.spec.tags) \/ cr'.spec \in Specs
    BY <1>9, SMTT(30) DEF User, CreateCR, EditSpec, DeleteCR, TypeOK, Resource
  <2>3. UNCHANGED pass
    BY <1>9, SMTT(30) DEF User, CreateCR, EditSpec, DeleteCR
  <2>4. QED
    BY <2>1, <2>2, <2>3 DEF AWSTagsMirrored
<1>10. CASE OtherClients \/ FinishDelete
  BY <1>10 DEF OtherClients, DriftConfig, DriftTag, DeleteVersion, DeleteMachine,
               FinishDelete, AWSTagsMirrored
<1>11. CASE ApiError
  <2>1. CASE pc = "probe" /\ pc' = "compare" /\ UNCHANGED <<k8s, desired, latest, delta>>
    BY <2>1 DEF AWSTagsMirrored
  <2>2. QED
    BY <1>6, <1>11, <2>1 DEF ApiError, CreateFailed, Return, Forget
<1>12. CASE LostResponse \/ StatusPatchFails \/ Crash
  BY <1>6, <1>12 DEF LostResponse, StatusPatchFails, Crash, CreateFailed, Return, Forget
<1>13. QED
  BY <1>1, <1>2, <1>3, <1>4, <1>5, <1>7, <1>8, <1>9, <1>10, <1>11, <1>12
     DEF Next, Controller

\* What a step may do to the "aws:" tags of a state machine that stays.
AWSTagsKept ==
  sm # Nil /\ sm' # Nil /\ outOfBand' = outOfBand =>
    \A k \in AWSTagKeys : sm'.tags[k] = sm.tags[k]

LEMMA AWSTagsKeptStep ==
  ASSUME TypeOK, AWSTagsMirrored, Next PROVE AWSTagsKept
<1> USE DEF k8s, aws, pass, bounds
<1> SUFFICES ASSUME sm # Nil, sm' # Nil, outOfBand' = outOfBand,
                    NEW k \in AWSTagKeys
             PROVE  sm'.tags[k] = sm.tags[k]
  BY DEF AWSTagsKept
<1>0. sm \in Machine /\ k \in TagKeys /\ outOfBand \in Nat
  BY TagConstants DEF TypeOK
<1>1. CASE sm' = untagged /\ pc = "untag"
  <2>1. k \notin Removed
    BY <1>1, <1>0 DEF Removed, TagsRemoved, AWSTagsMirrored
  <2>2. QED
    BY <1>0, <1>1, <2>1 DEF untagged, UntagResource, Machine
<1>2. CASE sm' = tagged /\ pc = "tag"
  <2>1. k \notin Added
    BY <1>2, <1>0 DEF Added, TagsAdded, AWSTagsMirrored
  <2>2. QED
    BY <1>0, <1>2, <2>1 DEF tagged, TagResource, Machine
<1>3. CASE UpdateEffect
  BY <1>3 DEF UpdateEffect, Push
<1>4. CASE CreateEffect
  BY <1>4 DEF CreateEffect, CreatedTags, Push
<1>5. CASE DeleteEffect
  BY <1>0, <1>5 DEF DeleteEffect, Machine
<1>6. CASE sm' = sm
  BY <1>6
<1>7. CASE Controller
  BY <1>1, <1>2, <1>3, <1>4, <1>5, <1>6, <1>7
     DEF Controller, Reconcile, sdkFind, GetResourceTags, clearDeletedVersionARN, Compare,
         SyncUntag, SyncTag, updateStateMachine, MarkManaged, sdkCreate, sdkDelete,
         MarkUnmanaged, Persist
<1>8. CASE User \/ FinishDelete
  BY <1>6, <1>8 DEF User, CreateCR, EditSpec, DeleteCR, FinishDelete
<1>9. CASE OtherClients
  <2>1. Drifts
    BY <1>9 DEF OtherClients, DriftConfig, DriftTag, DeleteVersion, DeleteMachine
  <2>2. QED
    BY <1>0, <2>1, SMTT(30) DEF Drifts
<1>10. CASE ApiError \/ LostResponse \/ StatusPatchFails \/ Crash
  BY <1>1, <1>2, <1>3, <1>4, <1>5, <1>6, <1>10 DEF ApiError, LostResponse, StatusPatchFails, Crash
<1>11. QED
  BY <1>7, <1>8, <1>9, <1>10 DEF Next

\* For every set of keys, specs and faults: no call of the controller changes an
\* "aws:" tag of an existing state machine, whatever other clients do to the
\* tags between the read and the write.
THEOREM AWSTagsAreSafe == Spec => AWSTagsOnlyChangeOutOfBand
<1>1. Init => AWSTagsMirrored
  BY DEF Init, AWSTagsMirrored
<1>2. TypeOK /\ AWSTagsMirrored /\ [Next]_vars => AWSTagsMirrored'
  <2> SUFFICES ASSUME TypeOK, AWSTagsMirrored, [Next]_vars PROVE AWSTagsMirrored'
    OBVIOUS
  <2>1. CASE UNCHANGED vars
    BY <2>1 DEF AWSTagsMirrored, vars
  <2>2. QED
    BY <2>1, AWSTagsMirroredStep
<1>3. TypeOK /\ AWSTagsMirrored /\ [Next]_vars => [AWSTagsKept]_vars
  BY AWSTagsKeptStep
<1>4. QED
  BY <1>1, <1>2, <1>3, TypeCorrect, PTL DEF Spec, AWSTagsOnlyChangeOutOfBand, AWSTagsKept

-----------------------------------------------------------------------------
(* Orphans.                                                                *)

\* The reading half of a pass, and the calls after it.
Reading == {"describe", "listTags", "probe", "compare", "untag", "tag", "update", "delete"}

\* A running state machine always has a custom resource that carries the
\* finalizer and, once the creating pass has written its status, the ARN; a
\* pass knows the ARN too.  The steps that give up the finalizer are reached
\* only when nothing runs, and creation only with the finalizer in place.
Owned ==
  /\ Active => cr # Nil /\ IsManaged(cr)
  /\ Active /\ pc # "persist" => cr.arn # Nil
  /\ Active /\ pc = "persist" => latest.arn # Nil
  /\ Active /\ pc \in Reading => desired.arn # Nil
  /\ Active /\ pc \in Reading \ {"describe"} => latest.arn # Nil
  /\ pc \in {"manage", "create", "unmanage"} => ~Active
  /\ desired # Nil /\ IsManaged(desired) => cr # Nil /\ IsManaged(cr)
  /\ pc = "create" => IsManaged(desired)

LEMMA OwnedStep ==
  ASSUME Faults \subseteq {"error"}, TypeOK, Owned, Next PROVE Owned'
<1> USE StateMachineConstants DEF k8s, aws, pass, bounds
<1>0. /\ cr \in Resource \cup {Nil} /\ desired \in Resource \cup {Nil}
      /\ latest \in Resource \cup {Nil} /\ sm \in Machine \cup {Nil}
  BY DEF TypeOK
<1>1. CASE Reconcile
  <2>1. cr \in Resource /\ cr.spec.tags \in Tags
    BY <1>1, <1>0 DEF Reconcile, Resource, StateMachineSpec
  <2>2. desired' \in Resource /\ desired'.arn = cr.arn /\ desired'.finalizers = cr.finalizers
    BY <1>1, <2>1, EnsureTagsType, WithTagsType DEF Reconcile
  <2>3. QED
    BY <1>1, <2>1, <2>2 DEF Reconcile, Owned, Active, IsManaged, Reading
<1>2. CASE sdkFind
  <2>1. desired \in Resource /\ desired # Nil
    BY <1>2 DEF TypeOK, sdkFind
  <2>2. desired.arn # Nil /\ sm # Nil => latest'.arn = desired.arn
    BY <1>2, <2>1 DEF sdkFind, Resource
  <2>3. QED
    BY <1>2, <2>1, <2>2 DEF sdkFind, Owned, Active, IsManaged, Reading
<1>3. CASE GetResourceTags
  <2>1. latest \in Resource /\ (sm # Nil => sm.tags \in Tags)
    BY <1>3 DEF TypeOK, GetResourceTags, Machine
  <2>2. sm # Nil => latest'.arn = latest.arn
    BY <1>3, <2>1, WithTagsType DEF GetResourceTags
  <2>3. QED
    BY <1>3, <2>2 DEF GetResourceTags, Owned, Active, IsManaged, Reading, Return
<1>4. CASE clearDeletedVersionARN
  <2>1. latest'.arn = latest.arn
    BY <1>4 DEF clearDeletedVersionARN, TypeOK, Resource
  <2>2. QED
    BY <1>4, <2>1 DEF clearDeletedVersionARN, Owned, Active, IsManaged, Reading
<1>5. CASE Compare
  <2> DEFINE d == WithTags(desired, mirrorAWSTags(desired.spec.tags, latest.spec.tags))
  <2>1. /\ desired \in Resource /\ desired.spec.tags \in Tags
        /\ latest \in Resource /\ latest.spec.tags \in Tags /\ desired # Nil
    BY <1>5 DEF TypeOK, Compare, Resource, StateMachineSpec
  <2>2. d.arn = desired.arn /\ d.finalizers = desired.finalizers
    BY <2>1, MirrorType, WithTagsType
  <2>3. /\ cr' = cr /\ sm' = sm /\ latest' = latest /\ pc = "compare"
        /\ \/ desired' = Nil /\ pc' = "persist"
           \/ desired' \in {desired, d} /\ pc' \in {"delete", "update", "untag", "tag"}
    BY <1>5 DEF Compare, Return
  <2>4. QED
    BY <2>1, <2>2, <2>3 DEF Owned, Active, IsManaged, Reading
<1>6. CASE SyncUntag \/ SyncTag
  <2>1. sm # Nil => /\ untagged.status = sm.status /\ tagged.status = sm.status
                    /\ untagged \in Machine /\ tagged \in Machine
    <3>1. desired \in Resource /\ desired.spec.tags \in Tags
      BY <1>6 DEF TypeOK, SyncUntag, SyncTag, Resource, StateMachineSpec
    <3>2. QED
      BY <1>0, <3>1, TagCallsType DEF untagged, tagged, Machine
  <2>2. /\ cr' = cr /\ pc \in {"untag", "tag"}
        /\ \/ pc' \in {"tag", "update"} /\ UNCHANGED <<desired, latest>>
           \/ pc' = "persist" /\ desired' = Nil /\ latest' \in {latest, desired}
    <3>1. UpdateRest => \/ pc' = "update" /\ UNCHANGED <<desired, latest>>
                        \/ Return(desired)
      BY DEF UpdateRest
    <3>2. CASE SyncUntag
      BY <3>1, <3>2 DEF SyncUntag, Return
    <3>3. CASE SyncTag
      BY <3>1, <3>3 DEF SyncTag, Return
    <3>4. QED
      BY <1>6, <3>2, <3>3
  <2>3. sm' = sm \/ (sm # Nil /\ sm' \in {untagged, tagged})
    BY <1>6 DEF SyncUntag, SyncTag
  <2>4. Active' => Active
    BY <2>1, <2>3 DEF Active
  <2>5. QED
    BY <2>2, <2>4 DEF Owned, IsManaged, Reading
<1>7. CASE updateStateMachine
  <2>1. CASE Active
    <3>1. desired \in Resource /\ latest'.arn = desired.arn
      BY <1>7, <2>1 DEF updateStateMachine, MirrorVersion, Return, TypeOK, Resource
    <3>2. QED
      BY <1>7, <2>1, <3>1 DEF updateStateMachine, Owned, IsManaged, Reading, Return
  <2>2. CASE ~Active
    BY <1>7, <2>2 DEF updateStateMachine, Owned, Active, IsManaged, Reading, Return
  <2>3. QED
    BY <2>1, <2>2
<1>8. CASE MarkManaged
  <2>1. ~Active /\ ~Active'
    BY <1>8 DEF MarkManaged, Owned, Active
  <2>2. CASE cr = Nil
    BY <1>8, <2>1, <2>2 DEF MarkManaged, Owned, Forget
  <2>3. CASE cr # Nil
    <3>1. IsManaged(cr)' /\ IsManaged(desired)' /\ cr' # Nil /\ pc' = "create"
      BY <1>0, <1>8, <2>3, SMTT(30) DEF MarkManaged, TypeOK, IsManaged, Resource
    <3>2. QED
      BY <2>1, <3>1 DEF Owned, Reading
  <2>4. QED
    BY <2>2, <2>3
<1>9. CASE sdkCreate
  <2>1. CASE Creatable
    <3>1. latest'.arn = ARN /\ desired # Nil /\ pc = "create"
      BY <1>9, <2>1 DEF sdkCreate, Created, Return, TypeOK, Resource
    <3>2. QED
      BY <1>9, <2>1, <3>1 DEF sdkCreate, Owned, IsManaged, Reading, Return
  <2>2. CASE ~Creatable
    BY <1>9, <2>2 DEF sdkCreate, CreateFailed, Owned, Active, IsManaged, Reading, Return
  <2>3. QED
    BY <2>1, <2>2
<1>10. CASE sdkDelete
  <2>1. ~Active'
    BY <1>0, <1>10 DEF sdkDelete, DeleteEffect, Active, Machine
  <2>2. QED
    BY <1>10, <2>1 DEF sdkDelete, Owned, IsManaged, Reading
<1>11. CASE MarkUnmanaged
  BY <1>11 DEF MarkUnmanaged, Owned, Active, IsManaged, Reading, Forget
<1>12. CASE Persist
  <2>1. cr # Nil => /\ cr' # Nil /\ cr'.arn = latest.arn
                    /\ cr'.finalizers = cr.finalizers
    BY <1>0, <1>12, ZenonT(60) DEF Persist, TypeOK, Resource
  <2>2. pc = "persist" /\ pc' = "idle" /\ desired' = Nil /\ sm' = sm
    BY <1>12 DEF Persist, Forget
  <2>3. QED
    BY <2>1, <2>2 DEF Owned, Active, IsManaged, Reading
<1>13. CASE User
  <2>1. CASE cr = Nil
    BY <1>13, <2>1 DEF User, CreateCR, EditSpec, DeleteCR, Owned, Active
  <2>2. CASE cr # Nil
    <3>1. cr' # Nil => cr'.arn = cr.arn /\ cr'.finalizers = cr.finalizers
      BY <1>0, <1>13, <2>2 DEF User, CreateCR, EditSpec, DeleteCR, Resource
    <3>2. cr' = Nil => ~IsManaged(cr)
      BY <1>0, <1>13, <2>2 DEF User, CreateCR, EditSpec, DeleteCR, IsManaged, Resource
    <3>3. UNCHANGED <<aws, pass>>
      BY <1>13 DEF User, CreateCR, EditSpec, DeleteCR
    <3>4. QED
      BY <2>2, <3>1, <3>2, <3>3 DEF Owned, Active, IsManaged
  <2>3. QED
    BY <2>1, <2>2
<1>14. CASE OtherClients \/ FinishDelete
  <2>1. (Active' => Active) /\ UNCHANGED <<k8s, pass>>
    BY <1>0, <1>14 DEF OtherClients, DriftConfig, DriftTag, DeleteVersion, DeleteMachine,
                       FinishDelete, Active, Machine
  <2>2. QED
    BY <2>1 DEF Owned, IsManaged
<1>15. CASE ApiError
  <2>1. Active' = Active
    BY <1>15 DEF ApiError, Active
  <2>2. CASE pc = "create" /\ CreateFailed
    BY <2>1, <2>2 DEF CreateFailed, Owned, Return, Reading
  <2>3. CASE pc # "create"
    BY <1>15, <2>1, <2>3 DEF ApiError, Owned, IsManaged, Return, Forget, Reading
  <2>4. QED
    BY <1>15, <2>2, <2>3 DEF ApiError
<1>16. ~LostResponse /\ ~StatusPatchFails /\ ~Crash
  BY DEF LostResponse, StatusPatchFails, Crash, Fails
<1>17. QED
  BY <1>1, <1>2, <1>3, <1>4, <1>5, <1>6, <1>7, <1>8, <1>9, <1>10, <1>11, <1>12, <1>13,
     <1>14, <1>15, <1>16 DEF Next, Controller

\* As long as no answer is lost and no pass is cut short, for every set of
\* specs, every drift and every failing call: no state machine keeps running
\* once its custom resource is gone.
THEOREM NoOrphanLeft ==
  ASSUME Faults \subseteq {"error"} PROVE Spec => []NoOrphan
<1>1. Init => Owned
  BY DEF Init, Owned, Active, Reading
<1>2. TypeOK /\ Owned /\ [Next]_vars => Owned'
  <2> SUFFICES ASSUME TypeOK, Owned, [Next]_vars PROVE Owned'
    OBVIOUS
  <2>1. CASE UNCHANGED vars
    BY <2>1 DEF Owned, vars, Active, IsManaged
  <2>2. QED
    BY <2>1, OwnedStep
<1>3. Owned => NoOrphan
  BY DEF Owned, NoOrphan
<1>4. QED
  BY <1>1, <1>2, <1>3, TypeCorrect, PTL DEF Spec

-----------------------------------------------------------------------------
(* The recorded version.                                                   *)

\* A version number that is safe to record: the version is gone, or it holds
\* the configuration last pushed.
Recordable(v) == v # Nil => vers[v] \in {Nil, pushed}

\* Every copy of the custom resource has a recordable version, the one the pass
\* is about to write included; and the version AWS would answer again for the
\* current revision holds that revision.
Recorded ==
  /\ pc # "persist" /\ cr # Nil => Recordable(cr.ver)
  /\ desired # Nil => Recordable(desired.ver)
  /\ latest # Nil => Recordable(latest.ver)
  /\ sm # Nil => (sm.revver # Nil => vers[sm.revver] \in {Nil, sm.cfg})

\* A push answers with a version that holds what it pushed.
LEMMA PushRecords ==
  ASSUME TypeOK, NEW c \in Config, NEW t \in Tags, NEW p,
         NEW rv \in DOMAIN vers \cup {Nil}, rv # Nil => vers[rv] \in {Nil, c},
         Push(c, t, p, rv)
  PROVE  /\ PublishedVersion(p, rv) # Nil =>
              vers'[PublishedVersion(p, rv)] \in {Nil, pushed'}
         /\ sm'.revver # Nil => vers'[sm'.revver] \in {Nil, sm'.cfg}
<1> DEFINE v == PublishedVersion(p, rv)
<1>1. /\ vers \in Seq(Config \cup {Nil}) /\ Len(vers) \in Nat
      /\ DOMAIN vers = 1 .. Len(vers)
      /\ \A i \in DOMAIN vers : Append(vers, c)[i] = vers[i]
      /\ Append(vers, c)[Len(vers) + 1] = c
  BY DEF TypeOK
<1>2. /\ vers' = IF v # Nil /\ v = Len(vers) + 1 THEN Append(vers, c) ELSE vers
      /\ sm' = [status |-> "active", cfg |-> c, tags |-> t,
                revver |-> IF v = Nil THEN rv ELSE v]
      /\ pushed' = c
  BY DEF Push
<1>3. v # Nil => v = Len(vers) + 1 \/ (v = rv /\ rv # Nil)
  BY DEF PublishedVersion
<1>4. v # Nil => vers'[v] \in {Nil, c}
  BY <1>1, <1>2, <1>3
<1>5. v = Nil => vers' = vers
  BY <1>2
<1>6. QED
  BY <1>2, <1>4, <1>5

LEMMA RecordedStep ==
  ASSUME Faults \subseteq {"error"}, TypeOK, Recorded, Next PROVE Recorded'
<1> USE StateMachineConstants DEF k8s, aws, pass, bounds
<1>0. /\ cr \in Resource \cup {Nil} /\ desired \in Resource \cup {Nil}
      /\ latest \in Resource \cup {Nil} /\ sm \in Machine \cup {Nil}
      /\ vers \in Seq(Config \cup {Nil})
  BY DEF TypeOK
<1>1. CASE Reconcile
  <2>1. cr \in Resource /\ cr.spec.tags \in Tags
    BY <1>1, <1>0 DEF Reconcile, Resource, StateMachineSpec
  <2>2. desired'.ver = cr.ver
    BY <1>1, <2>1, EnsureTagsType, WithTagsType DEF Reconcile
  <2>3. QED
    BY <1>1, <2>2 DEF Reconcile, Recorded, Recordable
<1>2. CASE sdkFind
  <2>1. desired # Nil /\ desired \in Resource
    BY <1>2 DEF TypeOK, sdkFind
  <2>2. latest' = latest \/ latest'.ver = desired.ver
    BY <1>2, <2>1 DEF sdkFind, Resource
  <2>3. QED
    BY <1>2, <2>1, <2>2 DEF sdkFind, Recorded, Recordable
<1>3. CASE GetResourceTags
  <2>1. /\ latest \in Resource /\ latest # Nil /\ desired # Nil
        /\ sm # Nil => sm.tags \in Tags
    BY <1>3 DEF TypeOK, GetResourceTags, Machine
  <2>2. latest'.ver = latest.ver \/ (latest' = desired /\ desired' = Nil)
    BY <1>3, <2>1, WithTagsType DEF GetResourceTags, Return
  <2>3. QED
    BY <1>3, <2>1, <2>2 DEF GetResourceTags, Return, Recorded, Recordable
<1>4. CASE clearDeletedVersionARN
  <2>1. latest # Nil /\ latest'.ver \in {latest.ver, Nil}
    BY <1>4 DEF clearDeletedVersionARN, TypeOK, Resource
  <2>2. QED
    BY <1>4, <2>1 DEF clearDeletedVersionARN, Recorded, Recordable
<1>5. CASE Compare
  <2> DEFINE d == WithTags(desired, mirrorAWSTags(desired.spec.tags, latest.spec.tags))
  <2>1. /\ desired \in Resource /\ desired.spec.tags \in Tags /\ desired # Nil
        /\ latest \in Resource /\ latest.spec.tags \in Tags
    BY <1>5 DEF TypeOK, Compare, Resource, StateMachineSpec
  <2>2. d.ver = desired.ver
    BY <2>1, MirrorType, WithTagsType
  <2>3. /\ cr' = cr /\ sm' = sm /\ vers' = vers /\ pushed' = pushed /\ latest' = latest
        /\ desired' \in {Nil, desired, d} /\ pc = "compare"
    BY <1>5 DEF Compare, Return
  <2>4. QED
    BY <2>1, <2>2, <2>3 DEF Recorded, Recordable
<1>6. CASE SyncUntag \/ SyncTag
  <2>1. /\ UNCHANGED <<cr, vers, pushed>> /\ pc # "persist"
        /\ desired # Nil /\ latest # Nil
        /\ sm' = sm \/ (sm # Nil /\ sm' \in {untagged, tagged})
    BY <1>6 DEF SyncUntag, SyncTag, TypeOK
  <2>2. UpdateRest => desired' \in {Nil, desired} /\ latest' \in {latest, desired}
    BY DEF UpdateRest, Return
  <2>3. desired' \in {Nil, desired} /\ latest' \in {latest, desired}
    BY <1>6, <2>2 DEF SyncUntag, SyncTag, Return
  <2>4. sm # Nil => /\ untagged.cfg = sm.cfg /\ untagged.revver = sm.revver
                    /\ tagged.cfg = sm.cfg /\ tagged.revver = sm.revver
    BY <1>0 DEF untagged, tagged, Machine
  <2>5. QED
    BY <2>1, <2>3, <2>4 DEF Recorded, Recordable
<1>7. CASE updateStateMachine
  <2> DEFINE v == PublishedVersion(UpdatePublish, UpdatedRevver)
  <2>1. CASE Active
    <3>1. desired \in Resource /\ sm \in Machine /\ sm # Nil
      BY <1>7, <2>1 DEF updateStateMachine, Active, TypeOK
    <3>2. UpdatedConfig \in Config /\ sm.tags \in Tags
      BY <3>1, UpdateConfigType DEF UpdatedConfig, Resource, Machine
    <3>3. /\ UpdatedRevver \in DOMAIN vers \cup {Nil}
          /\ UpdatedRevver # Nil => vers[UpdatedRevver] \in {Nil, UpdatedConfig}
      BY <3>1 DEF UpdatedRevver, TypeOK, Recorded
    <3>4. /\ v # Nil => vers'[v] \in {Nil, pushed'}
          /\ sm'.revver # Nil => vers'[sm'.revver] \in {Nil, sm'.cfg}
      BY <1>7, <2>1, <3>2, <3>3, PushRecords DEF updateStateMachine, UpdateEffect
    <3>5. pc' = "persist" /\ desired' = Nil /\ latest'.ver = v
      BY <1>7, <2>1, <3>1 DEF updateStateMachine, Return, MirrorVersion, Resource
    <3>6. QED
      BY <3>4, <3>5 DEF Recorded, Recordable
  <2>2. CASE ~Active
    BY <1>7, <2>2 DEF updateStateMachine, Return, Recorded, Recordable
  <2>3. QED
    BY <2>1, <2>2
<1>8. CASE MarkManaged
  <2>1. cr # Nil => cr'.ver = cr.ver /\ desired'.ver = desired.ver /\ desired # Nil
    BY <1>0, <1>8 DEF MarkManaged, TypeOK, Resource
  <2>2. QED
    BY <1>8, <2>1 DEF MarkManaged, Forget, Recorded, Recordable
<1>9. CASE sdkCreate
  <2> DEFINE v == PublishedVersion(CreatePublish, CreatedRevver)
  <2>1. CASE Creatable
    <3>1. desired \in Resource /\ desired.spec \in StateMachineSpec
      BY <1>9 DEF sdkCreate, TypeOK, Resource
    <3>2. CreatedConfig \in Config /\ CreatedTags \in Tags
      BY <1>0, <3>1, CreateConfigType
         DEF CreatedConfig, CreatedTags, newCreateRequestPayload, Machine, StateMachineSpec
    <3>3. /\ CreatedRevver \in DOMAIN vers \cup {Nil}
          /\ CreatedRevver # Nil => vers[CreatedRevver] \in {Nil, CreatedConfig}
      BY <2>1 DEF CreatedRevver, Creatable, TypeOK, Recorded
    <3>4. /\ v # Nil => vers'[v] \in {Nil, pushed'}
          /\ sm'.revver # Nil => vers'[sm'.revver] \in {Nil, sm'.cfg}
      BY <1>9, <2>1, <3>2, <3>3, PushRecords DEF sdkCreate, CreateEffect
    <3>5. pc' = "persist" /\ desired' = Nil /\ latest'.ver = v
      BY <1>9, <2>1, <3>1 DEF sdkCreate, Return, Created, Resource
    <3>6. QED
      BY <3>4, <3>5 DEF Recorded, Recordable
  <2>2. CASE ~Creatable
    BY <1>9, <2>2 DEF sdkCreate, CreateFailed, Return, Recorded, Recordable, TypeOK
  <2>3. QED
    BY <2>1, <2>2
<1>10. CASE sdkDelete
  <2>1. sm' # Nil => sm # Nil /\ sm'.cfg = sm.cfg /\ sm'.revver = sm.revver
    BY <1>0, <1>10 DEF sdkDelete, DeleteEffect, Machine
  <2>2. QED
    BY <1>10, <2>1 DEF sdkDelete, Recorded, Recordable
<1>11. CASE MarkUnmanaged
  BY <1>0, <1>11, UnmanagedType DEF MarkUnmanaged, Forget, Recorded, Recordable
<1>12. CASE Persist
  <2>1. latest # Nil /\ (cr' # Nil => cr'.ver = latest.ver)
    BY <1>0, <1>12 DEF Persist, TypeOK, Resource
  <2>2. QED
    BY <1>12, <2>1 DEF Persist, Forget, Recorded, Recordable
<1>13. CASE User
  <2>1. cr' # Nil => cr'.ver = Nil \/ (cr # Nil /\ cr'.ver = cr.ver)
    BY <1>0, <1>13 DEF User, CreateCR, EditSpec, DeleteCR, Resource
  <2>2. UNCHANGED <<aws, pass>>
    BY <1>13 DEF User, CreateCR, EditSpec, DeleteCR
  <2>3. QED
    BY <2>1, <2>2 DEF Recorded, Recordable
<1>14. CASE OtherClients \/ FinishDelete
  <2>1. UNCHANGED <<cr, pushed, pc, desired, latest, delta>>
    BY <1>14, ZenonT(60) DEF OtherClients, DriftConfig, DriftTag, DeleteVersion, DeleteMachine, FinishDelete
  <2>2. /\ DOMAIN vers' = DOMAIN vers
        /\ \A i \in DOMAIN vers : vers'[i] \in {Nil, vers[i]}
    BY <1>0, <1>14, ZenonT(60)
       DEF OtherClients, DriftConfig, DriftTag, DeleteVersion, DeleteMachine, FinishDelete
  <2>3. sm' # Nil => sm # Nil /\ ( \/ sm'.revver = Nil
                                   \/ sm'.revver = sm.revver /\ sm'.cfg = sm.cfg)
    BY <1>0, <1>14 DEF OtherClients, DriftConfig, DriftTag, DeleteVersion, DeleteMachine,
                       FinishDelete, Active, Machine
  <2>4. \A r \in {cr, desired, latest} : r # Nil => r.ver \in DOMAIN vers \cup {Nil}
    BY DEF TypeOK
  <2>5. sm # Nil => sm.revver \in DOMAIN vers \cup {Nil}
    BY DEF TypeOK
  <2>6. QED
    BY <2>1, <2>2, <2>3, <2>4, <2>5, SMTT(30) DEF Recorded, Recordable
<1>15. CASE ApiError
  <2>1. /\ UNCHANGED aws
        /\ desired' \in {Nil, desired} /\ latest' \in {Nil, desired, latest}
        /\ cr' \in {cr, Unmanaged(cr)} /\ pc # "persist"
    BY <1>15 DEF ApiError, CreateFailed, Return, Forget
  <2>2. cr' # Nil => cr # Nil /\ cr'.ver = cr.ver
    BY <1>0, <2>1, UnmanagedType
  <2>3. QED
    BY <2>1, <2>2 DEF Recorded, Recordable
<1>16. ~LostResponse /\ ~StatusPatchFails /\ ~Crash
  BY DEF LostResponse, StatusPatchFails, Crash, Fails
<1>17. QED
  BY <1>1, <1>2, <1>3, <1>4, <1>5, <1>6, <1>7, <1>8, <1>9, <1>10, <1>11, <1>12, <1>13,
     <1>14, <1>15, <1>16 DEF Next, Controller

\* As long as no answer is lost and no pass is cut short: the version the status
\* names, if it still exists, holds the configuration last pushed, for every
\* sequence of edits, of publish flips, of drifts and of deleted versions.
THEOREM RecordedVersionIsCurrent ==
  ASSUME Faults \subseteq {"error"} PROVE Spec => []RecordedVersionHoldsPush
<1>1. Init => Recorded
  BY DEF Init, Recorded
<1>2. TypeOK /\ Recorded /\ [Next]_vars => Recorded'
  <2> SUFFICES ASSUME TypeOK, Recorded, [Next]_vars PROVE Recorded'
    OBVIOUS
  <2>1. CASE UNCHANGED vars
    BY <2>1 DEF Recorded, Recordable, vars
  <2>2. QED
    BY <2>1, RecordedStep
<1>3. Recorded => RecordedVersionHoldsPush
  BY DEF Recorded, Recordable, RecordedVersionHoldsPush
<1>4. QED
  BY <1>1, <1>2, <1>3, TypeCorrect, PTL DEF Spec

-----------------------------------------------------------------------------
(* StateMachine implements ManagedResource as long as no answer of AWS is  *)
(* lost and the controller does not stop in the middle of a pass: every    *)
(* step, seen through ObjectState and Active, is a step of ManagedResource *)
(* or changes nothing of what it sees.                                     *)

Holding == ObjectState \in {"managed", "deleting"}

\* A step that leaves the custom resource's state alone may start or stop the
\* state machine; it runs only under a finalizer (Owned).
LEMMA SameObject ==
  ASSUME TypeOK', Owned', ObjectState' = ObjectState
  PROVE  [Managed!Next]_(Managed!vars)
<1>1. Active \in BOOLEAN /\ Active' \in BOOLEAN
  BY DEF Active
<1>2. Active' => Holding'
  BY DEF Owned, Holding, ObjectState, IsManaged, TypeOK, Resource
<1>3. CASE Active' = Active
  BY <1>3 DEF Managed!vars
<1>4. CASE Active' = TRUE
  BY <1>2, <1>4 DEF Holding, Managed!Next, Managed!Provision, Managed!Holds
<1>5. CASE Active' = FALSE
  BY <1>5 DEF Managed!Next, Managed!Vanish
<1>6. QED
  BY <1>1, <1>3, <1>4, <1>5

\* A change of the custom resource's state that ManagedResource knows, while
\* the state machine is left alone.
Changes ==
  \/ ObjectState = "none" /\ ObjectState' = "unmanaged"
  \/ ObjectState = "unmanaged" /\ ObjectState' \in {"none", "managed"}
  \/ ObjectState = "managed" /\ ObjectState' = "deleting"
  \/ ~Active /\ ObjectState = "managed" /\ ObjectState' = "unmanaged"
  \/ ~Active /\ ObjectState = "deleting" /\ ObjectState' = "none"

LEMMA ChangedObject ==
  ASSUME Changes, Active' = Active PROVE Managed!Next
<1> USE DEF Managed!Next, Managed!Submit, Managed!Claim, Managed!RequestDeletion,
            Managed!Release, Managed!Becomes
<1>1. CASE ObjectState = "none" /\ ObjectState' = "unmanaged"
  BY <1>1
<1>2. CASE ObjectState = "unmanaged" /\ ObjectState' \in {"none", "managed"}
  BY <1>2
<1>3. CASE ObjectState = "managed" /\ ObjectState' = "deleting"
  BY <1>3
<1>4. CASE ~Active /\ ObjectState = "managed" /\ ObjectState' = "unmanaged"
  BY <1>4
<1>5. CASE ~Active /\ ObjectState = "deleting" /\ ObjectState' = "none"
  BY <1>5
<1>6. QED
  BY <1>1, <1>2, <1>3, <1>4, <1>5 DEF Changes

\* Taking the finalizer back, where nothing runs.
LEMMA UnmanagedChanges ==
  ASSUME TypeOK, ~Active, cr' = Unmanaged(cr)
  PROVE  ObjectState' = ObjectState \/ Changes
<1>1. CASE cr = Nil \/ cr.phase = "deleting"
  BY <1>1 DEF Unmanaged, ObjectState, Changes
<1>2. CASE cr # Nil /\ cr.phase # "deleting"
  BY <1>2, StateMachineConstants, SMTT(30)
     DEF Unmanaged, ObjectState, Changes, TypeOK, Resource
<1>3. QED
  BY <1>1, <1>2

\* Every step keeps the state of the custom resource, or changes it in a way of
\* ManagedResource's and then leaves the state machine alone.
LEMMA ObjectSteps ==
  ASSUME Faults \subseteq {"error"}, TypeOK, Owned, Next
  PROVE  ObjectState' = ObjectState \/ (Changes /\ Active' = Active)
<1> USE DEF k8s, aws, pass, bounds
<1>1. ASSUME cr' = cr PROVE ObjectState' = ObjectState
  BY <1>1 DEF ObjectState
<1>2. CASE Reconcile \/ sdkFind \/ GetResourceTags \/ clearDeletedVersionARN \/ Compare
           \/ SyncUntag \/ SyncTag \/ updateStateMachine \/ sdkDelete
  BY <1>1, <1>2 DEF Reconcile, sdkFind, GetResourceTags, clearDeletedVersionARN, Compare,
                    SyncUntag, SyncTag, updateStateMachine, sdkDelete
<1>3. CASE MarkManaged
  <2>1. Active' = Active
    BY <1>3 DEF MarkManaged, Active
  <2>2. CASE cr = Nil
    BY <1>1, <1>3, <2>2 DEF MarkManaged
  <2>3. CASE cr # Nil
    <3>1. cr \in Resource /\ cr' = [cr EXCEPT !.finalizers = @ \cup {FinalizerString}]
      BY <1>3, <2>3 DEF MarkManaged, TypeOK
    <3>2. cr' \in Resource /\ cr'.phase = cr.phase /\ cr'.finalizers # {}
      BY <3>1 DEF Resource
    <3>3. QED
      BY <2>1, <2>3, <3>1, <3>2, StateMachineConstants DEF ObjectState, Changes, Resource
  <2>4. QED
    BY <2>2, <2>3
<1>4. CASE sdkCreate
  <2>1. CASE Creatable
    BY <1>1, <1>4, <2>1 DEF sdkCreate
  <2>2. CASE ~Creatable
    <3>1. ~Active /\ Active' = Active /\ cr' \in {cr, Unmanaged(cr)}
      BY <1>4, <2>2 DEF sdkCreate, CreateFailed, Owned, Active
    <3>2. QED
      BY <1>1, <3>1, UnmanagedChanges
  <2>3. QED
    BY <2>1, <2>2
<1>5. CASE MarkUnmanaged
  <2>1. ~Active /\ Active' = Active /\ cr' = Unmanaged(cr)
    BY <1>5 DEF MarkUnmanaged, Owned, Active
  <2>2. QED
    BY <2>1, UnmanagedChanges
<1>6. CASE Persist
  BY <1>6, StateMachineConstants, ZenonT(60) DEF Persist, ObjectState, TypeOK, Resource
<1>7. CASE User
  <2>1. Active' = Active
    BY <1>7 DEF User, CreateCR, EditSpec, DeleteCR, Active
  <2>2. ASSUME NEW s \in Specs, CreateCR(s) PROVE Changes
    BY <2>2, StateMachineConstants DEF CreateCR, Changes, ObjectState, Resource
  <2>3. ASSUME NEW s \in Specs, EditSpec(s) PROVE ObjectState' = ObjectState
    BY <2>3, StateMachineConstants, SMTT(30) DEF EditSpec, ObjectState, TypeOK, Resource
  <2>4. CASE DeleteCR
    BY <2>1, <2>4, StateMachineConstants DEF DeleteCR, Changes, ObjectState, TypeOK, Resource
  <2>5. QED
    BY <1>7, <2>1, <2>2, <2>3, <2>4 DEF User
<1>8. CASE OtherClients \/ FinishDelete
  BY <1>1, <1>8 DEF OtherClients, DriftConfig, DriftTag, DeleteVersion, DeleteMachine,
                    FinishDelete
<1>9. CASE ApiError
  <2>1. Active' = Active
    BY <1>9 DEF ApiError, Active
  <2>2. CASE pc = "create" /\ CreateFailed
    BY <1>1, <2>1, <2>2, UnmanagedChanges DEF CreateFailed, Owned
  <2>3. CASE cr' = cr
    BY <1>1, <2>3
  <2>4. QED
    BY <1>9, <2>2, <2>3 DEF ApiError
<1>10. ~LostResponse /\ ~StatusPatchFails /\ ~Crash
  BY DEF LostResponse, StatusPatchFails, Crash, Fails
<1>11. QED
  BY <1>2, <1>3, <1>4, <1>5, <1>6, <1>7, <1>8, <1>9, <1>10 DEF Next, Controller

-----------------------------------------------------------------------------
\* As long as no answer is lost and no pass is cut short, for every set of
\* specs, every drift and every failing call: whatever interleaves with the
\* calls of a pass, the state machine is started only under the finalizer that
\* MarkManaged sets, and MarkUnmanaged comes after its deletion.
THEOREM FinalizerPromiseKept ==
  ASSUME Faults \subseteq {"error"} PROVE Spec => KeepsFinalizerPromise
<1>1. Init => Owned
  BY DEF Init, Owned, Active, Reading
<1>2. TypeOK /\ Owned /\ [Next]_vars => Owned'
  <2> SUFFICES ASSUME TypeOK, Owned, [Next]_vars PROVE Owned'
    OBVIOUS
  <2>1. CASE UNCHANGED vars
    BY <2>1 DEF Owned, vars, Active, IsManaged
  <2>2. QED
    BY <2>1, OwnedStep
<1>3. Init => Managed!Init
  BY DEF Init, Managed!Init, ObjectState, Active
<1>4. TypeOK /\ TypeOK' /\ Owned /\ Owned' /\ [Next]_vars => [Managed!Next]_(Managed!vars)
  <2> SUFFICES ASSUME TypeOK, TypeOK', Owned, Owned', [Next]_vars
               PROVE  [Managed!Next]_(Managed!vars)
    OBVIOUS
  <2>1. CASE UNCHANGED vars
    BY <2>1 DEF vars, Managed!vars, ObjectState, Active
  <2>2. CASE Next
    BY <2>2, ObjectSteps, SameObject, ChangedObject
  <2>3. QED
    BY <2>1, <2>2
<1>5. QED
  BY <1>1, <1>2, <1>3, <1>4, TypeCorrect, PTL DEF Spec, KeepsFinalizerPromise, Managed!Spec
=============================================================================
