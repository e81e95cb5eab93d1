--------------------------- MODULE ActivityProofs ---------------------------
(***************************************************************************)
(* What holds of Activity for any number of custom resources that share an *)
(* activity, and for every value of the other constants.                   *)
(***************************************************************************)
EXTENDS Activity, ConditionsProofs

-----------------------------------------------------------------------------
(* Types of the conversions.                                               *)

LEMMA TagTypes ==
  ASSUME NEW a \in Tags, NEW b \in Tags, NEW K
  PROVE  /\ EnsureTags(a) \in Tags /\ mirrorAWSTags(a, b) \in Tags
         /\ UntagResource(a, K) \in Tags /\ TagResource(a, K, b) \in Tags
BY TagConstants
   DEF EnsureTags, Merge, mirrorAWSTags, syncAWSTags, UntagResource, TagResource, Tags

\* Reporting an outcome touches the conditions only.
LEMMA ReportTypes ==
  ASSUME NEW r \in Resource
  PROVE  /\ Failed(r) \in Resource /\ Failed(r).arn = r.arn
         /\ Succeeded(r) \in Resource /\ Succeeded(r).arn = r.arn
<1>1. "Failure" \in Errors /\ r.conds \in Seq(Condition)
  BY DEF Errors, Resource
<1>2. onError(r.conds, "Failure").conds \in Seq(Condition) /\ onSuccess(r.conds) \in Seq(Condition)
  BY <1>1, ReportedType
<1>3. QED
  BY <1>2 DEF Failed, Succeeded, Resource

LEMMA RecordTypes ==
  ASSUME NEW r \in Resource
  PROVE  /\ Created(r) \in Resource /\ Created(r).arn = ARN
         /\ Unmanaged(r) \in Ptr(Resource)
         /\ \A t \in Tags : [r EXCEPT !.tags = t] \in Resource
         /\ [r EXCEPT !.managed = TRUE] \in Resource
         /\ [r EXCEPT !.phase = "deleting"] \in Resource
         /\ \A q \in Resource : [r EXCEPT !.arn = q.arn, !.conds = q.conds] \in Resource
BY DEF Created, Unmanaged, Resource, Ptr

-----------------------------------------------------------------------------
(* Type correctness.                                                       *)

\* The ends of a pass.
LEMMA ForgetType ==
  ASSUME TypeOK, NEW c \in CRs, Forget(c), crs' \in [CRs -> Ptr(Resource)], act' \in Ptr(Tags),
         cut' \in BOOLEAN, edits' \in Nat, disturbances' \in Nat
  PROVE  TypeOK'
BY DEF TypeOK, Forget, Goto, Ptr

LEMMA ReturnType ==
  ASSUME TypeOK, NEW c \in CRs, pc[c] # "idle", NEW r \in Resource, Return(c, r),
         crs' \in [CRs -> Ptr(Resource)], act' \in Ptr(Tags),
         cut' \in BOOLEAN, edits' \in Nat, disturbances' \in Nat
  PROVE  TypeOK'
BY ActivityConstants DEF TypeOK, Return, Goto, Ptr

LEMMA SetType ==
  ASSUME TypeOK, NEW c \in CRs, NEW r \in Ptr(Resource), SetCR(c, r)
  PROVE  crs' \in [CRs -> Ptr(Resource)]
BY DEF TypeOK, SetCR

LEMMA CreateFailedType ==
  ASSUME TypeOK, NEW c \in CRs, pc[c] = "create", CreateFailed(c)
  PROVE  Failed(desired[c]) \in Resource /\ Return(c, Failed(desired[c]))
         /\ crs' \in [CRs -> Ptr(Resource)]
<1>1. desired[c] \in Resource /\ crs[c] \in Ptr(Resource)
  BY DEF TypeOK, Ptr
<1>2. Unmanaged(crs[c]) \in Ptr(Resource)
  BY <1>1, RecordTypes DEF Unmanaged, Ptr
<1>3. QED
  BY <1>1, <1>2, ReportTypes, SetType DEF CreateFailed, TypeOK

LEMMA ControllerType ==
  ASSUME TypeOK, NEW c \in CRs, Controller(c) PROVE TypeOK'
<1> USE DEF pass, bounds
<1>1. /\ crs[c] \in Ptr(Resource) /\ desired[c] \in Ptr(Resource) /\ latest[c] \in Ptr(Resource)
      /\ act \in Ptr(Tags) /\ crs \in [CRs -> Ptr(Resource)]
      /\ cut \in BOOLEAN /\ edits \in Nat /\ disturbances \in Nat
      /\ pc[c] # "idle" => desired[c] \in Resource
      /\ pc[c] \in {"listTags", "compare", "untag", "tag", "delete", "persist"} =>
           latest[c] \in Resource
  BY DEF TypeOK, Ptr
<1>2. CASE Reconcile(c)
  <2>1. [crs[c] EXCEPT !.tags = EnsureTags(@)] \in Resource
    BY <1>1, <1>2, RecordTypes, TagTypes DEF Reconcile, Resource, Ptr
  <2>2. QED
    BY <1>2, <2>1, ActivityConstants DEF Reconcile, TypeOK, Goto, Ptr
<1>3. CASE sdkFind(c)
  BY <1>1, <1>3, ActivityConstants DEF sdkFind, TypeOK, Goto, Ptr
<1>4. CASE setResourceAdditionalFields(c)
  <2>1. CASE act = Nil
    BY <1>1, <1>4, <2>1, ReportTypes, ReturnType DEF setResourceAdditionalFields
  <2>2. CASE act # Nil
    <3>1. act \in Tags /\ latest[c] \in Resource /\ desired[c] \in Resource
      BY <1>1, <1>4, <2>2 DEF setResourceAdditionalFields, Ptr
    <3>2. Succeeded([latest[c] EXCEPT !.tags = act]) \in Resource
      BY <3>1, RecordTypes, ReportTypes
    <3>3. [desired[c] EXCEPT !.tags = mirrorAWSTags(@, act)] \in Resource
      BY <3>1, RecordTypes, TagTypes DEF Resource
    <3>4. /\ latest' = [latest EXCEPT ![c] = Succeeded([latest[c] EXCEPT !.tags = act])]
          /\ desired' = [desired EXCEPT ![c].tags = mirrorAWSTags(@, act)]
          /\ pc' = [pc EXCEPT ![c] = "compare"]
          /\ UNCHANGED <<crs, act, cut, edits, disturbances>>
      BY <1>4, <2>2 DEF setResourceAdditionalFields, Goto
    <3>5. /\ Succeeded([latest[c] EXCEPT !.tags = act]) # Nil
          /\ [desired[c] EXCEPT !.tags = mirrorAWSTags(desired[c].tags, act)] # Nil
      BY <3>2, <3>3, ActivityConstants
    <3>6. QED
      BY <3>2, <3>3, <3>4, <3>5 DEF TypeOK, Ptr
  <2>3. QED
    BY <2>1, <2>2
<1>5. CASE newResourceDelta(c)
  <2>1. CASE Return(c, latest[c])
    BY <1>1, <1>5, <2>1, ReturnType DEF newResourceDelta
  <2>2. CASE ~Return(c, latest[c])
    BY <1>5, <2>2 DEF newResourceDelta, TypeOK, Goto
  <2>3. QED
    BY <2>1, <2>2
<1>6. CASE Untag(c)
  <2>1. CASE act = Nil
    BY <1>1, <1>6, <2>1, ReportTypes, ReturnType DEF Untag
  <2>2. CASE act # Nil
    <3>1. act' \in Ptr(Tags)
      BY <1>1, <1>6, <2>2, TagTypes DEF Untag, Ptr
    <3>2. CASE Added(c) # {}
      BY <1>6, <2>2, <3>1, <3>2 DEF Untag, TypeOK, Goto
    <3>3. CASE Added(c) = {}
      BY <1>1, <1>6, <2>2, <3>1, <3>3, ReportTypes, ReturnType DEF Untag
    <3>4. QED
      BY <3>2, <3>3
  <2>3. QED
    BY <2>1, <2>2
<1>7. CASE Tag(c)
  <2>1. CASE act = Nil
    BY <1>1, <1>7, <2>1, ReportTypes, ReturnType DEF Tag
  <2>2. CASE act # Nil
    <3>1. act' \in Ptr(Tags)
      <4>1. act \in Tags /\ desired[c].tags \in Tags
        BY <1>1, <1>7, <2>2 DEF Tag, Ptr, Resource
      <4>2. QED
        BY <1>7, <2>2, <4>1, TagTypes DEF Tag, Ptr
    <3>2. QED
      BY <1>1, <1>7, <2>2, <3>1, ReportTypes, ReturnType DEF Tag
  <2>3. QED
    BY <2>1, <2>2
<1>8. CASE MarkManaged(c)
  <2>1. CASE crs[c] = Nil
    BY <1>1, <1>8, <2>1, ForgetType DEF MarkManaged
  <2>2. CASE crs[c] # Nil
    <3>1. /\ [crs[c] EXCEPT !.managed = TRUE] \in Resource
          /\ [desired[c] EXCEPT !.managed = TRUE] \in Resource
      BY <1>1, <1>8, <2>2, RecordTypes DEF MarkManaged, Ptr
    <3>2. crs' \in [CRs -> Ptr(Resource)]
      BY <1>8, <2>2, <3>1, SetType DEF MarkManaged, Ptr
    <3>3. /\ desired' = [desired EXCEPT ![c] = [desired[c] EXCEPT !.managed = TRUE]]
          /\ pc' = [pc EXCEPT ![c] = "create"]
          /\ UNCHANGED <<act, latest, cut, edits, disturbances>>
      BY <1>8, <2>2 DEF MarkManaged, TypeOK, Goto
    <3>4. [desired[c] EXCEPT !.managed = TRUE] # Nil
      BY <3>1, ActivityConstants
    <3>5. QED
      BY <3>1, <3>2, <3>3, <3>4 DEF TypeOK, Ptr
  <2>3. QED
    BY <2>1, <2>2
<1>9. CASE sdkCreate(c)
  <2>1. Succeeded(Created(desired[c])) \in Resource /\ desired[c].tags \in Tags
    BY <1>1, <1>9, RecordTypes, ReportTypes DEF sdkCreate, Resource
  <2>2. act' \in Ptr(Tags)
    BY <1>1, <1>9, <2>1 DEF sdkCreate, CreateEffect, Ptr
  <2>3. QED
    BY <1>1, <1>9, <2>1, <2>2, ReturnType DEF sdkCreate
<1>10. CASE sdkDelete(c)
  BY <1>10 DEF sdkDelete, TypeOK, Goto, Ptr
<1>11. CASE MarkUnmanaged(c)
  <2>1. Unmanaged(crs[c]) \in Ptr(Resource)
    BY <1>1, RecordTypes DEF Unmanaged, Ptr
  <2>2. QED
    BY <1>1, <1>11, <2>1, SetType, ForgetType DEF MarkUnmanaged
<1>12. CASE Persist(c)
  <2>1. crs' \in [CRs -> Ptr(Resource)]
    BY <1>1, <1>12, RecordTypes, SetType DEF Persist, Ptr
  <2>2. QED
    BY <1>1, <1>12, <2>1, ForgetType DEF Persist
<1>13. QED
  BY <1>2, <1>3, <1>4, <1>5, <1>6, <1>7, <1>8, <1>9, <1>10, <1>11, <1>12 DEF Controller

LEMMA EnvironmentType ==
  ASSUME TypeOK, (\E c \in CRs : User(c)) \/ OtherClients \/ Crash PROVE TypeOK'
<1> USE DEF pass
<1>1. ASSUME NEW c \in CRs, NEW r \in Ptr(Resource), SetCR(c, r), Acts, UNCHANGED <<act, pass>>
      PROVE  TypeOK'
  <2>1. crs' \in [CRs -> Ptr(Resource)]
    BY <1>1, SetType
  <2>2. QED
    BY <1>1, <2>1 DEF TypeOK, Acts
<1>2. ASSUME NEW c \in CRs, NEW t \in TagSets, CreateCR(c, t) PROVE TypeOK'
  <2>1. [phase |-> "live", tags |-> t, arn |-> Nil, managed |-> FALSE, conds |-> <<>>] \in Resource
    BY ActivityConstants DEF Resource, Ptr
  <2>2. QED
    BY <1>1, <1>2, <2>1 DEF CreateCR, Ptr
<1>3. ASSUME NEW c \in CRs, NEW t \in TagSets, EditTags(c, t) PROVE TypeOK'
  <2>1. [crs[c] EXCEPT !.tags = t] \in Resource
    BY <1>3, RecordTypes, ActivityConstants DEF EditTags, TypeOK, Ptr
  <2>2. QED
    BY <1>1, <1>3, <2>1 DEF EditTags, Ptr
<1>4. ASSUME NEW c \in CRs, DeleteCR(c) PROVE TypeOK'
  <2>1. (IF crs[c].managed THEN [crs[c] EXCEPT !.phase = "deleting"] ELSE Nil) \in Ptr(Resource)
    BY <1>4, RecordTypes DEF DeleteCR, TypeOK, Ptr
  <2>2. QED
    BY <1>1, <1>4, <2>1 DEF DeleteCR
<1>5. CASE OtherClients
  BY <1>5, ActivityConstants DEF OtherClients, DriftTag, DeleteActivity, Drifts, Disturbs, TypeOK, Ptr
<1>6. CASE Crash
  BY <1>6 DEF Crash, Fails, Disturbs, TypeOK, Ptr
<1>7. QED
  BY <1>2, <1>3, <1>4, <1>5, <1>6 DEF User

LEMMA FaultType ==
  ASSUME TypeOK, NEW c \in CRs, ApiError(c) \/ LostResponse(c) \/ StatusPatchFails(c)
  PROVE  TypeOK'
<1>1. /\ crs[c] \in Ptr(Resource) /\ desired[c] \in Ptr(Resource) /\ latest[c] \in Ptr(Resource)
      /\ act \in Ptr(Tags) /\ crs \in [CRs -> Ptr(Resource)]
      /\ pc[c] # "idle" => desired[c] \in Resource
      /\ pc[c] \in {"listTags", "compare", "untag", "tag", "delete", "persist"} =>
           latest[c] \in Resource
  BY DEF TypeOK, Ptr
<1>2. cut' \in BOOLEAN /\ edits' \in Nat /\ disturbances' \in Nat
  <2>1. PICK kind : Fails(kind)
    BY DEF ApiError, LostResponse, StatusPatchFails
  <2>2. cut' \in BOOLEAN
    BY <2>1 DEF Fails
  <2>3. QED
    BY <2>1, <2>2 DEF Fails, Disturbs, TypeOK
<1>3. act' \in Ptr(Tags)
  <2>1. CASE ApiError(c)
    BY <1>1, <2>1 DEF ApiError
  <2>2. CASE LostResponse(c)
    <3>1. act # Nil => act \in Tags /\ UntagResource(act, Removed(c)) \in Tags
      BY <1>1, TagTypes DEF Ptr
    <3>2. pc[c] # "idle" => desired[c].tags \in Tags
      BY <1>1 DEF Resource
    <3>3. pc[c] = "tag" /\ act # Nil => TagResource(act, Added(c), desired[c].tags) \in Tags
      BY <3>1, <3>2, TagTypes
    <3>4. QED
      BY <1>1, <2>2, <3>1, <3>2, <3>3 DEF LostResponse, CreateEffect, Ptr
  <2>3. QED
    BY <1>1, <2>1, <2>2 DEF StatusPatchFails
<1>4. CASE pc[c] = "create" /\ CreateFailed(c)
  BY <1>2, <1>3, <1>4, CreateFailedType, ReturnType
<1>5. CASE /\ pc[c] \in {"describe", "listTags"}
           /\ Return(c, Failed(desired[c])) /\ UNCHANGED crs
  BY <1>1, <1>2, <1>3, <1>5, ReportTypes, ReturnType
<1>6. CASE /\ pc[c] \in {"untag", "tag", "delete"}
           /\ Return(c, Failed(latest[c])) /\ UNCHANGED crs
  BY <1>1, <1>2, <1>3, <1>6, ReportTypes, ReturnType
<1>7. CASE Forget(c) /\ UNCHANGED crs
  BY <1>1, <1>2, <1>3, <1>7, ForgetType
<1>8. QED
  BY <1>4, <1>5, <1>6, <1>7 DEF ApiError, LostResponse, StatusPatchFails

\* Every reachable state is well typed and a pass has the copies its next call
\* needs, for any number of custom resources, any tags and any faults: no call
\* of the manager dereferences an object that is not there.
THEOREM ActivityTypeCorrect == Spec => []TypeOK
<1>1. Init => TypeOK
  <2> SUFFICES ASSUME Init PROVE TypeOK
    OBVIOUS
  <2>1. pc \in [CRs -> {"idle"}] /\ crs \in [CRs -> {Nil}] /\ act = Nil
    BY DEF Init
  <2>2. desired \in [CRs -> {Nil}] /\ latest \in [CRs -> {Nil}]
    BY DEF Init
  <2>3. cut \in BOOLEAN /\ edits \in Nat /\ disturbances \in Nat
    BY DEF Init
  <2>4. QED
    BY <2>1, <2>2, <2>3 DEF TypeOK, Ptr
<1>2. TypeOK /\ [Next]_vars => TypeOK'
  <2> SUFFICES ASSUME TypeOK, [Next]_vars PROVE TypeOK'
    OBVIOUS
  <2>1. CASE UNCHANGED vars
    BY <2>1 DEF TypeOK, vars
  <2>2. QED
    BY <2>1, ControllerType, EnvironmentType, FaultType DEF Next
<1>3. QED
  BY <1>1, <1>2, PTL DEF Spec

-----------------------------------------------------------------------------
(* Custody: somebody who will not let go holds every activity.             *)

Held(c) == ObjectState(c) \in {"managed", "deleting"}

\* The custom resource holds its finalizer and its pass knows the ARN, or will
\* read it from the status: as long as the activity is there, the pass finds it
\* and comes back here.
Custodian(c) ==
  /\ Held(c)
  /\ pc[c] \notin {"manage", "create", "unmanage"}
  /\ pc[c] = "idle" => crs[c].arn # Nil
  /\ pc[c] \in {"describe", "listTags", "compare", "untag", "tag", "delete"} =>
       desired[c].arn # Nil
  /\ pc[c] \in {"listTags", "compare", "untag", "tag", "delete", "persist"} =>
       latest[c].arn # Nil

Running == act # Nil /\ ~cut

\* A pass that creates holds the finalizer, and an activity has a custodian.
Custody ==
  /\ \A c \in CRs :
       pc[c] = "create" \/ (pc[c] = "describe" /\ desired[c].managed) => Held(c)
  /\ Running => \E c \in CRs : Custodian(c)

\* A step that concerns one custom resource leaves the others and their passes alone.
ActsOn(c) ==
  \A d \in CRs \ {c} : /\ crs'[d] = crs[d] /\ pc'[d] = pc[d]
                       /\ desired'[d] = desired[d] /\ latest'[d] = latest[d]

\* The changes of a custom resource that ManagedResource knows.
Changes(c) ==
  /\ Running' => Running
  /\ \/ ObjectState(c) = "none" /\ ObjectState(c)' = "unmanaged"
     \/ ObjectState(c) = "unmanaged" /\ ObjectState(c)' \in {"none", "managed"}
     \/ ObjectState(c) = "managed" /\ ObjectState(c)' = "deleting"
     \/ /\ Running => \E d \in CRs \ {c} : Held(d)
        /\ \/ ObjectState(c) = "managed" /\ ObjectState(c)' = "unmanaged"
           \/ ObjectState(c) = "deleting" /\ ObjectState(c)' = "none"

\* What a step of one custom resource does to the finalizers and the custody.
KeepsCustody(c) ==
  /\ ActsOn(c)
  /\ pc'[c] = "create" \/ (pc'[c] = "describe" /\ desired'[c].managed) => Held(c)'
  /\ Running' => Running \/ Custodian(c)'
  /\ Running' /\ Custodian(c) => Custodian(c)'
  /\ ObjectState(c)' = ObjectState(c) \/ Changes(c)

LEMMA OthersKept ==
  ASSUME NEW c \in CRs, ActsOn(c), NEW d \in CRs \ {c}
  PROVE  ObjectState(d)' = ObjectState(d) /\ Held(d)' = Held(d) /\ Custodian(d)' = Custodian(d)
<1>1. crs'[d] = crs[d] /\ pc'[d] = pc[d] /\ desired'[d] = desired[d] /\ latest'[d] = latest[d]
  BY DEF ActsOn
<1>2. ObjectState(d)' = ObjectState(d)
  BY <1>1 DEF ObjectState
<1>3. Held(d)' = Held(d)
  BY <1>2 DEF Held
<1>4. QED
  BY <1>1, <1>2, <1>3 DEF Custodian

LEMMA CustodyKept ==
  ASSUME Custody, NEW c \in CRs, KeepsCustody(c) PROVE Custody'
<1>1. ASSUME NEW d \in CRs,
             pc'[d] = "create" \/ (pc'[d] = "describe" /\ desired'[d].managed)
      PROVE  Held(d)'
  <2>1. CASE d = c
    BY <1>1, <2>1 DEF KeepsCustody
  <2>2. CASE d # c
    <3>1. pc'[d] = pc[d] /\ desired'[d] = desired[d]
      BY <2>2 DEF KeepsCustody, ActsOn
    <3>2. QED
      BY <1>1, <2>2, <3>1, OthersKept DEF KeepsCustody, Custody
  <2>3. QED
    BY <2>1, <2>2
<1>2. ASSUME Running' PROVE \E d \in CRs : Custodian(d)'
  <2>1. CASE Custodian(c)'
    BY <2>1
  <2>2. CASE ~Custodian(c)'
    <3>1. Running /\ ~Custodian(c)
      BY <1>2, <2>2 DEF KeepsCustody
    <3>2. PICK d \in CRs \ {c} : Custodian(d)
      BY <3>1 DEF Custody
    <3>3. QED
      BY <3>2, OthersKept DEF KeepsCustody
  <2>3. QED
    BY <2>1, <2>2
<1>3. QED
  BY <1>1, <1>2 DEF Custody

-----------------------------------------------------------------------------
(* The ends of a pass.                                                     *)

\* A pass that ends with what a call returned knows the ARN if it did before.
LEMMA ReturnKeeps ==
  ASSUME TypeOK, NEW c \in CRs, NEW r \in Resource, Return(c, r), UNCHANGED crs,
         Custodian(c) => r.arn # Nil,
         Running' => Running \/ (Held(c) /\ r.arn # Nil)
  PROVE  KeepsCustody(c)
<1>1. pc'[c] = "persist" /\ latest'[c] = r /\ ActsOn(c)
  BY DEF TypeOK, Return, Goto, ActsOn
<1>2. ObjectState(c)' = ObjectState(c)
  BY DEF ObjectState
<1>3. Held(c)' = Held(c)
  BY <1>2 DEF Held
<1>4. Held(c) /\ r.arn # Nil => Custodian(c)'
  BY <1>1, <1>3 DEF Custodian
<1>5. Custodian(c) => Held(c)
  BY DEF Custodian
<1>6. QED
  BY <1>1, <1>2, <1>4, <1>5 DEF KeepsCustody

\* A pass that ends without a word was not that of a custodian.
LEMMA ForgetKeeps ==
  ASSUME TypeOK, NEW c \in CRs, pc[c] \in {"manage", "unmanage"}, Forget(c), UNCHANGED crs,
         Running' => Running
  PROVE  KeepsCustody(c)
<1>1. pc'[c] = "idle" /\ ActsOn(c)
  BY DEF TypeOK, Forget, Goto, ActsOn
<1>2. ObjectState(c)' = ObjectState(c) /\ ~Custodian(c)
  BY DEF ObjectState, Custodian
<1>3. QED
  BY <1>1, <1>2 DEF KeepsCustody

\* The finalizer is given up only where somebody else has custody of what runs.
LEMMA ReleaseKeeps ==
  ASSUME TypeOK, Custody, NEW c \in CRs, pc[c] \in {"create", "unmanage"},
         SetCR(c, Unmanaged(crs[c])), NEW r, Forget(c) \/ Return(c, r), Running' => Running
  PROVE  KeepsCustody(c)
<1>1. pc'[c] \in {"idle", "persist"} /\ crs'[c] = Unmanaged(crs[c]) /\ ActsOn(c)
  BY DEF TypeOK, Forget, Return, SetCR, Goto, ActsOn
<1>2. ~Custodian(c)
  BY DEF Custodian
<1>3. Running => \E d \in CRs \ {c} : Held(d)
  BY <1>2 DEF Custody, Custodian
<1>4. CASE crs[c] = Nil \/ crs[c].phase = "deleting"
  <2>1. ObjectState(c)' = "none" /\ ObjectState(c) \in {"none", "deleting"}
    BY <1>1, <1>4 DEF Unmanaged, ObjectState
  <2>2. QED
    BY <1>1, <1>2, <1>3, <2>1 DEF KeepsCustody, Changes
<1>5. CASE crs[c] # Nil /\ crs[c].phase # "deleting"
  <2>1. crs[c] \in Resource /\ crs'[c] = [crs[c] EXCEPT !.managed = FALSE]
    BY <1>1, <1>5 DEF Unmanaged, TypeOK, Ptr
  <2>2. crs'[c] \in Resource /\ ~crs'[c].managed /\ crs'[c].phase = crs[c].phase
    BY <2>1 DEF Resource
  <2>3. ObjectState(c)' = "unmanaged" /\ ObjectState(c) \in {"managed", "unmanaged"}
    BY <1>5, <2>1, <2>2, ActivityConstants DEF ObjectState
  <2>4. QED
    BY <1>1, <1>2, <1>3, <2>3 DEF KeepsCustody, Changes
<1>6. QED
  BY <1>4, <1>5

-----------------------------------------------------------------------------
(* The steps of one custom resource.                                       *)

\* A pass goes on to its next call.
LEMMA ReadingKeeps ==
  ASSUME TypeOK, Custody, NEW c \in CRs,
         \/ Reconcile(c) \/ sdkFind(c) \/ setResourceAdditionalFields(c) \/ newResourceDelta(c)
  PROVE  KeepsCustody(c)
<1> USE DEF bounds
<1>1. /\ UNCHANGED crs /\ Running' = Running
  BY DEF Reconcile, sdkFind, setResourceAdditionalFields, newResourceDelta, Running
<1>2. ObjectState(c)' = ObjectState(c) /\ Held(c)' = Held(c)
  BY <1>1 DEF ObjectState, Held
<1>3. /\ pc[c] # "idle" => desired[c] \in Resource
      /\ pc[c] \in {"listTags", "compare", "untag", "tag", "delete", "persist"} =>
           latest[c] \in Resource
  BY DEF TypeOK, Ptr
<1>4. CASE Reconcile(c)
  <2>1. crs[c] \in Resource
    BY <1>4 DEF Reconcile, TypeOK, Ptr
  <2>2. /\ pc[c] = "idle" /\ pc'[c] = "describe" /\ ActsOn(c)
        /\ desired'[c] = [crs[c] EXCEPT !.tags = EnsureTags(@)]
    BY <1>4 DEF Reconcile, Goto, TypeOK, ActsOn
  <2>3. desired'[c].arn = crs[c].arn /\ desired'[c].managed = crs[c].managed
    BY <2>1, <2>2 DEF Resource
  <2>4. crs[c].managed => Held(c)
    BY <2>1, ActivityConstants DEF Held, ObjectState, Resource
  <2>5. QED
    BY <1>1, <1>2, <2>2, <2>3, <2>4 DEF KeepsCustody, Custodian
<1>5. CASE sdkFind(c)
  <2>1. /\ pc[c] = "describe" /\ ActsOn(c) /\ desired' = desired
        /\ IF desired[c].arn # Nil /\ act # Nil
             THEN pc'[c] = "listTags" /\ latest'[c] = desired[c]
             ELSE /\ pc'[c] \in {"unmanage", "create", "manage"}
                  /\ pc'[c] = "create" => desired[c].managed
    BY <1>5 DEF sdkFind, Goto, TypeOK, ActsOn
  <2>2. QED
    BY <1>1, <1>2, <2>1 DEF KeepsCustody, Custodian, Custody, Running
<1>6. CASE setResourceAdditionalFields(c)
  <2>1. CASE act = Nil
    BY <1>1, <1>3, <1>6, <2>1, ReportTypes, ReturnKeeps
       DEF setResourceAdditionalFields, Custodian
  <2>2. CASE act # Nil
    <3>1. act \in Tags /\ latest[c] \in Resource /\ desired[c] \in Resource
      BY <1>3, <1>6, <2>2 DEF setResourceAdditionalFields, TypeOK, Ptr
    <3>2. /\ pc[c] = "listTags" /\ pc'[c] = "compare" /\ ActsOn(c)
          /\ latest'[c] = Succeeded([latest[c] EXCEPT !.tags = act])
          /\ desired'[c] = [desired[c] EXCEPT !.tags = mirrorAWSTags(@, act)]
      BY <1>6, <2>2 DEF setResourceAdditionalFields, Goto, TypeOK, ActsOn
    <3>3. [latest[c] EXCEPT !.tags = act] \in Resource
          /\ [latest[c] EXCEPT !.tags = act].arn = latest[c].arn
      BY <3>1 DEF Resource
    <3>4. latest'[c].arn = latest[c].arn
      BY <3>2, <3>3, ReportTypes
    <3>5. desired'[c].arn = desired[c].arn
      BY <3>1, <3>2 DEF Resource
    <3>6. QED
      BY <1>1, <1>2, <3>2, <3>4, <3>5 DEF KeepsCustody, Custodian
  <2>3. QED
    BY <2>1, <2>2
<1>7. CASE newResourceDelta(c)
  <2>1. CASE Return(c, latest[c])
    BY <1>1, <1>3, <1>7, <2>1, ReturnKeeps DEF newResourceDelta, Custodian
  <2>2. CASE ~Return(c, latest[c])
    <3>1. /\ pc[c] = "compare" /\ ActsOn(c) /\ desired' = desired /\ latest' = latest
          /\ pc'[c] \in {"delete", "untag", "tag"}
      BY <1>7, <2>2 DEF newResourceDelta, Goto, TypeOK, ActsOn
    <3>2. QED
      BY <1>1, <1>2, <3>1 DEF KeepsCustody, Custodian
  <2>3. QED
    BY <2>1, <2>2
<1>8. QED
  BY <1>4, <1>5, <1>6, <1>7

\* A pass changes the activity.
LEMMA WritingKeeps ==
  ASSUME TypeOK, Custody, NEW c \in CRs,
         Untag(c) \/ Tag(c) \/ sdkCreate(c) \/ sdkDelete(c)
  PROVE  KeepsCustody(c)
<1> USE DEF bounds
<1>1. UNCHANGED crs /\ cut' = cut
  BY DEF Untag, Tag, sdkCreate, sdkDelete
<1>2. ObjectState(c)' = ObjectState(c) /\ Held(c)' = Held(c)
  BY <1>1 DEF ObjectState, Held
<1>3. /\ pc[c] # "idle" => desired[c] \in Resource
      /\ pc[c] \in {"listTags", "compare", "untag", "tag", "delete", "persist"} =>
           latest[c] \in Resource
  BY DEF TypeOK, Ptr
<1>4. CASE Untag(c) \/ Tag(c)
  <2>1. pc[c] \in {"untag", "tag"} /\ (Running' => Running)
    BY <1>1, <1>4 DEF Untag, Tag, Running
  <2>2. CASE Return(c, Failed(latest[c]))
    BY <1>1, <1>3, <2>1, <2>2, ReportTypes, ReturnKeeps DEF Custodian
  <2>3. CASE Return(c, Succeeded(desired[c]))
    BY <1>1, <1>3, <2>1, <2>3, ReportTypes, ReturnKeeps DEF Custodian
  <2>4. CASE Goto(c, "tag") /\ UNCHANGED <<desired, latest>>
    <3>1. pc'[c] = "tag" /\ ActsOn(c) /\ desired' = desired /\ latest' = latest
      BY <1>1, <2>4 DEF Goto, TypeOK, ActsOn
    <3>2. QED
      BY <1>2, <2>1, <3>1 DEF KeepsCustody, Custodian
  <2>5. QED
    BY <1>4, <2>2, <2>3, <2>4 DEF Untag, Tag
<1>5. CASE sdkCreate(c)
  <2>1. pc[c] = "create" /\ desired[c] \in Resource /\ Held(c)
    BY <1>3, <1>5 DEF sdkCreate, Custody
  <2>2. /\ Succeeded(Created(desired[c])) \in Resource
        /\ Succeeded(Created(desired[c])).arn = ARN
    BY <2>1, RecordTypes, ReportTypes
  <2>3. QED
    BY <1>1, <1>5, <2>1, <2>2, ReturnKeeps, ActivityConstants DEF sdkCreate
<1>6. CASE sdkDelete(c)
  <2>1. ~Running' /\ pc'[c] = "unmanage" /\ ActsOn(c)
    BY <1>1, <1>6 DEF sdkDelete, Running, Goto, TypeOK, ActsOn
  <2>2. QED
    BY <1>2, <2>1 DEF KeepsCustody
<1>7. QED
  BY <1>4, <1>5, <1>6

\* A pass changes its custom resource.
LEMMA PatchingKeeps ==
  ASSUME TypeOK, Custody, NEW c \in CRs, MarkManaged(c) \/ MarkUnmanaged(c) \/ Persist(c)
  PROVE  KeepsCustody(c)
<1> USE DEF bounds
<1>1. Running' = Running
  BY DEF MarkManaged, MarkUnmanaged, Persist, Running
<1>2. crs[c] # Nil => crs[c] \in Resource
  BY DEF TypeOK, Ptr
<1>3. CASE MarkManaged(c) /\ crs[c] = Nil
  BY <1>1, <1>3, ForgetKeeps DEF MarkManaged
<1>4. CASE MarkManaged(c) /\ crs[c] # Nil
  <2>1. /\ pc[c] = "manage" /\ pc'[c] = "create" /\ ActsOn(c)
        /\ crs'[c] = [crs[c] EXCEPT !.managed = TRUE]
    BY <1>4 DEF MarkManaged, SetCR, Goto, TypeOK, ActsOn
  <2>2. crs'[c] \in Resource /\ crs'[c].managed /\ crs'[c].phase = crs[c].phase
    BY <1>2, <1>4, <2>1 DEF Resource
  <2>3. /\ Held(c)'
        /\ ObjectState(c)' = ObjectState(c)
             \/ (ObjectState(c) = "unmanaged" /\ ObjectState(c)' = "managed")
    BY <1>2, <1>4, <2>2, ActivityConstants DEF ObjectState, Held
  <2>4. QED
    BY <1>1, <2>1, <2>3 DEF KeepsCustody, Custodian, Changes
<1>5. CASE MarkUnmanaged(c)
  BY <1>1, <1>5, ReleaseKeeps DEF MarkUnmanaged
<1>6. CASE Persist(c)
  <2>1. pc[c] = "persist" /\ pc'[c] = "idle" /\ ActsOn(c)
    BY <1>6 DEF Persist, Forget, SetCR, Goto, TypeOK, ActsOn
  <2>2. CASE crs[c] = Nil
    <3>1. ObjectState(c) = "none" /\ ObjectState(c)' = "none"
      BY <1>6, <2>2 DEF Persist, ObjectState
    <3>2. QED
      BY <1>1, <2>1, <3>1 DEF KeepsCustody, Custodian, Held
  <2>3. CASE crs[c] # Nil
    <3>1. crs'[c] = [crs[c] EXCEPT !.arn = latest[c].arn, !.conds = latest[c].conds]
          /\ latest[c] \in Resource
      BY <1>6, <2>3 DEF Persist, SetCR, TypeOK, Ptr
    <3>2. /\ crs'[c] \in Resource /\ crs'[c].arn = latest[c].arn
          /\ crs'[c].phase = crs[c].phase /\ crs'[c].managed = crs[c].managed
      BY <1>2, <2>3, <3>1 DEF Resource
    <3>3. ObjectState(c)' = ObjectState(c)
      BY <2>3, <3>2, ActivityConstants DEF ObjectState
    <3>4. QED
      BY <1>1, <2>1, <3>2, <3>3 DEF KeepsCustody, Custodian, Held
  <2>4. QED
    BY <2>2, <2>3
<1>7. QED
  BY <1>3, <1>4, <1>5, <1>6

\* The user changes a custom resource, also under a pass.
LEMMA UserKeeps ==
  ASSUME TypeOK, Custody, NEW c \in CRs, User(c) PROVE KeepsCustody(c)
<1> USE DEF pass
<1>1. UNCHANGED <<pc, desired, latest>> /\ Running' = Running /\ ActsOn(c)
  BY DEF User, CreateCR, EditTags, DeleteCR, Acts, Running, ActsOn, SetCR, TypeOK
<1>2. crs[c] # Nil => crs[c] \in Resource
  BY DEF TypeOK, Ptr
<1>3. ASSUME NEW t \in TagSets, CreateCR(c, t) PROVE KeepsCustody(c)
  <2>1. /\ crs'[c] = [phase |-> "live", tags |-> t, arn |-> Nil, managed |-> FALSE, conds |-> <<>>]
        /\ crs[c] = Nil
    BY <1>3 DEF CreateCR, SetCR, TypeOK
  <2>2. ObjectState(c) = "none" /\ ObjectState(c)' = "unmanaged"
    <3>1. crs'[c] \in Resource
      BY <2>1, ActivityConstants DEF Resource, Ptr
    <3>2. crs'[c] # Nil
      BY <3>1, ActivityConstants
    <3>3. crs'[c].phase = "live" /\ crs'[c].managed = FALSE
      BY <2>1
    <3>4. QED
      BY <2>1, <3>2, <3>3 DEF ObjectState
  <2>3. ~Held(c)
    BY <2>2 DEF Held
  <2>4. QED
    BY <1>1, <2>2, <2>3 DEF KeepsCustody, Custodian, Custody, Changes
<1>4. ASSUME NEW t \in TagSets, EditTags(c, t) PROVE KeepsCustody(c)
  <2>1. crs'[c] = [crs[c] EXCEPT !.tags = t] /\ crs[c] # Nil
    BY <1>4 DEF EditTags, SetCR, TypeOK
  <2>2. /\ crs'[c] \in Resource /\ crs'[c].phase = crs[c].phase
        /\ crs'[c].managed = crs[c].managed /\ crs'[c].arn = crs[c].arn
    BY <1>2, <2>1, ActivityConstants DEF Resource
  <2>3. ObjectState(c)' = ObjectState(c)
    BY <2>1, <2>2, ActivityConstants DEF ObjectState
  <2>4. QED
    BY <1>1, <2>2, <2>3 DEF KeepsCustody, Custodian, Custody, Held
<1>5. CASE DeleteCR(c)
  <2>1. /\ crs[c] \in Resource /\ crs[c] # Nil /\ crs[c].phase = "live"
        /\ crs'[c] = IF crs[c].managed THEN [crs[c] EXCEPT !.phase = "deleting"] ELSE Nil
    BY <1>2, <1>5 DEF DeleteCR, SetCR, TypeOK
  <2>2. CASE crs[c].managed
    <3>1. crs'[c] \in Resource /\ crs'[c].phase = "deleting" /\ crs'[c].arn = crs[c].arn
      BY <2>1, <2>2 DEF Resource
    <3>2. ObjectState(c) = "managed" /\ ObjectState(c)' = "deleting"
      BY <2>1, <2>2, <3>1, ActivityConstants DEF ObjectState
    <3>3. QED
      BY <1>1, <3>1, <3>2 DEF KeepsCustody, Custodian, Custody, Held, Changes
  <2>3. CASE ~crs[c].managed
    <3>1. ObjectState(c) = "unmanaged" /\ ObjectState(c)' = "none"
      BY <2>1, <2>3 DEF ObjectState
    <3>2. QED
      BY <1>1, <3>1 DEF KeepsCustody, Custodian, Custody, Held, Changes
  <2>4. QED
    BY <2>2, <2>3
<1>6. QED
  BY <1>3, <1>4, <1>5 DEF User

\* A call fails.  After a lost answer or status nothing is promised any more.
LEMMA FaultKeeps ==
  ASSUME TypeOK, Custody, NEW c \in CRs, ApiError(c) \/ LostResponse(c) \/ StatusPatchFails(c)
  PROVE  KeepsCustody(c)
<1>1. Running' => Running
  BY DEF ApiError, LostResponse, StatusPatchFails, Fails, Running
<1>2. /\ pc[c] # "idle" => desired[c] \in Resource
      /\ pc[c] \in {"listTags", "compare", "untag", "tag", "delete", "persist"} =>
           latest[c] \in Resource
  BY DEF TypeOK, Ptr
<1>3. CASE /\ pc[c] \in {"describe", "listTags"}
           /\ Return(c, Failed(desired[c])) /\ UNCHANGED crs
  BY <1>1, <1>2, <1>3, ReportTypes, ReturnKeeps DEF Custodian
<1>4. CASE /\ pc[c] \in {"untag", "tag", "delete"}
           /\ Return(c, Failed(latest[c])) /\ UNCHANGED crs
  BY <1>1, <1>2, <1>4, ReportTypes, ReturnKeeps DEF Custodian
<1>5. CASE pc[c] = "create" /\ CreateFailed(c) /\ UNCHANGED crs
  BY <1>1, <1>2, <1>5, ReportTypes, ReturnKeeps DEF Custodian, CreateFailed
<1>6. CASE pc[c] = "create" /\ CreateFailed(c) /\ ~UNCHANGED crs
  BY <1>1, <1>6, ReleaseKeeps DEF CreateFailed
<1>7. CASE pc[c] \in {"manage", "unmanage"} /\ Forget(c) /\ UNCHANGED crs
  BY <1>1, <1>7, ForgetKeeps
<1>8. CASE StatusPatchFails(c)
  <2>1. ~Running' /\ ActsOn(c) /\ pc'[c] = "idle"
    BY <1>8 DEF StatusPatchFails, Fails, Running, TypeOK, Forget, Goto, ActsOn
  <2>2. ObjectState(c)' = ObjectState(c)
    BY <1>8 DEF StatusPatchFails, ObjectState
  <2>3. QED
    BY <1>1, <2>1, <2>2 DEF KeepsCustody
<1>9. QED
  BY <1>3, <1>4, <1>5, <1>6, <1>7, <1>8 DEF ApiError, LostResponse

LEMMA OwnerKeeps ==
  ASSUME TypeOK, Custody, NEW c \in CRs,
         Controller(c) \/ User(c) \/ ApiError(c) \/ LostResponse(c) \/ StatusPatchFails(c)
  PROVE  KeepsCustody(c)
BY ReadingKeeps, WritingKeeps, PatchingKeeps, UserKeeps, FaultKeeps DEF Controller

\* Nobody's step: the activity may vanish, and a crash ends the promise.
LEMMA NobodyKeeps ==
  ASSUME TypeOK, Custody, OtherClients \/ Crash
  PROVE  Custody' /\ (Running' => Running) /\ UNCHANGED crs
<1> USE DEF pass
<1>1. UNCHANGED crs /\ (Running' => Running)
  <2>1. CASE OtherClients
    BY <2>1 DEF OtherClients, DriftTag, DeleteActivity, Drifts, Running
  <2>2. CASE Crash
    BY <2>2 DEF Crash, Fails, Running
  <2>3. QED
    BY <2>1, <2>2
<1>2. CASE OtherClients
  <2>1. UNCHANGED <<crs, pc, desired, latest>>
    BY <1>2 DEF OtherClients, DriftTag, DeleteActivity
  <2>2. \A c \in CRs : Held(c)' = Held(c) /\ Custodian(c)' = Custodian(c)
    BY <2>1 DEF Held, Custodian, ObjectState
  <2>3. QED
    BY <1>1, <2>1, <2>2 DEF Custody
<1>3. CASE Crash
  <2>1. ~Running' /\ \A c \in CRs : pc'[c] = "idle"
    BY <1>3 DEF Crash, Fails, Running
  <2>2. QED
    BY <1>1, <2>1 DEF Custody
<1>4. QED
  BY <1>1, <1>2, <1>3

-----------------------------------------------------------------------------
(* The refinement.                                                         *)

\* A step that leaves the custom resources' states alone may start or stop the
\* activity, which runs only in somebody's custody.
LEMMA SameObjects ==
  ASSUME Custody', \A c \in CRs : ObjectState(c)' = ObjectState(c)
  PROVE  [Managed!Next]_(Managed!vars)
<1>1. [c \in CRs |-> ObjectState(c)]' = [c \in CRs |-> ObjectState(c)]
  OBVIOUS
<1>2. CASE Running' = Running
  BY <1>1, <1>2 DEF Managed!vars, Running
<1>3. CASE Running' /\ ~Running
  <2>1. PICK c \in CRs : Custodian(c)'
    BY <1>3 DEF Custody
  <2>2. Held(c)
    BY <2>1 DEF Custodian, Held
  <2>3. Managed!Provision
    BY <1>1, <1>3, <2>2 DEF Managed!Provision, Managed!Holds, Held, Running
  <2>4. QED
    BY <2>3 DEF Managed!Next
<1>4. CASE ~Running' /\ Running
  BY <1>1, <1>4 DEF Managed!Next, Managed!Vanish, Running
<1>5. QED
  BY <1>2, <1>3, <1>4 DEF Running

LEMMA ChangedObject ==
  ASSUME NEW c \in CRs, ActsOn(c), Changes(c) PROVE Managed!Next
<1> DEFINE object == [d \in CRs |-> ObjectState(d)]
<1>1. object' = [object EXCEPT ![c] = ObjectState(c)']
  <2>1. \A d \in CRs : object'[d] = IF d = c THEN ObjectState(c)' ELSE ObjectState(d)
    BY OthersKept
  <2>2. QED
    BY <2>1
<1>2. Running' \in {Running, FALSE} /\ object[c] = ObjectState(c)
  BY DEF Changes, Running
<1> USE DEF Managed!Becomes, Running
<1>3. CASE ObjectState(c) = "none" /\ ObjectState(c)' = "unmanaged"
  BY <1>1, <1>2, <1>3 DEF Managed!Next, Managed!Submit
<1>4. CASE ObjectState(c) = "unmanaged" /\ ObjectState(c)' = "managed"
  BY <1>1, <1>2, <1>4 DEF Managed!Next, Managed!Claim
<1>5. CASE \/ ObjectState(c) = "unmanaged" /\ ObjectState(c)' = "none"
           \/ ObjectState(c) = "managed" /\ ObjectState(c)' = "deleting"
  BY <1>1, <1>2, <1>5 DEF Managed!Next, Managed!RequestDeletion
<1>6. CASE /\ Running => \E d \in CRs \ {c} : Held(d)
           /\ \/ ObjectState(c) = "managed" /\ ObjectState(c)' = "unmanaged"
              \/ ObjectState(c) = "deleting" /\ ObjectState(c)' = "none"
  BY <1>1, <1>2, <1>6 DEF Managed!Next, Managed!Release, Managed!Holds, Held
<1>7. QED
  BY <1>3, <1>4, <1>5, <1>6 DEF Changes

\* Any number of custom resources that share an activity keep the promise of
\* their finalizers together, whoever of them creates, edits, finds or deletes
\* it and however their passes interleave, as long as no answer is lost and no
\* pass is cut short.
THEOREM OwnersKeepPromise == Spec => OwnersKeepFinalizerPromise
<1>1. Init => Custody
  BY DEF Init, Custody, Running
<1>2. Init => Managed!Init
  BY DEF Init, Managed!Init, ObjectState
<1>3. TypeOK /\ Custody /\ [Next]_vars => Custody' /\ [Managed!Next]_(Managed!vars)
  <2> SUFFICES ASSUME TypeOK, Custody, [Next]_vars
               PROVE  Custody' /\ [Managed!Next]_(Managed!vars)
    OBVIOUS
  <2>1. ASSUME NEW c \in CRs,
               Controller(c) \/ User(c) \/ ApiError(c) \/ LostResponse(c) \/ StatusPatchFails(c)
        PROVE  Custody' /\ [Managed!Next]_(Managed!vars)
    <3>1. KeepsCustody(c)
      BY <2>1, OwnerKeeps
    <3>2. Custody'
      BY <3>1, CustodyKept
    <3>3. CASE ObjectState(c)' = ObjectState(c)
      <4>1. \A d \in CRs : ObjectState(d)' = ObjectState(d)
        BY <3>1, <3>3, OthersKept DEF KeepsCustody
      <4>2. QED
        BY <3>2, <4>1, SameObjects
    <3>4. CASE Changes(c)
      BY <3>1, <3>2, <3>4, ChangedObject DEF KeepsCustody
    <3>5. QED
      BY <3>1, <3>3, <3>4 DEF KeepsCustody
  <2>2. CASE OtherClients \/ Crash
    <3>1. Custody' /\ UNCHANGED crs
      BY <2>2, NobodyKeeps
    <3>2. \A d \in CRs : ObjectState(d)' = ObjectState(d)
      BY <3>1 DEF ObjectState
    <3>3. QED
      BY <3>1, <3>2, SameObjects
  <2>3. CASE UNCHANGED vars
    <3>1. \A d \in CRs : /\ ObjectState(d)' = ObjectState(d)
                         /\ Held(d)' = Held(d) /\ Custodian(d)' = Custodian(d)
      BY <2>3 DEF vars, ObjectState, Held, Custodian
    <3>2. Custody'
      BY <2>3, <3>1 DEF vars, Custody, Running
    <3>3. QED
      BY <3>1, <3>2, SameObjects
  <2>4. QED
    BY <2>1, <2>2, <2>3 DEF Next
<1>4. QED
  BY <1>1, <1>2, <1>3, ActivityTypeCorrect, PTL
     DEF Spec, OwnersKeepFinalizerPromise, Managed!Spec

\* The theorem about ManagedResource, for the custom resources of an activity.
Promise == INSTANCE ManagedResourceProofs
             WITH Owners <- CRs, object <- [c \in CRs |-> ObjectState(c)],
                  running <- act # Nil /\ ~cut

LEMMA SamePromise ==
  /\ Managed!Init <=> Promise!Init
  /\ [Managed!Next]_(Managed!vars) <=> [Promise!Next]_(Promise!vars)
BY DEF Managed!Init, Promise!Init, Managed!vars, Promise!vars, Managed!Next, Promise!Next,
       Managed!Submit, Promise!Submit, Managed!Adopt, Promise!Adopt, Managed!Claim, Promise!Claim,
       Managed!RequestDeletion, Promise!RequestDeletion, Managed!Release, Promise!Release,
       Managed!Provision, Promise!Provision, Managed!Vanish, Promise!Vanish,
       Managed!Becomes, Promise!Becomes, Managed!Holds, Promise!Holds

\* What the promise is for: an activity that runs, and was not made by a pass
\* that was cut short, always has a custom resource with its finalizer, so there
\* is one whose deletion will delete it.
THEOREM ActivityIsAlwaysHeld == Spec => [](Running => \E c \in CRs : Held(c))
<1>1. Promise!HeldWhileRunning => (Running => \E c \in CRs : Held(c))
  BY DEF Promise!HeldWhileRunning, Promise!Holds, Running, Held
<1>2. Managed!Spec => Promise!Spec
  BY SamePromise, PTL DEF Managed!Spec, Promise!Spec
<1>3. QED
  BY <1>1, <1>2, OwnersKeepPromise, Promise!PromiseHolds, PTL DEF OwnersKeepFinalizerPromise
=============================================================================
