------------------------------ MODULE Activity ------------------------------
(***************************************************************************)
(* Activity custom resources that carry the same spec.name.  CreateActivity*)
(* is idempotent by name, so that all of them come to manage one activity  *)
(* in AWS; nothing in the cluster prevents it, and different custom        *)
(* resources are reconciled concurrently.  With one custom resource this   *)
(* is the life of an ordinary Activity, whose only mutable field is its    *)
(* tags.  The status keeps the conditions of module Conditions.            *)
(*                                                                         *)
(* Source: pkg/resource/activity/{manager,sdk,hooks,delta,descriptor}.go   *)
(***************************************************************************)
EXTENDS ResourceTags, Conditions

CONSTANTS
  CRs,            \* the names of the custom resources
  TagSets,        \* the tags the user writes
  DriftTags,      \* the tags other AWS clients set
  Faults,         \* which faults happen: "error", "lost", "status", "crash"
  MaxEdits,         \* how often the user acts
  MaxDisturbances   \* how many faults and acts of other AWS clients there are

ARN == "arn"

VARIABLES
  crs,      \* name -> the custom resource in the API server, or Nil
  act,      \* the tags of the activity in AWS, Nil when there is none
  pc,       \* name -> the next call of its reconcile pass
  desired,  \* name -> the pass's copy of the custom resource
  latest,   \* name -> what the pass read, and finally what it returns
  cut,      \* ghost: an answer was lost or a pass was cut short
  edits, disturbances   \* how much of each bound is used

pass == <<pc, desired, latest>>
bounds == <<cut, edits, disturbances>>
vars == <<crs, act, pc, desired, latest, cut, edits, disturbances>>

Resource ==
  [phase : {"live", "deleting"}, tags : Tags, arn : Ptr({ARN}),
   managed : BOOLEAN, conds : Seq(Condition)]

ASSUME ActivityConstants ==
  /\ Nil # ARN /\ Nil \notin Resource
  /\ TagSets \subseteq Tags /\ DriftTags \subseteq Tags
  /\ \A t \in TagSets : KeysOf(t) \cap AWSTagKeys = {}
  /\ Faults \subseteq {"error", "lost", "status", "crash"}
  /\ MaxEdits \in Nat /\ MaxDisturbances \in Nat

Init ==
  /\ crs = [c \in CRs |-> Nil] /\ act = Nil
  /\ pc = [c \in CRs |-> "idle"]
  /\ desired = [c \in CRs |-> Nil] /\ latest = [c \in CRs |-> Nil]
  /\ cut = FALSE /\ edits = 0 /\ disturbances = 0

-----------------------------------------------------------------------------
Goto(c, label) == pc' = [pc EXCEPT ![c] = label]
SetCR(c, r) == crs' = [crs EXCEPT ![c] = r]

\* The end of a pass (runtime library): nothing is written ...
Forget(c) ==
  /\ Goto(c, "idle")
  /\ desired' = [desired EXCEPT ![c] = Nil] /\ latest' = [latest EXCEPT ![c] = Nil]

\* ... or the status of what the resource manager returned.
Return(c, r) ==
  /\ Goto(c, "persist")
  /\ latest' = [latest EXCEPT ![c] = r] /\ UNCHANGED desired

\* manager.onError and manager.onSuccess on a resource.
Failed(r) == [r EXCEPT !.conds = onError(@, "Failure").conds]
Succeeded(r) == [r EXCEPT !.conds = onSuccess(@)]

\* descriptor.MarkUnmanaged and the patch that follows; the API server removes
\* an object that is being deleted once its finalizer goes.
Unmanaged(r) ==
  IF r = Nil \/ r.phase = "deleting" THEN Nil ELSE [r EXCEPT !.managed = FALSE]

-----------------------------------------------------------------------------
\* manager.EnsureTags on the copy the pass works on.
Reconcile(c) ==
  /\ pc[c] = "idle" /\ crs[c] # Nil
  /\ desired' = [desired EXCEPT ![c] = [crs[c] EXCEPT !.tags = EnsureTags(@)]]
  /\ Goto(c, "describe")
  /\ UNCHANGED <<crs, act, latest, bounds>>

\* Variant: the response is not merged into a copy, and the read returns none.
FoundWithoutCopy(c) ==
  /\ pc[c] = "describe"
  /\ Goto(c, IF desired[c].arn # Nil /\ act # Nil THEN "listTags"
             ELSE IF desired[c].phase = "deleting" THEN "unmanage"
             ELSE IF desired[c].managed THEN "create" ELSE "manage")
  /\ UNCHANGED <<crs, act, desired, latest, bounds>>

\* sdk.sdkFind up to DescribeActivity: NotFound without a recorded ARN or
\* without an activity.
sdkFind(c) ==
  LET d == desired[c] IN
  /\ pc[c] = "describe"
  /\ IF d.arn # Nil /\ act # Nil
       THEN Goto(c, "listTags") /\ latest' = [latest EXCEPT ![c] = d]
       ELSE /\ Goto(c, IF d.phase = "deleting" THEN "unmanage"
                       ELSE IF d.managed THEN "create" ELSE "manage")
            /\ UNCHANGED latest
  /\ UNCHANGED <<crs, act, desired, bounds>>

\* hooks.setResourceAdditionalFields and the end of manager.ReadOne: the "aws:"
\* tags that were read join the desired ones.
setResourceAdditionalFields(c) ==
  /\ pc[c] = "listTags"
  /\ IF act = Nil THEN Return(c, Failed(desired[c]))
     ELSE /\ latest' = [latest EXCEPT ![c] = Succeeded([@ EXCEPT !.tags = act])]
          /\ desired' = [desired EXCEPT ![c].tags = mirrorAWSTags(@, act)]
          /\ Goto(c, "compare")
  /\ UNCHANGED <<crs, act, bounds>>

Added(c) == TagsAdded(latest[c].tags, desired[c].tags)
Removed(c) == TagsRemoved(latest[c].tags, desired[c].tags)

\* delta.newResourceDelta with hooks.customPreCompare: the name cannot differ,
\* so the tags are all there is to compare.
newResourceDelta(c) ==
  /\ pc[c] = "compare"
  /\ IF desired[c].phase = "deleting" THEN Goto(c, "delete") /\ UNCHANGED latest
     ELSE IF Added(c) \cup Removed(c) = {} THEN Return(c, latest[c])
     ELSE Goto(c, IF Removed(c) # {} THEN "untag" ELSE "tag") /\ UNCHANGED latest
  /\ UNCHANGED <<crs, act, desired, bounds>>

\* hooks.customUpdateActivity: the two calls of util.SyncResourceTags.
Untag(c) ==
  /\ pc[c] = "untag"
  /\ IF act = Nil THEN act' = act /\ Return(c, Failed(latest[c]))
     ELSE /\ act' = UntagResource(act, Removed(c))
          /\ IF Added(c) # {} THEN Goto(c, "tag") /\ UNCHANGED <<desired, latest>>
                              ELSE Return(c, Succeeded(desired[c]))
  /\ UNCHANGED <<crs, bounds>>

Tag(c) ==
  /\ pc[c] = "tag"
  /\ IF act = Nil THEN act' = act /\ Return(c, Failed(latest[c]))
     ELSE /\ act' = TagResource(act, Added(c), desired[c].tags)
          /\ Return(c, Succeeded(desired[c]))
  /\ UNCHANGED <<crs, bounds>>

\* descriptor.MarkManaged and its patch.
MarkManaged(c) ==
  /\ pc[c] = "manage"
  /\ IF crs[c] = Nil THEN UNCHANGED crs /\ Forget(c)
     ELSE /\ SetCR(c, [crs[c] EXCEPT !.managed = TRUE])
          /\ desired' = [desired EXCEPT ![c].managed = TRUE]
          /\ Goto(c, "create") /\ UNCHANGED latest
  /\ UNCHANGED <<act, bounds>>

\* CreateActivity (AWS) is idempotent by name and then ignores the tags.
CreateEffect(c) == act' = IF act = Nil THEN desired[c].tags ELSE act

\* Variant: the ARN of the response is not recorded.
CreatedWithoutARN(r) == r

\* sdk.sdkCreate, the merge of the response.
Created(r) == [r EXCEPT !.arn = ARN]

sdkCreate(c) ==
  /\ pc[c] = "create"
  /\ CreateEffect(c)
  /\ Return(c, Succeeded(Created(desired[c])))
  /\ UNCHANGED <<crs, bounds>>

\* A failed create; the runtime may take the finalizer back (sdk.go 184-196).
CreateFailed(c) ==
  Return(c, Failed(desired[c])) /\ (UNCHANGED crs \/ SetCR(c, Unmanaged(crs[c])))

\* sdk.sdkDelete: DeleteActivity takes effect at once and accepts a missing one.
sdkDelete(c) ==
  /\ pc[c] = "delete"
  /\ act' = Nil
  /\ Goto(c, "unmanage")
  /\ UNCHANGED <<crs, desired, latest, bounds>>

\* Variant: the finalizer of a deleted resource is forgotten.
FinalizerKept(c) ==
  /\ pc[c] = "unmanage" /\ Forget(c)
  /\ UNCHANGED <<crs, act, bounds>>

MarkUnmanaged(c) ==
  /\ pc[c] = "unmanage"
  /\ SetCR(c, Unmanaged(crs[c])) /\ Forget(c)
  /\ UNCHANGED <<act, bounds>>

\* resource.SetStatus and the patch of the status.
Persist(c) ==
  /\ pc[c] = "persist"
  /\ IF crs[c] = Nil THEN UNCHANGED crs
     ELSE SetCR(c, [crs[c] EXCEPT !.arn = latest[c].arn, !.conds = latest[c].conds])
  /\ Forget(c)
  /\ UNCHANGED <<act, bounds>>

-----------------------------------------------------------------------------
Acts == edits < MaxEdits /\ edits' = edits + 1 /\ UNCHANGED <<cut, disturbances>>

CreateCR(c, t) ==
  /\ crs[c] = Nil /\ Acts
  /\ SetCR(c, [phase |-> "live", tags |-> t, arn |-> Nil, managed |-> FALSE, conds |-> <<>>])
  /\ UNCHANGED <<act, pass>>

EditTags(c, t) ==
  /\ crs[c] # Nil /\ Acts
  /\ crs[c].phase = "live" /\ crs[c].tags # t
  /\ SetCR(c, [crs[c] EXCEPT !.tags = t])
  /\ UNCHANGED <<act, pass>>

DeleteCR(c) ==
  /\ crs[c] # Nil /\ Acts
  /\ crs[c].phase = "live"
  /\ SetCR(c, IF crs[c].managed THEN [crs[c] EXCEPT !.phase = "deleting"] ELSE Nil)
  /\ UNCHANGED <<act, pass>>

Disturbs ==
  disturbances < MaxDisturbances /\ disturbances' = disturbances + 1 /\ UNCHANGED edits

Drifts == Disturbs /\ UNCHANGED cut

DriftTag(t) == act # Nil /\ Drifts /\ act' = t /\ UNCHANGED <<crs, pass>>
DeleteActivity == act # Nil /\ Drifts /\ act' = Nil /\ UNCHANGED <<crs, pass>>

Fails(kind) ==
  /\ kind \in Faults /\ Disturbs
  /\ cut' = (cut \/ kind # "error")

\* A call fails and has no effect; a failed patch of the finalizer ends the pass.
ApiError(c) ==
  /\ Fails("error")
  /\ \/ /\ pc[c] \in {"describe", "listTags"}
        /\ Return(c, Failed(desired[c])) /\ UNCHANGED crs
     \/ /\ pc[c] \in {"untag", "tag", "delete"}
        /\ Return(c, Failed(latest[c])) /\ UNCHANGED crs
     \/ pc[c] = "create" /\ CreateFailed(c)
     \/ pc[c] \in {"manage", "unmanage"} /\ Forget(c) /\ UNCHANGED crs
  /\ UNCHANGED act

\* A call takes effect and its answer is lost.
LostResponse(c) ==
  /\ Fails("lost")
  /\ \/ /\ pc[c] = "untag" /\ act # Nil /\ act' = UntagResource(act, Removed(c))
        /\ Return(c, Failed(latest[c])) /\ UNCHANGED crs
     \/ /\ pc[c] = "tag" /\ act # Nil /\ act' = TagResource(act, Added(c), desired[c].tags)
        /\ Return(c, Failed(latest[c])) /\ UNCHANGED crs
     \/ pc[c] = "create" /\ CreateEffect(c) /\ CreateFailed(c)
     \/ /\ pc[c] = "delete" /\ act' = Nil
        /\ Return(c, Failed(latest[c])) /\ UNCHANGED crs

\* The patch of the status fails (runtime library): what the pass returned is
\* lost, although its calls have had their effect.
StatusPatchFails(c) ==
  /\ Fails("status")
  /\ pc[c] = "persist" /\ Forget(c)
  /\ UNCHANGED <<crs, act>>

\* The controller stops, with all its passes, and starts again.
Crash ==
  /\ Fails("crash")
  /\ \E c \in CRs : pc[c] # "idle"
  /\ pc' = [c \in CRs |-> "idle"]
  /\ desired' = [c \in CRs |-> Nil] /\ latest' = [c \in CRs |-> Nil]
  /\ UNCHANGED <<crs, act>>

-----------------------------------------------------------------------------
Controller(c) ==
  \/ Reconcile(c) \/ sdkFind(c) \/ setResourceAdditionalFields(c) \/ newResourceDelta(c)
  \/ Untag(c) \/ Tag(c) \/ MarkManaged(c) \/ sdkCreate(c) \/ sdkDelete(c)
  \/ MarkUnmanaged(c) \/ Persist(c)

User(c) == (\E t \in TagSets : CreateCR(c, t) \/ EditTags(c, t)) \/ DeleteCR(c)

OtherClients == (\E t \in DriftTags : DriftTag(t)) \/ DeleteActivity

Next ==
  \/ \E c \in CRs : Controller(c) \/ User(c)
  \/ \E c \in CRs : ApiError(c) \/ LostResponse(c) \/ StatusPatchFails(c)
  \/ OtherClients \/ Crash

\* Every custom resource has its place in the work queue and is taken up again
\* after a requeue or a resync; a pass makes its next call.
Fairness == \A c \in CRs : WF_vars(Controller(c))

Spec == Init /\ [][Next]_vars
FairSpec == Spec /\ Fairness

-----------------------------------------------------------------------------
Live(c) == IF crs[c] = Nil THEN FALSE ELSE crs[c].phase = "live"

\* The type of every variable; a pass has the copies its next call needs.
TypeOK ==
  /\ crs \in [CRs -> Ptr(Resource)] /\ act \in Ptr(Tags)
  /\ pc \in [CRs -> {"idle", "describe", "listTags", "compare", "untag", "tag",
                     "manage", "create", "delete", "unmanage", "persist"}]
  /\ desired \in [CRs -> Ptr(Resource)] /\ latest \in [CRs -> Ptr(Resource)]
  /\ cut \in BOOLEAN /\ edits \in Nat /\ disturbances \in Nat
  /\ \A c \in CRs :
       /\ pc[c] # "idle" => desired[c] # Nil
       /\ pc[c] \notin {"idle", "describe", "manage", "create", "unmanage"} => latest[c] # Nil

\* The custom resources as ManagedResource sees them.
ObjectState(c) ==
  IF crs[c] = Nil THEN "none"
  ELSE IF crs[c].phase = "deleting" THEN "deleting"
  ELSE IF crs[c].managed THEN "managed" ELSE "unmanaged"

Managed == INSTANCE ManagedResource
             WITH Owners <- CRs, object <- [c \in CRs |-> ObjectState(c)],
                  running <- act # Nil /\ ~cut

\* As long as no answer is lost and no pass cut short, the custom resources that
\* share an activity keep the promise of their finalizers together
\* (descriptor.go 107-112): one of them may let go of an activity that runs only
\* while another one holds it, so none is left behind by the last of them,
\* whichever created and deleted it.
OwnersKeepFinalizerPromise == Managed!Spec

\* A live custom resource ends up with its activity, and with a status that
\* shows no error, also after another one of the same name deleted the activity
\* under it.
SharedActivitySurvives ==
  <>[](\A c \in CRs : Live(c) =>
         act # Nil /\ crs[c].arn # Nil /\ ~IsTrue(crs[c].conds, "ACK.Recoverable"))

\* A custom resource whose deletion was requested goes away.
ActivityDeletionCompletes ==
  \A c \in CRs : (crs[c] # Nil /\ crs[c].phase = "deleting") ~> crs[c] = Nil

\* Custom resources of one name that agree about the tags do not disturb each
\* other: once all is quiet the activity has the tags they ask for.
AgreedTagsConverge ==
  <>[](\A c \in CRs :
         (Live(c) /\ \A d \in CRs : crs[d] # Nil => crs[d].tags = crs[c].tags) =>
           /\ act # Nil
           /\ \A k \in TagKeys \ AWSTagKeys : act[k] = EnsureTags(crs[c].tags)[k])
=============================================================================
