---------------------------- MODULE StateMachine ----------------------------
(***************************************************************************)
(* The life of one StateMachine custom resource: the user who writes it,   *)
(* the state machine it stands for in AWS, and the reconcile worker that   *)
(* keeps the two together.  A reconcile pass is a sequence of API calls    *)
(* and every call is one step, so that the user, other AWS clients, AWS    *)
(* itself and faults interleave between any two calls.                     *)
(*                                                                         *)
(* The name of a state machine is immutable (the CRD refuses an edit), so  *)
(* one custom resource concerns one ARN.  The order of the calls of a pass *)
(* and what is done with their results is the ACK runtime's, a library,    *)
(* modelled from how the code of this repository is called.                *)
(*                                                                         *)
(* Source: pkg/resource/state_machine/{manager,sdk,hooks,descriptor}.go    *)
(***************************************************************************)
EXTENDS StateMachineFields, Naturals

CONSTANTS
  Specs,          \* the specs the user writes
  DriftConfigs,   \* configurations other AWS clients set
  DriftTags,      \* tag sets other AWS clients and AWS services set
  Faults,         \* which faults happen: "error", "lost", "status", "crash"
  MaxEdits,       \* how often the user acts
  MaxOutOfBand,   \* how often another AWS client acts
  MaxFaults       \* how many faults happen

ARN == "arn"
FinalizerString == "finalizers.sfn.services.k8s.aws/StateMachine"

VARIABLES
  cr,       \* the custom resource in the API server, or Nil
  sm,       \* the state machine in AWS, or Nil
  vers,     \* every version ever published; a deleted one is Nil
  pushed,   \* ghost: the configuration this controller last pushed
  pc,       \* the next call of the reconcile pass
  desired,  \* the pass's copy of the custom resource
  latest,   \* what the pass read, and finally what it returns
  delta,    \* the delta of the pass
  edits, outOfBand, faults   \* how much of each bound is used

k8s == <<cr>>
aws == <<sm, vers, pushed>>
pass == <<pc, desired, latest, delta>>
bounds == <<edits, outOfBand, faults>>
vars == <<cr, sm, vers, pushed, pc, desired, latest, delta, edits, outOfBand, faults>>

\* A custom resource: its spec and the parts of its status and metadata that
\* steer a pass.  A version ARN is the version's number.
Resource ==
  [phase : {"live", "deleting"}, spec : StateMachineSpec, arn : {ARN, Nil},
   ver : Nat \cup {Nil}, finalizers : SUBSET {FinalizerString}]

\* A state machine; revver is the version published from its current revision.
Machine ==
  [status : {"active", "deleting"}, cfg : Config, tags : Tags, revver : Nat \cup {Nil}]

ASSUME StateMachineConstants ==
  /\ Nil \notin Nat /\ Nil # ARN /\ Nil \notin Resource /\ Nil \notin Machine
  /\ Specs \subseteq StateMachineSpec
  /\ \A s, t \in Specs : s.name = t.name
  \* AWS refuses "aws:" keys from its clients
  /\ \A s \in Specs : KeysOf(s.tags) \cap AWSTagKeys = {}
  /\ DriftConfigs \subseteq Config
  /\ DriftTags \subseteq Tags
  /\ Faults \subseteq {"error", "lost", "status", "crash"}
  /\ MaxEdits \in Nat /\ MaxOutOfBand \in Nat /\ MaxFaults \in Nat

Init ==
  /\ cr = Nil /\ sm = Nil /\ vers = <<>> /\ pushed = Nil
  /\ pc = "idle" /\ desired = Nil /\ latest = Nil /\ delta = {}
  /\ edits = 0 /\ outOfBand = 0 /\ faults = 0

WithTags(r, tags) == [r EXCEPT !.spec = [@ EXCEPT !.tags = tags]]
Active == IF sm = Nil THEN FALSE ELSE sm.status = "active"

-----------------------------------------------------------------------------
(* The finalizer.                                                          *)

\* Variant: every resource counts as managed.
AlwaysManaged(r) == TRUE

\* descriptor.IsManaged
IsManaged(r) == FinalizerString \in r.finalizers

\* Variant: the finalizer stays.
FinalizerKept(r) == r

\* descriptor.MarkUnmanaged and the patch that follows: the API server removes
\* an object that is being deleted once its last finalizer goes.
Unmanaged(r) ==
  IF r = Nil \/ r.phase = "deleting" THEN Nil
  ELSE [r EXCEPT !.finalizers = @ \ {FinalizerString}]

-----------------------------------------------------------------------------
(* How a pass ends (runtime library).                                      *)

\* The pass is over and nothing of it is written.
Forget == pc' = "idle" /\ desired' = Nil /\ latest' = Nil /\ delta' = {}

\* The resource manager returned r, with or without an error; the runtime
\* writes r's status to the custom resource either way.
Return(r) == pc' = "persist" /\ latest' = r /\ desired' = Nil /\ delta' = {}

-----------------------------------------------------------------------------
(* AWS: a push and the version it publishes.                               *)

\* The version a publishing call answers with: AWS deduplicates per revision
\* and never reuses a number.  revver is the version of the pushed revision.
PublishedVersion(publish, revver) ==
  IF publish # "true" THEN Nil
  ELSE IF revver # Nil /\ vers[revver] # Nil THEN revver
  ELSE Len(vers) + 1

Push(cfg, tags, publish, revver) ==
  LET v == PublishedVersion(publish, revver) IN
  /\ sm' = [status |-> "active", cfg |-> cfg, tags |-> tags,
            revver |-> IF v = Nil THEN revver ELSE v]
  /\ vers' = IF v # Nil /\ v = Len(vers) + 1 THEN Append(vers, cfg) ELSE vers
  /\ pushed' = cfg

-----------------------------------------------------------------------------
(* The reconcile pass: reading.                                            *)

\* A worker takes the custom resource off its queue: after an edit, on a
\* requeue after an error, or on the periodic resync.  manager.EnsureTags
\* completes the tags of the copy it works on.
Reconcile ==
  /\ pc = "idle" /\ cr # Nil
  /\ desired' = WithTags(cr, EnsureTags(cr.spec.tags))
  /\ pc' = "describe"
  /\ UNCHANGED <<k8s, aws, latest, delta, bounds>>

\* sdk.sdkFind up to the DescribeStateMachine call.  Without a recorded ARN
\* there is nothing to ask for; NotFound sends a live resource to creation and
\* one being deleted to the removal of its finalizer.
sdkFind ==
  /\ pc = "describe"
  /\ IF desired.arn # Nil /\ sm # Nil
       THEN /\ latest' = [desired EXCEPT !.spec = DescribeInto(@, sm.cfg)]
            /\ pc' = "listTags"
       ELSE /\ pc' = IF desired.phase = "deleting" THEN "unmanage"
                     ELSE IF IsManaged(desired) THEN "create" ELSE "manage"
            /\ UNCHANGED latest
  /\ UNCHANGED <<k8s, aws, desired, delta, bounds>>

\* Variant: the probe's early return is missing, and it has no ARN to ask for.
ProbeUnguarded ==
  /\ pc = "listTags"
  /\ IF sm = Nil THEN Return(desired)
     ELSE /\ latest' = WithTags(latest, sm.tags)
          /\ pc' = IF latest.spec.publish = "true" THEN "probe" ELSE "compare"
          /\ UNCHANGED <<desired, delta>>
  /\ UNCHANGED <<k8s, aws, bounds>>

\* hooks.setResourceAdditionalFields: util.GetResourceTags, then the probe of
\* clearDeletedVersionARN unless its early return applies.  The state machine
\* may be gone by now, and then the read fails.
GetResourceTags ==
  /\ pc = "listTags"
  /\ IF sm = Nil THEN Return(desired)
     ELSE /\ latest' = WithTags(latest, sm.tags)
          /\ pc' = IF latest.spec.publish = "true" /\ latest.ver # Nil
                     THEN "probe" ELSE "compare"
          /\ UNCHANGED <<desired, delta>>
  /\ UNCHANGED <<k8s, aws, bounds>>

\* Variant: the probe's StateMachineDoesNotExist escapes and the read reports
\* the state machine itself as gone, which hooks.go 66-69 is there to prevent.
ProbeEscapes ==
  /\ pc = "probe"
  /\ pc' = IF vers[latest.ver] = Nil THEN "create" ELSE "compare"
  /\ UNCHANGED <<k8s, aws, desired, latest, delta, bounds>>

\* hooks.clearDeletedVersionARN: the probe of the recorded version.
clearDeletedVersionARN ==
  /\ pc = "probe"
  /\ latest' = IF vers[latest.ver] = Nil THEN [latest EXCEPT !.ver = Nil] ELSE latest
  /\ pc' = "compare"
  /\ UNCHANGED <<k8s, aws, desired, delta, bounds>>

-----------------------------------------------------------------------------
(* The reconcile pass: comparing and updating.                             *)

Added == TagsAdded(latest.spec.tags, desired.spec.tags)
Removed == TagsRemoved(latest.spec.tags, desired.spec.tags)

\* hooks.customUpdateStateMachine's second half: after the tags, the rest of
\* the delta if there is any; otherwise desired is returned as it is.
UpdateRest ==
  IF DifferentExceptTags(delta)
    THEN pc' = "update" /\ UNCHANGED <<desired, latest, delta>>
    ELSE Return(desired)

\* manager.ReadOne's mirrorAWSTags, then the runtime's comparison.  A resource
\* being deleted is not compared; one without a delta is returned as read.
Compare ==
  LET d  == WithTags(desired, mirrorAWSTags(desired.spec.tags, latest.spec.tags))
      dl == newResourceDelta(d.spec, latest.spec, latest.ver) IN
  /\ pc = "compare"
  /\ IF desired.phase = "deleting"
       THEN pc' = "delete" /\ UNCHANGED <<desired, latest, delta>>
     ELSE IF ~DifferentAtSpec(dl) THEN Return(latest)
     ELSE /\ desired' = d /\ delta' = dl /\ UNCHANGED latest
          /\ pc' = IF ~DifferentAtTags(dl) THEN "update"
                   ELSE IF TagsRemoved(latest.spec.tags, d.spec.tags) # {}
                     THEN "untag" ELSE "tag"
  /\ UNCHANGED <<k8s, aws, bounds>>

\* util.SyncResourceTags, its UntagResource call and its TagResource call.
\* Both fail when the state machine is gone.
untagged == [sm EXCEPT !.tags = UntagResource(@, Removed)]
tagged == [sm EXCEPT !.tags = TagResource(@, Added, desired.spec.tags)]

SyncUntag ==
  /\ pc = "untag"
  /\ IF sm = Nil THEN sm' = sm /\ Return(latest)
     ELSE /\ sm' = untagged
          /\ IF Added # {} THEN pc' = "tag" /\ UNCHANGED <<desired, latest, delta>>
                           ELSE UpdateRest
  /\ UNCHANGED <<k8s, vers, pushed, bounds>>

SyncTag ==
  /\ pc = "tag"
  /\ IF sm = Nil THEN sm' = sm /\ Return(latest)
                 ELSE sm' = tagged /\ UpdateRest
  /\ UNCHANGED <<k8s, vers, pushed, bounds>>

\* The UpdateStateMachine call: its effect and the version it answers with.
UpdatedConfig == UpdateConfig(sm.cfg, newUpdateRequestPayload(desired.spec))
UpdatedRevver == IF UpdatedConfig = sm.cfg THEN sm.revver ELSE Nil
UpdatePublish == newUpdateRequestPayload(desired.spec).publish
UpdateEffect == Push(UpdatedConfig, sm.tags, UpdatePublish, UpdatedRevver)

\* Variant: a response without a version leaves the recorded one in place.
StaleVersionKept(r, resp) == IF resp = Nil THEN r ELSE [r EXCEPT !.ver = resp]

\* hooks.customUpdateStateMachine mirrors the response, its absence included.
MirrorVersion(r, resp) == [r EXCEPT !.ver = resp]

\* hooks.updateStateMachine; an error returns what was read (manager.Update).
updateStateMachine ==
  /\ pc = "update"
  /\ IF Active
       THEN /\ UpdateEffect
            /\ Return(MirrorVersion(desired,
                        PublishedVersion(UpdatePublish, UpdatedRevver)))
       ELSE Return(latest) /\ UNCHANGED aws
  /\ UNCHANGED <<k8s, bounds>>

-----------------------------------------------------------------------------
(* The reconcile pass: creating.                                           *)

\* descriptor.MarkManaged and its patch, which fails if the resource is gone.
MarkManaged ==
  /\ pc = "manage"
  /\ IF cr = Nil THEN cr' = cr /\ Forget
     ELSE /\ cr' = [cr EXCEPT !.finalizers = @ \cup {FinalizerString}]
          /\ desired' = [desired EXCEPT !.finalizers = @ \cup {FinalizerString}]
          /\ pc' = "create" /\ UNCHANGED <<latest, delta>>
  /\ UNCHANGED <<aws, bounds>>

\* The CreateStateMachine call.  It is idempotent for an equal request, and
\* fails for a different one and while the old state machine is being deleted.
CreatedConfig == CreateConfig(newCreateRequestPayload(desired.spec))
Creatable == IF sm = Nil THEN TRUE ELSE sm.status = "active" /\ sm.cfg = CreatedConfig
CreatedRevver == IF sm = Nil THEN Nil ELSE sm.revver
CreatedTags == IF sm = Nil THEN newCreateRequestPayload(desired.spec).tags ELSE sm.tags
CreatePublish == newCreateRequestPayload(desired.spec).publish
CreateEffect == Push(CreatedConfig, CreatedTags, CreatePublish, CreatedRevver)

\* A failed create reports on desired.  The runtime takes the finalizer back
\* where it can tell that nothing was created (sdk.go 241-245), and may keep it.
CreateFailed == Return(desired) /\ cr' \in {cr, Unmanaged(cr)}

\* Variant: the identifiers of the response are not copied into the status.
CreatedWithoutARN(r, resp) == [r EXCEPT !.ver = resp]

\* sdk.sdkCreate, the merge of the response.
Created(r, resp) == [r EXCEPT !.arn = ARN, !.ver = resp]

sdkCreate ==
  /\ pc = "create"
  /\ IF Creatable
       THEN /\ CreateEffect
            /\ Return(Created(desired,
                        PublishedVersion(CreatePublish, CreatedRevver)))
            /\ UNCHANGED k8s
       ELSE CreateFailed /\ UNCHANGED aws
  /\ UNCHANGED bounds

-----------------------------------------------------------------------------
(* The reconcile pass: deleting, and writing the status.                   *)

\* sdk.sdkDelete: deletion in AWS is asynchronous.
DeleteEffect == sm' = IF sm = Nil THEN Nil ELSE [sm EXCEPT !.status = "deleting"]

sdkDelete ==
  /\ pc = "delete"
  /\ DeleteEffect
  /\ pc' = "unmanage"
  /\ UNCHANGED <<k8s, vers, pushed, desired, latest, delta, bounds>>

\* descriptor.MarkUnmanaged at the end of a deletion.
MarkUnmanaged ==
  /\ pc = "unmanage"
  /\ cr' = Unmanaged(cr)
  /\ Forget
  /\ UNCHANGED <<aws, bounds>>

\* The runtime patches the status subresource (resource.SetStatus): the spec
\* the user may have edited meanwhile is not touched.
Persist ==
  /\ pc = "persist"
  /\ cr' = IF cr = Nil THEN Nil ELSE [cr EXCEPT !.arn = latest.arn, !.ver = latest.ver]
  /\ Forget
  /\ UNCHANGED <<aws, bounds>>
-----------------------------------------------------------------------------
(* The user.                                                               *)

Acts == edits < MaxEdits /\ edits' = edits + 1 /\ UNCHANGED <<outOfBand, faults>>

CreateCR(s) ==
  /\ cr = Nil /\ Acts
  /\ cr' = [phase |-> "live", spec |-> s, arn |-> Nil, ver |-> Nil, finalizers |-> {}]
  /\ UNCHANGED <<aws, pass>>

EditSpec(s) ==
  /\ cr # Nil /\ Acts
  /\ cr.phase = "live" /\ cr.spec # s
  /\ cr' = [cr EXCEPT !.spec = s]
  /\ UNCHANGED <<aws, pass>>

\* The API server keeps an object with a finalizer until the finalizer goes.
DeleteCR ==
  /\ cr # Nil /\ Acts
  /\ cr.phase = "live"
  /\ cr' = IF cr.finalizers = {} THEN Nil ELSE [cr EXCEPT !.phase = "deleting"]
  /\ UNCHANGED <<aws, pass>>

-----------------------------------------------------------------------------
(* AWS and its other clients.                                              *)

Drifts ==
  outOfBand < MaxOutOfBand /\ outOfBand' = outOfBand + 1 /\ UNCHANGED <<edits, faults>>

DriftConfig(c) ==
  /\ Active /\ Drifts
  /\ LET new == [c EXCEPT !.name = sm.cfg.name, !.type = sm.cfg.type] IN
     /\ new # sm.cfg
     /\ sm' = [sm EXCEPT !.cfg = new, !.revver = Nil]
  /\ UNCHANGED <<k8s, vers, pushed, pass>>

DriftTag(t) ==
  /\ Active /\ Drifts
  /\ sm' = [sm EXCEPT !.tags = t]
  /\ UNCHANGED <<k8s, vers, pushed, pass>>

DeleteVersion(v) ==
  /\ vers[v] # Nil /\ Drifts
  /\ vers' = [vers EXCEPT ![v] = Nil]
  /\ UNCHANGED <<k8s, sm, pushed, pass>>

DeleteMachine ==
  /\ Active /\ Drifts
  /\ sm' = [sm EXCEPT !.status = "deleting"]
  /\ UNCHANGED <<k8s, vers, pushed, pass>>

\* AWS finishes a deletion; the versions go with the state machine.
FinishDelete ==
  /\ sm # Nil
  /\ sm.status = "deleting"
  /\ sm' = Nil
  /\ vers' = [v \in DOMAIN vers |-> Nil]
  /\ UNCHANGED <<k8s, pushed, pass, bounds>>

-----------------------------------------------------------------------------
(* Faults.                                                                 *)

Fails(kind) ==
  /\ kind \in Faults /\ faults < MaxFaults
  /\ faults' = faults + 1
  /\ UNCHANGED <<edits, outOfBand>>

\* A call fails and has no effect: throttling, a permission, the network.  A
\* read returns desired, an update or a delete what was read, the probe
\* swallows the error (hooks.go 69-70), a failed patch of the finalizer ends
\* the pass.  The patch of the status is StatusPatchFails.
ApiError ==
  /\ Fails("error")
  /\ \/ pc \in {"describe", "listTags"} /\ Return(desired) /\ UNCHANGED k8s
     \/ pc = "probe" /\ pc' = "compare" /\ UNCHANGED <<k8s, desired, latest, delta>>
     \/ pc \in {"untag", "tag", "update", "delete"} /\ Return(latest) /\ UNCHANGED k8s
     \/ pc = "create" /\ CreateFailed
     \/ pc \in {"manage", "unmanage"} /\ Forget /\ UNCHANGED k8s
  /\ UNCHANGED aws

\* A call takes effect and its answer is lost: the caller sees an error.
LostResponse ==
  /\ Fails("lost")
  /\ \/ /\ pc = "untag" /\ sm # Nil /\ sm' = untagged
        /\ Return(latest) /\ UNCHANGED <<k8s, vers, pushed>>
     \/ /\ pc = "tag" /\ sm # Nil /\ sm' = tagged
        /\ Return(latest) /\ UNCHANGED <<k8s, vers, pushed>>
     \/ pc = "update" /\ Active /\ UpdateEffect /\ Return(latest) /\ UNCHANGED k8s
     \/ pc = "create" /\ Creatable /\ CreateEffect /\ CreateFailed
     \/ /\ pc = "delete" /\ DeleteEffect
        /\ Return(latest) /\ UNCHANGED <<k8s, vers, pushed>>

\* The patch of the status fails (runtime library): what the pass returned is
\* lost, although its calls have had their effect.
StatusPatchFails ==
  /\ Fails("status")
  /\ pc = "persist" /\ Forget
  /\ UNCHANGED <<k8s, aws>>

\* The controller stops between two calls and starts again.
Crash ==
  /\ Fails("crash")
  /\ pc # "idle" /\ Forget
  /\ UNCHANGED <<k8s, aws>>

-----------------------------------------------------------------------------
Controller ==
  \/ Reconcile \/ sdkFind \/ GetResourceTags \/ clearDeletedVersionARN
  \/ Compare \/ SyncUntag \/ SyncTag \/ updateStateMachine
  \/ MarkManaged \/ sdkCreate \/ sdkDelete \/ MarkUnmanaged \/ Persist

User == (\E s \in Specs : CreateCR(s) \/ EditSpec(s)) \/ DeleteCR

OtherClients ==
  \/ \E c \in DriftConfigs : DriftConfig(c)
  \/ \E t \in DriftTags : DriftTag(t)
  \/ \E v \in DOMAIN vers : DeleteVersion(v)
  \/ DeleteMachine

Next ==
  \/ Controller \/ User \/ OtherClients \/ FinishDelete
  \/ ApiError \/ LostResponse \/ StatusPatchFails \/ Crash

\* A worker that has a next call makes it, the queue and the periodic resync
\* start passes for ever, and AWS finishes the deletions it has begun.
Fairness == WF_vars(Controller) /\ WF_vars(FinishDelete)

Spec == Init /\ [][Next]_vars
FairSpec == Spec /\ Fairness
-----------------------------------------------------------------------------
(* Properties.                                                             *)

PCs == {"idle", "describe", "listTags", "probe", "compare", "untag", "tag",
        "update", "manage", "create", "delete", "unmanage", "persist"}

Paths == {"Spec.Tags", "Spec.Publish", "Spec.Definition", "Spec.LoggingConfiguration",
          "Spec.LoggingConfiguration.Destinations",
          "Spec.LoggingConfiguration.IncludeExecutionData",
          "Spec.LoggingConfiguration.Level", "Spec.Name", "Spec.RoleARN", "Spec.RoleRef",
          "Spec.TracingConfiguration", "Spec.TracingConfiguration.Enabled", "Spec.Type"}

\* The type of every variable; a pass has the copies its next call needs, and
\* a recorded version is one that was published.
TypeOK ==
  /\ cr \in Resource \cup {Nil}
  /\ sm \in Machine \cup {Nil}
  /\ vers \in Seq(Config \cup {Nil})
  /\ pushed \in Config \cup {Nil}
  /\ pc \in PCs
  /\ desired \in Resource \cup {Nil} /\ latest \in Resource \cup {Nil}
  /\ delta \in SUBSET Paths
  /\ edits \in Nat /\ outOfBand \in Nat /\ faults \in Nat
  /\ pc \notin {"idle", "persist"} => desired # Nil
  /\ pc \in {"listTags", "probe", "compare", "untag", "tag", "update", "delete", "persist"}
       => latest # Nil
  /\ pc = "probe" => latest.ver # Nil
  /\ \A r \in {cr, desired, latest} : r # Nil => r.ver \in DOMAIN vers \cup {Nil}
  /\ sm # Nil => sm.revver \in DOMAIN vers \cup {Nil}

\* status.stateMachineVersionARN "names the version holding the configuration
\* last pushed" (apis/v1alpha1/state_machine.go 49-50, hooks.go 131-137): between
\* the pass that pushed and the next push, a recorded version that still exists
\* holds exactly what the controller pushed last.
RecordedVersionHoldsPush ==
  pc # "persist" /\ cr # Nil =>
    (cr.ver # Nil => vers[cr.ver] \in {Nil, pushed})

\* The same, as what a settled system comes back to after a fault.
RecordedVersionRecovers == <>[]RecordedVersionHoldsPush

\* A version deleted out of band never makes the pass believe that the state
\* machine itself is gone (hooks.go 66-69): creation is attempted for a resource
\* with a recorded ARN only while no such state machine exists.
CreateOnlyWhenAbsent ==
  pc \in {"manage", "create"} => (desired.arn # Nil => sm = Nil)

\* "the underlying CR may not be deleted until ACK is finished cleaning up any
\* backend AWS service resources" (descriptor.go 107-112): a state machine is
\* never left running without its custom resource.
NoOrphan == cr = Nil => ~Active

\* The custom resource as ManagedResource sees it.
ObjectState ==
  IF cr = Nil THEN "none"
  ELSE IF cr.phase = "deleting" THEN "deleting"
  ELSE IF cr.finalizers = {} THEN "unmanaged" ELSE "managed"

Managed == INSTANCE ManagedResource
             WITH Owners <- {"cr"}, object <- [o \in {"cr"} |-> ObjectState], running <- Active

\* Without lost answers and crashes, the calls of a pass, in any interleaving
\* with users and other clients, keep what the finalizer promises step by step:
\* a state machine is started only under a finalizer, also when the resource was
\* edited, deleted or replaced meanwhile, and the finalizer goes after it.
KeepsFinalizerPromise == Managed!Spec

\* Tags that start with "aws:" are not the controller's: whatever happens
\* between listing the tags and writing them, only AWS and its other clients
\* change the "aws:" tags of an existing state machine (tags.go 94-102).
AWSTagsOnlyChangeOutOfBand ==
  [][sm # Nil /\ sm' # Nil /\ outOfBand' = outOfBand =>
       \A k \in AWSTagKeys : sm'.tags[k] = sm.tags[k]]_vars

\* A custom resource whose deletion was requested goes away.
DeletionCompletes == (cr # Nil /\ cr.phase = "deleting") ~> cr = Nil

\* Once users and other clients are quiet, a live resource has a running state
\* machine and pushing its spec again would change nothing more: what still
\* differs is what no update can change.
ConfigConverges ==
  <>[](cr # Nil /\ cr.phase = "live" =>
         /\ Active
         /\ newResourceDelta(cr.spec, DescribeInto(cr.spec, sm.cfg), cr.ver)
              \subseteq UnpushablePaths(cr.spec, sm.cfg))

\* Once all is quiet the tags in AWS are the user's and the controller's, on
\* every key that is not AWS's own, whatever a call cut short between untagging
\* and tagging left behind.  A state machine that a crash kept off the record is
\* found again only by a create with an equal request.
TagsConverge ==
  <>[](cr # Nil /\ cr.phase = "live" /\ cr.arn # Nil =>
         /\ Active
         /\ \A k \in TagKeys \ AWSTagKeys : sm.tags[k] = EnsureTags(cr.spec.tags)[k])

\* Once all is quiet, a resource that asks for versions has one on record, it
\* exists, and it holds the configuration last pushed: turning publish on for a
\* settled resource, or deleting its version out of band, is not a no-op
\* (hooks.go 158-164).
PublishSettles ==
  <>[](cr # Nil /\ cr.phase = "live" /\ cr.spec.publish = "true" =>
         /\ cr.ver # Nil
         /\ vers[cr.ver] = pushed)
=============================================================================
