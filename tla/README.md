# Verification of the Step Functions controller

TLA+ modules, TLC runs and TLAPS proofs about the ACK controller for AWS Step
Functions: the Kubernetes controller that keeps `StateMachine`,
`StateMachineAlias` and `Activity` custom resources and their counterparts in
AWS together. Paths below are relative to the repository.

## The system

### Components

| Component | State it keeps | Operations | Code |
|---|---|---|---|
| StateMachine | spec, status (ARN, version ARN, conditions), finalizer | `ReadOne` (describe, list tags, probe the version), `Create`, `Update` (untag, tag, update and publish), `Delete`, `EnsureTags`, `FilterSystemTags` | `pkg/resource/state_machine` |
| StateMachineAlias | spec (description, routing), ARN, conditions, finalizer | the same, without tags | `pkg/resource/state_machine_alias` |
| Activity | tags, ARN, conditions, finalizer | the same; tags are all that can be updated | `pkg/resource/activity` |
| Tags | none; lists in the resource, Go maps in between | conversion, merge, mirror, difference, sync, filter | `pkg/util/tags.go`, `*/tags.go` |
| Conditions | a list in the status | `updateConditions`, `onError`, `onSuccess` | `*/sdk.go`, `*/manager.go` |
| Manager factory | a map of resource managers behind a `sync.RWMutex` | `ManagerFor` | `*/manager_factory.go` |
| Role references | `spec.roleRef` resolved into `spec.roleARN` | `ResolveReferences` at the start of a pass, `ClearResolvedReferences` before the spec is written back | `state_machine/references.go` |
| Adoption | the ARN of a resource made elsewhere | `SetIdentifiers`, `PopulateResourceFromAnnotation`, `MarkAdopted` | `*/resource.go`, `*/descriptor.go` |
| Process | flags, registry | start-up | `cmd/controller/main.go`, `pkg/resource/registry.go` |
| API types | objects in memory: structs of pointers and slices | `DeepCopy` | `apis/v1alpha1` |

Outside the repository: the **ACK runtime** (a Go library) takes a custom
resource off a work queue, calls the resource manager and writes the result
back; **AWS** answers the calls; the **API server** keeps objects with a
finalizer until the finalizer goes; the **user** and **other AWS clients**
(the console, CloudFormation) act at any time.

### How they interact

A reconcile pass of one custom resource is a sequence of calls by one goroutine.
It works on copies: `desired`, taken from the API server when the pass starts,
and `latest`, what the pass read from AWS. The pass reads, compares the two
(`newResourceDelta` with the hand-written `customPreCompare`), and then creates,
updates or deletes; only its last step writes the status back. The status is all
that the next pass knows of the past: a resource is found in AWS by the ARN
recorded there, in the region recorded there, and a published version by the
version ARN recorded there. Before it reads, a pass resolves the role it refers
to from a `Role` resource of the IAM controller and, when it has to adopt, takes
the ARN from an annotation.
Passes of different custom resources run concurrently and share the manager
factory, and AWS.

### What is hard about it

* Everything between two calls: an edit of the spec, a deletion, drift of the
  configuration or the tags, a version or a machine deleted out of band.
* Effects without a record: the controller stops, or an answer is lost, after
  AWS has acted and before the status is written.
* State that is stale when used: tags listed earlier in the pass, a version ARN
  that was published from an older configuration, conditions of earlier passes.
* One step of several failing: untag, tag and update are three calls.
* Hand-written code that must agree with generated code: the update payload with
  the create payload, the publish owed with the delta.
* Lists that go through Go maps: order, duplicates, missing keys and values.
* Inputs that others own: a Role resource that is half made, broken, replaced or
  deleted; a state machine to adopt that is not there yet, or not any more; the
  region the controller is started for.
* Objects in memory that are sometimes copied and sometimes edited in place, with
  conditions that are written through pointers.
* Two workers in `ManagerFor`, two custom resources of one name.
* A 64-bit weight in the custom resource and a 32-bit one in the API.

`PROJECT.json` lists each of these under `hazards`, at the line where it bites.

### What correctness means

*StateMachine*: the recorded version holds what was pushed last; creation happens
only when nothing is there; nothing is left running without its custom resource;
configuration, tags and versions converge; deletions complete. *Tags*: AWS's own
tags are never touched and the user's list comes back as written. *Conditions*:
the status shows the last outcome. *References and adoption*: only usable roles
are used, a resolved ARN is never stored, nothing is created that was to be
adopted. *Copies*: a write never reaches another object. *Activity*: custom resources that share an
activity do not break each other. *Alias*: it routes as written or says why not.
*Factory*: no data race, no deadlock, managers are reused.

## Modules

| Module | Models | Extends |
|---|---|---|
| `Pointers` | Go's optional values | |
| `ResourceTags` | the tag algebra on maps | `Pointers` |
| `TagLists` | tags as lists, through one pass after another | `ResourceTags` |
| `StateMachineFields` | requests, responses and delta of a state machine, field by field | `ResourceTags` |
| `StateMachinePush` | one push of a spec, and the delta of the next pass | `StateMachineFields` |
| `StateMachine` | the life of one StateMachine, call by call | `StateMachineFields` |
| `ManagedResource` | the promise of the finalizer, an abstract specification | |
| `StateMachineProofs` | proofs: the tag and field operators, the types and safety of `StateMachine` and its refinement | `StateMachine`, `StateMachinePush` |
| `TagListsProofs`, `ActivityProofs`, `StateMachineAliasProofs`, `ResolvedInputsProofs`, `ManagerFactoryProofs`, `ConditionsProofs`, `ManagedResourceProofs` | proofs about the module they are named after | that module |
| `References` | the role reference: validation, resolution, clearing | `Pointers` |
| `ResolvedInputs` | passes that depend on Roles, adoption and the region | `References` |
| `Conditions` | the conditions in a status | `Pointers` |
| `DeepCopies` | the types of the three kinds on a heap, and `DeepCopy` | `Pointers` |
| `Objects` | the objects of a pass in memory | `DeepCopies`, instance of `Conditions` |
| `Activity` | Activities of one name, call by call | `ResourceTags`, `Conditions` |
| `StateMachineAlias` | the life of one alias, call by call | `Conditions` |
| `ManagerFactory` | `ManagerFor` under its lock | |
| `MC*` | instances for TLC | the module they are named after |

A definition that follows a comment beginning "Variant:" is a plausible mistake
in the code it stands before. It is not part of the model; `mutants` in
`PROJECT.json` says which property notices it. `StateMachine`, `Activity`,
`StateMachineAlias` and `ResolvedInputs` each have an instance of `ManagedResource`.

### StateMachine

`cr` is the custom resource in the API server, with its phase, spec, ARN, version
ARN and finalizer; `sm` the state machine in AWS with its configuration, tags and
the version published from its current revision; `vers` every version ever
published. `pc`, `desired`, `latest` and `delta` are the local state of the pass.
`pushed` is a ghost: the configuration the controller pushed last.

Every AWS call, every patch and nothing else is a step of a pass:

| Action | Code |
|---|---|
| `Reconcile` | the runtime starts a pass; `EnsureTags` |
| `sdkFind` | `sdkFind` up to `DescribeStateMachine`; NotFound goes to creation, or to the finalizer when deleting |
| `GetResourceTags` | `setResourceAdditionalFields`, the tags and the early return of the probe |
| `clearDeletedVersionARN` | the probe of the recorded version |
| `Compare` | `mirrorAWSTags` at the end of `ReadOne`, then the delta |
| `SyncUntag`, `SyncTag` | the two calls of `SyncResourceTags` |
| `updateStateMachine` | `UpdateStateMachine` and the mirroring of its version ARN |
| `MarkManaged`, `MarkUnmanaged` | the finalizer and its patch |
| `sdkCreate`, `sdkDelete` | the calls of the same name |
| `Persist` | `SetStatus` and the patch of the status |

`User`, `OtherClients` and `FinishDelete` (AWS ends an asynchronous deletion) are
the environment. Faults are `ApiError` (a call fails without effect),
`LostResponse` (a call takes effect and its answer is lost), `StatusPatchFails`
(the last step of a pass, the patch of the status, fails) and `Crash` (the pass
is forgotten between two calls). The constant `Faults` says which of them occur:
"error", "lost", "status" and "crash". A status patch that fails is not an "error":
the calls of its pass have had their effect, but the ARNs they answered are lost,
as with a crash at that moment. What is said of `Faults \subseteq {"error"}`
therefore holds as long as status patches succeed.
Errors are handled as `manager.go` does: a failed read returns `desired`, a failed
update or delete what was read, the probe swallows its error. After a failed
create the runtime may take the finalizer back, so the model does either.

AWS is modelled from how the code uses it and from what the comments in the code
say: updates leave alone what a request omits, a publishing call is idempotent
per revision, version numbers are not reused, creation is idempotent for an equal
request and fails for a different one.

### StateMachineFields

Specs and configurations as records, a pointer being its target or `Nil`. The two
payload builders turn an unset pointer into the zero value of the request's
field; AWS fills in defaults; `DescribeInto` merges the response; the delta is
the set of paths that differ. A definition is a document and its formatting,
because the delta compares definitions semantically and AWS stores the text.
`StateMachinePush` puts the operators to their use: any spec, any stored
configuration or none, one create or update, and the delta that comes next.

### Activity

The same steps as `StateMachine` for a family of custom resources `CRs` that
carry the same `spec.name`. Nothing in the cluster prevents this, and
`CreateActivity` is idempotent by name, so they come to share one activity.
Their passes interleave. A status patch may fail for one of them while the others go on;
a crash ends all their passes. `cut` is a ghost that says whether an answer was
lost or a pass was cut short, by a crash or a failed status patch.

### StateMachineAlias

The same steps without tags. Weights are integers in the spec; `RoutingPayload`
is the range check and the conversion to one of the `Int32Values` values of
the request's weight, whose failure ends a
create or an update before the call. `Routable` is what AWS accepts: one or two
existing versions whose weights add up to `TotalWeight`. `versions` says of every
version whether it is still to be published, published or deleted: the alias may
be applied before its versions exist, and they are deleted, and the whole state
machine with them, independently of it. A state machine and its aliases meet in
AWS only, so these environment actions stand for everything the `StateMachine`
model could do to the versions.

### ManagedResource

What the comment at `MarkManaged` promises, with the passes, calls and statuses
left out: owners (custom resources) that submit, claim, request deletion and
release, or come with their finalizer from an adoption, and an AWS resource that is provisioned while an owner holds it and that
the last owner releases only when it is gone. The refinement mapping takes the
object from the phase and the finalizer of the custom resource, and `running`
from AWS: a machine that is not being deleted. Owners are one for `StateMachine`,
`StateMachineAlias` and `ResolvedInputs`, where a state machine may be in any
region, and the whole family for `Activity`, where the abstract
specification is what allows one of them to release an activity that others
still hold. The mapping stops when a crash, a failed status patch or a lost
answer has occurred (the ghost `cut`, or the hypothesis on `Faults`):
`crash_orphan` shows the promise broken there.

### References and ResolvedInputs

`References` has the functions of `references.go` as operators on the two fields
of a spec, over a Role resource that is missing, terminal, unsynced, without ARN
or usable. `ResolvedInputs` puts them into a pass, next to the two other things a
pass depends on from outside: the adoption annotation and the region. One name of
a state machine, so that an ARN is its region; the configuration is the role.

| Action | Code |
|---|---|
| `Resolve` | `ResolveReferences`, then `PopulateResourceFromAnnotation` if adoption is due |
| `sdkFind` | `sdkFind` and the runtime's decision to adopt, update, create or give up |
| `Adopt` | `MarkManaged` and `MarkAdopted` |
| `sdkCreate`, `customUpdateStateMachine`, `sdkDelete`, `MarkManaged`, `MarkUnmanaged`, `Persist` | as in `StateMachine` |
| `WriteSpec` | the runtime's patch of the spec, of the difference between two specs that went through `ClearResolvedReferences` |
| `AdoptResource` | an AdoptedResource: `SetIdentifiers`, `MarkAdopted`, `setStatusDefaults` |

Assumed of the runtime, because the code is written for it: errors of the
resolution are ignored while a resource is being deleted; a resource with the
policy *adopt*, or one that was adopted, is not created when it is not found, one
with *adopt-or-create* is; `Restart` may start the controller for another region.
The region of a pass is `resourceIdentifiers.Region` if there is one. Patches go
by name: a user who deletes an unmanaged resource while a pass works on its copy,
and makes another one of that name, gets what the pass writes on the new one. The
ghost `replaced` says that this has happened.

### DeepCopies and Objects

`DeepCopies` describes the types of the three kinds by schemas (scalar, pointer,
slice, struct), keeps objects on a heap of addressed cells, and defines `DeepCopy`
by what the generated functions do: assign, then allocate anew for every pointer
and slice that is not nil. `Objects` runs passes on such objects:
`ResolveReferences`, `EnsureTags`, `mirrorAWSTags` and the updates of StateMachine
and Activity edit the object of the runtime; reads, creates and the updates of an
alias work on copies, the last without merging anything into them; a read finds
nothing without an ARN on record; `onError` and `onSuccess` return a copy unless it would be
left without conditions; `setStatusDefaults` makes the status point to fields of
the resource manager. `ConditionsAsListed` says that the edits through pointers
amount to those on the list in `Conditions`, on which `Activity` and
`StateMachineAlias` are built.

### Conditions, TagLists, ManagerFactory

`Conditions` has `updateConditions`, `onError` and `onSuccess` as operators on the
list. `TagLists` has the loops of the conversions as recursive functions of the
place in the list, and takes one list
through `EnsureTags`, `GetResourceTags`, `mirrorAWSTags`, `SyncResourceTags` and
`FilterSystemTags`; where Go iterates over a map the result is a set of lists,
one per order. Elements that are nil are left out: `util.toACKTags` skips
them and the generated `convertToOrderedACKTags` would dereference them, but neither
the schema of the custom resource nor an answer of AWS can hold one. `ManagerFactory` has one step per lock operation and map access,
with a `sync.RWMutex` in which a waiting writer keeps new readers out.

## Runs

| Run | Checks | Bounds | States |
|---|---|---|---|
| `fields` | `PushLeavesOnlyUnpushable` | every spec of 5 loggings, 3 tracings, 2 types, 2 roles, 4 definitions and publish on or unset against every stored configuration and none | 66 432 |
| `publish` | `TypeOK`, `RecordedVersionHoldsPush`, `NoOrphan`, `PublishSettles`, `ConfigConverges`, `KeepsFinalizerPromise` | 3 specs, 3 edits, 2 out-of-band acts, 1 failing call | 94 365 |
| `faults` | `CreateOnlyWhenAbsent`, `AWSTagsOnlyChangeOutOfBand`, `TagsConverge`, `DeletionCompletes` | 3 specs over two documents, 3 edits, 2 out-of-band acts, 2 faults of any kind | 261 445 |
| `inputs` | `TypeOK`, `StoredSpecIsTheUsers`, `OnlyUsableRoles`, `NeverTwoMachines`, `AdoptNeverCreates`, `InputsSettle`, `AdoptionCompletes`, `DeletionNeedsNoRole` | 5 inputs, 2 regions, 2 namespaces, 6 states of a Role, 4 acts in all (of the user, of other clients, Role changes, faults) | 791 305 |
| `tag_lists` | `FilteredTagsAreTheUsers`, `SyncedTagsAreDesired` | all lists of up to 3 tags over 4 keys, 4 initial tag sets, passes without end | 327 400 |
| `objects` | `CopiesStayApart`, `ConditionsAsListed`, `StatusShowsLastOutcome`, `OnlyTerminalErrorsStopRetries`, `OneConditionPerType` | 3 kinds, a full and a small spec of each; every sequence of passes | 9 906 |
| `activity` | `TypeOK`, `SharedActivitySurvives`, `ActivityDeletionCompletes`, `AgreedTagsConverge`, `OwnersKeepFinalizerPromise` | 2 custom resources, 3 edits, 1 drift or fault of any kind | 135 523 |
| `alias` | `TypeOK`, `RoutedAsWritten`, `AliasSettlesOrReports`, `AliasDeletionCompletes`, `AliasKeepsFinalizerPromise` | 5 specs, 2 versions, 3 edits, 2 out-of-band acts, 1 fault of any kind | 140 554 |
| `factory` | `NoConcurrentMapWrite`, `WarmCallNeverBuilds`, `BuiltAtMostPerWorker`, `EveryCallReturns` | 3 workers, 2 ids, calls without end | 94 765 |
| `unchanged_spec` | violated: `UnchangedSpecHasNoDelta` | as `fields` | |
| `crash_version` | violated: `RecordedVersionRecovers` | 2 edits, 1 crash | |
| `crash_orphan` | violated: `NoOrphan` | 2 edits, 1 crash | |

Why the bounds are enough to be interesting:

* Three user acts are create, change and delete, or on, off and on again for
  publish. An out-of-band act or a fault can fall between any two calls of any
  pass, so two of them already reach states such as "the version was deleted and
  the configuration drifted within one pass".
* The specs are chosen to differ where the code decides: publishing on and off,
  two documents, every optional field set or none; a tag changed, removed, and a
  controller default overridden.
* In `alias` a weight of the API has 256 values instead of 2^32. The specs have a
  routing to one version and to two, an unset weight, a weight of 127, the
  largest that fits, and 356, which would wrap to the valid weight 100.
* In `tag_lists` three elements allow a duplicate key with another key between.
* `factory` with three workers has two that miss together and one that arrives
  while they wait. Its state space is finite because a warm cache builds nothing.
* In `inputs` four acts are, for example, a resource that is made, a Role that is
  replaced while a pass is under way, a restart for another region and a deletion;
  or a resource that is made, deleted and made again with another annotation under
  one pass. The inputs are a reference to each namespace, an empty one, an ARN, a
  reference next to an ARN, and the three kinds of adoption annotation. "bad" is an
  ARN that only unusable Roles show.
* `objects` has two elements in every list and every optional field set or unset;
  a pass reads and then creates or updates at most once, as in the code, and the
  memory of a pass is forgotten at its end, which makes the states finite.
* In `activity` drift and faults share one budget of 1, which keeps two
  interleaved passes within reach; single-resource behaviour under more faults
  is what `faults` examines on the larger kind.

`CHECK_DEADLOCK FALSE` is set where the system may really stop: once the custom
resource is gone and the bounds are used up, nothing needs to happen. The runs of
`MCStateMachinePush`, `TagLists`, `MCObjects` and `ManagerFactory` check
deadlock.

### Fairness

Safety properties are invariants of `Spec`. Liveness is checked under `FairSpec`:

* `WF(Controller)`, per custom resource in `Activity`: a pass that has a next
  call makes it (calls have timeouts, and a timeout is a failed call), and a new
  pass starts for ever. The work queue requeues after an error and after an
  event, and the runtime resyncs every resource periodically (10 hours by
  default), so a pass starts even when nothing happens.
* `WF(FinishDelete)`: AWS finishes a deletion it has accepted.
* `WF(Step(w))` in `ManagerFactory`: the Go scheduler runs a goroutine that can
  run. Weak fairness is enough because waiting writers have precedence.

Nothing is assumed of users, other clients or faults, except that each of them
acts finitely often; this is what "once all is quiet" means in a property.

### What the violated runs show

* `unchanged_spec`. A spec that leaves `loggingConfiguration`,
  `tracingConfiguration` or `type` out differs from what AWS reports on every
  pass, so `UpdateStateMachine` is called on every pass. The end-to-end test says
  that "an unchanged spec produces no delta"; the version stays the same only
  because AWS deduplicates publishing.
* `crash_version`. A crash after `UpdateStateMachine` published a version and
  before the status write, or a failure of that write, loses the new version ARN. The next pass finds no
  difference, and the old ARN stays, against "names the version holding the
  configuration last pushed".
* `crash_orphan`. A crash after `CreateStateMachine` and before the status write,
  or a failure of that write, leaves a resource without a recorded ARN. If it is deleted now, `sdkFind`
  reports NotFound and the finalizer goes, while the state machine keeps running.

### Observations

* `ManagerFor` does not look again under the write lock: workers that miss
  together each build a manager. `BuiltAtMostPerWorker` is the bound that holds.
* A terminal error leaves an earlier recoverable condition `True`, so a status
  can show both; `StatusShowsLastOutcome` requires the last error to be there,
  not to be alone.
* An alias whose creation went unrecorded and whose spec was changed afterwards
  is refused by AWS on every later pass. The status shows it, which is why
  `AliasSettlesOrReports` distinguishes resources with a recorded ARN.
* `ResolveReferences` writes into the object it is given, although its comment
  promises a copy. `StoredSpecIsTheUsers` holds all the same, because whatever is
  written back is cleared on both sides of the difference.
* A resource of adoption policy *adopt* that takes the place of another one while a
  pass is at `MarkManaged` becomes managed without having been adopted: the patch
  of the finalizer goes by name. If its state machine is not there, the next pass
  creates it. Trying to prove `AdoptNeverCreates` showed this; the property now
  says what holds while no resource was replaced under a pass. `InputsSettle` makes
  the same exception for a status that a replacement was given.
* A reference without `from` passes the validation and stays unresolved. Such a
  resource is refused by AWS when it is created; one that exists keeps its role,
  because the update omits an unset role. `InputsSettle` allows for both.
* `customUpdateStateMachine` and `customUpdateActivity` return the object they were
  given, although the comment of the first promises a new resource.
* Custom resources of one name that disagree about the tags rewrite them for
  ever; `AgreedTagsConverge` is stated for those that agree.

## Proofs

Eight modules are checked by TLAPS. Their theorems hold for every value of the
constants: any sets of specs, drifts, tag keys and values, Roles, regions, workers
and custom resources, and any bounds. Every inductive invariant below was first
checked by TLC on the instances of the runs.

The assumptions are the named `ASSUME`s, which TLC evaluates on every run:

* `TagConstants`: default tags have no `aws:` key;
* `TagListConstants`: there are finitely many keys, as a list has, `Nil` is not
  one of them, and the empty string is a value;
* `PushConstants`: the specs and configurations of `StateMachinePush` have their
  types;
* `FieldConstants`, `StateMachineConstants`, `ActivityConstants`, `InputConstants`,
  `ReferenceConstants`, `ConditionConstants`: the constants have their types, no
  spec has an `aws:` key, and `Nil` is not a value;
* `AliasConstants`: the same, the number of values of a weight is even, and the
  weights AWS accepts add up to no more than the largest weight;
* `FactoryConstants`: finitely many workers.

| Theorem | Statement | Inductive invariant |
|---|---|---|
| *StateMachine* | | |
| `TypeCorrect` | `Spec => []TypeOK` | `TypeOK`, which also says that a pass has the copies its next call dereferences and that a recorded version was published |
| `CreationIsSafe` | `Spec => []CreateOnlyWhenAbsent`, under all faults | itself, with `TypeOK` |
| `AWSTagsAreSafe` | `Spec => AWSTagsOnlyChangeOutOfBand`, under all faults | `AWSTagsMirrored` |
| `NoOrphanLeft` | `Spec => []NoOrphan` if `Faults \subseteq {"error"}` | `Owned` |
| `RecordedVersionIsCurrent` | `Spec => []RecordedVersionHoldsPush` if `Faults \subseteq {"error"}` | `Recorded` |
| `FinalizerPromiseKept` | `Spec => KeepsFinalizerPromise` if `Faults \subseteq {"error"}` | `TypeOK` and `Owned` |
| `PushLeavesNothingElse` | after any push of any spec, `OnlyUnpushableLeft` | none: about operators |
| `PushIsComplete` | `PushSpec => []PushLeavesOnlyUnpushable` | `PushInv` |
| `TagSyncIsExact` | what one pass over the tags does, for all tag maps | none: about operators |
| *TagLists* | | |
| `ConversionsAgree` | the two conversions of a list into a map agree, for every list | none: about operators |
| `SyncedTags` | `Spec => []SyncedTagsAreDesired` | `TagListsInv` |
| `FilteredTags` | `Spec => []FilteredTagsAreTheUsers` | `TagListsInv` |
| *ManagedResource* | | |
| `PromiseHolds` | `Spec => []HeldWhileRunning`, for any set of owners | itself |
| *Activity* | | |
| `ActivityTypeCorrect` | `Spec => []TypeOK` | itself |
| `OwnersKeepPromise` | `Spec => OwnersKeepFinalizerPromise`, for any number of custom resources | `Custody` |
| `ActivityIsAlwaysHeld` | an uncut running activity has a custom resource with the finalizer | none: from the two theorems before |
| *StateMachineAlias* | | |
| `AliasTypeCorrect` | `Spec => []TypeOK` | `AliasInv` |
| `WeightsAreNeverWrapped` | `Spec => []RoutedAsWritten`, for every width, under all faults | `AliasInv` |
| `AliasKeepsPromise` | `Spec => AliasKeepsFinalizerPromise` | `Custody` |
| *ResolvedInputs* | | |
| `InputsTypeCorrect` | `Spec => []TypeOK` | itself |
| `StoredSpecStaysTheUsers` | `Spec => []StoredSpecIsTheUsers` | `CopiesClear` |
| `RolesAreUsable` | `Spec => []OnlyUsableRoles` | `RolesNamed` |
| `NeverASecondMachine` | `Spec => []NeverTwoMachines`, for any set of regions | `PassManages` and `Recorded` |
| `AdoptionCreatesNothing` | `Spec => AdoptNeverCreates` | `AdoptionKept` |
| `InputsKeepPromise` | `Spec => InputsKeepFinalizerPromise`, for any set of regions | `PassManages` and `Recorded` |
| *ManagerFactory* | | |
| `MapAccessExclusive` | `Spec => []NoConcurrentMapWrite` | `FactoryInv` |
| `WarmCallsReuse` | `Spec => []WarmCallNeverBuilds` | `FactoryInv` |
| `BuildsAreBounded` | `Spec => []BuiltAtMostPerWorker` | `FactoryInv` |
| `FactoryNeverDeadlocks` | `Spec => []SomeoneCanGoOn` | `FactoryInv` |
| *Conditions* | | |
| `OutcomeIsReported` | what `updateConditions` leaves, for every list with one condition per type | none: about operators |
| `OnlyTerminalErrorsReturned` | what `onError` returns, for the same lists | none: about operators |

### StateMachine

*Types.* Lemmas give the type of every operator of `ResourceTags` and
`StateMachineFields`; `PushType` is the one that matters, because a push may
lengthen `vers`. There is one lemma each for the controller's, the environment's
and the faulty steps.

*Fields.* `fields` compares every spec and configuration of an instance;
`PushIsComplete` says the same for all of them. `Pushed` is what a create
and an update have in common, field by field, and `DeltaOfStored` is what the
delta shows of such a configuration; `PushLeavesNothingElse` puts the two
together, and also has the publish that is owed while no version is on record.

*Tags.* `AWSTagsOnlyChangeOutOfBand` compares two consecutive states, but it
depends on what was read several steps earlier. `AWSTagsMirrored` carries it:
before the comparison the desired tags have no `aws:` key, and from it on they
agree with the tags that were read on every `aws:` key, so no such key is in
either difference, whatever AWS holds by now. `TagSyncIsExact` has three maps, of
the user, of the reading and of AWS at the time of the calls, which need not
agree: it says what the calls change and what they leave alone.

*Orphans.* `NoOrphan` only speaks of a missing custom resource. `Owned` says that
a running state machine has a custom resource with the finalizer, that the ARN is
in the status, or in what the pass is about to write, and that the steps which
give up the finalizer are reached only while nothing runs. The crash is what
breaks its second half, as `crash_orphan` shows, and so would a failed status patch
or a lost answer, hence the hypothesis on `Faults`.

*Refinement.* `KeepsFinalizerPromise` is the specification of `ManagedResource`
under the mapping. Every action of `StateMachine` is assigned the abstract step it
takes: most change neither the object nor `running` and stutter; `MarkManaged` is
`Claim`, the create is `Provision`, `MarkUnmanaged` and a failed create that gives
the finalizer back are `Release`. `Owned` is what makes the last two legal: the
create happens under the finalizer, and the finalizer goes only while nothing
runs. With `PromiseHolds` this shows the orphan theorem once more, from the
abstract side.

*Versions.* `Recorded` extends the property from the status to every copy a pass
has, and adds that the version AWS would answer again for the current revision
holds that revision. `PushRecords` shows that a push answers with a version that
holds what it pushed. Lost answers, failed status patches and crashes are
excluded as `crash_version` requires.

### TagLists

What a loop computes for a list of any length needs an induction over the list,
and the theorems of the library that offer one take an operator as a parameter.
`LeastElement` (every non-empty set of naturals has a least element, from the
well-foundedness of `<`) is a fact about sets, and `CountingUp` draws from it that
a set which contains 0 and with `n - 1` also `n` contains every number up to a bound;
`FunctionByRecursion` uses that to show that a recursive definition has a function.

*Loops.* `KeysWrittenLoop` and `ToACKTagsLoop` are the loops of `fromACKTags` and
`toACKTags`, one turn at a time. `KeysWrittenAreTheLists` is the loop invariant of
the first, carried to its end: the keys written so far are those of the list up to
there which the map has, once each, by their first place. `ConvertedTagsByKey` says
that a conversion into a map gives a key the value of its last place in the list;
`ConversionsAgree` compares the two conversions. `RoundTrip` says that a map
which is written to a list, in whichever order Go iterates over it, and read back
is the same map, and `OrderCarriesOver` that the order of the user's list
survives being filtered twice.

*The pass.* `TagListsInv` says what the list of the pass, the map it read and AWS's
map are after each of its steps, as functions of the user's list and of what AWS
had in the beginning. The two invariants of the run follow from its last cases.

### Activity

The custom resources share an activity, so no single one of them can be shown to
hold it. `Custody` says that one of them is a custodian: it has its finalizer, and
its pass has the ARN or is going to read it from the status, so it finds the
activity as long as there is one. A step of one custom resource leaves the
others as they are (`ActsOn`), a custodian stays one while the activity runs, and
whoever makes the activity becomes one. A custom resource that lets go of a
running activity is not a custodian, so another one holds it, which is what the
abstract `Release` asks for. Once an answer is lost or a pass is cut short the
mapping stops; the theorem says nothing about what follows.

`ActivityIsAlwaysHeld` applies `PromiseHolds` through the mapping: what was proved
once about the abstract specification holds of its implementation. For
`StateMachine` the same consequence is `NoOrphanLeft`.

### StateMachineAlias

`RoutedAsWritten` speaks of AWS; `AliasInv` adds that every spec, also in the copy
of a pass, is one that was written. The conversion is exact for weights in the
range and refuses the others, so nothing is left of the width but that it is even.
`Custody` is that of `Activity` for one owner.

### ResolvedInputs

*The stored spec.* `CopiesClear`: while a pass has the reference and the resolved
ARN side by side in its copies, these differ from the user's spec only in what
`ClearResolvedReferences` takes away. `WriteSpec` patches the difference of two
cleared specs, hence nothing that was resolved.

*Roles.* `RolesNamed`: every ARN, in the cluster and in the three copies, is the
user's, that of a usable Role in an allowed namespace, or one found in AWS. It is
about all Roles there may be, because the Role a pass read may have been replaced.

*One machine.* `Recorded`: a state machine the controller made is the one whose
region and ARN the resource has on record, or the pass has and will write.
`PassManages` says that the region of a pass does not change under it and that it
creates only for a managed resource. A restart for another region is then without
effect on what is on record.

*Adoption.* `AdoptionKept`: a resource that is to be adopted only is managed only
if it was adopted, in the cluster and in the copy, and a pass never gets to create
for it. It holds while no resource was replaced under a pass (see Observations).

*Refinement.* `ObjectStep` lists what a step may do to the custom resource, with
the place of the pass where it releases the finalizer, and `RunningStep` says that
only a create for a managed resource makes a state machine the controller's.
`Recorded` has the rest: while there is one, the resource is managed and the pass is
not where it would be released. An AdoptedResource, which comes with its finalizer,
is the abstract `Adopt`. No property of a run states this refinement.

### ManagerFactory

`LockHeld` ties the mutex to the places in `ManagerFor` and gives the exclusion.
`CachedIsBuilt` says that the cache has the manager built last and that a warm
call is still looking or has found it. For the bound, `BuildsBounded` counts what
is built together with the workers that have missed and not built: a worker joins
these only while nothing is built, and every construction takes one away.

That `EveryCallReturns` stays with TLC, but its safety half is a theorem:
`SomeoneCanGoOn` says that some worker in `ManagerFor` finds the lock it needs free.
`LockHeld` gives it: whoever holds a lock needs no other to leave, and a waiting
writer is only kept waiting by holders. `CanGoOn` spells out the guards of a
worker's steps, since `ENABLED` is out of the prover's reach.

### Conditions

`SetCondition` and `ClearCondition` say of one update of one condition what it
shows afterwards and that the conditions of other types stay; the theorems put
them together. They need that there is one condition per type, which they also
preserve. `Objects` has the same three facts as properties of memory; its
`ConditionsAsListed`, which TLC checks, is the link between the two.

### Only model-checked

* All liveness properties: fairness is out of the prover's reach.
* `Objects` and its properties: it is built on `DeepCopies`, which recurses over
  types with `RECURSIVE` operators. `Conditions` has what is provable about the
  conditions.

## Not modelled

* Adoption is followed to its end under the policy *adopt*. `AdoptNeverCreates`
  says nothing of *adopt-or-create*, which may create, nor of an AdoptedResource.
* A live resource whose create lost its answer: it is shown that a deletion
  completes then (`DeletionCompletes`); that the resource settles is shown without
  lost answers (`ConfigConverges`), because AWS refuses the second create if the
  spec was edited in between.
* Nil elements in a list of tags, see `TagLists`.
* The runtime's read-only and retain policies, its requeue delays and the work
  queue itself: library features this repository only enables.
* Conditions, references and adoption inside `StateMachine`: `Activity` and
  `StateMachineAlias` have the conditions, `ResolvedInputs` the other two. The code
  of adoption is the same for all three kinds and modelled for StateMachine.
* `LateInitialize` and `IsSynced`: `lateInitializeFieldNames` is empty, so the first
  returns its argument, and the second is always true. `creationDate` and
  `revisionID` are copied and never read. The account on record is treated like
  the region, which `ResolvedInputs` has.
* The controller process (`cmd/controller/main.go`, the registry): flags are
  parsed and managers are registered before the first worker starts; nothing
  of it changes state afterwards. Metrics and logging likewise.
* Types of AWS responses that no custom resource contains, the list types and the
  scheme registration in `apis/v1alpha1`: declared, copied and not used.
* Deployment files.

## Plan

Done, in this order: `ResourceTags`, `StateMachineFields`, `StateMachinePush`,
`StateMachine` and its proofs, `TagLists`, `ManagerFactory`, `Conditions`,
`Activity`, `StateMachineAlias`, `ManagedResource` with the refinements and their
proof, `References`, `ResolvedInputs`, `DeepCopies`, `Objects`; then the proofs
about `ManagerFactory`, `Conditions`, `Activity`, `StateMachineAlias`,
`ResolvedInputs`, the fields and tags of `StateMachine`, and `TagLists`; last, the
refinement of `ManagedResource` by `ResolvedInputs` and what follows from the
promise for `Activity`.

Left:

1. `Objects`: a proof needs `DeepCopies` without `RECURSIVE` operators, and an
   invariant that says which objects own which cells of the heap.
2. What holds of `StateMachine` after a crash, a failed status patch or a lost answer beyond
   `CreationIsSafe` and `AWSTagsAreSafe`: the promise of the finalizer with the
   unrecorded state machine as its one exception.
