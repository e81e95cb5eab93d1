------------------------- MODULE StateMachineAlias --------------------------
(***************************************************************************)
(* The life of one StateMachineAlias: a name that routes executions to one *)
(* or two published versions of a state machine by weight.  The weights    *)
(* are int64 in the custom resource and int32 in the API, and a spec that  *)
(* does not fit fails before any call; AWS refuses routings that name a    *)
(* missing version or do not add up.  The versions, and the state machine  *)
(* with them, come and go independently of the alias, whose custom resource*)
(* may be there before the versions it names.                              *)
(*                                                                         *)
(* Source: pkg/resource/state_machine_alias/{sdk,delta,manager}.go         *)
(***************************************************************************)
EXTENDS Conditions, Integers

CONSTANTS
  Specs,          \* the specs the user writes
  Versions,       \* the versions of the state machine
  DriftRoutings,  \* routings other AWS clients set
  Descriptions,   \* descriptions of an alias
  Int32Values,    \* how many values a weight of the API can have; 2^32
  TotalWeight,    \* what the weights of a routing add up to; 100
  Faults,         \* which faults happen: "error", "lost", "status", "crash"
  MaxEdits, MaxOutOfBand, MaxFaults   \* how often each happens

ARN == "arn"

VARIABLES
  cr,        \* the custom resource in the API server, or Nil
  alias,     \* the alias in AWS, or Nil
  versions,  \* version -> has it been published, has it been deleted; AWS gives
             \* no number twice
  pc,        \* the next call of the reconcile pass
  desired, latest,   \* as in a pass of StateMachine
  cut,       \* ghost: an answer was lost or a pass was cut short
  edits, outOfBand, faults

pass == <<pc, desired, latest>>
bounds == <<cut, edits, outOfBand, faults>>
vars == <<cr, alias, versions, pc, desired, latest, cut, edits, outOfBand, faults>>

\* StateMachineAliasSpec of apis/v1alpha1; the immutable name is left out.
RoutingItem == [version : Ptr(Versions), weight : Ptr(Int)]
StateMachineAliasSpec == [description : Ptr(Descriptions), routing : Seq(RoutingItem)]

Resource ==
  [phase : {"live", "deleting"}, spec : StateMachineAliasSpec, arn : Ptr({ARN}),
   managed : BOOLEAN, conds : Seq(Condition)]

Routing == Seq([version : Versions, weight : Int])
Alias == [description : Ptr(Descriptions), routing : Routing]

ASSUME AliasConstants ==
  /\ Nil # ARN /\ Nil \notin Int /\ Nil \notin Versions /\ Nil \notin Descriptions
  /\ Nil \notin Resource /\ Nil \notin Alias
  /\ Int32Values \in Nat \ {0} /\ Int32Values % 2 = 0
  /\ TotalWeight \in 0 .. Int32Values \div 2 - 1
  /\ Specs \subseteq StateMachineAliasSpec /\ DriftRoutings \subseteq Routing
  /\ Faults \subseteq {"error", "lost", "status", "crash"}
  /\ MaxEdits \in Nat /\ MaxOutOfBand \in Nat /\ MaxFaults \in Nat

Init ==
  /\ cr = Nil /\ alias = Nil /\ versions \in [Versions -> {"future", "published"}]
  /\ pc = "idle" /\ desired = Nil /\ latest = Nil
  /\ cut = FALSE /\ edits = 0 /\ outOfBand = 0 /\ faults = 0

-----------------------------------------------------------------------------
(* Requests, responses and the delta.                                      *)

MaxInt32 == Int32Values \div 2 - 1
MinInt32 == -(Int32Values \div 2)

\* int32(w) in Go, without the range check before it.
Wrapped(w) == ((w - MinInt32) % Int32Values) + MinInt32

\* Variant: the conversion is not guarded.
WrappingPayload(routing) ==
  [i \in DOMAIN routing |->
     [version |-> routing[i].version, weight |-> Wrapped(Deref(routing[i].weight, 0))]]

\* The routing of newCreateRequestPayload and of newUpdateRequestPayload: an
\* error, Nil, when a weight is out of range.
RoutingPayload(routing) ==
  IF \E i \in DOMAIN routing :
       routing[i].weight # Nil /\ routing[i].weight \notin MinInt32 .. MaxInt32
    THEN Nil
    ELSE [i \in DOMAIN routing |->
            [version |-> routing[i].version, weight |-> Wrapped(Deref(routing[i].weight, 0))]]

\* The merge of the DescribeStateMachineAlias response in sdk.sdkFind.
DescribeInto(spec, a) == [spec EXCEPT !.description = a.description, !.routing = a.routing]

\* delta.newResourceDelta: the lists are compared in order, element by element,
\* and an unset weight is not a weight of 0.
newResourceDelta(a, b) ==
  (IF a.description # b.description THEN {"Spec.Description"} ELSE {})
  \cup (IF a.routing # b.routing THEN {"Spec.RoutingConfiguration"} ELSE {})

\* What AWS accepts as a routing (external).
Routable(routing) ==
  /\ Len(routing) \in 1 .. 2
  /\ \A i \in DOMAIN routing :
       /\ routing[i].version # Nil /\ routing[i].weight \in 0 .. TotalWeight
       /\ versions[routing[i].version] = "published"
  /\ IF Len(routing) = 1 THEN routing[1].weight = TotalWeight
     ELSE /\ routing[1].version # routing[2].version
          /\ routing[1].weight + routing[2].weight = TotalWeight

Accepted(routing) == IF routing = Nil THEN FALSE ELSE Routable(routing)

-----------------------------------------------------------------------------
(* How a pass ends; see StateMachine and Activity.                         *)

Forget == pc' = "idle" /\ desired' = Nil /\ latest' = Nil
Return(r) == pc' = "persist" /\ latest' = r /\ UNCHANGED desired

\* Variant: an error leaves the status as it is.
FailedSilently(r) == r

\* manager.onError and manager.onSuccess on a resource.
Failed(r) == [r EXCEPT !.conds = onError(@, "Failure").conds]
Succeeded(r) == [r EXCEPT !.conds = onSuccess(@)]

Unmanaged(r) ==
  IF r = Nil \/ r.phase = "deleting" THEN Nil ELSE [r EXCEPT !.managed = FALSE]

-----------------------------------------------------------------------------
(* The reconcile pass.  There are no tags, so nothing precedes the read.   *)

Reconcile ==
  /\ pc = "idle" /\ cr # Nil
  /\ desired' = cr /\ pc' = "describe"
  /\ UNCHANGED <<cr, alias, versions, latest, bounds>>

\* Variant: the response is not merged into a copy, and the read returns none.
FoundWithoutCopy ==
  /\ pc = "describe"
  /\ pc' = IF desired.arn # Nil /\ alias # Nil THEN "compare"
           ELSE IF desired.phase = "deleting" THEN "unmanage"
           ELSE IF desired.managed THEN "create" ELSE "manage"
  /\ UNCHANGED <<cr, alias, versions, desired, latest, bounds>>

\* sdk.sdkFind, a single call, and the end of manager.ReadOne.
sdkFind ==
  /\ pc = "describe"
  /\ IF desired.arn # Nil /\ alias # Nil
       THEN /\ latest' = Succeeded([desired EXCEPT !.spec = DescribeInto(@, alias)])
            /\ pc' = "compare"
       ELSE /\ pc' = IF desired.phase = "deleting" THEN "unmanage"
                     ELSE IF desired.managed THEN "create" ELSE "manage"
            /\ UNCHANGED latest
  /\ UNCHANGED <<cr, alias, versions, desired, bounds>>

\* The runtime's comparison (descriptor.Delta).
Compare ==
  /\ pc = "compare"
  /\ IF desired.phase = "deleting" THEN pc' = "delete" /\ UNCHANGED <<desired, latest>>
     ELSE IF newResourceDelta(desired.spec, latest.spec) = {} THEN Return(latest)
     ELSE pc' = "update" /\ UNCHANGED <<desired, latest>>
  /\ UNCHANGED <<cr, alias, versions, bounds>>

\* UpdateStateMachineAlias leaves alone what the request omits.
UpdateEffect ==
  alias' = [description |-> Deref(desired.spec.description, alias.description),
            routing |-> RoutingPayload(desired.spec.routing)]

Updatable == alias # Nil /\ Accepted(RoutingPayload(desired.spec.routing))

\* sdk.sdkUpdate: an error in the payload, or one of AWS, returns what was read.
sdkUpdate ==
  /\ pc = "update"
  /\ IF Updatable THEN UpdateEffect /\ Return(Succeeded(desired))
                  ELSE Return(Failed(latest)) /\ UNCHANGED alias
  /\ UNCHANGED <<cr, versions, bounds>>

MarkManaged ==
  /\ pc = "manage"
  /\ IF cr = Nil THEN cr' = cr /\ Forget
     ELSE /\ cr' = [cr EXCEPT !.managed = TRUE]
          /\ desired' = [desired EXCEPT !.managed = TRUE]
          /\ pc' = "create" /\ UNCHANGED latest
  /\ UNCHANGED <<alias, versions, bounds>>

\* CreateStateMachineAlias is idempotent for an equal request only.
CreateEffect ==
  alias' = [description |-> desired.spec.description,
            routing |-> RoutingPayload(desired.spec.routing)]

CreatableAs(spec) ==
  /\ Accepted(RoutingPayload(spec.routing))
  /\ alias # Nil => alias.description = spec.description
                    /\ alias.routing = RoutingPayload(spec.routing)

Creatable == CreatableAs(desired.spec)

\* Variant: the ARN of the response is not recorded.
CreatedWithoutARN(r) == r

\* sdk.sdkCreate, the merge of the response.
Created(r) == [r EXCEPT !.arn = ARN]

\* A failed create; the runtime may take the finalizer back (sdk.go 202-206).
CreateFailed == Return(Failed(desired)) /\ cr' \in {cr, Unmanaged(cr)}

sdkCreate ==
  /\ pc = "create"
  /\ IF Creatable THEN CreateEffect /\ Return(Succeeded(Created(desired))) /\ UNCHANGED cr
                  ELSE CreateFailed /\ UNCHANGED alias
  /\ UNCHANGED <<versions, bounds>>

\* Variant: a resource that cannot be pushed is not deleted either.
DeleteNeedsPayload ==
  /\ pc = "delete"
  /\ IF alias = Nil \/ RoutingPayload(desired.spec.routing) = Nil
       THEN Return(Failed(latest)) /\ UNCHANGED alias
       ELSE alias' = Nil /\ pc' = "unmanage" /\ UNCHANGED <<desired, latest>>
  /\ UNCHANGED <<cr, versions, bounds>>

\* sdk.sdkDelete: the alias is gone at once, and deleting a missing one fails;
\* the next pass then finds none.
sdkDelete ==
  /\ pc = "delete"
  /\ IF alias = Nil THEN alias' = alias /\ Return(Failed(latest))
     ELSE alias' = Nil /\ pc' = "unmanage" /\ UNCHANGED <<desired, latest>>
  /\ UNCHANGED <<cr, versions, bounds>>

MarkUnmanaged ==
  /\ pc = "unmanage"
  /\ cr' = Unmanaged(cr) /\ Forget
  /\ UNCHANGED <<alias, versions, bounds>>

Persist ==
  /\ pc = "persist"
  /\ cr' = IF cr = Nil THEN Nil ELSE [cr EXCEPT !.arn = latest.arn, !.conds = latest.conds]
  /\ Forget
  /\ UNCHANGED <<alias, versions, bounds>>

-----------------------------------------------------------------------------
(* The user, AWS and its other clients, faults.                            *)

Acts == edits < MaxEdits /\ edits' = edits + 1 /\ UNCHANGED <<cut, outOfBand, faults>>

CreateCR(s) ==
  /\ cr = Nil /\ Acts
  /\ cr' = [phase |-> "live", spec |-> s, arn |-> Nil, managed |-> FALSE, conds |-> <<>>]
  /\ UNCHANGED <<alias, versions, pass>>

EditSpec(s) ==
  /\ cr # Nil /\ Acts
  /\ cr.phase = "live" /\ cr.spec # s
  /\ cr' = [cr EXCEPT !.spec = s]
  /\ UNCHANGED <<alias, versions, pass>>

DeleteCR ==
  /\ cr # Nil /\ Acts
  /\ cr.phase = "live"
  /\ cr' = IF cr.managed THEN [cr EXCEPT !.phase = "deleting"] ELSE Nil
  /\ UNCHANGED <<alias, versions, pass>>

Drifts ==
  outOfBand < MaxOutOfBand /\ outOfBand' = outOfBand + 1 /\ UNCHANGED <<cut, edits, faults>>

DriftRouting(routing) ==
  /\ alias # Nil /\ Drifts
  /\ Routable(routing)
  /\ alias' = [alias EXCEPT !.routing = routing]
  /\ UNCHANGED <<cr, versions, pass>>

PublishVersion(v) ==
  /\ versions[v] = "future" /\ Drifts
  /\ versions' = [versions EXCEPT ![v] = "published"]
  /\ UNCHANGED <<cr, alias, pass>>

\* AWS refuses to delete a version an alias routes to.
DeleteVersion(v) ==
  /\ versions[v] = "published" /\ Drifts
  /\ alias # Nil => \A i \in DOMAIN alias.routing : alias.routing[i].version # v
  /\ versions' = [versions EXCEPT ![v] = "deleted"]
  /\ UNCHANGED <<cr, alias, pass>>

\* The state machine goes, and its versions and aliases with it.
DeleteMachine ==
  /\ (\E v \in Versions : versions[v] = "published") /\ Drifts
  /\ alias' = Nil
  /\ versions' = [v \in Versions |->
                    IF versions[v] = "published" THEN "deleted" ELSE versions[v]]
  /\ UNCHANGED <<cr, pass>>

Fails(kind) ==
  /\ kind \in Faults /\ faults < MaxFaults
  /\ faults' = faults + 1 /\ cut' = (cut \/ kind # "error") /\ UNCHANGED <<edits, outOfBand>>

\* A call fails and has no effect; a failed patch of the finalizer ends the pass.
ApiError ==
  /\ Fails("error")
  /\ \/ pc = "describe" /\ Return(Failed(desired)) /\ UNCHANGED cr
     \/ pc \in {"update", "delete"} /\ Return(Failed(latest)) /\ UNCHANGED cr
     \/ pc = "create" /\ CreateFailed
     \/ pc \in {"manage", "unmanage"} /\ Forget /\ UNCHANGED cr
  /\ UNCHANGED <<alias, versions>>

\* A call takes effect and its answer is lost.
LostResponse ==
  /\ Fails("lost")
  /\ \/ pc = "update" /\ Updatable /\ UpdateEffect /\ Return(Failed(latest)) /\ UNCHANGED cr
     \/ pc = "create" /\ Creatable /\ CreateEffect /\ CreateFailed
     \/ /\ pc = "delete" /\ alias # Nil /\ alias' = Nil
        /\ Return(Failed(latest)) /\ UNCHANGED cr
  /\ UNCHANGED versions

\* The patch of the status fails (runtime library): what the pass returned is
\* lost, although its calls have had their effect.
StatusPatchFails ==
  /\ Fails("status")
  /\ pc = "persist" /\ Forget
  /\ UNCHANGED <<cr, alias, versions>>

\* The controller stops between two calls and starts again.
Crash == Fails("crash") /\ pc # "idle" /\ Forget /\ UNCHANGED <<cr, alias, versions>>

-----------------------------------------------------------------------------
Controller ==
  \/ Reconcile \/ sdkFind \/ Compare \/ sdkUpdate \/ MarkManaged \/ sdkCreate
  \/ sdkDelete \/ MarkUnmanaged \/ Persist

User == (\E s \in Specs : CreateCR(s) \/ EditSpec(s)) \/ DeleteCR

OtherClients ==
  \/ \E routing \in DriftRoutings : DriftRouting(routing)
  \/ \E v \in Versions : PublishVersion(v) \/ DeleteVersion(v)
  \/ DeleteMachine

Next == Controller \/ User \/ OtherClients \/ ApiError \/ LostResponse \/ StatusPatchFails \/ Crash

\* As in StateMachine: passes are started for ever and make their next call.
Fairness == WF_vars(Controller)

Spec == Init /\ [][Next]_vars
FairSpec == Spec /\ Fairness

-----------------------------------------------------------------------------
\* The type of every variable; a pass has the copies its next call needs.
TypeOK ==
  /\ cr \in Ptr(Resource) /\ alias \in Ptr(Alias)
  /\ versions \in [Versions -> {"future", "published", "deleted"}]
  /\ pc \in {"idle", "describe", "compare", "update", "manage", "create", "delete",
             "unmanage", "persist"}
  /\ desired \in Ptr(Resource) /\ latest \in Ptr(Resource)
  /\ cut \in BOOLEAN /\ edits \in Nat /\ outOfBand \in Nat /\ faults \in Nat
  /\ pc # "idle" => desired # Nil
  /\ pc \in {"compare", "update", "delete", "persist"} => latest # Nil

\* The weights a spec asks for, an unset one being 0.
AsWritten(routing) ==
  [i \in DOMAIN routing |->
     [version |-> routing[i].version, weight |-> Deref(routing[i].weight, 0)]]

\* The conversion to int32 never changes a weight on its way to AWS
\* (sdk.go 241-245, 309-313): what the alias routes was written by someone.
RoutedAsWritten ==
  alias # Nil => alias.routing \in {AsWritten(s.routing) : s \in Specs} \cup DriftRoutings

\* The custom resource as ManagedResource sees it.
ObjectState ==
  IF cr = Nil THEN "none"
  ELSE IF cr.phase = "deleting" THEN "deleting"
  ELSE IF cr.managed THEN "managed" ELSE "unmanaged"

Managed == INSTANCE ManagedResource
             WITH Owners <- {"cr"}, object <- [o \in {"cr"} |-> ObjectState],
                  running <- alias # Nil /\ ~cut

\* As long as no answer is lost and no pass cut short, the custom resource keeps
\* the promise of its finalizer: it is there while its alias is, also when AWS
\* refused to create or to change the alias and the finalizer was taken back.
AliasKeepsFinalizerPromise == Managed!Spec

\* Once all is quiet an alias whose versions have all been published by then
\* routes as its spec says, recorded or not; whatever keeps it from doing so
\* shows in its status: a weight out of range, a version that is missing, weights
\* that do not add up, or an alias whose creation went unrecorded and which AWS
\* refuses to create with another routing.
AliasSettlesOrReports ==
  <>[](cr # Nil /\ cr.phase = "live" =>
         IF \/ cr.arn # Nil /\ Accepted(RoutingPayload(cr.spec.routing))
            \/ CreatableAs(cr.spec)
           THEN /\ alias # Nil /\ alias.routing = AsWritten(cr.spec.routing)
                /\ cr.spec.description \in {Nil, alias.description}
                /\ ~IsTrue(cr.conds, "ACK.Recoverable")
           ELSE IsTrue(cr.conds, "ACK.Recoverable"))

\* A custom resource whose deletion was requested goes away, also one whose
\* spec can never be pushed.
AliasDeletionCompletes == (cr # Nil /\ cr.phase = "deleting") ~> cr = Nil
=============================================================================
