------------------------------ MODULE Objects -------------------------------
(***************************************************************************)
(* The resource objects of a reconcile pass in the memory of the           *)
(* controller.  The runtime hands its object to the resource manager; some *)
(* operations write into the object they are given, the others work on a   *)
(* DeepCopy, and conditions and metadata are written through pointers.     *)
(* Were two objects to share a condition, reporting a failure on one would *)
(* change the other, which the runtime may go on with.                     *)
(*                                                                         *)
(* Source: pkg/resource/state_machine/{references,manager,sdk,hooks}.go;   *)
(* the code of the other two kinds is the same without references, and     *)
(* that of StateMachineAlias without tags.                                 *)
(***************************************************************************)
EXTENDS DeepCopies

CONSTANTS
  Kinds,      \* the kinds: "StateMachine", "Activity", "StateMachineAlias"
  FirstSpecs  \* kind -> the specs, as trees, of its custom resources

C == INSTANCE Conditions

VARIABLES
  kind,      \* the kind of the custom resource
  stored,    \* the custom resource in the API server, as a tree
  heap,      \* the memory of the pass
  desired,   \* the address of the pass's object
  latest,    \* the address of the object the manager made last
  pc,        \* the next operation of the pass
  called,    \* the error of the last call of the pass, Nil for a success
  returned   \* the error the manager returned for it

vars == <<kind, stored, heap, desired, latest, pc, called, returned>>

TypeOf(k) ==
  CASE k = "StateMachine" -> StateMachine
    [] k = "Activity" -> Activity
    [] k = "StateMachineAlias" -> StateMachineAlias

Type == TypeOf(kind)
At(h, ko) == Tree(h, h[ko], Type)

\* The fields of the resource manager that setStatusDefaults points to.
awsRegion == <<0, <<"awsRegion">>>>
awsPartition == <<0, <<"awsPartition">>>>
awsAccountID == <<0, <<"awsAccountID">>>>
Manager == [a \in {awsRegion, awsPartition, awsAccountID} |-> a[2][1]]

ASSUME ObjectConstants ==
  Kinds \subseteq {"StateMachine", "Activity", "StateMachineAlias"}

NoStatus(k) == [f \in DOMAIN TypeOf(k).fields.status.fields |-> Nil]

Init ==
  /\ kind \in Kinds
  /\ stored \in {[spec |-> s, status |-> NoStatus(kind)] : s \in FirstSpecs[kind]}
  /\ heap = Manager /\ desired = Nil /\ latest = Nil
  /\ pc = "idle" /\ called = Nil /\ returned = Nil

-----------------------------------------------------------------------------
(* Writing.                                                                *)

\* Assigns a field of the spec or the status of the object at ko.
SetSpec(h, ko, f, v) == [h EXCEPT ![ko].spec[f] = v]
SetStatus(h, ko, f, v) == [h EXCEPT ![ko].status[f] = v]

\* The metadata of the status, made if there is none.
WithMetadata(h, ko) ==
  LET m == New(h, [arn |-> Nil, ownerAccountID |-> Nil, partition |-> Nil, region |-> Nil]) IN
  IF h[ko].status.ackResourceMetadata # Nil THEN h
  ELSE SetStatus(m.heap, ko, "ackResourceMetadata", m.val)

\* sdk.setStatusDefaults: the defaults are pointers into the manager.
setStatusDefaults(h, ko) ==
  LET h1 == WithMetadata(h, ko)
      h2 == [h1 EXCEPT ![h1[ko].status.ackResourceMetadata] =
               [@ EXCEPT !.region = Deref(@, awsRegion), !.partition = Deref(@, awsPartition),
                         !.ownerAccountID = Deref(@, awsAccountID)]]
      s  == New(h2, <<>>) IN
  IF h[ko].status.conditions # Nil THEN h2
  ELSE SetStatus(s.heap, ko, "conditions", s.val)

\* What a response leaves in the status of the object it is merged into: the
\* ARN is written into the metadata, whoever else may point to them.
MergeResponse(h, ko) ==
  LET h1  == WithMetadata(h, ko)
      arn == New(h1, "arn") IN
  setStatusDefaults([arn.heap EXCEPT ![h1[ko].status.ackResourceMetadata].arn = arn.val], ko)

-----------------------------------------------------------------------------
(* Conditions.                                                             *)

\* The conditions of a type that the object at ko points to.
ConditionsOf(h, ko, t) ==
  {p \in {h[h[ko].status.conditions][i] : i \in DOMAIN h[h[ko].status.conditions]} :
     h[p].type = t}

\* Variant: the condition that is there already is not looked for.
AlwaysAppended(h, ko, t, status, message) ==
  LET m == Alloc(h, message, String)
      c == New(m.heap, [type |-> t, status |-> status, message |-> m.val])
      s == New(c.heap, Append(c.heap[h[ko].status.conditions], c.val)) IN
  SetStatus(s.heap, ko, "conditions", s.val)

\* Writes the condition of type t in place, or appends one.
SetCondition(h, ko, t, status, message) ==
  LET m == Alloc(h, message, String)
      c == New(m.heap, [type |-> t, status |-> status, message |-> m.val])
      s == New(c.heap, Append(c.heap[h[ko].status.conditions], c.val)) IN
  IF ConditionsOf(h, ko, t) # {}
    THEN [m.heap EXCEPT ![CHOOSE p \in ConditionsOf(h, ko, t) : TRUE] =
            [@ EXCEPT !.status = status, !.message = m.val]]
    ELSE SetStatus(s.heap, ko, "conditions", s.val)

ClearCondition(h, ko, t) ==
  IF ConditionsOf(h, ko, t) = {} THEN h ELSE SetCondition(h, ko, t, "False", Nil)

\* Variant: a terminal condition stays when the error is of another kind.
TerminalKept(h, ko, err) ==
  LET c == DeepCopy(h, ko, Type)
      d == setStatusDefaults(c.heap, c.val) IN
  [val |-> c.val,
   heap |-> IF err = "TerminalError" THEN SetCondition(d, c.val, "ACK.Terminal", "True", err)
            ELSE IF err # Nil THEN SetCondition(d, c.val, "ACK.Recoverable", "True", err)
            ELSE ClearCondition(ClearCondition(d, c.val, "ACK.Terminal"), c.val, "ACK.Recoverable")]

\* sdk.updateConditions, on a copy.
updateConditions(h, ko, err) ==
  LET c == DeepCopy(h, ko, Type)
      d == setStatusDefaults(c.heap, c.val)
      e == ClearCondition(d, c.val, "ACK.Terminal") IN
  [val |-> c.val,
   heap |-> IF err = "TerminalError" THEN SetCondition(d, c.val, "ACK.Terminal", "True", err)
            ELSE IF err # Nil THEN SetCondition(e, c.val, "ACK.Recoverable", "True", err)
            ELSE ClearCondition(e, c.val, "ACK.Recoverable")]

-----------------------------------------------------------------------------
(* The pass.                                                               *)

\* The runtime's API client decodes the custom resource.
Begin ==
  LET o == Alloc(Manager, stored, PointerTo(Type)) IN
  /\ pc = "idle" /\ pc' = "resolve"
  /\ heap' = o.heap /\ desired' = o.val
  /\ UNCHANGED <<kind, stored, latest, called, returned>>

\* references.ResolveReferences writes into the object it is given.
ResolveReferences ==
  LET arn == New(heap, "role") IN
  /\ pc = "resolve" /\ pc' = "ensureTags"
  /\ heap' = IF kind # "StateMachine" THEN heap
             ELSE IF heap[desired].spec.roleRef = Nil THEN heap
             ELSE SetSpec(arn.heap, desired, "roleARN", arn.val)
  /\ UNCHANGED <<kind, stored, desired, latest, called, returned>>

\* manager.EnsureTags, and manager.mirrorAWSTags after the read, put a new list
\* into the object they are given.
ReplaceTags(tags) ==
  LET s == Alloc(heap, tags, SliceOf(PointerTo(Tag))) IN
  heap' = IF kind = "StateMachineAlias" THEN heap ELSE SetSpec(s.heap, desired, "tags", s.val)

EnsureTags ==
  /\ pc = "ensureTags" /\ pc' = "find"
  /\ ReplaceTags(<<[key |-> "default", value |-> "v"]>>)
  /\ UNCHANGED <<kind, stored, desired, latest, called, returned>>

\* The response of a call is merged into a copy of desired.
MergedIntoCopy ==
  LET c == DeepCopy(heap, desired, Type) IN
  heap' = MergeResponse(c.heap, c.val) /\ latest' = c.val /\ called' = Nil

\* A failed call is reported on the object at ko.
FailedOn(ko) == called' \in C!Errors /\ latest' = ko /\ UNCHANGED heap

\* sdk.requiredFieldsMissingFromReadOneInput: no ARN is on record.
requiredFieldsMissing ==
  LET metadata == heap[desired].status.ackResourceMetadata IN
  IF metadata = Nil THEN TRUE ELSE heap[metadata].arn = Nil

\* sdk.sdkFind
sdkFind ==
  /\ pc = "find"
  /\ \/ ~requiredFieldsMissing /\ MergedIntoCopy /\ pc' = "mirrorTags"
     \/ /\ FailedOn(desired) /\ pc' = "reportRead"
        /\ requiredFieldsMissing => called' = "NotFound"
  /\ UNCHANGED <<kind, stored, desired, returned>>

mirrorAWSTags ==
  /\ pc = "mirrorTags" /\ pc' = "reportRead"
  /\ ReplaceTags(<<[key |-> "default", value |-> "v"], [key |-> "aws:", value |-> "v"]>>)
  /\ UNCHANGED <<kind, stored, desired, latest, called, returned>>

\* sdk.sdkCreate
sdkCreate ==
  /\ pc = "create" /\ pc' = "reportChange"
  /\ MergedIntoCopy \/ FailedOn(desired)
  /\ UNCHANGED <<kind, stored, desired, returned>>

\* hooks.customUpdateStateMachine and hooks.customUpdateActivity return the
\* object they are given, the first with its status edited; the update of an
\* alias returns a copy, into which nothing is merged.
Updated ==
  \/ /\ kind = "StateMachine" /\ latest' = desired /\ called' = Nil
     /\ heap' = setStatusDefaults(SetStatus(heap, desired, "stateMachineVersionARN", Nil), desired)
  \/ kind = "Activity" /\ latest' = desired /\ called' = Nil /\ UNCHANGED heap
  \/ LET c == DeepCopy(heap, desired, Type) IN
     /\ kind = "StateMachineAlias" /\ latest' = c.val /\ called' = Nil
     /\ heap' = setStatusDefaults(c.heap, c.val)

sdkUpdate ==
  /\ pc = "update" /\ pc' = "reportChange"
  /\ Updated \/ FailedOn(latest)
  /\ UNCHANGED <<kind, stored, desired, returned>>

\* manager.onError and manager.onSuccess, which end every call of the manager:
\* the object is copied unless it is left without any condition.
Report ==
  LET r == updateConditions(heap, latest, called)
      updated == r.heap[r.heap[r.val].status.conditions] # <<>>
      isTerminal == \E p \in ConditionsOf(r.heap, r.val, "ACK.Terminal") : r.heap[p].status = "True" IN
  /\ IF updated THEN heap' = r.heap /\ latest' = r.val ELSE UNCHANGED <<heap, latest>>
  /\ returned' = IF called # Nil /\ isTerminal THEN "Terminal" ELSE called
  /\ UNCHANGED <<kind, stored, desired, called>>

\* The runtime creates what it is told is not there, and may update the rest.
ReportRead ==
  /\ pc = "reportRead" /\ Report
  /\ pc' \in CASE returned' = "NotFound" -> {"create"}
               [] returned' = Nil -> {"update", "sync"}
               [] OTHER -> {"sync"}

ReportChange == pc = "reportChange" /\ Report /\ pc' = "sync"

\* ackcondition.SetSynced (runtime library), in place.
SetSynced ==
  /\ pc = "sync" /\ pc' = "patch"
  /\ heap' = SetCondition(setStatusDefaults(heap, latest), latest, "ACK.ResourceSynced",
                          IF called = Nil THEN "True" ELSE "False", Nil)
  /\ UNCHANGED <<kind, stored, desired, latest, called, returned>>

\* The runtime stores the status of the last object, and forgets the pass.
PatchStatus ==
  /\ pc = "patch" /\ pc' = "idle"
  /\ stored' = [stored EXCEPT !.status = At(heap, latest).status]
  /\ heap' = Manager /\ desired' = Nil /\ latest' = Nil
  /\ UNCHANGED <<kind, called, returned>>

Next ==
  \/ Begin \/ ResolveReferences \/ EnsureTags \/ sdkFind \/ mirrorAWSTags
  \/ sdkCreate \/ sdkUpdate \/ ReportRead \/ ReportChange \/ SetSynced \/ PatchStatus

Spec == Init /\ [][Next]_vars

-----------------------------------------------------------------------------
(* Properties.                                                             *)

\* A write stays in the object it is meant for, whatever the objects were
\* copied from (DeepCopy in sdk.go 91, 220 and 404): the object of the runtime
\* is changed by the operations that edit it in place and by nothing else, one
\* that was returned by the runtime alone, and nothing changes the fields of the
\* resource manager that every status points to (sdk.go 383-389).
InPlace == {"resolve", "ensureTags", "mirrorTags", "update"}

CopiesStayApart ==
  [][/\ desired # Nil /\ desired' = desired /\ pc \notin InPlace /\ latest # desired
          => At(heap', desired) = At(heap, desired)
     /\ desired # Nil /\ desired' = desired /\ pc \in InPlace \ {"update"}
          => At(heap', desired).status = At(heap, desired).status
     /\ latest # Nil /\ latest # desired /\ latest' # Nil /\ pc # "sync"
          => At(heap', latest) = At(heap, latest)
     /\ \A a \in DOMAIN Manager : heap'[a] = Manager[a]]_vars

\* Editing conditions through pointers amounts to the edit of the list that the
\* models of Activity and StateMachineAlias are built on (module Conditions).
Listed(conds) == IF conds = Nil THEN <<>> ELSE conds
Conds(ko) == Listed(At(heap, ko).status.conditions)

ConditionsAsListed ==
  [][(pc = "reportRead" \/ pc = "reportChange")
       => Conds(latest)' = C!updateConditions(Conds(latest), called)]_vars

\* Whatever was in the status before, the one in the cluster shows the outcome
\* of the last call of the last pass: the error under the condition of its kind,
\* and no error after a success (sdk.go 423-465).
StatusShowsLastOutcome ==
  pc = "idle" /\ stored.status.conditions # Nil =>
    LET conds == stored.status.conditions IN
    IF called = Nil THEN ~C!IsTrue(conds, "ACK.Terminal") /\ ~C!IsTrue(conds, "ACK.Recoverable")
    ELSE \E i \in DOMAIN conds :
           /\ conds[i].status = "True" /\ conds[i].message = called
           /\ conds[i].type = IF called = "TerminalError" THEN "ACK.Terminal"
                                                          ELSE "ACK.Recoverable"

\* The runtime retries what is not terminal: an error is returned as terminal
\* only if it is, however the resource failed before.  In particular NotFound
\* reaches the runtime, which creates the resource on it (manager.go 390-405).
OnlyTerminalErrorsStopRetries ==
  pc = "idle" => (returned = "Terminal" <=> called = "TerminalError")

\* Conditions are edited in place: a long life leaves one of each type.
OneConditionPerType ==
  LET conds == Listed(stored.status.conditions) IN
  \A i, j \in DOMAIN conds : conds[i].type = conds[j].type => i = j
=============================================================================
