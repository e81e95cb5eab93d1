--------------------------- MODULE ResolvedInputs ---------------------------
(***************************************************************************)
(* What a pass of a StateMachine takes from elsewhere before it acts: the  *)
(* ARN of its role, from a Role resource that others create, break and     *)
(* replace; the ARN of the state machine, from its own status or from an   *)
(* adoption annotation; the region, from its own status or from the flag   *)
(* the controller was started with, which may be another one after a       *)
(* restart.  The configuration of a state machine is its role here, and    *)
(* deletion takes effect at once: module StateMachine has the rest.        *)
(*                                                                         *)
(* There is one state machine name, so an ARN is the region it names.      *)
(*                                                                         *)
(* Source: pkg/resource/state_machine/{references,resource,descriptor,     *)
(* identifiers,sdk,hooks}.go; the order of the calls is the runtime's.     *)
(***************************************************************************)
EXTENDS References, Naturals, FiniteSets

CONSTANTS
  Inputs,        \* what the user writes: a role spec and an adoption annotation
  Regions,       \* AWS regions
  FirstRegion,   \* the region the controller is first started for
  RoleStates,    \* namespace -> what its Role resource may look like
  OtherRoles,    \* roles other AWS clients give a state machine
  Faults,        \* which faults happen: "error", "lost", "status", "restart"
  MaxActs        \* how many acts of the user and of other AWS clients, changes
                 \* of Role resources and faults there are

\* The adoption annotations: the policy, and the ARN among the fields if any.
Adoption == [arn : Ptr(Regions), orCreate : BOOLEAN]

Errors == ReferenceErrors \cup {"MissingARN", "NotFound", "Failure"}

\* A custom resource; err is what its conditions report of the last pass.
Resource ==
  [phase : {"live", "deleting"}, spec : RoleSpec, adoption : Ptr(Adoption),
   adopted : BOOLEAN, managed : BOOLEAN, arn : Ptr(Regions), region : Ptr(Regions),
   err : Ptr(Errors)]

Machine == [role : RoleARNs, by : {"controller", "other"}]

ASSUME InputConstants ==
  /\ Inputs \subseteq [spec : RoleSpec, adoption : Ptr(Adoption)]
  /\ RoleStates \in [Namespaces -> SUBSET Ptr(Role)]
  /\ OtherRoles \subseteq RoleARNs /\ FirstRegion \in Regions
  /\ Nil \notin Regions \cup Errors \cup Adoption \cup Resource \cup Machine
  /\ Faults \subseteq {"error", "lost", "status", "restart"}
  /\ MaxActs \in Nat

VARIABLES
  cr,         \* the custom resource in the API server, or Nil
  roles,      \* namespace -> its Role resource, or Nil
  machines,   \* region -> the state machine in AWS, or Nil
  awsRegion,  \* the flag --aws-region
  crossNamespace,   \* the flag --enable-cross-namespace
  pc,         \* the next call of the reconcile pass
  base,       \* the custom resource as the pass took it from the API server
  desired,    \* the pass's copy of it
  latest,     \* what the pass read, and finally what it returns
  cut,        \* ghost: an answer was lost or a pass was cut short
  replaced,   \* ghost: the resource of a pass was replaced by another of its name
  acts        \* how much of the bound is used

flags == <<awsRegion, crossNamespace>>
pass == <<pc, base, desired, latest>>
ghosts == <<cut, replaced, acts>>
vars == <<cr, roles, machines, awsRegion, crossNamespace, pc, base, desired, latest,
          cut, replaced, acts>>

\* The Role resources may be there before.
Init ==
  /\ cr = Nil
  /\ roles \in [Namespaces -> Ptr(Role)] /\ \A n \in Namespaces : roles[n] \in RoleStates[n]
  /\ machines = [r \in Regions |-> Nil]
  /\ awsRegion = FirstRegion /\ crossNamespace \in BOOLEAN
  /\ pc = "idle" /\ base = Nil /\ desired = Nil /\ latest = Nil
  /\ cut = FALSE /\ replaced = FALSE /\ acts = 0

-----------------------------------------------------------------------------
(* The identity of a resource.                                             *)

\* resourceIdentifiers.Region: the region on record decides which resource
\* manager a pass gets, and the flag only when there is none.
Region(r) == Deref(r.region, awsRegion)

\* Variant: the region is not recorded.
NoStatusDefaults(r, region) == r

\* sdk.setStatusDefaults, of the resource manager for a region.
setStatusDefaults(r, region) == [r EXCEPT !.region = Deref(@, region)]

\* resource.SetIdentifiers
SetIdentifiers(r, arn) == [r EXCEPT !.arn = arn]

\* Variant: the field is accepted and not used.
AnnotationIgnored(r) == [r EXCEPT !.err = IF r.adoption.arn = Nil THEN "MissingARN" ELSE Nil]

\* resource.PopulateResourceFromAnnotation
PopulateResourceFromAnnotation(r) ==
  IF r.adoption.arn = Nil THEN [r EXCEPT !.err = "MissingARN"]
  ELSE [r EXCEPT !.arn = r.adoption.arn, !.err = Nil]

\* Variant: the annotation is not set.
NotMarked(r) == r

\* descriptor.MarkAdopted
MarkAdopted(r) == [r EXCEPT !.adopted = TRUE]

\* Adoption concerns a resource that is not managed yet (runtime library).
NeedsAdoption(r) == r.adoption # Nil /\ ~r.managed

Unmanaged(r) ==
  IF r = Nil THEN Nil
  ELSE IF r.phase = "deleting" THEN Nil ELSE [r EXCEPT !.managed = FALSE]

-----------------------------------------------------------------------------
(* How a pass ends (runtime library).                                      *)

Forget == pc' = "idle" /\ base' = Nil /\ desired' = Nil /\ latest' = Nil

Return(r, err) ==
  pc' = "persist" /\ latest' = [r EXCEPT !.err = err] /\ base' = Nil /\ desired' = Nil

\* An error of a resource manager: updateConditions also sets the defaults of
\* the status.
Here == Region(base)
Failed(r) == Return(setStatusDefaults(r, Here), "Failure")

-----------------------------------------------------------------------------
(* The reconcile pass.                                                     *)

Reconcile ==
  /\ pc = "idle" /\ cr # Nil
  /\ base' = cr /\ desired' = cr /\ pc' = "resolve"
  /\ UNCHANGED <<cr, roles, machines, flags, latest, ghosts>>

\* Variant: a resource that is being deleted needs its role, too.
ResolveAlways ==
  LET r == ResolveReferences(crossNamespace, desired.spec, roles) IN
  /\ pc = "resolve"
  /\ IF r.err # Nil THEN Return(desired, r.err)
     ELSE desired' = [desired EXCEPT !.spec = r.spec] /\ pc' = "read" /\ UNCHANGED <<base, latest>>
  /\ UNCHANGED <<cr, roles, machines, flags, ghosts>>

\* manager.ResolveReferences, then the adoption annotation.  An error ends the
\* pass, unless the resource is being deleted: then it is ignored.
Resolve ==
  LET r == ResolveReferences(crossNamespace, desired.spec, roles)
      d == [desired EXCEPT !.spec = r.spec]
      p == IF NeedsAdoption(d) THEN PopulateResourceFromAnnotation(d) ELSE d
      Continue(x) == desired' = x /\ pc' = "read" /\ UNCHANGED <<base, latest>> IN
  /\ pc = "resolve"
  /\ IF desired.phase = "deleting" THEN Continue(d)
     ELSE IF r.err # Nil THEN Return(d, r.err)
     ELSE IF NeedsAdoption(d) /\ p.err # Nil THEN Return(d, p.err)
     ELSE Continue(p)
  /\ UNCHANGED <<cr, roles, machines, flags, ghosts>>

\* DescribeStateMachine only knows the ARNs of its own region.
Found == desired.arn = Here /\ machines[Here] # Nil

\* sdk.sdkFind, the comparison, and what the runtime makes of NotFound: it does
\* not create what it was told to adopt, or what it adopted once.
sdkFind ==
  LET m     == machines[Here]
      found == setStatusDefaults([desired EXCEPT !.spec.roleARN = m.role], Here) IN
  /\ pc = "read"
  /\ IF Found
       THEN IF desired.phase = "deleting" \/ NeedsAdoption(desired) \/ desired.spec.roleARN # m.role
              THEN /\ latest' = found /\ UNCHANGED <<base, desired>>
                   /\ pc' = IF desired.phase = "deleting" THEN "delete"
                            ELSE IF NeedsAdoption(desired) THEN "adopt" ELSE "update"
              ELSE Return(found, Nil)
     ELSE IF desired.phase = "live"
             /\ (desired.adopted \/ (NeedsAdoption(desired) /\ ~desired.adoption.orCreate))
       THEN Return(base, "NotFound")
     ELSE /\ pc' = IF desired.phase = "deleting" THEN "unmanage"
                   ELSE IF desired.managed THEN "create" ELSE "manage"
          /\ UNCHANGED <<base, desired, latest>>
  /\ UNCHANGED <<cr, roles, machines, flags, ghosts>>

\* descriptor.MarkManaged and its patch.
MarkManaged ==
  /\ pc = "manage"
  /\ IF cr = Nil THEN cr' = cr /\ Forget
     ELSE /\ cr' = [cr EXCEPT !.managed = TRUE]
          /\ desired' = [desired EXCEPT !.managed = TRUE]
          /\ pc' = "create" /\ UNCHANGED <<base, latest>>
  /\ UNCHANGED <<roles, machines, flags, ghosts>>

\* The end of an adoption: MarkManaged and MarkAdopted, patched together.
Adopt ==
  /\ pc = "adopt"
  /\ IF cr = Nil THEN cr' = cr /\ Forget
     ELSE cr' = MarkAdopted([cr EXCEPT !.managed = TRUE]) /\ Return(latest, Nil)
  /\ UNCHANGED <<roles, machines, flags, ghosts>>

\* CreateStateMachine requires a role, and is idempotent for an equal request.
Creatable ==
  /\ desired.spec.roleARN # Nil
  /\ machines[Here] # Nil => machines[Here].role = desired.spec.roleARN
CreateEffect ==
  machines' = IF machines[Here] # Nil THEN machines
              ELSE [machines EXCEPT ![Here] = [role |-> desired.spec.roleARN, by |-> "controller"]]

\* The runtime may take the finalizer back after a failed create.
CreateFailed == Failed(desired) /\ cr' \in {cr, Unmanaged(cr)}

\* A successful create or update: the spec is written back before the status.
Changed(r) ==
  pc' = "writeSpec" /\ latest' = [r EXCEPT !.err = Nil] /\ desired' = Nil /\ UNCHANGED base

\* sdk.sdkCreate
sdkCreate ==
  /\ pc = "create"
  /\ IF Creatable
       THEN /\ CreateEffect /\ UNCHANGED cr
            /\ Changed(setStatusDefaults(SetIdentifiers(desired, Here), Here))
       ELSE CreateFailed /\ UNCHANGED machines
  /\ UNCHANGED <<roles, flags, ghosts>>

\* Variant: an unset role is sent.
NilRoleSent ==
  machines' = [machines EXCEPT ![Here].role = desired.spec.roleARN]

\* Variant: the role is missing from the payload.
RoleForgotten == machines' = machines

\* hooks.newUpdateRequestPayload omits an unset role, and UpdateStateMachine
\* leaves the role alone when the request has none.
UpdateEffect ==
  machines' = [machines EXCEPT ![Here].role = Deref(desired.spec.roleARN, @)]

\* hooks.customUpdateStateMachine returns desired.
customUpdateStateMachine ==
  /\ pc = "update"
  /\ IF machines[Here] = Nil THEN Failed(latest) /\ UNCHANGED machines
     ELSE UpdateEffect /\ Changed(setStatusDefaults(desired, Here))
  /\ UNCHANGED <<cr, roles, flags, ghosts>>

\* The runtime writes back what the manager changed in the spec: the difference
\* between the cleared specs of what it had and of what it got.  With both of
\* them cleared it does not matter that ResolveReferences resolved in place.
Merged(stored, from, to) ==
  [f \in DOMAIN stored |-> IF from[f] = to[f] THEN stored[f] ELSE to[f]]

WriteSpec ==
  /\ pc = "writeSpec"
  /\ IF cr = Nil THEN cr' = cr /\ Forget
     ELSE /\ cr' = [cr EXCEPT !.spec = Merged(@, ClearResolvedReferences(base.spec),
                                                 ClearResolvedReferences(latest.spec))]
          /\ Return(latest, Nil)
  /\ UNCHANGED <<roles, machines, flags, ghosts>>

\* sdk.sdkDelete, and descriptor.MarkUnmanaged.
DeleteEffect == machines' = [machines EXCEPT ![Here] = Nil]

sdkDelete ==
  /\ pc = "delete"
  /\ DeleteEffect
  /\ pc' = "unmanage"
  /\ UNCHANGED <<cr, roles, flags, base, desired, latest, ghosts>>

MarkUnmanaged ==
  /\ pc = "unmanage"
  /\ cr' = Unmanaged(cr) /\ Forget
  /\ UNCHANGED <<roles, machines, flags, ghosts>>

\* resource.SetStatus and the patch of the status.
Persist ==
  /\ pc = "persist"
  /\ cr' = IF cr = Nil THEN Nil
           ELSE [cr EXCEPT !.arn = latest.arn, !.region = latest.region, !.err = latest.err]
  /\ Forget
  /\ UNCHANGED <<roles, machines, flags, ghosts>>

-----------------------------------------------------------------------------
Act == acts < MaxActs /\ acts' = acts + 1

(* The user.                                                               *)

\* To act on a resource that is not there is to make one.
UserActs ==
  /\ Act /\ replaced' = (replaced \/ (cr = Nil /\ pc # "idle"))
  /\ UNCHANGED cut

NewResource(spec, adoption) ==
  [phase |-> "live", spec |-> spec, adoption |-> adoption, adopted |-> FALSE,
   managed |-> FALSE, arn |-> Nil, region |-> Nil, err |-> Nil]

CreateCR(i) ==
  /\ cr = Nil /\ UserActs
  /\ cr' = NewResource(i.spec, i.adoption)
  /\ UNCHANGED <<roles, machines, flags, pass>>

\* An AdoptedResource: the runtime reads the state machine by its identifiers
\* and makes a custom resource of it, with finalizer, annotation and status.
AdoptResource ==
  LET m == machines[awsRegion]
      r == NewResource([roleARN |-> m.role, roleRef |-> Nil], Nil) IN
  /\ cr = Nil /\ m # Nil /\ UserActs
  /\ cr' = MarkAdopted(setStatusDefaults(
             SetIdentifiers([r EXCEPT !.managed = TRUE], awsRegion), awsRegion))
  /\ UNCHANGED <<roles, machines, flags, pass>>

\* The annotation belongs to the making of a resource and is left alone.
EditCR(i) ==
  /\ cr # Nil /\ UserActs
  /\ cr.phase = "live" /\ cr.spec # i.spec
  /\ cr' = [cr EXCEPT !.spec = i.spec]
  /\ UNCHANGED <<roles, machines, flags, pass>>

DeleteCR ==
  /\ cr # Nil /\ UserActs
  /\ cr.phase = "live"
  /\ cr' = IF cr.managed THEN [cr EXCEPT !.phase = "deleting"] ELSE Nil
  /\ UNCHANGED <<roles, machines, flags, pass>>

-----------------------------------------------------------------------------
(* Role resources and other AWS clients.                                   *)

Changes == Act /\ UNCHANGED <<cut, replaced>>

RoleChanges(n, role) ==
  /\ roles[n] # role /\ Changes
  /\ roles' = [roles EXCEPT ![n] = role]
  /\ UNCHANGED <<cr, machines, flags, pass>>

\* Another client creates a state machine or gives it another role ...
OtherClientPuts(r, role) ==
  /\ Changes
  /\ IF machines[r] = Nil
       THEN machines' = [machines EXCEPT ![r] = [role |-> role, by |-> "other"]]
       ELSE machines[r].role # role /\ machines' = [machines EXCEPT ![r].role = role]
  /\ UNCHANGED <<cr, roles, flags, pass>>

\* ... or deletes it.
OtherClientDeletes(r) ==
  /\ machines[r] # Nil /\ Changes
  /\ machines' = [machines EXCEPT ![r] = Nil]
  /\ UNCHANGED <<cr, roles, flags, pass>>

-----------------------------------------------------------------------------
(* Faults.                                                                 *)

Fails(kind, cuts) ==
  /\ kind \in Faults /\ Act /\ UNCHANGED replaced
  /\ cut' = (cut \/ cuts)

\* A call fails and has no effect.  A read returns its input, with the ARN of
\* the annotation in it; a failed patch of the finalizer ends the pass.
ApiError ==
  /\ Fails("error", FALSE)
  /\ \/ /\ pc = "resolve" /\ UNCHANGED cr
        /\ IF desired.phase = "deleting" THEN pc' = "read" /\ UNCHANGED <<base, desired, latest>>
                                         ELSE Return(desired, "Failure")
     \/ pc = "read" /\ Failed(desired) /\ UNCHANGED cr
     \/ pc \in {"update", "delete"} /\ Failed(latest) /\ UNCHANGED cr
     \/ pc = "writeSpec" /\ Return(latest, "Failure") /\ UNCHANGED cr
     \/ pc = "create" /\ CreateFailed
     \/ pc \in {"manage", "adopt", "unmanage"} /\ Forget /\ UNCHANGED cr
  /\ UNCHANGED <<roles, machines, flags>>

\* A call takes effect and its answer is lost.
LostResponse ==
  /\ Fails("lost", TRUE)
  /\ \/ pc = "create" /\ Creatable /\ CreateEffect /\ CreateFailed
     \/ /\ pc = "update" /\ machines[Here] # Nil /\ UpdateEffect
        /\ Failed(latest) /\ UNCHANGED cr
     \/ pc = "delete" /\ DeleteEffect /\ Failed(latest) /\ UNCHANGED cr
  /\ UNCHANGED <<roles, flags>>

\* The patch of the status fails (runtime library): what the pass returned is
\* lost, although its calls have had their effect.
StatusPatchFails ==
  /\ Fails("status", TRUE)
  /\ pc = "persist" /\ Forget
  /\ UNCHANGED <<cr, roles, machines, flags>>

\* The controller stops and is started again, maybe for another region.
Restart(r) ==
  /\ Fails("restart", pc # "idle")
  /\ awsRegion' = r /\ Forget
  /\ UNCHANGED <<cr, roles, machines, crossNamespace>>

-----------------------------------------------------------------------------
Controller ==
  \/ Reconcile \/ Resolve \/ sdkFind \/ MarkManaged \/ Adopt \/ sdkCreate
  \/ customUpdateStateMachine \/ WriteSpec \/ sdkDelete \/ MarkUnmanaged \/ Persist

User == (\E i \in Inputs : CreateCR(i) \/ EditCR(i)) \/ AdoptResource \/ DeleteCR

Others ==
  \/ \E n \in Namespaces : \E role \in RoleStates[n] : RoleChanges(n, role)
  \/ \E r \in Regions : OtherClientDeletes(r) \/ \E role \in OtherRoles : OtherClientPuts(r, role)

Next ==
  \/ Controller \/ User \/ Others
  \/ ApiError \/ LostResponse \/ StatusPatchFails \/ \E r \in Regions : Restart(r)

\* As in StateMachine: passes are started for ever and make their next call.
Fairness == WF_vars(Controller)

Spec == Init /\ [][Next]_vars
FairSpec == Spec /\ Fairness

-----------------------------------------------------------------------------
(* Properties.                                                             *)

Live == IF cr = Nil THEN FALSE ELSE cr.phase = "live"

\* The type of every variable; a pass has the copies its next call needs.
TypeOK ==
  /\ cr \in Ptr(Resource) /\ roles \in [Namespaces -> Ptr(Role)]
  /\ machines \in [Regions -> Ptr(Machine)]
  /\ awsRegion \in Regions /\ crossNamespace \in BOOLEAN
  /\ pc \in {"idle", "resolve", "read", "manage", "adopt", "create", "update", "delete",
             "unmanage", "writeSpec", "persist"}
  /\ base \in Ptr(Resource) /\ desired \in Ptr(Resource) /\ latest \in Ptr(Resource)
  /\ cut \in BOOLEAN /\ replaced \in BOOLEAN /\ acts \in Nat
  /\ pc \notin {"idle", "writeSpec", "persist"} => desired # Nil
  /\ pc \notin {"idle", "persist"} => base # Nil
  /\ pc \in {"adopt", "update", "delete", "writeSpec", "persist"} => latest # Nil

\* The ARN a reference was resolved to is never written to the cluster
\* (references.go 38-50), where the next pass would refuse it next to the
\* reference (references.go 81-83): both are there only if the user wrote both.
StoredSpecIsTheUsers ==
  cr # Nil => \/ cr.spec \in {i.spec : i \in Inputs}
              \/ cr.spec.roleRef = Nil

\* A role reaches AWS through this controller only if the user named its ARN, or
\* if a Role resource the spec may refer to was synced and not terminal with it
\* (references.go 124-176): what a broken Role resource shows, or one in a
\* namespace that is off limits, is never pushed, also when the Role breaks or
\* is replaced while a pass is under way.
UsableARNs(n) ==
  {role.arn : role \in {x \in RoleStates[n] \ {Nil} : x.synced /\ ~x.terminal}}

UsableRoles ==
  OtherRoles \cup {i.spec.roleARN : i \in Inputs}
    \cup UNION {UsableARNs(n) : n \in {x \in Namespaces : CrossNamespaceAllowed(crossNamespace, x)}}

OnlyUsableRoles ==
  \A r \in Regions : machines[r] # Nil => machines[r].role \in UsableRoles

\* "The next reconciliation finds the resource instead of creating a second one"
\* (sdk.go 244-245), also after a restart with another default region: as long
\* as every pass gets to write its status, the state machines this controller
\* made for a custom resource are never two.
NeverTwoMachines ==
  ~cut => \A r, s \in Regions :
    (machines[r] # Nil /\ machines[s] # Nil /\ r # s) =>
      "other" \in {machines[r].by, machines[s].by}

\* What was to be adopted, and not to be created, is never made by the
\* controller, also not when it is deleted after its adoption
\* (descriptor.go 139-140).  It takes a resource that was there for the whole
\* pass: the patch of MarkManaged goes by name, and if the user puts another
\* resource in the place of the one that the pass took, then that one is
\* managed without having been adopted.
AdoptNeverCreates ==
  [][\A r \in Regions :
       (~replaced /\ machines[r] = Nil /\ machines'[r] # Nil /\ machines'[r].by = "controller") =>
         base.adoption = Nil \/ base.adoption.orCreate]_vars

\* The custom resource as ManagedResource sees it, and whether a state machine
\* that the controller made is in any region.
ObjectState ==
  IF cr = Nil THEN "none"
  ELSE IF cr.phase = "deleting" THEN "deleting"
  ELSE IF cr.managed THEN "managed" ELSE "unmanaged"

Running == ~cut /\ \E r \in Regions : machines[r] # Nil /\ machines[r].by = "controller"

Managed == INSTANCE ManagedResource
             WITH Owners <- {"cr"}, object <- [o \in {"cr"} |-> ObjectState],
                  running <- Running

\* A state machine the controller made keeps its custom resource, in whatever
\* region it is by now and whatever became of its Role (references.go 38-50),
\* as long as no answer is lost and no pass is cut short.
InputsKeepFinalizerPromise == Managed!Spec

\* Once all is quiet a live resource shows why its reference is not resolved,
\* and one without an error stands for the state machine on record, which runs
\* as the resolved role, however often the Role was replaced.  An error may stay
\* with a resource that has an adoption to its name, no role or no ARN, or that
\* took the place of another one under a pass and was given its status.
InputsSettle ==
  <>[](Live =>
         LET r == ResolveReferences(crossNamespace, cr.spec, roles) IN
         IF r.err # Nil THEN cr.err = r.err
         ELSE IF cr.err # Nil
           THEN cr.adoption # Nil \/ cr.adopted \/ cr.arn = Nil \/ r.spec.roleARN = Nil \/ replaced
         ELSE /\ cr.arn # Nil /\ cr.region = cr.arn /\ machines[cr.arn] # Nil
              /\ r.spec.roleARN # Nil => machines[cr.arn].role = r.spec.roleARN)

\* A custom resource that asks to adopt a state machine which is there, in the
\* region its passes work in, gets to manage it, whatever failed before.
AdoptionCompletes ==
  <>[](Live /\ NeedsAdoption(cr) =>
         \/ ResolveReferences(crossNamespace, cr.spec, roles).err # Nil
         \/ cr.adoption.arn # Region(cr) \/ machines[Region(cr)] = Nil)

\* A custom resource whose deletion was requested goes away, also when the Role
\* it refers to went first.
DeletionNeedsNoRole == (cr # Nil /\ cr.phase = "deleting") ~> cr = Nil
=============================================================================
