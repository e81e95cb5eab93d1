------------------------ MODULE ResolvedInputsProofs ------------------------
(***************************************************************************)
(* Proofs about ResolvedInputs, for any number of regions, namespaces,     *)
(* roles and inputs, and for any number of acts and faults.                *)
(***************************************************************************)
EXTENDS ResolvedInputs, TLAPS

-----------------------------------------------------------------------------
(* The inductive invariants.                                               *)

InPass == pc \notin {"idle", "writeSpec", "persist"}

RolesListed == \A n \in Namespaces : roles[n] \in RoleStates[n]

\* What a pass changes in its copy of the spec is what clearing removes.
CopiesClear ==
  /\ InPass => ClearResolvedReferences(desired.spec) = ClearResolvedReferences(base.spec)
  /\ pc = "writeSpec" => ClearResolvedReferences(latest.spec) = ClearResolvedReferences(base.spec)

\* A copy of the resource names a role that may be used, or none.
Names(r) == r # Nil => r.spec.roleARN \in UsableRoles \cup {Nil}
CopiesName == Names(base) /\ Names(desired) /\ Names(latest)
RolesNamed == RolesListed /\ Names(cr) /\ CopiesName /\ OnlyUsableRoles

\* The controller's state machine of a region is the one its resource has on
\* record, and the pass that is under way knows it.
Made(r) == machines[r] # Nil /\ machines[r].by = "controller"
At(x, r) == x.arn = r /\ x.region = r
OnRecord(r) ==
  /\ cr # Nil /\ cr.managed
  /\ pc \notin {"manage", "adopt", "create", "unmanage"}
  /\ pc = "idle" => At(cr, r)
  /\ pc \in {"resolve", "read", "update", "delete"} =>
       At(desired, r) /\ desired.managed
  /\ pc \in {"update", "delete", "writeSpec", "persist"} => At(latest, r)
PassManages ==
  /\ InPass => desired.region = base.region
  /\ pc = "create" => cr # Nil /\ cr.managed
  /\ pc \in {"resolve", "read"} /\ desired.managed => cr # Nil /\ cr.managed
Recorded == ~cut => \A r \in Regions : Made(r) => OnRecord(r)

\* A resource that is to be adopted and not created is managed once adopted.
AdoptOnly(r) == r.adoption # Nil /\ ~r.adoption.orCreate
Kept(r) == AdoptOnly(r) => (r.managed => r.adopted)
AdoptionKept ==
  ~replaced =>
    /\ cr # Nil => Kept(cr)
    /\ pc \in {"resolve", "read"} => Kept(desired)
    /\ InPass => desired.adoption = base.adoption
    /\ (InPass /\ cr # Nil) => cr.adoption = base.adoption
    /\ pc \in {"manage", "create"} => ~AdoptOnly(base)

-----------------------------------------------------------------------------
(* The operators.                                                          *)

\* The ARN a reference is resolved to is that of a Role resource in a namespace
\* that is allowed, synced and not terminal.
Usable(e, rs, n) ==
  /\ rs[n] \in Role /\ rs[n].synced /\ ~rs[n].terminal
  /\ CrossNamespaceAllowed(e, n)

LEMMA ResolveCases ==
  ASSUME NEW e \in BOOLEAN, NEW s \in RoleSpec, NEW rs \in [Namespaces -> Ptr(Role)]
  PROVE  /\ ResolveReferences(e, s, rs).err \in Ptr(ReferenceErrors)
         /\ \/ ResolveReferences(e, s, rs).spec = s
            \/ \E n \in Namespaces :
                 /\ s.roleRef # Nil /\ Usable(e, rs, n)
                 /\ ResolveReferences(e, s, rs).spec = [s EXCEPT !.roleARN = rs[n].arn]
<1> DEFINE r == resolveReferenceForRoleARN(e, s, rs)
           from == s.roleRef.from
           n == Deref(from.namespace, OwnNamespace)
           state == getReferencedResourceState_Role(rs[n])
           err == IF ~from.named THEN "EmptyReference"
                  ELSE IF ~CrossNamespaceAllowed(e, from.namespace) THEN "CrossNamespace"
                  ELSE state
<1>1. validateReferenceFields(s) \in Ptr(ReferenceErrors)
  BY DEF validateReferenceFields, ReferenceErrors, Ptr
<1>2. state \in Ptr(ReferenceErrors)
  BY DEF getReferencedResourceState_Role, ReferenceErrors, Ptr
<1>3. err \in Ptr(ReferenceErrors)
  BY <1>2 DEF ReferenceErrors, Ptr
<1>4. err = Nil => state = Nil /\ CrossNamespaceAllowed(e, from.namespace)
  BY ReferenceConstants DEF ReferenceErrors
<1>5. r = IF s.roleRef = Nil THEN [spec |-> s, err |-> Nil]
          ELSE IF from = Nil THEN [spec |-> s, err |-> Nil]
          ELSE IF err # Nil THEN [spec |-> s, err |-> err]
          ELSE [spec |-> [s EXCEPT !.roleARN = rs[n].arn], err |-> Nil]
  BY DEF resolveReferenceForRoleARN
<1>6. CASE r.spec = s /\ r.err \in Ptr(ReferenceErrors)
  BY <1>1, <1>6 DEF ResolveReferences, Deref
<1>7. CASE /\ s.roleRef # Nil /\ from # Nil /\ err = Nil
           /\ r = [spec |-> [s EXCEPT !.roleARN = rs[n].arn], err |-> Nil]
  <2>1. from \in [named : BOOLEAN, namespace : Ptr(Namespaces)]
    BY <1>7 DEF RoleSpec, RoleRef, Ptr
  <2>2. n \in Namespaces /\ (from.namespace = Nil \/ n = from.namespace)
    BY <2>1, ReferenceConstants DEF Ptr, Deref
  <2>3. CrossNamespaceAllowed(e, n)
    BY <1>4, <1>7, <2>2 DEF CrossNamespaceAllowed, Deref
  <2>4. rs[n] \in Role /\ rs[n].synced /\ ~rs[n].terminal
    BY <1>4, <1>7, <2>2, ReferenceConstants
       DEF getReferencedResourceState_Role, Ptr, ReferenceErrors, Role
  <2>5. /\ ResolveReferences(e, s, rs).spec = [s EXCEPT !.roleARN = rs[n].arn]
        /\ ResolveReferences(e, s, rs).err \in Ptr(ReferenceErrors)
    BY <1>1, <1>7 DEF ResolveReferences, Deref
  <2> HIDE DEF n
  <2>6. QED
    BY <1>7, <2>2, <2>3, <2>4, <2>5 DEF Usable
<1> HIDE DEF r, err, state, n, from
<1>8. QED
  BY <1>3, <1>5, <1>6, <1>7 DEF Ptr

\* Resolving changes in a spec what clearing removes.
LEMMA Resolved ==
  ASSUME NEW e \in BOOLEAN, NEW s \in RoleSpec, NEW rs \in [Namespaces -> Ptr(Role)]
  PROVE  /\ ResolveReferences(e, s, rs).spec \in RoleSpec
         /\ ResolveReferences(e, s, rs).err \in Ptr(ReferenceErrors)
         /\ ClearResolvedReferences(ResolveReferences(e, s, rs).spec) = ClearResolvedReferences(s)
<1> DEFINE r == ResolveReferences(e, s, rs)
<1>1. CASE r.spec = s
  BY <1>1, ResolveCases
<1>2. ASSUME NEW n \in Namespaces, s.roleRef # Nil, Usable(e, rs, n),
             r.spec = [s EXCEPT !.roleARN = rs[n].arn]
      PROVE  r.spec \in RoleSpec /\ ClearResolvedReferences(r.spec) = ClearResolvedReferences(s)
  <2>1. rs[n].arn \in Ptr(RoleARNs)
    BY <1>2 DEF Usable, Role
  <2>2. QED
    BY <1>2, <2>1 DEF ClearResolvedReferences, RoleSpec
<1>3. \/ r.spec = s
      \/ \E n \in Namespaces : s.roleRef # Nil /\ Usable(e, rs, n)
                               /\ r.spec = [s EXCEPT !.roleARN = rs[n].arn]
  BY ResolveCases
<1>4. r.err \in Ptr(ReferenceErrors)
  BY ResolveCases
<1>5. QED
  BY <1>1, <1>2, <1>3, <1>4, Zenon

LEMMA MergedType ==
  ASSUME NEW s \in RoleSpec, NEW t \in RoleSpec, NEW u \in RoleSpec
  PROVE  Merged(s, ClearResolvedReferences(t), ClearResolvedReferences(u)) \in RoleSpec
<1>1. /\ ClearResolvedReferences(t) \in RoleSpec /\ ClearResolvedReferences(u) \in RoleSpec
  BY DEF ClearResolvedReferences, RoleSpec, Ptr
<1>2. \A a, b \in RoleSpec : Merged(s, a, b) \in RoleSpec
  BY DEF Merged, RoleSpec
<1>3. QED
  BY <1>1, <1>2

LEMMA MergedSame ==
  ASSUME NEW s \in RoleSpec, NEW t PROVE Merged(s, t, t) = s
BY DEF Merged, RoleSpec

LEMMA RecordTypes ==
  ASSUME NEW r \in Resource, NEW g \in Regions
  PROVE  /\ setStatusDefaults(r, g) \in Resource
         /\ SetIdentifiers(r, g) \in Resource /\ MarkAdopted(r) \in Resource
         /\ Unmanaged(r) \in Ptr(Resource)
         /\ [r EXCEPT !.managed = TRUE] \in Resource
         /\ [r EXCEPT !.phase = "deleting"] \in Resource
         /\ \A e \in Ptr(Errors) : [r EXCEPT !.err = e] \in Resource
         /\ \A s \in RoleSpec : [r EXCEPT !.spec = s] \in Resource
         /\ \A a \in RoleARNs : [r EXCEPT !.spec.roleARN = a] \in Resource
         /\ \A q \in Resource : [r EXCEPT !.arn = q.arn, !.region = q.region, !.err = q.err] \in Resource
BY ZenonT(60)
   DEF setStatusDefaults, SetIdentifiers, MarkAdopted, Unmanaged, Resource, RoleSpec, Ptr, Deref

LEMMA AnnotationType ==
  ASSUME NEW r \in Resource, r.adoption # Nil
  PROVE  PopulateResourceFromAnnotation(r) \in Resource
BY DEF PopulateResourceFromAnnotation, Resource, Adoption, Errors, Ptr

LEMMA NewTypes ==
  ASSUME NEW s \in RoleSpec, NEW a \in Ptr(Adoption)
  PROVE  NewResource(s, a) \in Resource
BY DEF NewResource, Resource, Ptr

-----------------------------------------------------------------------------
(* Type correctness.                                                       *)

\* What an action leaves to check once the pass is known.
SurroundingsTyped ==
  /\ cr \in Ptr(Resource) /\ roles \in [Namespaces -> Ptr(Role)]
  /\ machines \in [Regions -> Ptr(Machine)]
  /\ awsRegion \in Regions /\ crossNamespace \in BOOLEAN
  /\ cut \in BOOLEAN /\ replaced \in BOOLEAN /\ acts \in Nat

LEMMA ForgetType ==
  ASSUME Forget, SurroundingsTyped' PROVE TypeOK'
BY DEF Forget, TypeOK, SurroundingsTyped, Ptr

LEMMA ReturnType ==
  ASSUME NEW r \in Resource, NEW e \in Ptr(Errors), Return(r, e), SurroundingsTyped'
  PROVE  TypeOK'
<1>1. latest' \in Resource
  BY RecordTypes, InputConstants DEF Return
<1>2. QED
  BY <1>1, InputConstants DEF Return, TypeOK, SurroundingsTyped, Ptr

LEMMA FailedType ==
  ASSUME TypeOK, pc \notin {"idle", "persist"}, NEW r \in Resource, Failed(r), SurroundingsTyped'
  PROVE  TypeOK'
<1>1. Here \in Regions
  BY DEF TypeOK, Here, Region, Deref, Resource, Ptr
<1>2. "Failure" \in Ptr(Errors)
  BY DEF Errors, Ptr
<1>3. QED
  BY <1>1, <1>2, RecordTypes, ReturnType DEF Failed

\* The copies of a pass, by its next call.
LEMMA CopiesTyped ==
  ASSUME TypeOK
  PROVE  /\ InPass => desired \in Resource
         /\ pc \notin {"idle", "persist"} => base \in Resource /\ Here \in Regions
         /\ pc \in {"adopt", "update", "delete", "writeSpec", "persist"} => latest \in Resource
         /\ cr # Nil => cr \in Resource
BY DEF TypeOK, InPass, Here, Region, Deref, Resource, Ptr

LEMMA ChangedType ==
  ASSUME TypeOK, pc \notin {"idle", "persist"}, NEW r \in Resource, Changed(r), SurroundingsTyped'
  PROVE  TypeOK'
<1>1. latest' \in Resource /\ base' \in Resource
  BY RecordTypes, CopiesTyped, InputConstants DEF Changed, Ptr
<1>2. QED
  BY <1>1, InputConstants DEF Changed, TypeOK, SurroundingsTyped, Ptr

LEMMA EffectTypes ==
  ASSUME TypeOK, InPass
  PROVE  /\ (CreateEffect /\ desired.spec.roleARN # Nil) => machines' \in [Regions -> Ptr(Machine)]
         /\ (UpdateEffect /\ machines[Here] # Nil) => machines' \in [Regions -> Ptr(Machine)]
         /\ DeleteEffect => machines' \in [Regions -> Ptr(Machine)]
<1>1. Here \in Regions /\ desired.spec.roleARN \in Ptr(RoleARNs)
  BY CopiesTyped DEF InPass, Resource, RoleSpec
<1>2. machines \in [Regions -> Ptr(Machine)]
  BY DEF TypeOK
<1>3. QED
  BY <1>1, <1>2 DEF CreateEffect, UpdateEffect, DeleteEffect, Machine, Ptr, Deref

LEMMA CreateFailedType ==
  ASSUME TypeOK, pc = "create", CreateFailed
  PROVE  cr' \in Ptr(Resource) /\ Failed(desired) /\ desired \in Resource
<1>1. Unmanaged(cr) \in Ptr(Resource)
  BY CopiesTyped, RecordTypes, InputConstants DEF Unmanaged, Ptr
<1>2. QED
  BY <1>1, CopiesTyped DEF CreateFailed, TypeOK, InPass

LEMMA ControllerType ==
  ASSUME TypeOK, Controller PROVE TypeOK'
<1> USE DEF flags, ghosts
<1>1. /\ cr \in Ptr(Resource) /\ roles \in [Namespaces -> Ptr(Role)] /\ crossNamespace \in BOOLEAN
      /\ SurroundingsTyped
  BY DEF TypeOK, SurroundingsTyped
<1>2. CASE Reconcile
  BY <1>2 DEF Reconcile, TypeOK
<1>3. CASE Resolve
  <2> DEFINE r == ResolveReferences(crossNamespace, desired.spec, roles)
             d == [desired EXCEPT !.spec = r.spec]
             p == IF NeedsAdoption(d) THEN PopulateResourceFromAnnotation(d) ELSE d
  <2>1. pc = "resolve" /\ desired \in Resource /\ base \in Resource
    BY <1>3, CopiesTyped DEF Resolve, InPass
  <2>2. r.spec \in RoleSpec /\ r.err \in Ptr(Errors)
    BY <1>1, <2>1, Resolved DEF Resource, Errors, Ptr
  <2>3. d \in Resource
    BY <2>1, <2>2, RecordTypes, InputConstants
  <2>4. p \in Resource
    BY <2>3, AnnotationType DEF NeedsAdoption
  <2>5. p.err \in Ptr(Errors)
    BY <2>4 DEF Resource
  <2>6. SurroundingsTyped'
    BY <1>1, <1>3 DEF Resolve, SurroundingsTyped
  <2>7. \/ Return(d, r.err) \/ Return(d, p.err)
        \/ pc' = "read" /\ desired' \in Resource /\ UNCHANGED <<base, latest>>
    BY <1>3, <2>3, <2>4 DEF Resolve
  <2>8. CASE pc' = "read" /\ desired' \in Resource /\ UNCHANGED <<base, latest>>
    BY <2>1, <2>6, <2>8, InputConstants DEF TypeOK, SurroundingsTyped, Ptr
  <2> HIDE DEF r, d, p
  <2>9. QED
    BY <2>2, <2>3, <2>5, <2>6, <2>7, <2>8, ReturnType
<1>4. CASE sdkFind
  <2> DEFINE found == setStatusDefaults([desired EXCEPT !.spec.roleARN = machines[Here].role], Here)
  <2>1. pc = "read" /\ desired \in Resource /\ base \in Resource /\ Here \in Regions
    BY <1>4, CopiesTyped DEF sdkFind, InPass
  <2>2. SurroundingsTyped'
    BY <1>1, <1>4 DEF sdkFind, SurroundingsTyped
  <2>3. Nil \in Ptr(Errors) /\ "NotFound" \in Ptr(Errors)
    BY DEF Errors, Ptr
  <2>4. CASE Found
    <3>1. machines[Here] \in Machine
      BY <1>1, <2>1, <2>4 DEF Found, SurroundingsTyped, Ptr
    <3>2. found \in Resource
      BY <2>1, <3>1, RecordTypes DEF Machine
    <3>3. \/ Return(found, Nil)
          \/ /\ latest' = found /\ UNCHANGED <<base, desired>>
             /\ pc' \in {"delete", "adopt", "update"}
      BY <1>4, <2>4 DEF sdkFind
    <3>4. CASE latest' = found /\ UNCHANGED <<base, desired>> /\ pc' \in {"delete", "adopt", "update"}
      BY <2>1, <2>2, <3>2, <3>4, InputConstants DEF TypeOK, SurroundingsTyped, Ptr
    <3> HIDE DEF found
    <3>5. QED
      BY <2>2, <2>3, <3>2, <3>3, <3>4, ReturnType
  <2>5. CASE ~Found
    <3>1. \/ Return(base, "NotFound")
          \/ pc' \in {"unmanage", "create", "manage"} /\ UNCHANGED <<base, desired, latest>>
      BY <1>4, <2>5 DEF sdkFind
    <3>2. CASE pc' \in {"unmanage", "create", "manage"} /\ UNCHANGED <<base, desired, latest>>
      BY <2>1, <2>2, <3>2, InputConstants DEF TypeOK, SurroundingsTyped, Ptr
    <3>3. QED
      BY <2>1, <2>2, <2>3, <3>1, <3>2, ReturnType
  <2>6. QED
    BY <2>4, <2>5
<1>5. CASE MarkManaged
  <2>1. cr # Nil => [cr EXCEPT !.managed = TRUE] \in Resource
    BY CopiesTyped, RecordTypes, InputConstants
  <2>2. pc = "manage" => [desired EXCEPT !.managed = TRUE] \in Resource
    BY CopiesTyped, RecordTypes, InputConstants DEF InPass
  <2>3. SurroundingsTyped'
    BY <1>1, <1>5, <2>1 DEF MarkManaged, SurroundingsTyped, Ptr
  <2>4. CASE cr = Nil
    BY <1>5, <2>3, <2>4, ForgetType DEF MarkManaged
  <2>5. CASE cr # Nil
    BY <1>5, <2>2, <2>3, <2>5, InputConstants DEF MarkManaged, TypeOK, SurroundingsTyped, Ptr
  <2>6. QED
    BY <2>4, <2>5
<1>6. CASE Adopt
  <2>1. cr # Nil => MarkAdopted([cr EXCEPT !.managed = TRUE]) \in Resource
    BY CopiesTyped, RecordTypes, InputConstants
  <2>2. SurroundingsTyped'
    BY <1>1, <1>6, <2>1 DEF Adopt, SurroundingsTyped, Ptr
  <2>3. pc = "adopt" /\ latest \in Resource /\ Nil \in Ptr(Errors)
    BY <1>6, CopiesTyped DEF Adopt, Ptr
  <2>4. QED
    BY <1>6, <2>2, <2>3, ForgetType, ReturnType DEF Adopt
<1>7. CASE sdkCreate
  <2>1. pc = "create" /\ desired \in Resource /\ Here \in Regions /\ InPass
    BY <1>7, CopiesTyped DEF sdkCreate, InPass
  <2>2. CASE Creatable
    <3>1. setStatusDefaults(SetIdentifiers(desired, Here), Here) \in Resource
      BY <2>1, RecordTypes
    <3>2. SurroundingsTyped'
      BY <1>1, <1>7, <2>1, <2>2, EffectTypes DEF sdkCreate, Creatable, SurroundingsTyped
    <3>3. QED
      BY <1>7, <2>1, <2>2, <3>1, <3>2, ChangedType DEF sdkCreate
  <2>3. CASE ~Creatable
    <3>1. SurroundingsTyped'
      BY <1>1, <1>7, <2>1, <2>3, CreateFailedType DEF sdkCreate, SurroundingsTyped
    <3>2. QED
      BY <1>7, <2>1, <2>3, <3>1, CreateFailedType, FailedType DEF sdkCreate
  <2>4. QED
    BY <2>2, <2>3
<1>8. CASE customUpdateStateMachine
  <2>1. pc = "update" /\ desired \in Resource /\ latest \in Resource /\ Here \in Regions /\ InPass
    BY <1>8, CopiesTyped DEF customUpdateStateMachine, InPass
  <2>2. SurroundingsTyped'
    BY <1>1, <1>8, <2>1, EffectTypes DEF customUpdateStateMachine, SurroundingsTyped
  <2>3. setStatusDefaults(desired, Here) \in Resource
    BY <2>1, RecordTypes
  <2>4. QED
    BY <1>8, <2>1, <2>2, <2>3, FailedType, ChangedType DEF customUpdateStateMachine
<1>9. CASE WriteSpec
  <2>1. pc = "writeSpec" /\ latest \in Resource /\ base \in Resource /\ Nil \in Ptr(Errors)
    BY <1>9, CopiesTyped DEF WriteSpec, Ptr
  <2> DEFINE m == Merged(cr.spec, ClearResolvedReferences(base.spec),
                                  ClearResolvedReferences(latest.spec))
  <2>2. cr # Nil => m \in RoleSpec
    <3>1. cr # Nil => cr.spec \in RoleSpec
      BY CopiesTyped DEF Resource
    <3>2. base.spec \in RoleSpec /\ latest.spec \in RoleSpec
      BY <2>1 DEF Resource
    <3>3. QED
      BY <3>1, <3>2, MergedType
  <2>3. SurroundingsTyped'
    <3> HIDE DEF m
    <3>1. cr' \in Ptr(Resource)
      <4>1. cr' = IF cr = Nil THEN Nil ELSE [cr EXCEPT !.spec = m]
        BY <1>9 DEF WriteSpec, m
      <4>2. QED
        BY <2>2, <4>1, CopiesTyped, RecordTypes, InputConstants DEF Ptr
    <3>2. QED
      BY <1>1, <1>9, <3>1 DEF WriteSpec, SurroundingsTyped
  <2>4. QED
    BY <1>9, <2>1, <2>3, ForgetType, ReturnType DEF WriteSpec
<1>10. CASE sdkDelete
  <2>1. pc = "delete" /\ InPass
    BY <1>10 DEF sdkDelete, InPass
  <2>2. machines' \in [Regions -> Ptr(Machine)]
    BY <1>10, <2>1, EffectTypes DEF sdkDelete
  <2>3. QED
    BY <1>10, <2>1, <2>2 DEF sdkDelete, TypeOK
<1>11. CASE MarkUnmanaged
  <2>1. Unmanaged(cr) \in Ptr(Resource)
    BY CopiesTyped, RecordTypes, InputConstants DEF Unmanaged, Ptr
  <2>2. SurroundingsTyped'
    BY <1>1, <1>11, <2>1 DEF MarkUnmanaged, SurroundingsTyped
  <2>3. QED
    BY <1>11, <2>2, ForgetType DEF MarkUnmanaged
<1>12. CASE Persist
  <2>1. latest \in Resource
    BY <1>12, CopiesTyped DEF Persist
  <2>2. cr' \in Ptr(Resource)
    BY <1>12, <2>1, CopiesTyped, RecordTypes, InputConstants DEF Persist, Ptr
  <2>3. SurroundingsTyped'
    BY <1>1, <1>12, <2>2 DEF Persist, SurroundingsTyped
  <2>4. QED
    BY <1>12, <2>3, ForgetType DEF Persist
<1>13. QED
  BY <1>2, <1>3, <1>4, <1>5, <1>6, <1>7, <1>8, <1>9, <1>10, <1>11, <1>12 DEF Controller

\* Acts that leave the pass alone.
LEMMA PassKept ==
  ASSUME TypeOK, UNCHANGED pass, SurroundingsTyped' PROVE TypeOK'
BY DEF TypeOK, SurroundingsTyped, pass

LEMMA UserType ==
  ASSUME TypeOK, User PROVE TypeOK'
<1> USE DEF flags
<1>1. SurroundingsTyped
  BY DEF TypeOK, SurroundingsTyped
<1>2. SUFFICES cr' \in Ptr(Resource)
  <2>1. UserActs /\ UNCHANGED <<roles, machines, awsRegion, crossNamespace>> /\ UNCHANGED pass
    BY DEF User, CreateCR, EditCR, AdoptResource, DeleteCR
  <2>2. cut' \in BOOLEAN /\ replaced' \in BOOLEAN /\ acts' \in Nat
    BY <1>1, <2>1 DEF UserActs, Act, SurroundingsTyped
  <2>3. QED
    BY <1>1, <1>2, <2>1, <2>2, PassKept DEF SurroundingsTyped
<1>3. ASSUME NEW i \in Inputs, CreateCR(i) PROVE cr' \in Ptr(Resource)
  BY <1>3, NewTypes, InputConstants DEF CreateCR, Ptr
<1>4. ASSUME NEW i \in Inputs, EditCR(i) PROVE cr' \in Ptr(Resource)
  BY <1>4, RecordTypes, CopiesTyped, InputConstants DEF EditCR, Ptr
<1>5. CASE AdoptResource
  <2> DEFINE s == [roleARN |-> machines[awsRegion].role, roleRef |-> Nil]
             r == NewResource(s, Nil)
  <2>1. awsRegion \in Regions /\ machines[awsRegion] \in Machine
    BY <1>1, <1>5 DEF AdoptResource, SurroundingsTyped, Ptr
  <2>2. s \in RoleSpec
    BY <2>1 DEF Machine, RoleSpec, Ptr
  <2>3. r \in Resource
    BY <2>2, NewTypes DEF Ptr
  <2> HIDE DEF r
  <2>4. SetIdentifiers([r EXCEPT !.managed = TRUE], awsRegion) \in Resource
    BY <2>1, <2>3, RecordTypes
  <2>5. MarkAdopted(setStatusDefaults(SetIdentifiers([r EXCEPT !.managed = TRUE], awsRegion),
                                      awsRegion)) \in Resource
    BY <2>1, <2>4, RecordTypes
  <2>6. QED
    BY <1>5, <2>5 DEF AdoptResource, r, Ptr
<1>6. CASE DeleteCR
  BY <1>6, RecordTypes, CopiesTyped, InputConstants DEF DeleteCR, Ptr
<1>7. QED
  BY <1>3, <1>4, <1>5, <1>6 DEF User

LEMMA OthersType ==
  ASSUME TypeOK, Others PROVE TypeOK'
<1> USE DEF flags
<1>1. SurroundingsTyped
  BY DEF TypeOK, SurroundingsTyped
<1>2. SUFFICES /\ Changes /\ UNCHANGED <<cr, awsRegion, crossNamespace>> /\ UNCHANGED pass
               /\ roles' \in [Namespaces -> Ptr(Role)] /\ machines' \in [Regions -> Ptr(Machine)]
  BY <1>1, <1>2, PassKept DEF SurroundingsTyped, Changes, Act
<1>3. ASSUME NEW n \in Namespaces, NEW role \in RoleStates[n], RoleChanges(n, role)
      PROVE  /\ Changes /\ UNCHANGED <<cr, awsRegion, crossNamespace>> /\ UNCHANGED pass
             /\ roles' \in [Namespaces -> Ptr(Role)] /\ machines' \in [Regions -> Ptr(Machine)]
  <2>1. role \in Ptr(Role)
    BY InputConstants
  <2>2. QED
    BY <1>1, <1>3, <2>1 DEF RoleChanges, SurroundingsTyped
<1>4. ASSUME NEW r \in Regions, OtherClientDeletes(r)
      PROVE  /\ Changes /\ UNCHANGED <<cr, awsRegion, crossNamespace>> /\ UNCHANGED pass
             /\ roles' \in [Namespaces -> Ptr(Role)] /\ machines' \in [Regions -> Ptr(Machine)]
  BY <1>1, <1>4 DEF OtherClientDeletes, SurroundingsTyped, Ptr
<1>5. ASSUME NEW r \in Regions, NEW role \in OtherRoles, OtherClientPuts(r, role)
      PROVE  /\ Changes /\ UNCHANGED <<cr, awsRegion, crossNamespace>> /\ UNCHANGED pass
             /\ roles' \in [Namespaces -> Ptr(Role)] /\ machines' \in [Regions -> Ptr(Machine)]
  <2>1. role \in RoleARNs
    BY InputConstants
  <2>2. QED
    BY <1>1, <1>5, <2>1 DEF OtherClientPuts, SurroundingsTyped, Machine, Ptr
<1>6. QED
  BY <1>3, <1>4, <1>5 DEF Others

LEMMA FaultType ==
  ASSUME TypeOK, ApiError \/ LostResponse \/ StatusPatchFails \/ \E r \in Regions : Restart(r)
  PROVE  TypeOK'
<1> USE DEF flags
<1>1. SurroundingsTyped
  BY DEF TypeOK, SurroundingsTyped
<1>2. \A k, c : Fails(k, c) /\ c \in BOOLEAN => cut' \in BOOLEAN /\ replaced' \in BOOLEAN /\ acts' \in Nat
  BY <1>1 DEF Fails, Act, SurroundingsTyped
<1>3. "Failure" \in Ptr(Errors)
  BY DEF Errors, Ptr
<1>4. CASE ApiError
  <2>1. SurroundingsTyped'
    <3>1. cr' \in Ptr(Resource)
      BY <1>1, <1>4, CreateFailedType DEF ApiError, SurroundingsTyped
    <3>2. QED
      BY <1>1, <1>2, <1>4, <3>1 DEF ApiError, SurroundingsTyped
  <2>2. CASE pc = "resolve"
    <3>1. desired \in Resource
      BY <2>2, CopiesTyped DEF InPass
    <3>2. CASE desired.phase = "deleting"
      BY <1>4, <2>1, <2>2, <3>2 DEF ApiError, TypeOK, SurroundingsTyped
    <3>3. CASE desired.phase # "deleting"
      BY <1>3, <1>4, <2>1, <2>2, <3>1, <3>3, ReturnType DEF ApiError
    <3>4. QED
      BY <3>2, <3>3
  <2>3. CASE pc = "read"
    BY <1>4, <2>1, <2>3, CopiesTyped, FailedType DEF ApiError, InPass
  <2>4. CASE pc \in {"update", "delete"}
    BY <1>4, <2>1, <2>4, CopiesTyped, FailedType DEF ApiError, InPass
  <2>5. CASE pc = "writeSpec"
    BY <1>3, <1>4, <2>1, <2>5, CopiesTyped, ReturnType DEF ApiError
  <2>6. CASE pc = "create"
    BY <1>4, <2>1, <2>6, CreateFailedType, FailedType DEF ApiError
  <2>7. CASE pc \in {"manage", "adopt", "unmanage"}
    BY <1>4, <2>1, <2>7, ForgetType DEF ApiError
  <2>8. QED
    BY <1>4, <2>2, <2>3, <2>4, <2>5, <2>6, <2>7 DEF ApiError
<1>5. CASE LostResponse
  <2>1. cut' \in BOOLEAN /\ replaced' \in BOOLEAN /\ acts' \in Nat
    BY <1>2, <1>5 DEF LostResponse
  <2>2. CASE pc = "create"
    <3>1. machines' \in [Regions -> Ptr(Machine)]
      BY <1>5, <2>2, EffectTypes DEF LostResponse, Creatable, InPass
    <3>2. SurroundingsTyped'
      BY <1>1, <1>5, <2>1, <2>2, <3>1, CreateFailedType DEF LostResponse, SurroundingsTyped
    <3>3. QED
      BY <1>5, <2>2, <3>2, CreateFailedType, FailedType DEF LostResponse
  <2>3. CASE pc \in {"update", "delete"}
    <3>1. machines' \in [Regions -> Ptr(Machine)]
      BY <1>5, <2>3, EffectTypes DEF LostResponse, InPass
    <3>2. SurroundingsTyped'
      BY <1>1, <1>5, <2>1, <2>3, <3>1 DEF LostResponse, SurroundingsTyped
    <3>3. QED
      BY <1>5, <2>3, <3>2, CopiesTyped, FailedType DEF LostResponse
  <2>4. QED
    BY <1>5, <2>2, <2>3 DEF LostResponse
<1>6. ASSUME NEW r \in Regions, Restart(r) PROVE TypeOK'
  <2>1. SurroundingsTyped'
    BY <1>1, <1>2, <1>6 DEF Restart, SurroundingsTyped
  <2>2. QED
    BY <1>6, <2>1, ForgetType DEF Restart
<1>7. CASE StatusPatchFails
  <2>1. SurroundingsTyped'
    BY <1>1, <1>2, <1>7 DEF StatusPatchFails, SurroundingsTyped
  <2>2. QED
    BY <1>7, <2>1, ForgetType DEF StatusPatchFails
<1>8. QED
  BY <1>4, <1>5, <1>6, <1>7

LEMMA TypeStep ==
  ASSUME TypeOK, [Next]_vars PROVE TypeOK'
<1>1. CASE UNCHANGED vars
  BY <1>1 DEF vars, TypeOK
<1>2. QED
  BY <1>1, ControllerType, UserType, OthersType, FaultType DEF Next

\* The type invariant of ResolvedInputs: a pass always has the copies its next
\* call works on, whatever was resolved, adopted, replaced or lost before.
THEOREM InputsTypeCorrect == Spec => []TypeOK
<1>1. ASSUME Init PROVE TypeOK
  <2>1. /\ cr \in Ptr(Resource) /\ base \in Ptr(Resource)
        /\ desired \in Ptr(Resource) /\ latest \in Ptr(Resource)
    BY <1>1 DEF Init, Ptr
  <2>2. machines \in [Regions -> Ptr(Machine)]
    BY <1>1 DEF Init, Ptr
  <2>3. roles \in [Namespaces -> Ptr(Role)] /\ awsRegion \in Regions /\ crossNamespace \in BOOLEAN
    BY <1>1, InputConstants DEF Init
  <2>4. pc = "idle" /\ cut \in BOOLEAN /\ replaced \in BOOLEAN /\ acts \in Nat
    BY <1>1 DEF Init
  <2>5. QED
    BY <2>1, <2>2, <2>3, <2>4 DEF TypeOK
<1>2. TypeOK /\ [Next]_vars => TypeOK'
  BY TypeStep
<1>3. QED
  BY <1>1, <1>2, PTL DEF Spec

-----------------------------------------------------------------------------
(* The stored spec.                                                        *)

\* How a pass ends, for an invariant about the pass.
LEMMA Ends ==
  /\ Forget => pc' = "idle"
  /\ \A r, e : Return(r, e) => pc' = "persist"
  /\ \A r : Failed(r) => pc' = "persist"
  /\ CreateFailed => pc' = "persist"
BY DEF Forget, Return, Failed, CreateFailed

LEMMA SpecsOf ==
  ASSUME NEW r \in Resource, NEW g
  PROVE  /\ setStatusDefaults(r, g).spec = r.spec /\ SetIdentifiers(r, g).spec = r.spec
         /\ setStatusDefaults(SetIdentifiers(r, g), g).spec = r.spec
         /\ PopulateResourceFromAnnotation(r).spec = r.spec
         /\ MarkAdopted([r EXCEPT !.managed = TRUE]).spec = r.spec
         /\ Unmanaged(r) = Nil \/ Unmanaged(r).spec = r.spec
BY DEF setStatusDefaults, SetIdentifiers, PopulateResourceFromAnnotation, MarkAdopted, Unmanaged, Resource

LEMMA CopiesClearStep ==
  ASSUME TypeOK, CopiesClear, [Next]_vars PROVE CopiesClear'
<1>1. CASE UNCHANGED pass
  BY <1>1 DEF pass, CopiesClear, InPass
<1>2. CASE pc' \in {"idle", "persist"}
  BY <1>2 DEF CopiesClear, InPass
<1>3. CASE Reconcile
  BY <1>3 DEF Reconcile, CopiesClear
<1>4. CASE Resolve
  <2> DEFINE r == ResolveReferences(crossNamespace, desired.spec, roles)
             d == [desired EXCEPT !.spec = r.spec]
             p == IF NeedsAdoption(d) THEN PopulateResourceFromAnnotation(d) ELSE d
  <2>1. pc = "resolve" /\ desired \in Resource /\ InPass
    BY <1>4, CopiesTyped DEF Resolve, InPass
  <2>2. r.spec \in RoleSpec /\ ClearResolvedReferences(r.spec) = ClearResolvedReferences(desired.spec)
    BY <2>1, Resolved DEF TypeOK, Resource
  <2>3. d \in Resource /\ d.spec = r.spec
    BY <2>1, <2>2, RecordTypes, InputConstants DEF Resource
  <2>4. p.spec = r.spec
    BY <2>3, SpecsOf
  <2>5. \/ pc' = "persist"
        \/ pc' = "read" /\ desired' \in {d, p} /\ UNCHANGED <<base, latest>>
    BY <1>4, Ends DEF Resolve
  <2> HIDE DEF d, p, r
  <2>6. QED
    BY <1>2, <2>1, <2>2, <2>3, <2>4, <2>5 DEF CopiesClear, InPass
<1>5. CASE sdkFind
  <2>1. \/ pc' = "persist"
        \/ pc' \notin {"idle", "writeSpec", "persist"} /\ UNCHANGED <<base, desired>>
    BY <1>5, Ends DEF sdkFind
  <2>2. QED
    BY <1>2, <1>5, <2>1 DEF CopiesClear, InPass, sdkFind
<1>6. CASE MarkManaged
  <2>1. pc = "manage" /\ desired \in Resource /\ InPass
    BY <1>6, CopiesTyped DEF MarkManaged, InPass
  <2>2. CASE cr = Nil
    BY <1>2, <1>6, <2>2, Ends DEF MarkManaged
  <2>3. CASE cr # Nil
    <3>1. desired'.spec = desired.spec /\ base' = base /\ pc' = "create"
      BY <1>6, <2>1, <2>3 DEF MarkManaged, Resource
    <3>2. QED
      BY <2>1, <3>1 DEF CopiesClear, InPass
  <2>4. QED
    BY <2>2, <2>3
<1>7. CASE sdkCreate \/ customUpdateStateMachine
  <2>1. desired \in Resource /\ InPass
    BY <1>7, CopiesTyped DEF sdkCreate, customUpdateStateMachine, InPass
  <2>2. \/ pc' = "persist"
        \/ \E r \in Resource : r.spec = desired.spec /\ Changed(r)
    <3>1. CASE sdkCreate
      BY <2>1, <3>1, Ends, SpecsOf, RecordTypes, CopiesTyped DEF sdkCreate
    <3>2. CASE customUpdateStateMachine
      BY <2>1, <3>2, Ends, SpecsOf, RecordTypes, CopiesTyped DEF customUpdateStateMachine
    <3>3. QED
      BY <1>7, <3>1, <3>2
  <2>3. ASSUME NEW r \in Resource, r.spec = desired.spec, Changed(r) PROVE CopiesClear'
    BY <2>1, <2>3 DEF CopiesClear, InPass, Changed, Resource
  <2>4. QED
    BY <1>2, <2>2, <2>3
<1>8. CASE sdkDelete
  BY <1>8 DEF sdkDelete, CopiesClear, InPass
<1>9. CASE Adopt \/ WriteSpec \/ MarkUnmanaged \/ Persist
  BY <1>2, <1>9, Ends DEF Adopt, WriteSpec, MarkUnmanaged, Persist
<1>10. CASE ApiError
  <2>1. \/ pc' \in {"idle", "persist"}
        \/ pc = "resolve" /\ pc' = "read" /\ UNCHANGED <<base, desired, latest>>
    BY <1>10, Ends DEF ApiError
  <2>2. QED
    BY <1>2, <2>1 DEF CopiesClear, InPass
<1>11. CASE LostResponse \/ StatusPatchFails \/ \E r \in Regions : Restart(r)
  BY <1>2, <1>11, Ends DEF LostResponse, StatusPatchFails, Restart
<1>12. CASE User \/ Others
  BY <1>1, <1>12 DEF User, Others, CreateCR, EditCR, AdoptResource, DeleteCR,
                     RoleChanges, OtherClientPuts, OtherClientDeletes
<1>13. CASE UNCHANGED vars
  BY <1>1, <1>13 DEF vars, pass
<1>14. QED
  BY <1>3, <1>4, <1>5, <1>6, <1>7, <1>8, <1>9, <1>10, <1>11, <1>12, <1>13 DEF Next, Controller

\* The controller writes nothing that the user wrote: of the spec it stores what
\* it cleared, and the annotation that asks for the adoption it leaves alone.
LEMMA UsersPartKept ==
  ASSUME TypeOK, CopiesClear, [Next]_vars, ~User
  PROVE  cr' = Nil \/ (cr # Nil /\ cr'.spec = cr.spec /\ cr'.adoption = cr.adoption)
<1>1. cr # Nil => cr \in Resource
  BY CopiesTyped
<1>2. CASE cr' = cr
  BY <1>2
<1>3. CASE cr' = Unmanaged(cr)
  BY <1>1, <1>3 DEF Unmanaged, Resource
<1>4. CASE MarkManaged \/ Adopt \/ Persist
  BY <1>1, <1>2, <1>4 DEF MarkManaged, Adopt, MarkAdopted, Persist, Resource
<1>5. CASE WriteSpec
  <2>1. CASE cr = Nil
    BY <1>5, <2>1 DEF WriteSpec
  <2>2. CASE cr # Nil
    <3>1. cr \in Resource /\ cr.spec \in RoleSpec
      BY <1>1, <2>2 DEF Resource
    <3>2. Merged(cr.spec, ClearResolvedReferences(base.spec), ClearResolvedReferences(latest.spec))
            = cr.spec
      BY <1>5, <3>1, MergedSame DEF CopiesClear, WriteSpec
    <3>3. cr' = [cr EXCEPT !.spec = cr.spec]
      BY <1>5, <2>2, <3>2 DEF WriteSpec
    <3>4. QED
      BY <2>2, <3>1, <3>3 DEF Resource
  <2>3. QED
    BY <2>1, <2>2
<1>6. CASE Controller
  BY <1>2, <1>3, <1>4, <1>5, <1>6
     DEF Controller, Reconcile, Resolve, sdkFind, sdkCreate, CreateFailed, customUpdateStateMachine,
         sdkDelete, MarkUnmanaged
<1>7. CASE ApiError \/ LostResponse \/ StatusPatchFails \/ \E r \in Regions : Restart(r)
  BY <1>2, <1>3, <1>7 DEF ApiError, LostResponse, StatusPatchFails, Restart, CreateFailed
<1>8. CASE Others \/ UNCHANGED vars
  BY <1>2, <1>8 DEF Others, RoleChanges, OtherClientPuts, OtherClientDeletes, vars
<1>9. QED
  BY <1>6, <1>7, <1>8 DEF Next

LEMMA AdoptedFields ==
  ASSUME TypeOK, AdoptResource
  PROVE  /\ cr' # Nil /\ cr'.spec = [roleARN |-> machines[awsRegion].role, roleRef |-> Nil]
         /\ cr'.adoption = Nil /\ cr'.managed /\ cr'.adopted
         /\ awsRegion \in Regions /\ machines[awsRegion] \in Machine
<1>1. awsRegion \in Regions /\ machines[awsRegion] \in Machine
  BY DEF AdoptResource, TypeOK, Ptr
<1> DEFINE s == [roleARN |-> machines[awsRegion].role, roleRef |-> Nil]
           r == NewResource(s, Nil)
           q == [r EXCEPT !.managed = TRUE]
<1>2. r \in Resource /\ r.spec = s /\ r.adoption = Nil
  <2>1. s \in RoleSpec
    BY <1>1 DEF Machine, RoleSpec, Ptr
  <2>2. QED
    BY <2>1, NewTypes DEF NewResource, Ptr
<1> HIDE DEF s, r
<1>3. q \in Resource /\ q.spec = s /\ q.adoption = Nil /\ q.managed
  BY <1>2 DEF Resource
<1> HIDE DEF q
<1>4. cr' = MarkAdopted(setStatusDefaults(SetIdentifiers(q, awsRegion), awsRegion))
  BY DEF AdoptResource, q, r, s
<1>5. cr' \in Resource /\ cr'.spec = s /\ cr'.adoption = Nil /\ cr'.managed /\ cr'.adopted
  BY <1>1, <1>3, <1>4 DEF MarkAdopted, setStatusDefaults, SetIdentifiers, Deref, Resource, Ptr
<1>6. QED
  BY <1>1, <1>5, InputConstants DEF s

LEMMA StoredSpecStep ==
  ASSUME TypeOK, CopiesClear, StoredSpecIsTheUsers, [Next]_vars PROVE StoredSpecIsTheUsers'
<1>1. CASE ~User
  BY <1>1, UsersPartKept DEF StoredSpecIsTheUsers
<1>2. ASSUME NEW i \in Inputs, CreateCR(i) PROVE StoredSpecIsTheUsers'
  BY <1>2 DEF CreateCR, NewResource, StoredSpecIsTheUsers
<1>3. ASSUME NEW i \in Inputs, EditCR(i) PROVE StoredSpecIsTheUsers'
  BY <1>3, CopiesTyped DEF EditCR, StoredSpecIsTheUsers, Resource
<1>4. CASE AdoptResource
  BY <1>4, AdoptedFields DEF StoredSpecIsTheUsers
<1>5. CASE DeleteCR
  BY <1>5, CopiesTyped DEF DeleteCR, StoredSpecIsTheUsers, Resource
<1>6. QED
  BY <1>1, <1>2, <1>3, <1>4, <1>5 DEF User

\* The spec in the API server is the user's: what ResolveReferences put into the
\* copy of a pass never gets there (references.go 38-50), however the passes,
\* edits and replacements interleave.
THEOREM StoredSpecStaysTheUsers == Spec => []StoredSpecIsTheUsers
<1>1. Init => CopiesClear /\ StoredSpecIsTheUsers
  BY DEF Init, CopiesClear, InPass, StoredSpecIsTheUsers
<1>2. TypeOK /\ CopiesClear /\ StoredSpecIsTheUsers /\ [Next]_vars
        => (CopiesClear /\ StoredSpecIsTheUsers)'
  BY CopiesClearStep, StoredSpecStep
<1>3. QED
  BY <1>1, <1>2, InputsTypeCorrect, PTL DEF Spec

-----------------------------------------------------------------------------
(* The roles that reach AWS.                                               *)

LEMMA FlagKept ==
  ASSUME [Next]_vars PROVE crossNamespace' = crossNamespace /\ UsableRoles' = UsableRoles
<1>1. crossNamespace' = crossNamespace
  BY DEF Next, vars, flags, Controller, User, Others, Reconcile, Resolve, sdkFind, MarkManaged, Adopt,
         sdkCreate, customUpdateStateMachine, WriteSpec, sdkDelete, MarkUnmanaged, Persist,
         CreateCR, EditCR, AdoptResource, DeleteCR, RoleChanges, OtherClientPuts,
         OtherClientDeletes, ApiError, LostResponse, StatusPatchFails, Restart
<1>2. QED
  BY <1>1 DEF UsableRoles

\* A reference is resolved to a role that may be used.
LEMMA ResolvedUsable ==
  ASSUME TypeOK, RolesListed, NEW s \in RoleSpec, s.roleARN \in UsableRoles \cup {Nil}
  PROVE  ResolveReferences(crossNamespace, s, roles).spec.roleARN \in UsableRoles \cup {Nil}
<1> DEFINE r == ResolveReferences(crossNamespace, s, roles)
<1>1. roles \in [Namespaces -> Ptr(Role)] /\ crossNamespace \in BOOLEAN
  BY DEF TypeOK
<1>2. \/ r.spec = s
      \/ \E n \in Namespaces : s.roleRef # Nil /\ Usable(crossNamespace, roles, n)
                               /\ r.spec = [s EXCEPT !.roleARN = roles[n].arn]
  BY <1>1, ResolveCases
<1>3. ASSUME NEW n \in Namespaces, Usable(crossNamespace, roles, n),
             r.spec = [s EXCEPT !.roleARN = roles[n].arn]
      PROVE  r.spec.roleARN \in UsableRoles
  <2>1. roles[n] \in RoleStates[n] \ {Nil} /\ roles[n].synced /\ ~roles[n].terminal
    BY <1>3, ReferenceConstants DEF RolesListed, Usable
  <2>2. roles[n].arn \in UsableARNs(n)
    BY <2>1 DEF UsableARNs
  <2>3. roles[n].arn \in UsableRoles
    BY <1>3, <2>2 DEF UsableRoles, Usable
  <2>4. QED
    BY <1>3, <2>3 DEF RoleSpec
<1>4. QED
  BY <1>2, <1>3

LEMMA CopiesNameEnds ==
  ASSUME TypeOK, UsableRoles' = UsableRoles
  PROVE  /\ Forget => CopiesName'
         /\ \A r \in Resource : \A e : Names(r) /\ Return(r, e) => CopiesName'
         /\ \A r \in Resource : Names(r) /\ Failed(r) => CopiesName'
         /\ \A r \in Resource : Names(r) /\ Names(base) /\ Changed(r) => CopiesName'
<1>1. Forget => CopiesName'
  BY DEF Forget, CopiesName, Names
<1>2. ASSUME NEW r \in Resource, NEW e, Names(r), Return(r, e) PROVE CopiesName'
  BY <1>2, InputConstants DEF Return, CopiesName, Names, Resource
<1>3. ASSUME NEW r \in Resource, Names(r), Failed(r) PROVE CopiesName'
  BY <1>3, InputConstants DEF Failed, Return, setStatusDefaults, CopiesName, Names, Resource
<1>4. ASSUME NEW r \in Resource, Names(r), Names(base), Changed(r) PROVE CopiesName'
  BY <1>4, InputConstants DEF Changed, CopiesName, Names, Resource
<1>5. QED
  BY <1>1, <1>2, <1>3, <1>4

LEMMA CopiesNameStep ==
  ASSUME TypeOK, RolesNamed, [Next]_vars PROVE CopiesName'
<1> USE CopiesNameEnds, FlagKept, CopiesTyped
<1>1. CASE UNCHANGED pass
  BY <1>1 DEF pass, RolesNamed, CopiesName, Names
<1>2. CASE Reconcile
  BY <1>2 DEF Reconcile, RolesNamed, CopiesName, Names
<1>3. CASE Resolve
  <2> DEFINE r == ResolveReferences(crossNamespace, desired.spec, roles)
             d == [desired EXCEPT !.spec = r.spec]
             p == IF NeedsAdoption(d) THEN PopulateResourceFromAnnotation(d) ELSE d
  <2>1. pc = "resolve" /\ desired \in Resource /\ desired # Nil
    BY <1>3, InputConstants DEF Resolve, InPass
  <2>2. r.spec \in RoleSpec /\ r.spec.roleARN \in UsableRoles \cup {Nil}
    BY <2>1, Resolved, ResolvedUsable DEF TypeOK, Resource, RolesNamed, CopiesName, Names
  <2>3. d \in Resource /\ d.spec = r.spec
    BY <2>1, <2>2, RecordTypes, InputConstants DEF Resource
  <2>4. p.spec = r.spec
    BY <2>3, SpecsOf
  <2>5. \/ \E e : Return(d, e)
        \/ pc' = "read" /\ desired' \in {d, p} /\ UNCHANGED <<base, latest>>
    BY <1>3 DEF Resolve
  <2> HIDE DEF d, p, r
  <2>6. Names(d)
    BY <2>2, <2>3 DEF Names
  <2>7. QED
    BY <2>2, <2>3, <2>4, <2>5, <2>6 DEF RolesNamed, CopiesName, Names
<1>4. CASE sdkFind
  <2> DEFINE found == setStatusDefaults([desired EXCEPT !.spec.roleARN = machines[Here].role], Here)
  <2>1. pc = "read" /\ desired \in Resource /\ base \in Resource /\ Here \in Regions
    BY <1>4 DEF sdkFind, InPass
  <2>2. CASE Found
    <3>1. machines[Here] \in Machine /\ machines[Here].role \in UsableRoles
      BY <2>1, <2>2 DEF Found, TypeOK, Ptr, RolesNamed, OnlyUsableRoles
    <3> DEFINE d == [desired EXCEPT !.spec.roleARN = machines[Here].role]
    <3>2. found \in Resource /\ found.spec.roleARN = machines[Here].role
      <4>1. d \in Resource
        BY <2>1, <3>1, RecordTypes DEF Machine
      <4>2. d.spec.roleARN = machines[Here].role
        BY <2>1 DEF Resource, RoleSpec
      <4> HIDE DEF d
      <4>3. setStatusDefaults(d, Here) \in Resource /\ setStatusDefaults(d, Here).spec = d.spec
        BY <2>1, <4>1, RecordTypes, SpecsOf
      <4>4. QED
        BY <4>2, <4>3 DEF d
    <3>3. \/ Return(found, Nil)
          \/ latest' = found /\ UNCHANGED <<base, desired>>
      BY <1>4, <2>2 DEF sdkFind
    <3> HIDE DEF found
    <3>4. Names(found)
      BY <3>1, <3>2 DEF Names
    <3>5. QED
      BY <3>1, <3>2, <3>3, <3>4 DEF RolesNamed, CopiesName, Names
  <2>3. CASE ~Found
    BY <1>4, <2>1, <2>3 DEF sdkFind, RolesNamed, CopiesName, Names
  <2>4. QED
    BY <2>2, <2>3
<1>5. CASE MarkManaged
  <2>1. desired \in Resource
    BY <1>5 DEF MarkManaged, InPass
  <2>2. Forget \/ (desired' = [desired EXCEPT !.managed = TRUE] /\ UNCHANGED <<base, latest>>)
    BY <1>5 DEF MarkManaged
  <2>3. QED
    BY <2>1, <2>2, InputConstants DEF RolesNamed, CopiesName, Names, Resource
<1>6. CASE sdkCreate \/ customUpdateStateMachine
  <2>1. desired \in Resource /\ Here \in Regions /\ Names(desired) /\ Names(latest) /\ Names(base)
    BY <1>6 DEF sdkCreate, customUpdateStateMachine, InPass, RolesNamed, CopiesName
  <2>2. \/ Failed(desired)
        \/ latest \in Resource /\ Failed(latest)
        \/ \E r \in Resource : r.spec = desired.spec /\ Changed(r)
    <3>1. CASE sdkCreate
      <4> DEFINE q == setStatusDefaults(SetIdentifiers(desired, Here), Here)
      <4>1. q \in Resource /\ q.spec = desired.spec
        BY <2>1, SpecsOf, RecordTypes
      <4>2. Changed(q) \/ Failed(desired)
        BY <3>1 DEF sdkCreate, CreateFailed
      <4> HIDE DEF q
      <4>3. QED
        BY <4>1, <4>2, Zenon
    <3>2. CASE customUpdateStateMachine
      BY <2>1, <3>2, SpecsOf, RecordTypes DEF customUpdateStateMachine
    <3>3. QED
      BY <1>6, <3>1, <3>2
  <2>3. ASSUME NEW r \in Resource, r.spec = desired.spec, Changed(r) PROVE CopiesName'
    BY <2>1, <2>3, InputConstants DEF Names
  <2>4. QED
    BY <2>1, <2>2, <2>3
<1>7. CASE sdkDelete
  BY <1>7 DEF sdkDelete, RolesNamed, CopiesName, Names
<1>8. CASE Adopt \/ WriteSpec \/ MarkUnmanaged \/ Persist
  BY <1>8 DEF Adopt, WriteSpec, MarkUnmanaged, Persist, RolesNamed, CopiesName
<1>9. CASE ApiError
  <2>1. \/ Forget \/ UNCHANGED <<base, desired, latest>>
        \/ desired \in Resource /\ (Failed(desired) \/ \E e : Return(desired, e))
        \/ latest \in Resource /\ (Failed(latest) \/ \E e : Return(latest, e))
    BY <1>9 DEF ApiError, CreateFailed, InPass
  <2>2. QED
    BY <2>1 DEF RolesNamed, CopiesName, Names
<1>10. CASE LostResponse
  BY <1>10 DEF LostResponse, CreateFailed, InPass, RolesNamed, CopiesName
<1>11. CASE StatusPatchFails \/ \E r \in Regions : Restart(r)
  BY <1>11 DEF StatusPatchFails, Restart
<1>12. CASE User \/ Others
  BY <1>1, <1>12 DEF User, Others, CreateCR, EditCR, AdoptResource, DeleteCR,
                     RoleChanges, OtherClientPuts, OtherClientDeletes
<1>13. CASE UNCHANGED vars
  BY <1>1, <1>13 DEF vars, pass
<1>14. QED
  BY <1>2, <1>3, <1>4, <1>5, <1>6, <1>7, <1>8, <1>9, <1>10, <1>11, <1>12, <1>13 DEF Next, Controller

LEMMA OnlyUsableStep ==
  ASSUME TypeOK, RolesNamed, [Next]_vars PROVE OnlyUsableRoles'
<1> USE FlagKept
<1>1. CASE machines' = machines
  BY <1>1 DEF RolesNamed, OnlyUsableRoles
<1>2. machines \in [Regions -> Ptr(Machine)]
  BY DEF TypeOK
<1>3. InPass => /\ desired \in Resource /\ Here \in Regions
                /\ desired.spec.roleARN \in UsableRoles \cup {Nil}
  BY CopiesTyped, InputConstants DEF InPass, RolesNamed, CopiesName, Names
<1>4. CASE InPass /\ CreateEffect /\ Creatable
  BY <1>1, <1>2, <1>3, <1>4 DEF CreateEffect, Creatable, RolesNamed, OnlyUsableRoles
<1>5. CASE InPass /\ UpdateEffect /\ machines[Here] # Nil
  BY <1>2, <1>3, <1>5 DEF UpdateEffect, RolesNamed, OnlyUsableRoles, Machine, Deref, Ptr
<1>6. CASE DeleteEffect
  BY <1>2, <1>6 DEF DeleteEffect, RolesNamed, OnlyUsableRoles
<1>7. CASE Controller
  BY <1>1, <1>4, <1>5, <1>6, <1>7
     DEF Controller, Reconcile, Resolve, sdkFind, MarkManaged, Adopt, sdkCreate, InPass,
         customUpdateStateMachine, WriteSpec, sdkDelete, MarkUnmanaged, Persist
<1>8. CASE User
  BY <1>1, <1>8 DEF User, CreateCR, EditCR, AdoptResource, DeleteCR
<1>9. CASE ApiError \/ LostResponse \/ StatusPatchFails \/ \E r \in Regions : Restart(r)
  BY <1>1, <1>4, <1>5, <1>6, <1>9 DEF ApiError, LostResponse, StatusPatchFails, Restart, InPass
<1>10. CASE Others
  <2>1. ASSUME NEW r \in Regions, OtherClientDeletes(r) PROVE OnlyUsableRoles'
    BY <1>2, <2>1 DEF OtherClientDeletes, RolesNamed, OnlyUsableRoles
  <2>2. ASSUME NEW r \in Regions, NEW role \in OtherRoles, OtherClientPuts(r, role)
        PROVE  OnlyUsableRoles'
    <3>1. role \in UsableRoles
      BY DEF UsableRoles
    <3>2. QED
      BY <1>2, <2>2, <3>1 DEF OtherClientPuts, RolesNamed, OnlyUsableRoles, Machine, Ptr
  <2>3. QED
    BY <1>1, <1>10, <2>1, <2>2 DEF Others, RoleChanges
<1>11. QED
  BY <1>1, <1>7, <1>8, <1>9, <1>10 DEF Next, vars

LEMMA NamesStep ==
  ASSUME TypeOK, CopiesClear, RolesNamed, [Next]_vars PROVE Names(cr)'
<1> USE FlagKept
<1>1. CASE ~User
  BY <1>1, UsersPartKept DEF RolesNamed, Names
<1>2. \A i \in Inputs : i.spec.roleARN \in UsableRoles
  BY DEF UsableRoles
<1>3. ASSUME NEW i \in Inputs, CreateCR(i) PROVE Names(cr)'
  BY <1>2, <1>3 DEF CreateCR, NewResource, Names
<1>4. ASSUME NEW i \in Inputs, EditCR(i) PROVE Names(cr)'
  BY <1>2, <1>4, CopiesTyped DEF EditCR, Names, Resource
<1>5. CASE AdoptResource
  BY <1>5, AdoptedFields, InputConstants DEF RolesNamed, OnlyUsableRoles, Names
<1>6. CASE DeleteCR
  BY <1>6, CopiesTyped DEF DeleteCR, RolesNamed, Names, Resource
<1>7. QED
  BY <1>1, <1>3, <1>4, <1>5, <1>6 DEF User

LEMMA RolesListedStep ==
  ASSUME TypeOK, RolesListed, [Next]_vars PROVE RolesListed'
<1>1. CASE roles' = roles
  BY <1>1 DEF RolesListed
<1>2. ASSUME NEW n \in Namespaces, NEW role \in RoleStates[n], RoleChanges(n, role)
      PROVE  RolesListed'
  BY <1>2 DEF RoleChanges, RolesListed, TypeOK
<1>3. QED
  BY <1>1, <1>2
     DEF Next, vars, Controller, User, Others, Reconcile, Resolve, sdkFind, MarkManaged, Adopt,
         sdkCreate, customUpdateStateMachine, WriteSpec, sdkDelete, MarkUnmanaged, Persist,
         CreateCR, EditCR, AdoptResource, DeleteCR, OtherClientPuts,
         OtherClientDeletes, ApiError, LostResponse, StatusPatchFails, Restart

\* A state machine runs as a role that the user or another client named, or that
\* a Role resource showed which the spec may refer to, synced and not terminal
\* (references.go 124-176), whatever the Role resources go through between the
\* resolution and the request.
THEOREM RolesAreUsable == Spec => []OnlyUsableRoles
<1>1. Init => RolesNamed /\ CopiesClear
  BY DEF Init, RolesNamed, RolesListed, CopiesName, Names, OnlyUsableRoles, CopiesClear, InPass
<1>2. TypeOK /\ RolesNamed /\ CopiesClear /\ [Next]_vars => (RolesNamed /\ CopiesClear)'
  BY CopiesClearStep, CopiesNameStep, OnlyUsableStep, NamesStep, RolesListedStep DEF RolesNamed
<1>3. RolesNamed => OnlyUsableRoles
  BY DEF RolesNamed
<1>4. QED
  BY <1>1, <1>2, <1>3, InputsTypeCorrect, PTL DEF Spec

-----------------------------------------------------------------------------
(* The state machine on record.                                            *)

LEMMA FieldsOf ==
  ASSUME NEW r \in Resource, NEW g \in Regions
  PROVE  /\ setStatusDefaults(r, g).arn = r.arn
         /\ setStatusDefaults(r, g).region = Deref(r.region, g)
         /\ setStatusDefaults(SetIdentifiers(r, g), g).arn = g
         /\ setStatusDefaults(SetIdentifiers(r, g), g).region = Deref(r.region, g)
         /\ PopulateResourceFromAnnotation(r).region = r.region
         /\ PopulateResourceFromAnnotation(r).managed = r.managed
         /\ PopulateResourceFromAnnotation(r).adopted = r.adopted
         /\ PopulateResourceFromAnnotation(r).adoption = r.adoption
BY DEF setStatusDefaults, SetIdentifiers, PopulateResourceFromAnnotation, Resource

\* The finalizer goes when a create fails and when a deletion ends, and the pass
\* is over then.
LEMMA ManagedKept ==
  ASSUME TypeOK, [Next]_vars, cr # Nil, cr.managed
  PROVE  \/ cr' # Nil /\ cr'.managed
         \/ pc \in {"create", "unmanage"} /\ pc' \in {"idle", "persist"}
<1>1. cr \in Resource
  BY CopiesTyped
<1>2. CASE cr' = cr
  BY <1>2
<1>3. CASE MarkManaged \/ Adopt \/ WriteSpec \/ Persist
  <2>1. \/ cr' = cr
        \/ cr' = [cr EXCEPT !.managed = TRUE] \/ cr' = MarkAdopted([cr EXCEPT !.managed = TRUE])
        \/ \E s : cr' = [cr EXCEPT !.spec = s]
        \/ cr' = [cr EXCEPT !.arn = latest.arn, !.region = latest.region, !.err = latest.err]
    BY <1>3 DEF MarkManaged, Adopt, WriteSpec, Persist
  <2>2. cr'.managed
    BY <1>1, <2>1 DEF MarkAdopted, Resource
  <2>3. cr' # Nil
    <3>1. Controller
      BY <1>3 DEF Controller
    <3>2. cr' \in Ptr(Resource)
      BY <3>1, ControllerType DEF TypeOK
    <3>3. [cr EXCEPT !.managed = TRUE] # Nil /\ MarkAdopted([cr EXCEPT !.managed = TRUE]) # Nil
      BY <1>1, RecordTypes, InputConstants
    <3>4. CASE WriteSpec
      <4> DEFINE m == Merged(cr.spec, ClearResolvedReferences(base.spec),
                                      ClearResolvedReferences(latest.spec))
      <4>1. cr' = [cr EXCEPT !.spec = m]
        BY <3>4 DEF WriteSpec
      <4>2. base.spec \in RoleSpec /\ latest.spec \in RoleSpec /\ cr.spec \in RoleSpec
        BY <1>1, <3>4, CopiesTyped DEF WriteSpec, Resource
      <4>3. m \in RoleSpec
        BY <4>2, MergedType
      <4> HIDE DEF m
      <4>4. [cr EXCEPT !.spec = m] \in Resource
        BY <1>1, <4>3 DEF Resource
      <4>5. QED
        BY <4>1, <4>4, InputConstants
    <3>5. CASE Persist
      <4>1. cr' = [cr EXCEPT !.arn = latest.arn, !.region = latest.region, !.err = latest.err]
        BY <3>5 DEF Persist
      <4>2. latest \in Resource
        BY <3>5, CopiesTyped DEF Persist
      <4>3. [cr EXCEPT !.arn = latest.arn, !.region = latest.region, !.err = latest.err] \in Resource
        BY <1>1, <4>2 DEF Resource
      <4>4. QED
        BY <4>1, <4>3, InputConstants
    <3>6. QED
      BY <1>3, <3>3, <3>4, <3>5 DEF MarkManaged, Adopt
  <2>4. QED
    BY <2>2, <2>3
<1>4. CASE sdkCreate \/ MarkUnmanaged \/ ApiError \/ LostResponse \/ StatusPatchFails
  BY <1>2, <1>4, Ends DEF sdkCreate, MarkUnmanaged, ApiError, LostResponse, StatusPatchFails
<1>5. CASE User
  <2>1. CASE DeleteCR
    <3>1. cr' = [cr EXCEPT !.phase = "deleting"]
      BY <2>1 DEF DeleteCR
    <3>2. QED
      BY <1>1, <3>1, RecordTypes, InputConstants DEF Resource
  <2>2. ASSUME NEW i \in Inputs, EditCR(i) PROVE cr' # Nil /\ cr'.managed
    <3>1. cr' = [cr EXCEPT !.spec = i.spec] /\ i.spec \in RoleSpec
      BY <2>2, InputConstants DEF EditCR
    <3>2. cr' \in Resource
      BY <1>1, <3>1, RecordTypes, InputConstants
    <3>3. cr'.managed
      BY <1>1, <3>1 DEF Resource
    <3>4. QED
      BY <3>2, <3>3, InputConstants
  <2>3. QED
    BY <1>5, <2>1, <2>2 DEF User, CreateCR, AdoptResource
<1>6. QED
  BY <1>2, <1>3, <1>4, <1>5
     DEF Next, vars, Controller, Others, Reconcile, Resolve, sdkFind, customUpdateStateMachine,
         sdkDelete, RoleChanges, OtherClientPuts, OtherClientDeletes, Restart

LEMMA PassManagesStep ==
  ASSUME TypeOK, PassManages, [Next]_vars PROVE PassManages'
<1>1. CASE pc' \in {"idle", "persist", "writeSpec"}
  BY <1>1 DEF PassManages, InPass
<1>2. ASSUME UNCHANGED <<pc, base, desired>> PROVE PassManages'
  BY <1>1, <1>2, ManagedKept DEF PassManages, InPass
<1>3. CASE Reconcile
  BY <1>3 DEF Reconcile, PassManages
<1>4. CASE Resolve
  <2> DEFINE r == ResolveReferences(crossNamespace, desired.spec, roles)
             d == [desired EXCEPT !.spec = r.spec]
             p == IF NeedsAdoption(d) THEN PopulateResourceFromAnnotation(d) ELSE d
  <2>1. pc = "resolve" /\ desired \in Resource /\ InPass
    BY <1>4, CopiesTyped DEF Resolve, InPass
  <2>2. d \in Resource /\ d.region = desired.region /\ d.managed = desired.managed
    BY <2>1, Resolved DEF TypeOK, Resource
  <2>3. p.region = desired.region /\ p.managed = desired.managed
    BY <2>2, FieldsOf, InputConstants
  <2>4. \/ pc' = "persist"
        \/ pc' = "read" /\ desired' \in {d, p} /\ UNCHANGED <<base, latest>>
    BY <1>4, Ends DEF Resolve
  <2>5. cr' = cr
    BY <1>4 DEF Resolve
  <2> HIDE DEF d, p
  <2>6. QED
    BY <1>1, <2>1, <2>2, <2>3, <2>4, <2>5 DEF PassManages, InPass
<1>5. CASE sdkFind
  <2>1. \/ pc' = "persist"
        \/ /\ pc' \in {"delete", "adopt", "update", "unmanage", "manage", "create"}
           /\ pc' = "create" => desired.managed
           /\ UNCHANGED <<base, desired>>
    BY <1>5, Ends DEF sdkFind
  <2>2. QED
    BY <1>1, <1>5, <2>1 DEF PassManages, InPass, sdkFind
<1>6. CASE MarkManaged
  <2>1. pc = "manage" /\ desired \in Resource /\ InPass
    BY <1>6, CopiesTyped DEF MarkManaged, InPass
  <2>2. CASE cr = Nil
    BY <1>1, <1>6, <2>2, Ends DEF MarkManaged
  <2>3. CASE cr # Nil
    <3>1. cr' = [cr EXCEPT !.managed = TRUE] /\ cr \in Resource
      BY <1>6, <2>3, CopiesTyped DEF MarkManaged
    <3>2. cr'.managed /\ cr' # Nil
      <4>1. cr' \in Resource
        BY <3>1, RecordTypes, InputConstants
      <4>2. cr'.managed
        BY <3>1 DEF Resource
      <4>3. QED
        BY <4>1, <4>2, InputConstants
    <3>3. desired'.region = desired.region /\ base' = base /\ pc' = "create"
      BY <1>6, <2>1, <2>3 DEF MarkManaged, Resource
    <3>4. QED
      BY <2>1, <3>2, <3>3 DEF PassManages, InPass
  <2>4. QED
    BY <2>2, <2>3
<1>7. CASE sdkCreate \/ customUpdateStateMachine
  BY <1>1, <1>7, Ends DEF sdkCreate, customUpdateStateMachine, Changed
<1>8. CASE sdkDelete
  BY <1>8 DEF sdkDelete, PassManages, InPass
<1>9. CASE Adopt \/ WriteSpec \/ MarkUnmanaged \/ Persist
  BY <1>1, <1>9, Ends DEF Adopt, WriteSpec, MarkUnmanaged, Persist
<1>10. CASE ApiError
  <2>1. \/ pc' \in {"idle", "persist"}
        \/ pc = "resolve" /\ pc' = "read" /\ UNCHANGED <<base, desired, cr>>
    BY <1>10, Ends DEF ApiError
  <2>2. QED
    BY <1>1, <2>1 DEF PassManages, InPass
<1>11. CASE LostResponse \/ StatusPatchFails \/ \E r \in Regions : Restart(r)
  BY <1>1, <1>11, Ends DEF LostResponse, StatusPatchFails, Restart
<1>12. CASE User \/ Others \/ UNCHANGED vars
  BY <1>2, <1>12 DEF User, Others, CreateCR, EditCR, AdoptResource, DeleteCR,
                     RoleChanges, OtherClientPuts, OtherClientDeletes, pass, vars
<1>13. QED
  BY <1>3, <1>4, <1>5, <1>6, <1>7, <1>8, <1>9, <1>10, <1>11, <1>12 DEF Next, Controller

\* Only a create makes a state machine the controller's.
LEMMA MadeStep ==
  ASSUME TypeOK, [Next]_vars, ~cut', NEW r \in Regions, Made(r)'
  PROVE  ~cut /\ (Made(r) \/ (sdkCreate /\ Creatable /\ r = Here))
<1>1. machines \in [Regions -> Ptr(Machine)]
  BY DEF TypeOK
<1>2. CASE machines' = machines /\ cut' = cut
  BY <1>2 DEF Made
<1>3. CASE sdkCreate
  BY <1>1, <1>2, <1>3 DEF sdkCreate, CreateEffect, Made, ghosts
<1>4. CASE customUpdateStateMachine
  <2>1. Here \in Regions
    BY <1>4, CopiesTyped DEF customUpdateStateMachine
  <2>2. machines' = machines \/ (machines[Here] # Nil /\ UpdateEffect)
    BY <1>4 DEF customUpdateStateMachine
  <2>3. QED
    BY <1>1, <1>2, <1>4, <2>1, <2>2
       DEF customUpdateStateMachine, UpdateEffect, Made, Machine, Ptr, ghosts
<1>5. CASE sdkDelete
  BY <1>1, <1>5 DEF sdkDelete, DeleteEffect, Made, ghosts
<1>6. CASE Others
  <2>1. ASSUME NEW q \in Regions, OtherClientDeletes(q) PROVE ~cut /\ Made(r)
    BY <1>1, <2>1 DEF OtherClientDeletes, Changes, Made
  <2>2. ASSUME NEW q \in Regions, NEW role \in OtherRoles, OtherClientPuts(q, role)
        PROVE  ~cut /\ Made(r)
    BY <1>1, <2>2 DEF OtherClientPuts, Changes, Made, Machine, Ptr
  <2>3. QED
    BY <1>2, <1>6, <2>1, <2>2 DEF Others, RoleChanges, Changes
<1>7. CASE ApiError \/ LostResponse \/ StatusPatchFails \/ \E q \in Regions : Restart(q)
  BY <1>7 DEF ApiError, LostResponse, StatusPatchFails, Restart, Fails, Made
<1>8. QED
  BY <1>2, <1>3, <1>4, <1>5, <1>6, <1>7
     DEF Next, vars, ghosts, Controller, User, UserActs, Reconcile, Resolve, sdkFind, MarkManaged,
         Adopt, WriteSpec, MarkUnmanaged, Persist, CreateCR, EditCR, AdoptResource, DeleteCR

\* A result keeps what is on record.
LEMMA ResultAt ==
  ASSUME NEW r \in Regions, NEW x \in Resource, At(x, r), cr' # Nil, cr'.managed
  PROVE  /\ \A e : Return(x, e) => OnRecord(r)'
         /\ Failed(x) => OnRecord(r)'
         /\ Changed(x) => OnRecord(r)'
<1>1. ASSUME NEW e, Return(x, e) PROVE OnRecord(r)'
  BY <1>1 DEF Return, OnRecord, At, Resource
<1>2. CASE Failed(x)
  BY <1>2, InputConstants DEF Failed, Return, setStatusDefaults, Deref, OnRecord, At, Resource
<1>3. CASE Changed(x)
  BY <1>3 DEF Changed, OnRecord, At, Resource
<1>4. QED
  BY <1>1, <1>2, <1>3

LEMMA OnRecordStep ==
  ASSUME TypeOK, PassManages, [Next]_vars, ~cut', NEW r \in Regions, Made(r), Made(r)', OnRecord(r)
  PROVE  OnRecord(r)'
<1>1. /\ cr \in Resource /\ cr # Nil /\ pc \notin {"manage", "adopt", "create", "unmanage"}
      /\ cr' # Nil /\ cr'.managed
  BY CopiesTyped, ManagedKept DEF OnRecord
<1>2. pc \in {"resolve", "read", "update", "delete"} =>
        /\ desired \in Resource /\ At(desired, r) /\ desired.managed
        /\ Here = r /\ ~NeedsAdoption(desired)
  BY CopiesTyped, InputConstants DEF OnRecord, PassManages, InPass, At, Here, Region, Deref, NeedsAdoption
<1>3. pc \in {"update", "delete", "writeSpec", "persist"} => latest \in Resource /\ At(latest, r)
  BY CopiesTyped DEF OnRecord
<1>4. CASE User \/ Others \/ UNCHANGED vars
  <2>1. UNCHANGED pass
    BY <1>4 DEF User, Others, CreateCR, EditCR, AdoptResource, DeleteCR,
                RoleChanges, OtherClientPuts, OtherClientDeletes, pass, vars
  <2>2. At(cr, r) => At(cr', r)
    <3>1. CASE User
      BY <1>1, <3>1 DEF At, User, CreateCR, EditCR, AdoptResource, DeleteCR, Resource
    <3>2. CASE Others \/ UNCHANGED vars
      BY <3>2 DEF Others, RoleChanges, OtherClientPuts, OtherClientDeletes, vars
    <3>3. QED
      BY <1>4, <3>1, <3>2
  <2>3. QED
    BY <1>1, <2>1, <2>2 DEF pass, OnRecord, At
<1>5. CASE Reconcile
  BY <1>1, <1>5 DEF Reconcile, OnRecord, At
<1>6. CASE Resolve
  <2> DEFINE q == ResolveReferences(crossNamespace, desired.spec, roles)
             d == [desired EXCEPT !.spec = q.spec]
  <2>1. pc = "resolve"
    BY <1>6 DEF Resolve
  <2>2. d \in Resource /\ At(d, r) /\ d.managed
    <3>1. q.spec \in RoleSpec
      BY <1>2, <2>1, Resolved DEF TypeOK, Resource
    <3>2. QED
      BY <1>2, <2>1, <3>1 DEF At, Resource
  <2>3. \/ \E e : Return(d, e)
        \/ desired' = d /\ pc' = "read"
    BY <1>6, <2>2 DEF Resolve, NeedsAdoption
  <2> HIDE DEF d
  <2>4. CASE desired' = d /\ pc' = "read"
    BY <1>1, <2>2, <2>4 DEF OnRecord, At
  <2>5. QED
    BY <1>1, <2>2, <2>3, <2>4, ResultAt
<1>7. CASE sdkFind
  <2> DEFINE d == [desired EXCEPT !.spec.roleARN = machines[Here].role]
             found == setStatusDefaults(d, Here)
  <2>1. pc = "read" /\ Here \in Regions /\ Found
    BY <1>2, <1>7 DEF sdkFind, Found, Made, At
  <2>2. machines[Here] \in Machine
    BY <2>1 DEF TypeOK, Found, Ptr
  <2>3. d \in Resource /\ At(d, r)
    <3>1. d \in Resource
      BY <1>2, <2>1, <2>2, RecordTypes DEF Machine
    <3>2. At(d, r)
      BY <1>2, <2>1 DEF At, Resource
    <3>3. QED
      BY <3>1, <3>2
  <2> HIDE DEF d
  <2>4. found \in Resource /\ At(found, r)
    BY <2>1, <2>3, RecordTypes, FieldsOf, InputConstants DEF At, Deref
  <2>5. \/ Return(found, Nil)
        \/ latest' = found /\ UNCHANGED desired /\ pc' \in {"delete", "update"}
    BY <1>2, <1>7, <2>1 DEF sdkFind, d
  <2> HIDE DEF found
  <2>6. CASE latest' = found /\ UNCHANGED desired /\ pc' \in {"delete", "update"}
    BY <1>1, <1>2, <2>1, <2>4, <2>6 DEF OnRecord, At
  <2>7. QED
    BY <1>1, <2>4, <2>5, <2>6, ResultAt
<1>8. CASE customUpdateStateMachine
  <2>1. pc = "update" /\ Here \in Regions
    BY <1>2, <1>8 DEF customUpdateStateMachine
  <2>2. setStatusDefaults(desired, Here) \in Resource /\ At(setStatusDefaults(desired, Here), r)
    BY <1>2, <2>1, RecordTypes, FieldsOf, InputConstants DEF At, Deref
  <2>3. Failed(latest) \/ Changed(setStatusDefaults(desired, Here))
    BY <1>8 DEF customUpdateStateMachine
  <2>4. QED
    BY <1>1, <1>3, <2>1, <2>2, <2>3, ResultAt
<1>9. CASE WriteSpec
  BY <1>1, <1>3, <1>9, ResultAt DEF WriteSpec
<1>10. CASE sdkDelete
  BY <1>2, <1>10 DEF sdkDelete, DeleteEffect, Made, TypeOK
<1>11. CASE Persist
  BY <1>1, <1>3, <1>11 DEF Persist, Forget, OnRecord, At, Resource
<1>12. CASE ApiError
  <2>1. \/ pc = "resolve" /\ pc' = "read" /\ UNCHANGED desired
        \/ pc \in {"resolve", "read"} /\ (Failed(desired) \/ \E e : Return(desired, e))
        \/ pc \in {"update", "delete", "writeSpec"} /\ (Failed(latest) \/ \E e : Return(latest, e))
    BY <1>1, <1>12 DEF ApiError
  <2>2. CASE pc = "resolve" /\ pc' = "read" /\ UNCHANGED desired
    BY <1>1, <1>2, <2>2 DEF OnRecord, At
  <2>3. QED
    BY <1>1, <1>2, <1>3, <2>1, <2>2, ResultAt
<1>13. CASE \E g \in Regions : Restart(g)
  BY <1>1, <1>13 DEF Restart, Fails, Forget, OnRecord, At
<1>14. /\ ~LostResponse /\ ~StatusPatchFails
       /\ ~MarkManaged /\ ~Adopt /\ ~sdkCreate /\ ~MarkUnmanaged
  BY <1>1 DEF LostResponse, StatusPatchFails, Fails, MarkManaged, Adopt, sdkCreate, MarkUnmanaged
<1>15. QED
  BY <1>4, <1>5, <1>6, <1>7, <1>8, <1>9, <1>10, <1>11, <1>12, <1>13, <1>14 DEF Next, Controller

LEMMA RecordedStep ==
  ASSUME TypeOK, PassManages, Recorded, [Next]_vars PROVE Recorded'
<1> SUFFICES ASSUME ~cut', NEW r \in Regions, Made(r)' PROVE OnRecord(r)'
  BY DEF Recorded
<1>1. CASE Made(r)
  BY <1>1, MadeStep, OnRecordStep DEF Recorded
<1>2. CASE sdkCreate /\ Creatable /\ r = Here
  <2>1. pc = "create" /\ cr # Nil /\ cr.managed /\ cr' = cr
    BY <1>2 DEF sdkCreate, PassManages
  <2>2. desired \in Resource /\ desired.region = base.region
    BY <2>1, CopiesTyped DEF PassManages, InPass
  <2> DEFINE x == setStatusDefaults(SetIdentifiers(desired, Here), Here)
  <2>3. x \in Resource /\ At(x, r)
    <3>1. x \in Resource
      BY <1>2, <2>2, RecordTypes
    <3>2. x.arn = r /\ x.region = Deref(desired.region, Here)
      BY <1>2, <2>2, FieldsOf
    <3>3. Deref(desired.region, Here) = Here
      BY <2>2 DEF Here, Region, Deref
    <3> HIDE DEF x
    <3>4. QED
      BY <1>2, <3>1, <3>2, <3>3 DEF At
  <2>4. Changed(x)
    BY <1>2 DEF sdkCreate
  <2> HIDE DEF x
  <2>5. QED
    BY <2>1, <2>3, <2>4, ResultAt
<1>3. QED
  BY <1>1, <1>2, MadeStep

LEMMA RecordedIsOne ==
  ASSUME TypeOK, Recorded PROVE NeverTwoMachines
<1> SUFFICES ASSUME ~cut, NEW r \in Regions, NEW s \in Regions, machines[r] # Nil, machines[s] # Nil,
                    r # s, "other" \notin {machines[r].by, machines[s].by}
             PROVE  FALSE
  BY DEF NeverTwoMachines
<1>1. Made(r) /\ Made(s)
  BY DEF Made, TypeOK, Machine, Ptr
<1>2. OnRecord(r) /\ OnRecord(s)
  BY <1>1 DEF Recorded
<1>3. QED
  BY <1>2 DEF OnRecord, At, TypeOK

\* The controller's state machines for a custom resource are never two, in any
\* number of regions and after any number of restarts for other ones, as long as
\* no answer is lost and no pass is cut short (sdk.go 244-245).
THEOREM NeverASecondMachine == Spec => []NeverTwoMachines
<1>1. Init => PassManages /\ Recorded
  BY DEF Init, PassManages, InPass, Recorded, Made
<1>2. TypeOK /\ PassManages /\ Recorded /\ [Next]_vars => (PassManages /\ Recorded)'
  BY PassManagesStep, RecordedStep
<1>3. TypeOK /\ Recorded => NeverTwoMachines
  BY RecordedIsOne
<1>4. QED
  BY <1>1, <1>2, <1>3, InputsTypeCorrect, PTL DEF Spec

-----------------------------------------------------------------------------
(* Adoption.                                                               *)

\* What the custom resource keeps of its adoption.
LEMMA KeptStep ==
  ASSUME TypeOK, CopiesClear, AdoptionKept, [Next]_vars, ~replaced, cr' # Nil PROVE Kept(cr)'
<1>1. cr # Nil => cr \in Resource /\ Kept(cr)
  BY CopiesTyped DEF AdoptionKept
<1>2. CASE cr' = cr
  BY <1>1, <1>2 DEF Kept, AdoptOnly
<1>3. CASE cr' = Unmanaged(cr)
  BY <1>1, <1>3 DEF Unmanaged, Kept, AdoptOnly, Resource
<1>4. CASE MarkManaged
  BY <1>1, <1>2, <1>4 DEF MarkManaged, AdoptionKept, InPass, Kept, AdoptOnly, Resource
<1>5. CASE Adopt
  BY <1>1, <1>2, <1>5 DEF Adopt, MarkAdopted, Kept, AdoptOnly, Resource
<1>6. CASE WriteSpec \/ Persist
  <2>1. /\ cr \in Resource
        /\ \/ \E s : cr' = [cr EXCEPT !.spec = s]
           \/ cr' = [cr EXCEPT !.arn = latest.arn, !.region = latest.region, !.err = latest.err]
    BY <1>1, <1>6 DEF WriteSpec, Persist
  <2>2. QED
    BY <1>1, <2>1, InputConstants DEF Kept, AdoptOnly, Resource
<1>7. CASE User
  <2>1. ASSUME NEW i \in Inputs, CreateCR(i) PROVE Kept(cr)'
    BY <2>1 DEF CreateCR, NewResource, Kept, AdoptOnly
  <2>2. ASSUME NEW i \in Inputs, EditCR(i) PROVE Kept(cr)'
    BY <1>1, <2>2 DEF EditCR, Kept, AdoptOnly, Resource
  <2>3. CASE AdoptResource
    BY <2>3, AdoptedFields DEF Kept, AdoptOnly
  <2>4. CASE DeleteCR
    BY <1>1, <2>4 DEF DeleteCR, Kept, AdoptOnly, Resource
  <2>5. QED
    BY <1>7, <2>1, <2>2, <2>3, <2>4 DEF User
<1>8. QED
  BY <1>2, <1>3, <1>4, <1>5, <1>6, <1>7
     DEF Next, vars, Controller, Others, Reconcile, Resolve, sdkFind, sdkCreate, CreateFailed,
         customUpdateStateMachine, sdkDelete, MarkUnmanaged, RoleChanges, OtherClientPuts,
         OtherClientDeletes, ApiError, LostResponse, StatusPatchFails, Restart

LEMMA ReplacedGrows ==
  ASSUME [Next]_vars, ~replaced' PROVE ~replaced
BY DEF Next, vars, ghosts, Controller, User, Others, UserActs, Changes, Fails, Reconcile, Resolve, sdkFind,
       MarkManaged, Adopt, sdkCreate, customUpdateStateMachine, WriteSpec, sdkDelete, MarkUnmanaged,
       Persist, CreateCR, EditCR, AdoptResource, DeleteCR, RoleChanges, OtherClientPuts,
       OtherClientDeletes, ApiError, LostResponse, StatusPatchFails, Restart

\* Under a pass the annotation does not change, unless the resource is replaced.
LEMMA AnnotationKept ==
  ASSUME TypeOK, CopiesClear, [Next]_vars, ~replaced', pc # "idle", cr' # Nil
  PROVE  cr # Nil /\ cr'.adoption = cr.adoption
<1>1. CASE ~User
  BY <1>1, UsersPartKept
<1>2. CASE User
  <2>1. UserActs
    BY <1>2 DEF User, CreateCR, EditCR, AdoptResource, DeleteCR
  <2>2. cr # Nil /\ cr \in Resource
    BY <2>1, CopiesTyped DEF UserActs
  <2>3. QED
    BY <1>2, <2>2 DEF User, CreateCR, EditCR, AdoptResource, DeleteCR, Resource
<1>3. QED
  BY <1>1, <1>2

LEMMA AdoptionKeptStep ==
  ASSUME TypeOK, CopiesClear, AdoptionKept, [Next]_vars PROVE AdoptionKept'
<1> SUFFICES ASSUME ~replaced' PROVE AdoptionKept'
  BY DEF AdoptionKept
<1>1. /\ ~replaced
      /\ cr' # Nil => Kept(cr)'
      /\ pc # "idle" /\ cr' # Nil => cr # Nil /\ cr'.adoption = cr.adoption
  BY ReplacedGrows, KeptStep, AnnotationKept
<1>2. CASE pc' \in {"idle", "persist", "writeSpec"}
  BY <1>1, <1>2 DEF AdoptionKept, InPass
<1>3. CASE UNCHANGED <<pc, base, desired>>
  BY <1>1, <1>2, <1>3 DEF AdoptionKept, InPass, Kept, AdoptOnly
<1>4. CASE Reconcile
  BY <1>1, <1>4 DEF Reconcile, AdoptionKept, InPass, Kept, AdoptOnly
<1>5. CASE Resolve
  <2> DEFINE r == ResolveReferences(crossNamespace, desired.spec, roles)
             d == [desired EXCEPT !.spec = r.spec]
             p == IF NeedsAdoption(d) THEN PopulateResourceFromAnnotation(d) ELSE d
  <2>1. pc = "resolve" /\ desired \in Resource /\ InPass
    BY <1>5, CopiesTyped DEF Resolve, InPass
  <2>2. /\ d \in Resource /\ d.adoption = desired.adoption
        /\ d.managed = desired.managed /\ d.adopted = desired.adopted
    BY <2>1, Resolved DEF TypeOK, Resource
  <2>3. /\ p.adoption = desired.adoption
        /\ p.managed = desired.managed /\ p.adopted = desired.adopted
    BY <2>2, FieldsOf, InputConstants
  <2>4. \/ pc' = "persist"
        \/ pc' = "read" /\ desired' \in {d, p} /\ UNCHANGED <<base, latest>>
    BY <1>5, Ends DEF Resolve
  <2> HIDE DEF d, p
  <2>5. QED
    BY <1>1, <1>2, <2>1, <2>2, <2>3, <2>4 DEF AdoptionKept, InPass, Kept, AdoptOnly
<1>6. CASE sdkFind
  <2>1. pc = "read" /\ desired \in Resource /\ InPass
    BY <1>6, CopiesTyped DEF sdkFind, InPass
  <2>2. Kept(desired) /\ desired.adoption = base.adoption
    BY <1>1, <2>1 DEF AdoptionKept
  <2>3. \/ pc' = "persist"
        \/ /\ pc' \in {"delete", "adopt", "update", "unmanage", "manage", "create"}
           /\ pc' \in {"manage", "create"} => ~AdoptOnly(desired)
           /\ UNCHANGED <<base, desired>>
    BY <1>6, <2>1, <2>2, Ends DEF sdkFind, NeedsAdoption, AdoptOnly, Kept, Resource
  <2>4. QED
    BY <1>1, <1>2, <2>1, <2>2, <2>3 DEF AdoptionKept, InPass, AdoptOnly
<1>7. CASE MarkManaged
  <2>1. pc = "manage" /\ desired \in Resource /\ InPass
    BY <1>7, CopiesTyped DEF MarkManaged, InPass
  <2>2. CASE cr = Nil
    BY <1>2, <1>7, <2>2, Ends DEF MarkManaged
  <2>3. CASE cr # Nil
    <3>1. desired'.adoption = desired.adoption /\ base' = base /\ pc' = "create"
      BY <1>7, <2>1, <2>3 DEF MarkManaged, Resource
    <3>2. QED
      BY <1>1, <2>1, <3>1 DEF AdoptionKept, InPass, AdoptOnly
  <2>4. QED
    BY <2>2, <2>3
<1>8. CASE sdkDelete
  BY <1>1, <1>8 DEF sdkDelete, AdoptionKept, InPass
<1>9. CASE Adopt \/ sdkCreate \/ customUpdateStateMachine \/ WriteSpec \/ MarkUnmanaged \/ Persist
  BY <1>2, <1>9, Ends
     DEF Adopt, sdkCreate, customUpdateStateMachine, Changed, WriteSpec, MarkUnmanaged, Persist
<1>10. CASE ApiError
  <2>1. \/ pc' \in {"idle", "persist"}
        \/ pc = "resolve" /\ pc' = "read" /\ UNCHANGED <<base, desired, cr>>
    BY <1>10, Ends DEF ApiError
  <2>2. QED
    BY <1>1, <1>2, <2>1 DEF AdoptionKept, InPass, Kept, AdoptOnly
<1>11. CASE LostResponse \/ StatusPatchFails \/ \E r \in Regions : Restart(r)
  BY <1>2, <1>11, Ends DEF LostResponse, StatusPatchFails, Restart
<1>12. CASE User \/ Others \/ UNCHANGED vars
  BY <1>3, <1>12 DEF User, Others, CreateCR, EditCR, AdoptResource, DeleteCR,
                     RoleChanges, OtherClientPuts, OtherClientDeletes, pass, vars
<1>13. QED
  BY <1>4, <1>5, <1>6, <1>7, <1>8, <1>9, <1>10, <1>11, <1>12 DEF Next, Controller

\* Only a pass at its create makes a state machine the controller's.
LEMMA MakingStep ==
  ASSUME TypeOK, [Next]_vars, NEW r \in Regions, machines[r] = Nil, Made(r)' PROVE pc = "create"
<1>1. machines \in [Regions -> Ptr(Machine)]
  BY DEF TypeOK
<1>2. machines' # machines
  BY DEF Made
<1>3. ~customUpdateStateMachine /\ ~sdkDelete
  BY <1>1, CopiesTyped, <1>2
     DEF customUpdateStateMachine, sdkDelete, UpdateEffect, DeleteEffect, Made, Machine, Ptr, InPass
<1>4. ASSUME Others PROVE FALSE
  BY <1>1, <1>2, <1>4 DEF Others, RoleChanges, OtherClientPuts, OtherClientDeletes, Made
<1>5. ASSUME LostResponse PROVE pc = "create"
  BY <1>1, <1>5, CopiesTyped DEF LostResponse, UpdateEffect, DeleteEffect, Made, Machine, Ptr, InPass
<1>6. QED
  BY <1>2, <1>3, <1>4, <1>5
     DEF Next, vars, Controller, User, Reconcile, Resolve, sdkFind, MarkManaged, Adopt, sdkCreate,
         WriteSpec, MarkUnmanaged, Persist, CreateCR, EditCR, AdoptResource, DeleteCR, ApiError,
         StatusPatchFails, Restart

\* What was to be adopted and not to be created is never made by the controller
\* (descriptor.go 139-140): for a resource that no other one of its name was put
\* in the place of while a pass was under way.
THEOREM AdoptionCreatesNothing == Spec => AdoptNeverCreates
<1>1. Init => CopiesClear /\ AdoptionKept
  BY DEF Init, CopiesClear, AdoptionKept, InPass
<1>2. TypeOK /\ CopiesClear /\ AdoptionKept /\ [Next]_vars => (CopiesClear /\ AdoptionKept)'
  BY CopiesClearStep, AdoptionKeptStep
<1>3. TypeOK /\ AdoptionKept /\ [Next]_vars =>
        [\A r \in Regions :
           (~replaced /\ machines[r] = Nil /\ machines'[r] # Nil /\ machines'[r].by = "controller") =>
             base.adoption = Nil \/ base.adoption.orCreate]_vars
  BY MakingStep DEF Made, AdoptionKept, AdoptOnly
<1>4. QED
  BY <1>1, <1>2, <1>3, InputsTypeCorrect, PTL DEF Spec, AdoptNeverCreates
-----------------------------------------------------------------------------
(* The refinement of ManagedResource.                                      *)

\* A state machine the controller made is on record, so its custom resource
\* has the finalizer and the pass is not at a step that claims or releases it.
LEMMA RunningIsHeld ==
  ASSUME Recorded, Running
  PROVE  /\ ObjectState \in {"managed", "deleting"}
         /\ pc \notin {"manage", "adopt", "create", "unmanage"}
<1>1. PICK r \in Regions : OnRecord(r)
  BY DEF Running, Recorded, Made
<1>2. QED
  BY <1>1 DEF OnRecord, ObjectState

\* Only the create call of a managed resource makes a state machine the
\* controller's, and it leaves the custom resource as it is.
LEMMA RunningStep ==
  ASSUME TypeOK, PassManages, [Next]_vars, Running'
  PROVE  Running \/ (UNCHANGED cr /\ ObjectState \in {"managed", "deleting"})
<1>1. PICK r \in Regions : Made(r)' /\ ~cut'
  BY DEF Running, Made
<1>2. ~cut /\ (Made(r) \/ (sdkCreate /\ Creatable))
  BY <1>1, MadeStep
<1>3. CASE Made(r)
  BY <1>2, <1>3 DEF Running, Made
<1>4. CASE sdkCreate /\ Creatable
  BY <1>4 DEF sdkCreate, PassManages, ObjectState
<1>5. QED
  BY <1>2, <1>3, <1>4

\* The changes of the custom resource that ManagedResource knows; a release is
\* made by a pass that failed to create or has deleted.
ObjectChanges ==
  \/ ObjectState = "none" /\ ObjectState' \in {"unmanaged", "managed"}
  \/ ObjectState = "unmanaged" /\ ObjectState' \in {"none", "managed"}
  \/ ObjectState = "managed" /\ ObjectState' = "deleting"
  \/ /\ pc \in {"create", "unmanage"}
     /\ \/ ObjectState = "managed" /\ ObjectState' = "unmanaged"
        \/ ObjectState = "deleting" /\ ObjectState' = "none"

LEMMA ObjectStep ==
  ASSUME TypeOK, [Next]_vars
  PROVE  ObjectState' = ObjectState \/ ObjectChanges
<1> USE DEF ObjectState, ObjectChanges
<1>1. cr # Nil => cr \in Resource
  BY CopiesTyped
<1>2. CASE cr' = cr
  BY <1>2
<1>3. CASE pc \in {"create", "unmanage"} /\ cr' = Unmanaged(cr)
  <2>1. CASE cr = Nil \/ cr.phase = "deleting"
    BY <1>3, <2>1 DEF Unmanaged
  <2>2. CASE cr # Nil /\ cr.phase # "deleting"
    <3>1. cr' = [cr EXCEPT !.managed = FALSE]
      BY <1>3, <2>2 DEF Unmanaged
    <3>2. cr' # Nil /\ cr'.phase = cr.phase /\ ~cr'.managed
      BY <1>1, <2>2, <3>1, InputConstants DEF Resource
    <3>3. QED
      BY <1>3, <2>2, <3>2
  <2>3. QED
    BY <2>1, <2>2
<1>4. CASE MarkManaged \/ Adopt
  <2>1. CASE cr = Nil
    BY <1>2, <1>4, <2>1 DEF MarkManaged, Adopt
  <2>2. CASE cr # Nil
    <3>1. cr' \in Resource /\ cr'.phase = cr.phase /\ cr'.managed
      BY <1>1, <1>4, <2>2 DEF MarkManaged, Adopt, MarkAdopted, Resource
    <3>2. QED
      BY <2>2, <3>1, InputConstants
  <2>3. QED
    BY <2>1, <2>2
<1>5. CASE WriteSpec \/ Persist
  <2>1. CASE cr = Nil
    BY <1>2, <1>5, <2>1 DEF WriteSpec, Persist
  <2>2. CASE cr # Nil
    <3>1. CASE WriteSpec
      <4> DEFINE t == Merged(cr.spec, ClearResolvedReferences(base.spec),
                                      ClearResolvedReferences(latest.spec))
      <4>1. t \in RoleSpec
        BY <1>1, <2>2, <3>1, CopiesTyped, MergedType DEF WriteSpec, Resource
      <4>2. cr' = [cr EXCEPT !.spec = t]
        BY <2>2, <3>1 DEF WriteSpec
      <4> HIDE DEF t
      <4>3. cr' \in Resource /\ cr'.phase = cr.phase /\ cr'.managed = cr.managed
        BY <1>1, <2>2, <4>1, <4>2, RecordTypes, InputConstants DEF Resource
      <4>4. QED
        BY <2>2, <4>3, InputConstants
    <3>2. CASE Persist
      <4>1. /\ latest \in Resource
            /\ cr' = [cr EXCEPT !.arn = latest.arn, !.region = latest.region, !.err = latest.err]
        BY <2>2, <3>2, CopiesTyped DEF Persist
      <4>2. cr' \in Resource /\ cr'.phase = cr.phase /\ cr'.managed = cr.managed
        BY <1>1, <2>2, <4>1, RecordTypes, InputConstants DEF Resource
      <4>3. QED
        BY <2>2, <4>2, InputConstants
    <3>3. QED
      BY <1>5, <3>1, <3>2
  <2>3. QED
    BY <2>1, <2>2
<1>6. CASE User
  <2>1. ASSUME NEW i \in Inputs, CreateCR(i) PROVE ObjectChanges
    <3>1. cr = Nil /\ cr' = NewResource(i.spec, i.adoption) /\ cr' \in Resource
      BY <2>1, NewTypes, InputConstants DEF CreateCR
    <3>2. cr' # Nil /\ cr'.phase = "live" /\ ~cr'.managed
      BY <3>1, InputConstants DEF NewResource
    <3>3. QED
      BY <3>1, <3>2
  <2>2. ASSUME NEW i \in Inputs, EditCR(i) PROVE ObjectState' = ObjectState
    <3>1. cr \in Resource /\ cr' = [cr EXCEPT !.spec = i.spec] /\ cr' \in Resource
      BY <1>1, <2>2, RecordTypes, InputConstants DEF EditCR
    <3>2. QED
      BY <3>1, InputConstants DEF Resource
  <2>3. CASE AdoptResource
    <3>1. cr = Nil /\ cr' # Nil /\ cr'.managed
      BY <2>3, AdoptedFields DEF AdoptResource
    <3>2. cr'.phase = "live"
      BY <2>3 DEF AdoptResource, MarkAdopted, setStatusDefaults, SetIdentifiers, NewResource
    <3>3. QED
      BY <3>1, <3>2
  <2>4. CASE DeleteCR
    <3>1. /\ cr \in Resource /\ cr # Nil /\ cr.phase = "live"
          /\ cr' = IF cr.managed THEN [cr EXCEPT !.phase = "deleting"] ELSE Nil
      BY <1>1, <2>4 DEF DeleteCR
    <3>2. cr.managed => cr' \in Resource /\ cr'.phase = "deleting"
      BY <3>1, RecordTypes, InputConstants DEF Resource
    <3>3. QED
      BY <3>1, <3>2, InputConstants
  <2>5. QED
    BY <1>6, <2>1, <2>2, <2>3, <2>4 DEF User
<1>7. QED
  BY <1>2, <1>3, <1>4, <1>5, <1>6
     DEF Next, vars, Controller, Others, Reconcile, Resolve, sdkFind, sdkCreate, CreateFailed,
         customUpdateStateMachine, sdkDelete, MarkUnmanaged, RoleChanges, OtherClientPuts,
         OtherClientDeletes, ApiError, LostResponse, StatusPatchFails, Restart

LEMMA StepIsAllowed ==
  ASSUME TypeOK, PassManages, Recorded, [Next]_vars
  PROVE  [Managed!Next]_(Managed!vars)
<1> USE DEF Managed!Becomes
<1>1. ObjectState' = ObjectState \/ ObjectChanges
  BY ObjectStep
<1>2. Running \in BOOLEAN /\ Running' \in BOOLEAN
  BY DEF Running, TypeOK
<1>3. CASE ObjectState' = ObjectState /\ Running' = Running
  BY <1>3 DEF Managed!vars
<1>4. CASE ObjectState' = ObjectState /\ Running' /\ ~Running
  <2>1. ObjectState \in {"managed", "deleting"}
    BY <1>4, RunningStep
  <2>2. QED
    BY <1>4, <2>1 DEF Managed!Next, Managed!Provision, Managed!Holds
<1>5. CASE ObjectState' = ObjectState /\ ~Running' /\ Running
  BY <1>5 DEF Managed!Next, Managed!Vanish
<1>6. CASE ObjectState' # ObjectState /\ ObjectChanges
  <2>1. Running' \in {Running, FALSE}
    <3>1. cr' # cr
      BY <1>6 DEF ObjectState
    <3>2. QED
      BY <1>2, <3>1, RunningStep
  <2>2. CASE ObjectState = "none" /\ ObjectState' \in {"unmanaged", "managed"}
    BY <2>1, <2>2 DEF Managed!Next, Managed!Submit, Managed!Adopt
  <2>3. CASE ObjectState = "unmanaged" /\ ObjectState' = "managed"
    BY <2>1, <2>3 DEF Managed!Next, Managed!Claim
  <2>4. CASE \/ ObjectState = "unmanaged" /\ ObjectState' = "none"
             \/ ObjectState = "managed" /\ ObjectState' = "deleting"
    BY <2>1, <2>4 DEF Managed!Next, Managed!RequestDeletion
  <2>5. CASE /\ pc \in {"create", "unmanage"}
             /\ \/ ObjectState = "managed" /\ ObjectState' = "unmanaged"
                \/ ObjectState = "deleting" /\ ObjectState' = "none"
    <3>1. ~Running
      BY <2>5, RunningIsHeld
    <3>2. QED
      BY <2>1, <2>5, <3>1 DEF Managed!Next, Managed!Release
  <2>6. QED
    BY <1>6, <2>2, <2>3, <2>4, <2>5 DEF ObjectChanges
<1>7. QED
  BY <1>1, <1>2, <1>3, <1>4, <1>5, <1>6

\* As long as no answer is lost and no pass is cut short, for any regions, Roles
\* and adoptions: a state machine the controller made keeps a custom resource
\* with the finalizer (descriptor.go MarkManaged), also when the controller is
\* started for other regions and when resources replace each other under a pass.
THEOREM InputsKeepPromise == Spec => InputsKeepFinalizerPromise
<1>1. Init => PassManages /\ Recorded
  BY DEF Init, PassManages, InPass, Recorded, Made
<1>2. Init => Managed!Init
  BY DEF Init, Managed!Init, ObjectState, Running
<1>3. TypeOK /\ PassManages /\ Recorded /\ [Next]_vars =>
        /\ (PassManages /\ Recorded)'
        /\ [Managed!Next]_(Managed!vars)
  BY PassManagesStep, RecordedStep, StepIsAllowed
<1>4. QED
  BY <1>1, <1>2, <1>3, InputsTypeCorrect, PTL
     DEF Spec, InputsKeepFinalizerPromise, Managed!Spec
=============================================================================
