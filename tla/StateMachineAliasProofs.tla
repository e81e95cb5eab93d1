----------------------- MODULE StateMachineAliasProofs ----------------------
(***************************************************************************)
(* What holds of StateMachineAlias for every width of a weight and every   *)
(* value of the other constants.                                           *)
(***************************************************************************)
EXTENDS StateMachineAlias, ConditionsProofs

-----------------------------------------------------------------------------
(* The conversion of weights.                                              *)

\* int32(w) is w as far as the range of an int32 goes.
LEMMA WrappedInRange ==
  ASSUME NEW w \in MinInt32 .. MaxInt32 PROVE Wrapped(w) = w
<1>1. PICK h \in Nat : Int32Values = 2 * h /\ h > 0
  BY AliasConstants
<1>2. Int32Values \div 2 = h
  BY <1>1
<1>3. MinInt32 = -h /\ MaxInt32 = h - 1
  BY <1>2 DEF MinInt32, MaxInt32
<1>4. w \in Int /\ w + h \in 0 .. 2 * h - 1
  BY <1>1, <1>3
<1>5. (w + h) % Int32Values = w + h
  BY <1>1, <1>4
<1>6. QED
  BY <1>1, <1>3, <1>4, <1>5 DEF Wrapped

LEMMA ZeroInRange == 0 \in MinInt32 .. MaxInt32
<1>1. PICK h \in Nat : Int32Values = 2 * h /\ h > 0
  BY AliasConstants
<1>2. QED
  BY <1>1 DEF MinInt32, MaxInt32

\* A payload without error has the weights of the spec.
LEMMA PayloadAsWritten ==
  ASSUME NEW routing \in Seq(RoutingItem), RoutingPayload(routing) # Nil
  PROVE  RoutingPayload(routing) = AsWritten(routing)
<1>1. \A i \in DOMAIN routing : routing[i] \in RoutingItem
  OBVIOUS
<1>2. ASSUME NEW i \in DOMAIN routing
      PROVE  Wrapped(Deref(routing[i].weight, 0)) = Deref(routing[i].weight, 0)
  <2>1. Deref(routing[i].weight, 0) \in MinInt32 .. MaxInt32
    BY <1>1, ZeroInRange DEF RoutingPayload, Deref
  <2>2. QED
    BY <2>1, WrappedInRange
<1>3. RoutingPayload(routing) =
        [i \in DOMAIN routing |->
           [version |-> routing[i].version, weight |-> Wrapped(Deref(routing[i].weight, 0))]]
  BY DEF RoutingPayload
<1>4. QED
  BY <1>2, <1>3 DEF AsWritten

\* What AWS accepts was written, and names versions.
LEMMA AcceptedAsWritten ==
  ASSUME NEW routing \in Seq(RoutingItem), Accepted(RoutingPayload(routing))
  PROVE  RoutingPayload(routing) = AsWritten(routing) /\ AsWritten(routing) \in Routing
<1>1. RoutingPayload(routing) = AsWritten(routing) /\ Routable(AsWritten(routing))
  BY PayloadAsWritten DEF Accepted
<1>2. Len(routing) \in Nat /\ DOMAIN routing = 1 .. Len(routing)
  OBVIOUS
<1>3. ASSUME NEW i \in DOMAIN routing
      PROVE  AsWritten(routing)[i] \in [version : Versions, weight : Int]
  <2>1. routing[i] \in RoutingItem
    BY <1>3
  <2>2. DOMAIN AsWritten(routing) = DOMAIN routing
    BY DEF AsWritten
  <2>3. /\ AsWritten(routing)[i] = [version |-> routing[i].version,
                                    weight |-> Deref(routing[i].weight, 0)]
        /\ AsWritten(routing)[i].version # Nil
    BY <1>1, <2>2 DEF AsWritten, Routable
  <2>4. routing[i].version \in Versions /\ Deref(routing[i].weight, 0) \in Int
    BY <2>1, <2>3 DEF RoutingItem, Ptr, Deref
  <2>5. QED
    BY <2>3, <2>4
<1>4. AsWritten(routing) \in [1 .. Len(routing) -> [version : Versions, weight : Int]]
  <2>1. AsWritten(routing) = [i \in 1 .. Len(routing) |-> AsWritten(routing)[i]]
    BY <1>2 DEF AsWritten
  <2>2. QED
    BY <1>2, <1>3, <2>1
<1>5. AsWritten(routing) \in Routing
  <2> DEFINE item == [version : Versions, weight : Int]
             written == AsWritten(routing)
  <2>1. written \in [1 .. Len(routing) -> item]
    BY <1>4
  <2> HIDE DEF item, written
  <2>2. written \in Seq(item)
    BY <1>2, <2>1
  <2>3. QED
    BY <2>2 DEF Routing, item, written
<1>6. QED
  BY <1>1, <1>5

-----------------------------------------------------------------------------
(* Types of the conversions.                                               *)

LEMMA ReportTypes ==
  ASSUME NEW r \in Resource
  PROVE  /\ Failed(r) \in Resource /\ Failed(r).arn = r.arn /\ Failed(r) # Nil
         /\ Succeeded(r) \in Resource /\ Succeeded(r).arn = r.arn /\ Succeeded(r) # Nil
<1>1. "Failure" \in Errors /\ r.conds \in Seq(Condition)
  BY DEF Errors, Resource
<1>2. onError(r.conds, "Failure").conds \in Seq(Condition) /\ onSuccess(r.conds) \in Seq(Condition)
  BY <1>1, ReportedType
<1>3. /\ Failed(r) \in Resource /\ Failed(r).arn = r.arn
      /\ Succeeded(r) \in Resource /\ Succeeded(r).arn = r.arn
  BY <1>2 DEF Failed, Succeeded, Resource
<1>4. QED
  BY <1>3, AliasConstants

LEMMA RecordTypes ==
  ASSUME NEW r \in Resource
  PROVE  /\ Created(r) \in Resource /\ Created(r).arn = ARN
         /\ Unmanaged(r) \in Ptr(Resource)
         /\ Unmanaged(r) # Nil => Unmanaged(r).spec = r.spec
         /\ [r EXCEPT !.managed = TRUE] \in Resource
         /\ [r EXCEPT !.managed = TRUE].spec = r.spec
         /\ [r EXCEPT !.phase = "deleting"] \in Resource
         /\ [r EXCEPT !.phase = "deleting"].spec = r.spec
         /\ \A q \in Resource :
              /\ [r EXCEPT !.arn = q.arn, !.conds = q.conds] \in Resource
              /\ [r EXCEPT !.arn = q.arn, !.conds = q.conds].spec = r.spec
         /\ \A s \in StateMachineAliasSpec : [r EXCEPT !.spec = s] \in Resource
BY DEF Created, Unmanaged, Resource, Ptr

\* What AWS routes can stand in a spec.
LEMMA DescribeIntoType ==
  ASSUME NEW s \in StateMachineAliasSpec, NEW a \in Alias
  PROVE  DescribeInto(s, a) \in StateMachineAliasSpec
<1>1. a.routing \in Seq([version : Versions, weight : Int])
  BY DEF Alias, Routing
<1>2. a.routing \in Seq(RoutingItem)
  <2> DEFINE item == [version : Versions, weight : Int]
             routing == a.routing
  <2>1. item \subseteq RoutingItem
    BY DEF RoutingItem, Ptr
  <2>2. routing \in Seq(item)
    BY <1>1
  <2> HIDE DEF item, routing
  <2>3. Len(routing) \in Nat /\ routing \in [1 .. Len(routing) -> RoutingItem]
    BY <2>1, <2>2
  <2>4. routing \in Seq(RoutingItem)
    BY <2>3
  <2>5. QED
    BY <2>4 DEF routing
<1>3. QED
  BY <1>2 DEF DescribeInto, StateMachineAliasSpec, Alias

-----------------------------------------------------------------------------
(* Type correctness, and where specs come from.                            *)

\* The specs a pass works with were written by the user: what was read goes
\* into another object.
SpecsWritten ==
  (cr # Nil => cr.spec \in Specs) /\ (desired # Nil => desired.spec \in Specs)

AliasInv == TypeOK /\ SpecsWritten /\ RoutedAsWritten

LEMMA ForgetType ==
  ASSUME AliasInv, Forget, cr' \in Ptr(Resource), cr' # Nil => cr'.spec \in Specs,
         UNCHANGED <<alias, versions>>,
         cut' \in BOOLEAN, edits' \in Nat, outOfBand' \in Nat, faults' \in Nat
  PROVE  AliasInv'
BY DEF AliasInv, TypeOK, SpecsWritten, RoutedAsWritten, Forget, Ptr

LEMMA ReturnType ==
  ASSUME AliasInv, pc # "idle", NEW r \in Resource, Return(r),
         cr' \in Ptr(Resource), cr' # Nil => cr'.spec \in Specs,
         alias' \in Ptr(Alias), RoutedAsWritten', UNCHANGED versions,
         cut' \in BOOLEAN, edits' \in Nat, outOfBand' \in Nat, faults' \in Nat
  PROVE  AliasInv'
BY AliasConstants DEF AliasInv, TypeOK, SpecsWritten, Return, Ptr

\* Taking the finalizer back keeps the spec.
LEMMA UnmanagedType ==
  ASSUME AliasInv
  PROVE  Unmanaged(cr) \in Ptr(Resource) /\ (Unmanaged(cr) # Nil => Unmanaged(cr).spec \in Specs)
<1>1. CASE cr = Nil
  BY <1>1 DEF Unmanaged, Ptr
<1>2. CASE cr # Nil
  <2>1. cr \in Resource /\ cr.spec \in Specs
    BY <1>2 DEF AliasInv, TypeOK, SpecsWritten, Ptr
  <2>2. QED
    BY <2>1, RecordTypes
<1>3. QED
  BY <1>1, <1>2

\* What a pass leaves in AWS is what some spec says.
LEMMA PushedAsWritten ==
  ASSUME AliasInv, pc \in {"update", "create"},
         (Updatable /\ UpdateEffect) \/ (Creatable /\ CreateEffect)
  PROVE  alias' \in Ptr(Alias) /\ RoutedAsWritten'
<1> DEFINE routing == desired.spec.routing
<1>1. desired \in Resource /\ desired.spec \in Specs /\ desired.spec \in StateMachineAliasSpec
  BY DEF AliasInv, TypeOK, SpecsWritten, Ptr, Resource
<1>2. routing \in Seq(RoutingItem) /\ desired.spec.description \in Ptr(Descriptions)
  BY <1>1 DEF StateMachineAliasSpec
<1>3. Accepted(RoutingPayload(routing))
  BY DEF Updatable, Creatable, CreatableAs
<1>4. RoutingPayload(routing) = AsWritten(routing) /\ AsWritten(routing) \in Routing
  BY <1>2, <1>3, AcceptedAsWritten
<1>5. PICK d \in Ptr(Descriptions) :
        alias' = [description |-> d, routing |-> RoutingPayload(routing)]
  <2>1. CASE Updatable /\ UpdateEffect
    <3>1. alias \in Alias
      BY <2>1 DEF Updatable, AliasInv, TypeOK, Ptr
    <3>2. Deref(desired.spec.description, alias.description) \in Ptr(Descriptions)
      BY <1>2, <3>1 DEF Deref, Alias
    <3>3. QED
      BY <2>1, <3>2 DEF UpdateEffect
  <2>2. CASE Creatable /\ CreateEffect
    BY <1>2, <2>2 DEF CreateEffect
  <2>3. QED
    BY <2>1, <2>2
<1> HIDE DEF routing
<1>6. alias'.routing = AsWritten(routing) /\ alias' \in Alias
  BY <1>4, <1>5 DEF Alias
<1>7. AsWritten(routing) \in {AsWritten(s.routing) : s \in Specs}
  BY <1>1 DEF routing
<1>8. QED
  BY <1>6, <1>7 DEF RoutedAsWritten, Ptr

LEMMA ControllerType == ASSUME AliasInv, Controller PROVE AliasInv'
<1> USE DEF bounds
<1>1. /\ cr \in Ptr(Resource) /\ (cr # Nil => cr \in Resource /\ cr.spec \in Specs)
      /\ alias \in Ptr(Alias) /\ RoutedAsWritten
      /\ pc # "idle" => desired \in Resource /\ desired.spec \in Specs
      /\ pc \in {"compare", "update", "delete", "persist"} => latest \in Resource
      /\ cut \in BOOLEAN /\ edits \in Nat /\ outOfBand \in Nat /\ faults \in Nat
  BY DEF AliasInv, TypeOK, SpecsWritten, Ptr
<1>2. UNCHANGED alias => (RoutedAsWritten' /\ alias' \in Ptr(Alias))
  BY <1>1 DEF RoutedAsWritten
<1>3. CASE Reconcile
  BY <1>1, <1>2, <1>3 DEF Reconcile, AliasInv, TypeOK, SpecsWritten
<1>4. CASE sdkFind
  <2>1. CASE desired.arn # Nil /\ alias # Nil
    <3>1. [desired EXCEPT !.spec = DescribeInto(desired.spec, alias)] \in Resource
      BY <1>1, <1>4, <2>1, DescribeIntoType, RecordTypes DEF sdkFind, Resource, Ptr
    <3>2. latest' \in Resource /\ latest' # Nil
      BY <1>4, <2>1, <3>1, ReportTypes DEF sdkFind
    <3>3. UNCHANGED <<cr, alias, versions, desired, bounds>> /\ pc' = "compare"
      BY <1>4, <2>1 DEF sdkFind
    <3>4. QED
      BY <1>1, <1>2, <1>4, <3>2, <3>3 DEF sdkFind, AliasInv, TypeOK, SpecsWritten, Ptr
  <2>2. CASE ~(desired.arn # Nil /\ alias # Nil)
    BY <1>1, <1>2, <1>4, <2>2 DEF sdkFind, AliasInv, TypeOK, SpecsWritten
  <2>3. QED
    BY <2>1, <2>2
<1>5. CASE Compare
  <2>1. CASE Return(latest)
    BY <1>1, <1>2, <1>5, <2>1, ReturnType DEF Compare, AliasInv, TypeOK
  <2>2. CASE ~Return(latest)
    BY <1>1, <1>2, <1>5, <2>2 DEF Compare, AliasInv, TypeOK, SpecsWritten
  <2>3. QED
    BY <2>1, <2>2
<1>6. CASE sdkUpdate
  <2>1. CASE Updatable
    BY <1>1, <1>6, <2>1, PushedAsWritten, ReportTypes, ReturnType DEF sdkUpdate
  <2>2. CASE ~Updatable
    BY <1>1, <1>2, <1>6, <2>2, ReportTypes, ReturnType DEF sdkUpdate
  <2>3. QED
    BY <2>1, <2>2
<1>7. CASE MarkManaged
  <2>1. CASE cr = Nil
    BY <1>1, <1>7, <2>1, ForgetType DEF MarkManaged
  <2>2. CASE cr # Nil
    <3>1. /\ cr' = [cr EXCEPT !.managed = TRUE] /\ desired' = [desired EXCEPT !.managed = TRUE]
          /\ pc' = "create" /\ UNCHANGED <<alias, versions, latest, bounds>>
      BY <1>7, <2>2 DEF MarkManaged
    <3>2. cr' \in Resource /\ cr'.spec \in Specs /\ desired' \in Resource /\ desired'.spec \in Specs
      BY <1>1, <1>7, <2>2, <3>1, RecordTypes DEF MarkManaged
    <3>3. desired' # Nil
      BY <3>2, AliasConstants
    <3>4. QED
      BY <1>1, <1>2, <3>1, <3>2, <3>3 DEF AliasInv, TypeOK, SpecsWritten, Ptr
  <2>3. QED
    BY <2>1, <2>2
<1>8. CASE sdkCreate
  <2>1. CASE Creatable
    <3>1. Succeeded(Created(desired)) \in Resource
      BY <1>1, <1>8, RecordTypes, ReportTypes DEF sdkCreate
    <3>2. QED
      BY <1>1, <1>8, <2>1, <3>1, PushedAsWritten, ReturnType DEF sdkCreate
  <2>2. CASE ~Creatable
    <3>1. cr' \in Ptr(Resource) /\ (cr' # Nil => cr'.spec \in Specs)
      BY <1>1, <1>8, <2>2, UnmanagedType DEF sdkCreate, CreateFailed
    <3>2. QED
      BY <1>1, <1>2, <1>8, <2>2, <3>1, ReportTypes, ReturnType DEF sdkCreate, CreateFailed
  <2>3. QED
    BY <2>1, <2>2
<1>9. CASE sdkDelete
  <2>1. CASE alias = Nil
    BY <1>1, <1>2, <1>9, <2>1, ReportTypes, ReturnType DEF sdkDelete
  <2>2. CASE alias # Nil
    BY <1>1, <1>9, <2>2 DEF sdkDelete, AliasInv, TypeOK, SpecsWritten, RoutedAsWritten, Ptr
  <2>3. QED
    BY <2>1, <2>2
<1>10. CASE MarkUnmanaged
  BY <1>1, <1>10, UnmanagedType, ForgetType DEF MarkUnmanaged
<1>11. CASE Persist
  <2>1. cr' \in Ptr(Resource) /\ (cr' # Nil => cr'.spec \in Specs)
    BY <1>1, <1>11, RecordTypes DEF Persist, Ptr
  <2>2. QED
    BY <1>1, <1>11, <2>1, ForgetType DEF Persist
<1>12. QED
  BY <1>3, <1>4, <1>5, <1>6, <1>7, <1>8, <1>9, <1>10, <1>11 DEF Controller

LEMMA UserType == ASSUME AliasInv, User PROVE AliasInv'
<1> USE DEF pass
<1>1. UNCHANGED <<alias, versions, pc, desired, latest>> /\ Acts
  BY DEF User, CreateCR, EditSpec, DeleteCR
<1>2. cr' \in Ptr(Resource) /\ (cr' # Nil => cr'.spec \in Specs)
  <2>1. cr # Nil => cr \in Resource /\ cr.spec \in Specs
    BY DEF AliasInv, TypeOK, SpecsWritten, Ptr
  <2>2. ASSUME NEW s \in Specs, CreateCR(s) PROVE cr' \in Resource /\ cr'.spec \in Specs
    BY <2>2, AliasConstants DEF CreateCR, Resource, Ptr
  <2>3. ASSUME NEW s \in Specs, EditSpec(s) PROVE cr' \in Resource /\ cr'.spec \in Specs
    BY <2>1, <2>3, AliasConstants DEF EditSpec, Resource
  <2>4. CASE DeleteCR
    BY <2>1, <2>4, RecordTypes DEF DeleteCR, Ptr
  <2>5. QED
    BY <2>2, <2>3, <2>4 DEF User, Ptr
<1>3. QED
  BY <1>1, <1>2 DEF AliasInv, TypeOK, SpecsWritten, RoutedAsWritten, Acts

LEMMA OtherClientsType == ASSUME AliasInv, OtherClients PROVE AliasInv'
<1> USE DEF pass
<1>1. UNCHANGED <<cr, pc, desired, latest>> /\ Drifts
  BY DEF OtherClients, DriftRouting, PublishVersion, DeleteVersion, DeleteMachine
<1>2. alias' \in Ptr(Alias) /\ RoutedAsWritten'
  <2>1. ASSUME NEW r \in DriftRoutings, DriftRouting(r) PROVE alias' \in Ptr(Alias) /\ RoutedAsWritten'
    <3>1. alias \in Alias /\ alias' = [alias EXCEPT !.routing = r] /\ r \in Routing
      BY <2>1, AliasConstants DEF DriftRouting, AliasInv, TypeOK, Ptr
    <3>2. alias' \in Alias /\ alias'.routing = r
      BY <3>1 DEF Alias
    <3>3. QED
      BY <3>2 DEF RoutedAsWritten, Ptr
  <2>2. CASE alias' \in {alias, Nil}
    BY <2>2 DEF AliasInv, TypeOK, RoutedAsWritten, Ptr
  <2>3. QED
    BY <2>1, <2>2 DEF OtherClients, PublishVersion, DeleteVersion, DeleteMachine
<1>3. versions' \in [Versions -> {"future", "published", "deleted"}]
  BY DEF OtherClients, DriftRouting, PublishVersion, DeleteVersion, DeleteMachine,
         AliasInv, TypeOK
<1>4. QED
  BY <1>1, <1>2, <1>3 DEF AliasInv, TypeOK, SpecsWritten, Drifts

LEMMA FaultType ==
  ASSUME AliasInv, ApiError \/ LostResponse \/ StatusPatchFails \/ Crash PROVE AliasInv'
<1>1. PICK kind : Fails(kind)
  BY DEF ApiError, LostResponse, StatusPatchFails, Crash
<1>2. cut' \in BOOLEAN
  BY <1>1 DEF Fails
<1>3. edits' \in Nat /\ outOfBand' \in Nat /\ faults' \in Nat /\ UNCHANGED versions
  BY <1>1 DEF Fails, AliasInv, TypeOK, ApiError, LostResponse, StatusPatchFails, Crash
<1>4. /\ cr \in Ptr(Resource) /\ (cr # Nil => cr.spec \in Specs)
      /\ pc # "idle" => desired \in Resource
      /\ pc \in {"compare", "update", "delete", "persist"} => latest \in Resource
  BY DEF AliasInv, TypeOK, SpecsWritten, Ptr
<1>5. alias' \in Ptr(Alias) /\ RoutedAsWritten'
  <2>1. CASE alias' \in {alias, Nil}
    BY <2>1 DEF AliasInv, TypeOK, RoutedAsWritten, Ptr
  <2>2. CASE (pc = "update" /\ Updatable /\ UpdateEffect) \/ (pc = "create" /\ Creatable /\ CreateEffect)
    BY <2>2, PushedAsWritten
  <2>3. QED
    BY <2>1, <2>2 DEF ApiError, LostResponse, StatusPatchFails, Crash
<1>6. CASE pc = "describe" /\ Return(Failed(desired)) /\ UNCHANGED cr
  BY <1>2, <1>3, <1>4, <1>5, <1>6, ReportTypes, ReturnType
<1>7. CASE pc \in {"update", "delete"} /\ Return(Failed(latest)) /\ UNCHANGED cr
  BY <1>2, <1>3, <1>4, <1>5, <1>7, ReportTypes, ReturnType
<1>8. CASE pc = "create" /\ CreateFailed
  <2>1. cr' \in Ptr(Resource) /\ (cr' # Nil => cr'.spec \in Specs)
    BY <1>4, <1>8, UnmanagedType DEF CreateFailed
  <2>2. QED
    BY <1>2, <1>3, <1>4, <1>5, <1>8, <2>1, ReportTypes, ReturnType DEF CreateFailed
<1>9. CASE Forget /\ UNCHANGED <<cr, alias>>
  BY <1>2, <1>3, <1>4, <1>9, ForgetType
<1>10. QED
  BY <1>6, <1>7, <1>8, <1>9 DEF ApiError, LostResponse, StatusPatchFails, Crash

LEMMA AliasInvariant == Spec => []AliasInv
<1>1. Init => AliasInv
  <2> SUFFICES ASSUME Init PROVE AliasInv
    OBVIOUS
  <2>1. versions \in [Versions -> {"future", "published", "deleted"}]
    BY DEF Init
  <2>2. QED
    BY <2>1 DEF Init, AliasInv, TypeOK, SpecsWritten, RoutedAsWritten, Ptr
<1>2. AliasInv /\ [Next]_vars => AliasInv'
  <2> SUFFICES ASSUME AliasInv, [Next]_vars PROVE AliasInv'
    OBVIOUS
  <2>1. CASE UNCHANGED vars
    BY <2>1 DEF vars, AliasInv, TypeOK, SpecsWritten, RoutedAsWritten
  <2>2. QED
    BY <2>1, ControllerType, UserType, OtherClientsType, FaultType DEF Next
<1>3. QED
  BY <1>1, <1>2, PTL DEF Spec

\* Every reachable state is well typed and a pass has the copies its next call
\* needs, for every routing the user or AWS comes up with.
THEOREM AliasTypeCorrect == Spec => []TypeOK
<1>1. AliasInv => TypeOK
  BY DEF AliasInv
<1>2. QED
  BY <1>1, AliasInvariant, PTL

\* For every width of the API's weights and every int64 in a spec, under all
\* faults and edits: AWS never routes by a weight that nobody wrote (sdk.go
\* 241-245, 309-313).
THEOREM WeightsAreNeverWrapped == Spec => []RoutedAsWritten
<1>1. AliasInv => RoutedAsWritten
  BY DEF AliasInv
<1>2. QED
  BY <1>1, AliasInvariant, PTL

-----------------------------------------------------------------------------
(* Custody: the custom resource that holds an alias will not let go of it. *)

Held == ObjectState \in {"managed", "deleting"}

\* The custom resource holds its finalizer and its pass knows the ARN, or will
\* read it from the status.
Custodian ==
  /\ Held
  /\ pc \notin {"manage", "create", "unmanage"}
  /\ pc = "idle" => cr.arn # Nil
  /\ pc \in {"describe", "compare", "update", "delete"} => desired.arn # Nil
  /\ pc \in {"compare", "update", "delete", "persist"} => latest.arn # Nil

Running == alias # Nil /\ ~cut

\* A pass that creates holds the finalizer, and an alias has its custodian.
Custody ==
  /\ pc = "create" \/ (pc = "describe" /\ desired.managed) => Held
  /\ Running => Custodian

\* The changes of the custom resource that ManagedResource knows.
Changes ==
  /\ Running' => Running
  /\ \/ ObjectState = "none" /\ ObjectState' = "unmanaged"
     \/ ObjectState = "unmanaged" /\ ObjectState' \in {"none", "managed"}
     \/ ObjectState = "managed" /\ ObjectState' = "deleting"
     \/ /\ ~Running
        /\ \/ ObjectState = "managed" /\ ObjectState' = "unmanaged"
           \/ ObjectState = "deleting" /\ ObjectState' = "none"

KeepsCustody == Custody' /\ (ObjectState' = ObjectState \/ Changes)

LEMMA ReturnKeeps ==
  ASSUME Custody, NEW r \in Resource, Return(r), UNCHANGED cr,
         Custodian => r.arn # Nil,
         Running' => Running \/ (Held /\ r.arn # Nil)
  PROVE  KeepsCustody
<1>1. pc' = "persist" /\ latest' = r
  BY DEF Return
<1>2. ObjectState' = ObjectState
  BY DEF ObjectState
<1>3. Held' = Held
  BY <1>2 DEF Held
<1>4. Held /\ r.arn # Nil => Custodian'
  BY <1>1, <1>3 DEF Custodian
<1>5. QED
  BY <1>1, <1>2, <1>4 DEF KeepsCustody, Custody, Custodian

LEMMA ForgetKeeps ==
  ASSUME Custody, pc \in {"manage", "unmanage"}, Forget, UNCHANGED cr, Running' => Running
  PROVE  KeepsCustody
<1>1. ~Custodian /\ pc' = "idle" /\ ObjectState' = ObjectState
  BY DEF Custodian, Forget, ObjectState
<1>2. QED
  BY <1>1 DEF KeepsCustody, Custody

\* The finalizer is given up only where nothing runs.
LEMMA ReleaseKeeps ==
  ASSUME TypeOK, Custody, pc \in {"create", "unmanage"}, cr' = Unmanaged(cr),
         NEW r, Forget \/ Return(r), Running' => Running
  PROVE  KeepsCustody
<1>1. pc' \in {"idle", "persist"} /\ ~Running
  BY DEF Forget, Return, Custody, Custodian
<1>2. Custody'
  BY <1>1 DEF Custody
<1>3. CASE cr = Nil \/ cr.phase = "deleting"
  <2>1. ObjectState' = "none" /\ ObjectState \in {"none", "deleting"}
    BY <1>3 DEF Unmanaged, ObjectState
  <2>2. QED
    BY <1>1, <1>2, <2>1 DEF KeepsCustody, Changes
<1>4. CASE cr # Nil /\ cr.phase # "deleting"
  <2>1. cr \in Resource /\ cr' = [cr EXCEPT !.managed = FALSE]
    BY <1>4 DEF Unmanaged, TypeOK, Ptr
  <2>2. cr' \in Resource /\ ~cr'.managed /\ cr'.phase = cr.phase
    BY <2>1 DEF Resource
  <2>3. ObjectState' = "unmanaged" /\ ObjectState \in {"managed", "unmanaged"}
    BY <1>4, <2>2, AliasConstants DEF ObjectState
  <2>4. QED
    BY <1>1, <1>2, <2>3 DEF KeepsCustody, Changes
<1>5. QED
  BY <1>3, <1>4

LEMMA ControllerKeeps ==
  ASSUME TypeOK, Custody, Controller PROVE KeepsCustody
<1> USE DEF bounds
<1>1. cut' = cut
  BY DEF Controller, Reconcile, sdkFind, Compare, sdkUpdate, MarkManaged, sdkCreate,
         sdkDelete, MarkUnmanaged, Persist
<1>2. /\ cr # Nil => cr \in Resource
      /\ pc # "idle" => desired \in Resource
      /\ pc \in {"compare", "update", "delete", "persist"} => latest \in Resource
  BY DEF TypeOK, Ptr
<1>3. UNCHANGED cr => (ObjectState' = ObjectState /\ Held' = Held)
  BY DEF ObjectState, Held
<1>4. UNCHANGED alias => Running' = Running
  BY <1>1 DEF Running
<1>5. CASE Reconcile
  <2>1. /\ pc = "idle" /\ pc' = "describe" /\ desired' = cr /\ cr \in Resource
        /\ UNCHANGED <<cr, alias>>
    BY <1>2, <1>5 DEF Reconcile
  <2>2. cr.managed => Held
    BY <2>1, AliasConstants DEF Held, ObjectState, Resource
  <2>3. QED
    BY <1>3, <1>4, <2>1, <2>2 DEF KeepsCustody, Custody, Custodian
<1>6. CASE sdkFind
  <2>1. UNCHANGED <<cr, alias, desired>> /\ pc = "describe" /\ desired \in Resource
    BY <1>2, <1>6 DEF sdkFind
  <2>2. CASE desired.arn # Nil /\ alias # Nil
    <3>1. alias \in Alias
      BY <2>2 DEF TypeOK, Ptr
    <3>2. /\ [desired EXCEPT !.spec = DescribeInto(desired.spec, alias)] \in Resource
          /\ [desired EXCEPT !.spec = DescribeInto(desired.spec, alias)].arn = desired.arn
      BY <2>1, <3>1, DescribeIntoType DEF Resource
    <3>3. pc' = "compare" /\ latest'.arn = desired.arn
      BY <1>6, <2>2, <3>2, ReportTypes DEF sdkFind
    <3>4. QED
      BY <1>3, <1>4, <2>1, <2>2, <3>3 DEF KeepsCustody, Custody, Custodian
  <2>3. CASE ~(desired.arn # Nil /\ alias # Nil)
    <3>1. pc' \in {"unmanage", "create", "manage"} /\ (pc' = "create" => desired.managed)
      BY <1>6, <2>3 DEF sdkFind
    <3>2. ~Running
      BY <2>1, <2>3 DEF Custody, Custodian, Running
    <3>3. QED
      BY <1>3, <1>4, <2>1, <3>1, <3>2 DEF KeepsCustody, Custody
  <2>4. QED
    BY <2>2, <2>3
<1>7. CASE Compare
  <2>1. UNCHANGED <<cr, alias>> /\ pc = "compare" /\ latest \in Resource
    BY <1>2, <1>7 DEF Compare
  <2>2. CASE Return(latest)
    BY <1>4, <2>1, <2>2, ReturnKeeps DEF Custodian
  <2>3. CASE ~Return(latest)
    <3>1. UNCHANGED <<desired, latest>> /\ pc' \in {"delete", "update"}
      BY <1>7, <2>3 DEF Compare
    <3>2. QED
      BY <1>3, <1>4, <2>1, <3>1 DEF KeepsCustody, Custody, Custodian
  <2>4. QED
    BY <2>2, <2>3
<1>8. CASE sdkUpdate
  <2>1. UNCHANGED cr /\ pc = "update" /\ latest \in Resource /\ desired \in Resource
    BY <1>2, <1>8 DEF sdkUpdate
  <2>2. Running' => Running
    BY <1>1, <1>8 DEF sdkUpdate, Updatable, Running
  <2>3. Return(Succeeded(desired)) \/ Return(Failed(latest))
    BY <1>8 DEF sdkUpdate
  <2>4. QED
    BY <2>1, <2>2, <2>3, ReportTypes, ReturnKeeps DEF Custodian
<1>9. CASE MarkManaged /\ cr = Nil
  BY <1>4, <1>9, ForgetKeeps DEF MarkManaged
<1>10. CASE MarkManaged /\ cr # Nil
  <2>1. /\ pc = "manage" /\ pc' = "create" /\ UNCHANGED alias
        /\ cr' = [cr EXCEPT !.managed = TRUE]
    BY <1>10 DEF MarkManaged
  <2>2. cr' \in Resource /\ cr'.managed /\ cr'.phase = cr.phase
    BY <1>2, <1>10, <2>1 DEF Resource
  <2>3. /\ Held'
        /\ ObjectState' = ObjectState \/ (ObjectState = "unmanaged" /\ ObjectState' = "managed")
    BY <1>2, <1>10, <2>2, AliasConstants DEF ObjectState, Held
  <2>4. QED
    BY <1>4, <2>1, <2>3 DEF KeepsCustody, Custody, Custodian, Changes
<1>11. CASE sdkCreate
  <2>1. pc = "create" /\ desired \in Resource /\ Held
    BY <1>2, <1>11 DEF sdkCreate, Custody
  <2>2. CASE Creatable
    <3>1. /\ Succeeded(Created(desired)) \in Resource
          /\ Succeeded(Created(desired)).arn = ARN
      BY <2>1, RecordTypes, ReportTypes
    <3>2. QED
      BY <1>11, <2>1, <2>2, <3>1, ReturnKeeps, AliasConstants DEF sdkCreate
  <2>3. CASE ~Creatable
    <3>1. CreateFailed /\ Running' = Running
      BY <1>4, <1>11, <2>3 DEF sdkCreate
    <3>2. CASE cr' = cr
      BY <2>1, <3>1, <3>2, ReportTypes, ReturnKeeps DEF CreateFailed, Custodian
    <3>3. CASE cr' = Unmanaged(cr)
      BY <2>1, <3>1, <3>3, ReleaseKeeps DEF CreateFailed
    <3>4. QED
      BY <3>1, <3>2, <3>3 DEF CreateFailed
  <2>4. QED
    BY <2>2, <2>3
<1>12. CASE sdkDelete
  <2>1. pc = "delete" /\ UNCHANGED cr /\ latest \in Resource
    BY <1>2, <1>12 DEF sdkDelete
  <2>2. CASE alias = Nil
    BY <1>4, <1>12, <2>1, <2>2, ReportTypes, ReturnKeeps DEF sdkDelete, Custodian
  <2>3. CASE alias # Nil
    <3>1. ~Running' /\ pc' = "unmanage"
      BY <1>12, <2>3 DEF sdkDelete, Running
    <3>2. QED
      BY <1>3, <2>1, <3>1 DEF KeepsCustody, Custody
  <2>4. QED
    BY <2>2, <2>3
<1>13. CASE MarkUnmanaged
  BY <1>4, <1>13, ReleaseKeeps DEF MarkUnmanaged
<1>14. CASE Persist
  <2>1. pc = "persist" /\ pc' = "idle" /\ Running' = Running /\ latest \in Resource
    BY <1>2, <1>4, <1>14 DEF Persist, Forget
  <2>2. CASE cr = Nil
    <3>1. ObjectState = "none" /\ ObjectState' = "none"
      BY <1>14, <2>2 DEF Persist, ObjectState
    <3>2. QED
      BY <2>1, <3>1 DEF KeepsCustody, Custody, Custodian, Held
  <2>3. CASE cr # Nil
    <3>1. cr' = [cr EXCEPT !.arn = latest.arn, !.conds = latest.conds]
      BY <1>14, <2>3 DEF Persist
    <3>2. /\ cr' \in Resource /\ cr'.arn = latest.arn
          /\ cr'.phase = cr.phase /\ cr'.managed = cr.managed
      BY <1>2, <2>1, <2>3, <3>1 DEF Resource
    <3>3. ObjectState' = ObjectState
      BY <2>3, <3>2, AliasConstants DEF ObjectState
    <3>4. QED
      BY <2>1, <3>2, <3>3 DEF KeepsCustody, Custody, Custodian, Held
  <2>4. QED
    BY <2>2, <2>3
<1>15. QED
  BY <1>5, <1>6, <1>7, <1>8, <1>9, <1>10, <1>11, <1>12, <1>13, <1>14 DEF Controller

LEMMA UserKeeps == ASSUME TypeOK, Custody, User PROVE KeepsCustody
<1> USE DEF pass
<1>1. UNCHANGED <<pc, desired, latest>> /\ Running' = Running
  BY DEF User, CreateCR, EditSpec, DeleteCR, Acts, Running
<1>2. cr # Nil => cr \in Resource
  BY DEF TypeOK, Ptr
<1>3. ASSUME NEW s \in Specs, CreateCR(s) PROVE KeepsCustody
  <2>1. cr = Nil /\ cr' = [phase |-> "live", spec |-> s, arn |-> Nil, managed |-> FALSE, conds |-> <<>>]
    BY <1>3 DEF CreateCR
  <2>2. cr' \in Resource /\ cr'.phase = "live" /\ cr'.managed = FALSE
    BY <2>1, AliasConstants DEF Resource, Ptr
  <2>3. cr' # Nil
    BY <2>2, AliasConstants
  <2>4. ObjectState = "none" /\ ObjectState' = "unmanaged"
    BY <2>1, <2>2, <2>3 DEF ObjectState
  <2>5. QED
    BY <1>1, <2>4 DEF KeepsCustody, Custodian, Custody, Changes, Held
<1>4. ASSUME NEW s \in Specs, EditSpec(s) PROVE KeepsCustody
  <2>1. cr' = [cr EXCEPT !.spec = s] /\ cr # Nil
    BY <1>4 DEF EditSpec
  <2>2. /\ cr' \in Resource /\ cr'.phase = cr.phase
        /\ cr'.managed = cr.managed /\ cr'.arn = cr.arn
    BY <1>2, <2>1, AliasConstants DEF Resource
  <2>3. ObjectState' = ObjectState
    BY <2>1, <2>2, AliasConstants DEF ObjectState
  <2>4. QED
    BY <1>1, <2>2, <2>3 DEF KeepsCustody, Custodian, Custody, Held
<1>5. CASE DeleteCR
  <2>1. /\ cr \in Resource /\ cr # Nil /\ cr.phase = "live"
        /\ cr' = IF cr.managed THEN [cr EXCEPT !.phase = "deleting"] ELSE Nil
    BY <1>2, <1>5 DEF DeleteCR
  <2>2. CASE cr.managed
    <3>1. cr' \in Resource /\ cr'.phase = "deleting" /\ cr'.arn = cr.arn
      BY <2>1, <2>2 DEF Resource
    <3>2. ObjectState = "managed" /\ ObjectState' = "deleting"
      BY <2>1, <2>2, <3>1, AliasConstants DEF ObjectState
    <3>3. QED
      BY <1>1, <3>1, <3>2 DEF KeepsCustody, Custodian, Custody, Held, Changes
  <2>3. CASE ~cr.managed
    <3>1. ObjectState = "unmanaged" /\ ObjectState' = "none"
      BY <2>1, <2>3 DEF ObjectState
    <3>2. QED
      BY <1>1, <3>1 DEF KeepsCustody, Custodian, Custody, Held, Changes
  <2>4. QED
    BY <2>2, <2>3
<1>6. QED
  BY <1>3, <1>4, <1>5 DEF User

LEMMA OtherClientsKeep == ASSUME Custody, OtherClients PROVE KeepsCustody
<1> USE DEF pass
<1>1. UNCHANGED <<cr, pc, desired, latest>> /\ (Running' => Running)
  BY DEF OtherClients, DriftRouting, PublishVersion, DeleteVersion, DeleteMachine, Drifts, Running
<1>2. ObjectState' = ObjectState /\ Held' = Held /\ Custodian' = Custodian
  BY <1>1 DEF ObjectState, Held, Custodian
<1>3. QED
  BY <1>1, <1>2 DEF KeepsCustody, Custody

\* A call fails; after a lost answer, a lost status or a crash nothing
\* is promised any more.
LEMMA FaultKeeps ==
  ASSUME TypeOK, Custody, ApiError \/ LostResponse \/ StatusPatchFails \/ Crash PROVE KeepsCustody
<1>1. Running' => Running
  <2>1. CASE ApiError
    BY <2>1 DEF ApiError, Fails, Running
  <2>2. CASE LostResponse \/ StatusPatchFails \/ Crash
    BY <2>2 DEF LostResponse, StatusPatchFails, Crash, Fails, Running
  <2>3. QED
    BY <2>1, <2>2
<1>2. /\ pc # "idle" => desired \in Resource
      /\ pc \in {"compare", "update", "delete", "persist"} => latest \in Resource
  BY DEF TypeOK, Ptr
<1>3. CASE pc = "describe" /\ Return(Failed(desired)) /\ UNCHANGED cr
  BY <1>1, <1>2, <1>3, ReportTypes, ReturnKeeps DEF Custodian
<1>4. CASE pc \in {"update", "delete"} /\ Return(Failed(latest)) /\ UNCHANGED cr
  BY <1>1, <1>2, <1>4, ReportTypes, ReturnKeeps DEF Custodian
<1>5. CASE pc = "create" /\ CreateFailed /\ cr' = cr
  BY <1>1, <1>2, <1>5, ReportTypes, ReturnKeeps DEF Custodian, CreateFailed
<1>6. CASE pc = "create" /\ CreateFailed /\ cr' = Unmanaged(cr)
  BY <1>1, <1>6, ReleaseKeeps DEF CreateFailed
<1>7. CASE pc \in {"manage", "unmanage"} /\ Forget /\ UNCHANGED cr
  BY <1>1, <1>7, ForgetKeeps
<1>8. CASE StatusPatchFails \/ Crash
  <2>1. ~Running' /\ pc' = "idle" /\ ObjectState' = ObjectState
    BY <1>8 DEF StatusPatchFails, Crash, Fails, Forget, Running, ObjectState
  <2>2. QED
    BY <2>1 DEF KeepsCustody, Custody
<1>9. QED
  BY <1>3, <1>4, <1>5, <1>6, <1>7, <1>8 DEF ApiError, LostResponse, CreateFailed

-----------------------------------------------------------------------------
(* The refinement.                                                         *)

LEMMA KeptIsAllowed ==
  ASSUME KeepsCustody PROVE [Managed!Next]_(Managed!vars)
<1> USE DEF Managed!Becomes, Running
<1>1. CASE ObjectState' = ObjectState /\ Running' = Running
  BY <1>1 DEF Managed!vars
<1>2. CASE ObjectState' = ObjectState /\ Running' /\ ~Running
  <2>1. Held
    BY <1>2 DEF KeepsCustody, Custody, Custodian, Held
  <2>2. QED
    BY <1>2, <2>1 DEF Managed!Next, Managed!Provision, Managed!Holds, Held
<1>3. CASE ObjectState' = ObjectState /\ ~Running' /\ Running
  BY <1>3 DEF Managed!Next, Managed!Vanish
<1>4. CASE Changes
  <2>1. Running' \in {Running, FALSE}
    BY <1>4 DEF Changes
  <2>2. CASE ObjectState = "none" /\ ObjectState' = "unmanaged"
    BY <2>1, <2>2 DEF Managed!Next, Managed!Submit
  <2>3. CASE ObjectState = "unmanaged" /\ ObjectState' = "managed"
    BY <2>1, <2>3 DEF Managed!Next, Managed!Claim
  <2>4. CASE \/ ObjectState = "unmanaged" /\ ObjectState' = "none"
             \/ ObjectState = "managed" /\ ObjectState' = "deleting"
    BY <2>1, <2>4 DEF Managed!Next, Managed!RequestDeletion
  <2>5. CASE /\ ~Running
             /\ \/ ObjectState = "managed" /\ ObjectState' = "unmanaged"
                \/ ObjectState = "deleting" /\ ObjectState' = "none"
    BY <2>1, <2>5 DEF Managed!Next, Managed!Release
  <2>6. QED
    BY <1>4, <2>2, <2>3, <2>4, <2>5 DEF Changes
<1>5. QED
  BY <1>1, <1>2, <1>3, <1>4 DEF KeepsCustody

\* As long as no answer is lost and no pass is cut short, for every spec and
\* routing: an alias runs only under the finalizer of its custom resource, also
\* when AWS refuses to create or to change it and the finalizer is taken back.
THEOREM AliasKeepsPromise == Spec => AliasKeepsFinalizerPromise
<1>1. Init => Custody
  BY DEF Init, Custody, Running
<1>2. Init => Managed!Init
  BY DEF Init, Managed!Init, ObjectState
<1>3. TypeOK /\ Custody /\ [Next]_vars => Custody' /\ [Managed!Next]_(Managed!vars)
  <2> SUFFICES ASSUME TypeOK, Custody, [Next]_vars
               PROVE  Custody' /\ [Managed!Next]_(Managed!vars)
    OBVIOUS
  <2>1. CASE UNCHANGED vars
    <3>1. ObjectState' = ObjectState /\ Held' = Held /\ Custodian' = Custodian
      BY <2>1 DEF vars, ObjectState, Held, Custodian
    <3>2. KeepsCustody
      BY <2>1, <3>1 DEF vars, KeepsCustody, Custody, Running
    <3>3. QED
      BY <3>2, KeptIsAllowed DEF KeepsCustody
  <2>2. CASE Next
    <3>1. KeepsCustody
      BY <2>2, ControllerKeeps, UserKeeps, OtherClientsKeep, FaultKeeps DEF Next
    <3>2. QED
      BY <3>1, KeptIsAllowed DEF KeepsCustody
  <2>3. QED
    BY <2>1, <2>2
<1>4. QED
  BY <1>1, <1>2, <1>3, AliasTypeCorrect, PTL
     DEF Spec, AliasKeepsFinalizerPromise, Managed!Spec
=============================================================================
