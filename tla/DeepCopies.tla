----------------------------- MODULE DeepCopies -----------------------------
(***************************************************************************)
(* Custom resources as they are in the memory of the controller: structs   *)
(* whose optional fields are pointers and whose lists are slices of        *)
(* pointers, so that two resources may share parts, and DeepCopy, which    *)
(* every copy of a pass is made with.                                      *)
(*                                                                         *)
(* A heap maps addresses to cells.  A cell holds a string, a struct, or    *)
(* the elements of a slice; strings stand for every other scalar type.  An *)
(* address is the number of an allocation and a path in what was allocated.*)
(* The metadata of the objects and the types of the runtime library are    *)
(* external.                                                               *)
(*                                                                         *)
(* Source: apis/v1alpha1/zz_generated.deepcopy.go                          *)
(***************************************************************************)
EXTENDS Pointers, Sequences, Naturals, FiniteSetsExt, TLC

Scalar == [kind |-> "scalar"]
PointerTo(t) == [kind |-> "pointer", to |-> t]
SliceOf(t) == [kind |-> "slice", of |-> t]
Struct(fields) == [kind |-> "struct", fields |-> fields]

String == PointerTo(Scalar)

-----------------------------------------------------------------------------
(* The types of the three kinds.                                           *)

Tag == Struct([key |-> String, value |-> String])
CloudWatchLogsLogGroup == Struct([logGroupARN |-> String])
LogDestination == Struct([cloudWatchLogsLogGroup |-> PointerTo(CloudWatchLogsLogGroup)])
LoggingConfiguration ==
  Struct([destinations |-> SliceOf(PointerTo(LogDestination)),
          includeExecutionData |-> String, level |-> String])
TracingConfiguration == Struct([enabled |-> String])
RoutingConfigurationListItem == Struct([stateMachineVersionARN |-> String, weight |-> String])

\* Types of the runtime library.
AWSResourceReferenceWrapper ==
  Struct([from |-> PointerTo(Struct([name |-> String, namespace |-> String]))])
ResourceMetadata ==
  Struct([arn |-> String, ownerAccountID |-> String, partition |-> String, region |-> String])
Condition == Struct([type |-> Scalar, status |-> Scalar, message |-> String])

StateMachineSpec ==
  Struct([definition |-> String, loggingConfiguration |-> PointerTo(LoggingConfiguration),
          name |-> String, publish |-> String, roleARN |-> String,
          roleRef |-> PointerTo(AWSResourceReferenceWrapper), tags |-> SliceOf(PointerTo(Tag)),
          tracingConfiguration |-> PointerTo(TracingConfiguration), type |-> String])

StateMachineStatus ==
  Struct([ackResourceMetadata |-> PointerTo(ResourceMetadata),
          conditions |-> SliceOf(PointerTo(Condition)), creationDate |-> String,
          revisionID |-> String, stateMachineVersionARN |-> String])

ActivitySpec == Struct([name |-> String, tags |-> SliceOf(PointerTo(Tag))])

StateMachineAliasSpec ==
  Struct([description |-> String, name |-> String,
          routingConfiguration |-> SliceOf(PointerTo(RoutingConfigurationListItem))])

ActivityStatus ==
  Struct([ackResourceMetadata |-> PointerTo(ResourceMetadata),
          conditions |-> SliceOf(PointerTo(Condition)), creationDate |-> String])

StateMachineAliasStatus == ActivityStatus

StateMachine == Struct([spec |-> StateMachineSpec, status |-> StateMachineStatus])
Activity == Struct([spec |-> ActivitySpec, status |-> ActivityStatus])
StateMachineAlias == Struct([spec |-> StateMachineAliasSpec, status |-> StateMachineAliasStatus])

-----------------------------------------------------------------------------
(* Reading.                                                                *)

RECURSIVE Tree(_, _, _)

\* What a value of type t amounts to with every pointer followed.
Tree(heap, v, t) ==
  CASE t.kind = "scalar" -> v
    [] t.kind = "struct" -> [f \in DOMAIN t.fields |-> Tree(heap, v[f], t.fields[f])]
    [] t.kind = "pointer" -> IF v = Nil THEN Nil ELSE Tree(heap, heap[v], t.to)
    [] t.kind = "slice" ->
         IF v = Nil THEN Nil ELSE [i \in DOMAIN heap[v] |-> Tree(heap, heap[v][i], t.of)]

-----------------------------------------------------------------------------
(* Allocating.                                                             *)

In(at, part) == <<at[1], Append(at[2], part)>>

\* The address of the next allocation.
Fresh(heap) == <<Max({a[1] : a \in DOMAIN heap}) + 1, <<>>>>

\* A heap with new cells, pairs of an address and a content.
With(heap, cells) ==
  LET new == {c[1] : c \in cells} IN
  [a \in DOMAIN heap \cup new |->
     IF a \in new THEN (CHOOSE c \in cells : c[1] = a)[2] ELSE heap[a]]

\* What v points to.  A literal, with Nil for its heap, has its parts in place.
Target(heap, v) == IF heap = Nil THEN v ELSE heap[v]

-----------------------------------------------------------------------------
(* Copying: a value of type t, whose copy is allocated at an address.      *)

RECURSIVE Out(_, _, _), Cells(_, _, _, _)

\* What is in the place of v: *out = *in, and a new address for every field
\* that is a pointer or a slice and not nil.
Out(at, v, t) ==
  IF t.kind = "struct" THEN [f \in DOMAIN t.fields |-> Out(In(at, f), v[f], t.fields[f])]
  ELSE IF t.kind = "scalar" \/ v = Nil THEN v
  ELSE at

\* The elements of a slice and the cells of their copies.
Elements(heap, at, in, t) ==
  {<<at, [i \in DOMAIN in |-> Out(In(at, ToString(i)), in[i], t)]>>}
    \cup UNION {Cells(heap, In(at, ToString(i)), in[i], t) : i \in DOMAIN in}

\* Variant: the elements of a slice are copied, but not what they point to.
ElementsShared(heap, at, v, t) ==
  IF heap = Nil THEN Elements(heap, at, v, t.of) ELSE {<<at, heap[v]>>}

\* A slice: make, then the loop over the elements.
CopySlice(heap, at, v, t) == Elements(heap, at, Target(heap, v), t.of)

\* A pointer: new, then the assignment or the DeepCopyInto of what it points to.
CopyPointer(heap, at, v, t) ==
  LET in == Target(heap, v) IN
  {<<at, Out(In(at, "*"), in, t.to)>>} \cup Cells(heap, In(at, "*"), in, t.to)

\* The cells that the copy of v takes.
Cells(heap, at, v, t) ==
  IF t.kind = "struct" THEN UNION {Cells(heap, In(at, f), v[f], t.fields[f]) : f \in DOMAIN t.fields}
  ELSE IF t.kind = "scalar" \/ v = Nil THEN {}
  ELSE IF t.kind = "pointer" THEN CopyPointer(heap, at, v, t)
  ELSE CopySlice(heap, at, v, t)

\* DeepCopy of the object at an address, and an object decoded from a literal:
\* the new heap and the address.
DeepCopy(heap, ko, t) ==
  [heap |-> With(heap, Cells(heap, Fresh(heap), ko, PointerTo(t))), val |-> Fresh(heap)]

Alloc(heap, literal, t) ==
  [heap |-> With(heap, Cells(Nil, Fresh(heap), literal, t)), val |-> Out(Fresh(heap), literal, t)]

New(heap, cell) == [heap |-> With(heap, {<<Fresh(heap), cell>>}), val |-> Fresh(heap)]
=============================================================================
