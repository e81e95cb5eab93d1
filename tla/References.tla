----------------------------- MODULE References -----------------------------
(***************************************************************************)
(* The reference of a StateMachine to the IAM Role resource it runs as.    *)
(* A spec gives either roleARN or roleRef; before a pass does anything     *)
(* else, the reference is resolved into the ARN that the Role resource     *)
(* shows in its status, and before the spec is written back to the cluster *)
(* that ARN is removed again.                                              *)
(*                                                                         *)
(* Source: pkg/resource/state_machine/references.go; the other two kinds   *)
(* have no references.                                                     *)
(***************************************************************************)
EXTENDS Pointers

CONSTANTS
  Namespaces,     \* the namespaces of the cluster; each has one Role resource
  OwnNamespace,   \* the namespace of the custom resource
  RoleARNs        \* IAM roles

\* A Role resource of the IAM controller: is ACK.Terminal True, is
\* ACK.ResourceSynced True, and the ARN in its status.
Role == [terminal : BOOLEAN, synced : BOOLEAN, arn : Ptr(RoleARNs)]

\* spec.roleRef; a reference is unnamed when its name is nil or empty.
RoleRef == [from : Ptr([named : BOOLEAN, namespace : Ptr(Namespaces)])]

\* The two fields of a StateMachineSpec that say which role to use.
RoleSpec == [roleARN : Ptr(RoleARNs), roleRef : Ptr(RoleRef)]

ReferenceErrors ==
  {"BothSet", "NoneSet", "EmptyReference", "CrossNamespace", "RoleNotFound",
   "RoleTerminal", "RoleNotSynced", "MissingTargetField"}

ASSUME ReferenceConstants ==
  /\ OwnNamespace \in Namespaces
  /\ Nil \notin Namespaces \cup RoleARNs \cup ReferenceErrors \cup Role
  /\ Nil \notin RoleRef \cup [named : BOOLEAN, namespace : Ptr(Namespaces)]

-----------------------------------------------------------------------------
\* Variant: the resolved ARN stays in the spec.
ResolvedKept(spec) == spec

ClearResolvedReferences(spec) ==
  IF spec.roleRef # Nil THEN [spec EXCEPT !.roleARN = Nil] ELSE spec

validateReferenceFields(spec) ==
  IF spec.roleRef # Nil /\ spec.roleARN # Nil THEN "BothSet"
  ELSE IF spec.roleRef = Nil /\ spec.roleARN = Nil THEN "NoneSet"
  ELSE Nil

\* ackrt.ValidateCrossNamespaceReference (runtime library), with the flag
\* --enable-cross-namespace.
CrossNamespaceAllowed(enabled, namespace) ==
  enabled \/ namespace = Nil \/ namespace = OwnNamespace

\* Variant: a Role that shows an ARN is used whatever its conditions say.
AnyRoleWithARN(role) ==
  IF role = Nil THEN "RoleNotFound"
  ELSE IF role.arn = Nil THEN "MissingTargetField" ELSE Nil

\* The error for a Role resource that cannot be used, Nil for one that can.
getReferencedResourceState_Role(role) ==
  IF role = Nil THEN "RoleNotFound"
  ELSE IF role.terminal THEN "RoleTerminal"
  ELSE IF ~role.synced THEN "RoleNotSynced"
  ELSE IF role.arn = Nil THEN "MissingTargetField"
  ELSE Nil

\* The spec and the error.  A reference without "from" is left as it is.
resolveReferenceForRoleARN(enabled, spec, roles) ==
  LET from == spec.roleRef.from
      role == roles[Deref(from.namespace, OwnNamespace)]
      err  == IF ~from.named THEN "EmptyReference"
              ELSE IF ~CrossNamespaceAllowed(enabled, from.namespace) THEN "CrossNamespace"
              ELSE getReferencedResourceState_Role(role)
  IN IF spec.roleRef = Nil THEN [spec |-> spec, err |-> Nil]
     ELSE IF from = Nil THEN [spec |-> spec, err |-> Nil]
     ELSE IF err # Nil THEN [spec |-> spec, err |-> err]
     ELSE [spec |-> [spec EXCEPT !.roleARN = role.arn], err |-> Nil]

\* The fields are validated first, but an error of the resolution hides the one
\* of the validation.
ResolveReferences(enabled, spec, roles) ==
  LET r == resolveReferenceForRoleARN(enabled, spec, roles) IN
  [spec |-> r.spec, err |-> Deref(r.err, validateReferenceFields(spec))]
=============================================================================
