------------------------- MODULE StateMachineFields -------------------------
(***************************************************************************)
(* The fields of a StateMachine and the four conversions they go through:  *)
(* custom resource -> CreateStateMachine / UpdateStateMachine request ->   *)
(* what AWS stores -> what DescribeStateMachine makes of a copy of the     *)
(* custom resource -> the delta between the two.                           *)
(*                                                                         *)
(* A pointer to a bool is "true", "false" or Nil.  A definition is a       *)
(* record [doc, fmt]: the document it denotes and how it is written, since *)
(* the delta compares definitions as documents and AWS keeps their text.   *)
(*                                                                         *)
(* Source: pkg/resource/state_machine/{sdk,hooks,delta}.go                 *)
(***************************************************************************)
EXTENDS ResourceTags, Sequences

CONSTANTS
  Docs, Formats,   \* a definition: its document, its formatting
  Names,           \* state machine names
  RoleARNs,        \* execution roles
  RoleRefs,        \* references to an IAM Role resource
  DestLists        \* lists of log destinations

Bools == {"true", "false"}
Levels == {"ALL", "ERROR", "FATAL", "OFF"}
Types == {"STANDARD", "EXPRESS"}

Definitions == [doc : Docs, fmt : Formats]
LoggingSpec == [dests : Ptr(DestLists), ied : Ptr(Bools), level : Ptr(Levels)]
LoggingRequest == [dests : Ptr(DestLists), ied : Bools, level : Levels \cup {""}]
TracingSpec == [enabled : Ptr(Bools)]

\* StateMachineSpec of apis/v1alpha1; definition and name are required.
StateMachineSpec ==
  [definition : Definitions, logging : Ptr(LoggingSpec), name : Names,
   publish : Ptr(Bools), roleARN : Ptr(RoleARNs), roleRef : Ptr(RoleRefs),
   tags : Tags, tracing : Ptr(TracingSpec), type : Ptr(Types)]

\* What AWS stores for a state machine besides its tags and versions.
Config ==
  [definition : Definitions,
   logging : [dests : DestLists, ied : Bools, level : Levels],
   name : Names, roleARN : Ptr(RoleARNs), tracing : [enabled : Bools], type : Types]

ASSUME FieldConstants ==
  /\ Nil \notin Bools \cup Levels \cup Types \cup Names \cup RoleARNs \cup RoleRefs
  /\ Nil \notin DestLists
  /\ Nil \notin Definitions
  /\ Nil \notin LoggingSpec \cup LoggingRequest
  /\ Nil \notin TracingSpec /\ Nil \notin Config
  /\ <<>> \in DestLists

-----------------------------------------------------------------------------
(* Requests.  A nil pointer leaves the SDK struct's zero value in place.   *)

LoggingPayload(l) ==
  IF l = Nil THEN Nil
  ELSE [dests |-> l.dests, ied |-> Deref(l.ied, "false"), level |-> Deref(l.level, "")]

TracingPayload(t) == IF t = Nil THEN Nil ELSE [enabled |-> Deref(t.enabled, "false")]

\* sdk.newCreateRequestPayload
newCreateRequestPayload(spec) ==
  [definition |-> spec.definition, logging |-> LoggingPayload(spec.logging),
   name |-> spec.name, publish |-> Deref(spec.publish, "false"),
   roleARN |-> spec.roleARN, tags |-> spec.tags,
   tracing |-> TracingPayload(spec.tracing), type |-> Deref(spec.type, "")]

\* A variant of the next definition with a field forgotten, the mistake
\* hooks.go 202-205 warns of; it only serves to show a run would notice.
UpdatePayloadWithoutTracing(spec) ==
  [definition |-> spec.definition, logging |-> LoggingPayload(spec.logging),
   publish |-> Deref(spec.publish, "false"), roleARN |-> spec.roleARN, tracing |-> Nil]

\* hooks.newUpdateRequestPayload: written by hand; no name, no type, no tags.
newUpdateRequestPayload(spec) ==
  [definition |-> spec.definition, logging |-> LoggingPayload(spec.logging),
   publish |-> Deref(spec.publish, "false"), roleARN |-> spec.roleARN,
   tracing |-> TracingPayload(spec.tracing)]

-----------------------------------------------------------------------------
(* AWS Step Functions (external).  Create fills in the defaults the API    *)
(* documents: logging OFF, tracing disabled, type STANDARD.  Update leaves *)
(* alone what the request omits.                                           *)

StoredLogging(l) ==
  [dests |-> Deref(l.dests, <<>>), ied |-> l.ied,
   level |-> IF l.level = "" THEN "OFF" ELSE l.level]

CreateConfig(req) ==
  [definition |-> req.definition,
   logging |-> IF req.logging = Nil
                 THEN [dests |-> <<>>, ied |-> "false", level |-> "OFF"]
                 ELSE StoredLogging(req.logging),
   name |-> req.name, roleARN |-> req.roleARN,
   tracing |-> Deref(req.tracing, [enabled |-> "false"]),
   type |-> IF req.type = "" THEN "STANDARD" ELSE req.type]

UpdateConfig(cfg, req) ==
  [definition |-> req.definition,
   logging |-> IF req.logging = Nil THEN cfg.logging ELSE StoredLogging(req.logging),
   name |-> cfg.name, roleARN |-> Deref(req.roleARN, cfg.roleARN),
   tracing |-> Deref(req.tracing, cfg.tracing),
   type |-> cfg.type]

-----------------------------------------------------------------------------
\* sdk.sdkFind, lines that merge the DescribeStateMachine response into a copy
\* of the custom resource.  publish and roleRef are not in the response and
\* survive from the copy; the tags are read by a call of their own.
DescribeInto(spec, cfg) ==
  [spec EXCEPT !.definition = cfg.definition,
               !.logging = [dests |-> cfg.logging.dests, ied |-> cfg.logging.ied,
                            level |-> cfg.logging.level],
               !.name = cfg.name, !.roleARN = cfg.roleARN,
               !.tracing = [enabled |-> cfg.tracing.enabled], !.type = cfg.type]

-----------------------------------------------------------------------------
(* The delta: the set of paths that differ.  a is desired, b is latest.    *)

Differs(path, a, b) == IF a # b THEN {path} ELSE {}

LoggingDelta(a, b) ==
  IF (a = Nil) # (b = Nil) THEN {"Spec.LoggingConfiguration"}
  ELSE IF a = Nil THEN {}
  ELSE Differs("Spec.LoggingConfiguration.Destinations",
               Deref(a.dests, <<>>), Deref(b.dests, <<>>))
       \cup Differs("Spec.LoggingConfiguration.IncludeExecutionData", a.ied, b.ied)
       \cup Differs("Spec.LoggingConfiguration.Level", a.level, b.level)

TracingDelta(a, b) ==
  IF (a = Nil) # (b = Nil) THEN {"Spec.TracingConfiguration"}
  ELSE IF a = Nil THEN {}
  ELSE Differs("Spec.TracingConfiguration.Enabled", a.enabled, b.enabled)

\* Variant: nothing is owed, so that publish alone never causes an update.
TagsCompareOnly(a, b, bver) ==
  IF TagsAdded(b.tags, a.tags) \cup TagsRemoved(b.tags, a.tags) # {}
    THEN {"Spec.Tags"} ELSE {}

\* hooks.customPreCompare: the two comparisons the generated code leaves out.
\* A publish is owed when the user wants versions and none is recorded.
customPreCompare(a, b, bver) ==
  (IF TagsAdded(b.tags, a.tags) \cup TagsRemoved(b.tags, a.tags) # {}
     THEN {"Spec.Tags"} ELSE {})
  \cup (IF a.publish = "true" /\ bver = Nil THEN {"Spec.Publish"} ELSE {})

\* delta.newResourceDelta over the two specs and latest's recorded version ARN.
newResourceDelta(a, b, bver) ==
  customPreCompare(a, b, bver)
  \cup Differs("Spec.Definition", a.definition.doc, b.definition.doc)
  \cup LoggingDelta(a.logging, b.logging)
  \cup Differs("Spec.Name", a.name, b.name)
  \cup Differs("Spec.RoleARN", a.roleARN, b.roleARN)
  \cup Differs("Spec.RoleRef", a.roleRef, b.roleRef)
  \cup TracingDelta(a.tracing, b.tracing)
  \cup Differs("Spec.Type", a.type, b.type)

\* Delta.DifferentAt and Delta.DifferentExcept (runtime library) on the paths
\* the controller asks about; every path is under Spec.
DifferentAtSpec(delta) == delta # {}
DifferentAtTags(delta) == "Spec.Tags" \in delta
DifferentExceptTags(delta) == delta \ {"Spec.Tags"} # {}

-----------------------------------------------------------------------------
(* A reference definition for the conversions, stated on the spec alone:   *)
(* the paths no push can bring into agreement.  An optional field the user *)
(* omits is not sent, so AWS reports a value where the spec has none; the  *)
(* name and the type are not part of an update.                            *)
UnpushablePaths(spec, cfg) ==
  (IF spec.logging = Nil THEN {"Spec.LoggingConfiguration"}
   ELSE (IF spec.logging.ied = Nil
           THEN {"Spec.LoggingConfiguration.IncludeExecutionData"} ELSE {})
        \cup (IF spec.logging.level = Nil
                THEN {"Spec.LoggingConfiguration.Level"} ELSE {}))
  \cup (IF spec.tracing = Nil THEN {"Spec.TracingConfiguration"}
        ELSE IF spec.tracing.enabled = Nil
               THEN {"Spec.TracingConfiguration.Enabled"} ELSE {})
  \cup (IF spec.type # cfg.type THEN {"Spec.Type"} ELSE {})
  \cup (IF spec.name # cfg.name THEN {"Spec.Name"} ELSE {})
  \cup (IF spec.roleARN = Nil /\ cfg.roleARN # Nil THEN {"Spec.RoleARN"} ELSE {})

\* What reading cfg back shows of a spec is what no push can remove, and the
\* publish that is owed while no version is on record.
OnlyUnpushableLeft(spec, cfg, version) ==
  newResourceDelta(spec, DescribeInto(spec, cfg), version) =
    UnpushablePaths(spec, cfg)
      \cup (IF spec.publish = "true" /\ version = Nil THEN {"Spec.Publish"} ELSE {})
=============================================================================
