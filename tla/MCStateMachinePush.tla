------------------------ MODULE MCStateMachinePush -------------------------
(***************************************************************************)
(* The instance of StateMachinePush for TLC.                               *)
(***************************************************************************)
EXTENDS StateMachinePush

\* The instance: no tags, so one key suffices; every optional field set,
\* unset, and set to a value other than AWS's default.
MCTagKeys == {"k"}
MCNoTags == [k \in MCTagKeys |-> Nil]
MCDestLists == {<<>>, <<"group">>}

MCLogging ==
  {Nil,
   [dests |-> Nil, ied |-> Nil, level |-> Nil],
   [dests |-> <<>>, ied |-> "true", level |-> Nil],
   [dests |-> <<"group">>, ied |-> Nil, level |-> "ERROR"],
   [dests |-> <<"group">>, ied |-> "true", level |-> "ALL"]}

MCSpecs ==
  [definition : Definitions, logging : MCLogging, name : Names,
   publish : {Nil, "true"}, roleARN : RoleARNs, roleRef : Ptr(RoleRefs), tags : {MCNoTags},
   tracing : {Nil, [enabled |-> Nil], [enabled |-> "true"]}, type : {Nil, "EXPRESS"}]

MCConfigs ==
  [definition : {[doc |-> d, fmt |-> f] : d \in Docs, f \in Formats},
   logging : {[dests |-> <<>>, ied |-> "false", level |-> "OFF"],
              [dests |-> <<"group">>, ied |-> "true", level |-> "ALL"]},
   name : Names, roleARN : RoleARNs, tracing : [enabled : Bools], type : Types]
=============================================================================
