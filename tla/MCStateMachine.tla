--------------------------- MODULE MCStateMachine ---------------------------
(***************************************************************************)
(* Instances of StateMachine for TLC.  "u" is a tag key of the user's, "d" *)
(* the key of the controller's default tag, "a" an "aws:" key.             *)
(***************************************************************************)
EXTENDS StateMachine

MCTagKeys == {"u", "d", "a"}
MCTags(u, d, a) == [k \in MCTagKeys |-> CASE k = "u" -> u [] k = "d" -> d [] OTHER -> a]
MCDefaultTags == MCTags(Nil, "v1", Nil)
MCDestLists == {<<>>, <<"group">>}

\* A spec that sets every optional field, and one that sets none.
Full(doc, publish, tags) ==
  [definition |-> [doc |-> doc, fmt |-> "f1"],
   logging |-> [dests |-> <<"group">>, ied |-> "true", level |-> "ALL"],
   name |-> "sm", publish |-> publish, roleARN |-> "role1", roleRef |-> Nil,
   tags |-> tags, tracing |-> [enabled |-> "true"], type |-> "STANDARD"]

Minimal(doc, publish, tags) ==
  [Full(doc, publish, tags) EXCEPT !.logging = Nil, !.tracing = Nil, !.type = Nil]

NoneSet == MCTags(Nil, Nil, Nil)

\* Publishing on, off and on again over two documents; one spec leaves the
\* optional fields to AWS, so that every pass has a delta.
PublishSpecs ==
  {Full("d1", "true", NoneSet), Full("d2", "false", NoneSet), Minimal("d2", "true", NoneSet)}

\* Specs over two documents, with other values for the same tags: a tag
\* removed, one changed, the default tag overridden.
TagSpecs ==
  {Full("d1", Nil, MCTags("v1", Nil, Nil)), Full("d1", "true", MCTags(Nil, "v2", Nil)),
   Minimal("d2", Nil, MCTags("v2", Nil, Nil))}

\* Another client changes the document and the tracing, or only reformats.
MCDriftConfigs ==
  {CreateConfig(newCreateRequestPayload(Minimal("d2", Nil, NoneSet))),
   [CreateConfig(newCreateRequestPayload(Full("d1", Nil, NoneSet)))
      EXCEPT !.definition.fmt = "f2"]}

\* CloudFormation adopts the state machine; another client drops every tag.
MCDriftTags == {MCTags("v1", "v1", "v1"), MCTags(Nil, Nil, "v2"), NoneSet}
=============================================================================
