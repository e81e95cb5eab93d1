----------------------------- MODULE MCObjects ------------------------------
(***************************************************************************)
(* Instances of Objects for TLC: of every kind a custom resource that sets *)
(* all it can, with two elements in every list, and one that sets little.  *)
(***************************************************************************)
EXTENDS Objects

MCKinds == {"StateMachine", "Activity", "StateMachineAlias"}

MCTag(k) == [key |-> k, value |-> "v"]
Destination(g) == [cloudWatchLogsLogGroup |-> [logGroupARN |-> g]]

FullStateMachine ==
  [definition |-> "d", name |-> "n", publish |-> "true", roleARN |-> Nil,
   loggingConfiguration |->
     [destinations |-> <<Destination("g1"), Destination("g2")>>,
      includeExecutionData |-> "true", level |-> "ALL"],
   roleRef |-> [from |-> [name |-> "role", namespace |-> Nil]],
   tags |-> <<MCTag("t1"), MCTag("t2")>>,
   tracingConfiguration |-> [enabled |-> "true"], type |-> "STANDARD"]

SmallStateMachine ==
  [FullStateMachine EXCEPT !.publish = Nil, !.roleARN = "r", !.roleRef = Nil, !.tags = Nil,
     !.loggingConfiguration = Nil, !.tracingConfiguration = Nil, !.type = Nil]

Route(v, w) == [stateMachineVersionARN |-> v, weight |-> w]

MCFirstSpecs ==
  [k \in MCKinds |->
     CASE k = "StateMachine" -> {FullStateMachine, SmallStateMachine}
       [] k = "Activity" ->
            {[name |-> "n", tags |-> <<MCTag("t1"), MCTag("t2")>>], [name |-> "n", tags |-> Nil]}
       [] OTHER ->
            {[description |-> "x", name |-> "n",
              routingConfiguration |-> <<Route("v1", "40"), Route("v2", "60")>>],
             [description |-> Nil, name |-> "n", routingConfiguration |-> <<Route("v1", Nil)>>]}]
=============================================================================
