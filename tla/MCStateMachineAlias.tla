------------------------ MODULE MCStateMachineAlias -------------------------
(***************************************************************************)
(* Instances of StateMachineAlias for TLC.  A weight of the API has 8 bits *)
(* here, so that 127 is the largest one and 356 would become 100.          *)
(***************************************************************************)
EXTENDS StateMachineAlias

Item(v, w) == [version |-> v, weight |-> w]

\* One version, two versions, an unset weight, weights that do not add up, and
\* weights at and beyond the range of the API.
MCSpecs ==
  {[description |-> "x", routing |-> <<Item("v2", 100)>>],
   [description |-> Nil, routing |-> <<Item("v1", 60), Item("v2", 40)>>],
   [description |-> "x", routing |-> <<Item("v2", Nil), Item("v1", 100)>>],
   [description |-> "y", routing |-> <<Item("v1", 127)>>],
   [description |-> "y", routing |-> <<Item("v1", 356)>>]}

MCDriftRoutings == {<<Item("v1", 30), Item("v2", 70)>>}
=============================================================================
