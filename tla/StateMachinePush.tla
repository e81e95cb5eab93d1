-------------------------- MODULE StateMachinePush --------------------------
(***************************************************************************)
(* The conversions of StateMachineFields put through their use: from a     *)
(* spec and a stored configuration, or none, one push of the spec, then    *)
(* the delta the next reconcile pass would compute.                        *)
(*                                                                         *)
(* Source: pkg/resource/state_machine/{sdk,hooks,delta}.go                 *)
(***************************************************************************)
EXTENDS StateMachineFields

CONSTANTS
  PushedSpecs,    \* the specs a user may write
  StoredConfigs   \* the configurations AWS may have stored

ASSUME PushConstants == PushedSpecs \subseteq StateMachineSpec /\ StoredConfigs \subseteq Config

VARIABLES
  userSpec,   \* the spec of the custom resource
  stored,     \* the configuration of the state machine in AWS, or Nil
  lastCall    \* the call made last: "none", "create" or "update"

pushVars == <<userSpec, stored, lastCall>>

PushInit == userSpec \in PushedSpecs /\ stored \in StoredConfigs \cup {Nil} /\ lastCall = "none"

\* One reconcile pass: read, compare, and push when something differs.
Delta == newResourceDelta(userSpec, DescribeInto(userSpec, stored), Nil)

Create ==
  /\ stored = Nil
  /\ stored' = CreateConfig(newCreateRequestPayload(userSpec))
  /\ lastCall' = "create" /\ UNCHANGED userSpec

Update ==
  /\ stored # Nil /\ DifferentAtSpec(Delta)
  /\ stored' = UpdateConfig(stored, newUpdateRequestPayload(userSpec))
  /\ lastCall' = "update" /\ UNCHANGED userSpec

Settled ==
  /\ stored # Nil /\ ~DifferentAtSpec(Delta)
  /\ UNCHANGED pushVars

PushNext == Create \/ Update \/ Settled
PushSpec == PushInit /\ [][PushNext]_pushVars

\* After a push, the next reconcile pass sees exactly the differences that no
\* push can remove: what the spec omits and AWS fills in, and the immutable
\* name and type, and the publish it owes.  In particular no field of the spec
\* is missing from the hand-written update payload (hooks.go 200-205), and the
\* delta reports no difference for a formatting of the definition (delta.go 49).
PushLeavesOnlyUnpushable == lastCall # "none" => OnlyUnpushableLeft(userSpec, stored, Nil)

\* "an unchanged spec produces no delta" (test/e2e/tests/test_state_machine.py
\* 342-343): once a spec that owes no publish is pushed, reading it back shows
\* nothing to update.
UnchangedSpecHasNoDelta == lastCall # "none" /\ userSpec.publish = Nil => Delta = {}
=============================================================================
