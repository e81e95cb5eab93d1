-------------------------- MODULE ManagedResource ---------------------------
(***************************************************************************)
(* What the finalizer promises, without passes, calls or statuses: an AWS  *)
(* resource and the custom resources that stand for it, its owners.  "The  *)
(* underlying CR may not be deleted until ACK is finished cleaning up any  *)
(* backend AWS service resources associated with the CR" (MarkManaged in   *)
(* pkg/resource/*/descriptor.go): the resource comes into being while an   *)
(* owner holds it, and its last owner lets go of it only when it is gone.  *)
(*                                                                         *)
(* StateMachine, Activity, StateMachineAlias and ResolvedInputs implement  *)
(* it.                                                                     *)
(***************************************************************************)
CONSTANT Owners   \* the custom resources that stand for the resource

VARIABLES
  object,   \* owner -> what the API server has of it
  running   \* is there an AWS resource that nobody has begun to delete

vars == <<object, running>>

\* A custom resource without finalizer, with it, and waiting to lose it.
ObjectStates == {"none", "unmanaged", "managed", "deleting"}

Holds(o) == object[o] \in {"managed", "deleting"}

Init == object = [o \in Owners |-> "none"] /\ running = FALSE

\* The resource may vanish at any time, also together with a change of an owner.
Becomes(o, from, to) ==
  object[o] = from /\ object' = [object EXCEPT ![o] = to] /\ running' \in {running, FALSE}

Submit(o) == Becomes(o, "none", "unmanaged")
\* A custom resource made of what is in AWS comes with its finalizer.
Adopt(o) == Becomes(o, "none", "managed")
Claim(o) == Becomes(o, "unmanaged", "managed")
RequestDeletion(o) == Becomes(o, "managed", "deleting") \/ Becomes(o, "unmanaged", "none")

\* The last owner may only go after the resource.
Release(o) ==
  /\ running => \E p \in Owners \ {o} : Holds(p)
  /\ Becomes(o, "managed", "unmanaged") \/ Becomes(o, "deleting", "none")

Provision == (\E o \in Owners : Holds(o)) /\ running' = TRUE /\ UNCHANGED object

\* Deleted by an owner, or by somebody else.
Vanish == running' = FALSE /\ UNCHANGED object

Next ==
  \/ \E o \in Owners : Submit(o) \/ Adopt(o) \/ Claim(o) \/ RequestDeletion(o) \/ Release(o)
  \/ Provision \/ Vanish

Spec == Init /\ [][Next]_vars

-----------------------------------------------------------------------------
\* What follows from the promise: a running resource has an owner that holds it.
HeldWhileRunning == running => \E o \in Owners : Holds(o)
=============================================================================
