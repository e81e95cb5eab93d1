----------------------- MODULE ManagedResourceProofs ------------------------
(***************************************************************************)
(* What every implementation of ManagedResource inherits, for any number   *)
(* of owners.                                                              *)
(***************************************************************************)
EXTENDS ManagedResource, TLAPS

\* The objects of all owners are in one of the four states, so that a change
\* of one owner leaves the others as they were.
Typed == object \in [Owners -> ObjectStates]

Inv == Typed /\ HeldWhileRunning

LEMMA HeldStep == ASSUME Inv, Next PROVE Inv'
<1> USE DEF Inv, Typed, HeldWhileRunning, Holds, ObjectStates
<1>1. ASSUME NEW o \in Owners, Submit(o) \/ Adopt(o) \/ Claim(o) \/ RequestDeletion(o)
      PROVE  Inv'
  <2>1. PICK s \in ObjectStates : object' = [object EXCEPT ![o] = s]
    BY <1>1 DEF Submit, Adopt, Claim, RequestDeletion, Becomes
  <2>2. ASSUME NEW p \in Owners, Holds(p) PROVE Holds(p)'
    BY <1>1, <2>2 DEF Submit, Adopt, Claim, RequestDeletion, Becomes
  <2>3. running' => running
    BY <1>1 DEF Submit, Adopt, Claim, RequestDeletion, Becomes
  <2>4. QED
    BY <2>1, <2>2, <2>3
<1>2. ASSUME NEW o \in Owners, Release(o) PROVE Inv'
  <2>1. PICK s \in ObjectStates : object' = [object EXCEPT ![o] = s]
    BY <1>2 DEF Release, Becomes
  <2>2. running' => running
    BY <1>2 DEF Release, Becomes
  <2>3. running => \E p \in Owners \ {o} : Holds(p)
    BY <1>2 DEF Release
  <2>4. \A p \in Owners \ {o} : Holds(p) => Holds(p)'
    BY <2>1
  <2>5. QED
    BY <2>1, <2>2, <2>3, <2>4
<1>3. CASE Provision \/ Vanish
  BY <1>3 DEF Provision, Vanish
<1>4. QED
  BY <1>1, <1>2, <1>3 DEF Next

\* Whoever keeps the promise of the finalizer (descriptor.go MarkManaged) never
\* has a running AWS resource without a custom resource that holds it.
THEOREM PromiseHolds == Spec => []HeldWhileRunning
<1>1. Init => Inv
  BY DEF Init, Inv, Typed, HeldWhileRunning, ObjectStates
<1>2. Inv /\ [Next]_vars => Inv'
  <2> SUFFICES ASSUME Inv, [Next]_vars PROVE Inv'
    OBVIOUS
  <2>1. CASE UNCHANGED vars
    BY <2>1 DEF vars, Inv, Typed, HeldWhileRunning, Holds
  <2>2. QED
    BY <2>1, HeldStep
<1>3. Inv => HeldWhileRunning
  BY DEF Inv
<1>4. QED
  BY <1>1, <1>2, <1>3, PTL DEF Spec
=============================================================================
