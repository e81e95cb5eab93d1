-------------------------- MODULE MCResolvedInputs --------------------------
(***************************************************************************)
(* Instances of ResolvedInputs for TLC.                                    *)
(***************************************************************************)
EXTENDS ResolvedInputs

Ref(named, namespace) == [from |-> [named |-> named, namespace |-> namespace]]
Uses(arn, ref) == [roleARN |-> arn, roleRef |-> ref]
Input(spec, adoption) == [spec |-> spec, adoption |-> adoption]

\* A role by reference, in the own and in another namespace, by its ARN, by
\* both, and by a reference that says nothing; the adoption of the state machine
\* of one region under either policy, and one whose annotation has no ARN.
MCInputs ==
  {Input(Uses(Nil, Ref(TRUE, Nil)), Nil),
   Input(Uses(Nil, [from |-> Nil]), Nil),
   Input(Uses("r1", Nil), [arn |-> "e1", orCreate |-> FALSE]),
   Input(Uses(Nil, Ref(TRUE, "other")), [arn |-> "e2", orCreate |-> TRUE]),
   Input(Uses("r1", Ref(TRUE, Nil)), [arn |-> Nil, orCreate |-> FALSE])}

Shows(terminal, synced, arn) == [terminal |-> terminal, synced |-> synced, arn |-> arn]

\* A Role is replaced by one with another ARN; "bad" is the ARN of Roles that
\* are terminal, or not synced.
MCRoleStates ==
  [n \in Namespaces |->
     IF n = "own" THEN {Nil, Shows(FALSE, TRUE, "r1"), Shows(FALSE, TRUE, "r2"),
                        Shows(TRUE, TRUE, "bad"), Shows(FALSE, FALSE, "bad"),
                        Shows(FALSE, TRUE, Nil)}
     ELSE {Shows(FALSE, TRUE, "r3")}]
=============================================================================
