----------------------------- MODULE Conditions -----------------------------
(***************************************************************************)
(* The conditions a resource manager leaves in the status of a custom      *)
(* resource.  They are a list that survives from pass to pass, other       *)
(* writers add conditions of their own to it, and every call of the        *)
(* manager ends in onError or onSuccess, which edit it in place.           *)
(*                                                                         *)
(* Source: pkg/resource/state_machine/{sdk,manager}.go; the code generated *)
(* for the other two kinds is the same.                                    *)
(***************************************************************************)
EXTENDS Pointers, Sequences, Naturals

\* ackerr.NotFound, an ackerr.TerminalError, and any other error.
Errors == {"NotFound", "TerminalError", "Failure"}

ASSUME ConditionConstants == Nil \notin Errors

ConditionTypes == {"ACK.Terminal", "ACK.Recoverable", "ACK.ResourceSynced"}
Condition ==
  [type : ConditionTypes, status : {"True", "False"}, message : Ptr(Errors)]

HasCondition(conds, t) == \E i \in DOMAIN conds : conds[i].type = t

\* The loop over the conditions keeps the last one of a type.
ConditionAt(conds, t) ==
  CHOOSE i \in DOMAIN conds :
    conds[i].type = t /\ \A j \in DOMAIN conds : conds[j].type = t => j =< i

\* Sets the condition of type t, which is appended if there is none.
WithCondition(conds, t, status, message) ==
  LET new == [type |-> t, status |-> status, message |-> message] IN
  IF HasCondition(conds, t)
    THEN [conds EXCEPT ![ConditionAt(conds, t)] = new]
    ELSE Append(conds, new)

\* Turns the condition of type t off if there is one.
Cleared(conds, t) ==
  IF HasCondition(conds, t) THEN WithCondition(conds, t, "False", Nil) ELSE conds

IsTrue(conds, t) == \E i \in DOMAIN conds : conds[i].type = t /\ conds[i].status = "True"

\* sdk.updateConditions.  No AWS error is terminal for these kinds
\* (terminalAWSError).  A terminal error leaves the recoverable condition alone.
updateConditions(conds, err) ==
  IF err = "TerminalError" THEN WithCondition(conds, "ACK.Terminal", "True", err)
  ELSE LET c == Cleared(conds, "ACK.Terminal") IN
       IF err # Nil THEN WithCondition(c, "ACK.Recoverable", "True", err)
       ELSE Cleared(c, "ACK.Recoverable")

\* manager.onError: the conditions, and the error the runtime gets to see.
onError(conds, err) ==
  LET c == updateConditions(conds, err) IN
  [conds |-> c, err |-> IF IsTrue(c, "ACK.Terminal") THEN "Terminal" ELSE err]

\* Variant: nothing is updated after a success.
SuccessKeeps(conds) == conds

\* manager.onSuccess
onSuccess(conds) == updateConditions(conds, Nil)
=============================================================================
