----------------------------- MODULE MCActivity -----------------------------
(***************************************************************************)
(* Instances of Activity for TLC: "u" is a tag key of the user's, "d" the  *)
(* controller's default tag, "a" an "aws:" key.                            *)
(***************************************************************************)
EXTENDS Activity

MCTagKeys == {"u", "d", "a"}
MCTags(u, d, a) == [k \in MCTagKeys |-> CASE k = "u" -> u [] k = "d" -> d [] OTHER -> a]
MCDefaultTags == MCTags(Nil, "v1", Nil)

\* Another value, and a tag less.
MCTagSets == {MCTags("v1", Nil, Nil), MCTags(Nil, "v2", Nil)}

\* CloudFormation takes the activity over, and every other tag is lost.
MCDriftTags == {MCTags("v2", Nil, "v1")}
=============================================================================
