----------------------------- MODULE MCTagLists -----------------------------
(***************************************************************************)
(* The instance of TagLists for TLC: two keys of the user's, one of the    *)
(* controller's default tag, one "aws:" key.                               *)
(***************************************************************************)
EXTENDS TagLists

MCTagKeys == {"u", "w", "d", "a"}
MCDefaultTags == [k \in MCTagKeys |-> IF k = "d" THEN "v" ELSE Nil]

\* No tag, only AWS's, and tags that another client left, with and without.
MCInitialTags ==
  {[k \in MCTagKeys |-> Nil],
   [k \in MCTagKeys |-> IF k = "a" THEN "v" ELSE Nil],
   [k \in MCTagKeys |-> IF k \in {"u", "d"} THEN "" ELSE Nil],
   [k \in MCTagKeys |-> "v"]}
=============================================================================
