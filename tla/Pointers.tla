------------------------------ MODULE Pointers ------------------------------
(***************************************************************************)
(* Go's optional values: a pointer is its target or Nil, and a request     *)
(* struct built from a nil pointer keeps the zero value of its field.      *)
(***************************************************************************)
CONSTANT Nil   \* an unset pointer, an absent map key, a missing object

Ptr(S) == S \cup {Nil}
Deref(p, zero) == IF p = Nil THEN zero ELSE p
=============================================================================
