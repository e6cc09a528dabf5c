----------------------------- MODULE MCApiCall -----------------------------
(* Instances of ApiCall for TLC: calls that meet one authentication. *)
EXTENDS ApiCall

TwoCalls  == {"c1", "c2"}
OneToken  == {"t"}
=============================================================================
