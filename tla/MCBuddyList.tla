---------------------------- MODULE MCBuddyList ----------------------------
(* The instance of BuddyList for TLC: no step of the model lets one user     *)
(* depend on another, so one user is enough.                                 *)
EXTENDS BuddyList

OneUser == {"u1"}
OneName == {"n1"}

=============================================================================
