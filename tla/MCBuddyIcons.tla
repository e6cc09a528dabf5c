---------------------------- MODULE MCBuddyIcons ----------------------------
(* Instances of BuddyIcons for TLC; the configurations give the bounds. *)
EXTENDS BuddyIcons

=============================================================================
