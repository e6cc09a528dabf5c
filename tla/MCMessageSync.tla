--------------------------- MODULE MCMessageSync ---------------------------
(* Instances of MessageSync for TLC: which messages the environment makes. *)
EXTENDS MessageSync

FromOthers == {"in", "other"}

=============================================================================
