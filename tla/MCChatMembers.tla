--------------------------- MODULE MCChatMembers ---------------------------
(* The instance of ChatMembers for TLC: two users, both of whom may have the  *)
(* name of the account, and two requests at once.                            *)
EXTENDS ChatMembers

TwoUsers == {"u1", "u2"}
OneName == {"self"}
TwoTitles == {"old", "new"}

=============================================================================
