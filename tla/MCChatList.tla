---------------------------- MODULE MCChatList ----------------------------
(* The instance of ChatList for TLC: two chats, one of which gets a message. *)
EXTENDS ChatList

OneChat  == {1}
TwoChats == {1, 2}

OneMessage  == {[id |-> 1, chat |-> 1]}

=============================================================================
