----------------------------- MODULE MCMarkRead -----------------------------
(* Instances of MarkRead for TLC: a user who writes an instant message and  *)
(* a message to a chat, and a second one who has a conversation only.       *)
EXTENDS MarkRead

TwoUsers == {1, 2}
OneChat  == {1}

TwoMessages ==
    {[id |-> 1, user |-> 1, chat |-> 0],
     [id |-> 2, user |-> 1, chat |-> 1]}

AllOptions == [onlineOnly : BOOLEAN, replyingOnly : BOOLEAN]

=============================================================================
