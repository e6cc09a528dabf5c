---------------------------- MODULE MessageItems ----------------------------
(***************************************************************************)
(* Messages while they are received (struct Message in                     *)
(* vk-message-recv.cpp): what Attachments makes of a message, and what     *)
(* MessageParts then completes.                                            *)
(***************************************************************************)

\* An item: a message, the lengths and contents of the lists thumbnail_urls,
\* unknown_user_ids and unknown_group_ids, and the placeholders in its text.
Item(m) == [msg |-> m, images |-> 0, users |-> <<>>, groups |-> <<>>, text |-> {}]

\* The placeholder of the entry at i, counted from zero, of one of the lists
Placeholder(kind, i) == [kind |-> kind, at |-> i]

=============================================================================
