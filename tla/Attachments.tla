---------------------------- MODULE Attachments ----------------------------
(***************************************************************************)
(* What becomes of a message when it is received: process_message of       *)
(* vk-message-recv.cpp goes through its attachments and the messages       *)
(* forwarded with it, and appends to its text what they say, with          *)
(* placeholders for images to download and for users and groups who are    *)
(* unknown at this time.                                                   *)
(*                                                                         *)
(* A message is a record.  Its attachments are in parts, and what is       *)
(* forwarded with it in forwards.  A part has its kind; its form,          *)
(* "untyped" if it lacks what process_attachments looks at, and "bad" if   *)
(* it lacks what its own function looks at; thumb says whether it comes    *)
(* with a picture; who is the owner of a wall post or the author of what   *)
(* is forwarded, where the others have somebody who is never unknown;      *)
(* parts are the attachments of these, and copies what a post reposts.     *)
(***************************************************************************)
EXTENDS MessageItems, Naturals, SequencesExt

CONSTANTS
    Users, Groups,
    WebkitWorkarounds   \* the option of this name

\* append_thumbnail_placeholder: only for messages that are shown, not logged.
AppendImage(item) ==
    IF item.msg.status = "unread" /\ ~WebkitWorkarounds
    THEN [item EXCEPT !.text = @ \cup {Placeholder("image", item.images)}, !.images = @ + 1]
    ELSE item

\* get_user_placeholder, get_group_placeholder: a name that is known is written
\* at once, and one of the id 0 never.
AppendName(item, who, unknown) ==
    CASE who \in unknown \cap Users ->
           [item EXCEPT !.text = @ \cup {Placeholder("user", Len(item.users))},
                        !.users = Append(@, who)]
      [] who \in unknown \cap Groups ->
           [item EXCEPT !.text = @ \cup {Placeholder("group", Len(item.groups))},
                        !.groups = Append(@, who)]
      [] OTHER -> item

\* process_attachments stops at the first part it does not understand.
FirstStrange(parts) ==
    SelectInSeq(parts, LAMBDA p : p.form = "untyped")
Prefix(parts) ==
    IF FirstStrange(parts) = 0 THEN parts ELSE SubSeq(parts, 1, FirstStrange(parts) - 1)

\* Parts with pictures are photos, videos, documents, links, stickers and gifts;
\* songs, albums, places and unknown kinds are text only.
WithPictures == {"photo", "video", "doc", "link", "sticker", "gift"}

\* process_wall_attachment and process_fwd_message, and the functions for the
\* other kinds.  What is forwarded within something forwarded is left out.
RECURSIVE Process(_, _, _)
Process(item, part, unknown) ==
    CASE part.form = "bad" -> item
      [] part.form = "good" /\ part.kind \in WithPictures ->
           IF part.thumb THEN AppendImage(item) ELSE item
      [] part.form = "good" /\ part.kind \in {"wall", "fwd"} ->
           FoldLeft(LAMBDA i, p : Process(i, p, unknown),
                    AppendName(item, part.who, unknown), Prefix(part.parts) \o part.copies)
      [] OTHER -> item

\* process_message
ProcessMessage(m, unknown) ==
    FoldLeft(LAMBDA i, p : Process(i, p, unknown), Item(m), Prefix(m.parts) \o m.forwards)

=============================================================================
