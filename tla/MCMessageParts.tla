--------------------------- MODULE MCMessageParts ---------------------------
(***************************************************************************)
(* The instance of MessageParts for TLC.  Other batches act on a batch only *)
(* through what is known and listed, as Learn, Ages, List and Unlist do, so *)
(* that one batch with all of these shows what several would.  Either       *)
(* message may come twice, the first with an image each time.               *)
(***************************************************************************)
EXTENDS MessageParts

Parsing == INSTANCE Attachments WITH WebkitWorkarounds <- FALSE
ProcessMessage(m, unknown) == Parsing!ProcessMessage(m, unknown)

TwoUsers   == {"u1", "u2"}
OneGroup   == {"g1"}
OneChat    == {"c1"}
OneBatch   == {"range"}

Part(kind, form, thumb, who, parts, copies) ==
    [kind |-> kind, form |-> form, thumb |-> thumb, who |-> who, parts |-> parts, copies |-> copies]
Picture(kind) == Part(kind, "good", TRUE, "none", <<>>, <<>>)
Plain(kind, form) == Part(kind, form, FALSE, "none", <<>>, <<>>)
Post(who, parts, copies) == Part("wall", "good", FALSE, who, parts, copies)
Fwd(who, parts) == Part("fwd", "good", FALSE, who, parts, <<>>)

Msg(author, chat, status, parts, forwards) ==
    [author |-> author, chat |-> chat, status |-> status, parts |-> parts, forwards |-> forwards]

\* An instant message that forwards another, which has a picture, and one in a
\* chat, of a post and its copy; what follows a part without a type is lost.
TwoMessages ==
    {Msg("u1", "none", "unread", <<Plain("audio", "good"), Plain("gift", "bad")>>,
         <<Fwd("u2", <<Picture("photo")>>)>>),
     Msg("u2", "c1", "unread",
         <<Post("g1", <<Plain("doc", "good")>>, <<Post("g1", <<>>, <<>>)>>),
           Plain("photo", "untyped"), Picture("photo")>>, <<>>)}

=============================================================================
