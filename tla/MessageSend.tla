---------------------------- MODULE MessageSend ----------------------------
(***************************************************************************)
(* Sending messages: vk-message-send.cpp, the uploads of vk-upload.cpp and *)
(* the dialog of vk-captcha.cpp.  Pictures are uploaded one by one, then   *)
(* the text is sent in parts, each after the answer to the one before.     *)
(*                                                                         *)
(* Messages go to one contact.  A text is a sequence of bytes, of which    *)
(* line breaks and spaces matter.  That a call is repeated or waits is the *)
(* matter of ApiCall; here it succeeds, fails or is never answered.        *)
(***************************************************************************)
EXTENDS Integers, Sequences

CONSTANTS
    Messages,       \* what will be sent
    Bytes,          \* bytes of texts
    Texts,          \* texts the user may type, tags removed
    Break, Space,   \* '\n' and ' '
    Limit,          \* ARBITRARY_MESSAGE_LIMIT
    MaxPictures,    \* pictures in a message
    MaxCaptchas     \* bound: captchas the server asks for

ASSUME SendAssumption ==
    /\ {Break, Space} \subseteq Bytes
    /\ Texts \subseteq Seq(Bytes)
    /\ {Limit, MaxPictures} \subseteq Nat \ {0}
    /\ MaxCaptchas \in Nat

VARIABLES
    session,        \* "on" between vk_login and vk_close
    window,         \* find_conv_for_id finds a conversation
    stage,          \* what the message waits for, or how it ended
    text,           \* SendMessage::text
    offset,         \* pictures uploaded: SendMessage::attachments
    \* What the user wanted, and history
    original,       \* the text
    pictures,       \* how many pictures
    delivered,      \* text the server has taken
    unheard,        \* messages of which a taken part was not confirmed
    reported,       \* messages whose failure the user was shown
    unseen,         \* and those that failed without a window to show it in
    captchas

vars == <<session, window, stage, text, offset, original, pictures, delivered,
          unheard, reported, unseen, captchas>>

Uploading == {"server", "upload", "save"}
Ended     == {"sent", "failed", "dropped", "closed"}
Stages    == {"new", "sending", "taken", "captcha", "dialog"} \cup Uploading \cup Ended

TypeOK ==
    /\ session \in {"off", "on"}
    /\ window \in BOOLEAN
    /\ stage \in [Messages -> Stages]
    /\ text \in [Messages -> Seq(Bytes)]
    /\ offset \in [Messages -> 0..MaxPictures]
    /\ original \in [Messages -> Seq(Bytes)]
    /\ pictures \in [Messages -> 0..MaxPictures]
    /\ delivered \in [Messages -> Seq(Bytes)]
    /\ unheard \in SUBSET Messages
    /\ reported \in SUBSET Messages
    /\ unseen \in SUBSET Messages
    /\ captchas \in 0..MaxCaptchas

Init ==
    /\ session = "off" /\ window = FALSE
    /\ stage = [m \in Messages |-> "new"]
    /\ text = [m \in Messages |-> <<>>]
    /\ offset = [m \in Messages |-> 0]
    /\ original = [m \in Messages |-> <<>>]
    /\ pictures = [m \in Messages |-> 0]
    /\ delivered = [m \in Messages |-> <<>>]
    /\ unheard = {} /\ reported = {} /\ unseen = {}
    /\ captchas = 0

-----------------------------------------------------------------------------
(* A definition named X_Y before a definition X is X with a bug seeded, for  *)
(* the mutation runs that show what each property detects.                   *)

\* rfind(byte, Limit): the positions, from 0, of which it returns the greatest.
Positions(t, byte) == {i \in 0..Limit : t[i + 1] = byte}

Last(S) == CHOOSE i \in S : \A j \in S : j <= i

\* sent_len
Cut_SpaceFirst(t) ==
    IF Len(t) <= Limit THEN Len(t)
    ELSE IF Positions(t, Space) # {} THEN Last(Positions(t, Space))
    ELSE IF Positions(t, Break) # {} THEN Last(Positions(t, Break))
    ELSE Limit

Cut(t) ==
    IF Len(t) <= Limit THEN Len(t)
    ELSE IF Positions(t, Break) # {} THEN Last(Positions(t, Break))
    ELSE IF Positions(t, Space) # {} THEN Last(Positions(t, Space))
    ELSE Limit

Part(t)      == SubSeq(t, 1, Cut(t))
Remainder(t) == SubSeq(t, Cut(t) + 1, Len(t))

Goto(m, s) == stage' = [stage EXCEPT ![m] = s]

\* show_error
Fail(m) ==
    /\ Goto(m, "failed")
    /\ reported' = IF window THEN reported \cup {m} ELSE reported
    /\ unseen'   = IF window THEN unseen ELSE unseen \cup {m}

Quiet == UNCHANGED <<reported, unseen>>

Wanted == <<original, pictures>>

-----------------------------------------------------------------------------
(* Pictures *)

\* send_message: the first request is that of the last picture, if any.
Start(m, t, n) ==
    /\ session = "on" /\ stage[m] = "new"
    /\ original' = [original EXCEPT ![m] = t]
    /\ text' = [text EXCEPT ![m] = t]
    /\ pictures' = [pictures EXCEPT ![m] = n]
    /\ UNCHANGED <<session, delivered, unheard, captchas>>
    /\ Quiet

Type(m, t, n) ==
    /\ t # <<>> \/ n > 0
    /\ Start(m, t, n)
    /\ window' = TRUE
    /\ Goto(m, IF n = 0 THEN "sending" ELSE "server")
    /\ UNCHANGED offset

\* send_im_attachment, of a file that was transferred.
Attach(m) ==
    /\ Start(m, <<>>, 1)
    /\ Goto(m, "sending")
    /\ offset' = [offset EXCEPT ![m] = 1]
    /\ UNCHANGED window

\* upload_file and start_upload: the upload server is known, the upload done.
UploadStep(m) ==
    /\ \/ stage[m] = "server" /\ Goto(m, "upload")
       \/ stage[m] = "upload" /\ Goto(m, "save")
    /\ Quiet
    /\ UNCHANGED <<session, window, text, offset, Wanted, delivered, unheard, captchas>>

\* The callback of upload_imgstore_images_impl.
PictureSaved_Again(m) ==
    /\ stage[m] = "save"
    /\ Goto(m, IF offset[m] = pictures[m] THEN "sending" ELSE "server")
    /\ Quiet
    /\ UNCHANGED <<session, window, text, offset, Wanted, delivered, unheard, captchas>>

PictureSaved(m) ==
    /\ stage[m] = "save"
    /\ offset' = [offset EXCEPT ![m] = @ + 1]
    /\ Goto(m, IF offset'[m] = pictures[m] THEN "sending" ELSE "server")
    /\ Quiet
    /\ UNCHANGED <<session, window, text, Wanted, delivered, unheard, captchas>>

-----------------------------------------------------------------------------
(* Parts *)

\* The server takes a part (external), an empty one only with a picture.
Take(m) ==
    /\ stage[m] = "sending"
    /\ Part(text[m]) # <<>> \/ pictures[m] > 0
    /\ Goto(m, "taken")
    /\ delivered' = [delivered EXCEPT ![m] = @ \o Part(text[m])]
    /\ Quiet
    /\ UNCHANGED <<session, window, text, offset, Wanted, unheard, captchas>>

\* The callback of send_message_internal.
PartSent_SkipsBreak(m) ==
    /\ stage[m] = "taken"
    /\ IF Cut(text[m]) = Len(text[m])
       THEN Goto(m, "sent") /\ UNCHANGED text
       ELSE /\ Goto(m, "sending")
            /\ text' = [text EXCEPT ![m] = SubSeq(@, Cut(@) + 2, Len(@))]
    /\ Quiet
    /\ UNCHANGED <<session, window, offset, Wanted, delivered, unheard, captchas>>

PartSent(m) ==
    /\ stage[m] = "taken"
    /\ IF Cut(text[m]) = Len(text[m])
       THEN Goto(m, "sent") /\ UNCHANGED text
       ELSE Goto(m, "sending") /\ text' = [text EXCEPT ![m] = Remainder(@)]
    /\ Quiet
    /\ UNCHANGED <<session, window, offset, Wanted, delivered, unheard, captchas>>

\* process_im_error and the error callbacks of the requests for a picture or a
\* captcha: an error, or no answer, or a strange one.
Failed_Silently(m) ==
    /\ stage[m] \in Uploading \cup {"sending", "taken", "captcha"}
    /\ IF stage[m] = "captcha" THEN Goto(m, "failed") /\ Quiet ELSE Fail(m)
    /\ unheard' = IF stage[m] = "taken" THEN unheard \cup {m} ELSE unheard
    /\ UNCHANGED <<session, window, text, offset, Wanted, delivered, captchas>>

Failed(m) ==
    /\ stage[m] \in Uploading \cup {"sending", "taken", "captcha"}
    /\ Fail(m)
    /\ unheard' = IF stage[m] = "taken" THEN unheard \cup {m} ELSE unheard
    /\ UNCHANGED <<session, window, text, offset, Wanted, delivered, captchas>>

\* VK_FLOOD_CONTROL: neither callback.
Dropped(m) ==
    /\ stage[m] \in {"server", "save", "sending"}
    /\ Goto(m, "dropped")
    /\ Quiet
    /\ UNCHANGED <<session, window, text, offset, Wanted, delivered, unheard, captchas>>

\* VK_CAPTCHA_NEEDED: request_captcha fetches the picture.
CaptchaNeeded(m) ==
    /\ stage[m] = "sending"
    /\ captchas < MaxCaptchas
    /\ captchas' = captchas + 1
    /\ Goto(m, "captcha")
    /\ Quiet
    /\ UNCHANGED <<session, window, text, offset, Wanted, delivered, unheard>>

CaptchaShown(m) ==
    /\ stage[m] = "captcha"
    /\ Goto(m, "dialog")
    /\ Quiet
    /\ UNCHANGED <<session, window, text, offset, Wanted, delivered, unheard, captchas>>

\* request_captcha_ok, with and without a text, and request_captcha_cancel.
CaptchaClicked(m) ==
    /\ stage[m] = "dialog"
    /\ \/ Goto(m, "sending") /\ Quiet
       \/ Goto(m, "captcha") /\ Quiet
       \/ Fail(m)
    /\ UNCHANGED <<session, window, text, offset, Wanted, delivered, unheard, captchas>>

-----------------------------------------------------------------------------
(* The user and the connection *)

CloseWindow ==
    /\ window
    /\ window' = FALSE
    /\ UNCHANGED <<session, stage, text, offset, Wanted, delivered, unheard, reported, unseen, captchas>>

Login ==
    /\ session = "off"
    /\ session' = "on"
    /\ UNCHANGED <<window, stage, text, offset, Wanted, delivered, unheard, reported, unseen, captchas>>

\* vk_close: dialogs and calls of the API vanish, other requests report that
\* they were cancelled.
Close ==
    /\ session = "on"
    /\ session' = "off"
    /\ LET cancelled == {m \in Messages : stage[m] \in {"upload", "captcha"}}
       IN /\ stage' = [m \in Messages |->
                         CASE m \in cancelled -> "failed"
                           [] stage[m] \in Ended \cup {"new"} -> stage[m]
                           [] OTHER -> "closed"]
          /\ reported' = IF window THEN reported \cup cancelled ELSE reported
          /\ unseen'   = IF window THEN unseen ELSE unseen \cup cancelled
    /\ unheard' = unheard \cup {m \in Messages : stage[m] = "taken"}
    /\ UNCHANGED <<window, text, offset, Wanted, delivered, captchas>>

RequestEnds(m) ==
    \/ UploadStep(m)
    \/ PictureSaved(m)
    \/ Take(m)
    \/ PartSent(m)
    \/ Failed(m)
    \/ Dropped(m)
    \/ CaptchaNeeded(m)
    \/ CaptchaShown(m)

Next ==
    \/ \E m \in Messages :
        \/ \E t \in Texts, n \in 0..MaxPictures : Type(m, t, n)
        \/ Attach(m)
        \/ RequestEnds(m)
        \/ CaptchaClicked(m)
    \/ CloseWindow
    \/ Login
    \/ Close

Spec == Init /\ [][Next]_vars

\* Requests end, one way or the other.  The user may do nothing.
FairSpec == Spec /\ \A m \in Messages : WF_vars(RequestEnds(m))

-----------------------------------------------------------------------------
(* Properties *)

\* What the server has not taken of a text: with a part on the way back, or
\* whose answer was lost, less than SendMessage::text.
Missing(m) ==
    IF stage[m] \in {"taken", "sent"} \/ m \in unheard THEN Remainder(text[m]) ELSE text[m]

\* However a text is split, however parts and captchas fail and whenever the
\* connection is closed: what was delivered and what is missing is the text,
\* so that show_error names what is missing, or one part more if an answer
\* was lost.
TextIsKept == \A m \in Messages : delivered[m] \o Missing(m) = original[m]

\* A message that ends with text or pictures missing was reported, unless
\* there was no window, the answer was the flood control error, or the
\* connection was closed.
LossIsReported ==
    \A m \in Messages :
        stage[m] \in Ended =>
            \/ Missing(m) = <<>> /\ offset[m] = pictures[m]
            \/ m \in reported \cup unseen
            \/ stage[m] \in {"dropped", "closed"}

\* A text goes out with all its pictures.
PicturesFirst ==
    \A m \in Messages :
        stage[m] \in {"sending", "taken", "sent", "captcha", "dialog"} => offset[m] = pictures[m]

\* A part is no longer than the limit, and the next one begins with the last
\* line break within it, or the last space, if there is one.
GoodSplit(rest, n) ==
    LET next == rest[n + 1]
        skipped(byte) == \E i \in n + 2 .. Limit + 1 : rest[i] = byte
        has(byte) == \E i \in 1 .. Limit + 1 : rest[i] = byte
    IN \/ n = Len(rest) /\ n <= Limit
       \/ /\ Len(rest) > Limit /\ n <= Limit
          /\ \/ next = Break /\ ~skipped(Break)
             \/ ~has(Break) /\ next = Space /\ ~skipped(Space)
             \/ ~has(Break) /\ ~has(Space) /\ n = Limit

SplitsAtBreaks ==
    [][\A m \in Messages :
         Take(m) => GoodSplit(text[m], Len(delivered'[m]) - Len(delivered[m]))]_vars

\* The remainder begins with the break, and nothing after it may be short
\* enough: then the part before the break is empty, for ever.
Stuck(m) == text[m] # <<>> /\ Cut(text[m]) = 0

\* Sending a message ends, or waits for the user to solve a captcha, unless
\* the text is stuck and the server takes pictures without a text.
SendingRests ==
    \A m \in Messages :
        <>[](\/ stage[m] \in Ended \cup {"new", "captcha", "dialog"}
             \/ Stuck(m) /\ pictures[m] > 0)

=============================================================================
