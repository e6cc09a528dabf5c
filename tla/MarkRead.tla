----------------------------- MODULE MarkRead -----------------------------
(***************************************************************************)
(* When received messages are marked as read: the end of finish_receiving, *)
(* the marks of vk-message-recv.cpp, and the places in vk-plugin.cpp where *)
(* something the user does leads to them.                                  *)
(*                                                                         *)
(* A message whose conversation has the focus is marked at once, if the    *)
(* user is there; any other is deferred until the user comes to its        *)
(* conversation, changes the status or writes something.  The deferred     *)
(* messages live in VkData, are stored by its destructor and loaded by its *)
(* constructor.                                                            *)
(***************************************************************************)
EXTENDS Naturals, FiniteSets

CONSTANTS
    Users, Chats,   \* ids, 0 is no id
    Messages,       \* unread messages that will be received: id, user and chat
    Options,        \* the settings the account may have when it logs in
    MaxCrashes,     \* bound on crashes of the program
    ApiErrors       \* messages.markAsRead may fail

ASSUME IdsAssumption ==
    /\ Users \subseteq Nat \ {0}
    /\ Chats \subseteq Nat \ {0}
    /\ Messages \subseteq [id : Nat, user : Users, chat : Chats \cup {0}]

ASSUME ChoicesAssumption ==
    /\ Options \subseteq [onlineOnly : BOOLEAN, replyingOnly : BOOLEAN]
    /\ MaxCrashes \in Nat
    /\ ApiErrors \in BOOLEAN

VARIABLES
    session,    \* "on" between the end of vk_login and vk_close
    options,    \* mark_as_read_online_only, mark_as_read_replying_only
    available,  \* the active status of the account is Available
    focus,      \* the conversation that has the focus, see Focuses
    looks,      \* a timer of conversation_updated is pending
    seen,       \* messages finish_receiving is done with
    deferred,   \* deferred_mark_as_read
    calls,      \* the calls of messages.markAsRead in progress
    read,       \* messages the server has marked
    stored,     \* the setting deferred_mark_as_read of the account
    restored,   \* history: deferred since the login, and not looked through since
    lost,       \* history: messages a failure keeps from being marked
    crashes

userVars   == <<options, available, focus>>
listVars   == <<seen, deferred, restored>>
serverVars == <<calls, read, lost>>
vars == <<session, userVars, looks, listVars, serverVars, stored, crashes>>

\* An instant message with a user, a chat, or something that is not ours.
Elsewhere == [user |-> 0, chat |-> 0]
Focuses   == [user : Users, chat : {0}] \cup [user : {0}, chat : Chats] \cup {Elsewhere}

\* What messages.markAsRead may be asked for: never for no message.
Lists == (SUBSET Messages) \ {{}}

TypeOK ==
    /\ session \in {"off", "on"}
    /\ options \in [onlineOnly : BOOLEAN, replyingOnly : BOOLEAN]
    /\ available \in BOOLEAN
    /\ focus \in Focuses
    /\ looks \in BOOLEAN
    /\ seen \in SUBSET Messages
    /\ deferred \in SUBSET Messages
    /\ calls \in SUBSET Lists
    /\ read \in SUBSET Messages
    /\ stored \in SUBSET Messages
    /\ restored \in SUBSET Messages
    /\ lost \in SUBSET Messages
    /\ crashes \in 0..MaxCrashes

Init ==
    /\ session = "off"
    /\ options \in Options
    /\ available \in BOOLEAN
    /\ focus = Elsewhere
    /\ looks = FALSE
    /\ seen = {} /\ deferred = {} /\ restored = {}
    /\ calls = {} /\ read = {} /\ lost = {}
    /\ stored = {}
    /\ crashes = 0

-----------------------------------------------------------------------------
(* A definition named X_Y before a definition X is X with a bug seeded, for  *)
(* the mutation runs that show what each property detects.                   *)

\* message_in_active: the authors of chat messages have conversations too.
InActive_AnyChat(m) ==
    \/ focus.chat # 0 /\ m.chat = focus.chat
    \/ focus.user # 0 /\ m.user = focus.user
InActive(m) ==
    \/ focus.chat # 0 /\ m.chat = focus.chat
    \/ focus.user # 0 /\ m.user = focus.user /\ m.chat = 0

\* Messages finish_receiving may still come across as MESSAGE_INCOMING_UNREAD.
Unread == Messages \ (seen \cup read)

\* is_away, of the status with the given availability.
IsAway(is) == options.onlineOnly /\ ~is

\* mark_messages_as_read_impl
MarkMessages(S) == calls' = IF S = {} THEN calls ELSE calls \cup {S}

\* mark_message_as_read: what is marked of the messages S now.
MarkedAtOnce(S) ==
    IF IsAway(available) \/ options.replyingOnly THEN {} ELSE {m \in S : InActive(m)}

\* mark_deferred_messages_as_read, of a user with the given availability who
\* has or has not done something active.
MarkDeferred(is, active) ==
    \/ /\ (IsAway(is) \/ options.replyingOnly) /\ ~active
       /\ UNCHANGED <<deferred, restored, calls>>
    \/ /\ ~(IsAway(is) \/ options.replyingOnly) \/ active
       /\ deferred' = {m \in deferred : ~InActive(m)}
       /\ restored' = {}
       /\ MarkMessages({m \in deferred : InActive(m)})

-----------------------------------------------------------------------------
(* The session and its messages *)

\* vk_login, once authenticated: VkData has loaded the options and the list.
Login ==
    /\ session = "off"
    /\ session' = "on"
    /\ options' \in Options
    /\ available' \in BOOLEAN
    /\ deferred' = stored
    /\ restored' = stored
    /\ UNCHANGED <<focus, looks, seen, serverVars, stored, crashes>>

\* The end of finish_receiving for unread messages S.
Receive_Forgets(S) ==
    /\ session = "on"
    /\ S # {}
    /\ seen' = seen \cup S
    /\ deferred' = IF MarkedAtOnce(S) = {} THEN deferred \cup S ELSE deferred
    /\ MarkMessages(MarkedAtOnce(S))
    /\ UNCHANGED <<session, userVars, looks, restored, read, lost, stored, crashes>>

Receive(S) ==
    /\ session = "on"
    /\ S # {}
    /\ seen' = seen \cup S
    /\ deferred' = deferred \cup (S \ MarkedAtOnce(S))
    /\ MarkMessages(MarkedAtOnce(S))
    /\ UNCHANGED <<session, userVars, looks, restored, read, lost, stored, crashes>>

\* messages.markAsRead answers.
CallAnswered(C) ==
    /\ C \in calls
    /\ calls' = calls \ {C}
    /\ read' = read \cup C
    /\ UNCHANGED <<session, userVars, looks, listVars, lost, stored, crashes>>

\* It fails, and as it was made without callbacks nobody learns of it.
CallFailed(C) ==
    /\ ApiErrors
    /\ C \in calls
    /\ calls' = calls \ {C}
    /\ lost' = lost \cup (C \ read)
    /\ UNCHANGED <<session, userVars, looks, listVars, read, stored, crashes>>

-----------------------------------------------------------------------------
(* The user *)

\* Another conversation gets the focus.  conversation_updated is called for
\* it, before it has the focus, and sets a timer of zero milliseconds.
SwitchTo_LooksAtOnce(c) ==
    /\ c # focus
    /\ focus' = c
    /\ IF session = "on" /\ c # Elsewhere
       THEN MarkDeferred(available, FALSE)
       ELSE UNCHANGED <<deferred, restored, calls>>
    /\ UNCHANGED <<session, options, available, looks, seen, read, lost, stored, crashes>>

SwitchTo(c) ==
    /\ c # focus
    /\ focus' = c
    /\ looks' = (looks \/ (session = "on" /\ c # Elsewhere))
    /\ UNCHANGED <<session, options, available, listVars, serverVars, stored, crashes>>

\* The timer of conversation_updated.
Look ==
    /\ looks
    /\ looks' = FALSE
    /\ MarkDeferred(available, FALSE)
    /\ UNCHANGED <<session, userVars, seen, read, lost, stored, crashes>>

\* vk_set_status, called when the status has already changed: only a change
\* to Available is considered to be an activity.
SetStatus(is) ==
    /\ session = "on"
    /\ available' = is
    /\ \/ is /\ MarkDeferred(is, FALSE)
       \/ ~is /\ UNCHANGED <<deferred, restored, calls>>
    /\ UNCHANGED <<session, options, focus, looks, seen, read, lost, stored, crashes>>

\* The user types, sends a message or a file: vk_send_im, vk_send_typing,
\* vk_chat_send, vk_send_file.
Act ==
    /\ session = "on"
    /\ MarkDeferred(available, TRUE)
    /\ UNCHANGED <<session, userVars, looks, seen, read, lost, stored, crashes>>

-----------------------------------------------------------------------------
(* The session and the program end *)

\* Calls in progress are over; the server has carried out some of them.
CallsOver(done) ==
    /\ calls' = {}
    /\ read' = read \cup UNION done

\* vk_close.  Messages S wait for their last thumbnail: its request is
\* cancelled, and finish_receiving goes on, but what it wants to mark at once
\* is refused.  Then the destructor of VkData stores what is deferred.
Close(S, done) ==
    /\ session = "on"
    /\ session' = "off"
    /\ seen' = seen \cup S
    /\ stored' = deferred \cup (S \ MarkedAtOnce(S))
    /\ CallsOver(done)
    /\ lost' = lost \cup ((MarkedAtOnce(S) \cup UNION calls) \ read')
    /\ looks' = FALSE
    /\ deferred' = {}
    /\ restored' = {}
    /\ UNCHANGED <<userVars, crashes>>

\* The program dies, and last_msg_id on disk is so old that the messages in
\* again will be received another time.
Crash(again, done) ==
    /\ session = "on"
    /\ crashes < MaxCrashes
    /\ crashes' = crashes + 1
    /\ session' = "off"
    /\ CallsOver(done)
    /\ seen' = seen \ again
    /\ lost' = lost \cup ((deferred \cup UNION calls) \ (read' \cup stored \cup again))
    /\ looks' = FALSE
    /\ deferred' = {}
    /\ restored' = {}
    /\ UNCHANGED <<userVars, stored>>

-----------------------------------------------------------------------------
Next ==
    \/ Login
    \/ \E S \in SUBSET Unread : Receive(S)
    \/ \E C \in calls : CallAnswered(C)
    \/ \E C \in calls : CallFailed(C)
    \/ \E c \in Focuses : SwitchTo(c)
    \/ Look
    \/ \E is \in BOOLEAN : SetStatus(is)
    \/ Act
    \/ \E S \in SUBSET Unread, done \in SUBSET calls : Close(S, done)
    \/ \E again \in SUBSET (seen \ read), done \in SUBSET calls : Crash(again, done)

Spec == Init /\ [][Next]_vars

-----------------------------------------------------------------------------
(* Properties *)

\* The user reads what is in the focused conversation.
Watched(m) == focus = IF m.chat = 0 THEN [user |-> m.user, chat |-> 0]
                                    ELSE [user |-> 0, chat |-> m.chat]
Attentive  == ~IsAway(available) /\ ~options.replyingOnly

\* A message is marked only in the conversation that has the focus, and only
\* when the user is not away and reading is enough to mark, or has just acted.
MarkedOnlyWhenRead ==
    [][\A C \in calls' \ calls : \A m \in C : Watched(m) /\ (Act \/ Attentive')]_vars

\* No mark of a message is forgotten between receiving it, deferring it,
\* storing and loading it and the answer of the server, unless a call failed
\* or was cut off by the end of the session, or a crash lost the list.
MarkIsAccountedFor ==
    \A m \in seen :
        \/ m \in deferred \cup (UNION calls) \cup read \cup lost
        \/ session = "off" /\ m \in stored

\* When all timers have fired and reading is enough to mark, nothing that
\* came, or was looked through, in this session stays deferred in the
\* conversation with the focus: however the user moved between conversations
\* and statuses while messages came.
NothingLeftUnread ==
    session = "on" /\ ~looks /\ Attentive =>
        \A m \in deferred \ restored : ~Watched(m)

=============================================================================
