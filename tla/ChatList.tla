----------------------------- MODULE ChatList -----------------------------
(***************************************************************************)
(* Chats in conversations and in the buddy list: vk-chat.cpp, the chat     *)
(* half of vk-buddy.cpp, and the way of unread chat messages through       *)
(* add_unknown_users_chats and finish_receiving to their conversation.     *)
(*                                                                         *)
(* A chat may be opened only when its info is known, which takes a call of *)
(* messages.getChat; what happens during the call is what can go wrong.    *)
(* And chats are opened while the connection is being closed: vk_close     *)
(* cancels the downloads of thumbnails, and those call back.               *)
(* Batches of messages are of one chat: chats of a mixed batch wait for    *)
(* each other, but do not otherwise meet.                                  *)
(***************************************************************************)
EXTENDS Naturals, FiniteSets

CONSTANTS
    Chats,          \* ids of chats
    Messages,       \* unread messages that will be received: id and chat
    Removable,      \* bound: chats the user removes from the buddy list
    MaxConvId,      \* bound on conversation ids
    MaxCalls,       \* bound: calls in progress when the user or an event adds one
    MaxCrashes      \* bound on crashes of the program

ASSUME ChatsAssumption ==
    /\ Messages \subseteq [id : Nat, chat : Chats]
    /\ Removable \subseteq Chats
    /\ {MaxConvId, MaxCalls} \subseteq Nat
    /\ MaxCrashes \in Nat

VARIABLES
    session,        \* "on" from the end of vk_login, "closing" in vk_close, else "off"
    chatsInBlist,   \* the option chats_in_blist
    \* VkData
    chatIds,        \* chat_ids
    infos,          \* keys of chat_infos
    convs,          \* chat_conv_ids
    nodes,          \* keys of blist_chats: the list as it was last seen
    removed,        \* m_manually_removed_chats
    \* Requests
    calls,          \* calls that will open, list or update a chat, see Call
    refreshing,     \* update_user_chat_infos waits for messages.getChat
    \* libpurple (external)
    blist,          \* chats in the buddy list
    windows,        \* chat conversations, see WindowStates
    stored,         \* the setting manually_removed_chats
    \* Messages and history
    received, shown, lost,
    gone,           \* chats the user has removed while connected
    unchecked,      \* entries update_blist has not looked at yet
    crashes

listVars == <<removed, nodes, blist>>
convVars == <<convs, windows>>
mailVars == <<received, shown, lost>>
histVars == <<gone, unchecked, crashes>>
vars == <<session, chatsInBlist, chatIds, infos, calls, refreshing, stored,
          listVars, convVars, mailVars, histVars>>

(***************************************************************************)
(* What a callback does next.  "pictures": download_thumbnail has a picture, *)
(* or the names in the texts have come; "known": add_unknown_users_chats   *)
(* knows the chat, "listed": and may list it, "finish": and knows the      *)
(* users; "open" and "join": open_chat_conv for a message and for the      *)
(* user; "update": process_chat_update.                                    *)
(***************************************************************************)
Stages == {"pictures", "known", "listed", "finish", "open", "join", "update"}
Call(next, c, S) == [next |-> next, chat |-> c, msgs |-> S]
Calls == [next : Stages, chat : Chats, msgs : SUBSET Messages]
WellFormed(k) == (k.msgs = {}) <=> k.next \in {"join", "update"}

\* A conversation is among the chats of the connection, or was left with an
\* earlier one and cannot be written in, or was opened while that was being
\* closed: it can be written in, and no connection knows it.
WindowStates == {"joined", "left", "orphan"}

TypeOK ==
    /\ session \in {"off", "on", "closing"}
    /\ chatsInBlist \in BOOLEAN
    /\ chatIds \in SUBSET Chats
    /\ infos \in SUBSET Chats
    /\ convs \in SUBSET [id : 1..MaxConvId, chat : Chats]
    /\ nodes \in SUBSET Chats
    /\ removed \in SUBSET Chats
    /\ calls \in SUBSET {k \in Calls : WellFormed(k)}
    /\ refreshing \in BOOLEAN
    /\ blist \in SUBSET Chats
    /\ windows \in SUBSET [id : 1..MaxConvId, chat : Chats, state : WindowStates]
    /\ stored \in SUBSET Chats
    /\ received \in SUBSET Messages
    /\ shown \in SUBSET Messages
    /\ lost \in SUBSET Messages
    /\ gone \in SUBSET Chats
    /\ unchecked \in SUBSET Chats
    /\ crashes \in 0..MaxCrashes

Init ==
    /\ session = "off"
    /\ chatsInBlist \in BOOLEAN
    /\ chatIds = {} /\ infos = {} /\ convs = {} /\ nodes = {} /\ removed = {}
    /\ calls = {} /\ refreshing = FALSE
    /\ blist = {} /\ windows = {} /\ stored = {}
    /\ received = {} /\ shown = {} /\ lost = {}
    /\ gone = {} /\ unchecked = {} /\ crashes = 0

-----------------------------------------------------------------------------
(* A definition named X_Y before a definition X is X with a bug seeded, for  *)
(* the mutation runs that show what each property detects.                   *)

\* chat_id_to_conv_id is not 0.
IsOpen(c) == \E p \in convs : p.chat = c

\* chat_should_be_in_blist, of a chat that is open or not and with the given
\* chats removed by the user; set_manually_added_chat is called nowhere.
Wanted(c, open, hidden) == open \/ (c \notin hidden /\ chatsInBlist /\ c \in chatIds)

\* update_blist_chat: an entry that has gone was removed by the user.
UpdateBlistChat_Silent(c) ==
    /\ blist' = blist \cup {c}
    /\ nodes' = nodes \cup {c}
    /\ UNCHANGED removed

UpdateBlistChat(c) ==
    /\ removed' = IF c \in nodes \ blist THEN removed \cup {c} ELSE removed
    /\ blist' = blist \cup {c}
    /\ nodes' = nodes \cup {c}

\* add_new_conv_id: one more than the greatest id.
IsNewConvId_Count(i) == i = Cardinality(convs) + 1
IsNewConvId(i) ==
    /\ \A p \in convs : p.id < i
    /\ i = 1 \/ \E p \in convs : p.id = i - 1

\* open_chat_conv once the chat is listed.  libpurple takes a conversation
\* that was left for the chat, and makes a new one if there is none, or if it
\* finds another conversation of the chat first.
NewConv(c) ==
    \E i \in 1..MaxConvId :
        /\ IsNewConvId(i)
        /\ convs' = convs \cup {[id |-> i, chat |-> c]}
        /\ LET of   == {w \in windows : w.chat = c}
               left == {w \in of : w.state = "left"}
               new  == [id |-> i, chat |-> c, state |-> "joined"]
           IN \/ (left = {} \/ of # left) /\ windows' = windows \cup {new}
              \/ \E w \in left : windows' = (windows \ {w}) \cup {new}

\* open_chat_conv for messages S, or for the user if S is empty; others are
\* the calls in progress.
Open_Silent(c, S, others) ==
    \/ /\ IsOpen(c)
       /\ calls' = others
       /\ UNCHANGED <<shown, chatIds, listVars, convVars>>
    \/ /\ ~IsOpen(c) /\ c \in infos
       /\ \/ c \in blist /\ UNCHANGED <<chatIds, listVars>>
          \/ c \notin blist /\ UpdateBlistChat(c) /\ chatIds' = chatIds \cup {c}
       /\ NewConv(c)
       /\ shown' = shown \cup S
       /\ calls' = others
    \/ /\ ~IsOpen(c) /\ c \notin infos
       /\ chatIds' = chatIds \cup {c}
       /\ calls' = others \cup (IF S = {} THEN {Call("join", c, {})}
                                          ELSE {Call("open", c, {m}) : m \in S})
       /\ UNCHANGED <<shown, listVars, convVars>>

Open(c, S, others) ==
    \/ /\ IsOpen(c)
       /\ shown' = shown \cup S
       /\ calls' = others
       /\ UNCHANGED <<chatIds, listVars, convVars>>
    \/ /\ ~IsOpen(c) /\ c \in infos
       /\ \/ c \in blist /\ UNCHANGED <<chatIds, listVars>>
          \/ c \notin blist /\ UpdateBlistChat(c) /\ chatIds' = chatIds \cup {c}
       /\ NewConv(c)
       /\ shown' = shown \cup S
       /\ calls' = others
    \/ /\ ~IsOpen(c) /\ c \notin infos
       /\ chatIds' = chatIds \cup {c}
       /\ calls' = others \cup (IF S = {} THEN {Call("join", c, {})}
                                          ELSE {Call("open", c, {m}) : m \in S})
       /\ UNCHANGED <<shown, listVars, convVars>>

\* The callback of the first getChat in add_unknown_users_chats, with the
\* infos that are known by then: chats of unread messages are listed.
AddToList(c, S, known, others) ==
    \/ /\ c \in blist
       /\ calls' = others \cup {Call("finish", c, S)}
       /\ UNCHANGED <<chatIds, listVars>>
    \/ /\ c \notin blist /\ c \in known
       /\ chatIds' = chatIds \cup {c}
       /\ UpdateBlistChat(c)
       /\ calls' = others \cup {Call("finish", c, S)}
    \/ /\ c \notin blist /\ c \notin known
       /\ chatIds' = chatIds \cup {c}
       /\ calls' = others \cup {Call("listed", c, S)}
       /\ UNCHANGED listVars

\* add_unknown_users_chats
AddUnknown(c, S, others) ==
    \/ c \in infos /\ AddToList(c, S, infos, others)
    \/ /\ c \notin infos
       /\ calls' = others \cup {Call("known", c, S)}
       /\ UNCHANGED <<chatIds, listVars>>

-----------------------------------------------------------------------------
(* Messages and opened chats *)

\* receive_messages: unread messages S of a chat have come, and wait for
\* pictures and names, or do not need any.
Receive(c, S) ==
    /\ session = "on"
    /\ S # {}
    /\ received' = received \cup S
    /\ \/ AddUnknown(c, S, calls)
       \/ calls' = calls \cup {Call("pictures", c, S)} /\ UNCHANGED <<chatIds, listVars>>
    /\ UNCHANGED <<session, chatsInBlist, infos, refreshing, stored, convVars, shown, lost, histVars>>

PicturesReceived(k) ==
    /\ session = "on"
    /\ k \in calls /\ k.next = "pictures"
    /\ AddUnknown(k.chat, k.msgs, calls \ {k})
    /\ UNCHANGED <<session, chatsInBlist, infos, refreshing, stored, convVars, mailVars, histVars>>

\* vk_chat_join: the user opens a chat, or Pidgin rejoins one it has left.
\* Bound: one join of a chat waits at a time, besides fewer than MaxCalls calls.
Join(c) ==
    /\ session = "on"
    /\ Call("join", c, {}) \notin calls /\ Cardinality(calls) < MaxCalls
    /\ Open(c, {}, calls)
    /\ UNCHANGED <<session, chatsInBlist, infos, refreshing, stored, received, lost, histVars>>

\* process_chat_update
ChatUpdated(c) ==
    /\ session = "on" /\ Cardinality(calls) < MaxCalls
    /\ calls' = calls \cup {Call("update", c, {})}
    /\ UNCHANGED <<session, chatsInBlist, chatIds, infos, refreshing, stored>>
    /\ UNCHANGED <<listVars, convVars, mailVars, histVars>>

-----------------------------------------------------------------------------
(* Answers.  messages.getChat tells the info, or ends with an error, which   *)
(* the callbacks do not learn of.                                            *)

Known(k, ok) == IF ok THEN infos \cup {k.chat} ELSE infos

KnownAnswered(k, ok) ==
    /\ k \in calls /\ k.next = "known"
    /\ infos' = Known(k, ok)
    /\ AddToList(k.chat, k.msgs, Known(k, ok), calls \ {k})
    /\ UNCHANGED <<session, chatsInBlist, refreshing, stored, convVars, mailVars, histVars>>

ListedAnswered(k, ok) ==
    /\ k \in calls /\ k.next = "listed"
    /\ infos' = Known(k, ok)
    /\ \/ k.chat \in Known(k, ok) /\ UpdateBlistChat(k.chat)
       \/ k.chat \notin Known(k, ok) /\ UNCHANGED listVars
    /\ calls' = (calls \ {k}) \cup {Call("finish", k.chat, k.msgs)}
    /\ UNCHANGED <<session, chatsInBlist, chatIds, refreshing, stored, convVars, mailVars, histVars>>

\* finish_receiving, at once or when the infos of users have come.
FinishReceiving(k) ==
    /\ k \in calls /\ k.next = "finish"
    /\ Open(k.chat, k.msgs, calls \ {k})
    /\ UNCHANGED <<session, chatsInBlist, infos, refreshing, stored, received, lost, histVars>>

\* The callback of open_chat_conv: without an info there is no conversation,
\* and the message is dropped.
OpenAnswered(k, ok) ==
    /\ k \in calls /\ k.next \in {"open", "join"}
    /\ infos' = Known(k, ok)
    /\ calls' = calls \ {k}
    /\ \/ /\ k.chat \in Known(k, ok)
          /\ UpdateBlistChat(k.chat)
          /\ NewConv(k.chat)
          /\ shown' = shown \cup k.msgs
          /\ UNCHANGED lost
       \/ /\ k.chat \notin Known(k, ok)
          /\ lost' = lost \cup k.msgs
          /\ UNCHANGED <<shown, listVars, convVars>>
    /\ UNCHANGED <<session, chatsInBlist, chatIds, refreshing, stored, received, histVars>>

\* update_chat_info_from, asked to update the buddy list too.
UpdateAnswered(k, ok) ==
    /\ k \in calls /\ k.next = "update"
    /\ infos' = Known(k, ok)
    /\ calls' = calls \ {k}
    /\ \/ /\ ok /\ Wanted(k.chat, IsOpen(k.chat), removed)
          /\ UpdateBlistChat(k.chat)
          /\ unchecked' = unchecked \cup {k.chat}
       \/ /\ ~(ok /\ Wanted(k.chat, IsOpen(k.chat), removed))
          /\ UNCHANGED <<listVars, unchecked>>
    /\ UNCHANGED <<session, chatsInBlist, chatIds, refreshing, stored, convVars, mailVars, gone, crashes>>

-----------------------------------------------------------------------------
(* The regular update of all infos *)

\* messages.getDialogs has answered: these are the chats the user is in.  A
\* second update may start before the first has ended, and end with it.
Dialogs(D) ==
    /\ session = "on"
    /\ chatIds' = D
    /\ refreshing' = TRUE
    /\ UNCHANGED <<session, chatsInBlist, infos, calls, stored, listVars, convVars, mailVars, histVars>>

\* update_blist, with the infos of the chats in got: list what is wanted,
\* recording what the user has removed, then remove what is not wanted.
Refreshed(got) ==
    /\ refreshing
    /\ refreshing' = FALSE
    /\ infos' = infos \cup got
    /\ LET update == {c \in infos \cup got : Wanted(c, IsOpen(c), removed)}
           hidden == removed \cup (update \cap (nodes \ blist))
           keep   == {c \in blist \cup update : Wanted(c, IsOpen(c), hidden)}
       IN /\ removed' = hidden
          /\ blist' = keep
          /\ nodes' = (nodes \cup update) \ ((blist \cup update) \ keep)
    /\ unchecked' = {}
    /\ UNCHANGED <<session, chatsInBlist, chatIds, calls, stored, convVars, mailVars, gone, crashes>>

-----------------------------------------------------------------------------
(* The user *)

\* A conversation is closed: vk_chat_leave, and remove_chat_if_needed.
Leave(w) ==
    /\ session = "on"
    /\ w \in windows /\ w.state = "joined"
    /\ windows' = windows \ {w}
    /\ convs' = {p \in convs : p.id # w.id}
    /\ LET temporary == {c \in blist : /\ [id |-> w.id, chat |-> c] \in convs
                                       /\ ~Wanted(c, \E p \in convs' : p.chat = c, removed)}
       IN blist' = blist \ temporary /\ nodes' = nodes \ temporary
    /\ UNCHANGED <<session, chatsInBlist, chatIds, infos, removed, calls, refreshing, stored, mailVars, histVars>>

\* A conversation of an earlier session is closed; the plugin is not told.
CloseLeft(w) ==
    /\ session # "closing"
    /\ w \in windows /\ w.state # "joined"
    /\ windows' = windows \ {w}
    /\ UNCHANGED <<session, chatsInBlist, chatIds, infos, convs, calls, refreshing, stored>>
    /\ UNCHANGED <<listVars, mailVars, histVars>>

\* "Remove" in the buddy list.  The plugin is not told.
UserRemoves(c) ==
    /\ session # "closing"
    /\ c \in blist
    /\ blist' = blist \ {c}
    /\ gone' = IF session = "on" THEN gone \cup {c} ELSE gone
    /\ UNCHANGED <<session, chatsInBlist, chatIds, infos, removed, nodes, calls, refreshing, stored>>
    /\ UNCHANGED <<convVars, mailVars, unchecked, crashes>>

-----------------------------------------------------------------------------
(* Sessions *)

\* vk_login, once authenticated: check_blist_on_login notes the entries.
Login ==
    /\ session = "off"
    /\ session' = "on"
    /\ chatsInBlist' \in BOOLEAN
    /\ removed' = stored
    /\ nodes' = blist
    /\ unchecked' = blist
    /\ UNCHANGED <<chatIds, infos, calls, refreshing, blist, stored, convVars, mailVars, gone, crashes>>

\* vk_close begins: libpurple has marked the chats of the connection left, and
\* requests are cancelled.  API calls then call nobody.
Close ==
    /\ session = "on"
    /\ session' = "closing"
    /\ windows' = {[w EXCEPT !.state = IF @ = "joined" THEN "left" ELSE @] : w \in windows}
    /\ calls' = {k \in calls : k.next = "pictures"}
    /\ lost' = lost \cup UNION {k.msgs : k \in calls \ calls'}
    /\ refreshing' = FALSE
    /\ UNCHANGED <<chatsInBlist, chatIds, infos, stored, listVars, convs, received, shown, histVars>>

\* The download of a thumbnail is cancelled: download_thumbnail goes on, if it
\* was the last one and all names are known to finish_receiving, with calls
\* that nobody will answer otherwise.  An open chat has been marked left, and
\* what is written there is dropped; any other is opened.
PictureCancelled(k) ==
    /\ session = "closing"
    /\ k \in calls
    /\ calls' = calls \ {k}
    /\ \/ lost' = lost \cup k.msgs /\ UNCHANGED <<shown, listVars, convVars>>
       \/ /\ k.chat \in infos
          /\ IF k.chat \in blist THEN UNCHANGED listVars ELSE UpdateBlistChat(k.chat)
          /\ \/ /\ ~IsOpen(k.chat)
                /\ NewConv(k.chat)
                /\ shown' = shown \cup k.msgs /\ UNCHANGED lost
             \/ /\ IsOpen(k.chat)
                /\ IF \E w \in windows : w.state = "joined" /\ w.chat = k.chat
                   THEN shown' = shown \cup k.msgs /\ UNCHANGED lost
                   ELSE lost' = lost \cup k.msgs /\ UNCHANGED shown
                /\ UNCHANGED convVars
    /\ UNCHANGED <<session, chatsInBlist, chatIds, infos, refreshing, stored, received, histVars>>

\* VkData is gone, and with it all calls.
SessionOver ==
    /\ session # "off"
    /\ session' = "off"
    /\ chatIds' = {} /\ infos' = {} /\ convs' = {} /\ nodes' = {} /\ removed' = {}
    /\ calls' = {} /\ refreshing' = FALSE
    /\ lost' = lost \cup UNION {k.msgs : k \in calls}
    /\ unchecked' = {}
    /\ UNCHANGED <<chatsInBlist, blist, received, shown>>

\* The rest of vk_close: check_blist_on_logout, and the destructor stores what
\* it found.
CloseEnds ==
    /\ session = "closing" /\ calls = {}
    /\ SessionOver
    /\ stored' = removed \cup (nodes \ blist)
    /\ windows' = {[w EXCEPT !.state = IF @ = "joined" THEN "orphan" ELSE @] : w \in windows}
    /\ UNCHANGED <<gone, crashes>>

Crash ==
    /\ crashes < MaxCrashes
    /\ crashes' = crashes + 1
    /\ SessionOver
    /\ windows' = {}
    /\ gone' = gone \cap stored
    /\ UNCHANGED stored

Next ==
    \/ \E c \in Chats : \E S \in SUBSET {m \in Messages \ received : m.chat = c} : Receive(c, S)
    \/ \E c \in Chats : Join(c) \/ ChatUpdated(c)
    \/ \E c \in Removable : UserRemoves(c)
    \/ \E k \in calls, ok \in BOOLEAN :
        \/ KnownAnswered(k, ok) \/ ListedAnswered(k, ok)
        \/ OpenAnswered(k, ok) \/ UpdateAnswered(k, ok)
    \/ \E k \in calls : PicturesReceived(k) \/ FinishReceiving(k) \/ PictureCancelled(k)
    \/ \E D \in SUBSET Chats : Dialogs(D)
    \/ \E got \in SUBSET chatIds : Refreshed(got)
    \/ \E w \in windows : Leave(w) \/ CloseLeft(w)
    \/ Login
    \/ Close
    \/ CloseEnds
    \/ Crash

Spec == Init /\ [][Next]_vars

-----------------------------------------------------------------------------
(* Properties *)

\* Conversation ids identify conversations, though ids are given again: every
\* id leads to one chat, the id of a conversation of the connection leads to
\* its chat, and a conversation whose id is unknown is not one of them, so that
\* what the user writes there cannot reach another chat.  The exception are
\* the orphans, conversations that a message has opened in vk_close.
ConvInv ==
    /\ \A p, q \in convs : p.id = q.id => p = q
    /\ LET joined == {[id |-> w.id, chat |-> w.chat] : w \in {v \in windows : v.state = "joined"}}
       IN /\ joined \subseteq convs
          /\ session # "closing" => convs \subseteq joined

\* An unread message is shown, on its way through the calls, or dropped as
\* its chat could not be learned of before the session ended.
MessageIsAccountedFor ==
    \A m \in received : m \in shown \cup lost \cup UNION {k.msgs : k \in calls}

\* A chat is in the list because it is open, or belongs there, or a message
\* is about to open it, or nobody has looked at its entry since it came:
\* temporary entries go with their last conversation, in whatever order
\* messages come, answers arrive and the user opens, closes and removes.
ListedForAReason ==
    session = "on" /\ ~refreshing =>
        \A c \in blist :
            \/ Wanted(c, IsOpen(c), removed)
            \/ c \in unchecked
            \/ \E k \in calls : k.next = "finish" /\ k.chat = c

\* What the user has removed while connected is recorded or will be noticed at
\* the latest at logout, and the next session knows of it.
RemovalIsRemembered ==
    \A c \in gone :
        IF session # "off" THEN c \in removed \cup (nodes \ blist) ELSE c \in stored

\* The list is what the chats, the messages and the user's removals make it,
\* in this session and the next.
ListInv == ListedForAReason /\ RemovalIsRemembered

=============================================================================
