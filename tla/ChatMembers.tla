---------------------------- MODULE ChatMembers ----------------------------
(***************************************************************************)
(* Who is in a chat: chat_infos, the users shown in the conversation of    *)
(* the chat, and the commands that add and remove users and set the title. *)
(* vk-chat.cpp, update_chat_info_from in vk-buddy.cpp and                  *)
(* process_chat_update in vk-longpoll.cpp.                                 *)
(*                                                                         *)
(* The plugin learns of changes by events, which tell only that something  *)
(* has changed, by asking every 15 minutes, and from the answers to its    *)
(* own changes.  Requests are served and answered in any order.  There is  *)
(* one chat; which chats are listed and how they are opened is ChatList,    *)
(* which ChatProofs extends as well: hence some of the names.              *)
(***************************************************************************)
EXTENDS Naturals, Functions, FiniteSets, Bags

CONSTANTS
    Users,          \* the other users
    Me,             \* the user of the account
    Names,          \* aliases and real names
    SelfAlias,      \* the alias of the account, which others may also have
    Titles,
    NoTitle,        \* the title of an info made for a member
    MaxRequests,    \* bound on requests under way at once
    MaxEvents,      \* bound on events that wait
    MaxChanges      \* bound on changes of the chat

ASSUME MembersAssumption ==
    /\ IsFiniteSet(Users) /\ Me \notin Users
    /\ SelfAlias \in Names
    /\ NoTitle \notin Titles
    /\ MaxRequests \in Nat /\ MaxEvents \in Nat /\ MaxChanges \in Nat

VARIABLES
    connection, \* "on" or "off"
    info,       \* chat_infos[chat_id], or NoInfo
    conv,       \* the conversation (libpurple): at, title and names
    requests,   \* a bag of requests, see Get and Edit
    chat,       \* the chat (server): its title and members
    events,     \* updates of the chat that Long Poll has not told yet
    changes,    \* a counter for the bound
    why         \* history: why info may be out of date, see StaleForAReason

memberVars == <<connection, info, conv, requests, chat, events, changes, why>>

\* A name in a chat: one that several may have, or one that only the user has,
\* made of his id or nickname.
Shared(n) == <<n>>
Own(u) == <<"id", u>>
SelfName == Own(Me)
Displayed == {Shared(n) : n \in Names} \cup {Own(u) : u \in Users \cup {Me}}

NoInfo == [title |-> NoTitle, participants |-> [u \in {} |-> SelfName], is |-> FALSE]
NoConv == [at |-> "none", title |-> NoTitle, names |-> {}]

\* Requests: what they ask, whether a conversation waits for it, and the answer
\* of those that are served.
ChatType == [title : Titles, members : SUBSET Users]
Gets  == [op : {"get"}, opens : BOOLEAN, at : {"sent"}]
           \cup [op : {"get"}, opens : BOOLEAN, at : {"served"}, seen : ChatType]
Edits == [op : {"add", "remove"}, arg : Users, at : {"sent", "served"}]
           \cup [op : {"title"}, arg : Titles, at : {"sent", "served"}]
Get(opens) == [op |-> "get", opens |-> opens, at |-> "sent"]
Edit(op, arg) == [op |-> op, arg |-> arg, at |-> "sent"]

MembersTypeOK ==
    /\ connection \in {"on", "off"}
    /\ info.title \in Titles \cup {NoTitle}
    /\ DOMAIN info.participants \subseteq Users \cup {Me}
    /\ Range(info.participants) \subseteq Displayed
    /\ ~info.is => info = NoInfo
    /\ conv.at \in {"none", "open", "left"}
    /\ conv.at = "open" => connection = "on" /\ info.is
    /\ conv.names \subseteq Displayed
    /\ DOMAIN requests \subseteq Gets \cup Edits
    /\ connection = "off" => requests = EmptyBag
    /\ chat \in ChatType
    /\ events \in 0..MaxEvents
    /\ why \subseteq {"failed", "overtaken"}

MembersInit ==
    /\ connection = "off" /\ info = NoInfo /\ conv = NoConv
    /\ requests = EmptyBag
    /\ chat \in ChatType
    /\ events = 0 /\ changes = 0
    /\ why = {}

-----------------------------------------------------------------------------
(* A definition named X_Y before a definition X is X with a bug seeded, for  *)
(* the mutation runs that show what each property detects.                   *)

(* What users are called changes all the time, by infos that come, entries    *)
(* of the buddy list and their aliases: what get_user_display_name finds when *)
(* a user is named is left open.                                             *)

\* update_chat_info_from: all members are known, and of those who have the same
\* name, the first in the answer has it, and others a unique one.
Named(S) ==
    UNION {LET firsts == {P \in SUBSET S : /\ {name[u] : u \in P} = Range(name)
                                            /\ \A u, v \in P : name[u] = name[v] => u = v}
           IN {[u \in S \cup {Me} |-> IF u = Me THEN SelfName
                                      ELSE IF u \in P THEN Shared(name[u])
                                      ELSE Own(u)] : P \in firsts} :
             name \in [S -> Names]}

\* add_user_to_chat_info, with an empty info made where there was none; a user
\* who is not known yet is called by his id.
WithUser_AnyName(parts, u) ==
    IF u \in DOMAIN parts THEN {parts}
    ELSE {[v \in DOMAIN parts \cup {u} |-> IF v = u THEN d ELSE parts[v]] :
            d \in {Shared(n) : n \in Names}}
WithUser(parts, u) ==
    IF u \in DOMAIN parts THEN {parts}
    ELSE {[v \in DOMAIN parts \cup {u} |-> IF v = u THEN d ELSE parts[v]] :
            d \in ({Shared(n) : n \in Names} \ Range(parts)) \cup {Own(u)}}

\* are_equal_chat_users: the alias of the account counts as a name, though it
\* is not the name that the account has in the chat.
EqualUsers(names, parts) ==
    LET all == Range(parts) \cup {Shared(SelfAlias)}
    IN names \subseteq all /\ Cardinality(names) = Cardinality(all)

\* update_open_chat_conv_impl: a conversation v when the info is i
Updated(v, i) ==
    [v EXCEPT !.title = i.title,
              !.names = IF EqualUsers(@, i.participants) THEN @ ELSE Range(i.participants)]

\* open_chat_conv, when the info i is known.  A window that was left is used
\* again, and may have kept its users.
Opened(i) ==
    {Updated([conv EXCEPT !.at = "open", !.names = kept], i) :
       kept \in (IF conv.at = "left" THEN {conv.names, {}} ELSE {{}})}

\* Does the info i tell who is in the chat c?
Tells(i, c) == i.title = c.title /\ DOMAIN i.participants = c.members \cup {Me}

\* An answer makes the info i: why it may be out of date now.
Because(i) ==
    IF Tells(i, chat) THEN {}
    ELSE IF Tells(info, chat) THEN why \cup {"overtaken"} ELSE why

Ask(request) ==
    /\ BagCardinality(requests) < MaxRequests
    /\ requests' = requests (+) SetToBag({request})
Done(r) == requests' = requests (-) SetToBag({r})

-----------------------------------------------------------------------------
(* Requests *)

\* open_chat_conv, for a message or for the user, whose window it also is
OpenConv ==
    /\ connection = "on" /\ conv.at # "open"
    /\ \/ info.is /\ conv' \in Opened(info) /\ UNCHANGED requests
       \/ ~info.is /\ Ask(Get(TRUE)) /\ UNCHANGED conv
    /\ UNCHANGED <<connection, info, chat, events, changes, why>>

\* process_chat_update
Event_OnlyUnknown ==
    /\ connection = "on" /\ events > 0
    /\ events' = events - 1
    /\ IF info.is THEN UNCHANGED requests ELSE Ask(Get(FALSE))
    /\ UNCHANGED <<connection, info, conv, chat, changes, why>>

Event ==
    /\ connection = "on" /\ events > 0
    /\ events' = events - 1
    /\ Ask(Get(FALSE))
    /\ UNCHANGED <<connection, info, conv, chat, changes, why>>

\* update_user_chat_infos: the chat is one of the dialogs.
Refresh_OnlyUnknown ==
    /\ connection = "on" /\ ~info.is
    /\ Ask(Get(FALSE))
    /\ UNCHANGED <<connection, info, conv, chat, events, changes, why>>

Refresh ==
    /\ connection = "on"
    /\ Ask(Get(FALSE))
    /\ UNCHANGED <<connection, info, conv, chat, events, changes, why>>

\* cmd_chat_add, cmd_chat_remove, cmd_chat_title, vk_chat_invite; commands also
\* work in a conversation that was left with an earlier session.
Command(request) ==
    /\ connection = "on" /\ conv.at # "none"
    /\ Ask(request)
    /\ UNCHANGED <<connection, info, conv, chat, events, changes, why>>

\* The answer of messages.getChat.  A window that was left is not updated.
Updating(i) == IF conv.at = "open" THEN Updated(conv, i) ELSE conv
GetAnswered(r) ==
    /\ r.op = "get" /\ r.at = "served"
    /\ Done(r)
    /\ \E parts \in Named(r.seen.members) :
        LET i == [title |-> r.seen.title, participants |-> parts, is |-> TRUE]
        IN /\ info' = i
           /\ IF r.opens /\ conv.at # "open" THEN conv' \in Opened(i)
              ELSE conv' = Updating(i)
           /\ why' = Because(i)
    /\ UNCHANGED <<connection, chat, events, changes>>

\* The answers of messages.addChatUser, removeChatUser and editChat; the
\* conversation is looked for by its name and updated, left or not.
Edited(op, arg) ==
    CASE op = "add"    -> {[info EXCEPT !.participants = p, !.is = TRUE] :
                             p \in WithUser(info.participants, arg)}
      [] op = "remove" -> {[info EXCEPT !.participants = Restrict(@, DOMAIN @ \ {arg}), !.is = TRUE]}
      [] op = "title"  -> {[info EXCEPT !.title = arg, !.is = TRUE]}
EditAnswered(r) ==
    /\ r.op \in {"add", "remove", "title"} /\ r.at = "served"
    /\ Done(r)
    /\ info' \in Edited(r.op, r.arg)
    /\ conv' = IF conv.at = "none" THEN conv ELSE Updated(conv, info')
    /\ why' = Because(info')
    /\ UNCHANGED <<connection, chat, events, changes>>

\* An error, which the user is shown, or no answer at all: flood control.  A
\* get that fails leaves an info that is known, and updates the conversation.
Fails(r) ==
    /\ Done(r)
    /\ IF r.op = "get" /\ r.opens /\ info.is /\ conv.at # "open"
       THEN conv' \in Opened(info) \cup {conv}
       ELSE UNCHANGED conv
    /\ why' = IF r.op = "get" /\ ~Tells(info, chat) THEN why \cup {"failed"} ELSE why
    /\ UNCHANGED <<connection, info, chat, events, changes>>

-----------------------------------------------------------------------------
(* The server *)

\* Somebody changes the chat.
Changed(c) ==
    /\ c # chat
    /\ changes < MaxChanges /\ changes' = changes + 1
    /\ chat' = c
    /\ IF connection = "on" THEN events < MaxEvents /\ events' = events + 1 ELSE UNCHANGED events

OthersChange(u) ==
    /\ \/ Changed([chat EXCEPT !.members = @ \cup {u}])
       \/ Changed([chat EXCEPT !.members = @ \ {u}])
    /\ UNCHANGED <<connection, info, conv, requests, why>>

ServeGet(r) ==
    /\ r.op = "get" /\ r.at = "sent"
    /\ requests' = (requests (-) SetToBag({r})) (+)
         SetToBag({[op |-> "get", opens |-> r.opens, at |-> "served", seen |-> chat]})
    /\ UNCHANGED <<connection, info, conv, chat, events, changes, why>>

ServeEdit(r) ==
    /\ r.at = "sent"
    /\ \/ r.op = "add"    /\ Changed([chat EXCEPT !.members = @ \cup {r.arg}])
       \/ r.op = "remove" /\ Changed([chat EXCEPT !.members = @ \ {r.arg}])
       \/ r.op = "title"  /\ Changed([chat EXCEPT !.title = r.arg])
    /\ requests' = (requests (-) SetToBag({r})) (+) SetToBag({[r EXCEPT !.at = "served"]})
    /\ UNCHANGED <<connection, info, conv, why>>

-----------------------------------------------------------------------------
(* The user, and the rest of the plugin *)

\* vk_alias_buddy: open conversations are updated, with the names they had.
AliasBuddy ==
    /\ conv.at = "open"
    /\ conv' = Updated(conv, info)
    /\ UNCHANGED <<connection, info, requests, chat, events, changes, why>>

\* vk_chat_leave, or a window that was left is closed.
CloseConv ==
    /\ conv.at # "none"
    /\ conv' = NoConv
    /\ UNCHANGED <<connection, info, requests, chat, events, changes, why>>

MembersLogin ==
    /\ connection = "off"
    /\ connection' = "on"
    /\ UNCHANGED <<info, conv, requests, chat, events, changes, why>>

\* vk_close: requests are cancelled and call nobody back.
MembersClose ==
    /\ connection = "on"
    /\ connection' = "off"
    /\ info' = NoInfo /\ events' = 0 /\ why' = {}
    /\ requests' = EmptyBag
    /\ conv' = IF conv.at = "open" THEN [conv EXCEPT !.at = "left"] ELSE conv
    /\ UNCHANGED <<chat, changes>>

MembersNext ==
    \/ OpenConv \/ Event \/ Refresh
    \/ \E u \in Users, op \in {"add", "remove"} : Command(Edit(op, u))
    \/ \E t \in Titles : Command(Edit("title", t))
    \/ \E r \in DOMAIN requests :
        GetAnswered(r) \/ EditAnswered(r) \/ Fails(r) \/ ServeGet(r) \/ ServeEdit(r)
    \/ \E u \in Users : OthersChange(u)
    \/ AliasBuddy \/ CloseConv \/ MembersLogin \/ MembersClose

MembersSpec == MembersInit /\ [][MembersNext]_memberVars

\* Requests end, the timer for updates fires, though the bound on requests may
\* be reached again and again, and not all updates fail.
MembersFairSpec ==
    /\ MembersSpec
    /\ WF_memberVars(\E r \in DOMAIN requests : EditAnswered(r) \/ Fails(r))
    /\ SF_memberVars(Refresh)
    /\ SF_memberVars(\E r \in DOMAIN requests : ServeGet(r))
    /\ SF_memberVars(\E r \in DOMAIN requests : GetAnswered(r))

-----------------------------------------------------------------------------
(* Properties *)

\* An open conversation shows who is known to be in the chat, after every
\* answer, command, renaming, reopening and failed request; but somebody with the
\* name of the account may stay, as are_equal_chat_users takes him for the account.
ConvShowsInfo ==
    conv.at = "open" =>
        /\ conv.title = info.title
        /\ conv.names \in {Range(info.participants), Range(info.participants) \cup {Shared(SelfAlias)}}

\* No two participants have the same name, so that find_user_id_from_conv finds
\* the user who was meant, whenever names were learned, changed and users added.
NamesTellApart ==
    \A u, v \in DOMAIN info.participants :
        info.participants[u] = info.participants[v] => u = v

\* The window shows who is known to be in the chat, and tells them apart.
ShownInv == MembersTypeOK /\ ConvShowsInfo /\ NamesTellApart

\* What is known of the chat is out of date only while an event or a request
\* will tell, or after a request has failed, or as an answer was overtaken.
StaleForAReason ==
    info.is /\ ~Tells(info, chat) =>
        \/ events > 0
        \/ \E r \in DOMAIN requests : r.op = "get" /\ (r.at = "sent" \/ r.seen = chat)
        \/ why # {}

\* In a session that stays, what is known of the chat and shown in an open
\* conversation comes to be what the chat is, whatever failed or was overtaken.
MembersConverge ==
    <>[](connection = "on") => <>[](info.is /\ Tells(info, chat))

=============================================================================
