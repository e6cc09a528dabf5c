----------------------------- MODULE BuddyList -----------------------------
(***************************************************************************)
(* Users in the buddy list: the user half of vk-buddy.cpp with the         *)
(* operations of vk-plugin.cpp on buddies and the part of VkData that      *)
(* remembers what was added and removed by hand.                           *)
(*                                                                         *)
(* The plugin keeps three pictures of the list that do not agree at all    *)
(* times: what the server says (friends and dialogs), what the user did    *)
(* (additions, removals, own aliases), and the entries as they were seen   *)
(* last (blist_buddies), from which it guesses what the user did.  Groups  *)
(* are customised by the same code as aliases and are left out.            *)
(***************************************************************************)
EXTENDS Naturals, FiniteSets

CONSTANTS
    Users,
    Names,          \* names users give themselves
    Mine,           \* an alias the user gives to a buddy
    NoName,         \* the empty name of an info, and the alias made of it
    None,           \* no info, no entry
    IdlessChat,     \* the list holds a chat that has no id
    MaxUpdates,     \* bound on updates of all infos under way at once
    MaxCrashes      \* bound on crashes of the program

Aliases == Names \cup {Mine, NoName}
Entry(alias, custom) == [alias |-> alias, custom |-> custom]
Entries == [alias : Aliases, custom : BOOLEAN]

ASSUME BuddiesAssumption ==
    /\ Mine \notin Names /\ NoName \notin Names /\ Mine # NoName
    /\ None \notin Aliases \cup Entries
    /\ IdlessChat \in BOOLEAN
    /\ MaxUpdates \in Nat /\ MaxCrashes \in Nat

VARIABLES
    \* VkData
    session,        \* "on" between the end of vk_login and vk_close
    onlyFriends,    \* the option only_friends_in_blist
    infos,          \* real_name in user_infos
    friendIds,      \* friend_user_ids
    dialogIds,      \* dialog_user_ids
    added,          \* m_manually_added_buddies
    removed,        \* m_manually_removed_buddies
    nodes,          \* aliases in blist_buddies
    \* Requests and timers
    chains,         \* updates of all infos, see Stages
    fetches,        \* users.get of a user who is to be listed, see TypeOK
    closing,        \* users whose remove_buddy_if_needed is due
    \* libpurple (external)
    buddies,        \* the buddy list
    convs,          \* users with an open conversation
    stored,         \* settings manually_added_buddies, manually_removed_buddies
    \* History
    told,           \* friends as friends.get has last told them
    unchecked,      \* entries made or found since update_blist has looked at them
    gone,           \* users removed by hand, and not added again since
    picked,         \* users added by hand, and not removed since
    mine,           \* users whose alias the user has chosen, see UserRenames
    crashes

lists    == <<friendIds, dialogIds, told>>
marks    == <<added, removed>>
requests == <<chains, fetches, closing>>
listVars == <<buddies, nodes>>
histVars == <<unchecked, gone, picked, mine, crashes>>
vars == <<session, onlyFriends, infos, lists, marks, requests, listVars, convs, stored,
          histVars>>

\* The request an update waits for: friends.getOnline when Long Poll starts,
\* then friends.get, messages.getDialogs, users.get of ask, messages.getChat.
\* Two updates that wait for the same answer are one in the model.
Stages == {"online", "friends", "dialogs", "infos", "chats"}
Chain(at, ask) == [at |-> at, ask |-> ask]

TypeOK ==
    /\ session \in {"off", "on"}
    /\ onlyFriends \in BOOLEAN
    /\ infos \in [Users -> Names \cup {NoName, None}]
    /\ friendIds \in SUBSET Users
    /\ dialogIds \in SUBSET Users
    /\ added \in SUBSET Users
    /\ removed \in SUBSET Users
    /\ nodes \in [Users -> Aliases \cup {None}]
    /\ chains \in SUBSET [at : Stages, ask : SUBSET Users]
    \* alias: vk_add_buddy_with_invite will set the alias the user has typed
    /\ fetches \in SUBSET [user : Users, alias : BOOLEAN]
    /\ closing \in SUBSET Users
    /\ buddies \in [Users -> Entries \cup {None}]
    /\ convs \in SUBSET Users
    /\ stored \in [added : SUBSET Users, removed : SUBSET Users]
    /\ told \in SUBSET Users
    /\ unchecked \in SUBSET Users
    /\ gone \in SUBSET Users
    /\ picked \in SUBSET Users
    /\ mine \in SUBSET Users
    /\ crashes \in 0..MaxCrashes

Init ==
    /\ session = "off"
    /\ onlyFriends \in BOOLEAN
    /\ infos = [u \in Users |-> None]
    /\ friendIds = {} /\ dialogIds = {} /\ told = {}
    /\ added = {} /\ removed = {}
    /\ chains = {} /\ fetches = {} /\ closing = {}
    /\ buddies = [u \in Users |-> None]
    /\ nodes = [u \in Users |-> None]
    /\ convs = {}
    /\ stored = [added |-> {}, removed |-> {}]
    /\ unchecked = {} /\ gone = {} /\ picked = {} /\ mine = {} /\ crashes = 0

-----------------------------------------------------------------------------
(* A definition named X_Y before a definition X is X with a bug seeded, for  *)
(* the mutation runs that show what each property detects.                   *)

Listed == {u \in Users : buddies[u] # None}
Noted  == {u \in Users : nodes[u] # None}

\* user_should_be_in_blist, with the users added and removed by hand
Wanted(u, plus, minus) ==
    \/ u \in convs
    \/ u \notin minus /\ (u \in friendIds \/ u \in plus \/ (~onlyFriends /\ u \in dialogIds))

\* check_customized_alias: has the user chosen the alias of entry b, which was
\* last seen as node, of a user who is called name?
IsCustom(b, node, name) == IF b.custom THEN b.alias # name ELSE node # b.alias

\* The entry of a user after update_blist_buddy
Updated(b, node, name) ==
    IF b = None THEN Entry(name, FALSE)
    ELSE LET custom == IF node = None THEN b.custom ELSE IsCustom(b, node, name)
         IN  Entry(IF custom THEN b.alias ELSE name, custom)

\* set_manually_removed_buddy
MarkRemoved(U) ==
    /\ removed' = removed \cup U
    /\ added' = added \ U

\* remove_blist_buddy of the users U
RemoveBuddies_KeepsNodes(U) ==
    /\ buddies' = [u \in Users |-> IF u \in U THEN None ELSE buddies[u]]
    /\ mine' = mine \ U
    /\ UNCHANGED nodes

RemoveBuddies(U) ==
    /\ buddies' = [u \in Users |-> IF u \in U THEN None ELSE buddies[u]]
    /\ nodes' = [u \in Users |-> IF u \in U THEN None ELSE nodes[u]]
    /\ mine' = mine \ U

-----------------------------------------------------------------------------
(* The update of all infos *)

\* start_long_poll_impl once more, after an error of Long Poll
Restart ==
    /\ session = "on" /\ Cardinality(chains) < MaxUpdates
    /\ chains' = chains \cup {Chain("online", {})}
    /\ UNCHANGED <<session, onlyFriends, infos, lists, marks, fetches, closing>>
    /\ UNCHANGED <<listVars, convs, stored, histVars>>

\* The timer of update_user_chat_infos
Refresh ==
    /\ session = "on" /\ Cardinality(chains) < MaxUpdates
    /\ chains' = chains \cup {Chain("friends", {})}
    /\ UNCHANGED <<session, onlyFriends, infos, lists, marks, fetches, closing>>
    /\ UNCHANGED <<listVars, convs, stored, histVars>>

\* update_friends_presence: friends that are online get an info without a name,
\* and are all the friends until friends.get answers.
OnlineAnswered(O) ==
    /\ Chain("online", {}) \in chains
    /\ infos' = [u \in Users |-> IF u \in O /\ infos[u] = None THEN NoName ELSE infos[u]]
    /\ friendIds' = O
    /\ chains' = (chains \ {Chain("online", {})}) \cup {Chain("friends", {})}
    /\ UNCHANGED <<session, onlyFriends, dialogIds, told, marks, fetches, closing>>
    /\ UNCHANGED <<listVars, convs, stored, histVars>>

\* update_user_info_from of the users U, who are called names
Learned(U, names) == [u \in Users |-> IF u \in U THEN names[u] ELSE infos[u]]

\* update_friends_info: the users F are the friends.
FriendsAnswered(F, names) ==
    /\ Chain("friends", {}) \in chains
    /\ friendIds' = F /\ told' = F
    /\ infos' = Learned(F, names)
    /\ chains' = (chains \ {Chain("friends", {})}) \cup {Chain("dialogs", {})}
    /\ UNCHANGED <<session, onlyFriends, dialogIds, marks, fetches, closing>>
    /\ UNCHANGED <<listVars, convs, stored, histVars>>

\* get_users_chats_from_dialogs has read the last page: users D have dialogs.
DialogsAnswered(D) ==
    /\ Chain("dialogs", {}) \in chains
    /\ dialogIds' = D
    /\ LET ask == ((IF onlyFriends THEN {} ELSE D) \cup added) \ friendIds
       IN chains' = (chains \ {Chain("dialogs", {})}) \cup {Chain("infos", ask)}
    /\ UNCHANGED <<session, onlyFriends, infos, friendIds, told, marks, fetches, closing>>
    /\ UNCHANGED <<listVars, convs, stored, histVars>>

\* update_user_infos; an error, or a user that is missing, is passed over.
InfosAnswered(c, got, names) ==
    /\ c \in chains /\ c.at = "infos"
    /\ got \subseteq c.ask
    /\ infos' = Learned(got, names)
    /\ chains' = (chains \ {c}) \cup {Chain("chats", {})}
    /\ UNCHANGED <<session, onlyFriends, lists, marks, fetches, closing>>
    /\ UNCHANGED <<listVars, convs, stored, histVars>>

\* update_chat_infos, which learns of unknown members of chats, and
\* update_blist: list what is wanted, then remove what is not.
ChatsAnswered(members, names) ==
    /\ Chain("chats", {}) \in chains
    /\ \A u \in members : infos[u] \in {None, NoName}
    /\ infos' = Learned(members, names)
    /\ chains' = chains \ {Chain("chats", {})}
    /\ LET update == {u \in Users : infos'[u] # None /\ Wanted(u, added, removed)}
           lost   == (update \cap Noted) \ Listed
           drop   == {u \in Listed \cup update : ~Wanted(u, added \ lost, removed \cup lost)}
           after(u) == Updated(buddies[u], nodes[u], infos'[u])
       IN /\ MarkRemoved(lost)
          /\ buddies' = [u \in Users |-> IF u \in drop THEN None
                                         ELSE IF u \in update THEN after(u) ELSE buddies[u]]
          /\ nodes' = [u \in Users |-> IF u \in drop THEN None
                                       ELSE IF u \in update THEN after(u).alias ELSE nodes[u]]
          /\ mine' = mine \ drop
    /\ unchecked' = {}
    /\ UNCHANGED <<session, onlyFriends, lists, fetches, closing, convs, stored>>
    /\ UNCHANGED <<gone, picked, crashes>>

-----------------------------------------------------------------------------
(* Single users *)

\* update_blist_buddy of u, whose entry is b, when plus and minus are the users
\* added and removed by hand; with alias, vk_add_buddy_with_invite then sets
\* the alias.  An entry that was noted and has gone was removed by the user.
ListOne(u, b, plus, minus, alias, name) ==
    LET new  == Updated(b, nodes[u], name)
        lost == IF nodes[u] # None /\ b = None THEN {u} ELSE {}
    IN  /\ buddies' = [buddies EXCEPT ![u] = IF alias THEN Entry(Mine, TRUE) ELSE new]
        /\ nodes' = [nodes EXCEPT ![u] = new.alias]
        /\ added' = plus \ lost
        /\ removed' = minus \cup lost
        /\ mine' = IF alias THEN mine \cup {u} ELSE IF b = None THEN mine \ {u} ELSE mine
        /\ unchecked' = unchecked \cup {u}

\* The entry of u is b, which is updated no further.
SetOne(u, b, alias) ==
    /\ buddies' = [buddies EXCEPT ![u] = IF alias /\ b # None THEN Entry(Mine, TRUE) ELSE b]
    /\ mine' = IF b = None THEN mine \ {u} ELSE IF alias THEN mine \cup {u} ELSE mine
    /\ UNCHANGED <<nodes, unchecked>>

\* add_buddy_if_needed
AddIfNeeded(u, b, plus, minus, alias) ==
    \/ /\ b # None /\ infos[u] \notin {None, NoName}
       /\ SetOne(u, b, alias)
       /\ added' = plus /\ removed' = minus
       /\ UNCHANGED <<dialogIds, fetches>>
    \/ /\ b = None /\ infos[u] \notin {None, NoName}
       /\ dialogIds' = dialogIds \cup {u}
       /\ ListOne(u, b, plus, minus, alias, infos[u])
       /\ UNCHANGED fetches
    \/ /\ infos[u] \in {None, NoName}
       /\ dialogIds' = dialogIds \cup {u}
       /\ fetches' = fetches \cup {[user |-> u, alias |-> alias]}
       /\ SetOne(u, b, FALSE)
       /\ added' = plus /\ removed' = minus

\* A message to or from u, his typing, his coming online, his name in a chat
Contact(u) ==
    /\ session = "on"
    /\ AddIfNeeded(u, buddies[u], added, removed, FALSE)
    /\ UNCHANGED <<session, onlyFriends, infos, friendIds, told, chains, closing, convs>>
    /\ UNCHANGED <<stored, gone, picked, crashes>>

\* vk_add_buddy_with_invite: the entry the user has made is removed again.  If
\* u was listed under the same name and in the same group, it was his.
AddBuddy(u, alias, b) ==
    /\ session = "on"
    /\ AddIfNeeded(u, b, added \cup {u}, removed \ {u}, alias)
    /\ gone' = gone \ {u}
    /\ picked' = picked \cup {u}
    /\ UNCHANGED <<session, onlyFriends, infos, friendIds, told, chains, closing, convs>>
    /\ UNCHANGED <<stored, crashes>>

\* users.get of a user who is to be listed; errors are passed over.
FetchAnswered(f, ok, names) ==
    /\ f \in fetches
    /\ fetches' = fetches \ {f}
    /\ infos' = IF ok THEN Learned({f.user}, names) ELSE infos
    /\ \/ /\ infos'[f.user] # None
          /\ ListOne(f.user, buddies[f.user], added, removed, f.alias, infos'[f.user])
       \/ /\ infos'[f.user] = None
          /\ SetOne(f.user, buddies[f.user], f.alias)
          /\ UNCHANGED marks
    /\ UNCHANGED <<session, onlyFriends, lists, chains, closing, convs, stored>>
    /\ UNCHANGED <<gone, picked, crashes>>

-----------------------------------------------------------------------------
(* The user *)

\* "Remove" in the buddy list: vk_remove_buddy, if there is a session to tell.
UserRemoves(u) ==
    /\ buddies[u] # None
    /\ buddies' = [buddies EXCEPT ![u] = None]
    /\ mine' = mine \ {u}
    /\ \/ /\ session = "on"
          /\ MarkRemoved({u})
          /\ gone' = gone \cup {u} /\ picked' = picked \ {u}
       \/ session = "off" /\ UNCHANGED <<marks, gone, picked>>
    /\ UNCHANGED <<session, onlyFriends, infos, lists, requests, nodes, convs, stored>>
    /\ UNCHANGED <<unchecked, crashes>>

\* The plugin is not told, and will find out if it has noted another alias, or
\* knows already that the alias is not of its own making.
UserRenames(u, alias) ==
    /\ buddies[u] # None /\ buddies[u].alias # alias
    /\ buddies' = [buddies EXCEPT ![u].alias = alias]
    /\ mine' = IF alias = Mine /\ (buddies[u].custom \/ nodes[u] \notin {None, Mine})
               THEN mine \cup {u} ELSE mine \ {u}
    /\ UNCHANGED <<session, onlyFriends, infos, lists, marks, requests, nodes, convs>>
    /\ UNCHANGED <<stored, unchecked, gone, picked, crashes>>

OpenConv(u) ==
    /\ session = "on" /\ u \notin convs
    /\ convs' = convs \cup {u}
    /\ UNCHANGED <<session, onlyFriends, infos, lists, marks, requests, listVars, stored>>
    /\ UNCHANGED histVars

\* vk_convo_closed
CloseConv(u) ==
    /\ u \in convs
    /\ convs' = convs \ {u}
    /\ closing' = IF session = "on" THEN closing \cup {u} ELSE closing
    /\ UNCHANGED <<session, onlyFriends, infos, lists, marks, chains, fetches, listVars>>
    /\ UNCHANGED <<stored, histVars>>

\* remove_buddy_if_needed, from a timer of 0 ms
CloseDue_NotAsked(u) ==
    /\ u \in closing
    /\ closing' = closing \ {u}
    /\ RemoveBuddies({u} \cap Listed)
    /\ UNCHANGED <<session, onlyFriends, infos, lists, marks, chains, fetches, convs>>
    /\ UNCHANGED <<stored, unchecked, gone, picked, crashes>>

CloseDue(u) ==
    /\ u \in closing
    /\ closing' = closing \ {u}
    /\ RemoveBuddies(IF Wanted(u, added, removed) THEN {} ELSE {u} \cap Listed)
    /\ UNCHANGED <<session, onlyFriends, infos, lists, marks, chains, fetches, convs>>
    /\ UNCHANGED <<stored, unchecked, gone, picked, crashes>>

-----------------------------------------------------------------------------
(* Sessions *)

\* vk_login, once authenticated, with the entries R noted: check_blist_on_login
\* goes through the list and ends at the first chat without an id.
Login(R) ==
    /\ session = "off"
    /\ R \subseteq Listed /\ (R = Listed \/ IdlessChat)
    /\ session' = "on"
    /\ onlyFriends' \in BOOLEAN
    /\ added' = stored.added /\ removed' = stored.removed
    /\ nodes' = [u \in Users |-> IF u \in R THEN buddies[u].alias ELSE None]
    /\ chains' = {Chain("online", {})}
    /\ unchecked' = Listed
    /\ UNCHANGED <<infos, lists, fetches, closing, buddies, convs, stored, gone, picked>>
    /\ UNCHANGED <<mine, crashes>>

\* VkData is gone; its timers are removed, and requests do not call back.
SessionOver ==
    /\ session = "on"
    /\ session' = "off"
    /\ infos' = [u \in Users |-> None]
    /\ friendIds' = {} /\ dialogIds' = {} /\ told' = {}
    /\ added' = {} /\ removed' = {}
    /\ nodes' = [u \in Users |-> None]
    /\ chains' = {} /\ fetches' = {} /\ closing' = {}
    /\ unchecked' = {}
    /\ UNCHANGED <<onlyFriends, convs>>

\* vk_close, by the user or after a connection error: check_blist_on_logout,
\* and the destructor stores what it found.
Close_Unchecked ==
    /\ SessionOver
    /\ stored' = [added |-> added, removed |-> removed]
    /\ mine' = {u \in mine : infos[u] # None \/ buddies[u].custom}
    /\ UNCHANGED <<buddies, gone, picked, crashes>>

Close ==
    /\ SessionOver
    /\ LET lost == Noted \ Listed
       IN stored' = [added |-> added \ lost, removed |-> removed \cup lost]
    /\ buddies' = [u \in Users |->
                    IF u \in Noted \cap Listed /\ infos[u] # None
                    THEN [buddies[u] EXCEPT !.custom = IsCustom(buddies[u], nodes[u], infos[u])]
                    ELSE buddies[u]]
    /\ mine' = {u \in mine : infos[u] # None \/ buddies[u].custom}
    /\ UNCHANGED <<gone, picked, crashes>>

\* The list is stored by libpurple, the settings are as they were.
Crash ==
    /\ crashes < MaxCrashes
    /\ crashes' = crashes + 1
    /\ SessionOver
    /\ gone' = gone \cap stored.removed
    /\ picked' = picked \cap (stored.added \cup stored.removed)
    /\ mine' = {u \in mine : buddies[u].custom}
    /\ UNCHANGED <<buddies, stored>>

Next ==
    \/ Restart \/ Refresh
    \/ \E O \in SUBSET Users : OnlineAnswered(O)
    \/ \E D \in SUBSET Users : DialogsAnswered(D)
    \/ \E names \in [Users -> Names] :
        \/ \E F \in SUBSET Users : FriendsAnswered(F, names)
        \/ \E c \in chains : \E got \in SUBSET c.ask : InfosAnswered(c, got, names)
        \/ \E members \in SUBSET Users : ChatsAnswered(members, names)
        \/ \E f \in fetches, ok \in BOOLEAN : FetchAnswered(f, ok, names)
    \/ \E u \in Users :
        \/ Contact(u)
        \/ \E alias \in BOOLEAN : \E b \in {buddies[u], None} : AddBuddy(u, alias, b)
        \/ UserRemoves(u)
        \/ \E alias \in Names \cup {Mine} : UserRenames(u, alias)
        \/ OpenConv(u) \/ CloseConv(u) \/ CloseDue(u)
    \/ \E R \in SUBSET Users : Login(R)
    \/ Close
    \/ Crash

Spec == Init /\ [][Next]_vars

-----------------------------------------------------------------------------
(* Properties *)

\* A user is in the list because he belongs there, or nobody has looked at his
\* entry since it was made: temporary entries go with their conversation, in
\* whatever order messages come, answers arrive and the user opens, closes,
\* adds and removes.
ListedForAReason ==
    session = "on" /\ chains = {} =>
        \A u \in Listed : Wanted(u, added, removed) \/ u \in unchecked \cup closing

\* When no update is under way, friends are listed, even if they were dropped
\* meanwhile: only the user's own hand keeps one out, by a removal or by the
\* addition that ChoicesAreRemembered excepts, and no guess of the plugin.
FriendsAreListed ==
    session = "on" /\ chains = {} => told \subseteq Listed \cup gone \cup picked

\* The list is what friends, dialogs, conversations and the user make it.
ListInv == ListedForAReason /\ FriendsAreListed

\* What the user has chosen by hand is remembered across sessions: a removal
\* as a removal; an addition as such, or as a removal if the entry was noted
\* and had gone when the user was added again.
ChoicesAreRemembered ==
    LET plus  == IF session = "on" THEN added ELSE stored.added
        minus == IF session = "on" THEN removed ELSE stored.removed
    IN  gone \subseteq minus /\ picked \subseteq plus \cup minus /\ plus \cap minus = {}

\* An alias the user has chosen stays while the entry does: it is marked as
\* such, or will be when it is looked at.  The exceptions are those of
\* UserRenames (renamed offline, or not noted at login), Crash and Close
\* (before it was marked).
RenameIsKept ==
    \A u \in mine \cap Listed :
        /\ buddies[u].alias = Mine
        /\ buddies[u].custom \/ nodes[u] \notin {None, Mine}

\* What the user did by hand stays done.
HandInv == ChoicesAreRemembered /\ RenameIsKept

\* No friend is dropped from the list, and his entry made anew, unless he was
\* removed by hand, or between friends.getOnline and friends.get only those
\* who are online are taken for friends.
FriendIsNotDropped ==
    [][\A u \in Listed \cap told :
         session' = "on" /\ buddies'[u] = None =>
             u \in removed' \cup picked' \/ (Chain("friends", {}) \in chains /\ u \notin friendIds)]_vars

=============================================================================
