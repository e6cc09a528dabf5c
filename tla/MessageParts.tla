---------------------------- MODULE MessageParts ----------------------------
(***************************************************************************)
(* How received messages get their images and names: vk-message-recv.cpp   *)
(* between the answers of messages.get or messages.getById and the writing *)
(* of the messages.                                                        *)
(*                                                                         *)
(* The text of a message holds placeholders for images to download and for *)
(* users and groups who are unknown when the message is processed, which   *)
(* is in Attachments.  A batch of messages then goes through stages, each  *)
(* of which asks for what is still unknown when it begins, and replaces    *)
(* placeholders when it is answered.  Several batches are under way at     *)
(* once, and share what is known of users, groups and chats with the rest  *)
(* of the plugin.  Which messages a batch gets and when it saves the       *)
(* cursor is in MessageSync, the opening of chats in ChatList, the entries *)
(* of the list in BuddyList.  MessageProofs extends this module and        *)
(* MessageSend: hence some of the names.                                   *)
(***************************************************************************)
EXTENDS MessageItems, Naturals, Sequences, FiniteSets, Functions

CONSTANTS
    Users, Groups, Chats,
    NoChat,         \* the chat of an instant message
    Receivable,     \* messages that may be received, see PartsAssumption
    Processed(_, _),    \* the item made of a message, when some are unknown
    Batches,        \* calls of receive_messages and receive_messages_range
    MaxItems        \* bound on messages received in a batch

Things == Users \cup Groups \cup Chats

\* A placeholder in the text of an item is that of an entry of its lists.
Items == [msg : Receivable, images : Nat, users : Seq(Users), groups : Seq(Groups),
          text : SUBSET [kind : {"image", "user", "group"}, at : Nat]]
GoodItem(item) ==
    /\ item \in Items
    /\ item.text \subseteq
         {Placeholder("image", j) : j \in 0 .. item.images - 1}
           \cup {Placeholder("user", j - 1) : j \in DOMAIN item.users}
           \cup {Placeholder("group", j - 1) : j \in DOMAIN item.groups}

\* The last conjunct says of process_message what is needed of it here: see
\* ProcessMessage of Attachments, which is what Processed stands for.
ASSUME PartsAssumption ==
    /\ NoChat \notin Chats
    /\ Users \cap Groups = {} /\ Users \cap Chats = {} /\ Groups \cap Chats = {}
    /\ \A m \in Receivable :
        /\ m.author \in Users /\ m.chat \in Chats \cup {NoChat}
        /\ m.status \in {"unread", "read", "out"}
    /\ MaxItems \in Nat
    /\ \A m \in Receivable : \A unknown \in SUBSET (Users \cup Groups) :
        GoodItem(Processed(m, unknown)) /\ Processed(m, unknown).msg = m

VARIABLES
    connection, \* "on" or "off"
    info,       \* user_infos, group_infos and chat_infos, see Infos
    listed,     \* users and chats in the buddy list (external)
    at,         \* the stage of each batch
    items,      \* MessagesData::messages of each batch
    image,      \* the image a batch downloads, <<msg_num, thumb_num>>
    want,       \* what a batch will list when the answer comes
    shown,      \* history: items written, with their batch and index
    broken,     \* history: images a batch could not download
    untold,     \* history: whom a batch asked for, and was not told of
    taken       \* history: entries removed while a batch was at "buddies"

batchVars == <<at, items, image, want>>
histVars  == <<broken, untold, taken>>
partsVars == <<connection, info, listed, batchVars, shown, histVars>>

\* "poor": there is an info, but it has no name yet, or is 15 minutes old.
Infos == {"none", "poor", "good"}

\* The stages after "fetch", in their order.  A batch in one of them waits for
\* an answer.
Order == <<"images", "users", "groups", "chats", "chatlist", "authors", "buddies">>
Over  == {"done", "cut", "silent", "closed"}
BatchStages == {"none", "fetch"} \cup {Order[i] : i \in DOMAIN Order} \cup Over

NoImage == <<0, 0>>

PartsTypeOK ==
    /\ connection \in {"on", "off"}
    /\ info \in [Things -> Infos]
    /\ listed \in SUBSET (Users \cup Chats)
    /\ at \in [Batches -> BatchStages]
    /\ \A b \in Batches :
        /\ Len(items[b]) <= MaxItems
        /\ \A i \in DOMAIN items[b] : GoodItem(items[b][i])
        /\ image[b] # NoImage <=> at[b] = "images"
        /\ want[b] \in SUBSET (Users \cup Chats)
        /\ want[b] # {} => at[b] \in {"chatlist", "buddies"}
        /\ untold[b] \in SUBSET (Users \cup Groups)

PartsInit ==
    /\ connection = "off"
    /\ info = [t \in Things |-> "none"]
    /\ listed = {}
    /\ at = [b \in Batches |-> "none"]
    /\ items = [b \in Batches |-> <<>>]
    /\ image = [b \in Batches |-> NoImage]
    /\ want = [b \in Batches |-> {}]
    /\ shown = {}
    /\ broken = [b \in Batches |-> {}]
    /\ untold = [b \in Batches |-> {}]
    /\ taken = [b \in Batches |-> {}]

-----------------------------------------------------------------------------
(* A definition named X_Y before a definition X is X with a bug seeded, for  *)
(* the mutation runs that show what each property detects.                   *)

Unknown(T) == {t \in T : info[t] # "good"}

\* The messages of a batch that was received as the items I
Of(I) == {I[i].msg : i \in DOMAIN I}
Unread(I) == {m \in Of(I) : m.status = "unread"}
Mentioned(I) == UNION {Range(I[i].users) \cup Range(I[i].groups) : i \in DOMAIN I}

\* What is to be known, and to be listed, after a stage
ChatsToList(I) == {m.chat : m \in Unread(I)} \ ({NoChat} \cup listed)
UsersToList_Unknown(I) ==
    {m.author : m \in {k \in Unread(I) : k.chat = NoChat /\ info[k.author] # "good"}} \ listed
UsersToList(I) == {m.author : m \in {k \in Unread(I) : k.chat = NoChat}} \ listed
ToList(s, I) ==
    CASE s = "chatlist" -> ChatsToList(I)
      [] s = "buddies" -> UsersToList(I)
      [] OTHER -> {}
Needed(s, I) ==
    LET received == {m \in Of(I) : m.status # "out"}
    IN CASE s = "users"   -> Mentioned(I) \cap Users
         [] s = "groups"  -> Mentioned(I) \cap Groups
         [] s = "chats"   -> {m.chat : m \in received} \ {NoChat}
         [] s = "authors" -> {m.author : m \in received}
         [] s \in {"chatlist", "buddies"} -> ToList(s, I)

\* What a stage asks of the server, when the infos are know
Ask(s, I, know) == {t \in Needed(s, I) : know[t] # "good"}

Rank(s) == CHOOSE i \in DOMAIN Order : Order[i] = s

\* The next stage after s that asks, or the end
NextStage(s, I, know) ==
    LET asking == {i \in Rank(s) + 1 .. Len(Order) : Ask(Order[i], I, know) # {}}
    IN IF asking = {} THEN "done" ELSE Order[CHOOSE i \in asking : \A j \in asking : i <= j]

\* BatchStages that are over when a batch goes from s to t
Passed(s, t) ==
    {Order[i] : i \in Rank(s) .. (IF t = "done" THEN Len(Order) ELSE Rank(t) - 1)}

\* replace_user_ids, replace_group_ids: the items when stages are over, and
\* the infos are know
Replaced_IfAsked(I, stages, know) ==
    [i \in DOMAIN I |-> [I[i] EXCEPT !.text = @ \
        UNION {{Placeholder("user", j - 1) : j \in {k \in DOMAIN I[i].users :
                   "users" \in stages /\ know[I[i].users[k]] # info[I[i].users[k]]}},
               {Placeholder("group", j - 1) : j \in {k \in DOMAIN I[i].groups :
                   "groups" \in stages /\ know[I[i].groups[k]] # info[I[i].groups[k]]}}}]]

Replaced(I, stages, know) ==
    [i \in DOMAIN I |-> [I[i] EXCEPT !.text = @ \
        UNION {{Placeholder("user", j - 1) : j \in {k \in DOMAIN I[i].users :
                   "users" \in stages /\ know[I[i].users[k]] # "none"}},
               {Placeholder("group", j - 1) : j \in {k \in DOMAIN I[i].groups :
                   "groups" \in stages /\ know[I[i].groups[k]] # "none"}}}]]

\* finish_receiving: of copies of a message, one is written.
Written(b, I) ==
    {chosen \in SUBSET DOMAIN I :
        /\ {I[i].msg : i \in chosen} = Of(I)
        /\ \A i, j \in chosen : I[i].msg = I[j].msg => i = j}

Show(b, I) ==
    \E chosen \in Written(b, I) :
        shown' = shown \cup {[batch |-> b, index |-> i, item |-> I[i]] : i \in chosen}

\* The batch b, with items I, goes on after stage s, when the infos are know;
\* listing is what the stage lists when it is over.
GoOn(b, s, I, know, listing) ==
    LET t == NextStage(s, I, know)
        left == Replaced(I, Passed(s, t), know)
        also == UNION {ToList(p, I) : p \in Passed(s, t) \ {s}}
        now  == {x \in listing \cup also : know[x] # "none"}
    IN  /\ at' = [at EXCEPT ![b] = t]
        /\ image' = [image EXCEPT ![b] = NoImage]
        /\ want' = [want EXCEPT ![b] = IF t = "done" THEN {} ELSE ToList(t, I)]
        /\ listed' = listed \cup now
        /\ items' = [items EXCEPT ![b] = left]
        /\ IF t = "done" THEN Show(b, left) ELSE UNCHANGED shown
        /\ UNCHANGED taken

-----------------------------------------------------------------------------
(* Receiving *)

\* receive_messages, receive_messages_range
StartBatch(b) ==
    /\ connection = "on" /\ at[b] = "none"
    /\ at' = [at EXCEPT ![b] = "fetch"]
    /\ UNCHANGED <<connection, info, listed, items, image, want, shown, histVars>>

\* process_message; pages may overlap, so that a message comes again.  A message
\* without the fields it needs is passed over, as if it had not come.
Receive(b, m) ==
    /\ at[b] = "fetch" /\ Len(items[b]) < MaxItems
    /\ items' = [items EXCEPT ![b] = Append(@, Processed(m, Unknown(Users \cup Groups)))]
    /\ UNCHANGED <<connection, info, listed, at, image, want, shown, histVars>>

\* The images of a batch after p, in the order of download_thumbnail
After(p, q) == q[1] > p[1] \/ (q[1] = p[1] /\ q[2] > p[2])
Further_Others(b, p) ==
    {q \in UNION {{i} \X (0 .. items[b][i].images - 1) : i \in DOMAIN items[b]} : q # p}
Further(b, p) ==
    {q \in UNION {{i} \X (0 .. items[b][i].images - 1) : i \in DOMAIN items[b]} : After(p, q)}
First(Q) == CHOOSE p \in Q : \A q \in Q : q = p \/ After(p, q)

\* download_thumbnail, after the image p, with the items I
NextImage(b, p, I) ==
    IF Further(b, p) # {}
    THEN /\ image' = [image EXCEPT ![b] = First(Further(b, p))]
         /\ at' = [at EXCEPT ![b] = "images"]
         /\ items' = [items EXCEPT ![b] = I]
         /\ UNCHANGED <<listed, want, shown, taken>>
    ELSE GoOn(b, "images", I, info, {})

\* All pages have come.
FetchAnswered(b) ==
    /\ at[b] = "fetch"
    /\ NextImage(b, NoImage, items[b])
    /\ UNCHANGED <<connection, info, broken, untold>>

\* An error on a page: what has come is written as it is.
FetchFails(b) ==
    /\ at[b] = "fetch"
    /\ at' = [at EXCEPT ![b] = "cut"]
    /\ Show(b, items[b])
    /\ UNCHANGED <<connection, info, listed, items, image, want, histVars>>

ImageLoaded(b) ==
    /\ at[b] = "images"
    /\ LET p == image[b]
       IN NextImage(b, p, [items[b] EXCEPT ![p[1]].text = @ \ {Placeholder("image", p[2])}])
    /\ UNCHANGED <<connection, info, broken, untold>>

\* The placeholder stays, and the next image is loaded.
ImageFails(b) ==
    /\ at[b] = "images"
    /\ broken' = [broken EXCEPT ![b] = @ \cup {image[b]}]
    /\ NextImage(b, image[b], items[b])
    /\ UNCHANGED <<connection, info, untold>>

\* users.get, groups.getById or messages.getChat tells of some of what was
\* asked; the callers take an error for an answer.
Asking(b) == at[b] \in {"users", "groups", "chats", "chatlist", "authors", "buddies"}
Asked(b) ==
    IF at[b] \in {"chatlist", "buddies"} THEN want[b] ELSE Needed(at[b], items[b])

Answered(b) ==
    /\ Asking(b)
    /\ \E got \in SUBSET Asked(b) :
        LET know == [t \in Things |-> IF t \in got THEN "good" ELSE info[t]]
        IN /\ info' = know
           /\ GoOn(b, at[b], items[b], know, want[b])
           /\ untold' = [untold EXCEPT ![b] = @ \cup {t \in Asked(b) \ Chats : know[t] # "good"}]
    /\ UNCHANGED <<connection, broken>>

\* update_groups_info goes no further after an answer it does not understand,
\* where the others also give the connection up, and the flood control error
\* calls nobody back.
FallsSilent(b) ==
    /\ Asking(b) \/ at[b] = "fetch"
    /\ at' = [at EXCEPT ![b] = "silent"]
    /\ want' = [want EXCEPT ![b] = {}]
    /\ UNCHANGED <<connection, info, listed, items, image, shown, histVars>>

-----------------------------------------------------------------------------
(* The rest of the plugin *)

\* Other requests and events learn of a user, group or chat.
Learn(t) ==
    /\ connection = "on" /\ info[t] # "good"
    /\ \E i \in {"poor", "good"} :
        /\ i = "poor" => t \in Users /\ info[t] = "none"
        /\ info' = [info EXCEPT ![t] = i]
    /\ UNCHANGED <<connection, listed, batchVars, shown, histVars>>

\* is_unknown_group: what is known of a group is good for 15 minutes.
Ages(g) ==
    /\ info[g] = "good"
    /\ info' = [info EXCEPT ![g] = "poor"]
    /\ UNCHANGED <<connection, listed, batchVars, shown, histVars>>

\* Who writes instant messages: batches do not look at the entries of others.
Writers == {m.author : m \in {k \in Receivable : k.chat = NoChat}}

\* A message sent, an update of all infos; the entries of chats are left to
\* ChatList, as the properties below are not about them.
List(x) ==
    /\ connection = "on" /\ x \notin listed
    /\ listed' = listed \cup {x}
    /\ UNCHANGED <<connection, info, batchVars, shown, histVars>>

\* An entry is removed by the user, or as its conversation was closed.
Unlist(x) ==
    /\ x \in listed
    /\ listed' = listed \ {x}
    /\ taken' = [b \in Batches |-> IF at[b] = "buddies" THEN taken[b] \cup {x} ELSE taken[b]]
    /\ UNCHANGED <<connection, info, batchVars, shown, broken, untold>>

PartsLogin ==
    /\ connection = "off"
    /\ connection' = "on"
    /\ UNCHANGED <<info, listed, batchVars, shown, histVars>>

\* vk_close cancels requests.  API calls then call nobody, but download_thumbnail
\* goes on without the image: if it was the last, and nothing is to be asked,
\* the batch is written yet.  A download that waits to be repeated is gone.
Closing(b) ==
    /\ at[b] = "images" /\ Further(b, image[b]) = {}
    /\ NextStage("images", items[b], info) = "done"

PartsClose(finishing) ==
    /\ connection = "on"
    /\ finishing \subseteq {b \in Batches : Closing(b)}
    /\ connection' = "off"
    /\ info' = [t \in Things |-> "none"]
    /\ LET left(b) == Replaced(items[b], {"users", "groups"}, info)
           also == UNION {ToList("chatlist", items[b]) \cup ToList("buddies", items[b]) : b \in finishing}
       IN /\ listed' = listed \cup {x \in also : info[x] # "none"}
          /\ items' = [b \in Batches |-> IF b \in finishing THEN left(b) ELSE items[b]]
          /\ \E chosen \in [finishing -> SUBSET (1..MaxItems)] :
                /\ \A b \in finishing : chosen[b] \in Written(b, items[b])
                /\ shown' = shown \cup UNION {
                     {[batch |-> b, index |-> i, item |-> left(b)[i]] : i \in chosen[b]} :
                       b \in finishing}
    /\ broken' = [b \in Batches |-> IF b \in finishing THEN broken[b] \cup {image[b]} ELSE broken[b]]
    /\ at' = [b \in Batches |-> IF b \in finishing THEN "done"
                                ELSE IF at[b] \in {"none"} \cup Over THEN at[b] ELSE "closed"]
    /\ image' = [b \in Batches |-> NoImage]
    /\ want' = [b \in Batches |-> {}]
    /\ UNCHANGED <<untold, taken>>

-----------------------------------------------------------------------------
Progress(b) ==
    \/ FetchAnswered(b) \/ FetchFails(b)
    \/ ImageLoaded(b) \/ ImageFails(b)
    \/ Answered(b) \/ FallsSilent(b)

PartsNext ==
    \/ \E b \in Batches :
        \/ StartBatch(b)
        \/ \E m \in Receivable : Receive(b, m)
        \/ Progress(b)
    \/ \E t \in Things : Learn(t)
    \/ \E g \in Groups : Ages(g)
    \/ \E x \in Writers : List(x) \/ Unlist(x)
    \/ PartsLogin
    \/ \E finishing \in SUBSET Batches : PartsClose(finishing)

PartsSpec == PartsInit /\ [][PartsNext]_partsVars

\* Every request ends, one way or the other.
PartsFairSpec == PartsSpec /\ \A b \in Batches : WF_partsVars(Progress(b))

-----------------------------------------------------------------------------
(* Properties *)

\* No message is shown with a placeholder in it, whoever learned of whom in
\* what order, unless the image could not be downloaded, or the user or group
\* was asked for and not told, or an error ended the batch at a page.
PlaceholdersAreReplaced ==
    \A s \in shown : at[s.batch] # "cut" =>
        \A p \in s.item.text :
            CASE p.kind = "image" -> <<s.index, p.at>> \in broken[s.batch]
              [] p.kind = "user"  -> s.item.users[p.at + 1] \in untold[s.batch]
              [] p.kind = "group" -> s.item.groups[p.at + 1] \in untold[s.batch]

\* A batch that gets to its end shows each of its messages once.
EachOnce ==
    \A b \in Batches, m \in Receivable :
        Cardinality({s \in shown : s.batch = b /\ s.item.msg = m}) =
            IF at[b] \in {"done", "cut"} /\ m \in Of(items[b]) THEN 1 ELSE 0

\* What is shown of a batch is all of it, once, and ready to be read.
ShownInv == PartsTypeOK /\ PlaceholdersAreReplaced /\ EachOnce

\* When a message from others is written, the name of its author is known, or
\* was asked for and not told, or an error has ended the batch at a page.
New(b) == {s \in shown' \ shown : s.batch = b /\ at'[b] = "done"}
AuthorsAreKnown ==
    [][\A b \in Batches : \A s \in New(b) :
        LET m == s.item.msg
        IN m.status # "out" /\ connection' = "on" =>
             info'[m.author] = "good" \/ m.author \in untold'[b]]_partsVars

\* When an instant message is shown, its author is in the buddy list, unless
\* nothing is known of him, or his entry was removed while others were asked
\* for: the batch does not look again.
AuthorsAreListed ==
    [][\A b \in Batches : \A s \in New(b) :
        LET m == s.item.msg
        IN m.status = "unread" /\ m.chat = NoChat =>
             \/ m.author \in listed' \cup taken'[b]
             \/ info[m.author] = "none" /\ m.author \in untold'[b]]_partsVars

\* Whose message is shown is known and, if he may be answered, in the list.
AuthorsAreIntroduced == AuthorsAreKnown /\ AuthorsAreListed

\* Every batch ends: written, or given up with its connection, or fallen silent.
BatchesEnd == \A b \in Batches : at[b] # "none" ~> at[b] \in Over

=============================================================================
