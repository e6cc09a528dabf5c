# A TLA+ verification of purple-vk-plugin

purple-vk-plugin is a libpurple (Pidgin) protocol plugin for vk.com. It runs in the single thread of
the GLib main loop: every handler runs to its end, and all concurrency is in the order in which HTTP
requests are answered, timers fire, the user acts, connections are closed and the program dies. This
directory holds TLA+ modules of its stateful parts, TLC configurations that check them on small
instances, and theorems that TLAPS proves for instances of any size.

Paths are relative to `src/src/` of the repository. `PROJECT.json` lists the components, the runs, the
seeded bugs, the lines behind every definition, the hazards and the theorems.

## 1. The system

### Components

| Component | State it keeps | Operations | What makes it correct | Modelled by |
|---|---|---|---|---|
| Long Poll (`vk-longpoll.cpp`) | `LastMsg {id, ignored}`, carried from request to request; the chain of callbacks itself | `start_long_poll`, `request_long_poll`, `process_update`, `process_message`, `process_chat_update` | events in any order, repeated by a restart or lost with a connection, lead to each message being handled once; the chain never just ends | `MessageSync`; changed chats in `ChatMembers` |
| Receiving (`vk-message-recv.cpp`) | `MessagesData` of a range or of single messages, shared by its callbacks | `receive_messages_range`, `receive_messages`, paging; `process_message`, thumbnails, names, `finish_receiving` | overlapping pages are merged; `last_msg_id` never passes a message that may still be fetched; no placeholder is left in a text | `MessageSync`, `MessageParts` |
| Sent messages (`vk-common.h`, `vk-message-send.cpp`) | `m_sent_msg_ids`, `m_last_msg_sent_time` | `send_message_internal`, its answer, the 30 s check | messages sent from here are not shown again, those sent from elsewhere are | `MessageSync` |
| Marks of read messages (`vk-message-recv.cpp`, `vk-plugin.cpp`) | `deferred_mark_as_read`, stored with the account | `mark_message_as_read`, `mark_deferred_messages_as_read`, and the handlers of what the user does | nothing is marked that the user has not read, no mark is forgotten | `MarkRead` |
| Buddy icons (`vk-buddy.cpp`) | global `fetch_queue`, `fetches_running` | `fetch_buddy_icon`, `fetch_next_buddy_icon` | the limit is kept, the queue drains, nothing is fetched for a dead connection | `BuddyIcons` |
| Chat conversations (`vk-chat.cpp`) | `chat_conv_ids`, `chat_infos` | `open_chat_conv`, `vk_chat_join`, `vk_chat_leave`; `/add`, `/remove`, `/title`, `update_chat_infos` | ids lead to their windows, messages reach them, windows show who is in the chat | `ChatList`, `ChatMembers` |
| Buddy list (`vk-buddy.cpp`) | `blist_buddies`, `blist_chats`, `friend_user_ids`, `dialog_user_ids`, manually added and removed sets, libpurple's own list | `update_user_chat_infos` and its chain, `update_blist`, `add_*_if_needed`, `remove_*_if_needed`, `check_blist_on_login`, `check_blist_on_logout`, the user's additions, removals and aliases | what the user removes or customises stays so; temporary entries go; friends are there | users in `BuddyList`, chats in `ChatList`; presence is not modelled |
| API calls (`vk-api.cpp`) | access token, `m_authenticating`, repeated calls | `vk_call_api`, `process_error`, `on_vk_call_cb`, paging | each call ends in one callback; one authentication at a time | `ApiCall`; paging in `MessageSync` |
| HTTP of the plugin (`httputils.cpp`) | `HttpUserData.retries` | `http_request`, `http_cb`, redirects | bounded retries, nothing after closing | `ApiCall`, `FileXfer`; refusals while closing in `BuddyIcons` |
| HTTP client (`contrib/purple/http.c`) | connections, the keep-alive pool with its queues and timers | `purple_http_request`, pooling, writing, reading, redirects, retries, timeouts, cancelling | a request is given its own answer, once, and does not starve | `HttpPromise`, `HttpClient` |
| Authentication (`vk-auth.cpp`) | one chain of form requests | `vk_auth_user` and its steps | each path ends in a token or an error | `ApiCall` |
| Sending (`vk-message-send.cpp`, `vk-captcha.cpp`) | `SendMessage` (what is left of the text), `UploadImgstoreImages` | `send_message`, uploads of pictures, `send_message_internal`, `process_im_error`, captcha | pictures first, parts that make up the text, every loss shown, an end | `MessageSend`; the ids of sent messages in `MessageSync` |
| File transfers (`vk-filexfer.cpp`, `vk-upload.cpp`) | `uploaded_docs`, `PurpleXfer` with its references | `xfer_init`, `clean_nonexisting_docs`, `find_or_upload_doc`, the upload, cancelling | references balance, nothing is sent twice, the cache names documents that exist | `FileXfer`; pictures in `MessageSend` |
| Smileys, strings, names and links (`vk-smileys.cpp`, `miscutils.cpp`, `vk-utils.cpp`) | | conversions, lookups | | names of participants in `ChatMembers`; the rest has no state |
| Status (`vk-status.cpp`) | | calls that are sent and forgotten | | not modelled |
| `contrib/` (picojson, cpputils), packaging | | | | vendored, without state of the plugin; or data |

### How they interact

`vk_login` creates `VkData`, authenticates, and starts Long Poll; `start_long_poll_impl` asks for a Long
Poll server, then for the presence of friends, then has the receiver fetch everything above
`last_msg_id`, and only then polls. An event of an incoming message starts a request of the receiver
beside the polling chain; an event of an outgoing one consults what the sender has recorded in
`VkData`. When a range or a message is complete, `finish_receiving` writes to conversations or logs,
opens chats, hands unread messages to the marks and saves `last_msg_id`. The handlers of libpurple
(sending, typing, changing the status or the conversation) call the marks too. Every call goes through
`vk_call_api`, which waits for an authentication that runs, repeats calls and drops some. `vk_close` sets
`is_closing`, cancels all requests, whose callbacks run during that, and deletes `VkData`, which stores
the settings and destroys all timers. The settings reach the disk seconds after a change, so a crash
brings back an older `last_msg_id`.

### What is hard

The list is `hazards` in `PROJECT.json`, each at its line. In short:

* **Ordering.** Events arrive out of order and again; the event of a message overtakes the answer of the
  call that sent it; the signal of a new conversation precedes its focus.
* **Interleaving.** Messages arrive between two pages and between two queries of one range; two opens of
  one chat and two transfers run at once.
* **Stale state.** The chain carries a copy of `last_msg_id`; global queues outlive their connection; an
  answer to a call with an old token arrives after a new one was set.
* **Timeouts and retries.** Lost calls are repeated although the server may have accepted them; the 30 s
  check races with the answer it waits for.
* **Partial failure.** One page, one message, one mark or one part of a split message fails while the
  state already says that it was done; flood control calls no callback at all.
* **Crash and restart.** The cursor goes back to what is on disk; lists stored by a destructor are lost.
* **Limits.** The counter of icon downloads; the first catching up of 5000 messages; 64-bit ids in 32-bit
  settings.

## 2. Modules

`A_B` defined before `A` is `A` with a seeded bug; it is used by the mutation runs only and is never
part of a specification.

### Mailbox: what message synchronisation promises

Four ideas and no protocol: how often each message was *shown*, which messages are *open* (may still be
written), the *cursor* (`last_msg_id`) and its copy on *disk*. A message is written only while it is open
and writing closes it; everything above the cursor is open, so that catching up will find it; the cursor
goes back only in a crash, to the copy on disk. `MessageSync` implements it with

    open <- Pending \cup {m : m > saved}        cursor <- saved

where `Pending` is what is being fetched, waits for the 30 s check, or has an event the polling chain
will not ignore.

### MessageSync

| Code | Model |
|---|---|
| chain of callbacks from `start_long_poll` to `request_long_poll` | `phase`: the request that is outstanding |
| `LastMsg.id`, `LastMsg.ignored` | `last`, `ignored` |
| `receive_messages_range`, `vk_call_api_items` | `start`, `offset`, `batch`; `PageReceived`, `PageFailed` |
| `finish_receiving` and `received_cb` of `start_long_poll_impl` | `RangeReceived` (`WriteBatch`, saving the id, polling) |
| errors, flood control and strange answers in the last requests of a range | `FinishFailed`, `ChainDropped`, `GroupsStrange` (`update_groups_info` calls nobody back, vk-utils.cpp:333) |
| `process_message` | `EventReceived`: ignore, move the cursor, then fetch, write, or set the timer |
| `receive_messages` | `fetching`; `FetchAnswered`, `FetchFailed` |
| the 30 s `timeout_add` | `timers`; `TimerFires` |
| `send_message_internal`, its answer, `http_cb` | `SendMessage`, `SendAnswered`, `SendAnswerLost`, `SendRepeated`; `Cool` is the passing of 30 s |
| `last_msg_id` in memory and in `accounts.xml` | `saved`, `disk`; `Persist`, `Crash` |
| `vk_close`, `~VkData` | `Close`, `CloseFinishing`: fetches that wait for a thumbnail still write, as `download_thumbnail` goes on after its request is cancelled |
| the server (external) | `top`, `dir`, `events`; `Arrive`, and the event of each message, delivered in any order |

A message is an id and a direction; texts, attachments and names do not matter to the properties.
`excused`, `doubtful` and `gap` are history variables: they record which failure gave the right to lose
or repeat a message, at the moment it happens, so that the properties can be exact. `gap` holds the incoming messages
that came after their query of a range had begun, at its second page or during the query of the outgoing ones; they are
excused when the range then saves a greater id. A page of catching up makes the own messages on it doubtful.
Requests beside the chain are answered within the 30 s of the check (the timeout of the HTTP client),
which `TimerFires` and `Cool` assume; calls that are repeated are exempt (`late`), as they are in the code.

### MarkRead

`focus` is what `find_active_ids` finds, `deferred`, `stored` the list in `VkData` and in the settings,
`calls` the calls of `messages.markAsRead` in progress. `Receive` is the end of `finish_receiving`; `SwitchTo`
and `Look` are the two halves of `conversation_updated` (the signal and its zero timer); `SetStatus`, `Act`
are the handlers of `vk-plugin.cpp`. `restored` and `lost` are history. A login chooses any of the settings
in `Options`, as the user may change them between sessions.

### BuddyIcons

`queue`, `running` are the two globals; `flying` are requests in progress, `waiting` those whose timer of
one second runs in `http_cb`. `Close` computes the joint effect of all cancelled callbacks: each counts
down, takes an entry off, counts up, and `http_request` refuses to start it. `stale` counts the entries
left in the queue by a connection that is gone.

### ChatList

A chat can be opened or listed only when its info is known, which takes a call of `messages.getChat`;
`add_unknown_users_chats`, `open_chat_conv` and `process_chat_update` continue in the callback. A call in
`calls` is such a callback: `next` says what it will do, `msgs` which messages it carries.

| Code | Model |
|---|---|
| `chat_ids`, keys of `chat_infos`, `chat_conv_ids`, keys of `blist_chats`, `m_manually_removed_chats` | `chatIds`, `infos`, `convs`, `nodes`, `removed` |
| `receive_messages`, `download_thumbnail` and the names in the texts | `Receive`, `PicturesReceived` |
| `add_unknown_users_chats`, `add_chats_if_needed`, `finish_receiving` | `AddUnknown`, `KnownAnswered`, `ListedAnswered`, `FinishReceiving` |
| `open_chat_conv`, `add_chat_if_needed` | `Open`, `OpenAnswered`, `NewConv` |
| `vk_chat_join`, `vk_chat_leave` with `remove_chat_if_needed` | `Join`, `Leave` |
| `update_user_chat_infos`, `update_blist` | `Dialogs`, `Refreshed` |
| `vk_close`: `is_closing` and the cancelled requests, `check_blist_on_logout`, `~VkData` | `Close`, `PictureCancelled`, `CloseEnds` |
| `check_blist_on_login` | `Login` |
| libpurple's list and windows (external) | `blist`, `windows` (`WindowStates`); `UserRemoves`, `CloseLeft` |

Closing takes steps. Before it calls `vk_close`, libpurple marks the chats of the connection left. `vk_close` then cancels
requests one by one; a call of the API whose request is cancelled calls nobody, but `download_thumbnail` goes on
(vk-message-recv.cpp:791), and with the last image of a batch whose users, groups and chat are known it comes to
`finish_receiving` and `open_chat_conv`. What this writes to a chat that was marked left libpurple drops; a chat that was not
open gets an id and a new window. `check_blist_on_logout` and `~VkData` then delete `chat_conv_ids`, and the window is an *orphan*: the
user can write in it and no connection knows its id, or a later one has given the id to another chat, which
`vk_chat_send` would then send the message to (vk-plugin.cpp:550). `ConvInv` has this as its one exception.

libpurple takes a conversation that was left when the same chat is joined again, and makes a further
one otherwise; its list, as far as chats are concerned, is taken to be saved at once. An answer that is
not of the expected form ends the connection, which is `Close`. Batches of messages are of one chat, and
a user's join of a chat waits once. Infos of participants, titles, customised names and groups are data.
`m_manually_added_chats` is always empty, as `set_manually_added_chat` is called nowhere. The regular
update may learn of any chats that are known to the account when it ends, which includes those it asked
for when it began.

### ApiCall

A call is a pair of callbacks, and the model asks where they are: with an HTTP request (`requests`), a
timer (`timers`: `resend` of `http_cb`, `again` after the rate limit, `wait` for an authentication of somebody
else) or an authentication the call started (`auths`). These are sets, so that a wrong step could lose a
call or have it twice; that it does neither is `CallIsInOnePlace`.

| Code | Model |
|---|---|
| `vk_call_api`, `on_vk_call_cb`, `process_error` | `Ask`, `Answered`, `Expired` |
| `http_cb` | `RequestFails`, `TimerFires`; for authentications `AuthFails`, `AuthRetry` |
| `vk_call_after_auth`, `is_authenticating` | timers of kind `wait`, which repeat the call when `token # NoToken` |
| `vk_auth_user`: `on_fetch_vk_oauth_form`, `on_fetch_vk_confirmation_form`, `on_fetch_vk_access_token` | steps `page`, `form`, `confirm` of a chain; `NextForm`, `Redirected`, `AuthSucceeds` |
| `on_error` and the error callbacks of `authenticate` | `AuthEnds` |
| `vk_login`, `vk_close`, `~VkData` | `Login`, `Close` |
| vk.com (external) | `ServerReplies`, `Revoke`; `alive` are the tokens it accepts |

`executed` and `unheard` count what the server did and which answers were lost. A token may be given
again, so one token is as general as several. The fire-and-forget call of `account.setOffline` at closing
and the test that stored permissions are current (a token without them is read as no token) are left out.
A request that is cancelled and one that fails look the same to `AuthEnds`. If `vk_close` cancels the first authentication at its last
page, it counts as successful (vk-auth.cpp:221) and the callback of `vk_login` connects handlers of signals to the connection that
is being closed (vk-plugin.cpp:317-322); signals of libpurple have no state here.

### MessageSend

A message goes through its pictures (`server`, `upload`, `save`: `upload_file`, `start_upload`,
`photos.saveMessagesPhoto`), then through its parts (`sending`, `taken`: before and after the server has
taken a part), with captchas in between (`captcha` is fetched, `dialog` is shown). `text` is
`SendMessage::text`, from which each answer erases a part; `offset` counts pictures.

| Code | Model |
|---|---|
| `send_message`, `send_im_attachment` | `Type`, `Attach` |
| `upload_file`, `start_upload`, the callback of `upload_imgstore_images_impl` | `UploadStep`, `PictureSaved` |
| `send_message_internal` and its callback | `Cut`, `Part`, `Take` (the server), `PartSent` |
| `process_im_error`, `show_error`, error callbacks of uploads | `Failed`, `Dropped` (flood control calls nothing), `CaptchaNeeded` |
| `request_captcha` and its dialog | `CaptchaShown`, `CaptchaClicked` |
| `vk_close` | `Close`: requests of HTTP report that they were cancelled, calls of the API and dialogs vanish |

A text is a sequence of bytes of which two kinds, line break and space, matter; a forced cut at the limit may
split a character of several bytes, in the code as in the model. Tags, smileys and links in a text are data, and
the attachments found in links are sent with every part, like the pictures. Callers pass no `success_cb` and
no `error_cb`, so that calling `success_cb` twice for the last part (vk-message-send.cpp:293, 304) has no
effect. All messages go to one contact, whose window may be closed and comes back when the user types. That a call is repeated by
`http_cb`, and with it a part, is the matter of `ApiCall`.

### FileXfer

A transfer is where its next callback will come from (`at`): `docs.get` before and after the server answered, the
upload server, the upload, the timer of `http_cb`, `docs.save`. libpurple holds a reference until the transfer is
cancelled or over, the plugin one until `xfer_fini`; a UI may hold one more, which is not counted.

| Code | Model |
|---|---|
| `xfer_init` | `Start`: the size and the file are checked at once |
| `clean_nonexisting_docs`, `find_or_upload_doc` | `ServerLists`, `Listed`, `ListFails`, `FindOrUpload` |
| `upload_doc_for_im`, `upload_file`, `start_upload` | `ServerFound`, `FileUploaded`, `UploadFails`, `ServerSaves`, `Saved` |
| `http_cb` | `UploadLost`, `UploadAgain`: repeated without the watcher of the first request |
| `xfer_upload_progress`, `purple_xfer_cancel_local` | `ProgressCancels`, `Cancel` |
| `uploaded_docs` and its setting | `uploaded`, `stored`; `Login`, `Close`, `Crash` |
| the documents of the account (external) | `docs`, `deleted`; `Delete` |

A transfer that is cancelled while documents are listed is sent all the same if its document is among them, and its
last reference is dropped before `xfer_fini` uses it (`overdrawn`). `seen` is how many documents there were when the server answered
`docs.get`, so that `forgotten` takes in only what an answer erases because it is older than the document; `unsaved` is what only this
session knows. Two transfers of one file that both look before either is saved both upload it: no property says that a file is
uploaded once. What a program does that goes on with a freed
connection (the watcher cancels its own request) is either nothing, or `Crash`. A transfer that nobody calls back
(flood control, closing) is never destroyed: `ReferencesBalance` says so.

### HttpPromise and HttpClient

`HttpPromise` is what a caller may rely on: a request ends at most once, after it was made, with an answer that a server
gave to this very request, or with none. A request that is `exposed` may be given an answer to another one; who is
exposed is for the implementation to say. It promises nothing about how often servers carry a request out;
`RunsAreAccountedFor` says that of the client. `HttpClient` implements it.

Bytes on a connection do not tell whose they are. An answer longer than `max_length` (1 MiB by default, http.c:83, which the plugin
never changes) is cut and the connection kept; the rest is parsed as the headers and the body of the next answer, fails, or
completes the next request, whose own answer is then left for a third. A read therefore takes a *portion* of the wire: an answer, or a rest
with any number of the answers behind it. `cut` remembers the connections where this has happened, and exposed is who is read
from one of them. Everywhere else each request hears its own answer or none, and this is what `KeepsPromise` says.

| Code | Model |
|---|---|
| `PurpleHttpConnection` | `conn`: `queued`, `connecting`, `writing`, `reading`, `done` |
| `PurpleHttpKeepaliveHost`, its queue and `process_queue_timeout` | `queue`, `timers`; `ServeQueue` with `Reuse`, `Connect` |
| `PurpleHttpSocket` | `socks`: `busy`, `use_count > 1` as `reused`, and what is on the wire |
| `_purple_http_send`, `_purple_http_recv_loopbody`, redirects | `Write*`, `Read*`, `Redirect` |
| an answer that was cut at `max_length`, and its rest (http.c:1159) | `ReadTruncated`; `Portion`, `Taken` |
| `purple_http_conn_retry`, `_purple_http_reconnect` | `Retry`, `Reconnect` |
| `purple_http_conn_cancel`, timeouts, `purple_http_conn_cancel_all` | `Cancel`, `Close` |
| servers (external) | `ServerRuns`, `ServerAnswers`, `ServerCloses`, at any time |

Headers, cookies, compression, TLS and proxies are data. `limit_per_host` is never set by the plugin. Some paths use
freed memory (an unknown protocol in the first request sets a timeout; an invalid URL in a redirect goes on; a watcher that
cancels within `_purple_http_send`): a program that dies has no further step, and one that does not goes on as modelled.
Also visible in the code and without a state of the model: the stream for gzip is not reset by `_purple_http_reconnect`, a
connection whose making fails at once is `NULL` when it is marked busy, the request of a refused call is leaked although
a comment says it is freed, and a missing header "Server" makes the quirk for YHttpServer apply (`ReadNothing`).

### BuddyList

Three pictures of the list meet: what the server says (`friendIds`, `dialogIds`), what the user did (`added`, `removed`,
custom aliases), and the entries as they were seen last (`nodes`, from which the plugin guesses what the user did).

| Code | Model |
|---|---|
| `update_user_chat_infos`, `update_friends_presence` at the start of Long Poll | `chains`, one callback each: `OnlineAnswered`, `FriendsAnswered`, `DialogsAnswered`, `InfosAnswered`, `ChatsAnswered` (with `update_blist`) |
| `add_buddy_if_needed`, `add_buddies_if_needed` | `Contact`, `FetchAnswered` |
| `vk_add_buddy_with_invite`, `vk_remove_buddy`, `vk_alias_buddy` | `AddBuddy`, `UserRemoves`, `UserRenames` |
| `update_blist_buddy`, `check_customized_alias`, `user_should_be_in_blist` | `Updated`, `IsCustom`, `Wanted` |
| `vk_convo_closed` and its timer | `CloseConv`, `CloseDue` |
| `check_blist_on_login`, `check_blist_on_logout`, `~VkData` | `Login`, `Close`, `Crash` |

Properties name what the code cannot know: an alias set offline, or for an entry that was not noted because
`check_blist_on_login` gave up at a chat without an id (`IdlessChat`), or before the user's info came, or in a session that
crashed; and, between `friends.getOnline` and `friends.get`, friends who are offline are taken for strangers. Two
updates that wait for the same answer are one element of `chains`. Groups of entries are customised by the same code as
aliases and are left out, and so is presence, which is overwritten by every event and answer.

### MessageItems, Attachments and MessageParts

A message is a tree: attachments, posts of walls with what they repost, messages forwarded with it. `Process` of
`Attachments` turns it into an item (`MessageItems`) with lists of images, users and groups and a set of placeholders; a batch
then goes through the stages of `Order` of `MessageParts`, each of which asks for what is unknown when it begins. `MessageParts`
knows `ProcessMessage` as the constant operator `Processed`, of which it assumes only that every placeholder in a text is that
of an entry of its lists; the run gives it the definition of `Attachments`.

| Code | Model |
|---|---|
| `process_message`, `process_attachments`, `process_fwd_message`, `process_wall_attachment` and the other kinds | `Receive` with `ProcessMessage`, `Process`, `Prefix`, `AppendImage`, `AppendName` of `Attachments` |
| `download_thumbnail` | `NextImage`, `ImageLoaded`, `ImageFails` |
| `replace_user_ids`, `replace_group_ids`, `add_unknown_users_chats` | `GoOn`, `Answered`, `Needed`, `Replaced` |
| `finish_receiving` | `Written`, `Show` |
| an error of `messages.get`, flood control, `update_groups_info` | `FetchFails`, `FallsSilent` |
| `vk_close` | `PartsClose`: a batch at its last image goes on to its end |

Texts, sizes of pictures and places are data, as is what a text says of a song or a link. As in the code, what is forwarded within
something forwarded is left out, and a part without a type makes the plugin drop the parts after it. A
sticker is drawn from `images` although what is looked at is `images_with_background`.

### ChatMembers

One chat: what the server has (`chat`), what is known of it (`info`), what the window shows (`conv`), and the calls on their
way (`requests`, a bag), each before or after the server saw it. Answers come in any order.

| Code | Model |
|---|---|
| `update_chat_infos`, `update_chat_info_from` | `GetAnswered` with `Named`, `Fails` |
| `process_chat_update`, `update_user_chat_infos` | `Event`, `Refresh` |
| `/add`, `/remove`, `/title`, `vk_chat_invite` and their answers | `Command`, `ServeEdit`, `EditAnswered` |
| `get_user_display_name`, `get_unique_display_name`, `add_user_to_chat_info` | `Named`, `WithUser` |
| `are_equal_chat_users`, `update_open_chat_conv_impl`, `open_chat_conv` | `EqualUsers`, `Updated`, `Opened` |
| `vk_alias_buddy`, `vk_chat_leave`, `vk_close` | `AliasBuddy`, `CloseConv`, `MembersClose` |

What a user is called when he is named is left open, as aliases, entries and infos change all the time. A command given in a
window of an earlier session makes an info of nothing but its own change (`operator[]`), until an event or the regular update
repairs it. `are_equal_chat_users` counts the alias of the account as a name in the chat, which it is not ("alias (you)" is): lists are
found equal only when somebody else has that name, and he may then stay shown after he left. The flag of the founder, and
an answer without the fields of a chat, which ends the session, are left out.

## 3. Runs

All state spaces are explored completely. Deadlock is checked in every run but `http`, where all requests end and
servers have nothing left to do.

| Run | Bounds | What it shows |
|---|---|---|
| `recv` | 3 messages, pages of 1, one crash, errors and dropped calls | `AtMostOnce`, `LossIsAccountedFor`, and that `MessageSync` implements `Mailbox` |
| `live` | 2 messages of every kind, one call waiting to be repeated, errors, flood control | `EchoIsAccountedFor`: which own messages are shown again, and why; `CatchUpEnds`, `EveryMessageSettles` under fairness |
| `marks` | a user's instant message and chat message, two users, a chat, all settings, failing calls, one crash | `MarkIsAccountedFor`, `NothingLeftUnread`, `MarkedOnlyWhenRead` |
| `chats` | 2 chats, one message with a picture or without, ids up to 2, 2 calls in progress when the user or an event adds one, failing calls, one crash; the user removes one of the chats | `ConvInv`, `MessageIsAccountedFor`, `ListInv` (`ListedForAReason`, `RemovalIsRemembered`) |
| `icons` | 6 icons, limit 2, one retry | `QueueInv` (`CounterInv`, `QueueWaitsForLimit`), `StaleEntriesRest`, and `FetchesProceed` under fairness |
| `api` | 2 calls, 1 token, one retry, one refusal for the rate, one expiry, one crash | `CallsInv` (`CallIsInOnePlace`, `RepeatedOnlyIfUnheard`), `OneAuthentication`, `TokenIsSought`, and `EveryCallEnds` under fairness |
| `send` | 2 messages, limit 2, six texts (short; no separator; break and space before, at and after the limit), up to 2 pictures, one captcha | `TextIsKept`, `LossIsReported`, `SplitsAtBreaks`, and `SendingRests` under fairness |
| `xfer` | 2 transfers, 2 files, one retry, one document deleted elsewhere, one crash | `ReferencesBalance`, `CacheIsAccountedFor`, `SentAsWanted`, and `TransfersEnd` under fairness |
| `http` | 2 requests, 2 hosts, one redirect each, one connection closed by a server | `PoolInv` (`InOnePlace`, `QueueIsWatched`), `RunsAreAccountedFor`, that `HttpClient` implements `HttpPromise`, and `RequestsEnd` under fairness |
| `buddies` | 1 user, 2 updates under way, a chat without an id, one crash | `ListInv` (`ListedForAReason`, `FriendsAreListed`), `HandInv` (`ChoicesAreRemembered`, `RenameIsKept`), `FriendIsNotDropped` |
| `parts` | 2 users, a group, a chat, 2 messages (one with a picture in what it forwards; one with a post, its repost and a broken part), 2 items, one batch | `ShownInv` (`PlaceholdersAreReplaced`, `EachOnce`), `AuthorsAreIntroduced` (`AuthorsAreKnown`, `AuthorsAreListed`), and `BatchesEnd` under fairness |
| `members` | 2 users who may have the account's name, 2 titles, 2 requests, one event, 2 changes | `ShownInv` (`ConvShowsInfo`, `NamesTellApart`), `StaleForAReason`, and `MembersConverge` under fairness |

**Why the bounds are enough.** With pages of one message, three messages are the fewest that make a page
shift (two in the range and one that arrives), an event be overtaken by a newer one while a third is
fetched, and the gap between the two queries lie below the greatest id. `FirstTime = 2` lies inside the
ids, so both branches of the first catching up happen. One crash is the fewest that lets a second session
start from an old cursor. Two users and one chat make the case of a chat message whose author also has a
conversation. Six icons with a limit of two leave a queue after closing and let a second session run into
the used-up counter. Two ids are the fewest that let one chat have two windows or an id be given again
while another is in use; a call that carries a message and one of the user or of an event are the fewest that race for a window
(`MaxCalls`). Two calls are the fewest of which one waits for the authentication of the other, and
one expiry lets the error of the later call arrive after the new token. Two
messages are the fewest that share a window, of which one is reported there and one is not; with a limit
of two, texts of three to five bytes have a separator in every place relative to the limit. Two
transfers are the fewest of which one erases what the other has just added, and two requests the fewest that share a
connection, queue behind each other, or meet on another host after a redirect. Users of the buddy list do not act on each
other, except through updates, which take all of them at once: the theorems say so for any number. Another batch acts on a
batch only through what is known and listed, which `Learn`, `Ages`, `List` and `Unlist` change at any time. Two members are the
fewest with one name, and two requests the fewest of which one overtakes the other. The theorems of section 4 hold for all values of
these constants.

**Fairness.** `FairSpec` of `MessageSync` asks that every request is answered or times out (the HTTP client
has a timeout), one way or the other and in no favoured way, that GLib fires every timer, and that the
server publishes every event; flood control, and a strange answer of `groups.getById`, may still leave the chain without a
callback, which `CatchUpEnds` names (`EndsInSilence`). It asks nothing of users, other clients, closing, crashing, the disk, or
the success of any request. `FairSpec` of `BuddyIcons`, `FileXfer` and `MessageParts` ask that requests end and timers
fire. That of `HttpClient` asks that the main loop serves sockets and timers and that servers answer; it asks nothing of
timeouts, so that `RequestsEnd` is about the queue. That of
`ApiCall` asks in addition that libpurple closes a connection after an error (it does so in a timer), and,
by strong fairness, that an authentication does not go round in redirects or failures for ever: the number
of failures is limited by `http_cb`, but not that of redirects ("TODO: check for infinite loops",
httputils.cpp:76), so this is an assumption about the server. That of `MessageSend` asks that
requests end, in one of their ways; the user may leave a captcha unsolved for ever. That of `ChatMembers` asks for strong
fairness of the regular update and its answer: the bound on requests may be reached again and again, which
the program does not have, and not every update may fail.

## 4. Proofs

All safety invariants and all action properties that the runs check are proved here, and both refinements. A proof module
extends the module it is about and assumes only the named `ASSUME`s of its constants (ids are naturals, a page and the limit
hold at least one, users and chats differ); TLC evaluates them in every run. Three proof modules are about two components
each: `BuddyProofs` (`BuddyIcons`, `BuddyList`), `ChatProofs` (`ChatList`, `ChatMembers`) and `MessageProofs` (`MessageSend`,
`MessageParts`). As a module cannot extend two that define one name, the second component of each has the names `Spec`,
`TypeOK`, `Login` and the like with a prefix (`IconsSpec`, `MembersSpec`, `PartsSpec`). Every strengthening was checked by TLC on
the instance of the run before it was proved.

**MessageSyncProofs.** `TypeCorrect` is by itself inductive. `SyncInvariance` proves `[]SyncInv` from it. `SyncInv` is
needed because `Mailbox` closes a message when it is written, and only `SyncInv` tells that closed messages
cannot be written again: what a range receives lies above the saved cursor and nothing is fetched or timed
there, while what is fetched or timed lies below it and has lost its event; the chain works on a copy of
the cursor (`last = saved`), without which a restart of the chain would fetch from an old place. `Refinement`
(`ImplementsMailbox`) then maps every action to `Progress(S)` with the messages it writes, to `Persist`, `Crash` or a
stutter. `WrittenOnce` (`AtMostOnce`) strengthens the property with the messages that are open: an open message was
written at most once per crash so far, a closed one at most once more. `CursorForward` is the action property,
from the same invariant. `NothingIsLost` (`LossIsAccountedFor`) strengthens it with `QueryInv`, which says where every message is
while a range is received: on the pages received, still ahead of the offset, or too late for its query and then in `gap`,
with its event still to come. The ranks of messages in a query, and that a message that arrives moves the others back, are
lemmas about cardinalities. This proof found the history variable `gap` too narrow: a message that arrives in the middle of
the query of the incoming ones, or late in that of the outgoing ones, is lost in the same way, which the instance of `recv` is
too small to show. `NoEcho` (`EchoIsAccountedFor`) rests on `EchoInv`: until its event or its timer has come, the id of an own
message is noted or its answer is awaited, and then `recent` holds.

**MarkReadProofs.** `TypeCorrect`; `MarksAreAccountedFor` with the strengthening that between sessions neither list
nor calls exist (otherwise closing could lose what it does not store); `NothingIsLeftUnread` with the
strengthening that the focus can have changed only if the timer is pending. `OnlyReadIsMarked` is the action property. All
rest on a lemma that `message_in_active` says exactly which messages the user is watching.

**ChatProofs**, about `ChatList`. `TypeCorrect` rests on lemmas of what opening and listing do. `ConvsAreSafe` is inductive with
it: the new id is greater than all in use, so the new window is the only one of the connection that carries it, also when it is
opened in `vk_close`, from where on it is an orphan.
`MessagesAreAccountedFor` needs that callbacks with messages hand them over whole. `ListIsExplained` strengthens
`ListedForAReason`: a call that will finish counts only if the info of its chat is known, since only then
does it open the chat at once. `RemovalsAreRemembered` strengthens `RemovalIsRemembered` with two facts: while
connected every entry of the list has been seen (`blist` is within `nodes`), so that one that goes is
noticed; and between sessions no callback exists that could list a chat. `ListIsKept` is both.

About `ChatMembers`. `MembersAreShown` (`ShownInv`) is proved from `MembersInv`, which adds that a name made of an id is that
of the user with this id (so that a name which is taken leads to one that nobody has) and that nothing is known without a
connection. `StalenessHasReasons` (`StaleForAReason`): the property is not inductive, since the answer of a command may make
an info where there was none, which is out of date at once; `ReasonInv` asks for the reason from the time an answer is served.

**ApiCallProofs.** `TypeCorrect` carries along that the sets of callbacks are finite, which `Close` needs to count
callbacks as numbers. `AuthenticationIsOne` strengthens `OneAuthentication` with the fact that without a session
nothing waits, so that neither an answer nor a login can start a second chain. `CallsAreHandledOnce` (`CallsInv`) is proved from `PlacesInv`: a call is settled, with no
callback left, or under way, with one request, one timer or one authentication that is its own, and then nothing that the server
did for it has been heard of, unless its answer is on the way. `NobodyWaitsInVain` (`TokenIsSought`) rests on it: whoever authenticates has
no timer, so that an authentication that runs is one that others can wait for; `SoughtInv` adds that one runs whenever there
is no token, since the token is emptied only by `Expired`, which starts one, and a failure dooms the session.

**MessageProofs**, about `MessageSend`. Lemmas say what splitting does: `rfind` finds the greatest position (`LastIsGreatest`, by
well-foundedness), a part and its remainder make up the text (`PartAndRemainder`), and a part ends at the last
separator (`CutIsGood`). `TypeCorrect` carries along the invariant `Good(m)` of every message, as the number of
pictures is bounded only because an upload goes on while pictures are missing. `Good` adds to the properties what a step needs to
know of each stage, for instance that a part whose answer was lost belongs to a message that has ended.
`TextKept`, `LossReported`, `AllPicturesFirst` follow, and `GoodSplits` from the lemmas.

About `MessageParts`. The invariant `PartsInv` says of every batch what the stages behind it have done: placeholders of images are
gone, or the image is `broken` or still ahead in the order of `download_thumbnail` (whose next image exists by well-foundedness);
those of users and groups are gone, or who they stand for is in `untold`; at the last stage authors are known, and those of instant
messages are listed, about to be, or were removed. `NextIs` and `Onward` say what it means that a stage was passed over, `ReadyGoesOn` that
a batch which is done with its stage is good at the next one or finished at the end, and `OthersKeep` that whatever else
happens leaves a batch good, as a known user stays known. `BatchesAreShown` (`ShownInv`) and `IntroducedFirst`
(`AuthorsAreIntroduced`) follow, for any number of batches at once, where the run has one. They hold for every `Processed` that
`PartsAssumption` admits. That `ProcessMessage` is one of them is an induction over the tree of a message, which is out of the
prover's reach: TLC evaluates the assumption for the messages of the run.

**FileXferProofs.** `TypeCorrect`, and `Balance` (`ReferencesBalance`) for any number of transfers that erase each other's
documents: the property is inductive once it is known that a transfer cancelled while listing and sent (`overdrawn`) has
ended, and one that has not begun has its first reference. `CacheKeeps` (`CacheIsAccountedFor`) needs of this invariant that only
a session has transfers under way, so that the list which `Listed` and `Saved` change is the one in memory, and of what the answers
on their way contain: every document that existed when the answer was given and was not deleted (`Aware`), so that what an answer
erases was saved later, and is named, or is gone. `SendsAreWanted`
(`SentAsWanted`) is an action property, from a lemma that says of every step of a transfer when it sends.

**BuddyProofs**, about `BuddyIcons`. `FetchInvariance` proves the conjunction of the type invariant and the three safety invariants with two facts
they need: a fetch is in one place only (in the queue, flying or waiting), so that cardinalities add up, and a fetch
that waits has a try left. `CounterIsSafe`, `QueueIsWorkConserving`, `QueueIsSafe` and `StaleIsNeverFetched` follow.

About `BuddyList`. The inductive invariant `Inv` joins the types with invariants of which each needs the others. `MarksInv`
says of whom a mark of removal, made or about to be made (a user who is noted and not listed), can be: only of users who were
removed or added by hand, so that no guess of the plugin keeps a friend out. `RenameInv` adds that an alias of the user's
belongs to an entry, and `FriendsInv` that friends are misjudged only while `friends.get` has to answer, and that those it told
of have names, so that the update that follows lists them. Lemmas describe `update_blist_buddy` (`ListOneType`), which all paths
share. `ListIsKept`, `HandIsKept` and `FriendsAreNotDropped` (an action property) follow for any number of users, updates and
crashes.

**HttpClientProofs.** `RequestsHaveAPlace` (`PoolInv`) is proved from `Parts`, with an invariant for each request, connection and host: a
request under way is on a connection of its host that is busy and as far as the request, with nothing on the wire but the
request itself unless an answer was cut there; a busy connection is of exactly one request; a queue holds its requests once. That a queue is looked at
needs all of them, as the count of busy connections is what the guard of `ServeQueue` reads. `PromiseIsKept` is the refinement
(`KeepsPromise`): a request hears nothing before it is over, and then its own answer, since nothing else can be on its wire, or, on a
connection where an answer was cut, one of those on the wire, which the server did give.
`RunsHaveReasons` (`RunsAreAccountedFor`) strengthens the bound with what may still be carried out: a request that will be written
(`Unwritten`) and one that is on a wire where the server has not read it yet (`Asked`), against the connections that were closed
before it heard (`Expired`). Reading moves no request back to where the server would read it again, whoever the bytes were meant for.

**Only model-checked.** The liveness properties: `CatchUpEnds`, `EveryMessageSettles`,
`FetchesProceed`, `EveryCallEnds`, `SendingRests`, `TransfersEnd`, `RequestsEnd`, `BatchesEnd`, `MembersConverge`. They need
fairness and `ENABLED`, which are out of the prover's reach. What the recursive `Process` of `Attachments` computes for every message
(see above). Nothing else.

## 5. What is not modelled

* **Presence** of buddies, typing, and the account's own status (`vk-status.cpp`): calls are sent and forgotten, and every
  event or answer overwrites what was known, so that there is no history to be wrong about. Coming online also lists a
  user, which is `Contact` of `BuddyList`.
* **Functions without state**: smileys, strings, escaping, links, tooltips, dialogs of the prpl, names of entries. A
  test of the function reaches all that a model could.
* **picojson and cpputils with trio**: vendored libraries of parsing and formatting, without state that outlives a call. They are
  more than two fifths of the lines of the repository.
* **The data of http.c**: URLs, headers, cookies, compression, TLS, proxies.
* What `messages.get` answers when messages are deleted on the server, and limits of the API other than
  errors and flood control.
* The width of the setting of `last_msg_id` (`purple_account_set_int` of a 64-bit id): ids are natural numbers here.
* In `MessageSync`, authentication during a session: a call that waits for it is simply answered late.
* In `BuddyIcons`, two accounts that share the queue: one may then start a download that the other has queued before it was
  closed, against which the code has no guard, and `StaleEntriesRest` would not hold. Also the choice of icons: two entries of
  one buddy are fetched in reverse order and corrected by the next update of the buddy list.
* In `MessageParts`, images are kept in libpurple's store for good (they are never released), and messages of different
  batches may be shown out of order; neither has a promise to be checked against.
* Entries of chats that the user made by hand, which have no id: `ChatList` leaves them out, `BuddyList` has their effect
  on `check_blist_on_login`.
* Packaging, translations and smiley themes.

## 6. Disagreements between the code and its comments

Met while modelling. The models follow the code; where a property would be broken, it names the case as its exception.
No run expects a violation: the cases below were found by reading the code and are not each shown by a counterexample; a
property in parentheses is the one that states the case, mostly as the exception it allows.

* vk-longpoll.cpp:102 "We won't miss any events": a message between the incoming and the outgoing query is in neither, and
  its event is ignored (`LossIsAccountedFor` names `gap`).
* vk-longpoll.cpp:81 "Disconnects account on Long Poll errors": flood control (vk-api.cpp:133) calls nobody back, nor does
  `update_groups_info` on an answer that is not a list of groups (vk-utils.cpp:333-347); both end the chain silently (`CatchUpEnds`).
* vk-longpoll.cpp:65 says of `LastMsg::id` "The last message id we've processed.", but the id is stored before the message
  is fetched; a session that ends in between never shows it (`LossIsAccountedFor`).
* vk-common.h:192 says that outgoing messages "sent by us" need no further processing, while a restart of Long
  Poll writes them again, which `EchoIsAccountedFor` says exactly.
* vk-common.h:290 says of `deferred_mark_as_read` "so that we do not lose any read statuses", but messages leave the
  list before the call that marks them has succeeded (`MarkIsAccountedFor`).
* vk-common.h:236 on manually removed buddies: `update_blist_buddy` takes the removal of the entry by `vk_add_buddy_with_invite`
  itself for one by the user, and a buddy added once more becomes one that was removed (`ChoicesAreRemembered`).
* vk-chat.h:23 "If chat is already open, does nothing.": two opens that wait for `messages.getChat` at once make
  two ids and two conversations (vk-chat.cpp:106-118).
* vk-chat.h:11 "Returns chat id (Vk.com), matching given conversation id (Pidgin), 0 if conversation does not match any chat.":
  a window that `open_chat_conv` makes within `vk_close` outlives its id, which a later session may have given to another
  chat (the orphans of `ConvInv`).
* vk-buddy.cpp:477 "Number of currently running HTTP requests.": requests refused or cancelled at closing stay counted
  for good (`CounterInv`, `StaleEntriesRest`).
* vk-message-send.cpp:299 "Send next part of message.": a remainder that begins with the separator it was cut at may
  give empty parts for ever (`Stuck` in `SendingRests`).
* vk-filexfer.cpp:47 on cancelling: `http_cb` repeats the upload that was cancelled, without a watcher, and it may succeed
  (`SentAsWanted` says what is then sent).
* vk-message-recv.cpp:98 "Placeholder will be replaced by actual image later in download_thumbnail()": not when an error
  ends the batch at a page (`PlaceholdersAreReplaced`).
* vk-plugin.cpp:570 "Recheck all open chats and update because they could contain the aliased buddy": the names stored with
  the chat are shown again, so that the alias changes nothing until the next answer (`AliasBuddy`).
* vk-plugin.cpp:581 on buddies added temporarily: between `friends.getOnline` and `friends.get` a friend may be taken for
  one (`FriendIsNotDropped`).
* http.h:557 on the timeout of a request: an answer in chunks that ends with its connection is read in an endless loop
  (http.c:1404), in which no timeout fires (`RequestsEnd` names `hung`).
* `set_manually_added_chat` (vk-common.h:263) is called nowhere, and `update_chat_infos` (vk-buddy.h:37 "if it
  exists") also lists chats that are not in the list.

## 7. Plan

All modules of section 2 are written, checked and proved as far as section 4 says. What would come next:

1. `BuddyIcons` for two accounts, once the code guards the queue.
2. Presence, if it comes to depend on more than the last event.
