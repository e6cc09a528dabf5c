---------------------------- MODULE MessageSync ----------------------------
(***************************************************************************)
(* How the plugin learns of messages: vk-longpoll.cpp, the receiving half  *)
(* of vk-message-recv.cpp and the ids of sent messages of VkData.          *)
(*                                                                         *)
(* A session starts with catching up.  start_long_poll_impl asks for a     *)
(* Long Poll server (and so for a timestamp), refreshes the presence of    *)
(* friends, and receive_messages_range fetches every message above         *)
(* last_msg_id, page by page, the incoming ones before the outgoing ones.  *)
(* Then Long Poll events are consumed one after the other: an incoming     *)
(* message is fetched by id, an outgoing one is written unless it was sent *)
(* by this client.  Everything runs in one thread, each callback to its    *)
(* end; what interleaves is the order in which requests are answered,      *)
(* timers fire, the user acts, the connection is closed and the program    *)
(* crashes.                                                                *)
(***************************************************************************)
EXTENDS Naturals, FiniteSets

CONSTANTS
    MaxMsg,         \* bound: ids of messages are 1..MaxMsg
    PageSize,       \* messages in one page of messages.get (200 in the code)
    FirstTime,      \* MAX_MESSAGES_ON_FIRST_TIME (5000 in the code)
    Dirs,           \* kinds of messages the environment creates
    MaxCrashes,     \* bound on crashes of the program
    MaxRetries,     \* bound on messages.send calls waiting to be repeated
    ApiErrors,      \* API calls of the receiving side may end with an error
    FloodControl    \* ... or with no callback at all (flood control)

AllDirs == {"in", "other", "own"}

ASSUME BoundsAssumption ==
    /\ MaxMsg \in Nat
    /\ PageSize \in Nat \ {0}
    /\ FirstTime \in Nat
    /\ MaxCrashes \in Nat
    /\ MaxRetries \in Nat

ASSUME KindsAssumption ==
    /\ Dirs \subseteq AllDirs
    /\ ApiErrors \in BOOLEAN
    /\ FloodControl \in BOOLEAN

Msg == 1..MaxMsg

VARIABLES
    \* The server (external).
    top,        \* the newest message id
    dir,        \* "in": incoming, "own": sent from here, "other": from another client
    events,     \* messages whose Long Poll event this client may still receive
    \* The chain of requests that catches up and then polls.
    phase,      \* the request of the chain that is outstanding, see Phases
    last,       \* LastMsg.id, or the last_msg_id the chain was started with
    ignored,    \* LastMsg.ignored
    start,      \* lower end of the range being received
    offset,     \* offset of the page being received
    batch,      \* MessagesData.messages: how many copies of each message
    \* Requests and timers that live beside the chain.
    fetching,   \* messages.getById in progress
    timers,     \* outgoing messages with the 30 s check pending
    \* Sending from this client.
    awaiting,   \* own messages the server has accepted and not answered for
    sent,       \* m_sent_msg_ids
    recent,     \* fewer than 30 s since m_last_msg_sent_time
    retries,    \* messages.send calls that wait to be repeated
    late,       \* own messages that come from a repeated call
    \* Account settings.
    saved,      \* last_msg_id in memory
    disk,       \* last_msg_id on disk
    \* What the user sees, and the history the properties speak of.
    shown,      \* how many times each message was written
    excused,    \* messages a failure gave the right to lose
    doubtful,   \* own messages this client cannot recognise as its own
    gap,        \* incoming messages that came after their query had begun
    crashes

serverVars  == <<top, dir, events>>
rangeVars   == <<start, offset, batch, gap>>
chainVars   == <<phase, last, ignored, rangeVars>>
sideVars    == <<fetching, timers>>
sendVars    == <<awaiting, sent, recent, retries, late>>
accountVars == <<saved, disk, crashes>>
viewVars    == <<shown, excused, doubtful>>
vars == <<serverVars, chainVars, sideVars, sendVars, accountVars, viewVars>>

(***************************************************************************)
(* "login" and "server": messages.getLongPollServer (before and after the  *)
(* connection counts as established), "presence": friends.getOnline,       *)
(* "lastid": get_last_message_id, "in" and "out": a page of messages.get,  *)
(* "finish": thumbnails and the infos of users, groups and chats, "poll":  *)
(* the Long Poll request.  "idle" and "stuck": the session is up and the   *)
(* chain is gone, after flood control or a strange answer about groups;    *)
(* "dead": an error was signalled and libpurple will disconnect.           *)
(***************************************************************************)
CatchUp == {"login", "server", "presence", "lastid", "in", "out", "finish"}
Phases  == CatchUp \cup {"off", "poll", "idle", "stuck", "dead"}

TypeOK ==
    /\ top \in 0..MaxMsg
    /\ dir \in [Msg -> AllDirs \cup {"none"}]
    /\ events \in SUBSET Msg
    /\ phase \in Phases
    /\ last \in 0..MaxMsg
    /\ ignored \in 0..MaxMsg
    /\ start \in 0..MaxMsg
    /\ offset \in Nat
    /\ batch \in [Msg -> Nat]
    /\ fetching \in SUBSET Msg
    /\ timers \in SUBSET Msg
    /\ awaiting \in SUBSET Msg
    /\ sent \in SUBSET Msg
    /\ recent \in BOOLEAN
    /\ retries \in 0..MaxRetries
    /\ late \in SUBSET Msg
    /\ saved \in 0..MaxMsg
    /\ disk \in 0..MaxMsg
    /\ shown \in [Msg -> Nat]
    /\ excused \in SUBSET Msg
    /\ doubtful \in SUBSET Msg
    /\ gap \in SUBSET Msg
    /\ crashes \in 0..MaxCrashes

NoBatch == [m \in Msg |-> 0]

Init ==
    /\ top = 0 /\ dir = [m \in Msg |-> "none"] /\ events = {}
    /\ phase = "off" /\ last = 0 /\ ignored = 0
    /\ start = 0 /\ offset = 0 /\ batch = NoBatch /\ gap = {}
    /\ fetching = {} /\ timers = {}
    /\ awaiting = {} /\ sent = {} /\ recent = FALSE /\ retries = 0 /\ late = {}
    /\ saved = 0 /\ disk = 0 /\ crashes = 0
    /\ shown = NoBatch /\ excused = {} /\ doubtful = {}

-----------------------------------------------------------------------------
(* Helpers.  A definition named X_Y before a definition X is X with a bug    *)
(* seeded, for the mutation runs that show what each property detects.       *)

Created == 1..top
Online  == phase \notin {"off", "login"}

\* What finish_receiving makes of n copies of one message: it sorts the
\* messages and removes the duplicates of overlapping pages.
Distinct(n) == IF n > 0 THEN 1 ELSE 0

Received == {m \in Msg : batch[m] > 0}

WriteOnce(S) == [m \in Msg |-> IF m \in S THEN shown[m] + 1 ELSE shown[m]]
WriteBatch   == [m \in Msg |-> shown[m] + Distinct(batch[m])]

\* Events that polling has overtaken: newer ones were processed before them.
Overtaken == {m \in events : phase = "poll" /\ ignored < m /\ m <= last}

\* The chain moves to phase p with nothing of a range received yet.
StartRange(p, from) ==
    /\ phase' = p
    /\ start' = from
    /\ offset' = 0
    /\ batch' = NoBatch
    /\ gap' = {}
    /\ UNCHANGED <<last, ignored>>

\* The chain ends in phase p; what it had received is dropped.
StopChain(p) == StartRange(p, 0)

-----------------------------------------------------------------------------
(* The server and the other clients of the account (external) *)

\* Creating a message gives it the next id, makes it visible to messages.get
\* and queues a Long Poll event.
NewMessage(d) ==
    /\ top < MaxMsg
    /\ top' = top + 1
    /\ dir' = [dir EXCEPT ![top + 1] = d]
    /\ events' = events \cup {top + 1}

\* A message comes from a correspondent or is sent from another client.  The
\* history variable gap takes the incoming ones that come after the first
\* page of incoming messages and before the last page of outgoing ones.
Arrive(d) ==
    /\ d \in Dirs \ {"own"}
    /\ NewMessage(d)
    /\ gap' = IF d = "in" /\ ((phase = "in" /\ offset > 0) \/ phase = "out")
              THEN gap \cup {top + 1} ELSE gap
    /\ UNCHANGED <<phase, last, ignored, start, offset, batch>>
    /\ UNCHANGED <<sideVars, sendVars, accountVars, viewVars>>

-----------------------------------------------------------------------------
(* Catching up *)

\* vk_login, once authenticated: a new VkData and start_long_poll.
Login ==
    /\ phase = "off"
    /\ phase' = "login"
    /\ last' = saved
    /\ UNCHANGED <<ignored, rangeVars>>
    /\ UNCHANGED <<serverVars, sideVars, sendVars, accountVars, viewVars>>

\* messages.getLongPollServer answers with a timestamp: events published up
\* to now will not come again, those still unpublished will.
LpServerAnswered ==
    /\ phase \in {"login", "server"}
    /\ phase' = "presence"
    /\ \E published \in SUBSET events : events' = events \ published
    /\ UNCHANGED <<top, dir, last, ignored, rangeVars>>
    /\ UNCHANGED <<sideVars, sendVars, accountVars, viewVars>>

\* friends.getOnline answers; receive_messages_range starts, with a query for
\* the newest id when the account has no last_msg_id yet.
PresenceAnswered ==
    /\ phase = "presence"
    /\ IF last = 0 THEN StartRange("lastid", 0) ELSE StartRange("in", last)
    /\ UNCHANGED <<serverVars, sideVars, sendVars, accountVars, viewVars>>

\* An error of one of these two calls is a connection error.
ChainFailed_Repeats ==
    /\ ApiErrors
    /\ phase \in {"login", "server", "presence"}
    /\ phase' = "server"
    /\ UNCHANGED <<last, ignored, rangeVars>>
    /\ UNCHANGED <<serverVars, sideVars, sendVars, accountVars, viewVars>>

ChainFailed ==
    /\ ApiErrors
    /\ phase \in {"login", "server", "presence"}
    /\ StopChain("dead")
    /\ UNCHANGED <<serverVars, sideVars, sendVars, accountVars, viewVars>>

\* Where the first catching up of an account begins.
FirstTimeStart(newest) == IF newest > FirstTime THEN newest - FirstTime ELSE 0

\* get_last_message_id: the newest incoming message, or 0 when there is none
\* (the script fails) or the call ends with an error.
LastIdAnswered ==
    /\ phase = "lastid"
    /\ \E newest \in 0..top :
        /\ \/ newest = 0 /\ (ApiErrors \/ \A m \in Created : dir[m] # "in")
           \/ newest > 0 /\ dir[newest] = "in" /\ \A m \in Created : dir[m] = "in" => m <= newest
        /\ StartRange("in", FirstTimeStart(newest))
        /\ excused' = excused \cup 1..FirstTimeStart(newest)
    /\ UNCHANGED <<shown, doubtful>>
    /\ UNCHANGED <<serverVars, sideVars, sendVars, accountVars>>

\* What messages.get selects in phase p: newest first, ids above start.
Selected(p) ==
    {m \in Created : m > start /\ (dir[m] = "in" <=> p = "in")}
Rank(m, p) == Cardinality({k \in Selected(p) : k > m})
Page(p) ==
    {m \in Selected(p) : offset <= Rank(m, p) /\ Rank(m, p) < offset + PageSize}

\* A page is received; the query is over when the pages reach its count or
\* the page is empty, and the outgoing query follows the incoming one.  An
\* own message on a page will be written, whoever sent it.
PageReceived ==
    /\ phase \in {"in", "out"}
    /\ LET page == Page(phase)
           next == offset + Cardinality(page)
       IN /\ batch' = [m \in Msg |-> IF m \in page THEN batch[m] + 1 ELSE batch[m]]
          /\ IF next >= Cardinality(Selected(phase)) \/ page = {}
             THEN /\ phase' = IF phase = "out" THEN "finish" ELSE "out"
                  /\ offset' = 0
             ELSE /\ offset' = next
                  /\ UNCHANGED phase
          /\ doubtful' = doubtful \cup {m \in page : dir[m] = "own"}
    /\ UNCHANGED <<last, ignored, start, gap, shown, excused>>
    /\ UNCHANGED <<serverVars, sideVars, sendVars, accountVars>>

\* finish_receiving, then the callback of start_long_poll_impl: write what
\* was received, save the greatest id and start polling from it.
FinishReceiving(p) ==
    /\ shown' = WriteBatch
    /\ \/ /\ Received = {}
          /\ ignored' = last
          /\ UNCHANGED <<last, saved>>
       \/ \E newest \in Received :
          /\ \A m \in Received : m <= newest
          /\ last' = newest
          /\ ignored' = newest
          /\ saved' = newest
    /\ phase' = p
    /\ start' = 0
    /\ offset' = 0
    /\ batch' = NoBatch
    /\ gap' = {}
    /\ UNCHANGED <<disk, crashes, doubtful>>

\* The infos of users, groups and chats have come: the range is complete.
\* Messages of the gap below the greatest id will not be asked for again.
RangeReceived ==
    /\ phase = "finish"
    /\ FinishReceiving("poll")
    /\ excused' = excused \cup {m \in gap : \E k \in Received : m < k}
    /\ UNCHANGED <<serverVars, sideVars, sendVars>>

\* Any error of messages.get finishes the range with the pages received so far.
PageFailed ==
    /\ ApiErrors
    /\ phase \in {"in", "out"}
    /\ FinishReceiving("poll")
    /\ excused' = excused \cup {m \in Created : m > last /\ batch[m] = 0}
    /\ UNCHANGED <<serverVars, sideVars, sendVars>>

\* A strange answer to users.get while finishing is a connection error.
FinishFailed ==
    /\ ApiErrors
    /\ phase = "finish"
    /\ StopChain("dead")
    /\ UNCHANGED <<serverVars, sideVars, sendVars, accountVars, viewVars>>

\* A strange answer to groups.getById is not: update_groups_info returns, and
\* nobody calls back.
GroupsStrange ==
    /\ ApiErrors
    /\ phase = "finish"
    /\ StopChain("stuck")
    /\ UNCHANGED <<serverVars, sideVars, sendVars, accountVars, viewVars>>

\* Flood control calls neither callback: the chain is gone and nobody knows.
ChainDropped ==
    /\ FloodControl
    /\ phase \in CatchUp
    /\ StopChain("idle")
    /\ UNCHANGED <<serverVars, sideVars, sendVars, accountVars, viewVars>>

-----------------------------------------------------------------------------
(* Polling *)

\* process_message moves the cursor forward before anything else is done.
AdvanceTo_Always(m) == last' = m /\ saved' = m
AdvanceTo(m) ==
    IF m > last
    THEN last' = m /\ saved' = m
    ELSE UNCHANGED <<last, saved>>

\* An incoming message: its content is asked for.
EventIncoming(m) ==
    /\ dir[m] = "in"
    /\ fetching' = fetching \cup {m}
    /\ UNCHANGED <<timers, sent, shown>>

\* An outgoing one: sent from here; sent from elsewhere, as nothing was sent
\* from here for 30 s; or undecided, to be looked at again in 30 s.
EventOutgoing_NoTimer(m) ==
    /\ dir[m] # "in"
    /\ IF m \in sent \/ recent
       THEN sent' = sent \ {m} /\ UNCHANGED shown
       ELSE shown' = WriteOnce({m}) /\ UNCHANGED sent
    /\ UNCHANGED sideVars

EventOutgoing_NoWait(m) ==
    /\ dir[m] # "in"
    /\ IF m \in sent
       THEN sent' = sent \ {m} /\ UNCHANGED shown
       ELSE shown' = WriteOnce({m}) /\ UNCHANGED sent
    /\ UNCHANGED sideVars

EventOutgoing(m) ==
    /\ dir[m] # "in"
    /\ \/ /\ m \in sent
          /\ sent' = sent \ {m}
          /\ UNCHANGED <<timers, shown>>
       \/ /\ m \notin sent /\ ~recent
          /\ shown' = WriteOnce({m})
          /\ UNCHANGED <<timers, sent>>
       \/ /\ m \notin sent /\ recent
          /\ timers' = timers \cup {m}
          /\ UNCHANGED <<sent, shown>>
    /\ UNCHANGED fetching

\* process_message for one event of a Long Poll answer.  Events come in any
\* order.  Those up to ignored were dealt with while catching up.
ToIgnore_Older(m)   == m <= last
ToIgnore_Nothing(m) == FALSE
ToIgnore(m) == m <= ignored

EventReceived(m) ==
    /\ phase = "poll"
    /\ m \in events
    /\ events' = events \ {m}
    /\ \/ /\ ToIgnore(m)
          /\ UNCHANGED <<last, saved, sideVars, sent, shown>>
       \/ /\ ~ToIgnore(m)
          /\ AdvanceTo(m)
          /\ EventIncoming(m) \/ EventOutgoing(m)
    /\ UNCHANGED <<top, dir, phase, ignored, rangeVars, awaiting, recent, retries, late>>
    /\ UNCHANGED <<disk, crashes, excused, doubtful>>

\* The server answers "failed": start over from LastMsg.id.
PollExpired ==
    /\ phase = "poll"
    /\ phase' = "server"
    /\ ignored' = 0
    /\ excused' = excused \cup Overtaken
    /\ UNCHANGED <<last, rangeVars, shown, doubtful>>
    /\ UNCHANGED <<serverVars, sideVars, sendVars, accountVars>>

\* Anything else that is not a list of updates is a connection error.
PollFailed ==
    /\ ApiErrors
    /\ phase = "poll"
    /\ phase' = "dead"
    /\ excused' = excused \cup Overtaken
    /\ UNCHANGED <<last, ignored, rangeVars, shown, doubtful>>
    /\ UNCHANGED <<serverVars, sideVars, sendVars, accountVars>>

\* receive_messages: the message has come and is written.
FetchAnswered(m) ==
    /\ m \in fetching
    /\ fetching' = fetching \ {m}
    /\ shown' = WriteOnce({m})
    /\ UNCHANGED <<timers, excused, doubtful>>
    /\ UNCHANGED <<serverVars, chainVars, sendVars, accountVars>>

\* An error ends in finish_receiving with no message, flood control and a
\* strange answer about groups nowhere.
FetchFailed(m) ==
    /\ ApiErrors \/ FloodControl
    /\ m \in fetching
    /\ fetching' = fetching \ {m}
    /\ excused' = excused \cup {m}
    /\ UNCHANGED <<timers, shown, doubtful>>
    /\ UNCHANGED <<serverVars, chainVars, sendVars, accountVars>>

\* The 30 s check of an outgoing message.  A request is answered or times out
\* within 30 s, so that of a message still awaited would have ended by now.
TimerFires(m) ==
    /\ m \in timers \ awaiting
    /\ timers' = timers \ {m}
    /\ IF m \in sent
       THEN sent' = sent \ {m} /\ UNCHANGED shown
       ELSE shown' = WriteOnce({m}) /\ UNCHANGED sent
    /\ UNCHANGED <<fetching, awaiting, recent, retries, late, excused, doubtful>>
    /\ UNCHANGED <<serverVars, chainVars, accountVars>>

-----------------------------------------------------------------------------
(* Sending from this client *)

\* send_message_internal: note the time and call messages.send.  The server
\* accepts the message, or the attempt comes to nothing and is to be repeated.
SendMessage ==
    /\ "own" \in Dirs
    /\ Online
    /\ recent' = TRUE
    /\ \/ /\ NewMessage("own")
          /\ awaiting' = awaiting \cup {top + 1}
          /\ UNCHANGED retries
       \/ /\ retries < MaxRetries
          /\ retries' = retries + 1
          /\ UNCHANGED <<serverVars, awaiting>>
    /\ UNCHANGED <<sent, late, viewVars>>
    /\ UNCHANGED <<chainVars, sideVars, accountVars>>

\* The call is repeated, by http_cb, after the rate limit or after a new
\* authentication: m_last_msg_sent_time stays what it was.
SendRepeated ==
    /\ retries > 0
    /\ retries' = retries - 1
    /\ \/ /\ NewMessage("own")
          /\ awaiting' = awaiting \cup {top + 1}
          /\ late' = late \cup {top + 1}
          /\ doubtful' = doubtful \cup {top + 1}
       \/ UNCHANGED <<serverVars, awaiting, late, doubtful>>
    /\ UNCHANGED <<sent, recent, shown, excused>>
    /\ UNCHANGED <<chainVars, sideVars, accountVars>>

\* messages.send answers with the id.
SendAnswered(m) ==
    /\ m \in awaiting
    /\ awaiting' = awaiting \ {m}
    /\ sent' = sent \cup {m}
    /\ UNCHANGED <<recent, retries, late>>
    /\ UNCHANGED <<serverVars, chainVars, sideVars, accountVars, viewVars>>

\* The answer is lost; http_cb repeats the request or has no retries left.
SendAnswerLost(m) ==
    /\ MaxRetries > 0
    /\ m \in awaiting
    /\ awaiting' = awaiting \ {m}
    /\ doubtful' = doubtful \cup {m}
    /\ retries' \in {retries, retries + 1} \cap 0..MaxRetries
    /\ UNCHANGED <<sent, recent, late, shown, excused>>
    /\ UNCHANGED <<serverVars, chainVars, sideVars, accountVars>>

\* 30 s have passed since the last call of send_message_internal: the first
\* attempts it made have been answered or timed out.
Cool ==
    /\ recent
    /\ awaiting \subseteq late
    /\ recent' = FALSE
    /\ UNCHANGED <<awaiting, sent, retries, late>>
    /\ UNCHANGED <<serverVars, chainVars, sideVars, accountVars, viewVars>>

-----------------------------------------------------------------------------
(* The session and the program end *)

\* VkData and every request and timer of the session are gone.
SessionOver ==
    /\ phase' = "off"
    /\ last' = 0
    /\ ignored' = 0
    /\ start' = 0
    /\ offset' = 0
    /\ batch' = NoBatch
    /\ gap' = {}
    /\ fetching' = {}
    /\ timers' = {}
    /\ awaiting' = {}
    /\ sent' = {}
    /\ recent' = FALSE
    /\ retries' = 0
    /\ late' = {}
    /\ doubtful' = doubtful \cup {m \in Created : dir[m] = "own"}
    /\ UNCHANGED serverVars

\* vk_close: every request is cancelled.  A fetch that waits for its last
\* thumbnail still writes its message, as download_thumbnail does not look at
\* is_closing; done are those messages.
Close(done) ==
    /\ phase # "off"
    /\ SessionOver
    /\ shown' = WriteOnce(done)
    /\ excused' = excused \cup ((fetching \cup timers \cup Overtaken) \ done)
    /\ UNCHANGED accountVars

\* The same, and the range was waiting for its last thumbnail too.
CloseFinishing(done) ==
    /\ phase = "finish"
    /\ SessionOver
    /\ shown' = [m \in Msg |-> IF m \in done THEN shown[m] + 1 ELSE WriteBatch[m]]
    /\ \/ Received = {} /\ UNCHANGED saved
       \/ \E newest \in Received :
            (\A m \in Received : m <= newest) /\ saved' = newest
    /\ excused' = excused \cup ((fetching \cup timers) \ done)
                          \cup {m \in gap : \E k \in Received : m < k}
    /\ UNCHANGED <<disk, crashes>>

\* libpurple writes the account settings to disk some seconds after a change.
Persist ==
    /\ disk # saved
    /\ disk' = saved
    /\ UNCHANGED <<saved, crashes>>
    /\ UNCHANGED <<serverVars, chainVars, sideVars, sendVars, viewVars>>

\* The program dies and is started again with the settings on disk.
Crash ==
    /\ crashes < MaxCrashes
    /\ crashes' = crashes + 1
    /\ SessionOver
    /\ saved' = disk
    /\ excused' = excused \cup {m \in fetching \cup timers \cup Overtaken : m <= disk}
    /\ UNCHANGED <<disk, shown>>

-----------------------------------------------------------------------------
Next ==
    \/ \E d \in AllDirs : Arrive(d)
    \/ Login
    \/ LpServerAnswered
    \/ PresenceAnswered
    \/ ChainFailed
    \/ LastIdAnswered
    \/ PageReceived
    \/ RangeReceived
    \/ PageFailed
    \/ FinishFailed
    \/ GroupsStrange
    \/ ChainDropped
    \/ \E m \in Msg : EventReceived(m)
    \/ PollExpired
    \/ PollFailed
    \/ \E m \in Msg : FetchAnswered(m)
    \/ \E m \in Msg : FetchFailed(m)
    \/ \E m \in Msg : TimerFires(m)
    \/ SendMessage
    \/ SendRepeated
    \/ \E m \in Msg : SendAnswered(m)
    \/ \E m \in Msg : SendAnswerLost(m)
    \/ Cool
    \/ \E done \in SUBSET fetching : Close(done)
    \/ \E done \in SUBSET fetching : CloseFinishing(done)
    \/ Persist
    \/ Crash

Spec == Init /\ [][Next]_vars

(***************************************************************************)
(* Every request is answered or times out, so each of them ends, one way   *)
(* or the other; GLib fires every timer; the server publishes every event. *)
(* Users, other clients, closing, crashing and the disk owe nothing.       *)
(***************************************************************************)
ChainAnswered ==
    \/ LpServerAnswered \/ PresenceAnswered \/ ChainFailed \/ LastIdAnswered
    \/ PageReceived \/ PageFailed \/ RangeReceived
    \/ FinishFailed \/ GroupsStrange \/ ChainDropped

Fairness ==
    /\ WF_vars(ChainAnswered)
    /\ \A m \in Msg :
        /\ WF_vars(EventReceived(m))
        /\ WF_vars(FetchAnswered(m) \/ FetchFailed(m))
        /\ WF_vars(TimerFires(m))
        /\ WF_vars(SendAnswered(m) \/ SendAnswerLost(m))

FairSpec == Spec /\ Fairness

-----------------------------------------------------------------------------
(* Properties *)

\* Messages that can still be written, and how this state looks to Mailbox.
Pending == fetching \cup timers
           \cup {m \in events : phase = "poll" /\ m > ignored}
Open    == Pending \cup {m \in Msg : m > saved}

Mail == INSTANCE Mailbox WITH open <- Open, cursor <- saved

\* The plugin implements Mailbox: whatever the order of answers, events,
\* timers, restarts of the chain, logins and crashes, a message is written
\* only while it is open, is closed by that, the cursor never passes a
\* message it leaves open to catching up, and moves back in a crash only.
ImplementsMailbox == Mail!Spec

\* No message is written twice, by catching up and by its event, by two
\* overlapping pages or by two sessions, unless a crash lost the cursor.
AtMostOnce == \A m \in Msg : shown[m] <= crashes + 1

\* A message of somebody else is written, or on its way, or one of the
\* failures that excuse its loss happened to it: an API error, an arrival
\* between the incoming query and the end of the outgoing one, an event
\* overtaken when the chain started over or the session ended, or a session
\* that ended first.
OnItsWay(m) ==
    \/ m \in fetching \cup timers
    \/ IF phase = "poll" THEN m \in events /\ m > ignored ELSE m > saved
LossIsAccountedFor ==
    \A m \in Created :
        dir[m] # "own" => shown[m] > 0 \/ OnItsWay(m) \/ m \in excused

\* A message sent from here is written again only if its answer was lost, it
\* came from a repeated call, a page of catching up contained it, or the
\* session it was sent in has ended.
EchoIsAccountedFor ==
    \A m \in Created : dir[m] = "own" /\ shown[m] > 0 => m \in doubtful

\* How the chain, the cursor and the requests beside the chain fit together,
\* which is what the refinement rests on: what is received in a range lies
\* above the cursor, what is fetched or timed has been passed by it and its
\* event is consumed, and the chain works on the saved cursor.
ChainInv ==
    /\ phase # "off" => last = saved
    /\ phase = "lastid" => last = 0
    /\ phase \in {"in", "out", "finish"} => start >= last
    /\ saved <= top /\ disk <= top
RangeInv ==
    \A m \in Msg : batch[m] > 0 => saved < m /\ m <= top /\ phase \in {"in", "out", "finish"}
SideInv ==
    /\ \A m \in events : m <= top
    /\ \A m \in fetching \cup timers : m <= saved /\ m \notin events
    /\ \A m \in fetching : m \notin timers
SyncInv == ChainInv /\ RangeInv /\ SideInv

\* Events may come in any order and the chain may start over from any of
\* them, but last_msg_id moves back in a crash only.
CursorNeverMovesBack == [][saved' < saved => crashes' > crashes]_vars

\* Catching up ends in polling, or the connection is given up.  Two failures
\* after which nobody is called back leave the account connected and without
\* messages: flood control, in any request of the chain, and a strange answer
\* of groups.getById, when the range is being finished.
EndsInSilence == (FloodControl /\ phase = "idle") \/ (ApiErrors /\ phase = "stuck")
CatchUpEnds ==
    phase \in CatchUp ~> phase \in {"poll", "off", "dead"} \/ EndsInSilence

\* The event of a message of somebody else leads to its being written, or to
\* its loss being accounted for, or the session ends before that.
EveryMessageSettles ==
    \A m \in Msg :
        (phase = "poll" /\ OnItsWay(m) /\ dir[m] # "own")
            ~> (shown[m] > 0 \/ m \in excused \/ phase \in {"off", "dead", "idle", "stuck"})

=============================================================================
