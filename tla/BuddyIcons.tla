---------------------------- MODULE BuddyIcons ----------------------------
(***************************************************************************)
(* The download of buddy icons: fetch_queue and fetches_running of         *)
(* vk-buddy.cpp, and what http_cb and vk_close do to the downloads.        *)
(*                                                                         *)
(* The queue is a stack and, like the counter, is global: it survives the  *)
(* connection whose icons it holds.  The model has one account; what an    *)
(* entry asks for does not matter, so the nth call of fetch_buddy_icon is  *)
(* simply the number n.                                                    *)
(*                                                                         *)
(* Names that other modules use as well begin with Icons: BuddyList models *)
(* another part of the same file, and BuddyProofs is about both.           *)
(***************************************************************************)
EXTENDS Naturals, Sequences, FiniteSets

CONSTANTS
    MaxFetches,     \* bound on calls of fetch_buddy_icon
    MaxRunning,     \* MAX_FETCHES_RUNNING (4 in the code)
    MaxRetries      \* MAX_HTTP_RETRIES (3 in the code)

ASSUME BoundsAssumption ==
    /\ MaxFetches \in Nat
    /\ MaxRunning \in Nat \ {0}
    /\ MaxRetries \in Nat

Fetch == 1..MaxFetches

VARIABLES
    asked,      \* calls of fetch_buddy_icon so far
    connected,  \* the account has a VkData that is not closing
    queue,      \* fetch_queue, the top at its end
    stale,      \* the lowest entries of queue whose connection is gone
    running,    \* fetches_running
    flying,     \* fetches whose HTTP request is in progress
    waiting,    \* fetches that wait one second for another try
    tries       \* HttpUserData.retries

iconVars == <<asked, connected, queue, stale, running, flying, waiting, tries>>

IconsTypeOK ==
    /\ asked \in 0..MaxFetches
    /\ connected \in BOOLEAN
    /\ queue \in Seq(Fetch)
    /\ stale \in 0..Len(queue)
    /\ running \in Nat
    /\ flying \in SUBSET Fetch
    /\ waiting \in SUBSET Fetch
    /\ tries \in [Fetch -> 0..MaxRetries]

IconsInit ==
    /\ asked = 0
    /\ connected = FALSE
    /\ queue = <<>>
    /\ stale = 0
    /\ running = 0
    /\ flying = {}
    /\ waiting = {}
    /\ tries = [f \in Fetch |-> 0]

-----------------------------------------------------------------------------
(* A definition named X_Y before a definition X is X with a bug seeded, for  *)
(* the mutation runs that show what each property detects.                   *)

\* fetch_next_buddy_icon with the stack q and n fetches counted as running:
\* the top of the stack joins the requests S in progress.
FetchNext(q, n, S) ==
    /\ queue' = SubSeq(q, 1, Len(q) - 1)
    /\ running' = n + 1
    /\ flying' = S \cup {q[Len(q)]}

\* fetch_buddy_icon: push, and start the download if the limit allows it.
FetchBuddyIcon ==
    /\ connected
    /\ asked < MaxFetches
    /\ asked' = asked + 1
    /\ LET pushed == Append(queue, asked + 1)
       IN \/ running < MaxRunning /\ FetchNext(pushed, running, flying)
          \/ running >= MaxRunning /\ queue' = pushed /\ UNCHANGED <<running, flying>>
    /\ UNCHANGED <<connected, stale, waiting, tries>>

\* The callback: the icon has come, or the download is given up, either way
\* the next one is started.
FetchEnded_Alone(f) ==
    /\ f \in flying
    /\ flying' = flying \ {f}
    /\ running' = running - 1
    /\ UNCHANGED <<asked, connected, queue, stale, waiting, tries>>

FetchEnded(f) ==
    /\ f \in flying
    /\ \/ /\ queue = <<>>
          /\ flying' = flying \ {f}
          /\ running' = running - 1
          /\ UNCHANGED queue
       \/ /\ queue # <<>>
          /\ FetchNext(queue, running - 1, flying \ {f})
    /\ UNCHANGED <<asked, connected, stale, waiting, tries>>

\* http_cb: a network or server error, and the request is to be tried again.
FetchFailed(f) ==
    /\ f \in flying
    /\ tries[f] < MaxRetries
    /\ flying' = flying \ {f}
    /\ waiting' = waiting \cup {f}
    /\ UNCHANGED <<asked, connected, queue, stale, running, tries>>

\* The timer of http_cb fires.
Retry_Uncounted(f) ==
    /\ f \in waiting
    /\ waiting' = waiting \ {f}
    /\ flying' = flying \cup {f}
    /\ UNCHANGED <<asked, connected, queue, stale, running, tries>>

Retry(f) ==
    /\ f \in waiting
    /\ tries' = [tries EXCEPT ![f] = @ + 1]
    /\ waiting' = waiting \ {f}
    /\ flying' = flying \cup {f}
    /\ UNCHANGED <<asked, connected, queue, stale, running>>

IconsLogin ==
    /\ ~connected
    /\ connected' = TRUE
    /\ UNCHANGED <<asked, queue, stale, running, flying, waiting, tries>>

\* vk_close cancels every request.  The callback of each takes one entry off
\* the stack and counts it as running, but http_request refuses to start it
\* and never calls back.  The timers of waiting fetches are destroyed, and
\* nobody counts those down either.
Cancelled == IF Cardinality(flying) < Len(queue) THEN Cardinality(flying) ELSE Len(queue)

IconsClose_Resets ==
    /\ connected
    /\ connected' = FALSE
    /\ running' = 0
    /\ queue' = SubSeq(queue, 1, Len(queue) - Cancelled)
    /\ stale' = Len(queue) - Cancelled
    /\ flying' = {}
    /\ waiting' = {}
    /\ UNCHANGED <<asked, tries>>

IconsClose ==
    /\ connected
    /\ connected' = FALSE
    /\ running' = (running - Cardinality(flying)) + Cancelled
    /\ queue' = SubSeq(queue, 1, Len(queue) - Cancelled)
    /\ stale' = Len(queue) - Cancelled
    /\ flying' = {}
    /\ waiting' = {}
    /\ UNCHANGED <<asked, tries>>

IconsNext ==
    \/ FetchBuddyIcon
    \/ \E f \in Fetch : FetchEnded(f)
    \/ \E f \in Fetch : FetchFailed(f)
    \/ \E f \in Fetch : Retry(f)
    \/ IconsLogin
    \/ IconsClose

IconsSpec == IconsInit /\ [][IconsNext]_iconVars

\* A request is answered or times out, and GLib fires every timer.
IconsFairness ==
    \A f \in Fetch : WF_iconVars(FetchEnded(f) \/ FetchFailed(f)) /\ WF_iconVars(Retry(f))

IconsFairSpec == IconsSpec /\ IconsFairness

-----------------------------------------------------------------------------
(* Properties *)

\* Every fetch in progress is counted, whatever mixture of answers, repeated
\* requests and closed sessions went before, and the counter never passes
\* MAX_FETCHES_RUNNING.
CounterInv ==
    /\ Cardinality(flying \cup waiting) <= running
    /\ running <= MaxRunning

\* No icon waits in the queue while another download could be started: the
\* callback that takes the counter below the limit finds the queue empty.
QueueWaitsForLimit == queue # <<>> => running = MaxRunning

\* The queue and its counter agree after whatever calls, answers and sessions:
\* MAX_FETCHES_RUNNING is kept, and not more than it keeps an icon waiting.
QueueInv == IconsTypeOK /\ CounterInv /\ QueueWaitsForLimit

\* Entries of a connection that is gone are never fetched on its dangling
\* pointer: when closing leaves entries in the queue, it has also used up the
\* counter, so no callback is left, or will be started, to take them off.
StaleEntriesRest == stale > 0 => running = MaxRunning /\ flying = {} /\ waiting = {}

\* An icon that waits behind downloads in progress is taken off the queue
\* after finitely many more calls, though the last to come is the first
\* served, unless the connection is closed.
FetchesProceed ==
    \A f \in Fetch :
        (flying \cup waiting # {} /\ \E i \in 1..Len(queue) : queue[i] = f)
            ~> (~connected \/ \A i \in 1..Len(queue) : queue[i] # f)

=============================================================================
