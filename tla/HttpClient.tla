----------------------------- MODULE HttpClient -----------------------------
(***************************************************************************)
(* The HTTP client of contrib/purple/http.c, as httputils.cpp uses it: all *)
(* requests of a session share one pool of connections that are kept       *)
(* alive, without a limit per host.                                        *)
(*                                                                         *)
(* A request waits in the queue of its host until a timer of 0 ms gives it *)
(* an idle connection or makes one, is written, and its answer is read; it *)
(* may be redirected to another host, repeated on another connection,      *)
(* cancelled, or run into its timeout at every step.  The servers answer,  *)
(* and close connections, whenever they like.                              *)
(*                                                                         *)
(* An answer longer than max_length is cut, and its rest is read as if it  *)
(* were the answer to the next request on the connection: it may complete  *)
(* that request, whose own answer is then left for the next one.           *)
(***************************************************************************)
EXTENDS Naturals, Sequences, FiniteSets

CONSTANTS
    Requests,       \* calls of purple_http_request
    Hosts,          \* servers
    None,           \* no request
    MaxRedirects,   \* PURPLE_HTTP_REQUEST_DEFAULT_MAX_REDIRECTS
    MaxCloses       \* bound: connections the servers close

ASSUME HttpAssumption ==
    /\ MaxRedirects \in Nat /\ MaxCloses \in Nat
    /\ None \notin Requests

VARIABLES
    session,    \* "off" once purple_http_conn_cancel_all was called
    conn,       \* the PurpleHttpConnections, see TypeOK
    queue,      \* requests that wait for a connection, by host
    timers,     \* hosts whose process_queue_timeout is set
    socks,      \* all connections ever made, in the order they were made
    hung,       \* the program is in an endless loop
    closes,     \* connections closed by servers
    \* History
    runs,       \* how often a server carried out each request
    unwoken     \* hosts where a request was cancelled while it was connecting,
                \* and nobody has looked at the queue since

net  == <<socks, closes, runs>>
pool == <<queue, timers, unwoken>>
vars == <<session, conn, pool, net, hung>>

Socks == DOMAIN socks

TypeOK ==
    /\ session \in {"on", "off"}
    /\ conn \in [Requests -> [at : {"new", "queued", "connecting", "writing", "reading", "done"},
                              host : Hosts, sock : Nat, redirects : 0..MaxRedirects,
                              heard : Requests \cup {None}]]
    /\ queue \in [Hosts -> Seq(Requests)]
    /\ timers \in SUBSET Hosts
    /\ socks \in Seq([host : Hosts, at : {"connecting", "open", "closed"}, busy : BOOLEAN,
                      reused : BOOLEAN,     \* use_count > 1
                      \* what was written to it, in this order, and how far the
                      \* answers have come; empty once all of them were read
                      wire : Seq([of : Requests,
                                  at : {"asked", "ran", "answered", "rest", "read"}]),
                      eof : BOOLEAN,        \* the server has closed it
                      cut : BOOLEAN])       \* history: not all of an answer was read
    /\ hung \in BOOLEAN
    /\ closes \in 0..MaxCloses
    /\ runs \in [Requests -> Nat]
    /\ unwoken \in SUBSET Hosts

Init ==
    /\ session = "on"
    /\ conn \in [Requests -> {[at |-> "new", host |-> h, sock |-> 0, redirects |-> 0,
                               heard |-> None] : h \in Hosts}]
    /\ queue = [h \in Hosts |-> <<>>]
    /\ timers = {}
    /\ socks = <<>>
    /\ hung = FALSE
    /\ closes = 0
    /\ runs = [r \in Requests |-> 0]
    /\ unwoken = {}

-----------------------------------------------------------------------------
(* A definition named X_Y before a definition X is X with a bug seeded, for  *)
(* the mutation runs that show what each property detects.                   *)

Sock(r) == socks[conn[r].sock]

Busy(h) == {s \in Socks : socks[s].host = h /\ socks[s].busy}
Idle_Any(h) == {s \in Socks : socks[s].host = h /\ socks[s].at = "open"}
Idle(h) == {s \in Socks : socks[s].host = h /\ ~socks[s].busy /\ socks[s].at = "open"}

\* purple_http_keepalive_host_process_queue
Wake(H) ==
    /\ timers' = timers \cup H
    /\ unwoken' = unwoken \ H

\* purple_http_keepalive_pool_release: the connection is closed, or kept for
\* the next request.
Discarded_Kept(s) == [socks EXCEPT ![s].busy = FALSE]
Discarded(s) == [socks EXCEPT ![s].at = "closed", ![s].busy = FALSE]

Kept(s, wire, cut) ==
    [socks EXCEPT ![s].busy = FALSE, ![s].wire = wire, ![s].cut = @ \/ cut]

\* purple_http_connection_terminate calls back and frees.
Terminated(r, heard) == [conn EXCEPT ![r].at = "done", ![r].heard = heard]

\* _purple_http_error and purple_http_conn_cancel of a connected request
Fail_NotWoken(r) ==
    /\ conn' = Terminated(r, None)
    /\ socks' = Discarded(conn[r].sock)
    /\ UNCHANGED <<session, pool, closes, runs, hung>>

Fail(r) ==
    /\ conn' = Terminated(r, None)
    /\ socks' = Discarded(conn[r].sock)
    /\ Wake({conn[r].host})
    /\ UNCHANGED <<session, queue, closes, runs, hung>>

\* A complete answer, or what is taken for one
Succeed(r, heard, kept) ==
    /\ conn' = Terminated(r, heard)
    /\ socks' = kept
    /\ Wake({conn[r].host})
    /\ UNCHANGED <<session, queue, closes, runs, hung>>

\* _purple_http_reconnect: what is left of the request goes to the end of the
\* queue of h.
Reconnect(r, h, redirects, sockets) ==
    /\ conn' = [conn EXCEPT ![r].at = "queued", ![r].host = h, ![r].redirects = redirects]
    /\ socks' = sockets
    /\ queue' = [queue EXCEPT ![h] = Append(@, r)]
    /\ Wake({conn[r].host, h})
    /\ UNCHANGED <<session, closes, runs, hung>>

-----------------------------------------------------------------------------
(* Making a request *)

\* purple_http_request
Request(r) ==
    /\ session = "on"
    /\ conn[r].at = "new"
    /\ conn' = [conn EXCEPT ![r].at = "queued"]
    /\ queue' = [queue EXCEPT ![conn[r].host] = Append(@, r)]
    /\ Wake({conn[r].host})
    /\ UNCHANGED <<session, net, hung>>

\* An invalid URL or an unknown protocol: it is called back at once.  With an
\* unknown protocol the timeout of the freed connection is set nevertheless; a
\* program that dies of it has no further steps.
Refuse(r) ==
    /\ session = "on"
    /\ conn[r].at = "new"
    /\ conn' = Terminated(r, None)
    /\ UNCHANGED <<session, pool, net, hung>>

\* _purple_http_keepalive_host_process_queue_cb: the first in the queue gets s.
Assign(h, at, s) ==
    /\ conn' = [conn EXCEPT ![Head(queue[h])].at = at, ![Head(queue[h])].sock = s]
    /\ queue' = [queue EXCEPT ![h] = Tail(@)]

\* The first idle connection is taken, and the timer set for the rest.
Reuse(h) ==
    LET s == CHOOSE x \in Idle(h) : \A y \in Idle(h) : x <= y
    IN  /\ Assign(h, "writing", s)
        /\ socks' = [socks EXCEPT ![s].busy = TRUE, ![s].reused = TRUE]
        /\ UNCHANGED timers

\* A new connection is made, and the rest has to wait.
Connect(h) ==
    /\ Assign(h, "connecting", Len(socks) + 1)
    /\ socks' = Append(socks, [host |-> h, at |-> "connecting", busy |-> TRUE, reused |-> FALSE,
                               wire |-> <<>>, eof |-> FALSE, cut |-> FALSE])
    /\ timers' = timers \ {h}

ServeQueue(h) ==
    /\ h \in timers
    /\ \/ /\ queue[h] = <<>>
          /\ timers' = timers \ {h}
          /\ UNCHANGED <<conn, queue, socks>>
       \/ queue[h] # <<>> /\ Idle(h) # {} /\ Reuse(h)
       \/ queue[h] # <<>> /\ Idle(h) = {} /\ Connect(h)
    /\ UNCHANGED <<session, closes, runs, hung, unwoken>>

Connected(r) ==
    /\ conn[r].at = "connecting"
    /\ conn' = [conn EXCEPT ![r].at = "writing"]
    /\ socks' = [socks EXCEPT ![conn[r].sock].at = "open"]
    /\ UNCHANGED <<session, pool, closes, runs, hung>>

ConnectFails(r) ==
    /\ conn[r].at = "connecting"
    /\ Fail(r)

-----------------------------------------------------------------------------
(* Writing the request *)

\* All of it; that the server has closed the connection may not show yet.
Write(r) ==
    /\ conn[r].at = "writing"
    /\ conn' = [conn EXCEPT ![r].at = "reading"]
    /\ socks' = [socks EXCEPT ![conn[r].sock].wire = Append(@, [of |-> r, at |-> "asked"])]
    /\ UNCHANGED <<session, pool, closes, runs, hung>>

\* purple_http_conn_retry
Retry(r) == Reconnect(r, conn[r].host, conn[r].redirects, Discarded(conn[r].sock))

\* Nothing could be written to a connection that was used before.
WriteExpires(r) ==
    /\ conn[r].at = "writing" /\ Sock(r).eof /\ Sock(r).reused
    /\ Retry(r)

WriteFails(r) ==
    /\ conn[r].at = "writing" /\ Sock(r).eof
    /\ Fail(r)

-----------------------------------------------------------------------------
(* Reading the answer: _purple_http_recv_loopbody.  Bytes do not tell whom   *)
(* they are meant for.                                                       *)

Wire(r) == Sock(r).wire

\* What r takes for its answer: the first on the wire that was not read.  The
\* rest of an answer has no headers of its own.  It is parsed as if it had, and
\* may end by itself or within one of the answers behind it.
Portion(r, i, k) ==
    /\ k \in i..Len(Wire(r))
    /\ \A j \in 1..(i - 1) : Wire(r)[j].at = "read"
    /\ \/ Wire(r)[i].at = "answered" /\ k = i
       \/ Wire(r)[i].at = "rest" /\ \A j \in (i + 1)..k : Wire(r)[j].at = "answered"

\* The wire when that was read, or all but a rest of it.
Taken(r, i, k, at) ==
    LET wire == [j \in DOMAIN Wire(r) |->
                    [Wire(r)[j] EXCEPT !.at = IF j \in i..(k - 1) THEN "read"
                                              ELSE IF j = k THEN at ELSE @]]
    IN  IF \A j \in DOMAIN wire : wire[j].at = "read" THEN <<>> ELSE wire

\* Its length is known, or it ends with the connection, which is put back
\* into the pool in this case too.
Read(r) ==
    /\ conn[r].at = "reading"
    /\ \E i, k \in DOMAIN Wire(r) :
        /\ Portion(r, i, k)
        /\ \E j \in i..k :
             Succeed(r, Wire(r)[j].of, Kept(conn[r].sock, Taken(r, i, k, "read"), FALSE))

\* It is longer than max_length, or than the length that the headers told: the
\* rest stays in the connection.
ReadTruncated(r) ==
    /\ conn[r].at = "reading"
    /\ \E i, k \in DOMAIN Wire(r) :
        /\ Portion(r, i, k)
        /\ \E j \in i..k :
             Succeed(r, Wire(r)[j].of, Kept(conn[r].sock, Taken(r, i, k, "rest"), TRUE))

\* It has a header "location" with a valid URL.
Redirect(r) ==
    /\ conn[r].at = "reading"
    /\ conn[r].redirects < MaxRedirects
    /\ \E i, k \in DOMAIN Wire(r), h \in Hosts :
        /\ Portion(r, i, k)
        /\ Reconnect(r, h, conn[r].redirects + 1,
                     Kept(conn[r].sock, Taken(r, i, k, "read"), FALSE))

\* It makes no sense, its code is 407, or it ends before its length.
ReadBroken(r) ==
    /\ conn[r].at = "reading"
    /\ \E i, k \in DOMAIN Wire(r) : Portion(r, i, k)
    /\ Fail(r)

\* It comes in chunks and ends before the empty one: the loop of
\* _purple_http_recv reads the end of the connection for ever.
ReadCutChunks(r) ==
    /\ conn[r].at = "reading"
    /\ \E i, k \in DOMAIN Wire(r) : Portion(r, i, k)
    /\ Sock(r).eof
    /\ hung' = TRUE
    /\ UNCHANGED <<session, conn, pool, net>>

\* The end of the connection comes before the headers are complete.  If it was
\* used before, the request is repeated.  If not, and no header "Server" was
\* read, the YHttpServer quirk applies, as a missing header is compared.
ReadExpires_Fresh(r) ==
    /\ conn[r].at = "reading" /\ Sock(r).eof
    /\ Retry(r)

ReadExpires(r) ==
    /\ conn[r].at = "reading" /\ Sock(r).eof /\ Sock(r).reused
    /\ Retry(r)

ReadNothing(r) ==
    /\ conn[r].at = "reading" /\ Sock(r).eof /\ ~Sock(r).reused
    /\ Fail(r) \/ Succeed(r, None, Kept(conn[r].sock, <<>>, FALSE))

-----------------------------------------------------------------------------
(* Cancelling *)

\* g_slist_remove
Without(waiting, r) ==
    LET i == CHOOSE x \in DOMAIN waiting : waiting[x] = r
    IN  SubSeq(waiting, 1, i - 1) \o SubSeq(waiting, i + 1, Len(waiting))

\* purple_http_conn_cancel by the timeout or by a progress watcher.  A
\* connection that is being made is closed, and the queue is not looked at.
Cancel(r) ==
    \/ /\ conn[r].at = "queued"
       /\ conn' = Terminated(r, None)
       /\ queue' = [queue EXCEPT ![conn[r].host] = Without(@, r)]
       /\ UNCHANGED <<session, timers, unwoken, net, hung>>
    \/ /\ conn[r].at = "connecting"
       /\ conn' = Terminated(r, None)
       /\ socks' = Discarded(conn[r].sock)
       /\ unwoken' = unwoken \cup ({conn[r].host} \ timers)
       /\ UNCHANGED <<session, queue, timers, closes, runs, hung>>
    \/ /\ conn[r].at \in {"writing", "reading"}
       /\ Fail(r)

\* vk_close: purple_http_conn_cancel_all, during which nothing new can be
\* requested, and the pool is freed with its connections.
Close ==
    /\ session = "on"
    /\ session' = "off"
    /\ conn' = [r \in Requests |-> IF conn[r].at = "new" THEN conn[r]
                                   ELSE [conn[r] EXCEPT !.at = "done"]]
    /\ socks' = [s \in Socks |-> [socks[s] EXCEPT !.at = "closed", !.busy = FALSE]]
    /\ queue' = [h \in Hosts |-> <<>>]
    /\ timers' = {} /\ unwoken' = {}
    /\ UNCHANGED <<closes, runs, hung>>

-----------------------------------------------------------------------------
(* The servers: what was written may be carried out although the client has  *)
(* closed the connection meanwhile.                                          *)

ServerRuns(s) ==
    /\ ~socks[s].eof
    /\ \E i \in DOMAIN socks[s].wire :
         /\ socks[s].wire[i].at = "asked"
         /\ \A j \in 1..(i - 1) : socks[s].wire[j].at \notin {"asked", "ran"}
         /\ socks' = [socks EXCEPT ![s].wire[i].at = "ran"]
         /\ runs' = [runs EXCEPT ![socks[s].wire[i].of] = @ + 1]
    /\ UNCHANGED <<session, conn, pool, closes, hung>>

ServerAnswers(s) ==
    /\ ~socks[s].eof /\ socks[s].at = "open"
    /\ \E i \in DOMAIN socks[s].wire :
         /\ socks[s].wire[i].at = "ran"
         /\ socks' = [socks EXCEPT ![s].wire[i].at = "answered"]
    /\ UNCHANGED <<session, conn, pool, closes, runs, hung>>

ServerCloses(s) ==
    /\ socks[s].at = "open" /\ ~socks[s].eof
    /\ closes < MaxCloses
    /\ closes' = closes + 1
    /\ socks' = [socks EXCEPT ![s].eof = TRUE]
    /\ UNCHANGED <<session, conn, pool, runs, hung>>

-----------------------------------------------------------------------------
Progress(r) ==
    \/ Connected(r) \/ ConnectFails(r)
    \/ Write(r) \/ WriteExpires(r) \/ WriteFails(r)
    \/ Read(r) \/ ReadTruncated(r) \/ Redirect(r) \/ ReadBroken(r) \/ ReadCutChunks(r)
    \/ ReadExpires(r) \/ ReadNothing(r)

Client ==
    \/ \E r \in Requests : Request(r) \/ Refuse(r) \/ Progress(r) \/ Cancel(r)
    \/ \E h \in Hosts : ServeQueue(h)
    \/ Close

Server == \E s \in Socks : ServerRuns(s) \/ ServerAnswers(s) \/ ServerCloses(s)

Next == (~hung /\ Client) \/ Server

Spec == Init /\ [][Next]_vars

\* The main loop calls back timers and connections that are ready, and servers
\* answer.  Nothing is asked of the timeouts of requests.
FairSpec ==
    /\ Spec
    /\ \A h \in Hosts : WF_vars(~hung /\ ServeQueue(h))
    /\ \A r \in Requests : WF_vars(~hung /\ Progress(r))
    /\ WF_vars(\E s \in Socks : ServerRuns(s) \/ ServerAnswers(s))

-----------------------------------------------------------------------------
(* Properties *)

\* However requests are redirected, repeated and cancelled, each that is not
\* over has one place: once in the queue of its host, or on a busy connection
\* that no other request has; and no connection stays busy for nobody.
InOnePlace ==
    /\ \A h \in Hosts, r \in Requests :
         Cardinality({i \in DOMAIN queue[h] : queue[h][i] = r}) =
             IF conn[r].at = "queued" /\ conn[r].host = h THEN 1 ELSE 0
    /\ \A s \in Socks :
         Cardinality({r \in Requests : conn[r].at \in {"connecting", "writing", "reading"}
                                       /\ conn[r].sock = s}) = IF socks[s].busy THEN 1 ELSE 0

\* A queue with requests will be looked at: by the timer, or when a busy
\* connection is released.  There is one way out of this, to cancel a request
\* while it is connecting, as the others have waited for it.
QueueIsWatched ==
    \A h \in Hosts : queue[h] # <<>> => h \in timers \/ Busy(h) # {} \/ h \in unwoken

\* Requests, queues, timers and connections fit together.
PoolInv == TypeOK /\ InOnePlace /\ QueueIsWatched

\* A server carries a request out once, once more for each redirect, and once
\* more for each kept connection that it closed before the answer was heard.
RunsAreAccountedFor ==
    \A r \in Requests :
        runs[r] <= 1 + conn[r].redirects
                     + Cardinality({s \in Socks :
                            /\ socks[s].reused /\ socks[s].eof
                            /\ \E i \in DOMAIN socks[s].wire :
                                  /\ socks[s].wire[i].of = r
                                  /\ socks[s].wire[i].at \in {"ran", "answered"}})

\* The client keeps HttpPromise: however connections are kept, shared, expired
\* and closed, each request gets its own answer or none.  There is one way out
\* of this, to be read from a connection on which an answer was cut before.
Promise == INSTANCE HttpPromise WITH
    stage  <- [r \in Requests |-> IF conn[r].at \in {"new", "done"} THEN conn[r].at ELSE "asked"],
    runs   <- runs,
    answer <- [r \in Requests |-> conn[r].heard],
    exposed <- {r \in Requests : conn[r].at = "reading" /\ Sock(r).cut}
KeepsPromise == Promise!Spec

\* Even if no timeout fires, every request ends, as long as servers answer: it
\* does not starve in the queue, whatever is redirected, repeated or cancelled
\* before it.  The exceptions are the one of QueueIsWatched, and the endless
\* loop.
RequestsEnd ==
    \A r \in Requests :
        conn[r].at \notin {"new", "done"} ~>
            \/ conn[r].at = "done"
            \/ hung
            \/ conn[r].at = "queued" /\ conn[r].host \in unwoken

=============================================================================
