-------------------------- MODULE HttpClientProofs --------------------------
(***************************************************************************)
(* Theorems about HttpClient, for any requests, hosts, redirects and       *)
(* connections that servers close, and that it implements HttpPromise.     *)
(***************************************************************************)
EXTENDS HttpClient, FiniteSetTheorems, SequenceTheorems, WellFoundedInduction, TLAPS

Entries == [of : Requests, at : {"asked", "ran", "answered", "rest", "read"}]
Sockets == [host : Hosts, at : {"connecting", "open", "closed"}, busy : BOOLEAN,
            reused : BOOLEAN, wire : Seq(Entries), eof : BOOLEAN, cut : BOOLEAN]
Conns == [at : {"new", "queued", "connecting", "writing", "reading", "done"},
          host : Hosts, sock : Nat, redirects : 0..MaxRedirects, heard : Requests \cup {None}]

\* Where a request has a connection
Active == {"connecting", "writing", "reading"}

(***************************************************************************)
(* The invariant, by requests, connections and hosts.                      *)
(***************************************************************************)
\* The last that was written to s is r, and what came to it was not read.
LastIs(s, r) ==
    LET n == Len(socks[s].wire)
    IN  /\ n \in DOMAIN socks[s].wire /\ socks[s].wire[n].of = r
        /\ socks[s].wire[n].at \in {"asked", "ran", "answered"}

\* A request is on a connection of its host that is busy and as far as the
\* request; unless an answer was cut there, nothing else is on the wire.  Or
\* it is in the queue; and it hears nothing before it is over.
RequestInv(r) ==
    /\ conn[r].at \in Active =>
         /\ conn[r].sock \in Socks /\ Sock(r).busy /\ Sock(r).host = conn[r].host
         /\ Sock(r).at = IF conn[r].at = "connecting" THEN "connecting" ELSE "open"
         /\ conn[r].at # "reading" /\ ~Sock(r).cut => Wire(r) = <<>>
         /\ conn[r].at = "reading" => LastIs(conn[r].sock, r)
         /\ conn[r].at = "reading" /\ ~Sock(r).cut => Len(Wire(r)) = 1
    /\ conn[r].at = "queued" =>
         \E i \in DOMAIN queue[conn[r].host] : queue[conn[r].host][i] = r
    /\ conn[r].at # "done" => conn[r].heard = None

\* What is on a wire was made, and carried out if the server says so.
Earnest(s, i) ==
    /\ conn[socks[s].wire[i].of].at # "new"
    /\ socks[s].wire[i].at # "asked" => runs[socks[s].wire[i].of] > 0

\* A busy connection is of somebody, and an idle one has nothing on the wire
\* unless an answer was cut.
SocketInv(s) ==
    /\ socks[s].busy => \E r \in Requests : conn[r].at \in Active /\ conn[r].sock = s
    /\ socks[s].at = "open" /\ ~socks[s].busy /\ ~socks[s].cut => socks[s].wire = <<>>
    /\ \A i \in DOMAIN socks[s].wire : Earnest(s, i)

\* A queue holds the requests that wait for the host, each once.
HostInv(h) ==
    /\ \A i \in DOMAIN queue[h] : conn[queue[h][i]].at = "queued" /\ conn[queue[h][i]].host = h
    /\ \A i, j \in DOMAIN queue[h] : queue[h][i] = queue[h][j] => i = j

Distinct ==
    \A r, q \in Requests :
        conn[r].at \in Active /\ conn[q].at \in Active /\ conn[r].sock = conn[q].sock => r = q

Parts ==
    /\ \A r \in Requests : RequestInv(r)
    /\ \A s \in Socks : SocketInv(s)
    /\ \A h \in Hosts : HostInv(h)
    /\ Distinct
    /\ QueueIsWatched

(***************************************************************************)
(* How often a request was carried out: as long as it will be written, or  *)
(* the server of a connection may still read it, that is once more.        *)
(***************************************************************************)
Unwritten(r) == IF conn[r].at \in {"new", "queued", "connecting", "writing"} THEN 1 ELSE 0

\* r waits for the answer to what is at i on the wire of s.
Current(r, s, i) == conn[r].at = "reading" /\ conn[r].sock = s /\ i = Len(socks[s].wire)

\* There is r at i on the wire of s, and its server may carry it out yet, or r
\* is there to see that the server does not.
AskedAt(r, s, i) ==
    /\ i \in DOMAIN socks[s].wire
    /\ socks[s].wire[i].of = r /\ socks[s].wire[i].at = "asked"
    /\ ~socks[s].eof \/ Current(r, s, i)
Asked(r) == {p \in Socks \X Nat : AskedAt(r, p[1], p[2])}

\* Connections closed from both sides before r heard that it was carried out
ExpiredAt(r, s) ==
    /\ socks[s].at = "closed" /\ socks[s].reused /\ socks[s].eof
    /\ \E i \in DOMAIN socks[s].wire :
         socks[s].wire[i].of = r /\ socks[s].wire[i].at \in {"ran", "answered"}
Expired(r) == {s \in Socks : ExpiredAt(r, s)}

RunsOf(r) ==
    /\ IsFiniteSet(Asked(r))
    /\ runs[r] + Unwritten(r) + Cardinality(Asked(r))
         <= 1 + conn[r].redirects + Cardinality(Expired(r))

RunsInv == \A r \in Requests : RunsOf(r)

(***************************************************************************)
(* What the actions make of a connection.                                  *)
(***************************************************************************)
LEMMA SocketsAre ==
    ASSUME TypeOK
    PROVE  /\ conn \in [Requests -> Conns] /\ socks \in Seq(Sockets)
           /\ Socks = 1..Len(socks) /\ Len(socks) \in Nat
           /\ \A s \in Socks : socks[s] \in Sockets /\ socks[s].wire \in Seq(Entries)
<1>1. conn \in [Requests -> Conns] /\ socks \in Seq(Sockets)
  BY DEF TypeOK, Conns, Sockets, Entries
<1>2. Socks = 1..Len(socks) /\ Len(socks) \in Nat
  BY <1>1 DEF Socks
<1>3. \A s \in Socks : socks[s] \in Sockets
  BY <1>1, <1>2
<1> QED BY <1>1, <1>2, <1>3 DEF Sockets

\* What is on a wire
LEMMA EntryIs ==
    ASSUME NEW w \in Seq(Entries), NEW i \in DOMAIN w
    PROVE  /\ w[i] \in Entries /\ w[i].of \in Requests
           /\ w[i].at \in {"asked", "ran", "answered", "rest", "read"}
           /\ DOMAIN w = 1..Len(w) /\ Len(w) \in Nat /\ i \in 1..Len(w) /\ w # <<>>
<1>1. DOMAIN w = 1..Len(w) /\ Len(w) \in Nat /\ w[i] \in Entries
  BY LenProperties
<1> QED BY <1>1 DEF Entries

\* Connection s becomes y, and all others stay.
Sets(s, y) ==
    /\ Socks' = Socks /\ socks'[s] = y
    /\ \A x \in Socks \ {s} : socks'[x] = socks[x]

LEMMA SocketSet ==
    ASSUME TypeOK, NEW s \in Socks, NEW y \in Sockets, socks' = [socks EXCEPT ![s] = y]
    PROVE  Sets(s, y) /\ socks' \in Seq(Sockets)
<1>1. socks \in Seq(Sockets) /\ Socks = 1..Len(socks) /\ Len(socks) \in Nat
  BY SocketsAre
<1>2. socks' \in Seq(Sockets)
  BY <1>1
<1>3. Socks' = Socks
  BY DEF Socks
<1>4. socks'[s] = y /\ \A x \in Socks \ {s} : socks'[x] = socks[x]
  BY DEF Socks
<1> QED BY <1>2, <1>3, <1>4 DEF Sets

DiscardedSocket(s) == [socks[s] EXCEPT !.at = "closed", !.busy = FALSE]
KeptSocket(s, wire, cut) == [socks[s] EXCEPT !.busy = FALSE, !.wire = wire, !.cut = @ \/ cut]

LEMMA DiscardedValue ==
    ASSUME TypeOK, NEW s \in Socks
    PROVE  /\ Discarded(s) = [socks EXCEPT ![s] = DiscardedSocket(s)]
           /\ DiscardedSocket(s) \in Sockets
<1>1. socks[s] \in Sockets
  BY SocketsAre
<1>2. DiscardedSocket(s) \in Sockets
  BY <1>1 DEF DiscardedSocket, Sockets
<1>3. Discarded(s) = [socks EXCEPT ![s] = DiscardedSocket(s)]
  BY <1>1, SocketsAre DEF Discarded, DiscardedSocket, Socks
<1> QED BY <1>2, <1>3

LEMMA KeptValue ==
    ASSUME TypeOK, NEW s \in Socks, NEW wire \in Seq(Entries), NEW cut \in BOOLEAN
    PROVE  /\ Kept(s, wire, cut) = [socks EXCEPT ![s] = KeptSocket(s, wire, cut)]
           /\ KeptSocket(s, wire, cut) \in Sockets
<1>1. socks[s] \in Sockets
  BY SocketsAre
<1>2. socks[s].cut \/ cut \in BOOLEAN
  BY <1>1 DEF Sockets
<1>3. KeptSocket(s, wire, cut) \in Sockets
  BY <1>1, <1>2 DEF KeptSocket, Sockets
<1>4. Kept(s, wire, cut) = [socks EXCEPT ![s] = KeptSocket(s, wire, cut)]
  BY <1>1, SocketsAre DEF Kept, KeptSocket, Socks, Sockets
<1> QED BY <1>3, <1>4

(***************************************************************************)
(* The steps of a request that leaves its connection: it is over, or will  *)
(* be asked again.  x is what becomes of the request, y of the connection. *)
(***************************************************************************)
\* v is w, or what remains when some answers on it were read.
Remains(v, w) ==
    \A j \in DOMAIN v :
        /\ j \in DOMAIN w /\ v[j].of = w[j].of
        /\ v[j].at = w[j].at \/ (w[j].at # "asked" /\ v[j].at # "asked")

Leaves(r, x, y) ==
    /\ conn[r].at \in Active
    /\ conn' = [conn EXCEPT ![r] = x] /\ x \in Conns
    /\ Sets(conn[r].sock, y) /\ y \in Sockets /\ socks' \in Seq(Sockets)
    /\ ~y.busy /\ y.host = Sock(r).host /\ y.eof = Sock(r).eof /\ y.reused = Sock(r).reused
    /\ y.at \in {"open", "closed"}
    /\ Remains(y.wire, Wire(r))
    /\ y.at = "open" /\ ~y.cut => y.wire = <<>>
    /\ timers \subseteq timers' /\ unwoken \subseteq timers' \cup unwoken'
    /\ conn[r].host \in timers' \cup unwoken'
    /\ timers' \subseteq Hosts /\ unwoken' \subseteq Hosts
    /\ UNCHANGED <<session, closes, runs, hung>>

\* Something that r may take for its answer
Hears(r, q) ==
    /\ conn[r].at = "reading" /\ q \in Requests /\ runs[q] > 0
    /\ q = r \/ Sock(r).cut

Over(r, x, y) ==
    /\ Leaves(r, x, y)
    /\ x.at = "done" /\ x.redirects = conn[r].redirects
    /\ x.heard = None \/ Hears(r, x.heard)
    /\ queue' = queue

Again(r, x, y) ==
    /\ Leaves(r, x, y)
    /\ x.at = "queued" /\ x.heard = conn[r].heard
    /\ queue' = [queue EXCEPT ![x.host] = Append(@, r)]
    /\ x.host \in timers'
    /\ \/ x.redirects = conn[r].redirects + 1
       \/ /\ x.redirects = conn[r].redirects /\ Sock(r).eof /\ Sock(r).reused
          /\ y.at = "closed" /\ y.wire = Wire(r)

LEMMA ActiveIs ==
    ASSUME TypeOK, Parts, NEW r \in Requests, conn[r].at \in Active
    PROVE  /\ conn[r] \in Conns /\ conn[r].sock \in Socks /\ Sock(r) \in Sockets
           /\ conn[r].host \in Hosts /\ Wire(r) \in Seq(Entries)
           /\ SocketInv(conn[r].sock) /\ RequestInv(r) /\ Sock(r) = socks[conn[r].sock]
           /\ Wire(r) = socks[conn[r].sock].wire /\ Sock(r).at # "closed"
<1>1. conn[r] \in Conns /\ conn[r].host \in Hosts
  BY SocketsAre DEF Conns
<1>2. conn[r].sock \in Socks /\ RequestInv(r) /\ Sock(r).at # "closed"
  BY DEF Parts, RequestInv
<1>3. Sock(r) \in Sockets /\ Wire(r) \in Seq(Entries)
  BY <1>2, SocketsAre DEF Sock, Wire
<1>4. SocketInv(conn[r].sock) /\ Sock(r) = socks[conn[r].sock] /\ Wire(r) = socks[conn[r].sock].wire
  BY <1>2 DEF Parts, Sock, Wire
<1> QED BY <1>1, <1>2, <1>3, <1>4

LEMMA WakeType ==
    ASSUME TypeOK, NEW H \in SUBSET Hosts, Wake(H)
    PROVE  /\ timers \subseteq timers' /\ unwoken \subseteq timers' \cup unwoken'
           /\ H \subseteq timers' /\ timers' \subseteq Hosts /\ unwoken' \subseteq Hosts
  BY DEF Wake, TypeOK

\* Closing the connection of r leaves it.
LEMMA DiscardLeaves ==
    ASSUME TypeOK, Parts, NEW r \in Requests, conn[r].at \in Active,
           NEW x \in Conns, conn' = [conn EXCEPT ![r] = x],
           socks' = Discarded(conn[r].sock),
           timers \subseteq timers', unwoken \subseteq timers' \cup unwoken',
           conn[r].host \in timers' \cup unwoken',
           timers' \subseteq Hosts, unwoken' \subseteq Hosts,
           UNCHANGED <<session, closes, runs, hung>>
    PROVE  /\ Leaves(r, x, DiscardedSocket(conn[r].sock))
           /\ DiscardedSocket(conn[r].sock).wire = Wire(r)
           /\ DiscardedSocket(conn[r].sock).at = "closed"
<1> DEFINE s == conn[r].sock
           y == DiscardedSocket(s)
<1>1. s \in Socks /\ Sock(r) \in Sockets
  BY ActiveIs
<1>2. Sets(s, y) /\ socks' \in Seq(Sockets) /\ y \in Sockets
  BY <1>1, DiscardedValue, SocketSet
<1>3. /\ ~y.busy /\ y.at = "closed" /\ y.host = Sock(r).host /\ y.eof = Sock(r).eof
      /\ y.reused = Sock(r).reused /\ y.wire = Wire(r)
  BY <1>1 DEF DiscardedSocket, Sock, Wire, Sockets
<1>4. Remains(y.wire, Wire(r))
  BY <1>3 DEF Remains
<1> QED BY <1>2, <1>3, <1>4 DEF Leaves

\* So does putting it back into the pool once something was read.
LEMMA KeepLeaves ==
    ASSUME TypeOK, Parts, NEW r \in Requests, conn[r].at = "reading",
           NEW x \in Conns, conn' = [conn EXCEPT ![r] = x],
           NEW wire \in Seq(Entries), NEW cut \in BOOLEAN, Remains(wire, Wire(r)),
           ~Sock(r).cut /\ ~cut => wire = <<>>,
           socks' = Kept(conn[r].sock, wire, cut),
           timers \subseteq timers', unwoken \subseteq timers' \cup unwoken',
           conn[r].host \in timers' \cup unwoken',
           timers' \subseteq Hosts, unwoken' \subseteq Hosts,
           UNCHANGED <<session, closes, runs, hung>>
    PROVE  Leaves(r, x, KeptSocket(conn[r].sock, wire, cut))
<1> DEFINE s == conn[r].sock
           y == KeptSocket(s, wire, cut)
<1>1. s \in Socks /\ Sock(r) \in Sockets /\ conn[r].at \in Active /\ Sock(r) = socks[s]
  BY ActiveIs DEF Active
<1>2. y \in Sockets /\ socks' = [socks EXCEPT ![s] = y]
  BY <1>1, KeptValue
<1>3. Sets(s, y) /\ socks' \in Seq(Sockets)
  BY <1>1, <1>2, SocketSet
<1>4. Sock(r).at = "open"
  BY <1>1 DEF Parts, RequestInv
<1>5. /\ ~y.busy /\ y.at = "open" /\ y.host = Sock(r).host /\ y.eof = Sock(r).eof
      /\ y.reused = Sock(r).reused /\ y.wire = wire /\ y.cut = (Sock(r).cut \/ cut)
  BY <1>1, <1>4 DEF KeptSocket, Sockets
<1>6. y.at = "open" /\ ~y.cut => y.wire = <<>>
  BY <1>5
<1> QED BY <1>1, <1>2, <1>3, <1>5, <1>6 DEF Leaves

\* What is left on the wire when a portion was read, and who may be heard in it
LEMMA TakenIs ==
    ASSUME TypeOK, Parts, NEW r \in Requests, conn[r].at = "reading",
           NEW i \in DOMAIN Wire(r), NEW k \in DOMAIN Wire(r), Portion(r, i, k),
           NEW at \in {"rest", "read"}
    PROVE  /\ Taken(r, i, k, at) \in Seq(Entries) /\ Remains(Taken(r, i, k, at), Wire(r))
           /\ ~Sock(r).cut /\ at = "read" => Taken(r, i, k, at) = <<>>
           /\ \A j \in i..k : j \in DOMAIN Wire(r) /\ Hears(r, Wire(r)[j].of)
<1>0. PICK w \in Seq(Entries) : w = Wire(r)
  BY ActiveIs DEF Active
<1>1. /\ DOMAIN w = 1..Len(w) /\ Len(w) \in Nat /\ i \in 1..Len(w) /\ k \in 1..Len(w)
      /\ \A j \in DOMAIN w : w[j] \in Entries
  BY <1>0, EntryIs
<1> DEFINE v == [j \in DOMAIN w |->
                    [w[j] EXCEPT !.at = IF j \in i..(k - 1) THEN "read"
                                        ELSE IF j = k THEN at ELSE @]]
<1>2. Taken(r, i, k, at) = IF \A j \in DOMAIN v : v[j].at = "read" THEN <<>> ELSE v
  BY <1>0 DEF Taken
<1>3. i <= k /\ \A j \in i..k : j \in DOMAIN w /\ w[j].at \in {"answered", "rest"}
  <2>1. k \in i..Len(w) /\ \/ w[i].at = "answered" /\ k = i
                           \/ w[i].at = "rest" /\ \A j \in (i + 1)..k : w[j].at = "answered"
    BY <1>0 DEF Portion
  <2>2. ASSUME NEW j \in i..k PROVE j = i \/ j \in (i + 1)..k
    BY <1>1
  <2>3. ASSUME NEW j \in i..k PROVE j \in DOMAIN w
    BY <1>1
  <2> QED BY <1>1, <2>1, <2>2, <2>3
<1>4. \A j \in DOMAIN v :
        /\ j \in DOMAIN w /\ v[j] \in Entries /\ v[j].of = w[j].of
        /\ v[j].at = w[j].at \/ (w[j].at # "asked" /\ v[j].at # "asked")
  <2>1. ASSUME NEW j \in DOMAIN w
        PROVE  /\ v[j] \in Entries /\ v[j].of = w[j].of
               /\ v[j].at = w[j].at \/ (w[j].at # "asked" /\ v[j].at # "asked")
    <3>1. v[j].of = w[j].of /\ v[j] \in Entries
          /\ v[j].at = IF j \in i..(k - 1) THEN "read" ELSE IF j = k THEN at ELSE w[j].at
      BY <1>1 DEF Entries
    <3>2. j \in i..(k - 1) \/ j = k => j \in i..k
      BY <1>1, <1>3
    <3> QED BY <1>3, <3>1, <3>2
  <2> QED BY <2>1
<1>5. v \in Seq(Entries)
  <2>1. v \in [1..Len(w) -> Entries]
    BY <1>1, <1>4
  <2> QED BY <1>1, <2>1, SeqDef
<1>6. <<>> \in Seq(Entries) /\ Remains(<<>>, Wire(r))
  BY DEF Remains
<1>7. Remains(v, Wire(r))
  BY <1>0, <1>4 DEF Remains
<1>8. ASSUME ~Sock(r).cut, at = "read" PROVE \A j \in DOMAIN v : v[j].at = "read"
  <2>1. Len(w) = 1
    BY <1>0, <1>8, ActiveIs DEF Active, RequestInv
  <2>2. i = 1 /\ k = 1
    BY <1>1, <2>1
  <2>3. \A j \in DOMAIN v : j = k
    BY <1>1, <2>1, <2>2
  <2> QED BY <1>1, <1>8, <2>2, <2>3 DEF Entries
<1> HIDE DEF v
<1>9. ASSUME NEW j \in i..k PROVE Hears(r, Wire(r)[j].of)
  <2>1. j \in DOMAIN w /\ w[j].at # "asked" /\ w[j].of \in Requests
    BY <1>3, <1>9, EntryIs
  <2>2. runs[w[j].of] > 0
    <3>1. SocketInv(conn[r].sock) /\ w = socks[conn[r].sock].wire
      BY <1>0, ActiveIs DEF Active
    <3>2. Earnest(conn[r].sock, j)
      BY <2>1, <3>1 DEF SocketInv
    <3> QED BY <2>1, <3>1, <3>2 DEF Earnest
  <2>3. ASSUME ~Sock(r).cut PROVE w[j].of = r
    <3>1. Len(w) = 1 /\ w[1].of = r
      BY <1>0, <2>3, ActiveIs DEF Active, RequestInv, LastIs
    <3> QED BY <1>1, <2>1, <3>1
  <2> QED BY <1>0, <2>1, <2>2, <2>3 DEF Hears
<1> QED BY <1>0, <1>2, <1>3, <1>5, <1>6, <1>7, <1>8, <1>9

IsOver(r) == \E x \in Conns, y \in Sockets : Over(r, x, y)
IsAgain(r) == \E x \in Conns, y \in Sockets : Again(r, x, y)

Ended(r, heard) == [conn[r] EXCEPT !.at = "done", !.heard = heard]
Waiting(r, h, redirects) == [conn[r] EXCEPT !.at = "queued", !.host = h, !.redirects = redirects]

LEMMA EndedValue ==
    ASSUME TypeOK, NEW r \in Requests, NEW heard \in Requests \cup {None}
    PROVE  /\ Terminated(r, heard) = [conn EXCEPT ![r] = Ended(r, heard)]
           /\ Ended(r, heard) \in Conns /\ Ended(r, heard).at = "done"
           /\ Ended(r, heard).redirects = conn[r].redirects /\ Ended(r, heard).heard = heard
<1>1. conn \in [Requests -> Conns] /\ conn[r] \in Conns
  BY SocketsAre
<1> QED BY <1>1 DEF Terminated, Ended, Conns

LEMMA WaitingValue ==
    ASSUME TypeOK, NEW r \in Requests, NEW h \in Hosts, NEW redirects \in 0..MaxRedirects,
           NEW sockets, Reconnect(r, h, redirects, sockets)
    PROVE  /\ conn' = [conn EXCEPT ![r] = Waiting(r, h, redirects)]
           /\ Waiting(r, h, redirects) \in Conns /\ Waiting(r, h, redirects).at = "queued"
           /\ Waiting(r, h, redirects).redirects = redirects
           /\ Waiting(r, h, redirects).host = h
           /\ Waiting(r, h, redirects).heard = conn[r].heard
<1>1. conn \in [Requests -> Conns] /\ conn[r] \in Conns
  BY SocketsAre
<1>2. conn' = [conn EXCEPT ![r] = Waiting(r, h, redirects)]
  BY <1>1 DEF Reconnect, Waiting
<1> QED BY <1>1, <1>2 DEF Waiting, Conns

\* A request that fails, or is cancelled while it is connecting
LEMMA FailIsOver ==
    ASSUME TypeOK, Parts, NEW r \in Requests, conn[r].at \in Active,
           conn' = Terminated(r, None), socks' = Discarded(conn[r].sock), queue' = queue,
           \/ Wake({conn[r].host})
           \/ timers' = timers /\ unwoken' = unwoken \cup ({conn[r].host} \ timers),
           UNCHANGED <<session, closes, runs, hung>>
    PROVE  IsOver(r)
<1> DEFINE x == Ended(r, None)
           y == DiscardedSocket(conn[r].sock)
<1>1. conn' = [conn EXCEPT ![r] = x] /\ x \in Conns /\ x.at = "done" /\ x.heard = None
      /\ x.redirects = conn[r].redirects
  BY EndedValue
<1>2. conn[r].host \in Hosts
  BY ActiveIs
<1>3. /\ timers \subseteq timers' /\ unwoken \subseteq timers' \cup unwoken'
      /\ conn[r].host \in timers' \cup unwoken' /\ timers' \subseteq Hosts /\ unwoken' \subseteq Hosts
  BY <1>2 DEF Wake, TypeOK
<1> HIDE DEF x
<1>4. Leaves(r, x, y)
  BY <1>1, <1>3, DiscardLeaves
<1>5. y \in Sockets
  BY <1>4 DEF Leaves
<1> HIDE DEF y
<1>6. Over(r, x, y)
  BY <1>1, <1>4 DEF Over
<1> QED BY <1>1, <1>5, <1>6 DEF IsOver

\* A request whose answer, or what is taken for one, is complete
LEMMA SucceedIsOver ==
    ASSUME TypeOK, Parts, NEW r \in Requests, conn[r].at = "reading",
           NEW heard, heard = None \/ Hears(r, heard),
           NEW wire \in Seq(Entries), NEW cut \in BOOLEAN, Remains(wire, Wire(r)),
           ~Sock(r).cut /\ ~cut => wire = <<>>,
           Succeed(r, heard, Kept(conn[r].sock, wire, cut))
    PROVE  IsOver(r)
<1> DEFINE x == Ended(r, heard)
           y == KeptSocket(conn[r].sock, wire, cut)
<1>0. heard \in Requests \cup {None}
  BY DEF Hears
<1>1. conn' = [conn EXCEPT ![r] = x] /\ x \in Conns /\ x.at = "done" /\ x.heard = heard
      /\ x.redirects = conn[r].redirects
  BY <1>0, EndedValue DEF Succeed
<1>2. conn[r].host \in Hosts /\ conn[r].at \in Active
  BY ActiveIs DEF Active
<1>3. /\ timers \subseteq timers' /\ unwoken \subseteq timers' \cup unwoken'
      /\ conn[r].host \in timers' \cup unwoken' /\ timers' \subseteq Hosts /\ unwoken' \subseteq Hosts
  BY <1>2 DEF Succeed, Wake, TypeOK
<1>4. /\ socks' = Kept(conn[r].sock, wire, cut) /\ queue' = queue
      /\ UNCHANGED <<session, closes, runs, hung>>
  BY DEF Succeed
<1> HIDE DEF x
<1>5. Leaves(r, x, y)
  BY <1>1, <1>3, <1>4, KeepLeaves
<1>6. y \in Sockets
  BY <1>5 DEF Leaves
<1> HIDE DEF y
<1>7. Over(r, x, y)
  BY <1>1, <1>4, <1>5 DEF Over
<1> QED BY <1>1, <1>6, <1>7 DEF IsOver

\* Which steps end a request that has a connection.
Ends(r) ==
    \/ ConnectFails(r) \/ WriteFails(r)
    \/ Read(r) \/ ReadTruncated(r) \/ ReadBroken(r) \/ ReadNothing(r)
    \/ (Cancel(r) /\ conn[r].at \in Active)

LEMMA EndsIsOver ==
    ASSUME TypeOK, Parts, NEW r \in Requests, Ends(r)
    PROVE  IsOver(r)
<1>fail. ASSUME conn[r].at \in Active, Fail(r) PROVE IsOver(r)
  BY <1>fail, FailIsOver DEF Fail
<1>read. ASSUME conn[r].at = "reading", NEW i \in DOMAIN Wire(r), NEW k \in DOMAIN Wire(r),
                Portion(r, i, k), NEW j \in i..k, NEW at \in {"rest", "read"}, NEW cut \in BOOLEAN,
                at = "read" \/ cut,
                Succeed(r, Wire(r)[j].of, Kept(conn[r].sock, Taken(r, i, k, at), cut))
         PROVE  IsOver(r)
  <2>1. /\ Taken(r, i, k, at) \in Seq(Entries) /\ Remains(Taken(r, i, k, at), Wire(r))
        /\ ~Sock(r).cut /\ at = "read" => Taken(r, i, k, at) = <<>>
        /\ Hears(r, Wire(r)[j].of)
    BY <1>read, TakenIs
  <2>2. PICK wire \in Seq(Entries) : wire = Taken(r, i, k, at)
    BY <2>1
  <2>3. PICK heard \in Requests : heard = Wire(r)[j].of
    BY <2>1 DEF Hears
  <2>4. /\ Hears(r, heard) /\ Remains(wire, Wire(r)) /\ (~Sock(r).cut /\ ~cut => wire = <<>>)
        /\ Succeed(r, heard, Kept(conn[r].sock, wire, cut))
    BY <1>read, <2>1, <2>2, <2>3
  <2> QED BY <1>read, <2>4, SucceedIsOver
<1>1. CASE ConnectFails(r)
  BY <1>1, <1>fail DEF ConnectFails, Active
<1>2. CASE WriteFails(r)
  BY <1>2, <1>fail DEF WriteFails, Active
<1>3. CASE Read(r)
  BY <1>3, <1>read DEF Read
<1>4. CASE ReadTruncated(r)
  BY <1>4, <1>read DEF ReadTruncated
<1>5. CASE ReadBroken(r)
  BY <1>5, <1>fail DEF ReadBroken, Active
<1>6. CASE ReadNothing(r)
  <2>1. conn[r].at = "reading"
    BY <1>6 DEF ReadNothing
  <2>2. CASE Fail(r)
    BY <2>1, <2>2, <1>fail DEF Active
  <2>3. CASE Succeed(r, None, Kept(conn[r].sock, <<>>, FALSE))
    <3>1. <<>> \in Seq(Entries) /\ Remains(<<>>, Wire(r))
      BY DEF Remains
    <3>2. PICK heard : heard = None
      OBVIOUS
    <3> QED BY <2>1, <2>3, <3>1, <3>2, SucceedIsOver
  <2> QED BY <1>6, <2>2, <2>3 DEF ReadNothing
<1>7. CASE Cancel(r) /\ conn[r].at \in Active
  <2>1. CASE conn[r].at = "connecting"
    <3>1. /\ conn' = Terminated(r, None) /\ socks' = Discarded(conn[r].sock)
          /\ unwoken' = unwoken \cup ({conn[r].host} \ timers)
          /\ UNCHANGED <<session, queue, timers, closes, runs, hung>>
      BY <1>7, <2>1 DEF Cancel
    <3> QED BY <1>7, <3>1, FailIsOver
  <2>2. CASE conn[r].at # "connecting"
    <3>1. Fail(r)
      BY <1>7, <2>2 DEF Cancel, Active
    <3> QED BY <1>7, <3>1, <1>fail
  <2> QED BY <2>1, <2>2
<1> QED BY <1>1, <1>2, <1>3, <1>4, <1>5, <1>6, <1>7 DEF Ends

\* Which steps put it into a queue again.
Returns(r) == WriteExpires(r) \/ ReadExpires(r) \/ Redirect(r)

LEMMA ReturnsIsAgain ==
    ASSUME TypeOK, Parts, NEW r \in Requests, Returns(r)
    PROVE  IsAgain(r)
<1>wakes. ASSUME conn[r].at \in Active, NEW h \in Hosts, Wake({conn[r].host, h})
          PROVE  /\ timers \subseteq timers' /\ unwoken \subseteq timers' \cup unwoken'
                 /\ conn[r].host \in timers' \cup unwoken' /\ h \in timers'
                 /\ timers' \subseteq Hosts /\ unwoken' \subseteq Hosts
  <2>1. conn[r].host \in Hosts
    BY <1>wakes, ActiveIs
  <2> QED BY <1>wakes, <2>1 DEF Wake, TypeOK
<1>retry. ASSUME conn[r].at \in Active, Retry(r), Sock(r).eof, Sock(r).reused
          PROVE  IsAgain(r)
  <2> DEFINE x == Waiting(r, conn[r].host, conn[r].redirects)
             y == DiscardedSocket(conn[r].sock)
  <2>1. conn[r].host \in Hosts /\ conn[r].redirects \in 0..MaxRedirects
    BY <1>retry, ActiveIs DEF Conns
  <2>2. conn' = [conn EXCEPT ![r] = x] /\ x \in Conns /\ x.at = "queued" /\ x.heard = conn[r].heard
        /\ x.redirects = conn[r].redirects /\ x.host = conn[r].host
    BY <1>retry, <2>1, WaitingValue DEF Retry
  <2>3. /\ socks' = Discarded(conn[r].sock) /\ queue' = [queue EXCEPT ![conn[r].host] = Append(@, r)]
        /\ Wake({conn[r].host, conn[r].host}) /\ UNCHANGED <<session, closes, runs, hung>>
    BY <1>retry DEF Retry, Reconnect
  <2>4. /\ timers \subseteq timers' /\ unwoken \subseteq timers' \cup unwoken'
        /\ conn[r].host \in timers' \cup unwoken' /\ conn[r].host \in timers'
        /\ timers' \subseteq Hosts /\ unwoken' \subseteq Hosts
    BY <1>retry, <2>1, <2>3, <1>wakes
  <2> HIDE DEF x
  <2>5. Leaves(r, x, y) /\ y.wire = Wire(r) /\ y.at = "closed"
    BY <1>retry, <2>2, <2>3, <2>4, DiscardLeaves
  <2>6. y \in Sockets
    BY <2>5 DEF Leaves
  <2> HIDE DEF y
  <2>7. Again(r, x, y)
    BY <1>retry, <2>2, <2>3, <2>4, <2>5 DEF Again
  <2> QED BY <2>2, <2>6, <2>7 DEF IsAgain
<1>1. CASE WriteExpires(r)
  BY <1>1, <1>retry DEF WriteExpires, Active
<1>2. CASE ReadExpires(r)
  BY <1>2, <1>retry DEF ReadExpires, Active
<1>3. CASE Redirect(r)
  <2> DEFINE s == conn[r].sock
  <2>1. conn[r].at = "reading" /\ conn[r].at \in Active /\ conn[r].redirects < MaxRedirects
    BY <1>3 DEF Redirect, Active
  <2>2. PICK i \in DOMAIN Wire(r), k \in DOMAIN Wire(r), h \in Hosts :
          /\ Portion(r, i, k)
          /\ Reconnect(r, h, conn[r].redirects + 1, Kept(s, Taken(r, i, k, "read"), FALSE))
    BY <1>3 DEF Redirect
  <2>3. conn[r].redirects + 1 \in 0..MaxRedirects /\ conn[r].redirects \in Nat
    BY <2>1, ActiveIs, HttpAssumption DEF Conns
  <2>4. /\ Taken(r, i, k, "read") \in Seq(Entries) /\ Remains(Taken(r, i, k, "read"), Wire(r))
        /\ ~Sock(r).cut => Taken(r, i, k, "read") = <<>>
    BY <2>1, <2>2, TakenIs
  <2>5. PICK wire \in Seq(Entries) : wire = Taken(r, i, k, "read")
    BY <2>4
  <2>6. Remains(wire, Wire(r)) /\ (~Sock(r).cut => wire = <<>>)
    BY <2>4, <2>5
  <2> DEFINE x == Waiting(r, h, conn[r].redirects + 1)
             y == KeptSocket(s, wire, FALSE)
  <2>7. conn' = [conn EXCEPT ![r] = x] /\ x \in Conns /\ x.at = "queued" /\ x.heard = conn[r].heard
        /\ x.redirects = conn[r].redirects + 1 /\ x.host = h
    <3>1. PICK sockets : sockets = Kept(s, wire, FALSE)
      OBVIOUS
    <3>2. Reconnect(r, h, conn[r].redirects + 1, sockets)
      BY <2>2, <2>5, <3>1
    <3> QED BY <2>3, <3>2, WaitingValue
  <2>8. /\ socks' = Kept(s, wire, FALSE) /\ queue' = [queue EXCEPT ![h] = Append(@, r)]
        /\ Wake({conn[r].host, h}) /\ UNCHANGED <<session, closes, runs, hung>>
    BY <2>2, <2>5 DEF Reconnect
  <2>9. /\ timers \subseteq timers' /\ unwoken \subseteq timers' \cup unwoken'
        /\ conn[r].host \in timers' \cup unwoken' /\ h \in timers'
        /\ timers' \subseteq Hosts /\ unwoken' \subseteq Hosts
    BY <2>1, <2>8, <1>wakes
  <2> HIDE DEF x
  <2>10. Leaves(r, x, y)
    BY <2>1, <2>6, <2>7, <2>8, <2>9, KeepLeaves
  <2>11. y \in Sockets
    BY <2>10 DEF Leaves
  <2> HIDE DEF y
  <2>12. Again(r, x, y)
    BY <2>1, <2>7, <2>8, <2>9, <2>10 DEF Again
  <2> QED BY <2>7, <2>11, <2>12 DEF IsAgain
<1> QED BY <1>1, <1>2, <1>3 DEF Returns

LEMMA LeavesType ==
    ASSUME TypeOK, NEW r \in Requests, NEW x, NEW y, Leaves(r, x, y),
           queue' \in [Hosts -> Seq(Requests)]
    PROVE  TypeOK'
<1>1. conn' \in [Requests -> Conns]
  BY SocketsAre DEF Leaves
<1>2. socks' \in Seq(Sockets)
  BY DEF Leaves
<1>3. /\ session' \in {"on", "off"} /\ timers' \in SUBSET Hosts /\ hung' \in BOOLEAN
      /\ closes' \in 0..MaxCloses /\ runs' \in [Requests -> Nat] /\ unwoken' \in SUBSET Hosts
  BY DEF Leaves, TypeOK
<1> QED BY <1>1, <1>2, <1>3 DEF TypeOK, Conns, Sockets, Entries

\* The others have other connections, which stay as they are.
LEMMA LeavesOthers ==
    ASSUME TypeOK, Parts, NEW r \in Requests, NEW x, NEW y, Leaves(r, x, y),
           NEW q \in Requests \ {r}
    PROVE  /\ conn'[q] = conn[q] /\ conn'[r] = x
           /\ conn[q].at \in Active => /\ conn[q].sock \in Socks /\ conn[q].sock # conn[r].sock
                                       /\ socks'[conn[q].sock] = socks[conn[q].sock]
<1>1. conn'[q] = conn[q] /\ conn'[r] = x
  BY SocketsAre DEF Leaves
<1>2. ASSUME conn[q].at \in Active
      PROVE  conn[q].sock \in Socks /\ conn[q].sock # conn[r].sock
  BY <1>2, ActiveIs DEF Parts, Distinct, Leaves
<1> QED BY <1>1, <1>2 DEF Leaves, Sets

LEMMA LeavesParts ==
    ASSUME TypeOK, Parts, NEW r \in Requests, NEW x \in Conns, NEW y \in Sockets, Leaves(r, x, y),
           x.at \notin Active, x.at # "new",
           x.at # "done" => x.heard = None,
           queue' \in [Hosts -> Seq(Requests)],
           x.at = "queued" => \E i \in DOMAIN queue'[x.host] : queue'[x.host][i] = r,
           \A q \in Requests \ {r} : conn[q].at = "queued" =>
               \E i \in DOMAIN queue'[conn[q].host] : queue'[conn[q].host][i] = q,
           \A h \in Hosts : HostInv(h)',
           \A h \in Hosts : queue'[h] = queue[h] \/ h \in timers'
    PROVE  Parts'
<1> DEFINE t == conn[r].sock
<1>1. conn' \in [Requests -> Conns] /\ conn'[r] = x /\ t \in Socks /\ Socks' = Socks
  BY SocketsAre, ActiveIs DEF Leaves, Sets
<1>2. ASSUME NEW q \in Requests PROVE RequestInv(q)'
  <2>1. CASE q = r
    BY <1>1, <2>1 DEF RequestInv
  <2>2. CASE q # r
    <3>1. /\ conn'[q] = conn[q]
          /\ conn[q].at \in Active => socks'[conn[q].sock] = socks[conn[q].sock]
      BY <2>2, LeavesOthers
    <3>2. RequestInv(q)
      BY DEF Parts
    <3> QED BY <1>1, <2>2, <3>1, <3>2 DEF RequestInv, LastIs, Sock, Wire, Active
  <2> QED BY <2>1, <2>2
<1>3. ASSUME NEW s \in Socks' PROVE SocketInv(s)'
  <2>1. s \in Socks /\ SocketInv(s) /\ socks[s] \in Sockets
    BY <1>1, SocketsAre DEF Parts
  <2>2. \A q \in Requests : conn[q].at # "new" => conn'[q].at # "new"
    <3>1. ASSUME NEW q \in Requests, conn[q].at # "new" PROVE conn'[q].at # "new"
      BY <1>1, <3>1, LeavesOthers
    <3> QED BY <3>1
  <2>3. runs' = runs
    BY DEF Leaves
  <2>4. CASE s = t
    <3>1. /\ socks'[s] = y /\ ~y.busy /\ Remains(y.wire, socks[s].wire)
          /\ y.at = "open" /\ ~y.cut => y.wire = <<>>
      BY <2>4, ActiveIs DEF Leaves, Sets
    <3>2. ASSUME NEW i \in DOMAIN y.wire PROVE Earnest(s, i)'
      <4>1. /\ i \in DOMAIN socks[s].wire /\ y.wire[i].of = socks[s].wire[i].of
            /\ y.wire[i].at # "asked" => socks[s].wire[i].at # "asked"
        BY <3>1, <3>2 DEF Remains
      <4>2. Earnest(s, i) /\ socks[s].wire[i].of \in Requests
        BY <2>1, <4>1, EntryIs, SocketsAre DEF SocketInv
      <4> QED BY <2>2, <2>3, <3>1, <4>1, <4>2 DEF Earnest
    <3> QED BY <3>1, <3>2 DEF SocketInv
  <2>5. CASE s # t
    <3>1. socks'[s] = socks[s]
      BY <2>1, <2>5 DEF Leaves, Sets
    <3>2. ASSUME socks[s].busy PROVE \E q \in Requests : conn'[q].at \in Active /\ conn'[q].sock = s
      <4>1. PICK q \in Requests : conn[q].at \in Active /\ conn[q].sock = s
        BY <2>1, <3>2 DEF SocketInv
      <4>2. q # r
        BY <2>5, <4>1
      <4> QED BY <4>1, <4>2, LeavesOthers
    <3>3. ASSUME NEW i \in DOMAIN socks[s].wire PROVE Earnest(s, i)'
      <4>1. Earnest(s, i) /\ socks[s].wire[i].of \in Requests
        BY <2>1, EntryIs, SocketsAre DEF SocketInv
      <4> QED BY <2>2, <2>3, <3>1, <4>1 DEF Earnest
    <3> QED BY <2>1, <3>1, <3>2, <3>3 DEF SocketInv
  <2> QED BY <2>4, <2>5
<1>4. Distinct'
  <2>1. ASSUME NEW p \in Requests, NEW q \in Requests,
               conn'[p].at \in Active, conn'[q].at \in Active, conn'[p].sock = conn'[q].sock
        PROVE  p = q
    <3>1. p # r /\ q # r
      BY <1>1, <2>1
    <3>2. conn'[p] = conn[p] /\ conn'[q] = conn[q]
      BY <3>1, LeavesOthers
    <3> QED BY <2>1, <3>2 DEF Parts, Distinct
  <2> QED BY <2>1 DEF Distinct
<1>5. QueueIsWatched'
  <2>1. ASSUME NEW h \in Hosts, queue'[h] # <<>>
        PROVE  h \in timers' \/ Busy(h)' # {} \/ h \in unwoken'
    <3>1. CASE h \in timers'
      BY <3>1
    <3>2. CASE h \notin timers'
      <4>1. queue[h] # <<>>
        BY <2>1, <3>2
      <4>2. h \in timers \/ Busy(h) # {} \/ h \in unwoken
        BY <4>1 DEF Parts, QueueIsWatched
      <4>3. CASE h \in timers \/ h \in unwoken
        BY <4>3 DEF Leaves
      <4>4. CASE Busy(h) # {}
        <5>1. PICK s \in Socks : socks[s].host = h /\ socks[s].busy
          BY <4>4 DEF Busy
        <5>2. CASE s = t
          <6>1. conn[r].host = h
            BY <5>1, <5>2 DEF Parts, RequestInv, Leaves, Sock
          <6> QED BY <6>1 DEF Leaves
        <5>3. CASE s # t
          <6>1. socks'[s] = socks[s]
            BY <5>1, <5>3 DEF Leaves, Sets
          <6>2. s \in Busy(h)'
            BY <1>1, <5>1, <6>1 DEF Busy
          <6> QED BY <6>2
        <5> QED BY <5>2, <5>3
      <4> QED BY <4>2, <4>3, <4>4
    <3> QED BY <3>1, <3>2
  <2> QED BY <2>1 DEF QueueIsWatched
<1> QED BY <1>2, <1>3, <1>4, <1>5 DEF Parts

LEMMA QueuesAre ==
    ASSUME TypeOK, NEW h \in Hosts
    PROVE  /\ queue[h] \in Seq(Requests) /\ DOMAIN queue[h] = 1..Len(queue[h])
           /\ Len(queue[h]) \in Nat /\ \A i \in DOMAIN queue[h] : queue[h][i] \in Requests
<1>1. queue[h] \in Seq(Requests)
  BY DEF TypeOK
<1> QED BY <1>1

LEMMA OverParts ==
    ASSUME TypeOK, Parts, NEW r \in Requests, IsOver(r)
    PROVE  TypeOK' /\ Parts'
<1>1. PICK x \in Conns, y \in Sockets : Over(r, x, y)
  BY DEF IsOver
<1>2. Leaves(r, x, y) /\ x.at = "done" /\ queue' = queue
  BY <1>1 DEF Over
<1>3. queue' \in [Hosts -> Seq(Requests)] /\ x.at \notin Active
  BY <1>2 DEF TypeOK, Active
<1>4. \A q \in Requests \ {r} : conn[q].at = "queued" =>
        \E i \in DOMAIN queue'[conn[q].host] : queue'[conn[q].host][i] = q
  BY <1>2 DEF Parts, RequestInv
<1>5. ASSUME NEW h \in Hosts PROVE HostInv(h)'
  <2>1. HostInv(h) /\ queue'[h] = queue[h]
    BY <1>2 DEF Parts
  <2>2. \A i \in DOMAIN queue[h] : queue[h][i] \in Requests \ {r}
    BY <2>1, <1>2, QueuesAre DEF HostInv, Leaves, Active
  <2>3. \A i \in DOMAIN queue[h] : conn'[queue[h][i]] = conn[queue[h][i]]
    BY <2>2, <1>2, LeavesOthers
  <2> QED BY <2>1, <2>3 DEF HostInv
<1>6. TypeOK'
  BY <1>2, <1>3, LeavesType
<1>7. Parts'
  BY <1>2, <1>3, <1>4, <1>5, LeavesParts
<1> QED BY <1>6, <1>7

\* A queue to whose end something is put
LEMMA Appended ==
    ASSUME NEW w \in Seq(Requests), NEW r \in Requests, NEW v, v = Append(w, r)
    PROVE  /\ v \in Seq(Requests) /\ DOMAIN v = 1..(Len(w) + 1) /\ DOMAIN w = 1..Len(w)
           /\ Len(w) \in Nat /\ Len(w) + 1 \in DOMAIN v /\ v[Len(w) + 1] = r
           /\ \A i \in DOMAIN w : i \in DOMAIN v /\ v[i] = w[i]
           /\ \A i \in DOMAIN v : i = Len(w) + 1 \/ i \in DOMAIN w
           /\ v # <<>>
<1>1. v \in Seq(Requests) /\ Len(v) = Len(w) + 1 /\ Len(w) \in Nat /\ v[Len(w) + 1] = r
      /\ \A i \in 1..Len(w) : v[i] = w[i]
  BY AppendProperties
<1>2. DOMAIN v = 1..(Len(w) + 1) /\ DOMAIN w = 1..Len(w)
  BY <1>1, LenProperties
<1>3. v # <<>>
  BY <1>1, EmptySeq
<1> QED BY <1>1, <1>2, <1>3

\* A request that is put into a queue, in which it was not.
LEMMA QueuedHost ==
    ASSUME TypeOK, NEW r \in Requests, conn[r].at # "queued",
           NEW g \in Hosts, queue' = [queue EXCEPT ![g] = Append(@, r)],
           conn'[r].at = "queued", conn'[r].host = g,
           \A q \in Requests \ {r} : conn'[q] = conn[q],
           \A h \in Hosts : HostInv(h),
           \A q \in Requests : RequestInv(q)
    PROVE  /\ queue' \in [Hosts -> Seq(Requests)] /\ \A h \in Hosts : HostInv(h)'
           /\ \E i \in DOMAIN queue'[g] : queue'[g][i] = r
           /\ \A q \in Requests \ {r} : conn[q].at = "queued" =>
                \E i \in DOMAIN queue'[conn[q].host] : queue'[conn[q].host][i] = q
           /\ \A h \in Hosts \ {g} : queue'[h] = queue[h]
           /\ queue'[g] # <<>>
<1> DEFINE w == queue[g]
           v == queue'[g]
<1>1. queue \in [Hosts -> Seq(Requests)]
  BY DEF TypeOK
<1>2. v = Append(w, r) /\ w \in Seq(Requests) /\ \A h \in Hosts \ {g} : queue'[h] = queue[h]
  BY <1>1
<1>3. /\ v \in Seq(Requests) /\ DOMAIN v = 1..(Len(w) + 1) /\ DOMAIN w = 1..Len(w)
      /\ Len(w) \in Nat /\ Len(w) + 1 \in DOMAIN v /\ v[Len(w) + 1] = r
      /\ \A i \in DOMAIN w : i \in DOMAIN v /\ v[i] = w[i]
      /\ \A i \in DOMAIN v : i = Len(w) + 1 \/ i \in DOMAIN w
      /\ v # <<>>
  <2> HIDE DEF w, v
  <2> QED BY <1>2, Appended
<1>4. queue' \in [Hosts -> Seq(Requests)]
  BY <1>1, <1>2, <1>3
<1>5. \A h \in Hosts : \A i \in DOMAIN queue[h] : queue[h][i] \in Requests \ {r}
  BY QueuesAre DEF HostInv
<1>6. ASSUME NEW h \in Hosts PROVE HostInv(h)'
  <2>1. HostInv(h) /\ \A i \in DOMAIN queue[h] : conn'[queue[h][i]] = conn[queue[h][i]]
    BY <1>5
  <2>2. CASE h # g
    BY <1>2, <2>1, <2>2 DEF HostInv
  <2>3. CASE h = g
    <3>1. \A i \in DOMAIN v : conn'[v[i]].at = "queued" /\ conn'[v[i]].host = g
      <4>1. ASSUME NEW i \in DOMAIN v PROVE conn'[v[i]].at = "queued" /\ conn'[v[i]].host = g
        <5>1. CASE i = Len(w) + 1
          BY <5>1, <1>3
        <5>2. CASE i \in DOMAIN w
          BY <5>2, <1>3, <2>1, <2>3 DEF HostInv
        <5> QED BY <5>1, <5>2, <4>1, <1>3
      <4> QED BY <4>1
    <3>2. ASSUME NEW i \in DOMAIN v, NEW j \in DOMAIN v, v[i] = v[j] PROVE i = j
      <4>1. CASE i \in DOMAIN w /\ j \in DOMAIN w
        BY <4>1, <3>2, <1>3, <2>1, <2>3 DEF HostInv
      <4>2. CASE i = Len(w) + 1 /\ j = Len(w) + 1
        BY <4>2
      <4>3. CASE i = Len(w) + 1 /\ j \in DOMAIN w
        BY <4>3, <3>2, <1>3, <1>5
      <4>4. CASE i \in DOMAIN w /\ j = Len(w) + 1
        BY <4>4, <3>2, <1>3, <1>5
      <4> QED BY <4>1, <4>2, <4>3, <4>4, <3>2, <1>3
    <3> QED BY <2>3, <3>1, <3>2 DEF HostInv
  <2> QED BY <2>2, <2>3
<1>7. ASSUME NEW q \in Requests \ {r}, conn[q].at = "queued"
      PROVE  \E i \in DOMAIN queue'[conn[q].host] : queue'[conn[q].host][i] = q
  <2>1. PICK i \in DOMAIN queue[conn[q].host] : queue[conn[q].host][i] = q
    BY <1>7 DEF RequestInv
  <2>2. conn[q].host \in Hosts
    BY SocketsAre DEF Conns
  <2>3. CASE conn[q].host = g
    BY <2>1, <2>3, <1>3
  <2>4. CASE conn[q].host # g
    BY <2>1, <2>2, <2>4, <1>2
  <2> QED BY <2>3, <2>4
<1> QED BY <1>2, <1>3, <1>4, <1>6, <1>7

LEMMA AgainParts ==
    ASSUME TypeOK, Parts, NEW r \in Requests, IsAgain(r)
    PROVE  TypeOK' /\ Parts'
<1>1. PICK x \in Conns, y \in Sockets : Again(r, x, y)
  BY DEF IsAgain
<1>2. /\ Leaves(r, x, y) /\ x.at = "queued" /\ x.heard = None /\ x.at \notin Active
      /\ x.host \in timers' /\ queue' = [queue EXCEPT ![x.host] = Append(@, r)]
  BY <1>1 DEF Again, Leaves, Parts, RequestInv, Active
<1>3. x.host \in Hosts /\ conn'[r] = x /\ \A q \in Requests \ {r} : conn'[q] = conn[q]
  BY <1>2, SocketsAre DEF Conns, Leaves
<1>4. conn[r].at # "queued"
  BY <1>2 DEF Leaves, Active
<1>5. /\ queue' \in [Hosts -> Seq(Requests)] /\ \A h \in Hosts : HostInv(h)'
      /\ \E i \in DOMAIN queue'[x.host] : queue'[x.host][i] = r
      /\ \A q \in Requests \ {r} : conn[q].at = "queued" =>
           \E i \in DOMAIN queue'[conn[q].host] : queue'[conn[q].host][i] = q
      /\ \A h \in Hosts \ {x.host} : queue'[h] = queue[h]
  BY <1>2, <1>3, <1>4, QueuedHost DEF Parts
<1>6. TypeOK'
  BY <1>2, <1>5, LeavesType
<1>7. Parts'
  BY <1>2, <1>5, LeavesParts
<1> QED BY <1>6, <1>7

(***************************************************************************)
(* The steps that leave every request where it is.                         *)
(***************************************************************************)
Stays ==
    /\ UNCHANGED pool /\ Socks' = Socks
    /\ \A s \in Socks : socks'[s].busy = socks[s].busy /\ socks'[s].host = socks[s].host
    /\ \A q \in Requests :
         /\ conn'[q].host = conn[q].host /\ conn'[q].sock = conn[q].sock
         /\ conn'[q].heard = conn[q].heard
         /\ conn'[q].at \in Active <=> conn[q].at \in Active
         /\ conn[q].at \notin Active => conn'[q].at = conn[q].at

LEMMA StaysParts ==
    ASSUME TypeOK, Parts, Stays,
           \A q \in Requests : conn[q].at \in Active => RequestInv(q)',
           \A s \in Socks : socks'[s].at = "open" /\ ~socks'[s].busy /\ ~socks'[s].cut
                             => socks'[s].wire = <<>>,
           \A s \in Socks : \A i \in DOMAIN socks'[s].wire : Earnest(s, i)'
    PROVE  Parts'
<1>1. ASSUME NEW q \in Requests PROVE RequestInv(q)'
  <2>1. CASE conn[q].at \in Active
    BY <2>1
  <2>2. CASE conn[q].at \notin Active
    <3>1. RequestInv(q) /\ conn'[q].at \notin Active /\ conn'[q].at = conn[q].at /\ queue' = queue
          /\ conn'[q].host = conn[q].host /\ conn'[q].heard = conn[q].heard
      BY <2>2 DEF Parts, Stays, pool
    <3> QED BY <3>1 DEF RequestInv
  <2> QED BY <2>1, <2>2
<1>2. ASSUME NEW s \in Socks' PROVE SocketInv(s)'
  <2>1. s \in Socks /\ socks'[s].busy = socks[s].busy
    BY DEF Stays
  <2>2. ASSUME socks'[s].busy PROVE \E q \in Requests : conn'[q].at \in Active /\ conn'[q].sock = s
    <3>1. PICK q \in Requests : conn[q].at \in Active /\ conn[q].sock = s
      BY <2>1, <2>2 DEF Parts, SocketInv
    <3> QED BY <3>1 DEF Stays
  <2> QED BY <2>1, <2>2 DEF SocketInv
<1>3. ASSUME NEW h \in Hosts PROVE HostInv(h)'
  <2>1. HostInv(h) /\ queue' = queue /\ \A i \in DOMAIN queue[h] : queue[h][i] \in Requests
    BY QueuesAre DEF Parts, Stays, pool
  <2>2. \A q \in Requests : conn[q].at = "queued" => conn'[q].at = "queued" /\ conn'[q].host = conn[q].host
    BY DEF Stays, Active
  <2> QED BY <2>1, <2>2 DEF HostInv
<1>4. Distinct'
  BY DEF Parts, Distinct, Stays
<1>5. QueueIsWatched'
  <2>1. \A h \in Hosts : Busy(h)' = Busy(h)
    BY DEF Stays, Busy
  <2> QED BY <2>1 DEF Parts, QueueIsWatched, Stays, pool
<1> QED BY <1>1, <1>2, <1>3, <1>4, <1>5 DEF Parts

\* A request that goes on on its connection
Moves(r, at, y) ==
    /\ conn[r].at \in Active /\ at \in Active
    /\ conn' = [conn EXCEPT ![r].at = at]
    /\ Sets(conn[r].sock, y) /\ y \in Sockets /\ socks' \in Seq(Sockets)
    /\ y.busy /\ y.host = Sock(r).host /\ y.at = "open"
    /\ y.eof = Sock(r).eof /\ y.reused = Sock(r).reused
    /\ y.cut = Sock(r).cut
    /\ \/ conn[r].at = "connecting" /\ at = "writing" /\ y.wire = Wire(r)
       \/ conn[r].at = "writing" /\ at = "reading"
          /\ y.wire = Append(Wire(r), [of |-> r, at |-> "asked"])
    /\ UNCHANGED <<session, pool, closes, runs, hung>>

\* What was w, with r at its end
Added(v, w, r) ==
    /\ Len(v) = Len(w) + 1 /\ Len(v) \in DOMAIN v
    /\ v[Len(v)].of = r /\ v[Len(v)].at = "asked"
    /\ \A i \in DOMAIN v : /\ i \in DOMAIN w => v[i] = w[i]
                           /\ i \notin DOMAIN w => i = Len(v)
    /\ Len(v) \notin DOMAIN w

LEMMA AppendIs ==
    ASSUME NEW w \in Seq(Entries), NEW r \in Requests, NEW v,
           v = Append(w, [of |-> r, at |-> "asked"])
    PROVE  v \in Seq(Entries) /\ Added(v, w, r)
<1> DEFINE e == [of |-> r, at |-> "asked"]
<1>1. e \in Entries /\ e.of = r /\ e.at = "asked"
  BY DEF Entries
<1> HIDE DEF e
<1>2. v = Append(w, e)
  BY DEF e
<1>3. /\ v \in Seq(Entries) /\ Len(v) = Len(w) + 1 /\ Len(w) \in Nat /\ v[Len(w) + 1] = e
      /\ \A i \in 1..Len(w) : v[i] = w[i]
  BY <1>1, <1>2, AppendProperties
<1>4. DOMAIN v = 1..(Len(w) + 1) /\ DOMAIN w = 1..Len(w)
  BY <1>3, LenProperties
<1> QED BY <1>1, <1>3, <1>4 DEF Added

LEMMA MovesParts ==
    ASSUME TypeOK, Parts, NEW r \in Requests, NEW at \in {"writing", "reading"}, NEW y, Moves(r, at, y)
    PROVE  TypeOK' /\ Parts'
<1> DEFINE t == conn[r].sock
<1>1. /\ conn' \in [Requests -> Conns] /\ conn'[r] = [conn[r] EXCEPT !.at = at]
      /\ \A q \in Requests \ {r} : conn'[q] = conn[q]
      /\ conn[r] \in Conns
  BY SocketsAre DEF Moves, Conns
<1>2. /\ conn'[r].at = at /\ conn'[r].host = conn[r].host /\ conn'[r].sock = t
      /\ conn'[r].heard = conn[r].heard
  BY <1>1 DEF Conns
<1>3. t \in Socks /\ Sock(r).busy /\ Socks' = Socks /\ socks'[t] = y
      /\ \A s \in Socks \ {t} : socks'[s] = socks[s]
  BY ActiveIs DEF Moves, Sets, Parts, RequestInv
<1>4. TypeOK'
  <2>1. socks' \in Seq(Sockets)
    BY DEF Moves
  <2>2. /\ session' \in {"on", "off"} /\ timers' \in SUBSET Hosts /\ hung' \in BOOLEAN
        /\ closes' \in 0..MaxCloses /\ runs' \in [Requests -> Nat] /\ unwoken' \in SUBSET Hosts
        /\ queue' \in [Hosts -> Seq(Requests)]
    BY DEF Moves, pool, TypeOK
  <2> QED BY <1>1, <2>1, <2>2 DEF TypeOK, Conns, Sockets, Entries
<1>w. /\ y.wire \in Seq(Entries) /\ Wire(r) \in Seq(Entries) /\ Wire(r) = socks[t].wire
      /\ at = "writing" => conn[r].at = "connecting" /\ y.wire = Wire(r)
      /\ at = "reading" => conn[r].at = "writing" /\ Added(y.wire, Wire(r), r)
  <2>1. y.wire \in Seq(Entries) /\ Wire(r) \in Seq(Entries) /\ Wire(r) = socks[t].wire
    BY ActiveIs DEF Moves, Sockets
  <2>2. y.wire = Append(Wire(r), [of |-> r, at |-> "asked"]) => Added(y.wire, Wire(r), r)
    BY <2>1, AppendIs
  <2> QED BY <2>1, <2>2 DEF Moves
<1>5. Stays
  <2>1. y \in Sockets /\ Sock(r) \in Sockets /\ Sock(r) = socks[t]
    BY ActiveIs DEF Moves, Sock
  <2>2. y.busy = socks[t].busy /\ y.host = socks[t].host
    BY <1>3, <2>1 DEF Moves, Sockets
  <2>3. \A s \in Socks : socks'[s].busy = socks[s].busy /\ socks'[s].host = socks[s].host
    BY <1>3, <2>2
  <2>4. conn[r].at \in Active /\ at \in Active
    BY DEF Moves
  <2>5. UNCHANGED pool
    BY DEF Moves
  <2> QED BY <1>1, <1>2, <1>3, <2>3, <2>4, <2>5 DEF Stays
<1>6. \A q \in Requests \ {r} : conn[q].at \in Active => conn[q].sock # t /\ conn[q].sock \in Socks
  BY ActiveIs DEF Parts, Distinct, Moves
<1>7. ASSUME NEW q \in Requests, conn[q].at \in Active PROVE RequestInv(q)'
  <2>1. RequestInv(q)
    BY DEF Parts
  <2>2. CASE q # r
    <3>1. conn'[q] = conn[q] /\ socks'[conn[q].sock] = socks[conn[q].sock]
      BY <1>1, <1>3, <1>6, <1>7, <2>2
    <3> QED BY <1>3, <1>7, <2>1, <3>1 DEF RequestInv, LastIs, Sock, Wire, Active
  <2>3. CASE q = r
    <3>1. /\ y.busy /\ y.host = conn[r].host /\ y.at = "open" /\ y.cut = Sock(r).cut
      BY <2>1, <2>3, <1>7 DEF Moves, RequestInv
    <3>2. conn[r].heard = None
      BY <2>1, <2>3, <1>7 DEF RequestInv, Active
    <3>3. ~y.cut => Wire(r) = <<>>
      BY <2>1, <2>3, <1>7, <1>w, <3>1 DEF RequestInv
    <3>4. CASE at = "writing"
      BY <1>2, <1>3, <1>w, <2>3, <3>1, <3>2, <3>3, <3>4 DEF RequestInv, Sock, Wire, Active
    <3>5. CASE at = "reading"
      <4>1. Added(y.wire, Wire(r), r)
        BY <1>w, <3>5
      <4>2. LastIs(t, r)'
        BY <1>2, <1>3, <4>1 DEF LastIs, Added
      <4>3. ~y.cut => Len(y.wire) = 1
        <5>1. Len(<<>>) = 0
          OBVIOUS
        <5> QED BY <3>3, <4>1, <5>1 DEF Added
      <4> QED BY <1>2, <1>3, <2>3, <3>1, <3>2, <3>5, <4>2, <4>3 DEF RequestInv, Sock, Wire, Active
    <3> QED BY <3>4, <3>5
  <2> QED BY <2>2, <2>3
<1>8. \A s \in Socks : SocketInv(s)
  BY DEF Parts
<1>9. \A s \in Socks : socks'[s].at = "open" /\ ~socks'[s].busy /\ ~socks'[s].cut => socks'[s].wire = <<>>
  BY <1>3, <1>8 DEF SocketInv, Moves
<1>12. \A q \in Requests : conn[q].at # "new" => conn'[q].at # "new"
  BY <1>1, <1>2
<1>13. ASSUME NEW s \in Socks, NEW i \in DOMAIN socks'[s].wire
       PROVE  Earnest(s, i)'
  <2>0. runs' = runs
    BY DEF Moves
  <2>1. CASE i \in DOMAIN socks[s].wire /\ socks'[s].wire[i] = socks[s].wire[i]
    <3>1. Earnest(s, i) /\ socks[s].wire[i].of \in Requests
      BY <1>8, <2>1, EntryIs, SocketsAre DEF SocketInv
    <3> QED BY <1>12, <2>0, <2>1, <3>1 DEF Earnest
  <2>2. CASE s # t
    BY <1>3, <1>13, <2>1, <2>2
  <2>3. CASE s = t
    <3>1. CASE at = "writing"
      BY <1>3, <1>13, <1>w, <2>1, <2>3, <3>1
    <3>2. CASE at = "reading"
      <4>1. Added(y.wire, Wire(r), r) /\ i \in DOMAIN y.wire
        BY <1>3, <1>13, <1>w, <2>3, <3>2
      <4>2. CASE i \in DOMAIN Wire(r)
        BY <1>3, <1>w, <2>1, <2>3, <4>1, <4>2 DEF Added
      <4>3. CASE i \notin DOMAIN Wire(r)
        <5>1. y.wire[i].of = r /\ y.wire[i].at = "asked"
          BY <4>1, <4>3 DEF Added
        <5>2. conn'[r].at # "new"
          BY <1>2
        <5> QED BY <1>3, <2>3, <5>1, <5>2 DEF Earnest
      <4> QED BY <4>2, <4>3
    <3> QED BY <3>1, <3>2
  <2> QED BY <2>2, <2>3
<1>14. Parts'
  BY <1>5, <1>7, <1>9, <1>13, StaysParts
<1> QED BY <1>4, <1>14

LEMMA ConnectedMoves ==
    ASSUME TypeOK, Parts, NEW r \in Requests, Connected(r)
    PROVE  \E y \in Sockets : Moves(r, "writing", y)
<1> DEFINE t == conn[r].sock
           y == [socks[t] EXCEPT !.at = "open"]
<1>1. /\ conn[r].at = "connecting" /\ conn[r].at \in Active /\ conn' = [conn EXCEPT ![r].at = "writing"]
      /\ UNCHANGED <<session, pool, closes, runs, hung>>
  BY DEF Connected, Active
<1>2. t \in Socks /\ socks[t] \in Sockets /\ socks[t] = Sock(r) /\ Wire(r) = socks[t].wire /\ Sock(r).busy
  BY <1>1, ActiveIs DEF RequestInv
<1>3. /\ y \in Sockets /\ y.at = "open" /\ y.busy /\ y.host = Sock(r).host /\ y.eof = Sock(r).eof
      /\ y.reused = Sock(r).reused /\ y.wire = Wire(r) /\ y.cut = Sock(r).cut
  BY <1>2 DEF Sockets
<1>4. socks' = [socks EXCEPT ![t] = y]
  BY <1>2, SocketsAre DEF Connected, Socks
<1> HIDE DEF y
<1>5. Sets(t, y) /\ socks' \in Seq(Sockets)
  BY <1>2, <1>3, <1>4, SocketSet
<1>6. Moves(r, "writing", y)
  BY <1>1, <1>3, <1>5 DEF Moves, Active
<1> QED BY <1>3, <1>6

LEMMA WriteMoves ==
    ASSUME TypeOK, Parts, NEW r \in Requests, Write(r)
    PROVE  \E y \in Sockets : Moves(r, "reading", y)
<1> DEFINE t == conn[r].sock
<1>1. /\ conn[r].at = "writing" /\ conn[r].at \in Active /\ conn' = [conn EXCEPT ![r].at = "reading"]
      /\ UNCHANGED <<session, pool, closes, runs, hung>>
      /\ socks' = [socks EXCEPT ![t].wire = Append(@, [of |-> r, at |-> "asked"])]
  BY DEF Write, Active
<1>2. t \in Socks /\ socks[t] \in Sockets /\ socks[t] = Sock(r) /\ Wire(r) = socks[t].wire
      /\ Wire(r) \in Seq(Entries) /\ Sock(r).busy /\ Sock(r).at = "open"
  BY <1>1, ActiveIs DEF RequestInv
<1>3. PICK wire : wire = Append(Wire(r), [of |-> r, at |-> "asked"])
  OBVIOUS
<1>4. wire \in Seq(Entries)
  BY <1>2, <1>3, AppendIs
<1> DEFINE y == [socks[t] EXCEPT !.wire = wire]
<1>5. socks' = [socks EXCEPT ![t] = y]
  BY <1>1, <1>2, <1>3, SocketsAre DEF Socks
<1>6. /\ y \in Sockets /\ y.at = "open" /\ y.busy /\ y.host = Sock(r).host /\ y.eof = Sock(r).eof
      /\ y.reused = Sock(r).reused /\ y.wire = wire /\ y.cut = Sock(r).cut
  BY <1>2, <1>4 DEF Sockets
<1> HIDE DEF y
<1>7. Sets(t, y) /\ socks' \in Seq(Sockets)
  BY <1>2, <1>5, <1>6, SocketSet
<1>8. Moves(r, "reading", y)
  BY <1>1, <1>3, <1>6, <1>7 DEF Moves, Active
<1> QED BY <1>6, <1>8

(***************************************************************************)
(* The steps of the servers.                                               *)
(***************************************************************************)
\* The server of s changes what is at i on its wire, or closes it.
Serves(s, y) ==
    /\ s \in Socks /\ ~socks[s].eof
    /\ Sets(s, y) /\ y \in Sockets /\ socks' \in Seq(Sockets)
    /\ y.busy = socks[s].busy /\ y.host = socks[s].host /\ y.at = socks[s].at
    /\ y.reused = socks[s].reused /\ y.cut = socks[s].cut
    /\ UNCHANGED <<session, conn, pool, hung>>

\* v is w, but at i its at is such.
Marked(v, w, i, at) ==
    /\ v \in Seq(Entries) /\ Len(v) = Len(w) /\ DOMAIN v = DOMAIN w
    /\ \A j \in DOMAIN w \ {i} : v[j] = w[j]
    /\ i \in DOMAIN w /\ v[i].of = w[i].of /\ v[i].at = at

Runs(s, y, i) ==
    /\ Serves(s, y) /\ Marked(y.wire, socks[s].wire, i, "ran") /\ y.eof = socks[s].eof
    /\ socks[s].wire[i].at = "asked"
    /\ runs' = [runs EXCEPT ![socks[s].wire[i].of] = @ + 1] /\ closes' = closes

Answers(s, y, i) ==
    /\ Serves(s, y) /\ Marked(y.wire, socks[s].wire, i, "answered") /\ y.eof = socks[s].eof
    /\ socks[s].wire[i].at = "ran"
    /\ UNCHANGED <<runs, closes>>

Closes(s, y) ==
    /\ Serves(s, y) /\ y.wire = socks[s].wire /\ y.eof
    /\ socks[s].at = "open" /\ closes < MaxCloses /\ closes' = closes + 1 /\ runs' = runs

Does(s, y, i) == Runs(s, y, i) \/ Answers(s, y, i) \/ Closes(s, y)

\* An entry of the wire of s is changed.
LEMMA EntrySet ==
    ASSUME TypeOK, NEW s \in Socks, NEW i \in DOMAIN socks[s].wire,
           NEW at \in {"ran", "answered"}, socks' = [socks EXCEPT ![s].wire[i].at = at]
    PROVE  \E y \in Sockets :
             /\ Sets(s, y) /\ socks' \in Seq(Sockets)
             /\ y.busy = socks[s].busy /\ y.host = socks[s].host /\ y.at = socks[s].at
             /\ y.reused = socks[s].reused /\ y.eof = socks[s].eof /\ y.cut = socks[s].cut
             /\ Marked(y.wire, socks[s].wire, i, at)
<1>1. PICK w \in Seq(Entries) : w = socks[s].wire
  BY SocketsAre
<1>2. i \in DOMAIN w /\ socks[s] \in Sockets
  BY <1>1, SocketsAre
<1>3. w[i] \in Entries /\ DOMAIN w = 1..Len(w) /\ Len(w) \in Nat
  BY <1>2, EntryIs
<1> DEFINE e == [w[i] EXCEPT !.at = at]
           v == [w EXCEPT ![i] = e]
           y == [socks[s] EXCEPT !.wire = v]
<1>4. e \in Entries /\ e.of = w[i].of /\ e.at = at
  BY <1>3 DEF Entries
<1> HIDE DEF e
<1>5. v \in Seq(Entries) /\ DOMAIN v = DOMAIN w /\ v[i] = e /\ \A j \in DOMAIN w \ {i} : v[j] = w[j]
  BY <1>2, <1>4
<1>6. Marked(v, w, i, at)
  BY <1>2, <1>4, <1>5 DEF Marked
<1>7. socks' = [socks EXCEPT ![s] = y]
  BY <1>1 DEF e
<1> HIDE DEF v
<1>8. /\ y \in Sockets /\ y.busy = socks[s].busy /\ y.host = socks[s].host /\ y.at = socks[s].at
      /\ y.reused = socks[s].reused /\ y.eof = socks[s].eof /\ y.cut = socks[s].cut /\ y.wire = v
  BY <1>2, <1>5 DEF Sockets
<1> HIDE DEF y
<1>9. Sets(s, y) /\ socks' \in Seq(Sockets)
  BY <1>7, <1>8, SocketSet
<1> QED BY <1>1, <1>6, <1>8, <1>9

LEMMA ServerDoes ==
    ASSUME TypeOK, NEW s \in Socks, ServerRuns(s) \/ ServerAnswers(s) \/ ServerCloses(s)
    PROVE  \E y \in Sockets, i \in Nat : Does(s, y, i)
<1>0. ASSUME NEW i \in DOMAIN socks[s].wire PROVE i \in Nat
  BY <1>0, EntryIs, SocketsAre
<1>1. CASE ServerRuns(s)
  <2>1. PICK i \in DOMAIN socks[s].wire :
          /\ socks[s].wire[i].at = "asked"
          /\ socks' = [socks EXCEPT ![s].wire[i].at = "ran"]
          /\ runs' = [runs EXCEPT ![socks[s].wire[i].of] = @ + 1]
    BY <1>1 DEF ServerRuns
  <2>2. PICK y \in Sockets :
          /\ Sets(s, y) /\ socks' \in Seq(Sockets)
          /\ y.busy = socks[s].busy /\ y.host = socks[s].host /\ y.at = socks[s].at
          /\ y.reused = socks[s].reused /\ y.eof = socks[s].eof /\ y.cut = socks[s].cut
          /\ Marked(y.wire, socks[s].wire, i, "ran")
    BY <2>1, EntrySet
  <2>3. ~socks[s].eof /\ UNCHANGED <<session, conn, pool, closes, hung>>
    BY <1>1 DEF ServerRuns
  <2>4. Serves(s, y)
    BY <2>2, <2>3 DEF Serves
  <2>5. Runs(s, y, i)
    BY <2>1, <2>2, <2>3, <2>4 DEF Runs
  <2> QED BY <1>0, <2>5 DEF Does
<1>2. CASE ServerAnswers(s)
  <2>1. PICK i \in DOMAIN socks[s].wire :
          /\ socks[s].wire[i].at = "ran"
          /\ socks' = [socks EXCEPT ![s].wire[i].at = "answered"]
    BY <1>2 DEF ServerAnswers
  <2>2. PICK y \in Sockets :
          /\ Sets(s, y) /\ socks' \in Seq(Sockets)
          /\ y.busy = socks[s].busy /\ y.host = socks[s].host /\ y.at = socks[s].at
          /\ y.reused = socks[s].reused /\ y.eof = socks[s].eof /\ y.cut = socks[s].cut
          /\ Marked(y.wire, socks[s].wire, i, "answered")
    BY <2>1, EntrySet
  <2>3. ~socks[s].eof /\ UNCHANGED <<session, conn, pool, closes, runs, hung>>
    BY <1>2 DEF ServerAnswers
  <2>4. Serves(s, y)
    BY <2>2, <2>3 DEF Serves
  <2>5. Answers(s, y, i)
    BY <2>1, <2>2, <2>3, <2>4 DEF Answers
  <2> QED BY <1>0, <2>5 DEF Does
<1>3. CASE ServerCloses(s)
  <2> DEFINE y == [socks[s] EXCEPT !.eof = TRUE]
  <2>1. socks[s] \in Sockets
    BY SocketsAre
  <2>2. socks' = [socks EXCEPT ![s] = y]
    BY <1>3 DEF ServerCloses
  <2>3. /\ y \in Sockets /\ y.busy = socks[s].busy /\ y.host = socks[s].host /\ y.at = socks[s].at
        /\ y.reused = socks[s].reused /\ y.eof /\ y.wire = socks[s].wire /\ y.cut = socks[s].cut
    BY <2>1 DEF Sockets
  <2> HIDE DEF y
  <2>4. Sets(s, y) /\ socks' \in Seq(Sockets)
    BY <2>2, <2>3, SocketSet
  <2>5. /\ ~socks[s].eof /\ socks[s].at = "open" /\ closes < MaxCloses /\ closes' = closes + 1
        /\ UNCHANGED <<session, conn, pool, runs, hung>>
    BY <1>3 DEF ServerCloses
  <2>6. Serves(s, y)
    BY <2>3, <2>4, <2>5 DEF Serves
  <2>7. Closes(s, y)
    BY <2>3, <2>5, <2>6 DEF Closes
  <2> QED BY <2>3, <2>7 DEF Does
<1> QED BY <1>1, <1>2, <1>3

\* The wire of s stays as long, with the same requests on it, and one more may
\* have been carried out.
LEMMA DoesIs ==
    ASSUME TypeOK, Parts, NEW s \in Socks, NEW y \in Sockets, NEW i \in Nat, Does(s, y, i)
    PROVE  /\ Serves(s, y) /\ Socks' = Socks /\ socks'[s] = y /\ conn' = conn
           /\ \A x \in Socks \ {s} : socks'[x] = socks[x]
           /\ Len(y.wire) = Len(socks[s].wire) /\ DOMAIN y.wire = DOMAIN socks[s].wire
           /\ \A j \in DOMAIN y.wire :
                /\ y.wire[j].of = socks[s].wire[j].of
                /\ y.wire[j].at = "asked" => socks[s].wire[j].at = "asked"
                /\ \/ y.wire[j].at = socks[s].wire[j].at
                   \/ Runs(s, y, i) /\ j = i
                   \/ y.wire[j].at = "answered" /\ socks[s].wire[j].at = "ran"
           /\ runs' \in [Requests -> Nat] /\ \A q \in Requests : runs'[q] >= runs[q]
           /\ closes' \in 0..MaxCloses
<1>0. PICK w \in Seq(Entries) : w = socks[s].wire
  BY SocketsAre
<1>1. runs \in [Requests -> Nat] /\ closes \in 0..MaxCloses /\ MaxCloses \in Nat
  BY HttpAssumption DEF TypeOK
<1>2. /\ Serves(s, y) /\ Socks' = Socks /\ socks'[s] = y /\ conn' = conn
      /\ \A x \in Socks \ {s} : socks'[x] = socks[x]
  BY DEF Does, Runs, Answers, Closes, Serves, Sets
<1>3. CASE Runs(s, y, i)
  <2>1. /\ Marked(y.wire, w, i, "ran") /\ i \in DOMAIN w /\ closes' = closes
        /\ runs' = [runs EXCEPT ![w[i].of] = @ + 1] /\ w[i].at = "asked"
    BY <1>0, <1>3 DEF Runs, Marked
  <2>2. w[i].of \in Requests
    BY <2>1, EntryIs
  <2> QED BY <1>0, <1>1, <1>2, <1>3, <2>1, <2>2 DEF Marked
<1>4. CASE Answers(s, y, i)
  BY <1>0, <1>1, <1>2, <1>4 DEF Answers, Marked
<1>5. CASE Closes(s, y)
  BY <1>0, <1>1, <1>2, <1>5 DEF Closes
<1> QED BY <1>3, <1>4, <1>5 DEF Does

LEMMA ServesParts ==
    ASSUME TypeOK, Parts, NEW s \in Socks, NEW y \in Sockets, NEW i \in Nat, Does(s, y, i)
    PROVE  TypeOK' /\ Parts'
<1>1. /\ Serves(s, y) /\ Socks' = Socks /\ socks'[s] = y
      /\ \A x \in Socks \ {s} : socks'[x] = socks[x]
      /\ Len(y.wire) = Len(socks[s].wire) /\ DOMAIN y.wire = DOMAIN socks[s].wire
      /\ \A j \in DOMAIN y.wire :
           /\ y.wire[j].of = socks[s].wire[j].of
           /\ y.wire[j].at = "asked" => socks[s].wire[j].at = "asked"
           /\ \/ y.wire[j].at = socks[s].wire[j].at
              \/ Runs(s, y, i) /\ j = i
              \/ y.wire[j].at = "answered" /\ socks[s].wire[j].at = "ran"
      /\ runs' \in [Requests -> Nat] /\ \A q \in Requests : runs'[q] >= runs[q]
      /\ closes' \in 0..MaxCloses
  BY DoesIs
<1>2. UNCHANGED <<session, conn, pool, hung>>
  BY <1>1 DEF Serves
<1>3. \A x \in Socks : SocketInv(x)
  BY DEF Parts
<1>5. TypeOK'
  <2>1. socks' \in Seq(Sockets)
    BY <1>1 DEF Serves
  <2>2. /\ session' \in {"on", "off"} /\ timers' \in SUBSET Hosts /\ hung' \in BOOLEAN
        /\ unwoken' \in SUBSET Hosts /\ queue' \in [Hosts -> Seq(Requests)]
        /\ conn' \in [Requests -> Conns]
    BY <1>2, SocketsAre DEF pool, TypeOK
  <2> QED BY <1>1, <2>1, <2>2 DEF TypeOK, Conns, Sockets, Entries
<1>6. \A x \in Socks : /\ socks'[x].busy = socks[x].busy /\ socks'[x].host = socks[x].host
                       /\ socks'[x].at = socks[x].at /\ socks'[x].cut = socks[x].cut
                       /\ Len(socks'[x].wire) = Len(socks[x].wire)
                       /\ DOMAIN socks'[x].wire = DOMAIN socks[x].wire
  BY <1>1 DEF Serves
<1>7. Stays
  BY <1>1, <1>2, <1>6 DEF Stays
<1>8. ASSUME NEW q \in Requests, conn[q].at \in Active PROVE RequestInv(q)'
  <2>0. PICK t \in Socks : t = conn[q].sock
    BY <1>8, ActiveIs
  <2>1. RequestInv(q) /\ socks[t].wire \in Seq(Entries) /\ socks'[t].wire \in Seq(Entries)
    BY <1>1, SocketsAre DEF Parts, Sockets
  <2>2. LastIs(t, q) => LastIs(t, q)'
    <3>1. CASE t # s
      BY <1>1, <3>1 DEF LastIs
    <3>2. CASE t = s
      <4> DEFINE n == Len(socks[s].wire)
      <4>1. n \in DOMAIN socks[s].wire => y.wire[n].of = socks[s].wire[n].of
              /\ (socks[s].wire[n].at \in {"asked", "ran", "answered"}
                    => y.wire[n].at \in {"asked", "ran", "answered"})
        <5>1. Runs(s, y, i) => y.wire[i].at = "ran"
          BY DEF Runs, Marked
        <5> QED BY <1>1, <5>1
      <4> QED BY <1>1, <3>2, <4>1 DEF LastIs
    <3> QED BY <3>1, <3>2
  <2>3. Wire(q) = <<>> => Wire(q)' = <<>>
    <3>1. Wire(q) = socks[t].wire /\ Wire(q)' = socks'[t].wire
      BY <1>2, <2>0 DEF Wire, Sock
    <3> QED BY <1>6, <2>1, <3>1, EmptySeq
  <2> QED BY <1>1, <1>2, <1>6, <1>8, <2>0, <2>1, <2>2, <2>3 DEF RequestInv, Sock, Wire, Active
<1>9. ASSUME NEW x \in Socks, NEW j \in DOMAIN socks'[x].wire
      PROVE  Earnest(x, j)'
  <2>0. PICK q \in Requests : q = socks[x].wire[j].of
    BY <1>6, SocketsAre, EntryIs
  <2>1. /\ Earnest(x, j) /\ socks'[x].wire[j].of = q /\ runs[q] \in Nat /\ runs'[q] \in Nat
        /\ runs'[q] >= runs[q]
    <3>1. j \in DOMAIN socks[x].wire /\ SocketInv(x)
      BY <1>3, <1>6, <1>9
    <3>2. Earnest(x, j)
      BY <3>1 DEF SocketInv
    <3>3. socks'[x].wire[j].of = q
      BY <1>1, <1>9, <2>0
    <3> QED BY <1>1, <2>0, <3>2, <3>3 DEF TypeOK
  <2>2. ASSUME socks'[x].wire[j].at # "asked" PROVE runs'[q] > 0
    <3>1. CASE x = s /\ Runs(s, y, i) /\ j = i
      <4>1. runs'[q] = runs[q] + 1
        BY <2>0, <3>1 DEF Runs, TypeOK
      <4> QED BY <2>1, <4>1
    <3>2. CASE ~(x = s /\ Runs(s, y, i) /\ j = i)
      <4>1. socks[x].wire[j].at # "asked"
        BY <1>1, <1>9, <2>2, <3>2
      <4>2. runs[q] > 0
        BY <2>0, <2>1, <4>1 DEF Earnest
      <4> QED BY <2>1, <4>2
    <3> QED BY <3>1, <3>2
  <2> QED BY <1>2, <2>0, <2>1, <2>2 DEF Earnest
<1>11. \A x \in Socks : socks'[x].at = "open" /\ ~socks'[x].busy /\ ~socks'[x].cut => socks'[x].wire = <<>>
  <2>1. ASSUME NEW x \in Socks, socks[x].wire = <<>> PROVE socks'[x].wire = <<>>
    <3>1. socks'[x].wire \in Seq(Entries)
      BY <1>1, SocketsAre DEF Sockets
    <3> QED BY <1>6, <2>1, <3>1, EmptySeq
  <2> QED BY <1>3, <1>6, <2>1 DEF SocketInv
<1>12. Parts'
  BY <1>7, <1>8, <1>9, <1>11, StaysParts
<1> QED BY <1>5, <1>12

(***************************************************************************)
(* The first of a queue is given a connection.                             *)
(***************************************************************************)
\* The least of a set of connections
LEMMA LeastOf ==
    ASSUME NEW S \in SUBSET Nat, S # {}
    PROVE  (CHOOSE x \in S : \A y \in S : x <= y) \in S
<1>1. PICK x \in S : \A y \in S : <<y, x>> \notin OpToRel(<, Nat)
  BY WFMin, NatLessThanWellFounded, Zenon
<1>2. \A y \in S : ~(y < x)
  BY <1>1, Zenon DEF OpToRel
<1>3. \A y \in S : x <= y
  BY <1>2
<1> QED BY <1>3

\* A queue whose first is taken
LEMMA Beheaded ==
    ASSUME NEW w \in Seq(Requests), w # <<>>, NEW v, v = Tail(w)
    PROVE  /\ v \in Seq(Requests) /\ DOMAIN v = 1..(Len(w) - 1) /\ DOMAIN w = 1..Len(w)
           /\ Len(w) \in Nat /\ 1 \in DOMAIN w /\ Head(w) = w[1]
           /\ \A i \in DOMAIN v : i + 1 \in DOMAIN w /\ v[i] = w[i + 1]
           /\ \A i \in DOMAIN w : i = 1 \/ (i - 1 \in DOMAIN v /\ v[i - 1] = w[i])
<1>1. v \in Seq(Requests) /\ Len(v) = Len(w) - 1 /\ \A i \in 1..Len(v) : v[i] = w[i + 1]
  BY HeadTailProperties
<1>2. Len(w) \in Nat /\ Len(w) # 0 /\ DOMAIN w = 1..Len(w) /\ DOMAIN v = 1..Len(v)
  BY <1>1, EmptySeq, LenProperties
<1> QED BY <1>1, <1>2

Assigned(h, r, x, y, s) ==
    /\ queue[h] # <<>> /\ r = queue[h][1]
    /\ conn' = [conn EXCEPT ![r] = x] /\ x \in Conns
    /\ x.at \in {"connecting", "writing"} /\ x.sock = s /\ x.host = h
    /\ x.heard = conn[r].heard /\ x.redirects = conn[r].redirects
    /\ queue' = [queue EXCEPT ![h] = Tail(@)]
    /\ Socks' = Socks \cup {s} /\ socks' \in Seq(Sockets)
    /\ \A z \in Socks \ {s} : socks'[z] = socks[z]
    /\ socks'[s] = y /\ y \in Sockets
    /\ y.busy /\ y.host = h /\ y.wire \in Seq(Entries) /\ (~y.cut => y.wire = <<>>)
    /\ y.at = IF x.at = "connecting" THEN "connecting" ELSE "open"
    /\ \/ /\ s \in Socks /\ ~socks[s].busy /\ socks[s].at = "open"
          /\ y.wire = socks[s].wire /\ y.eof = socks[s].eof
       \/ s \notin Socks /\ y.wire = <<>>
    /\ timers' \subseteq timers /\ timers \subseteq timers' \cup {h}
    /\ UNCHANGED <<session, unwoken, closes, runs, hung>>

LEMMA HeadIs ==
    ASSUME TypeOK, Parts, NEW h \in Hosts, queue[h] # <<>>
    PROVE  LET r == queue[h][1]
           IN  r \in Requests /\ r = Head(queue[h]) /\ conn[r].at = "queued" /\ conn[r].host = h
<1>1. queue[h] \in Seq(Requests)
  BY QueuesAre
<1>2. 1 \in DOMAIN queue[h] /\ Head(queue[h]) = queue[h][1]
  BY <1>1, Beheaded
<1> QED BY <1>1, <1>2, QueuesAre DEF Parts, HostInv

LEMMA AssignedParts ==
    ASSUME TypeOK, Parts, NEW h \in Hosts, NEW r, NEW x, NEW y, NEW s, Assigned(h, r, x, y, s)
    PROVE  TypeOK' /\ Parts'
<1> DEFINE w == queue[h]
           v == queue'[h]
<1>1. r \in Requests /\ conn[r].at = "queued" /\ conn[r].host = h /\ conn[r].heard = None
  BY HeadIs DEF Assigned, Parts, RequestInv
<1>2. /\ conn' \in [Requests -> Conns] /\ conn'[r] = x
      /\ \A q \in Requests \ {r} : conn'[q] = conn[q]
  BY <1>1, SocketsAre DEF Assigned
<1>3. /\ queue' \in [Hosts -> Seq(Requests)] /\ \A g \in Hosts \ {h} : queue'[g] = queue[g]
      /\ w \in Seq(Requests) /\ w # <<>> /\ v = Tail(w) /\ r = w[1]
  <2>1. queue \in [Hosts -> Seq(Requests)] /\ w # <<>> /\ r = w[1]
        /\ queue' = [queue EXCEPT ![h] = Tail(@)]
    BY DEF TypeOK, Assigned
  <2>2. Tail(w) \in Seq(Requests)
    BY <2>1, Beheaded
  <2> QED BY <2>1, <2>2
<1>4. /\ DOMAIN v = 1..(Len(w) - 1) /\ DOMAIN w = 1..Len(w) /\ Len(w) \in Nat /\ 1 \in DOMAIN w
      /\ \A i \in DOMAIN v : i + 1 \in DOMAIN w /\ v[i] = w[i + 1]
      /\ \A i \in DOMAIN w : i = 1 \/ (i - 1 \in DOMAIN v /\ v[i - 1] = w[i])
  <2> HIDE DEF w, v
  <2> QED BY <1>3, Beheaded
<1>5. TypeOK'
  <2>1. /\ session' \in {"on", "off"} /\ timers' \in SUBSET Hosts /\ hung' \in BOOLEAN
        /\ closes' \in 0..MaxCloses /\ runs' \in [Requests -> Nat] /\ unwoken' \in SUBSET Hosts
        /\ socks' \in Seq(Sockets)
    BY DEF Assigned, TypeOK
  <2> QED BY <1>2, <1>3, <2>1 DEF TypeOK, Conns, Sockets, Entries
<1>6. ASSUME NEW q \in Requests \ {r}, conn[q].at \in Active
      PROVE  conn[q].sock \in Socks /\ conn[q].sock # s /\ socks'[conn[q].sock] = socks[conn[q].sock]
  <2>1. conn[q].sock \in Socks /\ socks[conn[q].sock].busy
    BY <1>6 DEF Parts, RequestInv, Sock
  <2>2. conn[q].sock # s
    BY <2>1 DEF Assigned
  <2> QED BY <2>1, <2>2 DEF Assigned
<1>7. ASSUME NEW q \in Requests PROVE RequestInv(q)'
  <2>1. CASE q = r
    <3>1. s \in Socks' /\ socks'[s] = y
      BY DEF Assigned
    <3> QED BY <1>1, <1>2, <2>1, <3>1 DEF Assigned, RequestInv, Sock, Wire, Active
  <2>2. CASE q # r
    <3>1. RequestInv(q) /\ conn'[q] = conn[q] /\ Socks \subseteq Socks'
      BY <1>2, <2>2 DEF Parts, Assigned
    <3>2. CASE conn[q].at \in Active
      BY <1>6, <2>2, <3>1, <3>2 DEF RequestInv, LastIs, Sock, Wire, Active
    <3>3. CASE conn[q].at = "queued"
      <4>1. PICK i \in DOMAIN queue[conn[q].host] : queue[conn[q].host][i] = q
        BY <3>1, <3>3 DEF RequestInv
      <4>2. conn[q].host \in Hosts
        BY SocketsAre DEF Conns
      <4>3. CASE conn[q].host = h
        <5>1. i # 1
          BY <1>3, <2>2, <4>1, <4>3
        <5>2. i - 1 \in DOMAIN v /\ v[i - 1] = q
          BY <1>4, <4>1, <4>3, <5>1
        <5>3. \E j \in DOMAIN queue'[conn[q].host] : queue'[conn[q].host][j] = q
          BY <4>3, <5>2
        <5> QED BY <3>1, <3>3, <5>3 DEF RequestInv, Active
      <4>4. CASE conn[q].host # h
        BY <1>3, <3>1, <3>3, <4>1, <4>2, <4>4 DEF RequestInv, Active
      <4> QED BY <4>3, <4>4
    <3>4. CASE conn[q].at \notin Active /\ conn[q].at # "queued"
      BY <3>1, <3>4 DEF RequestInv
    <3> QED BY <3>2, <3>3, <3>4
  <2> QED BY <2>1, <2>2
<1>8. ASSUME NEW z \in Socks' PROVE SocketInv(z)'
  <2>0. ASSUME z \in Socks, NEW i \in DOMAIN socks[z].wire, socks'[z].wire = socks[z].wire
        PROVE  Earnest(z, i)'
    <3>1. Earnest(z, i) /\ socks[z].wire[i].of \in Requests
      BY <2>0, EntryIs, SocketsAre DEF Parts, SocketInv
    <3>2. x.at # "new" /\ runs' = runs
      BY DEF Assigned
    <3> QED BY <1>2, <2>0, <3>1, <3>2 DEF Earnest
  <2>1. CASE z = s
    <3>1. socks'[s] = y /\ y.busy
      BY DEF Assigned
    <3>2. conn'[r].at \in Active /\ conn'[r].sock = s
      BY <1>2 DEF Assigned, Active
    <3>3. ASSUME NEW i \in DOMAIN y.wire PROVE Earnest(s, i)'
      <4>1. CASE s \in Socks /\ y.wire = socks[s].wire
        BY <2>0, <2>1, <3>1, <3>3, <4>1
      <4>2. CASE y.wire = <<>>
        BY <3>3, <4>2
      <4> QED BY <4>1, <4>2 DEF Assigned
    <3> QED BY <1>1, <2>1, <3>1, <3>2, <3>3 DEF SocketInv
  <2>2. CASE z # s
    <3>1. z \in Socks /\ socks'[z] = socks[z] /\ SocketInv(z) /\ runs' = runs
      BY <2>2 DEF Assigned, Parts
    <3>2. ASSUME socks[z].busy PROVE \E q \in Requests : conn'[q].at \in Active /\ conn'[q].sock = z
      <4>1. PICK q \in Requests : conn[q].at \in Active /\ conn[q].sock = z
        BY <3>1, <3>2 DEF SocketInv
      <4>2. q # r
        BY <1>1, <4>1 DEF Active
      <4> QED BY <1>2, <4>1, <4>2
    <3>3. \A i \in DOMAIN socks'[z].wire : Earnest(z, i)'
      BY <2>0, <3>1
    <3> QED BY <3>1, <3>2, <3>3 DEF SocketInv
  <2> QED BY <2>1, <2>2
<1>9. ASSUME NEW g \in Hosts PROVE HostInv(g)'
  <2>1. HostInv(g) /\ HostInv(h)
    BY DEF Parts
  <2>2. CASE g # h
    <3>1. \A i \in DOMAIN queue[g] : queue[g][i] \in Requests \ {r}
      BY <1>1, <2>1, <2>2, QueuesAre DEF HostInv
    <3> QED BY <1>2, <1>3, <2>1, <2>2, <3>1 DEF HostInv
  <2>3. CASE g = h
    <3>1. \A i \in DOMAIN v : v[i] = w[i + 1] /\ i + 1 \in DOMAIN w /\ w[i + 1] \in Requests \ {r}
      <4>1. ASSUME NEW i \in DOMAIN v PROVE w[i + 1] # r
        <5>1. i + 1 \in DOMAIN w /\ i + 1 # 1
          BY <1>4
        <5> QED BY <1>3, <1>4, <2>1, <5>1 DEF HostInv
      <4> QED BY <1>4, <4>1, QueuesAre
    <3>2. \A i \in DOMAIN v : conn'[v[i]].at = "queued" /\ conn'[v[i]].host = h
      BY <1>2, <2>1, <3>1 DEF HostInv
    <3>3. ASSUME NEW i \in DOMAIN v, NEW j \in DOMAIN v, v[i] = v[j] PROVE i = j
      <4>1. i + 1 = j + 1
        BY <2>1, <3>1, <3>3 DEF HostInv
      <4> QED BY <1>4, <4>1
    <3> QED BY <2>3, <3>2, <3>3 DEF HostInv
  <2> QED BY <2>2, <2>3
<1>10. Distinct'
  <2>1. ASSUME NEW p \in Requests, NEW q \in Requests,
               conn'[p].at \in Active, conn'[q].at \in Active, conn'[p].sock = conn'[q].sock, p # q
        PROVE  FALSE
    <3>1. x.sock = s
      BY DEF Assigned
    <3>2. CASE p = r
      BY <1>2, <1>6, <2>1, <3>1, <3>2
    <3>3. CASE q = r
      BY <1>2, <1>6, <2>1, <3>1, <3>3
    <3>4. CASE p # r /\ q # r
      BY <1>2, <2>1, <3>4 DEF Parts, Distinct
    <3> QED BY <3>2, <3>3, <3>4
  <2> QED BY <2>1 DEF Distinct
<1>11. QueueIsWatched'
  <2>1. ASSUME NEW g \in Hosts, queue'[g] # <<>>
        PROVE  g \in timers' \/ Busy(g)' # {} \/ g \in unwoken'
    <3>1. CASE g = h
      <4>1. s \in Busy(h)'
        BY DEF Assigned, Busy
      <4> QED BY <3>1, <4>1
    <3>2. CASE g # h
      <4>1. g \in timers \/ Busy(g) # {} \/ g \in unwoken
        BY <1>3, <2>1, <3>2 DEF Parts, QueueIsWatched
      <4>2. Busy(g) \subseteq Busy(g)'
        BY DEF Assigned, Busy
      <4> QED BY <3>2, <4>1, <4>2 DEF Assigned
    <3> QED BY <3>1, <3>2
  <2> QED BY <2>1 DEF QueueIsWatched
<1> QED BY <1>5, <1>7, <1>8, <1>9, <1>10, <1>11 DEF Parts

Given(r, at, s) == [conn[r] EXCEPT !.at = at, !.sock = s]

LEMMA AssignIs ==
    ASSUME TypeOK, Parts, NEW h \in Hosts, queue[h] # <<>>,
           NEW at \in {"connecting", "writing"}, NEW s \in Nat, Assign(h, at, s)
    PROVE  LET r == queue[h][1]
               x == Given(r, at, s)
           IN  /\ conn' = [conn EXCEPT ![r] = x] /\ x \in Conns
               /\ x.at = at /\ x.sock = s /\ x.host = h
               /\ x.heard = conn[r].heard /\ x.redirects = conn[r].redirects
               /\ queue' = [queue EXCEPT ![h] = Tail(@)]
<1> DEFINE r == queue[h][1]
           x == Given(r, at, s)
<1>1. r \in Requests /\ r = Head(queue[h]) /\ conn[r].host = h
  BY HeadIs
<1> HIDE DEF r
<1>2. conn[r] \in Conns /\ conn \in [Requests -> Conns]
  BY <1>1, SocketsAre
<1>3. conn' = [conn EXCEPT ![r] = x]
  BY <1>1, <1>2 DEF Assign, Given
<1>4. x \in Conns /\ x.at = at /\ x.sock = s /\ x.host = h
      /\ x.heard = conn[r].heard /\ x.redirects = conn[r].redirects
  BY <1>1, <1>2 DEF Given, Conns
<1>5. queue' = [queue EXCEPT ![h] = Tail(@)]
  BY DEF Assign
<1> QED BY <1>3, <1>4, <1>5 DEF r

LEMMA ReuseAssigns ==
    ASSUME TypeOK, Parts, NEW h \in Hosts, queue[h] # <<>>, Idle(h) # {}, Reuse(h),
           UNCHANGED <<session, closes, runs, hung, unwoken>>
    PROVE  \E x \in Conns, y \in Sockets, s \in Nat : Assigned(h, queue[h][1], x, y, s)
<1> DEFINE s == CHOOSE x \in Idle(h) : \A y \in Idle(h) : x <= y
           x == Given(queue[h][1], "writing", s)
           y == [socks[s] EXCEPT !.busy = TRUE, !.reused = TRUE]
<1>1. s \in Idle(h)
  <2>1. Idle(h) \in SUBSET Nat
    BY SocketsAre DEF Idle
  <2> QED BY <2>1, LeastOf
<1>2. Assign(h, "writing", s) /\ socks' = [socks EXCEPT ![s].busy = TRUE, ![s].reused = TRUE]
      /\ timers' = timers
  BY DEF Reuse
<1> HIDE DEF s
<1>3. s \in Socks /\ s \in Nat /\ socks[s].host = h /\ ~socks[s].busy /\ socks[s].at = "open"
      /\ socks[s] \in Sockets
  BY <1>1, SocketsAre DEF Idle
<1>4. ~socks[s].cut => socks[s].wire = <<>>
  BY <1>3 DEF Parts, SocketInv
<1>5. /\ y \in Sockets /\ y.busy /\ y.host = h /\ y.wire = socks[s].wire /\ y.at = "open"
      /\ y.eof = socks[s].eof /\ y.wire \in Seq(Entries) /\ (~y.cut => y.wire = <<>>)
  BY <1>3, <1>4 DEF Sockets
<1>6. socks' = [socks EXCEPT ![s] = y]
  BY <1>2, <1>3, SocketsAre DEF Socks
<1> HIDE DEF y
<1>7. Sets(s, y) /\ socks' \in Seq(Sockets)
  BY <1>3, <1>5, <1>6, SocketSet
<1>8. /\ conn' = [conn EXCEPT ![queue[h][1]] = x] /\ x \in Conns
      /\ x.at = "writing" /\ x.sock = s /\ x.host = h
      /\ x.heard = conn[queue[h][1]].heard /\ x.redirects = conn[queue[h][1]].redirects
      /\ queue' = [queue EXCEPT ![h] = Tail(@)]
  BY <1>2, <1>3, AssignIs
<1> HIDE DEF x
<1>9. Socks' = Socks \cup {s} /\ (\A z \in Socks \ {s} : socks'[z] = socks[z]) /\ socks'[s] = y
  BY <1>3, <1>7 DEF Sets
<1>10. Assigned(h, queue[h][1], x, y, s)
  BY <1>2, <1>3, <1>4, <1>5, <1>7, <1>8, <1>9 DEF Assigned
<1> QED BY <1>3, <1>5, <1>8, <1>10

LEMMA ConnectAssigns ==
    ASSUME TypeOK, Parts, NEW h \in Hosts, queue[h] # <<>>, Connect(h),
           UNCHANGED <<session, closes, runs, hung, unwoken>>
    PROVE  \E x \in Conns, y \in Sockets, s \in Nat : Assigned(h, queue[h][1], x, y, s)
<1> DEFINE s == Len(socks) + 1
           x == Given(queue[h][1], "connecting", s)
           y == [host |-> h, at |-> "connecting", busy |-> TRUE, reused |-> FALSE,
                 wire |-> <<>>, eof |-> FALSE, cut |-> FALSE]
<1>1. Assign(h, "connecting", s) /\ socks' = Append(socks, y) /\ timers' = timers \ {h}
  BY DEF Connect
<1>2. s \in Nat /\ s \notin Socks /\ socks \in Seq(Sockets)
  BY SocketsAre
<1>3. y \in Sockets /\ y.busy /\ y.host = h /\ y.wire = <<>> /\ y.at = "connecting"
      /\ y.wire \in Seq(Entries)
  <2>1. <<>> \in Seq(Entries)
    OBVIOUS
  <2> QED BY <2>1 DEF Sockets
<1> HIDE DEF y
<1>4. /\ socks' \in Seq(Sockets) /\ Len(socks') = Len(socks) + 1
      /\ socks'[s] = y /\ \A z \in 1..Len(socks) : socks'[z] = socks[z]
  BY <1>1, <1>2, <1>3, AppendProperties
<1>5. Socks' = Socks \cup {s} /\ (\A z \in Socks \ {s} : socks'[z] = socks[z])
  <2>1. Socks' = 1..(Len(socks) + 1)
    BY <1>4, LenProperties DEF Socks
  <2>2. Socks = 1..Len(socks) /\ Len(socks) \in Nat
    BY SocketsAre
  <2> QED BY <1>4, <2>1, <2>2
<1> HIDE DEF s
<1>6. /\ conn' = [conn EXCEPT ![queue[h][1]] = x] /\ x \in Conns
      /\ x.at = "connecting" /\ x.sock = s /\ x.host = h
      /\ x.heard = conn[queue[h][1]].heard /\ x.redirects = conn[queue[h][1]].redirects
      /\ queue' = [queue EXCEPT ![h] = Tail(@)]
  BY <1>1, <1>2, AssignIs
<1> HIDE DEF x
<1>7. Assigned(h, queue[h][1], x, y, s)
  BY <1>1, <1>2, <1>3, <1>4, <1>5, <1>6 DEF Assigned
<1> QED BY <1>2, <1>3, <1>6, <1>7

\* What becomes of a queue that is looked at.
LEMMA ServeQueueDoes ==
    ASSUME TypeOK, Parts, NEW h \in Hosts, ServeQueue(h)
    PROVE  \/ /\ queue[h] = <<>> /\ timers' = timers \ {h}
              /\ UNCHANGED <<session, conn, queue, socks, closes, runs, hung, unwoken>>
           \/ /\ queue[h] # <<>>
              /\ \E x \in Conns, y \in Sockets, s \in Nat : Assigned(h, queue[h][1], x, y, s)
  BY ReuseAssigns, ConnectAssigns DEF ServeQueue

LEMMA ServeQueueParts ==
    ASSUME TypeOK, Parts, NEW h \in Hosts, ServeQueue(h)
    PROVE  TypeOK' /\ Parts'
<1>1. CASE queue[h] # <<>>
  BY <1>1, ServeQueueDoes, AssignedParts
<1>2. CASE queue[h] = <<>>
  <2>1. timers' = timers \ {h} /\ UNCHANGED <<session, conn, queue, socks, closes, runs, hung, unwoken>>
    BY <1>2, ServeQueueDoes
  <2>2. TypeOK'
    BY <2>1 DEF TypeOK
  <2>3. \A r \in Requests : RequestInv(r)'
    BY <2>1 DEF Parts, RequestInv, LastIs, Sock, Wire, Socks
  <2>4. \A s \in Socks' : SocketInv(s)'
    BY <2>1 DEF Parts, SocketInv, Earnest, Socks
  <2>5. (\A g \in Hosts : HostInv(g)') /\ Distinct'
    BY <2>1 DEF Parts, HostInv, Distinct
  <2>6. QueueIsWatched'
    BY <1>2, <2>1 DEF Parts, QueueIsWatched, Busy, Socks
  <2> QED BY <2>2, <2>3, <2>4, <2>5, <2>6 DEF Parts
<1> QED BY <1>1, <1>2

(***************************************************************************)
(* The steps of a request that has no connection.                          *)
(***************************************************************************)
LEMMA AloneParts ==
    ASSUME TypeOK, Parts, NEW r \in Requests, NEW x \in Conns,
           conn[r].at \notin Active, conn' = [conn EXCEPT ![r] = x],
           x.at \notin Active, x.at # "new", x.heard = None,
           queue' \in [Hosts -> Seq(Requests)],
           x.at = "queued" => \E i \in DOMAIN queue'[x.host] : queue'[x.host][i] = r,
           \A q \in Requests \ {r} : conn[q].at = "queued" =>
               \E i \in DOMAIN queue'[conn[q].host] : queue'[conn[q].host][i] = q,
           \A h \in Hosts : HostInv(h)',
           \A h \in Hosts : queue'[h] # <<>> => queue[h] # <<>> \/ h \in timers',
           timers \subseteq timers', unwoken \subseteq timers' \cup unwoken',
           timers' \subseteq Hosts, unwoken' \subseteq Hosts,
           UNCHANGED <<session, net, hung>>
    PROVE  TypeOK' /\ Parts'
<1>1. /\ conn' \in [Requests -> Conns] /\ conn'[r] = x
      /\ \A q \in Requests \ {r} : conn'[q] = conn[q]
  BY SocketsAre
<1>2. socks' = socks /\ closes' = closes /\ runs' = runs /\ Socks' = Socks
  BY DEF net, Socks
<1>3. TypeOK'
  <2>1. /\ session' \in {"on", "off"} /\ timers' \in SUBSET Hosts /\ hung' \in BOOLEAN
        /\ closes' \in 0..MaxCloses /\ runs' \in [Requests -> Nat] /\ unwoken' \in SUBSET Hosts
        /\ socks' \in Seq(Sockets)
    BY <1>2, SocketsAre DEF TypeOK
  <2> QED BY <1>1, <2>1 DEF TypeOK, Conns, Sockets, Entries
<1>4. ASSUME NEW q \in Requests PROVE RequestInv(q)'
  <2>1. CASE q = r
    BY <1>1, <2>1 DEF RequestInv
  <2>2. CASE q # r
    <3>1. conn'[q] = conn[q] /\ RequestInv(q)
      BY <1>1, <2>2 DEF Parts
    <3> QED BY <1>2, <2>2, <3>1 DEF RequestInv, LastIs, Sock, Wire
  <2> QED BY <2>1, <2>2
<1>5. ASSUME NEW s \in Socks' PROVE SocketInv(s)'
  <2>1. s \in Socks /\ SocketInv(s)
    BY <1>2 DEF Parts
  <2>2. ASSUME socks[s].busy PROVE \E q \in Requests : conn'[q].at \in Active /\ conn'[q].sock = s
    <3>1. PICK q \in Requests : conn[q].at \in Active /\ conn[q].sock = s
      BY <2>1, <2>2 DEF SocketInv
    <3>2. q # r
      BY <3>1
    <3> QED BY <1>1, <3>1, <3>2
  <2>3. ASSUME NEW i \in DOMAIN socks[s].wire PROVE Earnest(s, i)'
    <3>1. Earnest(s, i) /\ socks[s].wire[i].of \in Requests
      BY <2>1, EntryIs, SocketsAre DEF SocketInv
    <3> QED BY <1>1, <1>2, <3>1 DEF Earnest
  <2> QED BY <1>2, <2>1, <2>2, <2>3 DEF SocketInv
<1>6. Distinct'
  <2>1. ASSUME NEW p \in Requests, NEW q \in Requests,
               conn'[p].at \in Active, conn'[q].at \in Active, conn'[p].sock = conn'[q].sock
        PROVE  p = q
    <3>1. p # r /\ q # r
      BY <1>1, <2>1
    <3> QED BY <1>1, <2>1, <3>1 DEF Parts, Distinct
  <2> QED BY <2>1 DEF Distinct
<1>7. QueueIsWatched'
  <2>1. \A h \in Hosts : Busy(h)' = Busy(h)
    BY <1>2 DEF Busy
  <2> QED BY <2>1 DEF Parts, QueueIsWatched
<1> QED BY <1>3, <1>4, <1>5, <1>6, <1>7 DEF Parts

LEMMA RequestParts ==
    ASSUME TypeOK, Parts, NEW r \in Requests, Request(r)
    PROVE  TypeOK' /\ Parts'
<1> DEFINE x == [conn[r] EXCEPT !.at = "queued"]
<1>0. PICK g \in Hosts : g = conn[r].host
  BY SocketsAre DEF Conns
<1>1. conn[r] \in Conns /\ conn \in [Requests -> Conns] /\ conn[r].at = "new" /\ conn[r].heard = None
  BY SocketsAre DEF Request, Parts, RequestInv
<1>2. x \in Conns /\ x.at = "queued" /\ x.host = g /\ x.heard = None
  BY <1>0, <1>1 DEF Conns
<1>3. conn' = [conn EXCEPT ![r] = x] /\ conn'[r] = x /\ \A q \in Requests \ {r} : conn'[q] = conn[q]
  BY <1>1 DEF Request
<1> HIDE DEF x
<1>4. queue' = [queue EXCEPT ![g] = Append(@, r)] /\ Wake({g}) /\ UNCHANGED <<session, net, hung>>
  BY <1>0 DEF Request
<1>5. /\ queue' \in [Hosts -> Seq(Requests)] /\ \A h \in Hosts : HostInv(h)'
      /\ \E i \in DOMAIN queue'[g] : queue'[g][i] = r
      /\ \A q \in Requests \ {r} : conn[q].at = "queued" =>
           \E i \in DOMAIN queue'[conn[q].host] : queue'[conn[q].host][i] = q
      /\ \A h \in Hosts \ {g} : queue'[h] = queue[h]
  <2>1. conn[r].at # "queued" /\ conn'[r].at = "queued" /\ conn'[r].host = g
    BY <1>1, <1>2, <1>3
  <2>2. (\A h \in Hosts : HostInv(h)) /\ \A q \in Requests : RequestInv(q)
    BY DEF Parts
  <2>3. queue' = [queue EXCEPT ![g] = Append(@, r)]
    BY <1>4
  <2>4. \A q \in Requests \ {r} : conn'[q] = conn[q]
    BY <1>3
  <2>5. /\ queue' \in [Hosts -> Seq(Requests)] /\ \A h \in Hosts : HostInv(h)'
        /\ \E i \in DOMAIN queue'[g] : queue'[g][i] = r
        /\ \A q \in Requests \ {r} : conn[q].at = "queued" =>
             \E i \in DOMAIN queue'[conn[q].host] : queue'[conn[q].host][i] = q
        /\ \A h \in Hosts \ {g} : queue'[h] = queue[h]
        /\ queue'[g] # <<>>
    BY <2>1, <2>2, <2>3, <2>4, QueuedHost
  <2> QED BY <2>5
<1>6. /\ timers \subseteq timers' /\ unwoken \subseteq timers' \cup unwoken' /\ g \in timers'
      /\ timers' \subseteq Hosts /\ unwoken' \subseteq Hosts
  BY <1>2, <1>4 DEF Wake, TypeOK
<1>7. \A h \in Hosts : queue'[h] # <<>> => queue[h] # <<>> \/ h \in timers'
  BY <1>5, <1>6
<1>8. conn[r].at \notin Active /\ x.at \notin Active
  BY <1>1, <1>2 DEF Active
<1>9. x.at = "queued" => \E i \in DOMAIN queue'[x.host] : queue'[x.host][i] = r
  BY <1>2, <1>5
<1> QED BY <1>2, <1>3, <1>4, <1>5, <1>6, <1>7, <1>8, <1>9, AloneParts

LEMMA RefuseParts ==
    ASSUME TypeOK, Parts, NEW r \in Requests, Refuse(r)
    PROVE  TypeOK' /\ Parts'
<1> DEFINE x == Ended(r, None)
<1>1. /\ conn' = [conn EXCEPT ![r] = x] /\ x \in Conns /\ x.at = "done" /\ x.heard = None
      /\ conn[r].at = "new"
  BY EndedValue DEF Refuse
<1>2. UNCHANGED <<session, pool, net, hung>>
  BY DEF Refuse
<1> HIDE DEF x
<1>3. conn[r].at \notin Active /\ x.at \notin Active
  BY <1>1 DEF Active
<1>4. queue' = queue /\ timers' = timers /\ unwoken' = unwoken
      /\ queue' \in [Hosts -> Seq(Requests)] /\ timers' \subseteq Hosts /\ unwoken' \subseteq Hosts
  BY <1>2 DEF pool, TypeOK
<1>5. \A q \in Requests \ {r} : conn'[q] = conn[q]
  BY <1>1, SocketsAre
<1>6. ASSUME NEW h \in Hosts PROVE HostInv(h)'
  <2>1. HostInv(h) /\ \A i \in DOMAIN queue[h] : queue[h][i] \in Requests \ {r}
    BY <1>1, QueuesAre DEF Parts, HostInv
  <2> QED BY <1>4, <1>5, <2>1 DEF HostInv
<1>7. \A q \in Requests \ {r} : conn[q].at = "queued" =>
        \E i \in DOMAIN queue'[conn[q].host] : queue'[conn[q].host][i] = q
  BY <1>4 DEF Parts, RequestInv
<1> QED BY <1>1, <1>2, <1>3, <1>4, <1>6, <1>7, AloneParts

\* A queue that one entry is taken from
LEMMA WithoutIs ==
    ASSUME NEW w \in Seq(Requests), NEW r \in Requests, NEW k \in DOMAIN w, w[k] = r,
           \A i, j \in DOMAIN w : w[i] = w[j] => i = j
    PROVE  LET v == Without(w, r)
           IN  /\ v \in Seq(Requests) /\ DOMAIN v = 1..(Len(w) - 1) /\ DOMAIN w = 1..Len(w)
               /\ Len(w) \in Nat
               /\ \A i \in DOMAIN v : v[i] = IF i < k THEN w[i] ELSE w[i + 1]
<1> DEFINE a == SubSeq(w, 1, k - 1)
           b == SubSeq(w, k + 1, Len(w))
           v == a \o b
<1>1. (CHOOSE i \in DOMAIN w : w[i] = r) = k
  BY Zenon
<1>2. Without(w, r) = v
  BY <1>1 DEF Without
<1>3. DOMAIN w = 1..Len(w) /\ Len(w) \in Nat /\ k \in 1..Len(w)
  BY LenProperties
<1>4. a \in Seq(Requests) /\ Len(a) = k - 1 /\ \A i \in 1..(k - 1) : a[i] = w[i]
  BY <1>3, SubSeqProperties
<1>5. b \in Seq(Requests) /\ Len(b) = Len(w) - k /\ \A i \in 1..(Len(w) - k) : b[i] = w[i + k]
  BY <1>3, SubSeqProperties
<1> HIDE DEF a, b
<1>6. /\ v \in Seq(Requests) /\ Len(v) = Len(a) + Len(b)
      /\ \A i \in 1..(Len(a) + Len(b)) : v[i] = IF i <= Len(a) THEN a[i] ELSE b[i - Len(a)]
  BY <1>4, <1>5, ConcatProperties
<1> HIDE DEF v
<1>7. DOMAIN v = 1..(Len(w) - 1)
  BY <1>3, <1>4, <1>5, <1>6, LenProperties
<1>8. ASSUME NEW i \in DOMAIN v PROVE v[i] = IF i < k THEN w[i] ELSE w[i + 1]
  <2>1. i \in 1..(Len(w) - 1) /\ v[i] = IF i <= k - 1 THEN a[i] ELSE b[i - (k - 1)]
    BY <1>3, <1>4, <1>5, <1>6, <1>7
  <2>2. CASE i < k
    BY <1>3, <1>4, <2>1, <2>2
  <2>3. CASE i >= k
    <3>1. i - (k - 1) \in 1..(Len(w) - k) /\ (i - (k - 1)) + k = i + 1
      BY <1>3, <2>1, <2>3
    <3>2. b[i - (k - 1)] = w[i + 1]
      BY <1>5, <3>1
    <3> QED BY <1>3, <2>1, <2>3, <3>2
  <2> QED BY <1>3, <2>1, <2>2, <2>3
<1> QED BY <1>2, <1>3, <1>6, <1>7, <1>8

LEMMA WithdrawParts ==
    ASSUME TypeOK, Parts, NEW r \in Requests, Cancel(r), conn[r].at = "queued"
    PROVE  TypeOK' /\ Parts'
<1> DEFINE x == Ended(r, None)
<1>1. conn' = [conn EXCEPT ![r] = x] /\ x \in Conns /\ x.at = "done" /\ x.heard = None
  BY EndedValue DEF Cancel
<1> HIDE DEF x
<1>2. PICK h \in Hosts : h = conn[r].host
  BY SocketsAre DEF Conns
<1>3. /\ queue' = [queue EXCEPT ![h] = Without(@, r)] /\ UNCHANGED <<session, timers, unwoken, net, hung>>
  BY <1>2 DEF Cancel
<1>4. PICK k \in DOMAIN queue[h] : queue[h][k] = r
  BY <1>2 DEF Parts, RequestInv
<1> DEFINE w == queue[h]
           v == queue'[h]
<1>5. /\ queue \in [Hosts -> Seq(Requests)] /\ w \in Seq(Requests) /\ v = Without(w, r)
      /\ \A g \in Hosts \ {h} : queue'[g] = queue[g]
  BY <1>3 DEF TypeOK
<1>6. HostInv(h)
  BY DEF Parts
<1>7. /\ v \in Seq(Requests) /\ DOMAIN v = 1..(Len(w) - 1) /\ DOMAIN w = 1..Len(w)
      /\ Len(w) \in Nat
      /\ \A i \in DOMAIN v : v[i] = IF i < k THEN w[i] ELSE w[i + 1]
  <2>1. \A i, j \in DOMAIN w : w[i] = w[j] => i = j
    BY <1>6 DEF HostInv
  <2>2. k \in DOMAIN w /\ w[k] = r
    BY <1>4
  <2> HIDE DEF w, v
  <2> QED BY <1>5, <2>1, <2>2, WithoutIs
<1>8. queue' \in [Hosts -> Seq(Requests)]
  BY <1>3, <1>5, <1>7
<1>9. \A q \in Requests \ {r} : conn'[q] = conn[q]
  BY <1>1, SocketsAre
<1>10. \A i \in DOMAIN v : \E j \in DOMAIN w \ {k} : v[i] = w[j] /\ j = (IF i < k THEN i ELSE i + 1)
  BY <1>4, <1>7
<1>11. ASSUME NEW g \in Hosts PROVE HostInv(g)'
  <2>1. HostInv(g) /\ \A i \in DOMAIN queue[g] : queue[g][i] \in Requests
    BY QueuesAre DEF Parts
  <2>2. CASE g # h
    <3>1. \A i \in DOMAIN queue[g] : queue[g][i] \in Requests \ {r}
      BY <1>2, <2>1, <2>2 DEF HostInv
    <3> QED BY <1>5, <1>9, <2>1, <2>2, <3>1 DEF HostInv
  <2>3. CASE g = h
    <3>1. \A j \in DOMAIN w \ {k} : w[j] \in Requests \ {r} /\ conn[w[j]].at = "queued" /\ conn[w[j]].host = h
      BY <1>4, <2>1, <2>3 DEF HostInv
    <3>2. \A i \in DOMAIN v : conn'[v[i]].at = "queued" /\ conn'[v[i]].host = h
      BY <1>9, <1>10, <3>1
    <3>3. ASSUME NEW i \in DOMAIN v, NEW j \in DOMAIN v, v[i] = v[j] PROVE i = j
      <4>1. PICK m \in DOMAIN w : v[i] = w[m] /\ m = (IF i < k THEN i ELSE i + 1)
        BY <1>10
      <4>2. PICK n \in DOMAIN w : v[j] = w[n] /\ n = (IF j < k THEN j ELSE j + 1)
        BY <1>10
      <4>3. m = n
        BY <1>6, <3>3, <4>1, <4>2 DEF HostInv
      <4>4. i \in Nat /\ j \in Nat /\ k \in Nat
        BY <1>7, <1>4
      <4> QED BY <4>1, <4>2, <4>3, <4>4
    <3> QED BY <2>3, <3>2, <3>3 DEF HostInv
  <2> QED BY <2>2, <2>3
<1>12. ASSUME NEW q \in Requests \ {r}, conn[q].at = "queued"
       PROVE  \E i \in DOMAIN queue'[conn[q].host] : queue'[conn[q].host][i] = q
  <2>1. PICK i \in DOMAIN queue[conn[q].host] : queue[conn[q].host][i] = q
    BY <1>12 DEF Parts, RequestInv
  <2>2. conn[q].host \in Hosts
    BY SocketsAre DEF Conns
  <2>3. CASE conn[q].host = h
    <3>1. i # k /\ i \in DOMAIN w /\ w[i] = q
      BY <1>4, <2>1, <2>3
    <3>2. CASE i < k
      <4>1. i \in DOMAIN v /\ v[i] = q
        BY <1>4, <1>7, <3>1, <3>2
      <4> QED BY <2>3, <4>1
    <3>3. CASE i > k
      <4>1. i - 1 \in DOMAIN v /\ ~(i - 1 < k) /\ (i - 1) + 1 = i
        BY <1>4, <1>7, <3>1, <3>3
      <4>2. v[i - 1] = q
        BY <1>7, <3>1, <4>1
      <4> QED BY <2>3, <4>1, <4>2
    <3> QED BY <1>4, <1>7, <3>1, <3>2, <3>3
  <2>4. CASE conn[q].host # h
    BY <1>5, <2>1, <2>2, <2>4
  <2> QED BY <2>3, <2>4
<1>13. \A g \in Hosts : queue'[g] # <<>> => queue[g] # <<>>
  <2>1. queue[h] # <<>>
    <3>1. Len(<<>>) = 0 /\ Len(queue[h]) # 0
      BY <1>4, <1>7
    <3> QED BY <3>1
  <2> QED BY <1>5, <2>1
<1>14. timers' = timers /\ unwoken' = unwoken /\ timers' \subseteq Hosts /\ unwoken' \subseteq Hosts
  BY <1>3 DEF TypeOK
<1>15. conn[r].at \notin Active /\ x.at \notin Active
  BY <1>1 DEF Active
<1> QED BY <1>1, <1>3, <1>8, <1>11, <1>12, <1>13, <1>14, <1>15, AloneParts

(***************************************************************************)
(* Closing the session                                                     *)
(***************************************************************************)
ClosedSocket(s) == [socks[s] EXCEPT !.at = "closed", !.busy = FALSE]

LEMMA CloseIs ==
    ASSUME TypeOK, Close
    PROVE  /\ \A q \in Requests :
                /\ conn[q].at = "new" => conn'[q] = conn[q]
                /\ conn[q].at # "new" => /\ conn'[q] \in Conns /\ conn'[q].at = "done"
                                         /\ conn'[q].heard = conn[q].heard
                                         /\ conn'[q].redirects = conn[q].redirects
           /\ conn' \in [Requests -> Conns] /\ socks' \in Seq(Sockets) /\ Socks' = Socks
           /\ \A s \in Socks : /\ ~socks'[s].busy /\ socks'[s].at = "closed"
                               /\ socks'[s].wire = socks[s].wire /\ socks'[s].eof = socks[s].eof
                               /\ socks'[s].reused = socks[s].reused
           /\ queue' = [h \in Hosts |-> <<>>]
<1>1. \A q \in Requests :
        /\ conn[q].at = "new" => conn'[q] = conn[q]
        /\ conn[q].at # "new" => conn'[q] = [conn[q] EXCEPT !.at = "done"]
  BY DEF Close
<1>2. \A q \in Requests : conn[q] \in Conns
  BY SocketsAre
<1>3. ASSUME NEW q \in Requests, conn[q].at # "new"
      PROVE  /\ conn'[q] \in Conns /\ conn'[q].at = "done" /\ conn'[q].heard = conn[q].heard
             /\ conn'[q].redirects = conn[q].redirects
  <2>1. PICK c \in Conns : c = conn[q]
    BY <1>2
  <2>2. conn'[q] = [c EXCEPT !.at = "done"]
    BY <1>1, <1>3, <2>1
  <2> QED BY <2>1, <2>2 DEF Conns
<1>4. conn' \in [Requests -> Conns]
  <2>1. conn' = [r \in Requests |-> IF conn[r].at = "new" THEN conn[r] ELSE [conn[r] EXCEPT !.at = "done"]]
    BY DEF Close
  <2>2. \A q \in Requests : conn'[q] \in Conns
    BY <1>1, <1>2, <1>3
  <2> QED BY <2>1, <2>2
<1>5. ASSUME NEW s \in Socks
      PROVE  /\ socks'[s] = ClosedSocket(s) /\ ClosedSocket(s) \in Sockets
             /\ ~socks'[s].busy /\ socks'[s].at = "closed"
             /\ socks'[s].wire = socks[s].wire /\ socks'[s].eof = socks[s].eof
             /\ socks'[s].reused = socks[s].reused
  <2>1. socks[s] \in Sockets
    BY SocketsAre
  <2>2. socks'[s] = ClosedSocket(s)
    BY DEF Close, ClosedSocket
  <2> QED BY <2>1, <2>2 DEF ClosedSocket, Sockets
<1>6. socks' \in Seq(Sockets) /\ Socks' = Socks
  <2>1. socks' = [s \in Socks |-> ClosedSocket(s)]
    BY DEF Close, ClosedSocket
  <2>2. Socks = 1..Len(socks) /\ Len(socks) \in Nat
    BY SocketsAre
  <2>3. socks' \in [1..Len(socks) -> Sockets]
    BY <1>5, <2>1, <2>2
  <2>4. socks' \in Seq(Sockets)
    BY <2>2, <2>3, SeqDef
  <2>5. Socks' = Socks
    BY <2>1 DEF Socks
  <2> QED BY <2>4, <2>5
<1>7. queue' = [h \in Hosts |-> <<>>]
  BY DEF Close
<1> QED BY <1>1, <1>3, <1>4, <1>5, <1>6, <1>7

LEMMA CloseParts ==
    ASSUME TypeOK, Parts, Close
    PROVE  TypeOK' /\ Parts'
<1>1. /\ \A h \in Hosts : queue'[h] = <<>> /\ DOMAIN queue'[h] = {}
      /\ queue' \in [Hosts -> Seq(Requests)]
  <2>1. queue' = [h \in Hosts |-> <<>>]
    BY CloseIs
  <2>2. \A h \in Hosts : queue'[h] = <<>>
    BY <2>1
  <2>3. <<>> \in Seq(Requests) /\ DOMAIN <<>> = {}
    OBVIOUS
  <2> QED BY <2>1, <2>2, <2>3
<1>2. TypeOK'
  <2>1. /\ session' \in {"on", "off"} /\ timers' \in SUBSET Hosts /\ hung' \in BOOLEAN
        /\ closes' \in 0..MaxCloses /\ runs' \in [Requests -> Nat] /\ unwoken' \in SUBSET Hosts
    BY DEF Close, TypeOK
  <2>2. conn' \in [Requests -> Conns] /\ socks' \in Seq(Sockets)
    BY CloseIs
  <2> QED BY <1>1, <2>1, <2>2 DEF TypeOK, Conns, Sockets, Entries
<1>3. \A q \in Requests : conn'[q].at \in {"new", "done"} /\ conn'[q].at \notin Active
  BY CloseIs DEF Active
<1>4. ASSUME NEW q \in Requests PROVE RequestInv(q)'
  <2>1. RequestInv(q)
    BY DEF Parts
  <2>2. conn'[q].heard = conn[q].heard /\ (conn'[q].at # "done" => conn'[q] = conn[q])
    BY CloseIs
  <2> QED BY <1>3, <2>1, <2>2 DEF RequestInv
<1>5. ASSUME NEW s \in Socks' PROVE SocketInv(s)'
  <2>1. /\ s \in Socks /\ SocketInv(s) /\ ~socks'[s].busy /\ socks'[s].at = "closed"
        /\ socks'[s].wire = socks[s].wire /\ runs' = runs
    BY CloseIs DEF Parts, Close
  <2>2. ASSUME NEW i \in DOMAIN socks[s].wire PROVE Earnest(s, i)'
    <3>1. Earnest(s, i) /\ socks[s].wire[i].of \in Requests
      BY <2>1, EntryIs, SocketsAre DEF SocketInv
    <3>2. conn'[socks[s].wire[i].of].at # "new"
      BY <3>1, CloseIs DEF Earnest
    <3> QED BY <2>1, <3>1, <3>2 DEF Earnest
  <2> QED BY <2>1, <2>2 DEF SocketInv
<1>6. (\A h \in Hosts : HostInv(h)') /\ QueueIsWatched'
  BY <1>1 DEF HostInv, QueueIsWatched
<1>7. Distinct'
  BY <1>3 DEF Distinct
<1> QED BY <1>2, <1>4, <1>5, <1>6, <1>7 DEF Parts

(***************************************************************************)
(* The invariant holds.                                                    *)
(***************************************************************************)
LEMMA StutterParts ==
    ASSUME TypeOK, Parts, UNCHANGED <<session, conn, pool, net>>, hung' \in BOOLEAN
    PROVE  TypeOK' /\ Parts'
<1>1. /\ session' = session /\ conn' = conn /\ queue' = queue /\ timers' = timers
      /\ unwoken' = unwoken /\ socks' = socks /\ closes' = closes /\ runs' = runs
  BY DEF pool, net
<1>2. TypeOK'
  BY <1>1 DEF TypeOK
<1>3. (\A r \in Requests : RequestInv(r)') /\ (\A s \in Socks' : SocketInv(s)')
  BY <1>1 DEF Parts, RequestInv, LastIs, SocketInv, Earnest, Sock, Wire, Socks
<1>4. (\A h \in Hosts : HostInv(h)') /\ Distinct' /\ QueueIsWatched'
  BY <1>1 DEF Parts, HostInv, Distinct, QueueIsWatched, Busy, Socks
<1> QED BY <1>2, <1>3, <1>4 DEF Parts

\* The cases of a step
LEMMA Steps ==
    ASSUME TypeOK, Next
    PROVE  \/ \E r \in Requests :
                \/ Request(r) \/ Refuse(r) \/ Connected(r) \/ Write(r)
                \/ Ends(r) \/ Returns(r) \/ ReadCutChunks(r)
                \/ (Cancel(r) /\ conn[r].at = "queued")
           \/ \E h \in Hosts : ServeQueue(h)
           \/ Close
           \/ \E s \in Socks : ServerRuns(s) \/ ServerAnswers(s) \/ ServerCloses(s)
<1>1. CASE Server
  BY <1>1 DEF Server
<1>2. CASE Client
  <2>1. ASSUME NEW r \in Requests, Request(r) \/ Refuse(r) \/ Progress(r) \/ Cancel(r)
        PROVE  \/ Request(r) \/ Refuse(r) \/ Connected(r) \/ Write(r)
               \/ Ends(r) \/ Returns(r) \/ ReadCutChunks(r)
               \/ (Cancel(r) /\ conn[r].at = "queued")
    <3>1. Cancel(r) => conn[r].at = "queued" \/ conn[r].at \in Active
      BY DEF Cancel, Active
    <3>2. Progress(r) => \/ Connected(r) \/ Write(r) \/ Ends(r) \/ Returns(r) \/ ReadCutChunks(r)
      BY DEF Progress, Ends, Returns
    <3> QED BY <2>1, <3>1, <3>2 DEF Ends
  <2> QED BY <1>2, <2>1 DEF Client
<1> QED BY <1>1, <1>2 DEF Next

LEMMA PartsStep ==
    ASSUME TypeOK, Parts, [Next]_vars
    PROVE  TypeOK' /\ Parts'
<1>1. ASSUME NEW r \in Requests, Request(r) PROVE TypeOK' /\ Parts'
  BY <1>1, RequestParts
<1>2. ASSUME NEW r \in Requests, Refuse(r) PROVE TypeOK' /\ Parts'
  BY <1>2, RefuseParts
<1>3. ASSUME NEW r \in Requests, Connected(r) PROVE TypeOK' /\ Parts'
  BY <1>3, ConnectedMoves, MovesParts
<1>4. ASSUME NEW r \in Requests, Write(r) PROVE TypeOK' /\ Parts'
  BY <1>4, WriteMoves, MovesParts
<1>5. ASSUME NEW r \in Requests, Ends(r) PROVE TypeOK' /\ Parts'
  BY <1>5, EndsIsOver, OverParts
<1>6. ASSUME NEW r \in Requests, Returns(r) PROVE TypeOK' /\ Parts'
  BY <1>6, ReturnsIsAgain, AgainParts
<1>7. ASSUME NEW r \in Requests, ReadCutChunks(r) PROVE TypeOK' /\ Parts'
  <2>1. UNCHANGED <<session, conn, pool, net>> /\ hung' \in BOOLEAN
    BY <1>7 DEF ReadCutChunks
  <2> QED BY <2>1, StutterParts
<1>8. ASSUME NEW r \in Requests, Cancel(r), conn[r].at = "queued" PROVE TypeOK' /\ Parts'
  BY <1>8, WithdrawParts
<1>9. ASSUME NEW h \in Hosts, ServeQueue(h) PROVE TypeOK' /\ Parts'
  BY <1>9, ServeQueueParts
<1>10. CASE Close
  BY <1>10, CloseParts
<1>11. ASSUME NEW s \in Socks, ServerRuns(s) \/ ServerAnswers(s) \/ ServerCloses(s)
       PROVE  TypeOK' /\ Parts'
  BY <1>11, ServerDoes, ServesParts
<1>12. CASE UNCHANGED vars
  <2>1. UNCHANGED <<session, conn, pool, net>> /\ hung' \in BOOLEAN
    BY <1>12 DEF vars, TypeOK
  <2> QED BY <2>1, StutterParts
<1> QED BY <1>1, <1>2, <1>3, <1>4, <1>5, <1>6, <1>7, <1>8, <1>9, <1>10, <1>11, <1>12, Steps

LEMMA PartsInit == Init => TypeOK /\ Parts
<1> SUFFICES ASSUME Init PROVE TypeOK /\ Parts
  OBVIOUS
<1>1. \A r \in Requests : /\ conn[r].at = "new" /\ conn[r].heard = None
                          /\ conn[r] \in Conns
  <2>1. 0 \in 0..MaxRedirects /\ 0 \in Nat
    BY HttpAssumption
  <2> QED BY <2>1 DEF Init, Conns
<1>2. Socks = {} /\ socks \in Seq(Sockets)
  BY DEF Init, Socks
<1>3. TypeOK
  <2>1. conn \in [Requests -> Conns]
    <3>1. conn \in [Requests -> {[at |-> "new", host |-> h, sock |-> 0, redirects |-> 0,
                                  heard |-> None] : h \in Hosts}]
      BY DEF Init
    <3> QED BY <1>1, <3>1
  <2>2. queue \in [Hosts -> Seq(Requests)] /\ closes \in 0..MaxCloses
    BY HttpAssumption DEF Init
  <2> QED BY <1>2, <2>1, <2>2 DEF Init, TypeOK, Conns, Sockets, Entries
<1>4. \A h \in Hosts : queue[h] = <<>> /\ DOMAIN queue[h] = {}
  BY DEF Init
<1>5. Parts
  BY <1>1, <1>2, <1>4 DEF Parts, RequestInv, SocketInv, HostInv, Distinct, QueueIsWatched, Active
<1> QED BY <1>3, <1>5

\* Who is where, as numbers
LEMMA OneQueued ==
    ASSUME TypeOK, Parts, NEW h \in Hosts, NEW r \in Requests
    PROVE  Cardinality({i \in DOMAIN queue[h] : queue[h][i] = r}) =
             IF conn[r].at = "queued" /\ conn[r].host = h THEN 1 ELSE 0
<1> DEFINE S == {i \in DOMAIN queue[h] : queue[h][i] = r}
<1>1. HostInv(h) /\ RequestInv(r)
  BY DEF Parts
<1>2. CASE conn[r].at = "queued" /\ conn[r].host = h
  <2>1. PICK i \in DOMAIN queue[h] : queue[h][i] = r
    BY <1>1, <1>2 DEF RequestInv
  <2>2. S = {i}
    BY <1>1, <2>1 DEF HostInv
  <2> HIDE DEF S
  <2>3. Cardinality(S) = 1
    BY <2>2, FS_Singleton
  <2> QED BY <1>2, <2>3 DEF S
<1>3. CASE ~(conn[r].at = "queued" /\ conn[r].host = h)
  <2>1. S = {}
    BY <1>1, <1>3 DEF HostInv
  <2> HIDE DEF S
  <2>2. Cardinality(S) = 0
    BY <2>1, FS_EmptySet
  <2> QED BY <1>3, <2>2 DEF S
<1> QED BY <1>2, <1>3

LEMMA OneOwner ==
    ASSUME TypeOK, Parts, NEW s \in Socks
    PROVE  Cardinality({r \in Requests : conn[r].at \in {"connecting", "writing", "reading"}
                                         /\ conn[r].sock = s}) = IF socks[s].busy THEN 1 ELSE 0
<1> DEFINE S == {r \in Requests : conn[r].at \in {"connecting", "writing", "reading"} /\ conn[r].sock = s}
<1>1. S = {r \in Requests : conn[r].at \in Active /\ conn[r].sock = s}
  BY DEF Active
<1>2. CASE socks[s].busy
  <2>1. PICK r \in Requests : conn[r].at \in Active /\ conn[r].sock = s
    BY <1>2 DEF Parts, SocketInv
  <2>2. S = {r}
    BY <1>1, <2>1 DEF Parts, Distinct
  <2> HIDE DEF S
  <2>3. Cardinality(S) = 1
    BY <2>2, FS_Singleton
  <2> QED BY <1>2, <2>3 DEF S
<1>3. CASE ~socks[s].busy
  <2>1. S = {}
    BY <1>1, <1>3 DEF Parts, RequestInv, Sock
  <2> HIDE DEF S
  <2>2. Cardinality(S) = 0
    BY <2>1, FS_EmptySet
  <2> QED BY <1>3, <2>2 DEF S
<1> QED BY <1>2, <1>3

LEMMA PartsAlways == Spec => [](TypeOK /\ Parts)
<1>1. TypeOK /\ Parts /\ [Next]_vars => (TypeOK /\ Parts)'
  BY PartsStep
<1> QED BY <1>1, PartsInit, PTL DEF Spec

\* Every request that was made and is not over is once in the queue of its
\* host, or has a busy connection that no other has; no connection stays busy
\* for nobody; and a queue with requests will be looked at: what
\* purple_http_keepalive_pool_request and _release keep.
THEOREM RequestsHaveAPlace == Spec => []PoolInv
<1>1. TypeOK /\ Parts => PoolInv
  BY OneQueued, OneOwner DEF PoolInv, InOnePlace, Parts
<1> QED BY <1>1, PartsAlways, PTL

(***************************************************************************)
(* It keeps HttpPromise.                                                   *)
(***************************************************************************)
Stage(r) == IF conn[r].at \in {"new", "done"} THEN conn[r].at ELSE "asked"

\* A step that ends R, and lets them hear what is in heard.
LEMMA Finishes ==
    ASSUME NEW R \in SUBSET Requests, NEW heard \in [R -> Requests \cup {None}],
           \A q \in R : Stage(q) = "asked" /\ conn'[q].at = "done" /\ conn'[q].heard = heard[q],
           \A q \in Requests \ R : Stage(q)' = Stage(q) /\ conn'[q].heard = conn[q].heard,
           \A q \in R : heard[q] = None \/ Hears(q, heard[q]),
           runs' = runs
    PROVE  Promise!Finish(R)
<1> DEFINE stage == [r \in Requests |-> IF conn[r].at \in {"new", "done"} THEN conn[r].at ELSE "asked"]
           answer == [r \in Requests |-> conn[r].heard]
           exposed == {r \in Requests : conn[r].at = "reading" /\ Sock(r).cut}
<1>1. \A r \in R : stage[r] = "asked"
  BY DEF Stage
<1>2. stage' = [r \in Requests |-> IF r \in R THEN "done" ELSE stage[r]]
  BY DEF Stage
<1>3. heard \in [R -> {r \in Requests : runs[r] > 0} \cup {None}]
  BY DEF Hears
<1>4. \A r \in R : heard[r] \in {r, None} \/ r \in exposed
  BY DEF Hears
<1>5. answer' = [r \in Requests |-> IF r \in R THEN heard[r] ELSE answer[r]]
  OBVIOUS
<1> QED BY <1>1, <1>2, <1>3, <1>4, <1>5 DEF Promise!Finish

LEMMA QuietStep ==
    ASSUME \A q \in Requests : Stage(q)' = Stage(q) /\ conn'[q].heard = conn[q].heard, runs' = runs
    PROVE  UNCHANGED Promise!promise
  BY DEF Stage, Promise!promise

LEMMA MovesKeeps ==
    ASSUME TypeOK, NEW r \in Requests, NEW at \in {"writing", "reading"}, NEW y, Moves(r, at, y)
    PROVE  UNCHANGED Promise!promise
<1>1. /\ conn' = [conn EXCEPT ![r] = [conn[r] EXCEPT !.at = at]] /\ conn[r] \in Conns
      /\ conn \in [Requests -> Conns] /\ conn[r].at \in Active /\ runs' = runs
  BY SocketsAre DEF Moves
<1>2. conn'[r].at = at /\ conn'[r].heard = conn[r].heard
      /\ \A q \in Requests \ {r} : conn'[q] = conn[q]
  BY <1>1 DEF Conns
<1>3. Stage(r) = "asked" /\ Stage(r)' = "asked"
  BY <1>1, <1>2 DEF Stage, Active
<1>4. \A q \in Requests \ {r} : Stage(q)' = Stage(q)
  BY <1>2 DEF Stage
<1> QED BY <1>1, <1>2, <1>3, <1>4, QuietStep

LEMMA OverKeeps ==
    ASSUME TypeOK, Parts, NEW r \in Requests, IsOver(r)
    PROVE  Promise!Finish({r})
<1>1. PICK x \in Conns, y \in Sockets : Over(r, x, y)
  BY DEF IsOver
<1>2. /\ conn[r].at \in Active /\ conn'[r] = x /\ \A q \in Requests \ {r} : conn'[q] = conn[q]
      /\ x.at = "done" /\ runs' = runs
  BY <1>1, SocketsAre DEF Over, Leaves
<1>3. Stage(r) = "asked" /\ \A q \in Requests \ {r} : Stage(q)' = Stage(q)
  BY <1>2 DEF Stage, Active
<1>4. conn[r].heard = None
  BY <1>2 DEF Parts, RequestInv, Active
<1>5. x.heard = None \/ Hears(r, x.heard)
  BY <1>1 DEF Over
<1>6. x.heard \in Requests \cup {None}
  BY <1>5 DEF Hears
<1>7. PICK heard \in [{r} -> Requests \cup {None}] : heard[r] = x.heard
  <2>1. [q \in {r} |-> x.heard] \in [{r} -> Requests \cup {None}]
    BY <1>6
  <2> QED BY <2>1
<1> QED BY <1>2, <1>3, <1>5, <1>7, Finishes

LEMMA AgainKeeps ==
    ASSUME TypeOK, NEW r \in Requests, IsAgain(r)
    PROVE  UNCHANGED Promise!promise
<1>1. PICK x \in Conns, y \in Sockets : Again(r, x, y)
  BY DEF IsAgain
<1>2. /\ conn[r].at \in Active /\ conn'[r] = x /\ \A q \in Requests \ {r} : conn'[q] = conn[q]
      /\ x.at = "queued" /\ x.heard = conn[r].heard /\ runs' = runs
  BY <1>1, SocketsAre DEF Again, Leaves
<1>3. Stage(r) = "asked" /\ Stage(r)' = "asked" /\ \A q \in Requests \ {r} : Stage(q)' = Stage(q)
  BY <1>2 DEF Stage, Active
<1> QED BY <1>2, <1>3, QuietStep

LEMMA ServeQueueKeeps ==
    ASSUME TypeOK, Parts, NEW h \in Hosts, ServeQueue(h)
    PROVE  UNCHANGED Promise!promise
<1>1. CASE queue[h] = <<>>
  <2>1. conn' = conn /\ runs' = runs
    BY <1>1, ServeQueueDoes
  <2> QED BY <2>1, QuietStep DEF Stage
<1>2. CASE queue[h] # <<>>
  <2>1. PICK r \in Requests : r = queue[h][1] /\ conn[r].at = "queued"
    BY <1>2, HeadIs
  <2>2. PICK x \in Conns, y \in Sockets, s \in Nat : Assigned(h, r, x, y, s)
    BY <1>2, <2>1, ServeQueueDoes
  <2>3. /\ conn'[r] = x /\ (\A q \in Requests \ {r} : conn'[q] = conn[q])
        /\ x.at \in {"connecting", "writing"} /\ x.heard = conn[r].heard /\ runs' = runs
    BY <2>1, <2>2, SocketsAre DEF Assigned
  <2>4. Stage(r) = "asked" /\ Stage(r)' = "asked" /\ \A q \in Requests \ {r} : Stage(q)' = Stage(q)
    BY <2>1, <2>3 DEF Stage
  <2> QED BY <2>3, <2>4, QuietStep
<1> QED BY <1>1, <1>2

LEMMA ServesKeeps ==
    ASSUME TypeOK, Parts, NEW s \in Socks, NEW y \in Sockets, NEW i \in Nat, Does(s, y, i)
    PROVE  [Promise!Next]_(Promise!promise)
<1>1. conn' = conn
  BY DoesIs
<1>2. CASE Runs(s, y, i)
  <2> DEFINE q == socks[s].wire[i].of
  <2>1. q \in Requests /\ conn[q].at # "new"
    <3>1. i \in DOMAIN socks[s].wire
      BY <1>2 DEF Runs, Marked
    <3>2. Earnest(s, i)
      BY <3>1 DEF Parts, SocketInv
    <3> QED BY <3>1, <3>2, EntryIs, SocketsAre DEF Earnest
  <2>2. runs' = [runs EXCEPT ![q] = @ + 1]
    BY <1>2 DEF Runs
  <2> HIDE DEF q
  <2>3. Promise!Run(q)
    BY <1>1, <2>1, <2>2 DEF Promise!Run
  <2> QED BY <2>1, <2>3 DEF Promise!Next
<1>3. CASE Answers(s, y, i) \/ Closes(s, y)
  <2>1. runs' = runs
    BY <1>3 DEF Answers, Closes
  <2> QED BY <1>1, <2>1, QuietStep DEF Stage
<1> QED BY <1>2, <1>3 DEF Does

LEMMA PromiseStep ==
    ASSUME TypeOK, Parts, [Next]_vars
    PROVE  [Promise!Next]_(Promise!promise)
<1>1. ASSUME NEW r \in Requests, Request(r) PROVE Promise!Ask(r)
  <2>1. /\ conn[r].at = "new" /\ conn' = [conn EXCEPT ![r].at = "queued"] /\ runs' = runs
        /\ conn \in [Requests -> Conns] /\ conn[r] \in Conns
    BY <1>1, SocketsAre DEF Request, net
  <2>2. conn'[r].at = "queued" /\ conn'[r].heard = conn[r].heard
        /\ \A q \in Requests \ {r} : conn'[q] = conn[q]
    BY <2>1 DEF Conns
  <2> QED BY <2>1, <2>2 DEF Promise!Ask
<1>2. ASSUME NEW r \in Requests, Refuse(r) PROVE Promise!Refuse(r)
  <2>1. /\ conn[r].at = "new" /\ conn'[r].at = "done" /\ conn'[r].heard = None /\ runs' = runs
        /\ conn[r].heard = None /\ \A q \in Requests \ {r} : conn'[q] = conn[q]
    BY <1>2, EndedValue, SocketsAre DEF Refuse, net, Parts, RequestInv
  <2> QED BY <2>1 DEF Promise!Refuse
<1>3. ASSUME NEW r \in Requests, Connected(r) \/ Write(r) PROVE UNCHANGED Promise!promise
  BY <1>3, ConnectedMoves, WriteMoves, MovesKeeps
<1>4. ASSUME NEW r \in Requests, Ends(r) PROVE Promise!Finish({r})
  BY <1>4, EndsIsOver, OverKeeps
<1>5. ASSUME NEW r \in Requests, Returns(r) PROVE UNCHANGED Promise!promise
  BY <1>5, ReturnsIsAgain, AgainKeeps
<1>6. ASSUME NEW r \in Requests, ReadCutChunks(r) PROVE UNCHANGED Promise!promise
  BY <1>6, QuietStep DEF ReadCutChunks, net, Stage
<1>7. ASSUME NEW r \in Requests, Cancel(r), conn[r].at = "queued" PROVE Promise!Finish({r})
  <2>1. /\ conn'[r].at = "done" /\ conn'[r].heard = None /\ runs' = runs
        /\ \A q \in Requests \ {r} : conn'[q] = conn[q]
    BY <1>7, EndedValue, SocketsAre DEF Cancel, net
  <2>2. PICK heard \in [{r} -> Requests \cup {None}] : heard[r] = None
    <3>1. [q \in {r} |-> None] \in [{r} -> Requests \cup {None}]
      OBVIOUS
    <3> QED BY <3>1
  <2>3. Stage(r) = "asked" /\ \A q \in Requests \ {r} : Stage(q)' = Stage(q)
    BY <1>7, <2>1 DEF Stage
  <2> QED BY <2>1, <2>2, <2>3, Finishes
<1>8. ASSUME NEW h \in Hosts, ServeQueue(h) PROVE UNCHANGED Promise!promise
  BY <1>8, ServeQueueKeeps
<1>9. CASE Close
  <2>0. PICK R \in SUBSET Requests : R = {q \in Requests : Stage(q) = "asked"}
    OBVIOUS
  <2>1. runs' = runs /\ \A q \in Requests : conn'[q].heard = conn[q].heard
    BY <1>9, CloseIs DEF Close
  <2>2. \A q \in Requests : /\ Stage(q) = "asked" => conn'[q].at = "done" /\ conn[q].heard = None
                            /\ Stage(q) # "asked" => Stage(q)' = Stage(q)
    BY <1>9, CloseIs DEF Stage, Parts, RequestInv
  <2>3. PICK heard \in [R -> Requests \cup {None}] : \A q \in R : heard[q] = None
    <3>1. [q \in R |-> None] \in [R -> Requests \cup {None}]
      OBVIOUS
    <3> QED BY <3>1
  <2>4. Promise!Finish(R)
    BY <2>0, <2>1, <2>2, <2>3, Finishes
  <2> QED BY <2>4 DEF Promise!Next
<1>10. ASSUME NEW s \in Socks, ServerRuns(s) \/ ServerAnswers(s) \/ ServerCloses(s)
       PROVE  [Promise!Next]_(Promise!promise)
  BY <1>10, ServerDoes, ServesKeeps
<1>11. CASE UNCHANGED vars
  BY <1>11, QuietStep DEF vars, net, Stage
<1>12. ASSUME NEW r \in Requests, Promise!Finish({r}) PROVE Promise!Next
  BY <1>12 DEF Promise!Next
<1> QED BY <1>1, <1>2, <1>3, <1>4, <1>5, <1>6, <1>7, <1>8, <1>9, <1>10, <1>11, <1>12, Steps
      DEF Promise!Next

\* The client implements HttpPromise: purple_http_connection_terminate calls
\* a request back once, whatever is redirected, repeated, cancelled or closed,
\* with its own answer or with none.  Only a request that is read from a
\* connection on which an answer was cut before, may be given what a server
\* answered to another.
THEOREM PromiseIsKept == Spec => KeepsPromise
<1>1. Init => Promise!Init
  BY DEF Init, Promise!Init
<1>2. TypeOK /\ Parts /\ [Next]_vars => [Promise!Next]_(Promise!promise)
  BY PromiseStep
<1> QED BY <1>1, <1>2, PartsAlways, PTL DEF Spec, KeepsPromise, Promise!Spec

(***************************************************************************)
(* How often a request is carried out                                      *)
(***************************************************************************)
LEMMA Counts ==
    ASSUME TypeOK, NEW r \in Requests
    PROVE  /\ IsFiniteSet(Expired(r)) /\ Cardinality(Expired(r)) \in Nat
           /\ runs[r] \in Nat /\ conn[r].redirects \in Nat /\ Unwritten(r) \in {0, 1}
<1>1. IsFiniteSet(Socks)
  <2>1. Socks = 1..Len(socks) /\ Len(socks) \in Nat
    BY SocketsAre
  <2>2. 1 \in Int /\ Len(socks) \in Int
    BY <2>1
  <2> QED BY <2>1, <2>2, FS_Interval
<1>2. Expired(r) \in SUBSET Socks
  BY DEF Expired
<1>3. IsFiniteSet(Expired(r))
  BY <1>1, <1>2, FS_Subset
<1>4. Cardinality(Expired(r)) \in Nat
  BY <1>3, FS_CardinalityType
<1>5. runs[r] \in Nat /\ conn[r].redirects \in Nat
  BY SocketsAre, HttpAssumption DEF TypeOK, Conns
<1>6. Unwritten(r) \in {0, 1}
  BY DEF Unwritten
<1> QED BY <1>3, <1>4, <1>5, <1>6

LEMMA CountsNext ==
    ASSUME TypeOK', NEW r \in Requests
    PROVE  /\ IsFiniteSet(Expired(r)') /\ Cardinality(Expired(r)') \in Nat
           /\ runs'[r] \in Nat /\ conn'[r].redirects \in Nat /\ Unwritten(r)' \in {0, 1}
<1>1. IsFiniteSet(Socks')
  <2>1. socks' \in Seq(Sockets)
    BY DEF TypeOK, Sockets, Entries
  <2>2. Socks' = 1..Len(socks') /\ Len(socks') \in Nat
    BY <2>1, LenProperties DEF Socks
  <2>3. 1 \in Int /\ Len(socks') \in Int
    BY <2>2
  <2> QED BY <2>2, <2>3, FS_Interval
<1>2. Expired(r)' \in SUBSET Socks'
  BY DEF Expired
<1>3. IsFiniteSet(Expired(r)')
  BY <1>1, <1>2, FS_Subset
<1>4. Cardinality(Expired(r)') \in Nat
  BY <1>3, FS_CardinalityType
<1>5. Unwritten(r)' \in {0, 1}
  BY DEF Unwritten
<1>6. runs'[r] \in Nat /\ conn'[r].redirects \in Nat
  <2>1. conn' \in [Requests -> Conns] /\ runs' \in [Requests -> Nat]
    BY DEF TypeOK, Conns
  <2>2. conn'[r].redirects \in 0..MaxRedirects
    BY <2>1 DEF Conns
  <2> QED BY <2>1, <2>2, HttpAssumption
<1> QED BY <1>3, <1>4, <1>5, <1>6

\* What a step costs is paid by what it takes from Asked, or adds to Expired.
LEMMA Balance ==
    ASSUME TypeOK, TypeOK', NEW r \in Requests, RunsOf(r), IsFiniteSet(Asked(r)'),
           NEW a \in {-1, 0, 1}, NEW e \in {0, 1},
           Cardinality(Asked(r)') + a <= Cardinality(Asked(r)),
           Cardinality(Expired(r)) + e <= Cardinality(Expired(r)'),
           runs'[r] + Unwritten(r)' + conn[r].redirects
             <= runs[r] + Unwritten(r) + conn'[r].redirects + a + e
    PROVE  RunsOf(r)'
<1>1. PICK v \in {0, 1} : v = Unwritten(r)
  BY Counts
<1>2. PICK w \in {0, 1} : w = Unwritten(r)'
  BY CountsNext
<1>3. PICK m \in Nat, n \in Nat : m = Cardinality(Asked(r)) /\ n = Cardinality(Asked(r)')
  BY FS_CardinalityType DEF RunsOf
<1>4. PICK c \in Nat, d \in Nat : c = Cardinality(Expired(r)) /\ d = Cardinality(Expired(r)')
  BY Counts, CountsNext
<1>5. PICK g \in Nat, h \in Nat : g = runs[r] /\ h = runs'[r]
  BY Counts, CountsNext
<1>6. PICK x \in Nat, y \in Nat : x = conn[r].redirects /\ y = conn'[r].redirects
  BY Counts, CountsNext
<1>7. g + v + m <= 1 + x + c
  BY <1>1, <1>3, <1>4, <1>5, <1>6 DEF RunsOf
<1>8. n + a <= m /\ c + e <= d /\ h + w + x <= g + v + y + a + e
  BY <1>1, <1>2, <1>3, <1>4, <1>5, <1>6
<1>9. h + w + n <= 1 + y + d
  BY <1>7, <1>8
<1> QED BY <1>2, <1>3, <1>4, <1>5, <1>6, <1>9 DEF RunsOf

LEMMA AskedLess ==
    ASSUME NEW r \in Requests, IsFiniteSet(Asked(r)),
           \A s \in Socks', i \in Nat : AskedAt(r, s, i)' => s \in Socks /\ AskedAt(r, s, i)
    PROVE  /\ Asked(r)' \subseteq Asked(r) /\ IsFiniteSet(Asked(r)')
           /\ Cardinality(Asked(r)') + 0 <= Cardinality(Asked(r))
<1>1. ASSUME NEW p \in Asked(r)' PROVE p \in Asked(r)
  <2>1. p \in Socks' \X Nat /\ AskedAt(r, p[1], p[2])'
    BY DEF Asked
  <2>2. PICK s \in Socks', i \in Nat : p = <<s, i>>
    BY <2>1
  <2>3. s \in Socks /\ AskedAt(r, s, i)
    BY <2>1, <2>2
  <2> QED BY <2>2, <2>3 DEF Asked
<1>2. PICK A, B : A = Asked(r) /\ B = Asked(r)'
  OBVIOUS
<1>3. B \in SUBSET A /\ IsFiniteSet(A)
  BY <1>1, <1>2
<1>4. IsFiniteSet(B) /\ Cardinality(B) <= Cardinality(A) /\ Cardinality(B) \in Nat
  BY <1>3, FS_Subset, FS_CardinalityType
<1> QED BY <1>2, <1>3, <1>4

\* The same, and what is at i on the wire of s is not asked any more.
LEMMA AskedOneLess ==
    ASSUME NEW r \in Requests, IsFiniteSet(Asked(r)), Asked(r)' \subseteq Asked(r),
           NEW s \in Socks, NEW i \in Nat, AskedAt(r, s, i), ~AskedAt(r, s, i)'
    PROVE  IsFiniteSet(Asked(r)') /\ Cardinality(Asked(r)') + 1 <= Cardinality(Asked(r))
<1>1. <<s, i>> \in Asked(r) /\ <<s, i>> \notin Asked(r)'
  BY DEF Asked
<1>2. PICK A, B : A = Asked(r) /\ B = Asked(r)'
  OBVIOUS
<1>3. IsFiniteSet(A \ {<<s, i>>}) /\ Cardinality(A \ {<<s, i>>}) = Cardinality(A) - 1
      /\ Cardinality(A) \in Nat
  BY <1>1, <1>2, FS_RemoveElement, FS_CardinalityType
<1>4. B \in SUBSET (A \ {<<s, i>>})
  BY <1>1, <1>2
<1>5. Cardinality(B) <= Cardinality(A \ {<<s, i>>}) /\ IsFiniteSet(B) /\ Cardinality(B) \in Nat
  BY <1>3, <1>4, FS_Subset, FS_CardinalityType
<1> QED BY <1>2, <1>3, <1>5

LEMMA ExpiredMore ==
    ASSUME TypeOK', NEW r \in Requests,
           \A s \in Socks : ExpiredAt(r, s) => s \in Socks' /\ ExpiredAt(r, s)'
    PROVE  Cardinality(Expired(r)) + 0 <= Cardinality(Expired(r)')
<1>1. Expired(r) \in SUBSET (Expired(r)')
  BY DEF Expired
<1>2. PICK A, B : A = Expired(r) /\ B = Expired(r)'
  OBVIOUS
<1>3. A \in SUBSET B /\ IsFiniteSet(B)
  BY <1>1, <1>2, CountsNext
<1>4. IsFiniteSet(A) /\ Cardinality(A) <= Cardinality(B) /\ Cardinality(A) \in Nat
  BY <1>3, FS_Subset, FS_CardinalityType
<1> QED BY <1>2, <1>4

\* Nothing is asked anew, and nothing forgotten that has expired.
LEMMA Fewer ==
    ASSUME TypeOK, TypeOK', NEW r \in Requests, RunsOf(r),
           runs'[r] = runs[r], conn'[r].redirects = conn[r].redirects,
           Unwritten(r)' <= Unwritten(r),
           \A s \in Socks', i \in Nat : AskedAt(r, s, i)' => s \in Socks /\ AskedAt(r, s, i),
           \A s \in Socks : ExpiredAt(r, s) => s \in Socks' /\ ExpiredAt(r, s)'
    PROVE  RunsOf(r)'
<1>1. IsFiniteSet(Asked(r))
  BY DEF RunsOf
<1>2. IsFiniteSet(Asked(r)') /\ Cardinality(Asked(r)') + 0 <= Cardinality(Asked(r))
  BY <1>1, AskedLess
<1>3. Cardinality(Expired(r)) + 0 <= Cardinality(Expired(r)')
  BY ExpiredMore
<1>4. runs'[r] + Unwritten(r)' + conn[r].redirects
        <= runs[r] + Unwritten(r) + conn'[r].redirects + 0 + 0
  BY Counts, CountsNext
<1> QED BY <1>2, <1>3, <1>4, Balance

\* A request that leaves its connection takes no request from a wire that its
\* server may still carry out.
LEMMA LeavesAsked ==
    ASSUME TypeOK, Parts, NEW r \in Requests, NEW x, NEW y, Leaves(r, x, y), x.at \in {"done", "queued"},
           NEW q \in Requests
    PROVE  /\ \A s \in Socks', i \in Nat : AskedAt(q, s, i)' => s \in Socks /\ AskedAt(q, s, i)
           /\ \A s \in Socks : ExpiredAt(q, s) => s \in Socks' /\ ExpiredAt(q, s)'
           /\ \A t : t = conn[r].sock => \A i : ~Current(q, t, i)'
<1>0. PICK t \in Socks : t = conn[r].sock
  BY ActiveIs DEF Leaves
<1>1. /\ Socks' = Socks /\ socks'[t] = y /\ \A s \in Socks \ {t} : socks'[s] = socks[s]
      /\ Remains(y.wire, socks[t].wire) /\ y.eof = socks[t].eof /\ socks[t].at # "closed"
  BY <1>0, ActiveIs DEF Leaves, Sets
<1>2. conn'[r] = x /\ (q # r => conn'[q] = conn[q])
  BY SocketsAre DEF Leaves
<1>3. \A i : ~Current(q, t, i)'
  <2>1. CASE q = r
    BY <1>2, <2>1 DEF Current
  <2>2. CASE q # r
    BY <1>0, <1>2, <2>2 DEF Current, Parts, Distinct, Leaves, Active
  <2> QED BY <2>1, <2>2
<1>4. ASSUME NEW s \in Socks, s # t, NEW i, Current(q, s, i)' PROVE Current(q, s, i)
  BY <1>1, <1>2, <1>4 DEF Current
<1>5. ASSUME NEW s \in Socks', NEW i \in Nat, AskedAt(q, s, i)' PROVE s \in Socks /\ AskedAt(q, s, i)
  <2>1. CASE s = t
    <3>1. i \in DOMAIN y.wire /\ y.wire[i].of = q /\ y.wire[i].at = "asked" /\ ~y.eof
      BY <1>1, <1>3, <1>5, <2>1 DEF AskedAt
    <3> QED BY <1>1, <2>1, <3>1 DEF AskedAt, Remains
  <2>2. CASE s # t
    BY <1>1, <1>4, <1>5, <2>2 DEF AskedAt
  <2> QED BY <2>1, <2>2
<1>6. ASSUME NEW s \in Socks, ExpiredAt(q, s) PROVE s \in Socks' /\ ExpiredAt(q, s)'
  <2>1. s # t
    BY <1>1, <1>6 DEF ExpiredAt
  <2> QED BY <1>1, <1>6, <2>1 DEF ExpiredAt
<1> QED BY <1>0, <1>3, <1>5, <1>6

\* The others do not notice.
LEMMA LeavesRuns ==
    ASSUME TypeOK, TypeOK', Parts, NEW r \in Requests, NEW x, NEW y, Leaves(r, x, y),
           x.at \in {"done", "queued"}, NEW q \in Requests \ {r}, RunsOf(q)
    PROVE  RunsOf(q)'
<1>1. conn'[q] = conn[q] /\ runs' = runs
  BY LeavesOthers DEF Leaves
<1>2. Unwritten(q)' <= Unwritten(q)
  BY <1>1, Counts DEF Unwritten
<1>3. /\ \A s \in Socks', i \in Nat : AskedAt(q, s, i)' => s \in Socks /\ AskedAt(q, s, i)
      /\ \A s \in Socks : ExpiredAt(q, s) => s \in Socks' /\ ExpiredAt(q, s)'
  BY LeavesAsked
<1> QED BY <1>1, <1>2, <1>3, Fewer

LEMMA OverRuns ==
    ASSUME TypeOK, TypeOK', Parts, RunsInv, NEW r \in Requests, IsOver(r)
    PROVE  RunsInv'
<1>1. PICK x \in Conns, y \in Sockets : Over(r, x, y)
  BY DEF IsOver
<1>2. Leaves(r, x, y) /\ x.at = "done" /\ x.redirects = conn[r].redirects
  BY <1>1 DEF Over
<1>3. ASSUME NEW q \in Requests \ {r} PROVE RunsOf(q)'
  BY <1>2, LeavesRuns DEF RunsInv
<1>4. RunsOf(r)'
  <2>1. conn'[r] = x /\ runs' = runs /\ RunsOf(r)
    BY <1>2, SocketsAre DEF Leaves, RunsInv
  <2>2. Unwritten(r)' <= Unwritten(r)
    BY <1>2, <2>1, Counts DEF Unwritten
  <2>3. /\ \A s \in Socks', i \in Nat : AskedAt(r, s, i)' => s \in Socks /\ AskedAt(r, s, i)
        /\ \A s \in Socks : ExpiredAt(r, s) => s \in Socks' /\ ExpiredAt(r, s)'
    BY <1>2, LeavesAsked
  <2> QED BY <1>2, <2>1, <2>2, <2>3, Fewer
<1> QED BY <1>3, <1>4 DEF RunsInv

\* A request that returns to a queue is carried out once more, and for that
\* was redirected, or has not been carried out on the connection it leaves, or
\* has one more connection that was closed before it heard.
LEMMA AgainRuns ==
    ASSUME TypeOK, TypeOK', Parts, RunsInv, NEW r \in Requests, IsAgain(r)
    PROVE  RunsInv'
<1>1. PICK x \in Conns, y \in Sockets : Again(r, x, y)
  BY DEF IsAgain
<1>2. Leaves(r, x, y) /\ x.at = "queued" /\ conn[r].at \in Active
  BY <1>1 DEF Again, Leaves
<1>3. ASSUME NEW q \in Requests \ {r} PROVE RunsOf(q)'
  BY <1>2, LeavesRuns DEF RunsInv
<1>4. RunsOf(r)'
  <2>0. PICK t \in Socks : t = conn[r].sock
    BY <1>2, ActiveIs
  <2>1. conn'[r] = x /\ runs' = runs /\ RunsOf(r) /\ Unwritten(r)' = 1
    BY <1>2, SocketsAre DEF Leaves, RunsInv, Unwritten
  <2>2. /\ \A s \in Socks', i \in Nat : AskedAt(r, s, i)' => s \in Socks /\ AskedAt(r, s, i)
        /\ \A s \in Socks : ExpiredAt(r, s) => s \in Socks' /\ ExpiredAt(r, s)'
        /\ \A i : ~Current(r, t, i)'
    BY <1>2, <2>0, LeavesAsked
  <2>3. Asked(r)' \subseteq Asked(r) /\ IsFiniteSet(Asked(r)') /\ IsFiniteSet(Asked(r))
        /\ Cardinality(Asked(r)') + 0 <= Cardinality(Asked(r))
    BY <2>1, <2>2, AskedLess DEF RunsOf
  <2>4. Cardinality(Expired(r)) + 0 <= Cardinality(Expired(r)')
    BY <2>2, ExpiredMore
  <2>5. CASE x.redirects = conn[r].redirects + 1
    <3>1. runs'[r] + Unwritten(r)' + conn[r].redirects
            <= runs[r] + Unwritten(r) + conn'[r].redirects + 0 + 0
      BY <2>1, <2>5, Counts
    <3> QED BY <2>1, <2>3, <2>4, <3>1, Balance
  <2>6. CASE /\ x.redirects = conn[r].redirects /\ Sock(r).eof /\ Sock(r).reused
             /\ y.at = "closed" /\ y.wire = Wire(r)
    <3>1. /\ socks[t].eof /\ socks[t].reused /\ socks'[t] = y /\ Socks' = Socks
          /\ y.at = "closed" /\ y.wire = socks[t].wire /\ y.eof /\ y.reused /\ socks[t].at # "closed"
      BY <1>2, <2>0, <2>6, ActiveIs DEF Leaves, Sets
    <3>2. CASE conn[r].at # "reading"
      <4>1. Unwritten(r) = 1
        BY <1>2, <3>2 DEF Unwritten, Active
      <4>2. runs'[r] + Unwritten(r)' + conn[r].redirects
              <= runs[r] + Unwritten(r) + conn'[r].redirects + 0 + 0
        BY <2>1, <2>6, <4>1, Counts
      <4> QED BY <2>1, <2>3, <2>4, <4>2, Balance
    <3>3. CASE conn[r].at = "reading"
      <4>0. PICK n \in Nat : n = Len(socks[t].wire)
        BY SocketsAre
      <4>1. /\ n \in DOMAIN socks[t].wire /\ socks[t].wire[n].of = r
            /\ socks[t].wire[n].at \in {"asked", "ran", "answered"}
        BY <2>0, <3>3, <4>0, ActiveIs DEF RequestInv, LastIs, Active
      <4>2. Unwritten(r) = 0
        BY <3>3 DEF Unwritten
      <4>3. CASE socks[t].wire[n].at = "asked"
        <5>1. AskedAt(r, t, n)
          BY <2>0, <3>3, <4>0, <4>1, <4>3 DEF AskedAt, Current
        <5>2. ~AskedAt(r, t, n)'
          BY <2>2, <3>1 DEF AskedAt
        <5>3. Cardinality(Asked(r)') + 1 <= Cardinality(Asked(r))
          BY <2>3, <5>1, <5>2, AskedOneLess
        <5>4. runs'[r] + Unwritten(r)' + conn[r].redirects
                <= runs[r] + Unwritten(r) + conn'[r].redirects + 1 + 0
          BY <2>1, <2>6, <4>2, Counts
        <5> QED BY <2>1, <2>3, <2>4, <5>3, <5>4, Balance
      <4>4. CASE socks[t].wire[n].at \in {"ran", "answered"}
        <5>1. t \in Expired(r)'
          BY <3>1, <4>1, <4>4 DEF Expired, ExpiredAt
        <5>2. t \notin Expired(r)
          BY <3>1 DEF Expired, ExpiredAt
        <5>3. PICK A, B : A = Expired(r) /\ B = Expired(r)'
          OBVIOUS
        <5>4. IsFiniteSet(A) /\ IsFiniteSet(B) /\ Cardinality(A) \in Nat /\ Cardinality(B) \in Nat
          BY <5>3, Counts, CountsNext
        <5>5. IsFiniteSet(A \cup {t}) /\ Cardinality(A \cup {t}) = Cardinality(A) + 1
          BY <5>2, <5>3, <5>4, FS_AddElement
        <5>6. A \cup {t} \in SUBSET B
          BY <2>2, <5>1, <5>3 DEF Expired
        <5>7. Cardinality(A \cup {t}) <= Cardinality(B)
          BY <5>4, <5>6, FS_Subset
        <5>8. Cardinality(Expired(r)) + 1 <= Cardinality(Expired(r)')
          BY <5>3, <5>4, <5>5, <5>7
        <5>9. runs'[r] + Unwritten(r)' + conn[r].redirects
                <= runs[r] + Unwritten(r) + conn'[r].redirects + 0 + 1
          BY <2>1, <2>6, <4>2, Counts
        <5> QED BY <2>1, <2>3, <5>8, <5>9, Balance
      <4> QED BY <4>1, <4>3, <4>4
    <3> QED BY <3>2, <3>3
  <2> QED BY <1>1, <2>5, <2>6 DEF Again
<1> QED BY <1>3, <1>4 DEF RunsInv

LEMMA MovesRuns ==
    ASSUME TypeOK, TypeOK', Parts, RunsInv, NEW r \in Requests,
           NEW at \in {"writing", "reading"}, NEW y, Moves(r, at, y)
    PROVE  RunsInv'
<1>0. PICK t \in Socks : t = conn[r].sock
  BY ActiveIs DEF Moves
<1>1. /\ conn' = [conn EXCEPT ![r].at = at] /\ conn[r] \in Conns
      /\ conn \in [Requests -> Conns] /\ conn[r].at \in {"connecting", "writing"} /\ runs' = runs
      /\ conn[r].at \in Active
  BY SocketsAre DEF Moves
<1>2. /\ conn'[r].at = at /\ conn'[r].sock = t /\ conn'[r].redirects = conn[r].redirects
      /\ \A q \in Requests \ {r} : conn'[q] = conn[q]
  BY <1>0, <1>1 DEF Conns
<1>3. PICK w \in Seq(Entries) : w = socks[t].wire
  BY SocketsAre
<1>4. /\ Socks' = Socks /\ socks'[t] = y /\ \A s \in Socks \ {t} : socks'[s] = socks[s]
      /\ y.eof = socks[t].eof /\ socks[t].at # "closed" /\ y.wire \in Seq(Entries)
      /\ \/ at = "writing" /\ y.wire = w
         \/ at = "reading" /\ Added(y.wire, w, r)
  BY <1>0, <1>1, <1>3, ActiveIs, AppendIs DEF Moves, Sets, Sockets
<1>5. ASSUME NEW q \in Requests, NEW s \in Socks, ExpiredAt(q, s) PROVE s \in Socks' /\ ExpiredAt(q, s)'
  BY <1>4, <1>5 DEF ExpiredAt
<1>6. ASSUME NEW q \in Requests, NEW s \in Socks, s # t, NEW i, AskedAt(q, s, i)'
      PROVE  AskedAt(q, s, i)
  BY <1>0, <1>2, <1>4, <1>6 DEF AskedAt, Current
<1>7. ASSUME NEW q \in Requests \ {r} PROVE RunsOf(q)'
  <2>1. RunsOf(q) /\ runs'[q] = runs[q] /\ conn'[q] = conn[q]
    BY <1>1, <1>2 DEF RunsInv
  <2>2. Unwritten(q)' <= Unwritten(q)
    BY <2>1, Counts DEF Unwritten
  <2>3. \A i : ~Current(q, t, i)'
    BY <1>0, <1>1, <2>1 DEF Current, Parts, Distinct, Active
  <2>4. ASSUME NEW i \in Nat, AskedAt(q, t, i)' PROVE AskedAt(q, t, i)
    <3>1. i \in DOMAIN y.wire /\ y.wire[i].of = q /\ y.wire[i].at = "asked" /\ ~y.eof
      BY <1>4, <2>3, <2>4 DEF AskedAt
    <3>2. i \in DOMAIN w /\ w[i] = y.wire[i]
      BY <1>4, <3>1 DEF Added
    <3> QED BY <1>3, <1>4, <3>1, <3>2 DEF AskedAt
  <2> QED BY <1>4, <1>5, <1>6, <2>1, <2>2, <2>4, Fewer
<1>8. RunsOf(r)'
  <2>1. RunsOf(r) /\ runs'[r] = runs[r] /\ Unwritten(r) = 1
    BY <1>1 DEF RunsInv, Unwritten
  <2>2. CASE at = "writing"
    <3>1. \A i \in Nat : AskedAt(r, t, i)' => AskedAt(r, t, i)
      BY <1>2, <1>3, <1>4, <2>2 DEF AskedAt, Current
    <3>2. Unwritten(r)' <= Unwritten(r)
      BY <2>1, CountsNext
    <3> QED BY <1>2, <1>4, <1>5, <1>6, <2>1, <3>1, <3>2, Fewer
  <2>3. CASE at = "reading"
    <3>1. Added(y.wire, w, r)
      BY <1>4, <2>3
    <3>2. PICK n \in Nat : n = Len(y.wire)
      BY <1>4, LenProperties
    <3>3. ASSUME NEW i \in Nat, i # n, AskedAt(r, t, i)' PROVE AskedAt(r, t, i)
      <4>1. i \in DOMAIN y.wire /\ y.wire[i].of = r /\ y.wire[i].at = "asked" /\ ~y.eof
        BY <1>4, <3>2, <3>3 DEF AskedAt, Current
      <4>2. i \in DOMAIN w /\ w[i] = y.wire[i]
        BY <3>1, <3>2, <3>3, <4>1 DEF Added
      <4> QED BY <1>3, <1>4, <4>1, <4>2 DEF AskedAt
    <3>4. PICK A, B : A = Asked(r) /\ B = Asked(r)'
      OBVIOUS
    <3>5. B \in SUBSET (A \cup {<<t, n>>})
      <4>1. ASSUME NEW p \in Asked(r)' PROVE p \in Asked(r) \cup {<<t, n>>}
        <5>1. p \in Socks' \X Nat /\ AskedAt(r, p[1], p[2])'
          BY DEF Asked
        <5>2. PICK s \in Socks', i \in Nat : p = <<s, i>>
          BY <5>1
        <5>3. AskedAt(r, s, i)' /\ s \in Socks
          BY <1>4, <5>1, <5>2
        <5>4. p = <<t, n>> \/ AskedAt(r, s, i)
          BY <1>6, <3>3, <5>2, <5>3
        <5> QED BY <5>2, <5>3, <5>4 DEF Asked
      <4> QED BY <3>4, <4>1
    <3>6. IsFiniteSet(A) /\ Cardinality(A) \in Nat
      BY <2>1, <3>4, FS_CardinalityType DEF RunsOf
    <3>7. IsFiniteSet(A \cup {<<t, n>>})
          /\ (Cardinality(A \cup {<<t, n>>}) = Cardinality(A)
              \/ Cardinality(A \cup {<<t, n>>}) = Cardinality(A) + 1)
      BY <3>6, FS_AddElement
    <3>8. IsFiniteSet(B) /\ Cardinality(B) <= Cardinality(A \cup {<<t, n>>}) /\ Cardinality(B) \in Nat
      BY <3>5, <3>7, FS_Subset, FS_CardinalityType
    <3>9. IsFiniteSet(Asked(r)') /\ Cardinality(Asked(r)') + (-1) <= Cardinality(Asked(r))
      BY <3>4, <3>6, <3>7, <3>8
    <3>10. Cardinality(Expired(r)) + 0 <= Cardinality(Expired(r)')
      BY <1>5, ExpiredMore
    <3>11. Unwritten(r)' = 0
      BY <1>2, <2>3 DEF Unwritten
    <3>12. runs'[r] + Unwritten(r)' + conn[r].redirects
             <= runs[r] + Unwritten(r) + conn'[r].redirects + (-1) + 0
      BY <1>2, <2>1, <3>11, Counts
    <3> QED BY <2>1, <3>9, <3>10, <3>12, Balance
  <2> QED BY <2>2, <2>3
<1> QED BY <1>7, <1>8 DEF RunsInv

LEMMA AssignedRuns ==
    ASSUME TypeOK, TypeOK', Parts, RunsInv, NEW h \in Hosts, NEW r, NEW x, NEW y, NEW s,
           Assigned(h, r, x, y, s)
    PROVE  RunsInv'
<1>1. r \in Requests /\ conn[r].at = "queued"
  BY HeadIs DEF Assigned
<1>2. /\ conn'[r] = x /\ x.at \in {"connecting", "writing"} /\ x.redirects = conn[r].redirects
      /\ runs' = runs /\ \A q \in Requests \ {r} : conn'[q] = conn[q]
  BY <1>1, SocketsAre DEF Assigned
<1>3. /\ Socks' = Socks \cup {s} /\ \A z \in Socks \ {s} : socks'[z] = socks[z]
      /\ socks'[s] = y
      /\ s \in Socks => socks[s].at = "open" /\ y.wire = socks[s].wire /\ y.eof = socks[s].eof
      /\ s \notin Socks => y.wire = <<>>
  BY DEF Assigned
<1>4. ASSUME NEW q \in Requests PROVE RunsOf(q)'
  <2>1. RunsOf(q) /\ runs'[q] = runs[q] /\ conn'[q].redirects = conn[q].redirects
    BY <1>2 DEF RunsInv
  <2>2. Unwritten(q)' <= Unwritten(q)
    <3>1. CASE q = r
      <4>1. Unwritten(q) = 1
        BY <1>1, <3>1 DEF Unwritten
      <4> QED BY <4>1, CountsNext
    <3>2. CASE q # r
      BY <1>2, <3>2, Counts DEF Unwritten
    <3> QED BY <3>1, <3>2
  <2>3. ASSUME NEW z \in Socks', NEW i \in Nat, AskedAt(q, z, i)' PROVE z \in Socks /\ AskedAt(q, z, i)
    <3>1. z \in Socks
      BY <1>3, <2>3 DEF AskedAt
    <3>2. socks'[z].wire = socks[z].wire /\ socks'[z].eof = socks[z].eof
      BY <1>3, <3>1
    <3>3. Current(q, z, i)' => Current(q, z, i)
      BY <1>1, <1>2, <3>2 DEF Current
    <3> QED BY <2>3, <3>1, <3>2, <3>3 DEF AskedAt
  <2>4. \A z \in Socks : ExpiredAt(q, z) => z \in Socks' /\ ExpiredAt(q, z)'
    BY <1>3 DEF ExpiredAt
  <2> QED BY <2>1, <2>2, <2>3, <2>4, Fewer
<1> QED BY <1>4 DEF RunsInv

\* A step of r while it has no connection
LEMMA AloneRuns ==
    ASSUME TypeOK, TypeOK', Parts, RunsInv, NEW r \in Requests, conn[r].at \in {"new", "queued"},
           conn'[r].at \in {"queued", "done"}, conn'[r].redirects = conn[r].redirects,
           \A q \in Requests \ {r} : conn'[q] = conn[q], UNCHANGED net
    PROVE  RunsInv'
<1>1. socks' = socks /\ runs' = runs /\ Socks' = Socks
  BY DEF net, Socks
<1>2. ASSUME NEW q \in Requests PROVE RunsOf(q)'
  <2>1. RunsOf(q) /\ runs'[q] = runs[q] /\ conn'[q].redirects = conn[q].redirects
    BY <1>1 DEF RunsInv
  <2>2. Unwritten(q)' <= Unwritten(q)
    <3>1. CASE q = r
      <4>1. Unwritten(q) = 1
        BY <3>1 DEF Unwritten
      <4> QED BY <4>1, CountsNext
    <3>2. CASE q # r
      BY <3>2, Counts DEF Unwritten
    <3> QED BY <3>1, <3>2
  <2>3. \A s, i : Current(q, s, i)' => Current(q, s, i)
    BY <1>1 DEF Current
  <2>4. \A s \in Socks', i \in Nat : AskedAt(q, s, i)' => s \in Socks /\ AskedAt(q, s, i)
    BY <1>1, <2>3 DEF AskedAt
  <2>5. \A s \in Socks : ExpiredAt(q, s) => s \in Socks' /\ ExpiredAt(q, s)'
    BY <1>1 DEF ExpiredAt
  <2> QED BY <2>1, <2>2, <2>4, <2>5, Fewer
<1> QED BY <1>2 DEF RunsInv

LEMMA CloseRuns ==
    ASSUME TypeOK, TypeOK', Parts, RunsInv, Close
    PROVE  RunsInv'
<1>1. /\ Socks' = Socks /\ runs' = runs
      /\ \A s \in Socks : /\ socks'[s].wire = socks[s].wire /\ socks'[s].eof = socks[s].eof
                          /\ socks'[s].reused = socks[s].reused /\ socks'[s].at = "closed"
  BY CloseIs DEF Close
<1>2. ASSUME NEW q \in Requests PROVE RunsOf(q)'
  <2>1. RunsOf(q) /\ runs'[q] = runs[q] /\ conn'[q].redirects = conn[q].redirects
    BY <1>1, CloseIs DEF RunsInv
  <2>2. (conn[q].at = "new" /\ conn'[q].at = "new") \/ conn'[q].at = "done"
    BY CloseIs
  <2>3. Unwritten(q)' <= Unwritten(q)
    BY <2>2, Counts DEF Unwritten
  <2>4. \A s, i : ~Current(q, s, i)'
    BY <2>2 DEF Current
  <2>5. \A s \in Socks', i \in Nat : AskedAt(q, s, i)' => s \in Socks /\ AskedAt(q, s, i)
    BY <1>1, <2>4 DEF AskedAt
  <2>6. \A s \in Socks : ExpiredAt(q, s) => s \in Socks' /\ ExpiredAt(q, s)'
    BY <1>1 DEF ExpiredAt
  <2> QED BY <2>1, <2>3, <2>5, <2>6, Fewer
<1> QED BY <1>2 DEF RunsInv

LEMMA ServesRuns ==
    ASSUME TypeOK, TypeOK', Parts, RunsInv, NEW s \in Socks, NEW y \in Sockets, NEW i \in Nat,
           Does(s, y, i)
    PROVE  RunsInv'
<1>1. /\ ~socks[s].eof /\ Socks' = Socks /\ socks'[s] = y /\ conn' = conn
      /\ \A x \in Socks \ {s} : socks'[x] = socks[x]
      /\ Len(y.wire) = Len(socks[s].wire) /\ DOMAIN y.wire = DOMAIN socks[s].wire
      /\ \A j \in DOMAIN y.wire : /\ y.wire[j].of = socks[s].wire[j].of
                                  /\ y.wire[j].at = "asked" => socks[s].wire[j].at = "asked"
  BY DoesIs DEF Serves
<1>2. ASSUME NEW q \in Requests
      PROVE  /\ RunsOf(q) /\ conn'[q].redirects = conn[q].redirects /\ Unwritten(q)' = Unwritten(q)
             /\ \A x \in Socks', j \in Nat : AskedAt(q, x, j)' => x \in Socks /\ AskedAt(q, x, j)
             /\ \A x \in Socks : ExpiredAt(q, x) => x \in Socks' /\ ExpiredAt(q, x)'
  <2>1. \A x \in Socks : \A j : Current(q, x, j)' => Current(q, x, j)
    BY <1>1 DEF Current
  <2>2. ASSUME NEW x \in Socks', NEW j \in Nat, AskedAt(q, x, j)' PROVE x \in Socks /\ AskedAt(q, x, j)
    BY <1>1, <2>1, <2>2 DEF AskedAt
  <2>3. \A x \in Socks : ExpiredAt(q, x) => x \in Socks' /\ ExpiredAt(q, x)'
    BY <1>1 DEF ExpiredAt
  <2> QED BY <1>1, <2>2, <2>3 DEF RunsInv, Unwritten
<1>3. ASSUME NEW q \in Requests, runs'[q] = runs[q] PROVE RunsOf(q)'
  <2>1. Unwritten(q)' <= Unwritten(q)
    BY <1>2, Counts
  <2> QED BY <1>2, <1>3, <2>1, Fewer
<1>4. CASE Runs(s, y, i)
  <2>1. PICK w \in Seq(Entries) : w = socks[s].wire
    BY SocketsAre
  <2>2. /\ i \in DOMAIN w /\ w[i].at = "asked" /\ y.wire[i].at = "ran"
        /\ runs' = [runs EXCEPT ![w[i].of] = @ + 1]
    BY <1>4, <2>1 DEF Runs, Marked
  <2>3. PICK q \in Requests : q = w[i].of
    BY <2>2, EntryIs
  <2>4. runs'[q] = runs[q] + 1 /\ \A p \in Requests \ {q} : runs'[p] = runs[p]
    BY <2>2, <2>3 DEF TypeOK
  <2>5. AskedAt(q, s, i) /\ ~AskedAt(q, s, i)'
    BY <1>1, <2>1, <2>2, <2>3 DEF AskedAt
  <2>6. IsFiniteSet(Asked(q)) /\ Asked(q)' \subseteq Asked(q)
    BY <1>2, AskedLess DEF RunsOf
  <2>7. IsFiniteSet(Asked(q)') /\ Cardinality(Asked(q)') + 1 <= Cardinality(Asked(q))
    BY <2>5, <2>6, AskedOneLess
  <2>8. Cardinality(Expired(q)) + 0 <= Cardinality(Expired(q)')
    BY <1>2, ExpiredMore
  <2>9. runs'[q] + Unwritten(q)' + conn[q].redirects
          <= runs[q] + Unwritten(q) + conn'[q].redirects + 1 + 0
    BY <1>2, <2>4, Counts
  <2>10. RunsOf(q)'
    BY <1>2, <2>7, <2>8, <2>9, Balance
  <2> QED BY <1>3, <2>4, <2>10 DEF RunsInv
<1>5. CASE ~Runs(s, y, i)
  <2>1. runs' = runs
    BY <1>5 DEF Does, Answers, Closes
  <2> QED BY <1>3, <2>1 DEF RunsInv
<1> QED BY <1>4, <1>5

LEMMA RunsStep ==
    ASSUME TypeOK, Parts, RunsInv, [Next]_vars
    PROVE  RunsInv'
<1> USE PartsStep
<1>1. ASSUME NEW r \in Requests, Request(r) PROVE RunsInv'
  <2>1. /\ conn[r].at = "new" /\ conn' = [conn EXCEPT ![r].at = "queued"] /\ UNCHANGED net
        /\ conn \in [Requests -> Conns] /\ conn[r] \in Conns
    BY <1>1, SocketsAre DEF Request
  <2>2. conn'[r].at = "queued" /\ conn'[r].redirects = conn[r].redirects
        /\ \A q \in Requests \ {r} : conn'[q] = conn[q]
    BY <2>1 DEF Conns
  <2> QED BY <2>1, <2>2, AloneRuns
<1>2. ASSUME NEW r \in Requests, Refuse(r) \/ (Cancel(r) /\ conn[r].at = "queued") PROVE RunsInv'
  <2>1. /\ conn[r].at \in {"new", "queued"} /\ conn' = Terminated(r, None) /\ UNCHANGED net
    BY <1>2 DEF Refuse, Cancel
  <2>2. conn'[r].at = "done" /\ conn'[r].redirects = conn[r].redirects
        /\ \A q \in Requests \ {r} : conn'[q] = conn[q]
    BY <2>1, EndedValue, SocketsAre
  <2> QED BY <2>1, <2>2, AloneRuns
<1>3. ASSUME NEW r \in Requests, Connected(r) PROVE RunsInv'
  BY <1>3, ConnectedMoves, MovesRuns
<1>4. ASSUME NEW r \in Requests, Write(r) PROVE RunsInv'
  BY <1>4, WriteMoves, MovesRuns
<1>5. ASSUME NEW r \in Requests, Ends(r) PROVE RunsInv'
  BY <1>5, EndsIsOver, OverRuns
<1>6. ASSUME NEW r \in Requests, Returns(r) PROVE RunsInv'
  BY <1>6, ReturnsIsAgain, AgainRuns
<1>same. ASSUME conn' = conn, socks' = socks, runs' = runs PROVE RunsInv'
  BY <1>same DEF RunsInv, RunsOf, Unwritten, Asked, AskedAt, Expired, ExpiredAt, Current, Socks
<1>7. ASSUME NEW r \in Requests, ReadCutChunks(r) PROVE RunsInv'
  BY <1>7, <1>same DEF ReadCutChunks, net
<1>8. ASSUME NEW h \in Hosts, ServeQueue(h) PROVE RunsInv'
  <2>1. CASE queue[h] = <<>>
    BY <1>8, <2>1, <1>same, ServeQueueDoes
  <2>2. CASE queue[h] # <<>>
    BY <1>8, <2>2, ServeQueueDoes, AssignedRuns
  <2> QED BY <2>1, <2>2
<1>9. CASE Close
  BY <1>9, CloseRuns
<1>10. ASSUME NEW s \in Socks, ServerRuns(s) \/ ServerAnswers(s) \/ ServerCloses(s) PROVE RunsInv'
  BY <1>10, ServerDoes, ServesRuns
<1>11. CASE UNCHANGED vars
  BY <1>11, <1>same DEF vars, net
<1> QED BY <1>1, <1>2, <1>3, <1>4, <1>5, <1>6, <1>7, <1>8, <1>9, <1>10, <1>11, Steps

LEMMA RunsInit == Init => RunsInv
<1> SUFFICES ASSUME Init, NEW r \in Requests PROVE RunsOf(r)
  BY DEF RunsInv
<1>1. Asked(r) = {} /\ Expired(r) = {}
  BY DEF Init, Asked, Expired, Socks
<1>2. conn[r].at = "new" /\ conn[r].redirects = 0 /\ runs[r] = 0
  BY DEF Init
<1>3. Unwritten(r) = 1
  BY <1>2 DEF Unwritten
<1>4. Cardinality({}) = 0 /\ IsFiniteSet({})
  BY FS_EmptySet
<1> QED BY <1>1, <1>2, <1>3, <1>4 DEF RunsOf

\* A server carries a request out at most once, once more for each redirect,
\* and once more for each connection that was kept and that the server closed
\* before its answer was read: what the retry of _purple_http_recv costs.
THEOREM RunsHaveReasons == Spec => []RunsAreAccountedFor
<1>1. TypeOK /\ Parts /\ RunsInv => RunsAreAccountedFor
  <2> SUFFICES ASSUME TypeOK, Parts, RunsInv, NEW r \in Requests
               PROVE  runs[r] <= 1 + conn[r].redirects
                        + Cardinality({s \in Socks :
                             /\ socks[s].reused /\ socks[s].eof
                             /\ \E i \in DOMAIN socks[s].wire :
                                  /\ socks[s].wire[i].of = r
                                  /\ socks[s].wire[i].at \in {"ran", "answered"}})
    BY DEF RunsAreAccountedFor
  <2> DEFINE S == {s \in Socks :
                     /\ socks[s].reused /\ socks[s].eof
                     /\ \E i \in DOMAIN socks[s].wire :
                          /\ socks[s].wire[i].of = r
                          /\ socks[s].wire[i].at \in {"ran", "answered"}}
  <2>1. Expired(r) \subseteq S
    BY DEF Expired, ExpiredAt
  <2>2. IsFiniteSet(S)
    <3>1. S \in SUBSET Socks
      OBVIOUS
    <3>2. Socks = 1..Len(socks) /\ Len(socks) \in Int /\ 1 \in Int
      BY SocketsAre
    <3>3. IsFiniteSet(Socks)
      BY <3>2, FS_Interval
    <3> HIDE DEF S
    <3> QED BY <3>1, <3>3, FS_Subset
  <2> HIDE DEF S
  <2>3. Cardinality(Expired(r)) <= Cardinality(S) /\ Cardinality(S) \in Nat
    BY <2>1, <2>2, FS_Subset, FS_CardinalityType
  <2>4. IsFiniteSet(Asked(r)) /\ Cardinality(Asked(r)) \in Nat
    BY FS_CardinalityType DEF RunsInv, RunsOf
  <2> DEFINE a == Cardinality(Asked(r))
             e == Cardinality(Expired(r))
             n == Cardinality(S)
  <2>5. /\ a \in Nat /\ e \in Nat /\ n \in Nat /\ e <= n /\ runs[r] \in Nat
        /\ conn[r].redirects \in Nat /\ Unwritten(r) \in {0, 1}
    BY <2>3, <2>4, Counts
  <2>6. runs[r] + Unwritten(r) + a <= 1 + conn[r].redirects + e
    BY DEF RunsInv, RunsOf
  <2> HIDE DEF a, e, n
  <2>7. runs[r] <= 1 + conn[r].redirects + n
    BY <2>5, <2>6
  <2> QED BY <2>7 DEF n, S
<1>2. TypeOK /\ Parts /\ RunsInv /\ [Next]_vars => RunsInv'
  BY RunsStep
<1>3. Spec => []RunsInv
  BY <1>2, RunsInit, PartsAlways, PTL DEF Spec
<1> QED BY <1>1, <1>3, PartsAlways, PTL

=============================================================================
