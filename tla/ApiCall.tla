------------------------------ MODULE ApiCall ------------------------------
(***************************************************************************)
(* Calls of the API and the authentication they may need: vk-api.cpp,      *)
(* http_cb of httputils.cpp, VkData::authenticate and vk-auth.cpp.         *)
(*                                                                         *)
(* A call travels as callbacks: of its HTTP request, of a timer before the *)
(* request or the call is repeated, or of the authentication it started.   *)
(* These are sets here, so that a call could be in two places or in none.  *)
(***************************************************************************)
EXTENDS Naturals, FiniteSets

CONSTANTS
    Calls,          \* calls that will be made
    Tokens,         \* access tokens the server gives
    NoToken,        \* the empty string
    Account,        \* stands for vk_login, which authenticates too
    MaxRetries,     \* MAX_HTTP_RETRIES
    MaxRefusals,    \* bound: calls refused for their rate
    MaxRevocations, \* bound: tokens that expire
    MaxCrashes      \* bound on crashes of the program

ASSUME ApiAssumption ==
    /\ NoToken \notin Tokens
    /\ Account \notin Calls
    /\ IsFiniteSet(Calls)
    /\ {MaxRetries, MaxRefusals, MaxRevocations, MaxCrashes} \subseteq Nat

VARIABLES
    session,        \* "on" between vk_login and vk_close
    doomed,         \* purple_connection_error_reason was called
    signals,        \* the success callback of vk_login has run
    token,          \* m_access_token
    \* Callbacks that wait
    requests,       \* HTTP requests of calls, with what the server has replied
    timers,         \* timers before a request ("resend") or a call is repeated
    auths,          \* chains of requests of vk_auth_user
    \* Settings and server (external)
    stored,         \* the setting access_token
    alive,          \* tokens the server accepts
    \* History
    asked,          \* calls made
    callbacks,      \* how often success_cb or error_cb of a call has run
    gone,           \* calls given up: flood control or the end of the session
    executed,       \* how often the server has carried out a call
    unheard,        \* and how often the answer was lost
    refusals, revocations, crashes

places  == <<requests, timers, auths>>
history == <<asked, callbacks, gone, executed, unheard>>
bounds  == <<refusals, revocations, crashes>>
vars == <<session, doomed, signals, token, places, stored, alive, history, bounds>>

Replies == {"ok", "error", "expired", "rate", "flood", "fatal"}
Kinds   == {"resend", "again", "wait"}
Steps   == {"page", "form", "confirm"}
Owners  == Calls \cup {Account}

Requests == [call : Calls, token : Tokens \cup {NoToken},
             tries : 0..MaxRetries, reply : Replies \cup {"none"}]
\* A timer of http_cb runs only while a try is left.
Timers   == {t \in [call : Calls, kind : Kinds, token : Tokens \cup {NoToken},
                     tries : 0..MaxRetries] : t.kind = "resend" => t.tries < MaxRetries}
Chains   == {a \in [owner : Owners, step : Steps, url : {"blank", "other"}, tries : 0..MaxRetries,
                     at : {"request", "timer"}] : a.at = "timer" => a.tries < MaxRetries}

TypeOK ==
    /\ session \in {"off", "on"}
    /\ doomed \in BOOLEAN
    /\ signals \in BOOLEAN
    /\ token \in Tokens \cup {NoToken}
    /\ requests \in SUBSET Requests
    /\ timers \in SUBSET Timers
    /\ auths \in SUBSET Chains
    /\ stored \in Tokens \cup {NoToken}
    /\ alive \in SUBSET Tokens
    /\ asked \in SUBSET Calls
    /\ callbacks \in [Calls -> Nat]
    /\ gone \in SUBSET Calls
    /\ executed \in [Calls -> Nat]
    /\ unheard \in [Calls -> Nat]
    /\ refusals \in 0..MaxRefusals
    /\ revocations \in 0..MaxRevocations
    /\ crashes \in 0..MaxCrashes

Init ==
    /\ session = "off"
    /\ doomed = FALSE /\ signals = FALSE
    /\ token = NoToken /\ stored = NoToken /\ alive = {}
    /\ requests = {} /\ timers = {} /\ auths = {}
    /\ asked = {} /\ gone = {}
    /\ callbacks = [c \in Calls |-> 0]
    /\ executed = [c \in Calls |-> 0]
    /\ unheard = [c \in Calls |-> 0]
    /\ refusals = 0 /\ revocations = 0 /\ crashes = 0

-----------------------------------------------------------------------------
(* A definition named X_Y before a definition X is X with a bug seeded, for  *)
(* the mutation runs that show what each property detects.                   *)

\* vk_call_api: the request of call c, made with token t.
Request(c, t) == [call |-> c, token |-> t, tries |-> 0, reply |-> "none"]

Timer(c, kind) == [call |-> c, kind |-> kind, token |-> NoToken, tries |-> 0]

\* A request of an authentication started by who, or its timer in http_cb.  The
\* url is blank.html after a redirect to the last page.
Link(who, step, url, tries, at) ==
    [owner |-> who, step |-> step, url |-> url, tries |-> tries, at |-> at]

\* start_auth
Chain(who) == Link(who, "page", "other", 0, "request")

\* success_cb or error_cb
CallBack(c) == callbacks' = [callbacks EXCEPT ![c] = @ + 1]

Ask(c) ==
    /\ session = "on" /\ signals
    /\ c \notin asked
    /\ asked' = asked \cup {c}
    /\ requests' = requests \cup {Request(c, token)}
    /\ UNCHANGED <<session, doomed, signals, token, timers, auths, stored, alive>>
    /\ UNCHANGED <<callbacks, gone, executed, unheard, bounds>>

-----------------------------------------------------------------------------
(* HTTP *)

\* http_cb after a network error or an error of the server.
RequestFails_Forever(r) ==
    /\ r \in requests
    /\ requests' = requests \ {r}
    /\ unheard' = IF r.reply = "ok" THEN [unheard EXCEPT ![r.call] = @ + 1] ELSE unheard
    /\ timers' = timers \cup {[call |-> r.call, kind |-> "resend", token |-> r.token, tries |-> 0]}
    /\ UNCHANGED <<session, doomed, signals, token, auths, stored, alive, bounds>>
    /\ UNCHANGED <<asked, callbacks, gone, executed>>

RequestFails(r) ==
    /\ r \in requests
    /\ requests' = requests \ {r}
    /\ unheard' = IF r.reply = "ok" THEN [unheard EXCEPT ![r.call] = @ + 1] ELSE unheard
    /\ IF r.tries < MaxRetries
       THEN /\ timers' = timers \cup {[call |-> r.call, kind |-> "resend",
                                        token |-> r.token, tries |-> r.tries]}
            /\ UNCHANGED callbacks
       ELSE CallBack(r.call) /\ UNCHANGED timers
    /\ UNCHANGED <<session, doomed, signals, token, auths, stored, alive, bounds>>
    /\ UNCHANGED <<asked, gone, executed>>

\* process_error of an authorization that failed: is_authenticating is that
\* the token is empty.
Expired_Alone(c) ==
    /\ token' = NoToken
    /\ auths' = auths \cup {Chain(c)}
    /\ UNCHANGED timers

Expired_Forgets(c) ==
    \/ /\ token = NoToken
       /\ UNCHANGED <<token, auths, timers>>
    \/ /\ token # NoToken
       /\ token' = NoToken
       /\ auths' = auths \cup {Chain(c)}
       /\ UNCHANGED timers

Expired(c) ==
    \/ /\ token = NoToken
       /\ timers' = timers \cup {Timer(c, "wait")}
       /\ UNCHANGED <<token, auths>>
    \/ /\ token # NoToken
       /\ token' = NoToken
       /\ auths' = auths \cup {Chain(c)}
       /\ UNCHANGED timers

\* on_vk_call_cb and process_error.  "fatal": validation required or internal
\* server error; "error": any other error, or a reply that is not understood.
Answered(r) ==
    /\ r \in requests
    /\ requests' = requests \ {r}
    /\ \/ /\ r.reply \in {"ok", "error"}
          /\ CallBack(r.call)
          /\ UNCHANGED <<doomed, token, timers, auths, gone>>
       \/ /\ r.reply = "expired"
          /\ Expired(r.call)
          /\ UNCHANGED <<doomed, callbacks, gone>>
       \/ /\ r.reply = "rate"
          /\ timers' = timers \cup {Timer(r.call, "again")}
          /\ UNCHANGED <<doomed, token, auths, callbacks, gone>>
       \/ /\ r.reply = "flood"
          /\ gone' = gone \cup {r.call}
          /\ UNCHANGED <<doomed, token, timers, auths, callbacks>>
       \/ /\ r.reply = "fatal"
          /\ token' = NoToken
          /\ doomed' = TRUE
          /\ CallBack(r.call)
          /\ UNCHANGED <<timers, auths, gone>>
    /\ UNCHANGED <<session, signals, stored, alive, bounds>>
    /\ UNCHANGED <<asked, executed, unheard>>

\* The timers of http_cb, process_error and vk_call_after_auth.  The latter
\* starts again until somebody has authenticated.
TimerFires(t) ==
    /\ t \in timers
    /\ t.kind = "wait" => token # NoToken
    /\ timers' = timers \ {t}
    /\ requests' = requests \cup
         {IF t.kind = "resend" THEN [Request(t.call, t.token) EXCEPT !.tries = t.tries + 1]
                               ELSE Request(t.call, token)}
    /\ UNCHANGED <<session, doomed, signals, token, auths, stored, alive, history, bounds>>

-----------------------------------------------------------------------------
(* The server (external) *)

ServerReplies(r, reply) ==
    /\ r \in requests /\ r.reply = "none"
    /\ reply = "ok" => r.token \in alive
    /\ reply = "expired" => r.token \notin alive
    /\ reply = "rate" => refusals < MaxRefusals
    /\ refusals' = refusals + (IF reply = "rate" THEN 1 ELSE 0)
    /\ executed' = IF reply = "ok" THEN [executed EXCEPT ![r.call] = @ + 1] ELSE executed
    /\ requests' = (requests \ {r}) \cup {[r EXCEPT !.reply = reply]}
    /\ UNCHANGED <<session, doomed, signals, token, timers, auths, stored, alive>>
    /\ UNCHANGED <<asked, callbacks, gone, unheard, revocations, crashes>>

Revoke(t) ==
    /\ t \in alive
    /\ revocations < MaxRevocations
    /\ revocations' = revocations + 1
    /\ alive' = alive \ {t}
    /\ UNCHANGED <<session, doomed, signals, token, places, stored, history>>
    /\ UNCHANGED <<refusals, crashes>>

-----------------------------------------------------------------------------
(* Authentication *)

Advance(a, b) ==
    /\ auths' = (auths \ {a}) \cup {b}
    /\ UNCHANGED <<session, doomed, signals, token, requests, timers, stored, alive, history>>
    /\ UNCHANGED bounds

\* http_cb; the last try is answered like any other.
AuthFails(a) ==
    /\ a \in auths /\ a.at = "request" /\ a.tries < MaxRetries
    /\ Advance(a, Link(a.owner, a.step, a.url, a.tries, "timer"))

AuthRetry(a) ==
    /\ a \in auths /\ a.at = "timer"
    /\ Advance(a, Link(a.owner, a.step, a.url, a.tries + 1, "request"))

\* http_request_redirect_cb, to blank.html or elsewhere.
Redirected(a) ==
    /\ a \in auths /\ a.at = "request" /\ a.step # "page"
    /\ \E url \in {"blank", "other"} : Advance(a, Link(a.owner, a.step, url, 0, "request"))

\* A form was found and is submitted.
NextForm(a) ==
    /\ a \in auths /\ a.at = "request" /\ a.url = "other"
    /\ \E s \in {<<"page", "form">>, <<"form", "confirm">>} :
        /\ a.step = s[1]
        /\ Advance(a, Link(a.owner, s[2], "other", 0, "request"))

\* on_fetch_vk_access_token, and the success callbacks of authenticate.
AuthSucceeds(a, t) ==
    /\ a \in auths /\ a.at = "request" /\ a.url = "blank"
    /\ auths' = auths \ {a}
    /\ token' = t
    /\ alive' = alive \cup {t}
    /\ IF a.owner = Account
       THEN signals' = TRUE /\ UNCHANGED requests
       ELSE requests' = requests \cup {Request(a.owner, t)} /\ UNCHANGED signals
    /\ UNCHANGED <<session, doomed, timers, stored, history, bounds>>

\* on_error, and the error callbacks of authenticate.
AuthEnds_Quiet(a) ==
    /\ a \in auths /\ a.at = "request"
    /\ auths' = auths \ {a}
    /\ doomed' = (doomed \/ a.owner = Account)
    /\ IF a.owner = Account THEN UNCHANGED callbacks ELSE CallBack(a.owner)
    /\ UNCHANGED <<session, signals, token, requests, timers, stored, alive, bounds>>
    /\ UNCHANGED <<asked, gone, executed, unheard>>

AuthEnds(a) ==
    /\ a \in auths /\ a.at = "request"
    /\ auths' = auths \ {a}
    /\ doomed' = TRUE
    /\ IF a.owner = Account THEN UNCHANGED callbacks ELSE CallBack(a.owner)
    /\ UNCHANGED <<session, signals, token, requests, timers, stored, alive, bounds>>
    /\ UNCHANGED <<asked, gone, executed, unheard>>

-----------------------------------------------------------------------------
(* Sessions *)

Login ==
    /\ session = "off"
    /\ session' = "on"
    /\ token' = stored
    /\ IF stored # NoToken
       THEN signals' = TRUE /\ UNCHANGED auths
       ELSE auths' = {Chain(Account)} /\ UNCHANGED signals
    /\ UNCHANGED <<doomed, requests, timers, stored, alive, history, bounds>>

SessionOver ==
    /\ session = "on"
    /\ session' = "off"
    /\ doomed' = FALSE
    /\ signals' = FALSE
    /\ token' = NoToken
    /\ requests' = {} /\ timers' = {} /\ auths' = {}
    /\ UNCHANGED <<asked, executed, unheard, refusals, revocations>>

Waiting == {x.call : x \in requests \cup timers}

\* vk_close cancels all requests.  Those of calls then call nobody back; an
\* authentication ends with an error, or even with success if it was fetching
\* blank.html, whose answer is not looked at; its call is then not repeated.
\* Timers just die.
Close ==
    /\ SessionOver
    /\ \E won \in SUBSET {a \in auths : a.at = "request" /\ a.url = "blank"}, t \in Tokens :
        LET failed == {a \in auths : a.at = "request"} \ won
        IN /\ callbacks' = [c \in Calls |->
                              callbacks[c] + Cardinality({a \in failed : a.owner = c})]
           /\ gone' = gone \cup Waiting \cup ({a.owner : a \in auths \ failed} \ {Account})
           /\ stored' = IF won = {} THEN token ELSE t
           /\ alive' = IF won = {} THEN alive ELSE alive \cup {t}
    /\ UNCHANGED crashes

Crash ==
    /\ crashes < MaxCrashes
    /\ crashes' = crashes + 1
    /\ SessionOver
    /\ gone' = gone \cup Waiting \cup ({a.owner : a \in auths} \ {Account})
    /\ UNCHANGED <<callbacks, stored, alive>>

HandleRequest(r) ==
    \/ \E reply \in Replies : ServerReplies(r, reply)
    \/ Answered(r)
    \/ RequestFails(r)

EndStep(a) ==
    \/ NextForm(a)
    \/ \E t \in Tokens : AuthSucceeds(a, t)
    \/ AuthEnds(a)

Next ==
    \/ \E c \in Calls : Ask(c)
    \/ \E r \in requests : HandleRequest(r)
    \/ \E t \in timers : TimerFires(t)
    \/ \E a \in auths : AuthFails(a) \/ AuthRetry(a) \/ Redirected(a) \/ EndStep(a)
    \/ \E t \in alive : Revoke(t)
    \/ Login
    \/ Close
    \/ Crash

Spec == Init /\ [][Next]_vars

(***************************************************************************)
(* Requests are answered or time out, timers fire, libpurple closes a      *)
(* connection after an error, and the server does not redirect forever.    *)
(***************************************************************************)
FairSpec ==
    /\ Spec
    /\ \A c \in Calls :
        /\ WF_vars(\E r \in requests : r.call = c /\ HandleRequest(r))
        /\ WF_vars(\E t \in timers : t.call = c /\ TimerFires(t))
    /\ WF_vars(\E a \in auths : AuthRetry(a))
    /\ SF_vars(\E a \in auths : EndStep(a))
    /\ WF_vars(doomed /\ Close)

-----------------------------------------------------------------------------
(* Properties *)

\* A call is in one place: it was called back once, or a request, a timer or
\* an authentication will see to it, or it was given up.  None is called back
\* twice, and none is forgotten on the way through repetitions and waiting.
CallIsInOnePlace ==
    \A c \in Calls :
        callbacks[c]
          + Cardinality({r \in requests : r.call = c})
          + Cardinality({t \in timers : t.call = c})
          + Cardinality({a \in auths : a.owner = c})
          + (IF c \in gone THEN 1 ELSE 0)
        = IF c \in asked THEN 1 ELSE 0

\* However many calls learn that the token has expired, and whenever they do,
\* one authentication runs at a time, and while it does nobody has a token.
OneAuthentication ==
    /\ \A a, b \in auths : a = b
    /\ auths # {} => session = "on" /\ token = NoToken

\* The server carries a call out again only after an answer was lost, through
\* all the ways in which calls are repeated.
RepeatedOnlyIfUnheard == \A c \in Calls : executed[c] <= 1 + unheard[c]

\* A call is neither forgotten, nor called back or carried out once too often.
CallsInv == CallIsInOnePlace /\ RepeatedOnlyIfUnheard

\* Whoever waits for a token waits for somebody else, who is fetching it, or for
\* the end of the session: "This loop stops in case of failed authentication,
\* because all timeouts die".  This is so whenever tokens expire, authentications
\* fail and late answers empty a token that was just fetched.
TokenIsSought ==
    session = "on" /\ token = NoToken /\ ~doomed =>
        \E a \in auths : a.owner \notin Waiting

\* Every call is answered or given up: waiting for an authentication ends.
EveryCallEnds == \A c \in Calls : c \in asked ~> (callbacks[c] > 0 \/ c \in gone)

=============================================================================
