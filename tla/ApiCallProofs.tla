--------------------------- MODULE ApiCallProofs ---------------------------
(***************************************************************************)
(* Theorems about ApiCall, for any calls, tokens and bounds.               *)
(***************************************************************************)
EXTENDS ApiCall, FiniteSetTheorems, TLAPS

(***************************************************************************)
(* Types of what the actions put into the sets.                            *)
(***************************************************************************)
LEMMA Bounds == /\ MaxRetries \in Nat /\ MaxRefusals \in Nat
                /\ MaxRevocations \in Nat /\ MaxCrashes \in Nat
  BY ApiAssumption

LEMMA RequestType ==
    ASSUME NEW c \in Calls, NEW t \in Tokens \cup {NoToken}
    PROVE  Request(c, t) \in Requests
  BY Bounds DEF Request, Requests

LEMMA TimerType ==
    ASSUME NEW c \in Calls, NEW kind \in {"again", "wait"}
    PROVE  Timer(c, kind) \in Timers
  BY Bounds DEF Timer, Timers, Kinds

LEMMA LinkType ==
    ASSUME NEW who \in Owners, NEW step \in Steps, NEW url \in {"blank", "other"},
           NEW tries \in 0..MaxRetries, NEW at \in {"request", "timer"},
           at = "timer" => tries < MaxRetries
    PROVE  Link(who, step, url, tries, at) \in Chains
  BY DEF Link, Chains

LEMMA ChainType ==
    ASSUME NEW who \in Owners
    PROVE  Chain(who) \in Chains
  BY Bounds, LinkType DEF Chain, Steps

LEMMA CallBackType ==
    ASSUME callbacks \in [Calls -> Nat], NEW c \in Calls, CallBack(c)
    PROVE  callbacks' \in [Calls -> Nat]
  BY DEF CallBack

LEMMA SessionOverType ==
    ASSUME TypeOK, SessionOver
    PROVE  /\ session' \in {"off", "on"} /\ doomed' \in BOOLEAN /\ signals' \in BOOLEAN
           /\ token' \in Tokens \cup {NoToken}
           /\ requests' = {} /\ timers' = {} /\ auths' = {}
           /\ asked' \in SUBSET Calls
           /\ executed' \in [Calls -> Nat] /\ unheard' \in [Calls -> Nat]
           /\ refusals' \in 0..MaxRefusals /\ revocations' \in 0..MaxRevocations
<1>1. doomed' \in BOOLEAN /\ signals' \in BOOLEAN
  BY Zenon DEF SessionOver
<1> QED BY <1>1 DEF SessionOver, TypeOK

LEMMA WaitingType ==
    ASSUME TypeOK
    PROVE  Waiting \subseteq Calls /\ {a.owner : a \in auths} \ {Account} \subseteq Calls
<1>1. \A x \in requests \cup timers : x.call \in Calls
  BY DEF TypeOK, Requests, Timers
<1>2. \A a \in auths : a.owner \in Owners
  BY DEF TypeOK, Chains
<1> QED BY <1>1, <1>2 DEF Waiting, Owners

\* Callbacks are few; counts of them are numbers.
Finite == IsFiniteSet(requests) /\ IsFiniteSet(timers) /\ IsFiniteSet(auths)

LEMMA TypeStep == TypeOK /\ Finite /\ [Next]_vars => TypeOK'
<1> SUFFICES ASSUME TypeOK, Finite, [Next]_vars PROVE TypeOK'
  OBVIOUS
<1> USE Bounds
<1>1. ASSUME NEW c \in Calls, Ask(c) PROVE TypeOK'
  <2>1. requests' \in SUBSET Requests
    BY <1>1, RequestType DEF Ask, TypeOK
  <2> QED BY <1>1, <2>1 DEF Ask, TypeOK, bounds
<1>2. ASSUME NEW r \in requests, NEW reply \in Replies, ServerReplies(r, reply) PROVE TypeOK'
  <2>1. requests' \in SUBSET Requests
    BY <1>2 DEF ServerReplies, Requests, TypeOK
  <2>2. executed' \in [Calls -> Nat]
    <3>1. r.call \in Calls
      BY DEF TypeOK, Requests
    <3> QED BY <1>2, <3>1 DEF ServerReplies, TypeOK
  <2>3. refusals' \in 0..MaxRefusals
    BY <1>2 DEF ServerReplies, TypeOK
  <2> QED BY <1>2, <2>1, <2>2, <2>3 DEF ServerReplies, TypeOK
<1>3. ASSUME NEW r \in requests, Answered(r) PROVE TypeOK'
  <2>0. r.call \in Calls /\ requests' \in SUBSET Requests
    BY <1>3 DEF Answered, Requests, TypeOK
  <2>1. callbacks' \in [Calls -> Nat]
    BY <1>3, <2>0, CallBackType DEF Answered, TypeOK
  <2>2. doomed' \in BOOLEAN
    <3>1. doomed' = doomed \/ doomed' = TRUE
      BY <1>3, Zenon DEF Answered
    <3> QED BY <3>1 DEF TypeOK
  <2>3. token' \in Tokens \cup {NoToken}
    BY <1>3 DEF Answered, Expired, TypeOK
  <2>4. timers' \in SUBSET Timers
    BY <1>3, <2>0, TimerType DEF Answered, Expired, TypeOK
  <2>5. auths' \in SUBSET Chains
    BY <1>3, <2>0, ChainType DEF Answered, Expired, Owners, TypeOK
  <2>6. gone' \in SUBSET Calls
    BY <1>3, <2>0 DEF Answered, TypeOK
  <2> QED BY <1>3, <2>0, <2>1, <2>2, <2>3, <2>4, <2>5, <2>6 DEF Answered, TypeOK, bounds
<1>4. ASSUME NEW r \in requests, RequestFails(r) PROVE TypeOK'
  <2>0. r.call \in Calls /\ requests' \in SUBSET Requests
    BY <1>4 DEF RequestFails, Requests, TypeOK
  <2>1. callbacks' \in [Calls -> Nat]
    BY <1>4, <2>0, CallBackType DEF RequestFails, TypeOK
  <2>2. unheard' \in [Calls -> Nat]
    BY <1>4, <2>0 DEF RequestFails, TypeOK
  <2>3. timers' \in SUBSET Timers
    BY <1>4 DEF RequestFails, Requests, Timers, Kinds, TypeOK
  <2> QED BY <1>4, <2>0, <2>1, <2>2, <2>3 DEF RequestFails, TypeOK, bounds
<1>5. ASSUME NEW t \in timers, TimerFires(t) PROVE TypeOK'
  <2>1. t \in Timers
    BY DEF TypeOK
  <2>2. [Request(t.call, t.token) EXCEPT !.tries = t.tries + 1] \in Requests
        \/ t.kind # "resend"
    BY <2>1 DEF Request, Requests, Timers
  <2>3. Request(t.call, token) \in Requests
    BY <2>1, RequestType DEF TypeOK, Timers
  <2>4. requests' \in SUBSET Requests
    BY <1>5, <2>2, <2>3 DEF TimerFires, TypeOK
  <2> QED BY <1>5, <2>4 DEF TimerFires, TypeOK, history, bounds
<1>6. ASSUME NEW t \in alive, Revoke(t) PROVE TypeOK'
  <2>1. revocations' \in 0..MaxRevocations
    BY <1>6 DEF Revoke, TypeOK
  <2> QED BY <1>6, <2>1 DEF Revoke, TypeOK, places, history
<1>7. ASSUME NEW a \in auths, NEW b \in Chains, Advance(a, b) PROVE TypeOK'
  BY <1>7 DEF Advance, TypeOK, history, bounds
<1>8. ASSUME NEW a \in auths, AuthFails(a) \/ AuthRetry(a) \/ Redirected(a) \/ NextForm(a)
      PROVE  TypeOK'
  <2>1. a \in Chains
    BY DEF TypeOK
  <2>2. CASE AuthFails(a)
    <3>1. Link(a.owner, a.step, a.url, a.tries, "timer") \in Chains
      BY <2>1, <2>2, LinkType DEF AuthFails, Chains
    <3> QED BY <1>7, <2>2, <3>1 DEF AuthFails
  <2>3. CASE AuthRetry(a)
    <3>1. a.tries + 1 \in 0..MaxRetries
      BY <2>1, <2>3 DEF AuthRetry, Chains
    <3>2. a.owner \in Owners /\ a.step \in Steps /\ a.url \in {"blank", "other"}
      BY <2>1 DEF Chains
    <3>3. Link(a.owner, a.step, a.url, a.tries + 1, "request") \in Chains
      BY <3>1, <3>2, LinkType
    <3> QED BY <1>7, <2>3, <3>3 DEF AuthRetry
  <2>4. CASE Redirected(a)
    <3>1. PICK url \in {"blank", "other"} : Advance(a, Link(a.owner, a.step, url, 0, "request"))
      BY <2>4 DEF Redirected
    <3>2. a.owner \in Owners /\ a.step \in Steps /\ 0 \in 0..MaxRetries
      BY <2>1 DEF Chains
    <3>3. Link(a.owner, a.step, url, 0, "request") \in Chains
      BY <3>2, LinkType
    <3> QED BY <1>7, <3>1, <3>3
  <2>5. CASE NextForm(a)
    <3>1. \A s \in Steps : Link(a.owner, s, "other", 0, "request") \in Chains
      BY <2>1, LinkType DEF Chains
    <3>2. PICK s \in Steps : Advance(a, Link(a.owner, s, "other", 0, "request"))
      BY <2>5 DEF NextForm, Steps
    <3> QED BY <1>7, <3>1, <3>2
  <2> QED BY <1>8, <2>2, <2>3, <2>4, <2>5
<1>9. ASSUME NEW a \in auths, NEW t \in Tokens, AuthSucceeds(a, t) PROVE TypeOK'
  <2>1. a.owner = Account \/ a.owner \in Calls
    BY DEF TypeOK, Chains, Owners
  <2>2. requests' \in SUBSET Requests
    BY <1>9, <2>1, RequestType DEF AuthSucceeds, TypeOK
  <2>3. signals' \in BOOLEAN
    <3>1. signals' = signals \/ signals' = TRUE
      BY <1>9, Zenon DEF AuthSucceeds
    <3> QED BY <3>1 DEF TypeOK
  <2>4. token' \in Tokens \cup {NoToken} /\ alive' \in SUBSET Tokens /\ auths' \in SUBSET Chains
    BY <1>9 DEF AuthSucceeds, TypeOK
  <2> QED BY <1>9, <2>2, <2>3, <2>4 DEF AuthSucceeds, TypeOK, history, bounds
<1>10. ASSUME NEW a \in auths, AuthEnds(a) PROVE TypeOK'
  <2>1. a.owner = Account \/ a.owner \in Calls
    BY DEF TypeOK, Chains, Owners
  <2>2. callbacks' \in [Calls -> Nat]
    BY <1>10, <2>1, CallBackType DEF AuthEnds, TypeOK
  <2>3. doomed' \in BOOLEAN /\ auths' \in SUBSET Chains
    BY <1>10 DEF AuthEnds, TypeOK
  <2> QED BY <1>10, <2>2, <2>3 DEF AuthEnds, TypeOK, bounds
<1>11. CASE Login
  <2>1. auths' \in SUBSET Chains
    BY <1>11, ChainType DEF Login, TypeOK, Owners
  <2>2. signals' \in BOOLEAN
    <3>1. signals' = signals \/ signals' = TRUE
      BY <1>11, Zenon DEF Login
    <3> QED BY <3>1 DEF TypeOK
  <2> QED BY <1>11, <2>1, <2>2 DEF Login, TypeOK, history, bounds
<1>12. CASE Close
  <2>1. SessionOver
    BY <1>12 DEF Close
  <2>2. PICK won \in SUBSET {a \in auths : a.at = "request" /\ a.url = "blank"}, t \in Tokens :
          LET failed == {a \in auths : a.at = "request"} \ won
          IN /\ callbacks' = [c \in Calls |->
                                callbacks[c] + Cardinality({a \in failed : a.owner = c})]
             /\ gone' = gone \cup Waiting \cup ({a.owner : a \in auths \ failed} \ {Account})
             /\ stored' = IF won = {} THEN token ELSE t
             /\ alive' = IF won = {} THEN alive ELSE alive \cup {t}
    BY <1>12 DEF Close
  <2> DEFINE failed == {a \in auths : a.at = "request"} \ won
  <2>3. ASSUME NEW c \in Calls PROVE Cardinality({a \in failed : a.owner = c}) \in Nat
    <3>1. IsFiniteSet({a \in failed : a.owner = c})
      BY FS_Subset DEF Finite
    <3> QED BY <3>1, FS_CardinalityType
  <2>4. callbacks' \in [Calls -> Nat]
    <3>1. callbacks' = [c \in Calls |-> callbacks[c] + Cardinality({a \in failed : a.owner = c})]
      BY <2>2
    <3> HIDE DEF failed
    <3> QED BY <2>3, <3>1 DEF TypeOK
  <2>5. gone' \in SUBSET Calls
    <3>1. {a.owner : a \in auths \ failed} \ {Account} \subseteq Calls
      BY WaitingType
    <3>2. gone' = gone \cup Waiting \cup ({a.owner : a \in auths \ failed} \ {Account})
      BY <2>2
    <3> QED BY <3>1, <3>2, WaitingType DEF TypeOK
  <2>6. stored' \in Tokens \cup {NoToken} /\ alive' \in SUBSET Tokens
    BY <2>2 DEF TypeOK
  <2>8. crashes' = crashes
    BY <1>12 DEF Close
  <2> QED BY <2>1, <2>4, <2>5, <2>6, <2>8, SessionOverType DEF TypeOK
<1>13. CASE Crash
  <2>1. SessionOver /\ crashes' \in 0..MaxCrashes
    BY <1>13 DEF Crash, TypeOK
  <2>3. gone' \in SUBSET Calls
    BY <1>13, WaitingType DEF Crash, TypeOK
  <2> QED BY <1>13, <2>1, <2>3, SessionOverType DEF Crash, TypeOK
<1>14. CASE UNCHANGED vars
  BY <1>14 DEF vars, places, history, bounds, TypeOK
<1> QED
  BY <1>1, <1>2, <1>3, <1>4, <1>5, <1>6, <1>8, <1>9, <1>10, <1>11, <1>12, <1>13, <1>14
     DEF Next, HandleRequest, EndStep

\* An action adds at most one callback of each sort.
LEMMA FiniteStep == TypeOK /\ Finite /\ [Next]_vars => Finite'
<1> SUFFICES ASSUME TypeOK, Finite, [Next]_vars PROVE Finite'
  OBVIOUS
<1>1. \A S, T, x : IsFiniteSet(S) /\ T \subseteq S \cup {x} => IsFiniteSet(T)
  <2> SUFFICES ASSUME NEW S, NEW T, NEW x, IsFiniteSet(S), T \subseteq S \cup {x}
               PROVE  IsFiniteSet(T)
    OBVIOUS
  <2>1. IsFiniteSet({x})
    BY FS_Singleton
  <2>2. IsFiniteSet(S \cup {x})
    BY <2>1, FS_Union
  <2> QED BY <2>2, FS_Subset
<1>2. \A S : \E x : S \subseteq S \cup {x}
  OBVIOUS
<1> DEFINE Few == /\ \E x : requests' \subseteq requests \cup {x}
                  /\ \E x : timers' \subseteq timers \cup {x}
                  /\ \E x : auths' \subseteq auths \cup {x}
<1>3. ASSUME NEW c \in Calls, Ask(c) PROVE Few
  BY <1>3 DEF Ask
<1>4. ASSUME NEW r \in requests, NEW reply \in Replies, ServerReplies(r, reply) PROVE Few
  BY <1>4 DEF ServerReplies
<1>5. ASSUME NEW r \in requests, Answered(r) PROVE Few
  <2>1. requests' \subseteq requests
    BY <1>5 DEF Answered
  <2>2. \E x : timers' \subseteq timers \cup {x}
    BY <1>5 DEF Answered, Expired
  <2>3. \E x : auths' \subseteq auths \cup {x}
    BY <1>5 DEF Answered, Expired
  <2> QED BY <2>1, <2>2, <2>3
<1>6. ASSUME NEW r \in requests, RequestFails(r) PROVE Few
  <2>1. \E x : timers' \subseteq timers \cup {x}
    BY <1>6 DEF RequestFails
  <2> QED BY <1>6, <2>1 DEF RequestFails
<1>7. ASSUME NEW t \in timers, TimerFires(t) PROVE Few
  BY <1>7 DEF TimerFires
<1>8. ASSUME NEW t \in alive, Revoke(t) PROVE Few
  BY <1>8 DEF Revoke, places
<1>9. ASSUME NEW a \in auths, AuthFails(a) \/ AuthRetry(a) \/ Redirected(a) \/ NextForm(a) PROVE Few
  <2>1. PICK b : Advance(a, b)
    BY <1>9 DEF AuthFails, AuthRetry, Redirected, NextForm
  <2> QED BY <2>1 DEF Advance
<1>10. ASSUME NEW a \in auths, NEW t \in Tokens, AuthSucceeds(a, t) PROVE Few
  <2>1. \E x : requests' \subseteq requests \cup {x}
    BY <1>10 DEF AuthSucceeds
  <2> QED BY <1>10, <2>1 DEF AuthSucceeds
<1>11. ASSUME NEW a \in auths, AuthEnds(a) PROVE Few
  BY <1>11 DEF AuthEnds
<1>12. ASSUME Login PROVE Few
  <2>1. \E x : auths' \subseteq auths \cup {x}
    BY <1>12 DEF Login
  <2>2. requests' = requests /\ timers' = timers
    BY <1>12 DEF Login
  <2> QED BY <1>2, <2>1, <2>2
<1>13. ASSUME Close \/ Crash PROVE Few
  BY <1>13 DEF Close, Crash, SessionOver
<1>14. ASSUME UNCHANGED vars PROVE Few
  <2>1. requests' = requests /\ timers' = timers /\ auths' = auths
    BY <1>14 DEF vars, places
  <2> QED BY <1>2, <2>1
<1> HIDE DEF Few
<1>15. Few
  BY <1>3, <1>4, <1>5, <1>6, <1>7, <1>8, <1>9, <1>10, <1>11, <1>12, <1>13, <1>14
     DEF Next, HandleRequest, EndStep
<1> QED BY <1>1, <1>15 DEF Finite, Few

\* Whatever calls are made, refused and repeated, the variables keep their types.
THEOREM TypeCorrect == Spec => [](TypeOK /\ Finite)
<1>1. Init => TypeOK /\ Finite
  <2> SUFFICES ASSUME Init PROVE TypeOK /\ Finite
    OBVIOUS
  <2>1. doomed \in BOOLEAN /\ signals \in BOOLEAN
    BY Zenon DEF Init
  <2>2. Finite
    BY FS_EmptySet DEF Init, Finite
  <2>3. TypeOK
    BY <2>1, Bounds DEF Init, TypeOK
  <2> QED BY <2>2, <2>3
<1>2. TypeOK /\ Finite /\ [Next]_vars => (TypeOK /\ Finite)'
  BY TypeStep, FiniteStep
<1> QED BY <1>1, <1>2, PTL DEF Spec

(***************************************************************************)
(* One authentication: the token is emptied before a call starts it, and   *)
(* without a session nothing waits that could.                             *)
(***************************************************************************)
AuthInv ==
    /\ session = "off" => requests = {} /\ timers = {} /\ auths = {}
    /\ OneAuthentication

LEMMA AuthStep == TypeOK /\ AuthInv /\ [Next]_vars => AuthInv'
<1> SUFFICES ASSUME TypeOK, AuthInv, [Next]_vars PROVE AuthInv'
  OBVIOUS
<1> USE DEF AuthInv, OneAuthentication
<1>0. session \in {"off", "on"}
  BY DEF TypeOK
<1>1. ASSUME NEW c \in Calls, Ask(c) PROVE AuthInv'
  BY <1>1 DEF Ask
<1>2. ASSUME NEW r \in requests, NEW reply \in Replies, ServerReplies(r, reply) PROVE AuthInv'
  BY <1>0, <1>2 DEF ServerReplies
<1>3. ASSUME NEW r \in requests, Answered(r) PROVE AuthInv'
  <2>0. session = "on" /\ session' = "on"
    BY <1>0, <1>3 DEF Answered
  <2>1. CASE r.reply = "expired" /\ token # NoToken
    <3>1. auths = {}
      BY <2>1
    <3>2. auths' = {Chain(r.call)} /\ token' = NoToken
      BY <1>3, <2>1, <3>1 DEF Answered, Expired
    <3> QED BY <2>0, <3>2
  <2>2. CASE ~(r.reply = "expired" /\ token # NoToken)
    <3>1. auths' = auths /\ (token' = token \/ token' = NoToken)
      BY <1>3, <2>2 DEF Answered, Expired
    <3> QED BY <2>0, <3>1
  <2> QED BY <2>1, <2>2
<1>4. ASSUME NEW r \in requests, RequestFails(r) PROVE AuthInv'
  BY <1>0, <1>4 DEF RequestFails
<1>5. ASSUME NEW t \in timers, TimerFires(t) PROVE AuthInv'
  BY <1>0, <1>5 DEF TimerFires
<1>6. ASSUME NEW t \in alive, Revoke(t) PROVE AuthInv'
  BY <1>6 DEF Revoke, places
<1>7. ASSUME NEW a \in auths, AuthFails(a) \/ AuthRetry(a) \/ Redirected(a) \/ NextForm(a)
      PROVE  AuthInv'
  <2>1. PICK b : Advance(a, b)
    BY <1>7 DEF AuthFails, AuthRetry, Redirected, NextForm
  <2>2. auths' = {b}
    BY <2>1 DEF Advance
  <2>3. session' = "on" /\ token' = NoToken
    BY <2>1 DEF Advance
  <2> QED BY <2>2, <2>3
<1>8. ASSUME NEW a \in auths, NEW t \in Tokens, AuthSucceeds(a, t) PROVE AuthInv'
  <2>1. auths' = {} /\ session' = "on"
    BY <1>8 DEF AuthSucceeds
  <2> QED BY <2>1
<1>9. ASSUME NEW a \in auths, AuthEnds(a) PROVE AuthInv'
  <2>1. auths' = {} /\ session' = "on"
    BY <1>9 DEF AuthEnds
  <2> QED BY <2>1
<1>10. CASE Login
  <2>1. auths' = {} \/ (auths' = {Chain(Account)} /\ token' = NoToken)
    BY <1>10 DEF Login
  <2>2. session' = "on"
    BY <1>10 DEF Login
  <2> QED BY <2>1, <2>2
<1>11. CASE Close \/ Crash
  <2>1. requests' = {} /\ timers' = {} /\ auths' = {}
    BY <1>11 DEF Close, Crash, SessionOver
  <2> QED BY <2>1
<1>12. CASE UNCHANGED vars
  BY <1>12 DEF vars, places
<1> QED
  BY <1>1, <1>2, <1>3, <1>4, <1>5, <1>6, <1>7, <1>8, <1>9, <1>10, <1>11, <1>12
     DEF Next, HandleRequest, EndStep

\* Whenever calls learn that their token has expired, one of them
\* authenticates and nobody has a token until it is done.
THEOREM AuthenticationIsOne == Spec => []OneAuthentication
<1>1. Init => AuthInv
  BY DEF Init, AuthInv, OneAuthentication
<1>2. TypeOK /\ AuthInv /\ [Next]_vars => AuthInv'
  BY AuthStep
<1>3. AuthInv => OneAuthentication
  BY DEF AuthInv
<1> QED BY <1>1, <1>2, <1>3, TypeCorrect, PTL DEF Spec

(***************************************************************************)
(* Calls: each is in one place, with what the server has done for it.      *)
(***************************************************************************)
RequestsOf(c) == {r \in requests : r.call = c}
TimersOf(c)   == {t \in timers : t.call = c}
AuthsOf(c)    == {a \in auths : a.owner = c}

\* Nothing will see to c: it was not made yet, called back once, or given up.
Settled(c) ==
    /\ RequestsOf(c) = {} /\ TimersOf(c) = {} /\ AuthsOf(c) = {}
    /\ \/ /\ c \notin asked /\ c \notin gone /\ callbacks[c] = 0
          /\ executed[c] <= unheard[c]
       \/ /\ c \in asked /\ c \notin gone /\ callbacks[c] = 1
          /\ executed[c] <= 1 + unheard[c]
       \/ /\ c \in asked /\ c \in gone /\ callbacks[c] = 0
          /\ executed[c] <= 1 + unheard[c]

InRequests(c) ==
    /\ \E r \in requests : /\ RequestsOf(c) = {r}
                           /\ r.reply = "ok" => executed[c] <= 1 + unheard[c]
                           /\ r.reply # "ok" => executed[c] <= unheard[c]
    /\ TimersOf(c) = {} /\ AuthsOf(c) = {}

InTimers(c) ==
    /\ \E t \in timers : TimersOf(c) = {t}
    /\ RequestsOf(c) = {} /\ AuthsOf(c) = {}
    /\ executed[c] <= unheard[c]

InAuths(c) ==
    /\ \E a \in auths : AuthsOf(c) = {a}
    /\ RequestsOf(c) = {} /\ TimersOf(c) = {}
    /\ executed[c] <= unheard[c]

\* A call under way was not called back yet, and unless its answer is on the
\* way nothing the server did for it has been heard of.
UnderWay(c) ==
    /\ c \in asked /\ c \notin gone /\ callbacks[c] = 0
    /\ InRequests(c) \/ InTimers(c) \/ InAuths(c)

PlacesInv == \A c \in Calls : Settled(c) \/ UnderWay(c)

\* The counts of CallIsInOnePlace, read off the sets.
LEMMA PlacesCounted == TypeOK /\ PlacesInv => CallsInv
<1> SUFFICES ASSUME TypeOK, PlacesInv PROVE CallsInv
  OBVIOUS
<1>0. Cardinality({}) = 0 /\ \A x : Cardinality({x}) = 1
  BY FS_EmptySet, FS_Singleton
<1> SUFFICES ASSUME NEW c \in Calls
             PROVE  /\ callbacks[c] + Cardinality(RequestsOf(c)) + Cardinality(TimersOf(c))
                         + Cardinality(AuthsOf(c)) + (IF c \in gone THEN 1 ELSE 0)
                       = IF c \in asked THEN 1 ELSE 0
                    /\ executed[c] <= 1 + unheard[c]
  BY DEF CallsInv, CallIsInOnePlace, RepeatedOnlyIfUnheard, RequestsOf, TimersOf, AuthsOf
<1>1. executed[c] \in Nat /\ unheard[c] \in Nat /\ callbacks[c] \in Nat
  BY DEF TypeOK
<1>2. CASE Settled(c)
  BY <1>0, <1>1, <1>2 DEF Settled
<1>3. CASE UnderWay(c) /\ InRequests(c)
  BY <1>0, <1>1, <1>3 DEF UnderWay, InRequests
<1>4. CASE UnderWay(c) /\ InTimers(c)
  <2>1. PICK t \in timers : TimersOf(c) = {t}
    BY <1>4 DEF InTimers
  <2>2. Cardinality(TimersOf(c)) = 1
    BY <1>0, <2>1
  <2> QED BY <1>0, <1>1, <1>4, <2>2 DEF UnderWay, InTimers
<1>5. CASE UnderWay(c) /\ InAuths(c)
  <2>1. PICK a \in auths : AuthsOf(c) = {a}
    BY <1>5 DEF InAuths
  <2>2. Cardinality(AuthsOf(c)) = 1
    BY <1>0, <2>1
  <2> QED BY <1>0, <1>1, <1>5, <2>2 DEF UnderWay, InAuths
<1> QED BY <1>2, <1>3, <1>4, <1>5 DEF PlacesInv, UnderWay

\* What waits for c is all there is of it.
LEMMA RequestIsAll ==
    ASSUME PlacesInv, TypeOK, NEW r \in requests
    PROVE  /\ r.call \in Calls /\ r.call \in asked /\ r.call \notin gone /\ callbacks[r.call] = 0
           /\ RequestsOf(r.call) = {r} /\ TimersOf(r.call) = {} /\ AuthsOf(r.call) = {}
           /\ r.reply = "ok" => executed[r.call] <= 1 + unheard[r.call]
           /\ r.reply # "ok" => executed[r.call] <= unheard[r.call]
<1>1. r.call \in Calls /\ r \in RequestsOf(r.call)
  BY DEF TypeOK, Requests, RequestsOf
<1> HIDE DEF RequestsOf
<1> QED BY <1>1 DEF PlacesInv, Settled, UnderWay, InRequests, InTimers, InAuths

LEMMA TimerIsAll ==
    ASSUME PlacesInv, TypeOK, NEW t \in timers
    PROVE  /\ t.call \in Calls /\ t.call \in asked /\ t.call \notin gone /\ callbacks[t.call] = 0
           /\ RequestsOf(t.call) = {} /\ TimersOf(t.call) = {t} /\ AuthsOf(t.call) = {}
           /\ executed[t.call] <= unheard[t.call]
<1>1. t.call \in Calls /\ t \in TimersOf(t.call)
  BY DEF TypeOK, Timers, TimersOf
<1> QED BY <1>1 DEF PlacesInv, Settled, UnderWay, InRequests, InTimers, InAuths

LEMMA AuthIsAll ==
    ASSUME PlacesInv, TypeOK, NEW a \in auths, a.owner # Account
    PROVE  /\ a.owner \in Calls /\ a.owner \in asked /\ a.owner \notin gone
           /\ callbacks[a.owner] = 0
           /\ RequestsOf(a.owner) = {} /\ TimersOf(a.owner) = {} /\ AuthsOf(a.owner) = {a}
           /\ executed[a.owner] <= unheard[a.owner]
<1>1. a.owner \in Calls /\ a \in AuthsOf(a.owner)
  BY DEF TypeOK, Chains, Owners, AuthsOf
<1> QED BY <1>1 DEF PlacesInv, Settled, UnderWay, InRequests, InTimers, InAuths

LEMMA PlacesStep == TypeOK /\ AuthInv /\ PlacesInv /\ [Next]_vars => PlacesInv'
<1> SUFFICES ASSUME TypeOK, AuthInv, PlacesInv, [Next]_vars, NEW c \in Calls
             PROVE  Settled(c)' \/ UnderWay(c)'
  BY DEF PlacesInv
<1>0. executed[c] \in Nat /\ unheard[c] \in Nat /\ callbacks[c] \in Nat
  BY DEF TypeOK
<1>here. Settled(c) \/ UnderWay(c)
  BY DEF PlacesInv
<1>quiet. ASSUME RequestsOf(c)' = RequestsOf(c), TimersOf(c)' = TimersOf(c),
                 AuthsOf(c)' = AuthsOf(c),
                 c \in asked' <=> c \in asked, c \in gone' <=> c \in gone,
                 callbacks'[c] = callbacks[c], executed'[c] = executed[c],
                 unheard'[c] = unheard[c]
          PROVE  Settled(c)' \/ UnderWay(c)'
  <2>1. Settled(c) => Settled(c)'
    BY <1>quiet DEF Settled
  <2>2. InTimers(c) => InTimers(c)'
    BY <1>quiet DEF InTimers, TimersOf
  <2>3. InAuths(c) => InAuths(c)'
    BY <1>quiet DEF InAuths, AuthsOf
  <2>4. InRequests(c) => InRequests(c)'
    BY <1>quiet DEF InRequests, RequestsOf
  <2> QED BY <1>here, <1>quiet, <2>1, <2>2, <2>3, <2>4 DEF UnderWay
<1>1. ASSUME NEW d \in Calls, Ask(d) PROVE Settled(c)' \/ UnderWay(c)'
  <2>1. CASE d # c
    BY <1>1, <2>1, <1>quiet DEF Ask, Request, RequestsOf, TimersOf, AuthsOf
  <2>2. CASE d = c
    <3>1. Settled(c) /\ c \notin gone /\ callbacks[c] = 0 /\ executed[c] <= unheard[c]
      BY <1>1, <1>here, <2>2 DEF Ask, Settled, UnderWay
    <3>2. RequestsOf(c)' = {Request(c, token)} /\ Request(c, token).reply = "none"
      BY <1>1, <2>2, <3>1 DEF Ask, Settled, RequestsOf, Request
    <3>3. TimersOf(c)' = {} /\ AuthsOf(c)' = {}
      BY <1>1, <3>1 DEF Ask, Settled, TimersOf, AuthsOf
    <3>4. Request(c, token) \in requests'
      BY <1>1, <2>2 DEF Ask
    <3> QED BY <1>1, <2>2, <3>1, <3>2, <3>3, <3>4 DEF Ask, UnderWay, InRequests
  <2> QED BY <2>1, <2>2
<1>2. ASSUME NEW r \in requests, NEW reply \in Replies, ServerReplies(r, reply)
      PROVE  Settled(c)' \/ UnderWay(c)'
  <2> DEFINE s == [r EXCEPT !.reply = reply]
  <2>0. s.call = r.call /\ s.reply = reply /\ r.reply = "none"
    BY <1>2 DEF TypeOK, Requests, ServerReplies
  <2>a. requests' = (requests \ {r}) \cup {s} /\ timers' = timers /\ auths' = auths
    BY <1>2 DEF ServerReplies
  <2> HIDE DEF s
  <2>1. CASE r.call # c
    BY <1>2, <2>0, <2>a, <2>1, <1>quiet DEF ServerReplies, RequestsOf, TimersOf, AuthsOf, TypeOK
  <2>2. CASE r.call = c
    <3>1. RequestsOf(c)' = {s} /\ s \in requests'
      BY <2>0, <2>a, <2>2, RequestIsAll DEF RequestsOf
    <3>2. TimersOf(c)' = {} /\ AuthsOf(c)' = {}
      BY <2>a, <2>2, RequestIsAll DEF TimersOf, AuthsOf
    <3>3. executed[c] <= unheard[c] /\ unheard' = unheard
      BY <1>2, <2>0, <2>2, RequestIsAll DEF ServerReplies
    <3>4. executed'[c] = IF reply = "ok" THEN executed[c] + 1 ELSE executed[c]
      BY <1>2, <2>2 DEF ServerReplies, TypeOK
    <3>5. InRequests(c)'
      BY <1>0, <2>0, <3>1, <3>2, <3>3, <3>4 DEF InRequests
    <3> QED BY <1>2, <2>2, <3>5, RequestIsAll DEF ServerReplies, UnderWay
  <2> QED BY <2>1, <2>2
<1>gone. ASSUME RequestsOf(c)' = {}, TimersOf(c)' = {}, AuthsOf(c)' = {}, c \in asked',
                executed'[c] <= 1 + unheard'[c],
                \/ c \notin gone' /\ callbacks'[c] = 1
                \/ c \in gone' /\ callbacks'[c] = 0
         PROVE  Settled(c)' \/ UnderWay(c)'
  BY <1>gone DEF Settled
<1>3. ASSUME NEW r \in requests, Answered(r) PROVE Settled(c)' \/ UnderWay(c)'
  <2>0. /\ requests' = requests \ {r} /\ asked' = asked
        /\ executed' = executed /\ unheard' = unheard
    BY <1>3 DEF Answered
  <2>1. CASE r.call # c
    <3>1. RequestsOf(c)' = RequestsOf(c)
      BY <2>0, <2>1 DEF RequestsOf
    <3>2. TimersOf(c)' = TimersOf(c)
      BY <1>3, <2>1 DEF Answered, Expired, Timer, TimersOf
    <3>3. AuthsOf(c)' = AuthsOf(c)
      BY <1>3, <2>1 DEF Answered, Expired, Chain, Link, AuthsOf
    <3>4. callbacks'[c] = callbacks[c]
      BY <1>3, <2>1 DEF Answered, CallBack, TypeOK
    <3>5. c \in gone' <=> c \in gone
      BY <1>3, <2>1 DEF Answered
    <3> QED BY <1>quiet, <2>0, <3>1, <3>2, <3>3, <3>4, <3>5
  <2>2. CASE r.call = c
    <3>1. RequestsOf(c)' = {} /\ c \in asked'
      BY <2>0, <2>2, RequestIsAll DEF RequestsOf
    <3>2. executed'[c] <= 1 + unheard'[c] /\ (r.reply # "ok" => executed'[c] <= unheard'[c])
      BY <1>0, <2>0, <2>2, RequestIsAll
    <3>3. CASE r.reply \in {"ok", "error", "fatal"}
      <4>1. callbacks'[c] = 1 /\ gone' = gone /\ timers' = timers /\ auths' = auths
        BY <1>3, <2>2, <3>3, RequestIsAll DEF Answered, CallBack, TypeOK
      <4>2. TimersOf(c)' = {} /\ AuthsOf(c)' = {}
        BY <2>2, <4>1, RequestIsAll DEF TimersOf, AuthsOf
      <4> QED BY <1>gone, <2>2, <3>1, <3>2, <4>1, <4>2, RequestIsAll
    <3>4. CASE r.reply = "flood"
      <4>1. callbacks' = callbacks /\ c \in gone' /\ timers' = timers /\ auths' = auths
        BY <1>3, <2>2, <3>4 DEF Answered
      <4>2. TimersOf(c)' = {} /\ AuthsOf(c)' = {}
        BY <2>2, <4>1, RequestIsAll DEF TimersOf, AuthsOf
      <4> QED BY <1>gone, <2>2, <3>1, <3>2, <4>1, <4>2, RequestIsAll
    <3>5. CASE r.reply = "rate" \/ (r.reply = "expired" /\ token = NoToken)
      <4>1. PICK t : t.call = c /\ timers' = timers \cup {t} /\ auths' = auths
        BY <1>3, <2>2, <3>5 DEF Answered, Expired, Timer
      <4>2. callbacks' = callbacks /\ gone' = gone
        BY <1>3, <3>5 DEF Answered
      <4>3. TimersOf(c)' = {t} /\ AuthsOf(c)' = {} /\ t \in timers'
        BY <2>2, <4>1, RequestIsAll DEF TimersOf, AuthsOf
      <4>4. InTimers(c)'
        BY <3>1, <3>2, <3>5, <4>3 DEF InTimers
      <4> QED BY <2>2, <3>1, <4>2, <4>4, RequestIsAll DEF UnderWay
    <3>6. CASE r.reply = "expired" /\ token # NoToken
      <4>1. PICK a : a.owner = c /\ auths' = auths \cup {a} /\ timers' = timers
        BY <1>3, <2>2, <3>6 DEF Answered, Expired, Chain, Link
      <4>2. callbacks' = callbacks /\ gone' = gone
        BY <1>3, <3>6 DEF Answered
      <4>3. AuthsOf(c)' = {a} /\ TimersOf(c)' = {} /\ a \in auths'
        BY <2>2, <4>1, RequestIsAll DEF TimersOf, AuthsOf
      <4>4. InAuths(c)'
        BY <3>1, <3>2, <3>6, <4>3 DEF InAuths
      <4> QED BY <2>2, <3>1, <4>2, <4>4, RequestIsAll DEF UnderWay
    <3>7. r.reply \in Replies
      BY <1>3 DEF Answered, Replies
    <3> QED BY <3>3, <3>4, <3>5, <3>6, <3>7 DEF Replies
  <2> QED BY <2>1, <2>2
<1>4. ASSUME NEW r \in requests, RequestFails(r) PROVE Settled(c)' \/ UnderWay(c)'
  <2>0. /\ requests' = requests \ {r} /\ asked' = asked /\ gone' = gone
        /\ executed' = executed /\ auths' = auths
    BY <1>4 DEF RequestFails
  <2>1. CASE r.call # c
    <3>1. RequestsOf(c)' = RequestsOf(c) /\ AuthsOf(c)' = AuthsOf(c)
      BY <2>0, <2>1 DEF RequestsOf, AuthsOf
    <3>2. TimersOf(c)' = TimersOf(c)
      BY <1>4, <2>1 DEF RequestFails, TimersOf
    <3>3. callbacks'[c] = callbacks[c] /\ unheard'[c] = unheard[c]
      BY <1>4, <2>1 DEF RequestFails, CallBack, TypeOK
    <3> QED BY <1>quiet, <2>0, <3>1, <3>2, <3>3
  <2>2. CASE r.call = c
    <3>1. RequestsOf(c)' = {} /\ AuthsOf(c)' = {} /\ c \in asked' /\ c \notin gone'
      BY <2>0, <2>2, RequestIsAll DEF RequestsOf, AuthsOf
    <3>2. unheard'[c] = IF r.reply = "ok" THEN unheard[c] + 1 ELSE unheard[c]
      BY <1>4, <2>2 DEF RequestFails, TypeOK
    <3>3. executed'[c] <= unheard'[c] /\ executed'[c] <= 1 + unheard'[c]
      BY <1>0, <2>0, <2>2, <3>2, RequestIsAll
    <3>4. CASE r.tries < MaxRetries
      <4>1. PICK t : t.call = c /\ timers' = timers \cup {t}
        BY <1>4, <2>2, <3>4 DEF RequestFails
      <4>2. callbacks' = callbacks
        BY <1>4, <3>4 DEF RequestFails
      <4>3. TimersOf(c)' = {t} /\ t \in timers'
        BY <2>2, <4>1, RequestIsAll DEF TimersOf
      <4>4. InTimers(c)'
        BY <3>1, <3>3, <4>3 DEF InTimers
      <4> QED BY <2>2, <3>1, <4>2, <4>4, RequestIsAll DEF UnderWay
    <3>5. CASE ~(r.tries < MaxRetries)
      <4>1. timers' = timers /\ callbacks'[c] = callbacks[c] + 1
        BY <1>4, <2>2, <3>5 DEF RequestFails, CallBack, TypeOK
      <4>2. TimersOf(c)' = {} /\ callbacks'[c] = 1
        BY <2>2, <4>1, RequestIsAll DEF TimersOf
      <4> QED BY <1>gone, <3>1, <3>3, <4>2
    <3> QED BY <3>4, <3>5
  <2> QED BY <2>1, <2>2
<1>5. ASSUME NEW t \in timers, TimerFires(t) PROVE Settled(c)' \/ UnderWay(c)'
  <2>1. PICK r : /\ r.call = t.call /\ r.reply = "none"
                 /\ requests' = requests \cup {r} /\ timers' = timers \ {t}
    <3> DEFINE again == [Request(t.call, t.token) EXCEPT !.tries = t.tries + 1]
    <3>1. again.call = t.call /\ again.reply = "none"
      BY DEF Request
    <3>2. Request(t.call, token).call = t.call /\ Request(t.call, token).reply = "none"
      BY DEF Request
    <3>3. requests' = requests \cup {IF t.kind = "resend" THEN again ELSE Request(t.call, token)}
      BY <1>5 DEF TimerFires
    <3>4. timers' = timers \ {t}
      BY <1>5 DEF TimerFires
    <3> HIDE DEF again
    <3> QED BY <3>1, <3>2, <3>3, <3>4
  <2>2. /\ auths' = auths /\ asked' = asked /\ callbacks' = callbacks /\ gone' = gone
        /\ executed' = executed /\ unheard' = unheard
    BY <1>5 DEF TimerFires, history
  <2>3. CASE t.call # c
    BY <1>quiet, <2>1, <2>2, <2>3 DEF RequestsOf, TimersOf, AuthsOf
  <2>4. CASE t.call = c
    <3>1. RequestsOf(c)' = {r} /\ TimersOf(c)' = {} /\ AuthsOf(c)' = {} /\ r \in requests'
      BY <2>1, <2>2, <2>4, TimerIsAll DEF RequestsOf, TimersOf, AuthsOf
    <3>2. InRequests(c)'
      BY <2>1, <2>2, <2>4, <3>1, TimerIsAll DEF InRequests
    <3> QED BY <2>2, <2>4, <3>2, TimerIsAll DEF UnderWay
  <2> QED BY <2>3, <2>4
<1>6. ASSUME NEW t \in alive, Revoke(t) PROVE Settled(c)' \/ UnderWay(c)'
  BY <1>6, <1>quiet DEF Revoke, places, history, RequestsOf, TimersOf, AuthsOf
<1>7. ASSUME NEW a \in auths, AuthFails(a) \/ AuthRetry(a) \/ Redirected(a) \/ NextForm(a)
      PROVE  Settled(c)' \/ UnderWay(c)'
  <2>1. PICK b : b.owner = a.owner /\ Advance(a, b)
    BY <1>7 DEF AuthFails, AuthRetry, Redirected, NextForm, Link
  <2>2. auths' = (auths \ {a}) \cup {b} /\ requests' = requests /\ timers' = timers
    BY <2>1 DEF Advance
  <2>3. /\ asked' = asked /\ callbacks' = callbacks /\ gone' = gone
        /\ executed' = executed /\ unheard' = unheard
    BY <2>1 DEF Advance, history
  <2>4. RequestsOf(c)' = RequestsOf(c) /\ TimersOf(c)' = TimersOf(c)
    BY <2>2 DEF RequestsOf, TimersOf
  <2>5. CASE a.owner # c
    BY <1>quiet, <2>1, <2>2, <2>3, <2>4, <2>5 DEF AuthsOf
  <2>6. CASE a.owner = c
    <3>0. a.owner # Account
      BY <2>6, ApiAssumption
    <3>1. AuthsOf(c)' = {b} /\ b \in auths'
      BY <2>1, <2>2, <2>6, <3>0, AuthIsAll DEF AuthsOf
    <3>2. InAuths(c)'
      BY <2>3, <2>4, <2>6, <3>0, <3>1, AuthIsAll DEF InAuths
    <3> QED BY <2>3, <2>6, <3>0, <3>2, AuthIsAll DEF UnderWay
  <2> QED BY <2>5, <2>6
<1>8. ASSUME NEW a \in auths, NEW t \in Tokens, AuthSucceeds(a, t)
      PROVE  Settled(c)' \/ UnderWay(c)'
  <2>1. /\ auths' = auths \ {a} /\ timers' = timers /\ asked' = asked
        /\ callbacks' = callbacks /\ gone' = gone
        /\ executed' = executed /\ unheard' = unheard
    BY <1>8 DEF AuthSucceeds, history
  <2>2. TimersOf(c)' = TimersOf(c)
    BY <2>1 DEF TimersOf
  <2>3. CASE a.owner # c
    <3>1. RequestsOf(c)' = RequestsOf(c)
      BY <1>8, <2>3 DEF AuthSucceeds, Request, RequestsOf
    <3>2. AuthsOf(c)' = AuthsOf(c)
      BY <2>1, <2>3 DEF AuthsOf
    <3> QED BY <1>quiet, <2>1, <2>2, <3>1, <3>2
  <2>4. CASE a.owner = c
    <3>0. a.owner # Account
      BY <2>4, ApiAssumption
    <3>1. PICK r : r.call = c /\ r.reply = "none" /\ requests' = requests \cup {r}
      BY <1>8, <2>4, <3>0 DEF AuthSucceeds, Request
    <3>2. RequestsOf(c)' = {r} /\ AuthsOf(c)' = {} /\ r \in requests'
      BY <2>1, <2>4, <3>0, <3>1, AuthIsAll DEF RequestsOf, AuthsOf
    <3>3. InRequests(c)'
      BY <2>1, <2>2, <2>4, <3>0, <3>1, <3>2, AuthIsAll DEF InRequests
    <3> QED BY <2>1, <2>4, <3>0, <3>3, AuthIsAll DEF UnderWay
  <2> QED BY <2>3, <2>4
<1>9. ASSUME NEW a \in auths, AuthEnds(a) PROVE Settled(c)' \/ UnderWay(c)'
  <2>1. /\ auths' = auths \ {a} /\ requests' = requests /\ timers' = timers
        /\ asked' = asked /\ gone' = gone /\ executed' = executed /\ unheard' = unheard
    BY <1>9 DEF AuthEnds
  <2>2. RequestsOf(c)' = RequestsOf(c) /\ TimersOf(c)' = TimersOf(c)
    BY <2>1 DEF RequestsOf, TimersOf
  <2>3. CASE a.owner # c
    <3>1. AuthsOf(c)' = AuthsOf(c)
      BY <2>1, <2>3 DEF AuthsOf
    <3>2. callbacks'[c] = callbacks[c]
      BY <1>9, <2>3 DEF AuthEnds, CallBack, TypeOK
    <3> QED BY <1>quiet, <2>1, <2>2, <3>1, <3>2
  <2>4. CASE a.owner = c
    <3>0. a.owner # Account
      BY <2>4, ApiAssumption
    <3>1. AuthsOf(c)' = {}
      BY <2>1, <2>4, <3>0, AuthIsAll DEF AuthsOf
    <3>2. callbacks'[c] = 1
      BY <1>9, <2>4, <3>0, AuthIsAll DEF AuthEnds, CallBack, TypeOK
    <3>3. executed'[c] <= 1 + unheard'[c]
      BY <1>0, <2>1, <2>4, <3>0, AuthIsAll
    <3> QED BY <1>gone, <2>1, <2>2, <2>4, <3>0, <3>1, <3>2, <3>3, AuthIsAll
  <2> QED BY <2>3, <2>4
<1>10. CASE Login
  <2>1. CASE auths' = auths
    BY <1>10, <1>quiet, <2>1 DEF Login, history, RequestsOf, TimersOf, AuthsOf
  <2>2. CASE auths' = {Chain(Account)} /\ auths = {}
    <3>1. AuthsOf(c)' = AuthsOf(c)
      BY <2>2, ApiAssumption DEF AuthsOf, Chain, Link
    <3> QED BY <1>10, <1>quiet, <3>1 DEF Login, history, RequestsOf, TimersOf
  <2> QED BY <1>10, <2>1, <2>2 DEF Login, AuthInv
\* What waited when the session ended was called back or given up.
<1>over. ASSUME SessionOver, NEW failed \in SUBSET auths,
                callbacks'[c] = callbacks[c] + Cardinality({a \in failed : a.owner = c}),
                gone' = gone \cup Waiting \cup ({a.owner : a \in auths \ failed} \ {Account})
         PROVE  Settled(c)' \/ UnderWay(c)'
  <2>0. /\ RequestsOf(c)' = {} /\ TimersOf(c)' = {} /\ AuthsOf(c)' = {}
        /\ asked' = asked /\ executed' = executed /\ unheard' = unheard
    BY <1>over DEF SessionOver, RequestsOf, TimersOf, AuthsOf
  <2>1. c \in Waiting <=> RequestsOf(c) # {} \/ TimersOf(c) # {}
    BY DEF Waiting, RequestsOf, TimersOf
  <2>2. c # Account
    BY ApiAssumption
  <2>3. {a \in failed : a.owner = c} = AuthsOf(c) \cap failed
    BY DEF AuthsOf
  <2>4. c \in {a.owner : a \in auths \ failed} <=> ~(AuthsOf(c) \subseteq failed)
    BY DEF AuthsOf
  <2>5. Cardinality({}) = 0 /\ \A x : Cardinality({x}) = 1
    BY FS_EmptySet, FS_Singleton
  <2>6. CASE AuthsOf(c) = {}
    <3>1. callbacks'[c] = callbacks[c]
      BY <1>over, <1>0, <2>3, <2>5, <2>6
    <3>2. c \in gone' <=> c \in gone \/ c \in Waiting
      BY <1>over, <2>4, <2>6
    <3>3. CASE Settled(c)
      BY <1>quiet, <2>0, <2>1, <2>6, <3>1, <3>2, <3>3 DEF Settled
    <3>4. CASE UnderWay(c)
      <4>1. c \in Waiting
        BY <2>1, <2>6, <3>4 DEF UnderWay, InRequests, InTimers, InAuths
      <4>2. executed'[c] <= 1 + unheard'[c]
        BY <1>0, <2>0, <2>6, <3>4 DEF UnderWay, InRequests, InTimers, InAuths
      <4> QED BY <1>gone, <2>0, <3>1, <3>2, <3>4, <4>1, <4>2 DEF UnderWay
    <3> QED BY <1>here, <3>3, <3>4
  <2>7. CASE AuthsOf(c) # {}
    <3>1. UnderWay(c) /\ InAuths(c)
      BY <1>here, <2>7 DEF Settled, UnderWay, InRequests, InTimers
    <3>2. PICK a \in auths : AuthsOf(c) = {a}
      BY <3>1 DEF InAuths
    <3>3. c \notin Waiting /\ executed'[c] <= 1 + unheard'[c]
      BY <1>0, <2>0, <2>1, <3>1 DEF InAuths
    <3>4. CASE a \in failed
      <4>1. AuthsOf(c) \cap failed = {a}
        BY <3>2, <3>4
      <4>2. callbacks'[c] = 1
        <5>1. Cardinality({b \in failed : b.owner = c}) = 1
          BY <2>3, <2>5, <4>1
        <5> QED BY <1>over, <3>1, <5>1 DEF UnderWay
      <4>3. c \notin gone'
        BY <1>over, <2>4, <3>1, <3>2, <3>3, <3>4 DEF UnderWay
      <4> QED BY <1>gone, <2>0, <3>1, <3>3, <4>2, <4>3 DEF UnderWay
    <3>5. CASE a \notin failed
      <4>1. AuthsOf(c) \cap failed = {}
        BY <3>2, <3>5
      <4>2. callbacks'[c] = 0
        BY <1>over, <2>3, <2>5, <3>1, <4>1 DEF UnderWay
      <4>3. c \in gone'
        BY <1>over, <2>2, <2>4, <3>2, <3>5
      <4> QED BY <1>gone, <2>0, <3>1, <3>3, <4>2, <4>3 DEF UnderWay
    <3> QED BY <3>4, <3>5
  <2> QED BY <2>6, <2>7
<1>11. CASE Close
  <2>1. SessionOver
    BY <1>11 DEF Close
  <2>2. PICK failed \in SUBSET auths :
          /\ callbacks' = [d \in Calls |->
                             callbacks[d] + Cardinality({a \in failed : a.owner = d})]
          /\ gone' = gone \cup Waiting \cup ({a.owner : a \in auths \ failed} \ {Account})
    <3>1. PICK won \in SUBSET auths :
            LET failed == {a \in auths : a.at = "request"} \ won
            IN /\ callbacks' = [d \in Calls |->
                                  callbacks[d] + Cardinality({a \in failed : a.owner = d})]
               /\ gone' = gone \cup Waiting \cup ({a.owner : a \in auths \ failed} \ {Account})
      BY <1>11 DEF Close
    <3>2. {a \in auths : a.at = "request"} \ won \in SUBSET auths
      OBVIOUS
    <3> QED BY <3>1, <3>2
  <2>3. callbacks'[c] = callbacks[c] + Cardinality({a \in failed : a.owner = c})
    BY <2>2
  <2> QED BY <1>over, <2>1, <2>2, <2>3
<1>12. CASE Crash
  <2>1. SessionOver /\ callbacks' = callbacks
    BY <1>12 DEF Crash
  <2>2. {a \in {} : a.owner = c} = {} /\ auths \ {} = auths
    OBVIOUS
  <2>3. callbacks'[c] = callbacks[c] + Cardinality({a \in {} : a.owner = c})
    BY <1>0, <2>1, <2>2, FS_EmptySet
  <2>4. gone' = gone \cup Waiting \cup ({a.owner : a \in auths \ {}} \ {Account})
    BY <1>12, <2>2 DEF Crash
  <2>5. {} \in SUBSET auths
    OBVIOUS
  <2> HIDE DEF Waiting
  <2> QED BY <1>over, <2>1, <2>3, <2>4, <2>5
<1>13. CASE UNCHANGED vars
  BY <1>13, <1>quiet DEF vars, places, history, RequestsOf, TimersOf, AuthsOf
<1> QED
  BY <1>1, <1>2, <1>3, <1>4, <1>5, <1>6, <1>7, <1>8, <1>9, <1>10, <1>11, <1>12, <1>13
     DEF Next, HandleRequest, EndStep

\* Through repetitions, waiting, authentication, closing and crashes a call is
\* neither lost nor called back twice, and the server carries it out again only
\* when an answer was lost.
THEOREM CallsAreHandledOnce == Spec => []CallsInv
<1>1. Init => PlacesInv
  BY DEF Init, PlacesInv, Settled, RequestsOf, TimersOf, AuthsOf
<1>2. TypeOK /\ AuthInv /\ PlacesInv /\ [Next]_vars => PlacesInv'
  BY PlacesStep
<1>3. TypeOK /\ PlacesInv => CallsInv
  BY PlacesCounted
<1>4. Init => AuthInv
  BY DEF Init, AuthInv, OneAuthentication
<1>5. TypeOK /\ AuthInv /\ [Next]_vars => AuthInv'
  BY AuthStep
<1> QED BY <1>1, <1>2, <1>3, <1>4, <1>5, TypeCorrect, PTL DEF Spec

(***************************************************************************)
(* Waiting for a token                                                     *)
(***************************************************************************)
\* Without a token somebody authenticates, or the session is about to end.
SoughtInv == session = "on" /\ token = NoToken /\ ~doomed => auths # {}

LEMMA SoughtStep == TypeOK /\ AuthInv /\ SoughtInv /\ [Next]_vars => SoughtInv'
<1> SUFFICES ASSUME TypeOK, AuthInv, SoughtInv, [Next]_vars PROVE SoughtInv'
  OBVIOUS
<1> USE DEF SoughtInv
<1>on. \A x \in requests \cup timers \cup auths : session = "on"
  BY DEF AuthInv, TypeOK
<1>1. ASSUME NEW c \in Calls, Ask(c) PROVE SoughtInv'
  BY <1>1 DEF Ask
<1>2. ASSUME NEW r \in requests, NEW reply \in Replies, ServerReplies(r, reply) PROVE SoughtInv'
  BY <1>2 DEF ServerReplies
<1>3. ASSUME NEW r \in requests, Answered(r) PROVE SoughtInv'
  <2>1. CASE r.reply = "expired" /\ token # NoToken
    <3>1. Chain(r.call) \in auths'
      BY <1>3, <2>1 DEF Answered, Expired
    <3> QED BY <3>1
  <2>2. CASE r.reply = "fatal"
    BY <1>3, <2>2 DEF Answered
  <2>3. CASE r.reply # "fatal" /\ ~(r.reply = "expired" /\ token # NoToken)
    BY <1>3, <1>on, <2>3 DEF Answered, Expired
  <2> QED BY <2>1, <2>2, <2>3
<1>4. ASSUME NEW r \in requests, RequestFails(r) PROVE SoughtInv'
  BY <1>4 DEF RequestFails
<1>5. ASSUME NEW t \in timers, TimerFires(t) PROVE SoughtInv'
  BY <1>5 DEF TimerFires
<1>6. ASSUME NEW t \in alive, Revoke(t) PROVE SoughtInv'
  BY <1>6 DEF Revoke, places
<1>7. ASSUME NEW a \in auths, AuthFails(a) \/ AuthRetry(a) \/ Redirected(a) \/ NextForm(a)
      PROVE  SoughtInv'
  <2>1. PICK b : Advance(a, b)
    BY <1>7 DEF AuthFails, AuthRetry, Redirected, NextForm
  <2>2. b \in auths'
    BY <2>1 DEF Advance
  <2> QED BY <2>2
<1>8. ASSUME NEW a \in auths, NEW t \in Tokens, AuthSucceeds(a, t) PROVE SoughtInv'
  BY <1>8, ApiAssumption DEF AuthSucceeds
<1>9. ASSUME NEW a \in auths, AuthEnds(a) PROVE SoughtInv'
  BY <1>9 DEF AuthEnds
<1>10. CASE Login
  <2>1. CASE stored = NoToken
    <3>1. auths' # {}
      BY <1>10, <2>1 DEF Login
    <3> QED BY <3>1
  <2>2. CASE stored # NoToken
    BY <1>10, <2>2 DEF Login
  <2> QED BY <2>1, <2>2
<1>11. CASE Close \/ Crash
  <2>1. session' = "off"
    BY <1>11 DEF Close, Crash, SessionOver
  <2> QED BY <2>1
<1>12. CASE UNCHANGED vars
  BY <1>12 DEF vars, places
<1> QED
  BY <1>1, <1>2, <1>3, <1>4, <1>5, <1>6, <1>7, <1>8, <1>9, <1>10, <1>11, <1>12
     DEF Next, HandleRequest, EndStep

\* Whatever calls are refused and however authentications end, the loop of
\* vk_call_after_auth waits for an authentication of somebody who is not in
\* that loop, or for the end of the session: calls do not wait for each other.
THEOREM NobodyWaitsInVain == Spec => []TokenIsSought
<1>1. TypeOK /\ PlacesInv /\ SoughtInv => TokenIsSought
  <2> SUFFICES ASSUME TypeOK, PlacesInv, NEW a \in auths PROVE a.owner \notin Waiting
    BY DEF TokenIsSought, SoughtInv
  <2>1. a.owner = Account \/ a.owner \in Calls
    BY DEF TypeOK, Chains, Owners
  <2>2. CASE a.owner = Account
    <3>1. Waiting \subseteq Calls
      BY WaitingType
    <3> QED BY <2>2, <3>1, ApiAssumption
  <2>3. CASE a.owner \in Calls
    <3>1. PICK c \in Calls : c = a.owner
      BY <2>3
    <3>2. AuthsOf(c) # {}
      BY <3>1 DEF AuthsOf
    <3>3. InAuths(c)
      BY <3>2 DEF PlacesInv, Settled, UnderWay, InRequests, InTimers
    <3>4. RequestsOf(c) = {} /\ TimersOf(c) = {}
      BY <3>3 DEF InAuths
    <3> QED BY <3>1, <3>4 DEF Waiting, RequestsOf, TimersOf
  <2> QED BY <2>1, <2>2, <2>3
<1>2. Init => AuthInv /\ PlacesInv /\ SoughtInv
  BY DEF Init, AuthInv, OneAuthentication, PlacesInv, Settled, RequestsOf, TimersOf, AuthsOf, SoughtInv
<1>3. TypeOK /\ AuthInv /\ PlacesInv /\ SoughtInv /\ [Next]_vars
        => AuthInv' /\ PlacesInv' /\ SoughtInv'
  BY AuthStep, PlacesStep, SoughtStep
<1> QED BY <1>1, <1>2, <1>3, TypeCorrect, PTL DEF Spec

=============================================================================
