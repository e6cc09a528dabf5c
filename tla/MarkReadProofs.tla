--------------------------- MODULE MarkReadProofs ---------------------------
(***************************************************************************)
(* Theorems about MarkRead, for any users, chats, messages and settings.   *)
(***************************************************************************)
EXTENDS MarkRead, TLAPS

(***************************************************************************)
(* Looking through the deferred messages gives sets of messages.           *)
(***************************************************************************)
LEMMA MarkDeferredType ==
    ASSUME TypeOK, NEW is, NEW active, MarkDeferred(is, active)
    PROVE  /\ deferred' \in SUBSET deferred
           /\ restored' \in SUBSET restored
           /\ calls' \in SUBSET Lists
<1>1. CASE UNCHANGED <<deferred, restored, calls>>
  BY <1>1 DEF TypeOK
<1>2. CASE /\ deferred' = {m \in deferred : ~InActive(m)}
           /\ restored' = {}
           /\ MarkMessages({m \in deferred : InActive(m)})
  BY <1>2 DEF TypeOK, MarkMessages, Lists
<1> QED BY <1>1, <1>2 DEF MarkDeferred

LEMMA MarkMessagesType ==
    ASSUME TypeOK, NEW S \in SUBSET Messages, MarkMessages(S)
    PROVE  calls' \in SUBSET Lists
  BY DEF TypeOK, MarkMessages, Lists

(***************************************************************************)
(* message_in_active says which messages the user is watching, also for    *)
(* the author of a message to a chat.                                      *)
(***************************************************************************)
LEMMA InActiveIsWatched ==
    ASSUME focus \in Focuses, NEW m \in Messages
    PROVE  InActive(m) <=> Watched(m)
<1>1. m.user \in Users /\ m.chat \in Chats \cup {0} /\ m.user # 0 /\ 0 \notin Chats /\ 0 \notin Users
  BY IdsAssumption
<1>2. CASE focus \in [user : Users, chat : {0}]
  <2>1. focus.chat = 0 /\ focus.user # 0 /\ focus = [user |-> focus.user, chat |-> 0]
    BY <1>1, <1>2
  <2> QED BY <1>1, <2>1 DEF InActive, Watched
<1>3. CASE focus \in [user : {0}, chat : Chats]
  <2>1. focus.user = 0 /\ focus.chat # 0 /\ focus = [user |-> 0, chat |-> focus.chat]
    BY <1>1, <1>3
  <2> QED BY <1>1, <2>1 DEF InActive, Watched
<1>4. CASE focus = Elsewhere
  BY <1>1, <1>4 DEF InActive, Watched, Elsewhere
<1> QED BY <1>2, <1>3, <1>4 DEF Focuses

(***************************************************************************)
(* Every variable keeps its type.                                          *)
(***************************************************************************)
THEOREM TypeCorrect == Spec => []TypeOK
<1> USE IdsAssumption, ChoicesAssumption
<1>1. Init => TypeOK
  <2> SUFFICES ASSUME Init PROVE TypeOK
    OBVIOUS
  <2>1. focus \in Focuses /\ looks \in BOOLEAN /\ available \in BOOLEAN /\ session \in {"off", "on"}
    BY Zenon DEF Init, Focuses
  <2>2. options \in [onlineOnly : BOOLEAN, replyingOnly : BOOLEAN]
    BY DEF Init
  <2>3. /\ seen \in SUBSET Messages /\ deferred \in SUBSET Messages /\ restored \in SUBSET Messages
        /\ calls \in SUBSET Lists /\ read \in SUBSET Messages
        /\ lost \in SUBSET Messages /\ stored \in SUBSET Messages
    BY Zenon DEF Init
  <2>4. crashes \in 0..MaxCrashes
    BY DEF Init
  <2> QED BY <2>1, <2>2, <2>3, <2>4 DEF TypeOK
<1>2. TypeOK /\ [Next]_vars => TypeOK'
  <2> SUFFICES ASSUME TypeOK, [Next]_vars PROVE TypeOK'
    OBVIOUS
  <2>1. CASE Login
    BY <2>1 DEF Login, TypeOK, serverVars
  <2>2. ASSUME NEW S \in SUBSET Unread, Receive(S) PROVE TypeOK'
    <3>1. S \in SUBSET Messages /\ MarkedAtOnce(S) \in SUBSET Messages
      BY DEF Unread, MarkedAtOnce
    <3>2. calls' \in SUBSET Lists
      BY <2>2, <3>1, MarkMessagesType DEF Receive
    <3> QED BY <2>2, <3>1, <3>2 DEF Receive, TypeOK, userVars
  <2>3. ASSUME NEW C \in calls, CallAnswered(C) \/ CallFailed(C) PROVE TypeOK'
    <3>1. C \in SUBSET Messages
      BY DEF TypeOK, Lists
    <3> QED BY <2>3, <3>1 DEF CallAnswered, CallFailed, TypeOK, userVars, listVars
  <2>4. ASSUME NEW c \in Focuses, SwitchTo(c) PROVE TypeOK'
    <3>1. looks' \in BOOLEAN
      BY <2>4, Zenon DEF SwitchTo, TypeOK
    <3> QED BY <2>4, <3>1 DEF SwitchTo, TypeOK, listVars, serverVars
  <2>5. CASE Look
    <3>1. MarkDeferred(available, FALSE) /\ looks' \in BOOLEAN
      BY <2>5, Zenon DEF Look
    <3>2. /\ deferred' \in SUBSET deferred /\ restored' \in SUBSET restored
          /\ calls' \in SUBSET Lists
      BY <3>1, MarkDeferredType
    <3> QED BY <2>5, <3>1, <3>2 DEF Look, TypeOK, userVars
  <2>6. ASSUME NEW is \in BOOLEAN, SetStatus(is) PROVE TypeOK'
    <3>1. MarkDeferred(is, FALSE) \/ UNCHANGED <<deferred, restored, calls>>
      BY <2>6 DEF SetStatus
    <3>2. /\ deferred' \in SUBSET deferred /\ restored' \in SUBSET restored
          /\ calls' \in SUBSET Lists
      BY <3>1, MarkDeferredType DEF TypeOK
    <3> QED BY <2>6, <3>2 DEF SetStatus, TypeOK
  <2>7. CASE Act
    <3>1. /\ deferred' \in SUBSET deferred /\ restored' \in SUBSET restored
          /\ calls' \in SUBSET Lists
      BY <2>7, MarkDeferredType DEF Act
    <3> QED BY <2>7, <3>1 DEF Act, TypeOK, userVars
  <2>8. ASSUME NEW S \in SUBSET Unread, NEW done \in SUBSET calls, Close(S, done) PROVE TypeOK'
    <3>1. S \in SUBSET Messages /\ MarkedAtOnce(S) \in SUBSET Messages
          /\ UNION calls \in SUBSET Messages /\ UNION done \in SUBSET Messages
      BY DEF Unread, MarkedAtOnce, TypeOK, Lists
    <3>2. looks' \in BOOLEAN /\ session' \in {"off", "on"}
      BY <2>8, Zenon DEF Close
    <3> QED BY <2>8, <3>1, <3>2 DEF Close, CallsOver, TypeOK, userVars
  <2>9. ASSUME NEW again \in SUBSET (seen \ read), NEW done \in SUBSET calls, Crash(again, done)
        PROVE  TypeOK'
    <3>1. UNION calls \in SUBSET Messages /\ UNION done \in SUBSET Messages
      BY DEF TypeOK, Lists
    <3>2. looks' \in BOOLEAN /\ session' \in {"off", "on"}
      BY <2>9, Zenon DEF Crash
    <3> QED BY <2>9, <3>1, <3>2 DEF Crash, CallsOver, TypeOK, userVars
  <2>10. CASE UNCHANGED vars
    BY <2>10 DEF vars, TypeOK, userVars, listVars, serverVars
  <2> QED BY <2>1, <2>2, <2>3, <2>4, <2>5, <2>6, <2>7, <2>8, <2>9, <2>10 DEF Next
<1> QED BY <1>1, <1>2, PTL DEF Spec

(***************************************************************************)
(* Between sessions VkData is gone, and its list and calls with it.        *)
(***************************************************************************)
NothingWithoutSession == session = "off" => deferred = {} /\ calls = {}

AccountInv == MarkIsAccountedFor /\ NothingWithoutSession

(***************************************************************************)
(* What the calls in progress are about, with a call more or one less.     *)
(***************************************************************************)
LEMMA CallMore == ASSUME NEW A, NEW S PROVE UNION (A \cup {S}) = (UNION A) \cup S
  OBVIOUS
LEMMA CallLess == ASSUME NEW A, NEW S PROVE (UNION A) \subseteq (UNION (A \ {S})) \cup S
<1>1. ASSUME NEW B \in A, NEW x \in B PROVE x \in UNION (A \ {S}) \/ x \in S
  OBVIOUS
<1> QED BY <1>1
LEMMA MarkMessagesAdds ==
    ASSUME NEW S, MarkMessages(S)
    PROVE  UNION calls' = (UNION calls) \cup S /\ (S = {} => calls' = calls)
<1>1. CASE S = {}
  BY <1>1 DEF MarkMessages
<1>2. CASE S # {}
  BY <1>2, CallMore DEF MarkMessages
<1> QED BY <1>1, <1>2

(***************************************************************************)
(* Looking through the deferred messages loses none of them.               *)
(***************************************************************************)
LEMMA MarkDeferredKeeps ==
    ASSUME NEW is, NEW active, MarkDeferred(is, active)
    PROVE  /\ deferred \cup (UNION calls) \subseteq deferred' \cup UNION calls'
           /\ deferred = {} /\ calls = {} => deferred' = {} /\ calls' = {}
<1>1. CASE UNCHANGED <<deferred, restored, calls>>
  BY <1>1
<1>2. CASE /\ deferred' = {m \in deferred : ~InActive(m)}
           /\ MarkMessages({m \in deferred : InActive(m)})
  <2> DEFINE hit == {m \in deferred : InActive(m)}
  <2>1. UNION calls' = (UNION calls) \cup hit /\ (hit = {} => calls' = calls)
    BY <1>2, MarkMessagesAdds
  <2>2. deferred \subseteq deferred' \cup hit /\ deferred' \subseteq deferred /\ (deferred = {} => hit = {})
    BY <1>2
  <2> HIDE DEF hit
  <2> QED BY <2>1, <2>2
<1> QED BY <1>1, <1>2 DEF MarkDeferred

(***************************************************************************)
(* No mark of a received message is forgotten, except by the failures that *)
(* lost records.                                                           *)
(***************************************************************************)
THEOREM MarksAreAccountedFor == Spec => []MarkIsAccountedFor
<1>1. Init => AccountInv
  BY DEF Init, AccountInv, MarkIsAccountedFor, NothingWithoutSession
<1>2. TypeOK /\ AccountInv /\ [Next]_vars => AccountInv'
  <2> SUFFICES ASSUME TypeOK, AccountInv, [Next]_vars PROVE AccountInv'
    OBVIOUS
  <2> USE DEF AccountInv, MarkIsAccountedFor, NothingWithoutSession
  <2>keep. ASSUME seen' \subseteq seen, UNCHANGED <<session, read, lost, stored>>,
                  deferred \cup (UNION calls) \subseteq deferred' \cup UNION calls',
                  deferred = {} /\ calls = {} => deferred' = {} /\ calls' = {}
           PROVE  AccountInv'
    BY <2>keep
  <2>1. CASE Login
    BY <2>1 DEF Login, serverVars
  <2>2. ASSUME NEW S \in SUBSET Unread, Receive(S) PROVE AccountInv'
    <3>1. UNION calls' = (UNION calls) \cup MarkedAtOnce(S)
      BY <2>2, MarkMessagesAdds DEF Receive
    <3>2. /\ session' = "on" /\ seen' = seen \cup S /\ UNCHANGED <<read, lost, stored>>
          /\ deferred' = deferred \cup (S \ MarkedAtOnce(S))
      BY <2>2 DEF Receive
    <3>3. session = "on"
      BY <2>2 DEF Receive
    <3>4. session' # "off"
      BY <3>2
    <3> QED BY <3>1, <3>2, <3>3, <3>4
  <2>3. ASSUME NEW C \in calls, CallAnswered(C) \/ CallFailed(C) PROVE AccountInv'
    <3>1. calls' = calls \ {C} /\ read \cup lost \cup C \subseteq read' \cup lost'
          /\ UNCHANGED <<session, seen, deferred, stored>>
      BY <2>3 DEF CallAnswered, CallFailed, listVars
    <3>2. (UNION calls) \subseteq (UNION calls') \cup C
      BY <3>1, CallLess
    <3>3. session # "off"
      BY <2>3 DEF CallAnswered, CallFailed
    <3> QED BY <3>1, <3>2, <3>3
  <2>4. ASSUME NEW c \in Focuses, SwitchTo(c) PROVE AccountInv'
    BY <2>4 DEF SwitchTo, listVars, serverVars
  <2>5. CASE Look
    BY <2>5, <2>keep, MarkDeferredKeeps DEF Look
  <2>6. ASSUME NEW is \in BOOLEAN, SetStatus(is) PROVE AccountInv'
    <3>1. MarkDeferred(is, FALSE) \/ UNCHANGED <<deferred, restored, calls>>
      BY <2>6 DEF SetStatus
    <3>2. /\ deferred \cup (UNION calls) \subseteq deferred' \cup UNION calls'
          /\ deferred = {} /\ calls = {} => deferred' = {} /\ calls' = {}
      BY <3>1, MarkDeferredKeeps
    <3> QED BY <2>6, <3>2, <2>keep DEF SetStatus
  <2>7. CASE Act
    BY <2>7, <2>keep, MarkDeferredKeeps DEF Act
  <2>8. ASSUME NEW S \in SUBSET Unread, NEW done \in SUBSET calls, Close(S, done) PROVE AccountInv'
    <3>1. /\ session' = "off" /\ seen' = seen \cup S /\ deferred' = {} /\ calls' = {}
          /\ stored' = deferred \cup (S \ MarkedAtOnce(S)) /\ read \subseteq read'
          /\ lost' = lost \cup ((MarkedAtOnce(S) \cup UNION calls) \ read')
          /\ session = "on"
      BY <2>8 DEF Close, CallsOver
    <3> DEFINE now  == MarkedAtOnce(S)
               gone == UNION calls
    <3>2. \A m \in seen : m \in deferred \/ m \in gone \/ m \in read \/ m \in lost
      BY <3>1
    <3>3. ASSUME NEW m \in seen' PROVE m \in read' \/ m \in lost' \/ m \in stored'
      <4> HIDE DEF now, gone, AccountInv, MarkIsAccountedFor, NothingWithoutSession
      <4> QED BY <3>1, <3>2 DEF now, gone
    <3> QED BY <3>1, <3>3
  <2>9. ASSUME NEW again \in SUBSET (seen \ read), NEW done \in SUBSET calls, Crash(again, done)
        PROVE  AccountInv'
    <3>1. /\ session' = "off" /\ seen' = seen \ again /\ deferred' = {} /\ calls' = {}
          /\ read \subseteq read' /\ stored' = stored /\ session = "on"
          /\ lost' = lost \cup ((deferred \cup UNION calls) \ (read' \cup stored \cup again))
      BY <2>9 DEF Crash, CallsOver
    <3> DEFINE gone == UNION calls
    <3>2. \A m \in seen : m \in deferred \/ m \in gone \/ m \in read \/ m \in lost
      BY <3>1
    <3>3. ASSUME NEW m \in seen' PROVE m \in read' \/ m \in lost' \/ m \in stored'
      <4> HIDE DEF AccountInv, MarkIsAccountedFor, NothingWithoutSession
      <4> QED BY <3>1, <3>2
    <3> QED BY <3>1, <3>3
  <2>10. CASE UNCHANGED vars
    BY <2>10 DEF vars, userVars, listVars, serverVars
  <2> QED BY <2>1, <2>2, <2>3, <2>4, <2>5, <2>6, <2>7, <2>8, <2>9, <2>10 DEF Next
<1>3. AccountInv => MarkIsAccountedFor
  BY DEF AccountInv
<1> QED BY <1>1, <1>2, <1>3, TypeCorrect, PTL DEF Spec

(***************************************************************************)
(* After the deferred messages have been looked through, none is left in   *)
(* the conversation with the focus.                                        *)
(***************************************************************************)
LEMMA MarkDeferredReads ==
    ASSUME TypeOK, NEW is, NEW active, MarkDeferred(is, active),
           UNCHANGED <<focus, options>>,
           active \/ ~(IsAway(is) \/ options.replyingOnly)
    PROVE  \A m \in deferred' : ~Watched(m)'
<1>1. deferred' = {m \in deferred : ~InActive(m)}
  BY DEF MarkDeferred
<1>2. \A m \in deferred : InActive(m) <=> Watched(m)
  BY InActiveIsWatched DEF TypeOK
<1>3. \A m : Watched(m)' <=> Watched(m)
  BY DEF Watched
<1> QED BY <1>1, <1>2, <1>3

(***************************************************************************)
(* In whatever order the user moves between conversations and statuses     *)
(* while messages come, nothing stays deferred under the user's eyes.      *)
(***************************************************************************)
THEOREM NothingIsLeftUnread == Spec => []NothingLeftUnread
<1>1. Init => NothingLeftUnread
  BY DEF Init, NothingLeftUnread
<1>2. TypeOK /\ NothingLeftUnread /\ [Next]_vars => NothingLeftUnread'
  <2> SUFFICES ASSUME TypeOK, NothingLeftUnread, [Next]_vars,
                      session' = "on", ~looks', Attentive'
               PROVE  \A m \in deferred' \ restored' : ~Watched(m)'
    BY DEF NothingLeftUnread
  <2>same. ASSUME UNCHANGED <<session, userVars, looks>>,
                  deferred' \ restored' \subseteq deferred \ restored
           PROVE  \A m \in deferred' \ restored' : ~Watched(m)'
    BY <2>same DEF NothingLeftUnread, Attentive, IsAway, Watched, userVars
  <2>1. CASE Login
    BY <2>1 DEF Login
  <2>2. ASSUME NEW S \in SUBSET Unread, Receive(S)
        PROVE  \A m \in deferred' \ restored' : ~Watched(m)'
    <3>1. Attentive /\ session = "on" /\ ~looks
      BY <2>2 DEF Receive, Attentive, IsAway, userVars
    <3>2. MarkedAtOnce(S) = {m \in S : InActive(m)}
      BY <3>1 DEF MarkedAtOnce, Attentive
    <3>3. \A m \in S : InActive(m) <=> Watched(m)
      BY InActiveIsWatched DEF TypeOK, Unread
    <3>4. deferred' = deferred \cup (S \ MarkedAtOnce(S)) /\ restored' = restored /\ focus' = focus
      BY <2>2 DEF Receive, userVars
    <3>5. \A m \in deferred \ restored : ~Watched(m)
      BY <3>1 DEF NothingLeftUnread
    <3>6. \A m : Watched(m)' <=> Watched(m)
      BY <3>4 DEF Watched
    <3> QED BY <3>2, <3>3, <3>4, <3>5, <3>6
  <2>3. ASSUME NEW C \in calls, CallAnswered(C) \/ CallFailed(C)
        PROVE  \A m \in deferred' \ restored' : ~Watched(m)'
    BY <2>3, <2>same DEF CallAnswered, CallFailed, listVars
  <2>4. ASSUME NEW c \in Focuses, SwitchTo(c)
        PROVE  \A m \in deferred' \ restored' : ~Watched(m)'
    <3>1. session = "on" /\ ~(c # Elsewhere) /\ focus' = c
      BY <2>4 DEF SwitchTo
    <3>2. focus' = [user |-> 0, chat |-> 0]
      BY <3>1 DEF Elsewhere
    <3>3. \A m \in deferred' : m.user # 0 /\ (m.chat # 0 \/ m.chat = 0) /\ m \in Messages
      BY <2>4, IdsAssumption DEF SwitchTo, TypeOK, listVars
    <3>4. \A m \in Messages : ~Watched(m)'
      BY <3>2, IdsAssumption DEF Watched
    <3> QED BY <3>3, <3>4
  <2>5. CASE Look
    <3>1. ~(IsAway(available) \/ options.replyingOnly) /\ UNCHANGED <<focus, options>>
      BY <2>5 DEF Look, Attentive, IsAway, userVars
    <3> QED BY <2>5, <3>1, MarkDeferredReads DEF Look
  <2>6. ASSUME NEW is \in BOOLEAN, SetStatus(is)
        PROVE  \A m \in deferred' \ restored' : ~Watched(m)'
    <3>1. ~(IsAway(is) \/ options.replyingOnly) /\ UNCHANGED <<focus, options>>
      BY <2>6 DEF SetStatus, Attentive, IsAway
    <3>2. CASE is /\ MarkDeferred(is, FALSE)
      BY <3>1, <3>2, MarkDeferredReads
    <3>3. CASE ~is /\ UNCHANGED <<deferred, restored, calls>>
      <4>1. ~options.onlineOnly /\ Attentive /\ session = "on" /\ ~looks
        BY <2>6, <3>1, <3>3 DEF SetStatus, Attentive, IsAway
      <4> QED BY <3>1, <3>3, <4>1 DEF NothingLeftUnread, Watched
    <3> QED BY <2>6, <3>2, <3>3 DEF SetStatus
  <2>7. CASE Act
    BY <2>7, MarkDeferredReads DEF Act, userVars
  <2>8. ASSUME NEW S \in SUBSET Unread, NEW done \in SUBSET calls, Close(S, done) PROVE FALSE
    BY <2>8 DEF Close
  <2>9. ASSUME NEW again \in SUBSET (seen \ read), NEW done \in SUBSET calls, Crash(again, done)
        PROVE  FALSE
    BY <2>9 DEF Crash
  <2>10. CASE UNCHANGED vars
    BY <2>10, <2>same DEF vars, listVars
  <2> QED BY <2>1, <2>2, <2>3, <2>4, <2>5, <2>6, <2>7, <2>8, <2>9, <2>10 DEF Next
<1> QED BY <1>1, <1>2, TypeCorrect, PTL DEF Spec

(***************************************************************************)
(* A call for messages S is about the conversation with the focus, if all  *)
(* of S are active.                                                        *)
(***************************************************************************)
LEMMA NewCalls ==
    ASSUME TypeOK, NEW S \in SUBSET Messages, MarkMessages(S), \A m \in S : InActive(m)
    PROVE  \A C \in calls' \ calls : \A m \in C : Watched(m)
<1>1. calls' \ calls \subseteq {S}
  BY DEF MarkMessages
<1>2. \A m \in S : Watched(m)
  BY InActiveIsWatched DEF TypeOK
<1> QED BY <1>1, <1>2

LEMMA DeferredCalls ==
    ASSUME TypeOK, NEW is, NEW active, MarkDeferred(is, active)
    PROVE  \A C \in calls' \ calls : /\ \A m \in C : Watched(m)
                                     /\ active \/ ~(IsAway(is) \/ options.replyingOnly)
<1>1. CASE UNCHANGED calls
  BY <1>1
<1>2. CASE /\ ~(IsAway(is) \/ options.replyingOnly) \/ active
           /\ MarkMessages({m \in deferred : InActive(m)})
  <2>1. {m \in deferred : InActive(m)} \in SUBSET Messages
    BY DEF TypeOK
  <2>2. \A C \in calls' \ calls : \A m \in C : Watched(m)
    BY <1>2, <2>1, NewCalls
  <2> QED BY <1>2, <2>2
<1> QED BY <1>1, <1>2 DEF MarkDeferred

(***************************************************************************)
(* Whatever leads to a mark, the user has the conversation in front of him *)
(* and is there, or has just acted in it.                                  *)
(***************************************************************************)
THEOREM OnlyReadIsMarked == Spec => MarkedOnlyWhenRead
<1> DEFINE Good == \A C \in calls' \ calls : \A m \in C : Watched(m) /\ (Act \/ Attentive')
<1>1. TypeOK /\ [Next]_vars => Good
  <2> SUFFICES ASSUME TypeOK, [Next]_vars PROVE Good
    OBVIOUS
  <2>none. ASSUME calls' \subseteq calls PROVE Good
    BY <2>none
  <2>1. CASE Login
    BY <2>1 DEF Login, serverVars
  <2>2. ASSUME NEW S \in SUBSET Unread, Receive(S) PROVE Good
    <3>1. MarkMessages(MarkedAtOnce(S)) /\ UNCHANGED userVars
      BY <2>2 DEF Receive
    <3>2. /\ MarkedAtOnce(S) \in SUBSET Messages /\ \A m \in MarkedAtOnce(S) : InActive(m)
          /\ Attentive \/ MarkedAtOnce(S) = {}
      BY DEF MarkedAtOnce, Unread, Attentive
    <3>3. \A C \in calls' \ calls : \A m \in C : Watched(m)
      BY <3>1, <3>2, NewCalls
    <3>4. CASE Attentive
      <4>1. Attentive'
        BY <3>1, <3>4 DEF Attentive, IsAway, userVars
      <4> QED BY <3>3, <4>1
    <3>5. CASE MarkedAtOnce(S) = {}
      BY <2>none, <3>1, <3>5 DEF MarkMessages
    <3> QED BY <3>2, <3>4, <3>5
  <2>3. ASSUME NEW C \in calls, CallAnswered(C) \/ CallFailed(C) PROVE Good
    BY <2>none, <2>3 DEF CallAnswered, CallFailed
  <2>4. ASSUME NEW c \in Focuses, SwitchTo(c) PROVE Good
    BY <2>none, <2>4 DEF SwitchTo, serverVars
  <2>5. CASE Look
    <3>1. MarkDeferred(available, FALSE) /\ UNCHANGED userVars
      BY <2>5 DEF Look
    <3>2. ~(IsAway(available) \/ options.replyingOnly) => Attentive'
      BY <3>1 DEF Attentive, IsAway, userVars
    <3> QED BY <3>1, <3>2, DeferredCalls
  <2>6. ASSUME NEW is \in BOOLEAN, SetStatus(is) PROVE Good
    <3>1. CASE MarkDeferred(is, FALSE)
      <4>1. ~(IsAway(is) \/ options.replyingOnly) => Attentive'
        BY <2>6 DEF SetStatus, Attentive, IsAway
      <4> QED BY <3>1, <4>1, DeferredCalls
    <3>2. CASE UNCHANGED calls
      BY <2>none, <3>2
    <3> QED BY <2>6, <3>1, <3>2 DEF SetStatus
  <2>7. CASE Act
    <3>1. MarkDeferred(available, TRUE)
      BY <2>7 DEF Act
    <3>2. \A C \in calls' \ calls : \A m \in C : Watched(m)
      BY <3>1, DeferredCalls
    <3> QED BY <2>7, <3>2
  <2>8. ASSUME NEW S \in SUBSET Unread, NEW done \in SUBSET calls, Close(S, done) PROVE Good
    BY <2>none, <2>8 DEF Close, CallsOver
  <2>9. ASSUME NEW again \in SUBSET (seen \ read), NEW done \in SUBSET calls, Crash(again, done)
        PROVE  Good
    BY <2>none, <2>9 DEF Crash, CallsOver
  <2>10. CASE UNCHANGED vars
    BY <2>none, <2>10 DEF vars, serverVars
  <2> QED BY <2>1, <2>2, <2>3, <2>4, <2>5, <2>6, <2>7, <2>8, <2>9, <2>10 DEF Next
<1>2. TypeOK /\ [Next]_vars => [Good]_vars
  BY <1>1
<1> HIDE DEF Good
<1>3. Spec => [][Good]_vars
  BY <1>2, TypeCorrect, PTL DEF Spec
<1> QED BY <1>3 DEF MarkedOnlyWhenRead, Good

=============================================================================
