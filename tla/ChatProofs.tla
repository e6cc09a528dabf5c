---------------------------- MODULE ChatProofs ----------------------------
(***************************************************************************)
(* Theorems about ChatList, for any chats, messages and bounds, and about  *)
(* ChatMembers, for any users, names, titles and bounds.                   *)
(***************************************************************************)
EXTENDS ChatList, ChatMembers, FiniteSetTheorems, TLAPS

-----------------------------------------------------------------------------
(* ChatList *)

GoodCalls == {k \in Calls : WellFormed(k)}
Convs     == [id : 1..MaxConvId, chat : Chats]
Windows   == [id : 1..MaxConvId, chat : Chats, state : WindowStates]

(***************************************************************************)
(* What the helpers do to the types.                                       *)
(***************************************************************************)
LEMMA GoodCall ==
    ASSUME NEW next \in Stages, NEW c \in Chats, NEW S \in SUBSET Messages,
           S = {} <=> next \in {"join", "update"}
    PROVE  Call(next, c, S) \in GoodCalls
  BY DEF Call, GoodCalls, Calls, WellFormed

LEMMA CallParts ==
    ASSUME NEW k \in GoodCalls
    PROVE  /\ k.chat \in Chats /\ k.msgs \in SUBSET Messages /\ k.next \in Stages
           /\ k.msgs = {} <=> k.next \in {"join", "update"}
  BY DEF GoodCalls, Calls, WellFormed

LEMMA UpdateType ==
    ASSUME TypeOK, NEW c \in Chats, UpdateBlistChat(c)
    PROVE  removed' \in SUBSET Chats /\ nodes' \in SUBSET Chats /\ blist' \in SUBSET Chats
  BY DEF TypeOK, UpdateBlistChat

LEMMA NewConvType ==
    ASSUME TypeOK, NEW c \in Chats, NewConv(c)
    PROVE  convs' \in SUBSET Convs /\ windows' \in SUBSET Windows
<1>1. PICK i \in 1..MaxConvId :
        /\ convs' = convs \cup {[id |-> i, chat |-> c]}
        /\ \/ windows' = windows \cup {[id |-> i, chat |-> c, state |-> "joined"]}
           \/ \E w \in windows :
                windows' = (windows \ {w}) \cup {[id |-> i, chat |-> c, state |-> "joined"]}
  BY DEF NewConv
<1>2. convs \in SUBSET Convs /\ windows \in SUBSET Windows
  BY DEF TypeOK, Convs, Windows
<1>3. [id |-> i, chat |-> c] \in Convs /\ [id |-> i, chat |-> c, state |-> "joined"] \in Windows
  BY DEF Convs, Windows, WindowStates
<1> QED BY <1>1, <1>2, <1>3

LEMMA OpenType ==
    ASSUME TypeOK, NEW c \in Chats, NEW S \in SUBSET Messages, NEW others \in SUBSET calls,
           Open(c, S, others)
    PROVE  /\ chatIds' \in SUBSET Chats
           /\ removed' \in SUBSET Chats /\ nodes' \in SUBSET Chats /\ blist' \in SUBSET Chats
           /\ convs' \in SUBSET Convs /\ windows' \in SUBSET Windows
           /\ shown' \in SUBSET Messages
           /\ calls' \in SUBSET GoodCalls
<1>0. /\ convs \in SUBSET Convs /\ windows \in SUBSET Windows /\ calls \in SUBSET GoodCalls
      /\ others \in SUBSET GoodCalls
  BY DEF TypeOK, Convs, Windows, GoodCalls
<1>1. CASE /\ IsOpen(c)
           /\ shown' = shown \cup S
           /\ calls' = others
           /\ UNCHANGED <<chatIds, listVars, convVars>>
  BY <1>0, <1>1 DEF TypeOK, listVars, convVars
<1>2. CASE /\ \/ c \in blist /\ UNCHANGED <<chatIds, listVars>>
              \/ c \notin blist /\ UpdateBlistChat(c) /\ chatIds' = chatIds \cup {c}
           /\ NewConv(c)
           /\ shown' = shown \cup S
           /\ calls' = others
  <2>1. convs' \in SUBSET Convs /\ windows' \in SUBSET Windows
    BY <1>2, NewConvType
  <2>2. CASE UNCHANGED <<chatIds, listVars>>
    BY <1>0, <1>2, <2>1, <2>2 DEF TypeOK, listVars
  <2>3. CASE UpdateBlistChat(c) /\ chatIds' = chatIds \cup {c}
    BY <1>0, <1>2, <2>1, <2>3, UpdateType DEF TypeOK
  <2> QED BY <1>2, <2>2, <2>3
<1>3. CASE /\ chatIds' = chatIds \cup {c}
           /\ calls' = others \cup (IF S = {} THEN {Call("join", c, {})}
                                              ELSE {Call("open", c, {m}) : m \in S})
           /\ UNCHANGED <<shown, listVars, convVars>>
  <2>1. Call("join", c, {}) \in GoodCalls
    BY GoodCall DEF Stages
  <2>2. ASSUME NEW m \in S PROVE Call("open", c, {m}) \in GoodCalls
    BY GoodCall DEF Stages
  <2>3. calls' \in SUBSET GoodCalls
    BY <1>0, <1>3, <2>1, <2>2
  <2> QED BY <1>0, <1>3, <2>3 DEF TypeOK, listVars, convVars
<1> QED BY <1>1, <1>2, <1>3 DEF Open

LEMMA AddToListType ==
    ASSUME TypeOK, NEW c \in Chats, NEW S \in SUBSET Messages, S # {}, NEW known,
           NEW others \in SUBSET calls, AddToList(c, S, known, others)
    PROVE  /\ chatIds' \in SUBSET Chats
           /\ removed' \in SUBSET Chats /\ nodes' \in SUBSET Chats /\ blist' \in SUBSET Chats
           /\ calls' \in SUBSET GoodCalls
<1>1. others \in SUBSET GoodCalls
  BY DEF TypeOK, GoodCalls
<1>2. Call("finish", c, S) \in GoodCalls /\ Call("listed", c, S) \in GoodCalls
  BY GoodCall DEF Stages
<1>3. calls' \in SUBSET GoodCalls
  BY <1>1, <1>2 DEF AddToList
<1>4. UpdateBlistChat(c) \/ UNCHANGED listVars
  BY DEF AddToList
<1>5. chatIds' \in SUBSET Chats
  BY DEF AddToList, TypeOK
<1> QED BY <1>3, <1>4, <1>5, UpdateType DEF TypeOK, listVars

LEMMA AddUnknownType ==
    ASSUME TypeOK, NEW c \in Chats, NEW S \in SUBSET Messages, S # {},
           NEW others \in SUBSET calls, AddUnknown(c, S, others)
    PROVE  /\ chatIds' \in SUBSET Chats
           /\ removed' \in SUBSET Chats /\ nodes' \in SUBSET Chats /\ blist' \in SUBSET Chats
           /\ calls' \in SUBSET GoodCalls
<1>1. CASE AddToList(c, S, infos, others)
  BY <1>1, AddToListType
<1>2. CASE calls' = others \cup {Call("known", c, S)} /\ UNCHANGED <<chatIds, listVars>>
  <2>1. Call("known", c, S) \in GoodCalls /\ others \in SUBSET GoodCalls
    BY GoodCall DEF Stages, TypeOK, GoodCalls
  <2> QED BY <1>2, <2>1 DEF TypeOK, listVars
<1> QED BY <1>1, <1>2 DEF AddUnknown

(***************************************************************************)
(* The state is well formed: calls name known chats, carry messages unless *)
(* they wait for the user or for an update, and lists hold chats.          *)
(***************************************************************************)
LEMMA TypeStep == TypeOK /\ [Next]_vars => TypeOK'
<1> SUFFICES ASSUME TypeOK, [Next]_vars PROVE TypeOK'
  OBVIOUS
<1>0. /\ calls \in SUBSET GoodCalls /\ convs \in SUBSET Convs /\ windows \in SUBSET Windows
      /\ \A k \in calls : k.chat \in Chats /\ k.msgs \in SUBSET Messages
  BY CallParts DEF TypeOK, GoodCalls, Convs, Windows
<1>k. ASSUME NEW k \in calls, NEW ok \in BOOLEAN
      PROVE  /\ Known(k, ok) \in SUBSET Chats
             /\ calls \ {k} \in SUBSET calls
             /\ calls \ {k} \in SUBSET GoodCalls
  BY <1>0 DEF TypeOK, Known
<1>1. ASSUME NEW c \in Chats, NEW S \in SUBSET {m \in Messages \ received : m.chat = c},
             Receive(c, S)
      PROVE  TypeOK'
  <2>1. S \in SUBSET Messages /\ received' \in SUBSET Messages /\ S # {}
    BY <1>1 DEF Receive, TypeOK
  <2>2. CASE AddUnknown(c, S, calls)
    BY <1>1, <2>1, <2>2, AddUnknownType DEF Receive, TypeOK, GoodCalls, histVars, convVars
  <2>3. CASE calls' = calls \cup {Call("pictures", c, S)} /\ UNCHANGED <<chatIds, listVars>>
    <3>1. Call("pictures", c, S) \in GoodCalls
      BY <2>1, GoodCall DEF Stages
    <3>2. calls' \in SUBSET GoodCalls
      BY <1>0, <2>3, <3>1
    <3> QED BY <1>1, <2>1, <2>3, <3>2 DEF Receive, TypeOK, GoodCalls, histVars, convVars, listVars
  <2> QED BY <1>1, <2>2, <2>3 DEF Receive
<1>2. ASSUME NEW c \in Chats, Join(c) PROVE TypeOK'
  BY <1>2, OpenType DEF Join, TypeOK, GoodCalls, Convs, Windows, histVars
<1>3. ASSUME NEW c \in Chats, ChatUpdated(c) PROVE TypeOK'
  <2>1. Call("update", c, {}) \in GoodCalls
    BY GoodCall DEF Stages
  <2>2. calls' \in SUBSET GoodCalls
    BY <1>0, <1>3, <2>1 DEF ChatUpdated
  <2> QED BY <1>3, <2>2 DEF ChatUpdated, TypeOK, GoodCalls, listVars, convVars, mailVars, histVars
<1>4. ASSUME NEW c \in Removable, UserRemoves(c) PROVE TypeOK'
  BY <1>4, ChatsAssumption DEF UserRemoves, TypeOK, convVars, mailVars
<1>5. ASSUME NEW k \in calls, NEW ok \in BOOLEAN, KnownAnswered(k, ok) PROVE TypeOK'
  <2>1. k.msgs # {}
    BY <1>0, <1>5, CallParts DEF KnownAnswered
  <2> QED BY <1>0, <1>k, <1>5, <2>1, AddToListType
          DEF KnownAnswered, TypeOK, GoodCalls, convVars, mailVars, histVars
<1>6. ASSUME NEW k \in calls, NEW ok \in BOOLEAN, ListedAnswered(k, ok) PROVE TypeOK'
  <2>1. k.msgs # {}
    BY <1>0, <1>6, CallParts DEF ListedAnswered
  <2>2. Call("finish", k.chat, k.msgs) \in GoodCalls
    BY <1>0, <2>1, GoodCall DEF Stages
  <2>3. calls' \in SUBSET GoodCalls
    BY <1>0, <1>6, <2>2 DEF ListedAnswered
  <2>4. removed' \in SUBSET Chats /\ nodes' \in SUBSET Chats /\ blist' \in SUBSET Chats
    BY <1>0, <1>6, UpdateType DEF ListedAnswered, TypeOK, listVars
  <2> QED BY <1>k, <1>6, <2>3, <2>4
          DEF ListedAnswered, TypeOK, GoodCalls, convVars, mailVars, histVars
<1>7. ASSUME NEW k \in calls, NEW ok \in BOOLEAN, OpenAnswered(k, ok) PROVE TypeOK'
  <2>1. calls' \in SUBSET GoodCalls /\ infos' \in SUBSET Chats
    BY <1>k, <1>7 DEF OpenAnswered
  <2>2. /\ removed' \in SUBSET Chats /\ nodes' \in SUBSET Chats /\ blist' \in SUBSET Chats
        /\ convs' \in SUBSET Convs /\ windows' \in SUBSET Windows
    BY <1>0, <1>7, UpdateType, NewConvType
       DEF OpenAnswered, TypeOK, listVars, convVars, Convs, Windows
  <2>3. shown' \in SUBSET Messages /\ lost' \in SUBSET Messages
    BY <1>0, <1>7 DEF OpenAnswered, TypeOK
  <2> QED BY <1>7, <2>1, <2>2, <2>3
          DEF OpenAnswered, TypeOK, GoodCalls, Convs, Windows, histVars
<1>8. ASSUME NEW k \in calls, NEW ok \in BOOLEAN, UpdateAnswered(k, ok) PROVE TypeOK'
  <2>1. calls' \in SUBSET GoodCalls /\ infos' \in SUBSET Chats
    BY <1>k, <1>8 DEF UpdateAnswered
  <2>2. /\ removed' \in SUBSET Chats /\ nodes' \in SUBSET Chats /\ blist' \in SUBSET Chats
        /\ unchecked' \in SUBSET Chats
    BY <1>0, <1>8, UpdateType DEF UpdateAnswered, TypeOK, listVars
  <2> QED BY <1>8, <2>1, <2>2
          DEF UpdateAnswered, TypeOK, GoodCalls, convVars, mailVars
<1>9. ASSUME NEW k \in calls, FinishReceiving(k) PROVE TypeOK'
  <2>1. k.chat \in Chats /\ k.msgs \in SUBSET Messages /\ calls \ {k} \in SUBSET calls
    BY <1>0
  <2>2. Open(k.chat, k.msgs, calls \ {k})
    BY <1>9 DEF FinishReceiving
  <2>3. /\ chatIds' \in SUBSET Chats
        /\ removed' \in SUBSET Chats /\ nodes' \in SUBSET Chats /\ blist' \in SUBSET Chats
        /\ convs' \in SUBSET Convs /\ windows' \in SUBSET Windows
        /\ shown' \in SUBSET Messages /\ calls' \in SUBSET GoodCalls
    BY <1>0, <2>1, <2>2, OpenType
  <2> QED BY <1>0, <1>9, <2>3 DEF FinishReceiving, TypeOK, GoodCalls, Convs, Windows, histVars
<1>10. ASSUME NEW D \in SUBSET Chats, Dialogs(D) PROVE TypeOK'
  BY <1>10 DEF Dialogs, TypeOK, listVars, convVars, mailVars, histVars
<1>11. ASSUME NEW got \in SUBSET chatIds, Refreshed(got) PROVE TypeOK'
  <2>1. infos' \in SUBSET Chats
    BY <1>11 DEF Refreshed, TypeOK
  <2>2. /\ removed' \in SUBSET Chats /\ nodes' \in SUBSET Chats /\ blist' \in SUBSET Chats
    BY <1>11 DEF Refreshed, TypeOK
  <2> QED BY <1>11, <2>1, <2>2 DEF Refreshed, TypeOK, convVars, mailVars
<1>12. ASSUME NEW w \in windows, Leave(w) PROVE TypeOK'
  <2>1. blist' \in SUBSET Chats /\ nodes' \in SUBSET Chats
    BY <1>12 DEF Leave, TypeOK
  <2> QED BY <1>12, <2>1 DEF Leave, TypeOK, mailVars, histVars
<1>13. ASSUME NEW w \in windows, CloseLeft(w) PROVE TypeOK'
  BY <1>13 DEF CloseLeft, TypeOK, listVars, mailVars, histVars
<1>14. CASE Login
  BY <1>14 DEF Login, TypeOK, convVars, mailVars
<1>15. ASSUME SessionOver
       PROVE  /\ session' = "off" /\ chatsInBlist' \in BOOLEAN
              /\ lost' \in SUBSET Messages /\ calls' = {} /\ refreshing' = FALSE
              /\ convs' = {} /\ shown' \in SUBSET Messages /\ received' \in SUBSET Messages
  <2>1. \A k \in calls : k.msgs \in SUBSET Messages
    BY <1>0
  <2> QED BY <1>15, <2>1 DEF SessionOver, TypeOK
<1>16. CASE Close
  <2>1. windows' \in SUBSET Windows
    BY <1>0, <1>16 DEF Close, Windows, WindowStates
  <2>2. calls' \in SUBSET GoodCalls /\ lost' \in SUBSET Messages
    BY <1>0, <1>16 DEF Close, TypeOK
  <2> QED BY <1>16, <2>1, <2>2 DEF Close, TypeOK, GoodCalls, Windows, listVars, histVars
<1>19. CASE CloseEnds
  <2>1. windows' \in SUBSET Windows
    BY <1>0, <1>19 DEF CloseEnds, Windows, WindowStates
  <2>2. stored' \in SUBSET Chats
    BY <1>19 DEF CloseEnds, TypeOK
  <2>3. SessionOver
    BY <1>19 DEF CloseEnds
  <2> QED BY <1>15, <1>19, <2>1, <2>2, <2>3 DEF CloseEnds, SessionOver, TypeOK, Windows
<1>20. ASSUME NEW k \in calls, PicturesReceived(k) PROVE TypeOK'
  <2>1. k.chat \in Chats /\ k.msgs \in SUBSET Messages /\ k.msgs # {} /\ calls \ {k} \in SUBSET calls
    BY <1>0, <1>20, CallParts DEF PicturesReceived
  <2> QED BY <1>20, <2>1, AddUnknownType
          DEF PicturesReceived, TypeOK, GoodCalls, convVars, mailVars, histVars
<1>21. ASSUME NEW k \in calls, PictureCancelled(k) PROVE TypeOK'
  <2>1. k.chat \in Chats /\ k.msgs \in SUBSET Messages /\ calls' \in SUBSET GoodCalls
    BY <1>0, <1>21 DEF PictureCancelled
  <2>2. /\ removed' \in SUBSET Chats /\ nodes' \in SUBSET Chats /\ blist' \in SUBSET Chats
    BY <1>21, <2>1, UpdateType DEF PictureCancelled, TypeOK, listVars
  <2>3. convs' \in SUBSET Convs /\ windows' \in SUBSET Windows
    BY <1>0, <1>21, <2>1, NewConvType DEF PictureCancelled, convVars
  <2>4. shown' \in SUBSET Messages /\ lost' \in SUBSET Messages
    BY <1>21, <2>1 DEF PictureCancelled, TypeOK
  <2> QED BY <1>21, <2>1, <2>2, <2>3, <2>4
          DEF PictureCancelled, TypeOK, GoodCalls, Convs, Windows, histVars
<1>17. CASE Crash
  <2>1. SessionOver
    BY <1>17 DEF Crash
  <2>2. crashes' \in 0..MaxCrashes
    BY <1>17, ChatsAssumption DEF Crash, TypeOK
  <2> QED BY <1>15, <1>17, <2>1, <2>2 DEF Crash, SessionOver, TypeOK
<1>18. CASE UNCHANGED vars
  BY <1>18 DEF vars, TypeOK, listVars, convVars, mailVars, histVars
<1> QED
  BY <1>1, <1>2, <1>3, <1>4, <1>5, <1>6, <1>7, <1>8, <1>9, <1>10, <1>11, <1>12, <1>13,
     <1>14, <1>16, <1>17, <1>18, <1>19, <1>20, <1>21 DEF Next

THEOREM TypeCorrect == Spec => []TypeOK
<1>1. Init => TypeOK
  <2> SUFFICES ASSUME Init PROVE TypeOK
    OBVIOUS
  <2>1. refreshing \in BOOLEAN /\ chatsInBlist \in BOOLEAN
    BY Zenon DEF Init
  <2>2. session = "off" /\ crashes \in 0..MaxCrashes
    BY ChatsAssumption DEF Init
  <2> QED BY <2>1, <2>2 DEF Init, TypeOK
<1> QED BY <1>1, TypeStep, PTL DEF Spec

(***************************************************************************)
(* Ids and windows agree whatever is opened, left, closed or cut off, though *)
(* ids are given again: the next id is greater than all that are in use.   *)
(* While vk_close runs, chats are still opened and none has been forgotten; *)
(* when it has ended, no conversation counts as one of the connection's.   *)
(***************************************************************************)
Conv(w) == [id |-> w.id, chat |-> w.chat]

\* ConvInv, window by window.
ConvFacts ==
    /\ \A p, q \in convs : p.id = q.id => p = q
    /\ \A w \in windows : w.state = "joined" => Conv(w) \in convs
    /\ session # "closing" =>
         \A p \in convs : \E w \in windows : w.state = "joined" /\ Conv(w) = p

LEMMA ConvInvFacts == ConvInv <=> ConvFacts
  BY DEF ConvInv, ConvFacts, Conv

LEMMA NewConvKeepsConvFacts ==
    ASSUME TypeOK, ConvFacts, NEW c \in Chats, NewConv(c), session' = session
    PROVE  ConvFacts'
<1>1. PICK i \in 1..MaxConvId :
        /\ IsNewConvId(i)
        /\ convs' = convs \cup {[id |-> i, chat |-> c]}
        /\ LET of   == {w \in windows : w.chat = c}
               left == {w \in of : w.state = "left"}
               new  == [id |-> i, chat |-> c, state |-> "joined"]
           IN \/ (left = {} \/ of # left) /\ windows' = windows \cup {new}
              \/ \E w \in left : windows' = (windows \ {w}) \cup {new}
  BY DEF NewConv
<1>2. \A p \in convs : p.id \in Nat /\ p.id < i
  BY <1>1 DEF IsNewConvId, TypeOK
<1>3. \A p, q \in convs' : p.id = q.id => p = q
  BY <1>1, <1>2 DEF ConvFacts
<1>4. PICK new : new = [id |-> i, chat |-> c, state |-> "joined"]
  OBVIOUS
<1>5. /\ new \in windows' /\ new.state = "joined" /\ Conv(new) = [id |-> i, chat |-> c]
      /\ \A w \in windows' : w \in windows \/ w = new
      /\ \A w \in windows : w.state = "joined" => w \in windows'
  BY <1>1, <1>4 DEF Conv
<1>6. convs' = convs \cup {Conv(new)}
  BY <1>1, <1>5
<1>7. \A w \in windows' : w.state = "joined" => Conv(w) \in convs'
  BY <1>5, <1>6 DEF ConvFacts
<1>8. ASSUME session' # "closing", NEW p \in convs'
      PROVE  \E w \in windows' : w.state = "joined" /\ Conv(w) = p
  BY <1>5, <1>6, <1>8 DEF ConvFacts
<1> QED BY <1>3, <1>7, <1>8 DEF ConvFacts, Conv

THEOREM ConvsAreSafe == Spec => []ConvInv
<1>1. Init => ConvFacts
  BY DEF Init, ConvFacts
<1>2. TypeOK /\ ConvFacts /\ [Next]_vars => ConvFacts'
  <2> SUFFICES ASSUME TypeOK, ConvFacts, [Next]_vars PROVE ConvFacts'
    OBVIOUS
  <2>0. \A k \in calls : k.chat \in Chats
    BY CallParts DEF TypeOK, GoodCalls
  <2>1. ASSUME UNCHANGED convVars, session' = session \/ session # "closing" PROVE ConvFacts'
    BY <2>1 DEF ConvFacts, convVars
  <2>2. ASSUME NEW c \in Chats, NewConv(c), session' = session PROVE ConvFacts'
    BY <2>2, NewConvKeepsConvFacts
  <2>3. ASSUME NEW c \in Chats, NEW S, NEW others, Open(c, S, others), session' = session
        PROVE  ConvFacts'
    BY <2>1, <2>2, <2>3 DEF Open
  <2>4. ASSUME NEW w \in windows, Leave(w) PROVE ConvFacts'
    <3>1. /\ windows' = windows \ {w} /\ w.state = "joined"
          /\ convs' = {p \in convs : p.id # w.id} /\ session' = session
      BY <2>4 DEF Leave
    <3>2. ASSUME NEW v \in windows, v.state = "joined", v.id = w.id PROVE v = w
      <4>1. Conv(v) \in convs /\ Conv(w) \in convs /\ Conv(v).id = Conv(w).id
        BY <3>1, <3>2 DEF ConvFacts, Conv
      <4>2. Conv(v) = Conv(w)
        BY <4>1 DEF ConvFacts
      <4>3. v \in Windows /\ w \in Windows
        BY DEF TypeOK, Windows
      <4> QED BY <3>1, <3>2, <4>2, <4>3 DEF Windows, Conv
    <3>3. \A v \in windows' : v.state = "joined" => Conv(v) \in convs'
      BY <3>1, <3>2 DEF ConvFacts, Conv
    <3>4. ASSUME session' # "closing", NEW p \in convs'
          PROVE  \E v \in windows' : v.state = "joined" /\ Conv(v) = p
      BY <3>1, <3>4 DEF ConvFacts, Conv
    <3> QED BY <3>1, <3>3, <3>4 DEF ConvFacts, Conv
  <2>5. ASSUME NEW w \in windows, CloseLeft(w) PROVE ConvFacts'
    <3>1. windows' = windows \ {w} /\ w.state # "joined" /\ UNCHANGED <<convs, session>>
      BY <2>5 DEF CloseLeft
    <3>2. ASSUME session # "closing", NEW p \in convs
          PROVE  \E v \in windows' : v.state = "joined" /\ Conv(v) = p
      BY <3>1, <3>2 DEF ConvFacts
    <3> QED BY <3>1, <3>2 DEF ConvFacts, Conv
  <2>6. CASE Close
    <3>1. \A v \in windows' : v.state # "joined"
      BY <2>6 DEF Close, TypeOK
    <3>2. session' = "closing" /\ convs' = convs
      BY <2>6 DEF Close
    <3> QED BY <3>1, <3>2 DEF ConvFacts, Conv
  <2>7. CASE CloseEnds \/ Crash
    <3>1. (\A v \in windows' : v.state # "joined") /\ convs' = {}
      BY <2>7 DEF CloseEnds, Crash, SessionOver, TypeOK
    <3> QED BY <3>1 DEF ConvFacts, Conv
  <2>8. ASSUME NEW k \in calls, NEW ok \in BOOLEAN, OpenAnswered(k, ok) PROVE ConvFacts'
    BY <2>0, <2>1, <2>2, <2>8 DEF OpenAnswered
  <2>9. ASSUME NEW k \in calls, PictureCancelled(k) PROVE ConvFacts'
    BY <2>0, <2>1, <2>2, <2>9 DEF PictureCancelled
  <2>10. CASE UNCHANGED vars
    BY <2>1, <2>10 DEF vars
  <2> QED
    BY <2>0, <2>1, <2>3, <2>4, <2>5, <2>6, <2>7, <2>8, <2>9, <2>10
       DEF Next, Receive, PicturesReceived, Join, ChatUpdated, KnownAnswered, ListedAnswered,
           FinishReceiving, UpdateAnswered, Dialogs, Refreshed, UserRemoves, Login
<1> QED BY <1>1, <1>2, ConvInvFacts, TypeCorrect, PTL DEF Spec

(***************************************************************************)
(* A message is always in a call, shown, or dropped.  The property is      *)
(* inductive: a callback that ends hands its messages over or shows them.  *)
(***************************************************************************)
LEMMA OpenHandsOver ==
    ASSUME NEW c, NEW S, NEW others, Open(c, S, others)
    PROVE  /\ others \subseteq calls'
           /\ shown \subseteq shown'
           /\ \A m \in S : m \in shown' \/ \E k \in calls' : m \in k.msgs
<1>1. \A m \in S : m \in Call("open", c, {m}).msgs
  BY DEF Call
<1>2. CASE shown' = shown \cup S /\ calls' = others
  BY <1>2
<1>3. CASE /\ calls' = others \cup (IF S = {} THEN {Call("join", c, {})}
                                              ELSE {Call("open", c, {m}) : m \in S})
           /\ shown' = shown
  <2>1. \A m \in S : Call("open", c, {m}) \in calls'
    BY <1>3
  <2> QED BY <1>1, <1>3, <2>1
<1> QED BY <1>2, <1>3 DEF Open

LEMMA AddToListHandsOver ==
    ASSUME NEW c, NEW S, NEW known, NEW others, AddToList(c, S, known, others)
    PROVE  /\ others \subseteq calls'
           /\ \E k \in calls' : k.msgs = S
<1>1. Call("finish", c, S).msgs = S /\ Call("listed", c, S).msgs = S
  BY DEF Call
<1> QED BY <1>1 DEF AddToList

LEMMA AddUnknownHandsOver ==
    ASSUME NEW c, NEW S, NEW others, AddUnknown(c, S, others)
    PROVE  /\ others \subseteq calls'
           /\ \E k \in calls' : k.msgs = S
<1>1. CASE AddToList(c, S, infos, others)
  BY <1>1, AddToListHandsOver
<1>2. CASE calls' = others \cup {Call("known", c, S)}
  <2>1. Call("known", c, S) \in calls' /\ others \subseteq calls'
    BY <1>2
  <2>2. Call("known", c, S).msgs = S
    BY DEF Call
  <2> QED BY <2>1, <2>2
<1> QED BY <1>1, <1>2 DEF AddUnknown

THEOREM MessagesAreAccountedFor == Spec => []MessageIsAccountedFor
<1> DEFINE Safe(m) == m \in shown \/ m \in lost \/ \E k \in calls : m \in k.msgs
           Inv == \A m \in received : Safe(m)
<1>0. Inv <=> MessageIsAccountedFor
  BY DEF MessageIsAccountedFor
<1>1. Init => Inv
  BY DEF Init
<1>2. TypeOK /\ Inv /\ [Next]_vars => Inv'
  <2> SUFFICES ASSUME TypeOK, Inv, [Next]_vars, NEW m \in received' PROVE Safe(m)'
    OBVIOUS
  <2>1. ASSUME shown \subseteq shown', lost \subseteq lost', calls \subseteq calls',
               m \in received
        PROVE  Safe(m)'
    BY <2>1
  <2>2. ASSUME NEW k \in calls, calls \ {k} \subseteq calls', received' = received,
               shown \subseteq shown', lost \subseteq lost',
               m \in k.msgs => Safe(m)'
        PROVE  Safe(m)'
    BY <2>2
  <2>3. ASSUME NEW c \in Chats, NEW S \in SUBSET {x \in Messages \ received : x.chat = c},
               Receive(c, S)
        PROVE  Safe(m)'
    <3>1. calls \subseteq calls' /\ \E k \in calls' : k.msgs = S
      <4>1. CASE AddUnknown(c, S, calls)
        BY <4>1, AddUnknownHandsOver
      <4>2. CASE calls' = calls \cup {Call("pictures", c, S)}
        <5>1. Call("pictures", c, S) \in calls' /\ calls \subseteq calls'
          BY <4>2
        <5>2. Call("pictures", c, S).msgs = S
          BY DEF Call
        <5> QED BY <5>1, <5>2
      <4> QED BY <2>3, <4>1, <4>2 DEF Receive
    <3>2. received' = received \cup S /\ UNCHANGED <<shown, lost>>
      BY <2>3 DEF Receive
    <3> QED BY <2>1, <3>1, <3>2
  <2>4. ASSUME NEW c \in Chats, Join(c) PROVE Safe(m)'
    BY <2>1, <2>4, OpenHandsOver DEF Join
  <2>5. ASSUME NEW k \in calls, NEW ok \in BOOLEAN, KnownAnswered(k, ok) PROVE Safe(m)'
    BY <2>2, <2>5, AddToListHandsOver DEF KnownAnswered, mailVars
  <2>6. ASSUME NEW k \in calls, NEW ok \in BOOLEAN, ListedAnswered(k, ok) PROVE Safe(m)'
    <3>1. calls' = (calls \ {k}) \cup {Call("finish", k.chat, k.msgs)} /\ UNCHANGED mailVars
      BY <2>6 DEF ListedAnswered
    <3>2. Call("finish", k.chat, k.msgs).msgs = k.msgs
      BY DEF Call
    <3> QED BY <2>2, <3>1, <3>2 DEF mailVars
  <2>7. ASSUME NEW k \in calls, NEW ok \in BOOLEAN, OpenAnswered(k, ok) PROVE Safe(m)'
    <3>1. received' = received /\ calls' = calls \ {k}
      BY <2>7 DEF OpenAnswered
    <3>2. CASE shown' = shown \cup k.msgs /\ lost' = lost
      BY <2>2, <3>1, <3>2
    <3>3. CASE shown' = shown /\ lost' = lost \cup k.msgs
      BY <2>2, <3>1, <3>3
    <3> QED BY <2>7, <3>2, <3>3 DEF OpenAnswered
  <2>8. ASSUME NEW k \in calls, NEW ok \in BOOLEAN, UpdateAnswered(k, ok) PROVE Safe(m)'
    <3>1. k.msgs = {}
      BY <2>8, CallParts DEF UpdateAnswered, TypeOK, GoodCalls
    <3> QED BY <2>2, <2>8, <3>1 DEF UpdateAnswered, mailVars
  <2>9. ASSUME NEW k \in calls, FinishReceiving(k) PROVE Safe(m)'
    <3>1. Open(k.chat, k.msgs, calls \ {k}) /\ received' = received /\ lost' = lost
      BY <2>9 DEF FinishReceiving
    <3> QED BY <2>2, <3>1, OpenHandsOver
  <2>10. CASE SessionOver
    BY <2>10 DEF SessionOver
  <2>12. ASSUME NEW k \in calls, PicturesReceived(k) PROVE Safe(m)'
    BY <2>2, <2>12, AddUnknownHandsOver DEF PicturesReceived, mailVars
  <2>13. CASE Close
    <3>1. \A k \in calls : k \in calls' \/ k.msgs \subseteq lost'
      BY <2>13 DEF Close
    <3>2. lost \subseteq lost' /\ UNCHANGED <<received, shown>>
      BY <2>13 DEF Close
    <3> QED BY <3>1, <3>2
  <2>14. ASSUME NEW k \in calls, PictureCancelled(k) PROVE Safe(m)'
    <3>1. received' = received /\ calls' = calls \ {k}
      BY <2>14 DEF PictureCancelled
    <3>2. CASE shown' = shown \cup k.msgs /\ lost' = lost
      BY <2>2, <3>1, <3>2
    <3>3. CASE shown' = shown /\ lost' = lost \cup k.msgs
      BY <2>2, <3>1, <3>3
    <3> QED BY <2>14, <3>2, <3>3 DEF PictureCancelled
  <2>11. CASE UNCHANGED vars
    BY <2>1, <2>11 DEF vars, mailVars
  <2> QED
    BY <2>1, <2>3, <2>4, <2>5, <2>6, <2>7, <2>8, <2>9, <2>10, <2>11, <2>12,
       <2>13, <2>14
       DEF Next, ChatUpdated, UserRemoves, Dialogs, Refreshed, Leave, CloseLeft, Login,
           CloseEnds, Crash, mailVars
<1> HIDE DEF Inv
<1>3. Spec => []Inv
  BY <1>1, <1>2, TypeCorrect, PTL DEF Spec
<1> QED BY <1>0, <1>3, PTL

(***************************************************************************)
(* The user's removals survive.  While connected the plugin has seen every *)
(* entry that is in the list, so one that goes is noticed later; a chat    *)
(* that vk_close itself lists is seen as well, for only what is cancelled  *)
(* still calls back; while disconnected nothing runs that could forget.    *)
(***************************************************************************)
RemovalInv ==
    /\ session # "on" => ~refreshing /\ \A k \in calls : k.next = "pictures"
    /\ session = "off" => calls = {}
    /\ session # "off" => blist \subseteq nodes
    /\ RemovalIsRemembered

LEMMA UpdateKeepsRemovals ==
    ASSUME RemovalInv, session # "off", NEW c, UpdateBlistChat(c)
    PROVE  /\ blist' \subseteq nodes'
           /\ gone \subseteq removed' \cup (nodes' \ blist')
  BY DEF RemovalInv, RemovalIsRemembered, UpdateBlistChat

THEOREM RemovalsAreRemembered == Spec => []RemovalIsRemembered
<1>1. Init => RemovalInv
  <2> SUFFICES ASSUME Init PROVE RemovalInv
    OBVIOUS
  <2>1. ~refreshing
    BY Zenon DEF Init
  <2> QED BY <2>1 DEF Init, RemovalInv, RemovalIsRemembered
<1>2. RemovalInv /\ TypeOK /\ [Next]_vars => RemovalInv'
  <2> SUFFICES ASSUME RemovalInv, TypeOK, [Next]_vars PROVE RemovalInv'
    OBVIOUS
  <2>1. ASSUME session = "on", session' = session, gone' = gone,
               blist' \subseteq nodes', gone \subseteq removed' \cup (nodes' \ blist')
        PROVE  RemovalInv'
    BY <2>1 DEF RemovalInv, RemovalIsRemembered
  <2>2. ASSUME session = "on", session' = session, gone' = gone, UNCHANGED listVars
        PROVE  RemovalInv'
    BY <2>2 DEF RemovalInv, RemovalIsRemembered, listVars
  <2>3. ASSUME session = "on", session' = session, gone' = gone,
               NEW c, UpdateBlistChat(c)
        PROVE  RemovalInv'
    BY <2>1, <2>3, UpdateKeepsRemovals
  <2>4. \A k \in calls : k.next # "pictures" => session = "on"
    BY DEF RemovalInv, TypeOK
  <2>5. ASSUME NEW c \in Chats, NEW S, Receive(c, S) PROVE RemovalInv'
    BY <2>2, <2>3, <2>5 DEF Receive, AddUnknown, AddToList, histVars
  <2>19. ASSUME NEW k \in calls, PicturesReceived(k) PROVE RemovalInv'
    BY <2>2, <2>3, <2>19 DEF PicturesReceived, AddUnknown, AddToList, histVars
  <2>6. ASSUME NEW c \in Chats, Join(c) \/ ChatUpdated(c) PROVE RemovalInv'
    BY <2>2, <2>3, <2>6 DEF Join, ChatUpdated, Open, histVars
  <2>7. ASSUME NEW k \in calls, NEW ok \in BOOLEAN,
               KnownAnswered(k, ok) \/ ListedAnswered(k, ok) \/ OpenAnswered(k, ok)
                 \/ UpdateAnswered(k, ok)
        PROVE  RemovalInv'
    BY <2>2, <2>3, <2>4, <2>7
       DEF KnownAnswered, ListedAnswered, OpenAnswered, UpdateAnswered, AddToList, histVars
  <2>8. ASSUME NEW k \in calls, FinishReceiving(k) PROVE RemovalInv'
    BY <2>2, <2>3, <2>4, <2>8 DEF FinishReceiving, Open, histVars
  <2>9. ASSUME NEW D \in SUBSET Chats, Dialogs(D) PROVE RemovalInv'
    BY <2>2, <2>9 DEF Dialogs, histVars
  <2>10. ASSUME NEW got \in SUBSET chatIds, Refreshed(got) PROVE RemovalInv'
    <3>1. session = "on" /\ session' = session /\ gone' = gone
      BY <2>10 DEF Refreshed, RemovalInv, TypeOK
    <3>2. PICK update, hidden, keep :
            /\ hidden = removed \cup (update \cap (nodes \ blist))
            /\ keep \subseteq blist \cup update
            /\ removed' = hidden
            /\ blist' = keep
            /\ nodes' = (nodes \cup update) \ ((blist \cup update) \ keep)
      BY <2>10 DEF Refreshed
    <3>3. blist \subseteq nodes /\ gone \subseteq removed \cup (nodes \ blist)
      BY <3>1 DEF RemovalInv, RemovalIsRemembered
    <3>4. blist' \subseteq nodes' /\ gone \subseteq removed' \cup (nodes' \ blist')
      BY <3>2, <3>3
    <3> QED BY <2>1, <3>1, <3>4
  <2>11. ASSUME NEW w \in windows, Leave(w) PROVE RemovalInv'
    <3>1. session = "on" /\ session' = session /\ gone' = gone /\ removed' = removed
      BY <2>11 DEF Leave, histVars
    <3>2. PICK temporary \in SUBSET blist :
            blist' = blist \ temporary /\ nodes' = nodes \ temporary
      BY <2>11 DEF Leave
    <3>3. blist \subseteq nodes /\ gone \subseteq removed \cup (nodes \ blist)
      BY <3>1 DEF RemovalInv, RemovalIsRemembered
    <3> QED BY <2>1, <3>1, <3>2, <3>3
  <2>12. ASSUME NEW w \in windows, CloseLeft(w) PROVE RemovalInv'
    BY <2>12 DEF CloseLeft, RemovalInv, RemovalIsRemembered, listVars, histVars
  <2>13. ASSUME NEW c \in Removable, UserRemoves(c) PROVE RemovalInv'
    BY <2>13 DEF UserRemoves, RemovalInv, RemovalIsRemembered
  <2>14. CASE Login
    BY <2>14 DEF Login, RemovalInv, RemovalIsRemembered
  <2>15. ASSUME SessionOver, gone' \subseteq stored' PROVE RemovalInv'
    <3>1. session' = "off" /\ calls' = {}
      BY <2>15 DEF SessionOver
    <3>2. ~refreshing'
      BY <2>15, Zenon DEF SessionOver
    <3> QED BY <2>15, <3>1, <3>2 DEF RemovalInv, RemovalIsRemembered
  <2>16. CASE Close
    <3>1. ~refreshing'
      BY <2>16, Zenon DEF Close
    <3>2. /\ session = "on" /\ session' = "closing" /\ \A k \in calls' : k.next = "pictures"
          /\ UNCHANGED <<listVars, gone>>
      BY <2>16 DEF Close, histVars
    <3> QED BY <3>1, <3>2 DEF RemovalInv, RemovalIsRemembered, listVars
  <2>20. ASSUME NEW k \in calls, PictureCancelled(k) PROVE RemovalInv'
    <3>1. /\ session = "closing" /\ UNCHANGED <<session, refreshing, gone>>
          /\ calls' \subseteq calls
          /\ UpdateBlistChat(k.chat) \/ UNCHANGED listVars
      BY <2>20 DEF PictureCancelled, histVars
    <3>2. blist' \subseteq nodes' /\ gone \subseteq removed' \cup (nodes' \ blist')
      BY <3>1, UpdateKeepsRemovals DEF RemovalInv, RemovalIsRemembered, listVars
    <3> QED BY <3>1, <3>2 DEF RemovalInv, RemovalIsRemembered
  <2>21. CASE CloseEnds
    <3>1. session = "closing" /\ stored' = removed \cup (nodes \ blist) /\ gone' = gone
      BY <2>21 DEF CloseEnds
    <3>2. gone' \subseteq stored'
      BY <3>1 DEF RemovalInv, RemovalIsRemembered
    <3> QED BY <2>15, <2>21, <3>2 DEF CloseEnds
  <2>17. CASE Crash
    BY <2>15, <2>17 DEF Crash
  <2>18. CASE UNCHANGED vars
    BY <2>18 DEF vars, RemovalInv, RemovalIsRemembered, listVars, histVars
  <2> QED
    BY <2>5, <2>6, <2>7, <2>8, <2>9, <2>10, <2>11, <2>12, <2>13, <2>14, <2>16, <2>17, <2>18,
       <2>19, <2>20, <2>21 DEF Next
<1>3. RemovalInv => RemovalIsRemembered
  BY DEF RemovalInv
<1> QED BY <1>1, <1>2, <1>3, TypeCorrect, PTL DEF Spec

(***************************************************************************)
(* Nothing stays in the list without a reason.  A call that will finish is *)
(* a reason only for a chat whose info is known: it then opens the chat at *)
(* once, while a chat without an info would have to be asked for.          *)
(***************************************************************************)
Reason(c) ==
    \/ Wanted(c, IsOpen(c), removed)
    \/ c \in unchecked
    \/ c \in infos /\ \E k \in calls : k.next = "finish" /\ k.chat = c

ListedInv == session = "on" /\ ~refreshing => \A c \in blist : Reason(c)

\* Everything a reason may rest on has stayed.
Kept(c) ==
    /\ chatsInBlist' = chatsInBlist
    /\ convs \subseteq convs'
    /\ chatIds \subseteq chatIds'
    /\ c \in removed' => c \in removed
    /\ unchecked \subseteq unchecked'
    /\ infos \subseteq infos'

LEMMA ReasonStays ==
    ASSUME NEW c, Reason(c), Kept(c),
           \A k \in calls : k.next = "finish" /\ k.chat = c /\ c \in infos
                              => k \in calls' \/ IsOpen(c)'
    PROVE  Reason(c)'
  BY DEF Reason, Kept, Wanted, IsOpen

LEMMA NewConvOpens ==
    ASSUME NEW c, NewConv(c)
    PROVE  convs \subseteq convs' /\ IsOpen(c)'
<1>1. PICK i \in 1..MaxConvId : convs' = convs \cup {[id |-> i, chat |-> c]}
  BY DEF NewConv
<1>2. [id |-> i, chat |-> c] \in convs' /\ [id |-> i, chat |-> c].chat = c
  BY <1>1
<1> QED BY <1>1, <1>2 DEF IsOpen

\* Opening a chat gives it a reason; nothing else is added to the list.
LEMMA OpenReason ==
    ASSUME NEW c, NEW S, NEW others, Open(c, S, others)
    PROVE  /\ convs \subseteq convs' /\ chatIds \subseteq chatIds'
           /\ others \subseteq calls'
           /\ blist' \subseteq blist \cup {c}
           /\ c \in infos => IsOpen(c)'
           /\ c \in blist' => c \in blist \/ IsOpen(c)'
           /\ \A d : d \in removed' => d \in removed \/ (d = c /\ IsOpen(c)')
<1>1. CASE IsOpen(c) /\ UNCHANGED <<chatIds, listVars, convVars>> /\ calls' = others
  BY <1>1 DEF listVars, convVars, IsOpen
<1>2. CASE /\ UNCHANGED <<chatIds, listVars>> \/ (UpdateBlistChat(c) /\ chatIds' = chatIds \cup {c})
           /\ NewConv(c)
           /\ calls' = others
  BY <1>2, NewConvOpens DEF listVars, UpdateBlistChat
<1>3. CASE c \notin infos /\ UNCHANGED <<listVars, convVars>> /\ chatIds' = chatIds \cup {c}
             /\ others \subseteq calls'
  BY <1>3 DEF listVars, convVars
<1> QED BY <1>1, <1>2, <1>3 DEF Open

\* A chat is listed for a message only if it is known by then, and the call
\* that is made at once will open it.
LEMMA AddToListReason ==
    ASSUME NEW c, NEW S, NEW known, NEW others, AddToList(c, S, known, others)
    PROVE  /\ chatIds \subseteq chatIds' /\ others \subseteq calls'
           /\ blist' \subseteq blist \cup {c}
           /\ c \in blist' => \/ c \in blist /\ removed' = removed
                              \/ c \in known /\ \E k \in calls' : k.next = "finish" /\ k.chat = c
           /\ \A d : d \in removed' => d \in removed \/ d = c
<1>1. Call("finish", c, S).next = "finish" /\ Call("finish", c, S).chat = c
  BY DEF Call
<1>2. CASE c \in blist /\ UNCHANGED listVars
  BY <1>2 DEF AddToList, listVars
<1>3. CASE c \notin blist /\ c \in known
  <2>1. Call("finish", c, S) \in calls'
    BY <1>3 DEF AddToList
  <2> QED BY <1>1, <1>3, <2>1 DEF AddToList, UpdateBlistChat
<1>4. CASE c \notin blist /\ UNCHANGED listVars
  BY <1>4 DEF AddToList, listVars
<1> QED BY <1>2, <1>3, <1>4 DEF AddToList

THEOREM ListIsExplained == Spec => []ListedForAReason
<1>1. Init => ListedInv
  BY DEF Init, ListedInv
<1>2. TypeOK /\ ListedInv /\ [Next]_vars => ListedInv'
  <2> SUFFICES ASSUME TypeOK, ListedInv, [Next]_vars, session' = "on", ~refreshing',
                      NEW d \in blist'
               PROVE  Reason(d)'
    BY DEF ListedInv
  <2>0. ASSUME session = "on", ~refreshing, d \in blist PROVE Reason(d)
    BY <2>0 DEF ListedInv
  <2>1. ASSUME NEW c \in Chats, NEW S, NEW others \in SUBSET calls, Open(c, S, others),
               \A k \in calls \ others : k.chat = c,
               UNCHANGED <<session, chatsInBlist, infos, refreshing, unchecked>>
        PROVE  Reason(d)'
    <3>1. CASE IsOpen(d)'
      BY <3>1 DEF Reason, Wanted
    <3>2. CASE ~IsOpen(d)'
      <4>1. d \in blist /\ Kept(d)
        BY <2>1, <3>2, OpenReason DEF Kept
      <4>2. Reason(d)
        BY <2>0, <2>1, <4>1
      <4>3. \A k \in calls : k.next = "finish" /\ k.chat = d /\ d \in infos => k \in calls'
        BY <2>1, <3>2, OpenReason
      <4> QED BY <4>1, <4>2, <4>3, ReasonStays
    <3> QED BY <3>1, <3>2
  <2>2. ASSUME NEW c \in Chats, NEW S, NEW others \in SUBSET calls,
               AddToList(c, S, infos', others),
               \A k \in calls \ others : k.next # "finish",
               infos \subseteq infos',
               UNCHANGED <<session, chatsInBlist, convs, refreshing, unchecked>>
        PROVE  Reason(d)'
    <3>1. CASE d = c /\ c \in infos' /\ \E k \in calls' : k.next = "finish" /\ k.chat = c
      BY <3>1 DEF Reason
    <3>2. CASE d \in blist /\ (d \in removed' => d \in removed)
      <4>1. Kept(d)
        BY <2>2, <3>2, AddToListReason DEF Kept
      <4>2. Reason(d)
        BY <2>0, <2>2, <3>2
      <4>3. \A k \in calls : k.next = "finish" => k \in calls'
        BY <2>2, AddToListReason
      <4> QED BY <4>1, <4>2, <4>3, ReasonStays
    <3> QED BY <2>2, <3>1, <3>2, AddToListReason
  <2>20. ASSUME NEW c \in Chats, NEW S, NEW others \in SUBSET calls, AddUnknown(c, S, others),
                \A k \in calls \ others : k.next # "finish",
                UNCHANGED <<session, chatsInBlist, infos, convs, refreshing, unchecked>>
         PROVE  Reason(d)'
    <3>1. CASE AddToList(c, S, infos, others)
      <4>1. AddToList(c, S, infos', others)
        BY <2>20, <3>1
      <4> QED BY <2>2, <2>20, <4>1
    <3>2. CASE others \subseteq calls' /\ UNCHANGED <<chatIds, listVars>>
      <4>1. d \in blist /\ Kept(d)
        BY <2>20, <3>2 DEF Kept, listVars
      <4> QED BY <2>0, <2>20, <3>2, <4>1, ReasonStays
    <3> QED BY <2>20, <3>1, <3>2 DEF AddUnknown
  <2>3. ASSUME NEW c \in Chats, NEW S, Receive(c, S) PROVE Reason(d)'
    <3>0. UNCHANGED <<session, chatsInBlist, infos, convs, refreshing, unchecked>>
      BY <2>3 DEF Receive, convVars, histVars
    <3>1. CASE AddUnknown(c, S, calls)
      BY <2>20, <3>0, <3>1
    <3>2. CASE calls \subseteq calls' /\ UNCHANGED <<chatIds, listVars>>
      <4>1. d \in blist /\ Kept(d)
        BY <3>0, <3>2 DEF Kept, listVars
      <4> QED BY <2>0, <3>0, <3>2, <4>1, ReasonStays
    <3> QED BY <2>3, <3>1, <3>2 DEF Receive
  <2>21. ASSUME NEW k \in calls, PicturesReceived(k) PROVE Reason(d)'
    <3>1. /\ AddUnknown(k.chat, k.msgs, calls \ {k}) /\ k.next # "finish" /\ k.chat \in Chats
          /\ UNCHANGED <<session, chatsInBlist, infos, convs, refreshing, unchecked>>
      BY <2>21, CallParts DEF PicturesReceived, convVars, histVars, TypeOK, GoodCalls
    <3> QED BY <2>20, <3>1
  <2>4. ASSUME NEW c \in Chats, Join(c) PROVE Reason(d)'
    BY <2>1, <2>4 DEF Join, histVars
  <2>5. ASSUME NEW c \in Chats, ChatUpdated(c) PROVE Reason(d)'
    <3>1. d \in blist /\ Kept(d) /\ UNCHANGED <<session, refreshing>> /\ calls \subseteq calls'
      BY <2>5 DEF ChatUpdated, Kept, listVars, convVars, histVars
    <3> QED BY <2>0, <3>1, ReasonStays
  <2>6. \A k \in calls, ok \in BOOLEAN : k.chat \in Chats /\ infos \subseteq Known(k, ok)
    BY CallParts DEF TypeOK, GoodCalls, Known
  <2>7. ASSUME NEW k \in calls, NEW ok \in BOOLEAN, KnownAnswered(k, ok) PROVE Reason(d)'
    <3>1. AddToList(k.chat, k.msgs, infos', calls \ {k})
      BY <2>7, Zenon DEF KnownAnswered
    <3>2. /\ UNCHANGED <<session, chatsInBlist, convs, refreshing, unchecked>>
          /\ infos \subseteq infos' /\ k.next # "finish"
      BY <2>6, <2>7 DEF KnownAnswered, convVars, histVars
    <3> QED BY <2>2, <2>6, <3>1, <3>2
  <2>8. ASSUME NEW k \in calls, NEW ok \in BOOLEAN, ListedAnswered(k, ok) PROVE Reason(d)'
    <3>1. /\ UNCHANGED <<session, chatsInBlist, chatIds, convs, refreshing, unchecked>>
          /\ infos \subseteq infos' /\ calls \ {k} \subseteq calls'
          /\ Call("finish", k.chat, k.msgs) \in calls' /\ k.next # "finish"
          /\ (k.chat \in infos' /\ UpdateBlistChat(k.chat)) \/ UNCHANGED listVars
      BY <2>6, <2>8 DEF ListedAnswered, convVars, histVars
    <3>2. CASE k.chat \in infos' /\ d = k.chat
      <4>1. Call("finish", k.chat, k.msgs).next = "finish" /\ Call("finish", k.chat, k.msgs).chat = d
        BY <3>2 DEF Call
      <4> QED BY <3>1, <3>2, <4>1 DEF Reason
    <3>3. CASE d \in blist /\ (d \in removed' => d \in removed)
      BY <2>0, <3>1, <3>3, ReasonStays DEF Kept
    <3> QED BY <3>1, <3>2, <3>3 DEF UpdateBlistChat, listVars
  <2>9. ASSUME NEW k \in calls, NEW ok \in BOOLEAN, OpenAnswered(k, ok) PROVE Reason(d)'
    <3>1. /\ UNCHANGED <<session, chatsInBlist, chatIds, refreshing, unchecked>>
          /\ infos \subseteq infos' /\ calls' = calls \ {k} /\ k.next # "finish"
          /\ \/ UpdateBlistChat(k.chat) /\ NewConv(k.chat)
             \/ UNCHANGED <<listVars, convVars>>
      BY <2>6, <2>9 DEF OpenAnswered, histVars
    <3>2. CASE IsOpen(d)'
      BY <3>2 DEF Reason, Wanted
    <3>3. CASE ~IsOpen(d)'
      <4>1. d \in blist /\ Kept(d)
        BY <3>1, <3>3, NewConvOpens DEF UpdateBlistChat, listVars, convVars, Kept
      <4> QED BY <2>0, <3>1, <4>1, ReasonStays
    <3> QED BY <3>2, <3>3
  <2>10. ASSUME NEW k \in calls, NEW ok \in BOOLEAN, UpdateAnswered(k, ok) PROVE Reason(d)'
    <3>1. /\ UNCHANGED <<session, chatsInBlist, chatIds, convs, refreshing>>
          /\ infos \subseteq infos' /\ calls' = calls \ {k} /\ k.next # "finish"
          /\ \/ UpdateBlistChat(k.chat) /\ unchecked' = unchecked \cup {k.chat}
             \/ UNCHANGED <<listVars, unchecked>>
      BY <2>6, <2>10 DEF UpdateAnswered, convVars
    <3>2. CASE d \in unchecked'
      BY <3>2 DEF Reason
    <3>3. CASE d \notin unchecked'
      <4>1. d \in blist /\ Kept(d)
        BY <3>1, <3>3 DEF UpdateBlistChat, listVars, Kept
      <4> QED BY <2>0, <3>1, <4>1, ReasonStays
    <3> QED BY <3>2, <3>3
  <2>11. ASSUME NEW k \in calls, FinishReceiving(k) PROVE Reason(d)'
    <3>1. /\ Open(k.chat, k.msgs, calls \ {k})
          /\ UNCHANGED <<session, chatsInBlist, infos, refreshing, unchecked>>
      BY <2>11 DEF FinishReceiving, histVars
    <3>2. k.chat \in Chats
      BY <2>6
    <3> QED BY <2>1, <3>1, <3>2
  <2>12. ASSUME NEW D \in SUBSET Chats, Dialogs(D) PROVE Reason(d)'
    BY <2>12, Zenon DEF Dialogs
  <2>13. ASSUME NEW got \in SUBSET chatIds, Refreshed(got) PROVE Reason(d)'
    <3>1. Wanted(d, IsOpen(d), removed')
      BY <2>13 DEF Refreshed
    <3> QED BY <2>13, <3>1 DEF Refreshed, Reason, Wanted, IsOpen, convVars
  <2>14. ASSUME NEW w \in windows, Leave(w) PROVE Reason(d)'
    <3>1. /\ d \in blist /\ convs' = {p \in convs : p.id # w.id}
          /\ UNCHANGED <<session, refreshing, chatsInBlist, chatIds, infos, removed, calls, unchecked>>
          /\ \/ [id |-> w.id, chat |-> d] \notin convs
             \/ Wanted(d, \E p \in convs' : p.chat = d, removed)
      BY <2>14 DEF Leave, histVars
    <3>2. Reason(d)
      BY <2>0, <3>1
    <3>3. CASE [id |-> w.id, chat |-> d] \notin convs
      <4>1. \A p \in convs : p.chat = d => p.id # w.id
        BY <3>3 DEF TypeOK
      <4> QED BY <3>1, <3>2, <4>1 DEF Reason, Wanted, IsOpen
    <3>4. CASE Wanted(d, \E p \in convs' : p.chat = d, removed)
      BY <3>1, <3>4 DEF Reason, Wanted, IsOpen
    <3> QED BY <3>1, <3>3, <3>4
  <2>15. ASSUME NEW c \in Removable, UserRemoves(c) PROVE Reason(d)'
    <3>1. d \in blist /\ Kept(d) /\ UNCHANGED <<session, refreshing, calls>>
      BY <2>15 DEF UserRemoves, Kept, convVars
    <3> QED BY <2>0, <3>1, ReasonStays
  <2>16. ASSUME NEW w \in windows, CloseLeft(w) PROVE Reason(d)'
    <3>1. d \in blist /\ Kept(d) /\ UNCHANGED <<session, refreshing, calls>>
      BY <2>16 DEF CloseLeft, Kept, listVars, histVars
    <3> QED BY <2>0, <3>1, ReasonStays
  <2>17. CASE Login
    BY <2>17 DEF Login, Reason
  <2>18. CASE Close \/ CloseEnds \/ Crash \/ \E k \in calls : PictureCancelled(k)
    BY <2>18 DEF Close, CloseEnds, Crash, SessionOver, PictureCancelled
  <2>19. CASE UNCHANGED vars
    <3>1. d \in blist /\ Kept(d) /\ UNCHANGED <<session, refreshing, calls>>
      BY <2>19 DEF vars, Kept, listVars, convVars, histVars
    <3> QED BY <2>0, <3>1, ReasonStays
  <2> QED
    BY <2>3, <2>4, <2>5, <2>7, <2>8, <2>9, <2>10, <2>11, <2>12, <2>13, <2>14, <2>15, <2>16,
       <2>17, <2>18, <2>19, <2>21 DEF Next
<1>3. ListedInv => ListedForAReason
  BY DEF ListedInv, ListedForAReason, Reason
<1> QED BY <1>1, <1>2, <1>3, TypeCorrect, PTL DEF Spec

\* The list of chats is what the chats, messages and removals make it, however
\* many there are.
THEOREM ListIsKept == Spec => []ListInv
<1>1. ListedForAReason /\ RemovalIsRemembered => ListInv
  BY DEF ListInv
<1> QED BY <1>1, ListIsExplained, RemovalsAreRemembered, PTL

-----------------------------------------------------------------------------
(* ChatMembers *)

(***************************************************************************)
(* Bags of requests: one is added, one is taken out, the others stay.      *)
(***************************************************************************)
LEMMA BagAdd ==
    ASSUME NEW B, IsABag(B), NEW r
    PROVE  /\ IsABag(B (+) SetToBag({r}))
           /\ DOMAIN (B (+) SetToBag({r})) = DOMAIN B \cup {r}
<1> DEFINE C == B (+) SetToBag({r})
<1>1. C = [e \in DOMAIN B \cup {r} |->
             (IF e \in DOMAIN B THEN B[e] ELSE 0) + (IF e \in {r} THEN 1 ELSE 0)]
  BY DEF (+), SetToBag
<1>2. \A e \in DOMAIN B : B[e] \in Nat /\ B[e] > 0
  BY DEF IsABag
<1>3. \A e \in DOMAIN B \cup {r} : C[e] \in Nat /\ C[e] > 0
  BY <1>1, <1>2
<1> HIDE DEF C
<1>4. DOMAIN C = DOMAIN B \cup {r}
  BY <1>1
<1>5. IsABag(C)
  BY <1>1, <1>3, <1>4 DEF IsABag
<1> QED BY <1>4, <1>5 DEF C

LEMMA BagRemove ==
    ASSUME NEW B, IsABag(B), NEW r
    PROVE  /\ IsABag(B (-) SetToBag({r}))
           /\ DOMAIN (B (-) SetToBag({r})) \subseteq DOMAIN B
           /\ \A e \in DOMAIN B : e # r => e \in DOMAIN (B (-) SetToBag({r}))
<1> DEFINE D == [e \in DOMAIN B |-> IF e \in {r} THEN B[e] - 1 ELSE B[e]]
           C == B (-) SetToBag({r})
<1>1. C = [e \in {d \in DOMAIN D : D[d] > 0} |-> D[e]]
  BY DEF (-), SetToBag
<1>2. \A e \in DOMAIN B : B[e] \in Nat /\ B[e] > 0
  BY DEF IsABag
<1>3. \A e \in DOMAIN B : D[e] \in Nat
  BY <1>2
<1>4. DOMAIN D = DOMAIN B /\ \A e \in DOMAIN B : e # r => D[e] = B[e]
  OBVIOUS
<1> HIDE DEF C, D
<1>5. DOMAIN C = {d \in DOMAIN B : D[d] > 0} /\ \A e \in DOMAIN C : C[e] = D[e]
  BY <1>1, <1>4
<1>6. IsABag(C)
  BY <1>1, <1>3, <1>5 DEF IsABag
<1>7. \A e \in DOMAIN B : e # r => e \in DOMAIN C
  BY <1>2, <1>4, <1>5
<1> QED BY <1>5, <1>6, <1>7 DEF C

(***************************************************************************)
(* The types of what is known and shown, and, beyond ShownInv: a name made *)
(* of an id is that of the user with this id, and without a connection     *)
(* nothing is known.                                                       *)
(***************************************************************************)
Parts == UNION {[D -> Displayed] : D \in SUBSET (Users \cup {Me})}
Infos == [title : Titles \cup {NoTitle}, participants : Parts, is : BOOLEAN]
Views == [at : {"none", "open", "left"}, title : Titles \cup {NoTitle}, names : SUBSET Displayed]

IdsAreOwn(parts) ==
    \A u \in DOMAIN parts : parts[u] \in {Shared(n) : n \in Names} \cup {Own(u)}
ToldApart(parts) ==
    \A u, v \in DOMAIN parts : parts[u] = parts[v] => u = v
Shows(v, i) ==
    /\ v.title = i.title
    /\ v.names \in {Range(i.participants), Range(i.participants) \cup {Shared(SelfAlias)}}
GoodInfo(i) == i \in Infos /\ IdsAreOwn(i.participants) /\ ToldApart(i.participants)

MembersInv ==
    /\ MembersTypeOK /\ IsABag(requests)
    /\ GoodInfo(info) /\ conv \in Views
    /\ conv.at = "open" => Shows(conv, info)
    /\ connection = "off" => info = NoInfo

LEMMA Names_Differ ==
    /\ \A n, m : Shared(n) = Shared(m) => n = m
    /\ \A u, v : Own(u) = Own(v) => u = v
    /\ \A n, u : Shared(n) # Own(u)
  BY DEF Shared, Own

LEMMA DisplayedAre ==
    /\ \A n \in Names : Shared(n) \in Displayed
    /\ \A u \in Users \cup {Me} : Own(u) \in Displayed
    /\ SelfName = Own(Me)
  BY DEF Displayed, SelfName

LEMMA PartsAre ==
    ASSUME NEW parts \in Parts
    PROVE  /\ DOMAIN parts \in SUBSET (Users \cup {Me}) /\ parts \in [DOMAIN parts -> Displayed]
           /\ Range(parts) \in SUBSET Displayed /\ IsFiniteSet(Range(parts))
<1>1. PICK D \in SUBSET (Users \cup {Me}) : parts \in [D -> Displayed]
  BY DEF Parts
<1>2. DOMAIN parts = D
  BY <1>1
<1>3. /\ Range(parts) = {parts[u] : u \in D}
      /\ parts \in Surjection(D, Range(parts))
  BY <1>1, <1>2 DEF Range, Surjection
<1>4. IsFiniteSet(D)
  <2>1. IsFiniteSet(Users \cup {Me})
    BY FS_AddElement, MembersAssumption
  <2> QED BY <2>1, FS_Subset
<1>5. IsFiniteSet(Range(parts))
  BY <1>3, <1>4, FS_Surjection
<1> QED BY <1>1, <1>2, <1>3, <1>5

(***************************************************************************)
(* What the operators do to infos and views: naming members, adding and    *)
(* removing one, and showing an info in a window.                          *)
(***************************************************************************)
LEMMA NoInfoIsGood == GoodInfo(NoInfo) /\ DOMAIN NoInfo.participants = {} /\ ~NoInfo.is
<1>1. [u \in {} |-> SelfName] \in [{} -> Displayed]
  OBVIOUS
<1>2. [u \in {} |-> SelfName] \in Parts
  BY <1>1 DEF Parts
<1> QED BY <1>2 DEF NoInfo, GoodInfo, Infos, IdsAreOwn, ToldApart

LEMMA NamedIsGood ==
    ASSUME NEW S \in SUBSET Users, NEW parts \in Named(S), NEW t \in Titles
    PROVE  /\ GoodInfo([title |-> t, participants |-> parts, is |-> TRUE])
           /\ DOMAIN parts = S \cup {Me}
<1>1. PICK name \in [S -> Names], P \in SUBSET S :
        /\ \A u, v \in P : name[u] = name[v] => u = v
        /\ parts = [u \in S \cup {Me} |-> IF u = Me THEN SelfName
                                          ELSE IF u \in P THEN Shared(name[u]) ELSE Own(u)]
  BY DEF Named
<1>2. DOMAIN parts = S \cup {Me}
  BY <1>1
<1>3. \A u \in S \cup {Me} : parts[u] \in {Shared(n) : n \in Names} \cup {Own(u)}
  BY <1>1, DisplayedAre
<1>4. \A u \in S \cup {Me} : parts[u] \in Displayed
  BY <1>3, DisplayedAre
<1>5. parts \in [S \cup {Me} -> Displayed]
  BY <1>1, <1>4
<1>6. parts \in Parts
  BY <1>5 DEF Parts
<1>7. ASSUME NEW u \in S \cup {Me}, NEW v \in S \cup {Me}, parts[u] = parts[v] PROVE u = v
  <2>1. CASE parts[u] = Own(u) /\ parts[v] = Own(v)
    BY <1>7, <2>1, Names_Differ
  <2>2. CASE parts[u] = Own(u) /\ parts[v] # Own(v)
    BY <1>1, <1>7, <2>2, Names_Differ, DisplayedAre
  <2>3. CASE parts[u] # Own(u) /\ parts[v] = Own(v)
    BY <1>1, <1>7, <2>3, Names_Differ, DisplayedAre
  <2>4. CASE parts[u] # Own(u) /\ parts[v] # Own(v)
    <3>1. u \in P /\ v \in P /\ parts[u] = Shared(name[u]) /\ parts[v] = Shared(name[v])
      BY <1>1, <2>4, DisplayedAre
    <3> QED BY <1>1, <1>7, <3>1, Names_Differ
  <2> QED BY <2>1, <2>2, <2>3, <2>4
<1> QED BY <1>2, <1>3, <1>6, <1>7 DEF GoodInfo, Infos, IdsAreOwn, ToldApart

LEMMA WithUserIsGood ==
    ASSUME NEW parts \in Parts, IdsAreOwn(parts), ToldApart(parts),
           NEW u \in Users, NEW new \in WithUser(parts, u)
    PROVE  new \in Parts /\ IdsAreOwn(new) /\ ToldApart(new)
<1>1. CASE u \in DOMAIN parts
  BY <1>1 DEF WithUser
<1>2. CASE u \notin DOMAIN parts
  <2>1. PICK d \in ({Shared(n) : n \in Names} \ Range(parts)) \cup {Own(u)} :
          new = [v \in DOMAIN parts \cup {u} |-> IF v = u THEN d ELSE parts[v]]
    BY <1>2 DEF WithUser
  <2>2. DOMAIN new = DOMAIN parts \cup {u} /\ new[u] = d
        /\ \A v \in DOMAIN parts : new[v] = parts[v]
    BY <1>2, <2>1
  <2>3. d \in Displayed /\ \A v \in DOMAIN parts : parts[v] \in Displayed
    BY <2>1, DisplayedAre, PartsAre
  <2>4. new \in [DOMAIN parts \cup {u} -> Displayed]
    BY <2>1, <2>2, <2>3
  <2>5. new \in Parts
    BY <2>4, PartsAre DEF Parts
  <2>6. IdsAreOwn(new)
    BY <2>1, <2>2 DEF IdsAreOwn
  <2>7. \A v \in DOMAIN parts : parts[v] # d
    <3> TAKE v \in DOMAIN parts
    <3>1. v # u /\ parts[v] \in Range(parts)
      BY <1>2 DEF Range
    <3>2. parts[v] \in {Shared(n) : n \in Names} \cup {Own(v)}
      BY DEF IdsAreOwn
    <3> QED BY <2>1, <3>1, <3>2, Names_Differ
  <2>8. ToldApart(new)
    BY <2>2, <2>7 DEF ToldApart
  <2> QED BY <2>5, <2>6, <2>8
<1> QED BY <1>1, <1>2

LEMMA EditedIsGood ==
    ASSUME MembersInv, NEW r \in Edits, NEW i \in Edited(r.op, r.arg)
    PROVE  GoodInfo(i) /\ i.is
<1>0. /\ info \in Infos /\ info.participants \in Parts
      /\ IdsAreOwn(info.participants) /\ ToldApart(info.participants)
  BY DEF MembersInv, GoodInfo, Infos
<1>1. CASE r.op = "add"
  <2>1. r.arg \in Users
    BY <1>1 DEF Edits
  <2>2. PICK p \in WithUser(info.participants, r.arg) :
          i = [info EXCEPT !.participants = p, !.is = TRUE]
    BY <1>1 DEF Edited
  <2>3. p \in Parts /\ IdsAreOwn(p) /\ ToldApart(p)
    BY <1>0, <2>1, WithUserIsGood
  <2>4. i \in Infos /\ i.participants = p /\ i.is
    BY <1>0, <2>2, <2>3 DEF Infos
  <2> QED BY <2>3, <2>4 DEF GoodInfo
<1>2. CASE r.op = "remove"
  <2>1. PICK p : p = Restrict(info.participants, DOMAIN info.participants \ {r.arg})
    OBVIOUS
  <2>2. i = [info EXCEPT !.participants = p, !.is = TRUE]
    BY <1>2, <2>1 DEF Edited
  <2>3. /\ DOMAIN p = DOMAIN info.participants \ {r.arg}
        /\ \A u \in DOMAIN p : p[u] = info.participants[u]
        /\ p = [u \in DOMAIN p |-> p[u]]
    BY <2>1 DEF Restrict
  <2>4. p \in [DOMAIN p -> Displayed] /\ DOMAIN p \in SUBSET (Users \cup {Me})
    BY <1>0, <2>3, PartsAre
  <2>5. p \in Parts
    BY <2>4 DEF Parts
  <2>6. IdsAreOwn(p) /\ ToldApart(p)
    BY <1>0, <2>3 DEF IdsAreOwn, ToldApart
  <2>7. i \in Infos /\ i.participants = p /\ i.is
    BY <1>0, <2>2, <2>5 DEF Infos
  <2> QED BY <2>6, <2>7 DEF GoodInfo
<1>3. CASE r.op = "title"
  <2>1. r.arg \in Titles
    BY <1>3 DEF Edits
  <2>2. i = [info EXCEPT !.title = r.arg, !.is = TRUE]
    BY <1>3 DEF Edited
  <2>3. i \in Infos /\ i.participants = info.participants /\ i.is
    BY <1>0, <2>1, <2>2 DEF Infos
  <2> QED BY <1>0, <2>3 DEF GoodInfo
<1> QED BY <1>1, <1>2, <1>3 DEF Edits

\* are_equal_chat_users may leave the names as they are, and is then right but
\* for the name of the account.
LEMMA UpdatedShows ==
    ASSUME NEW v \in Views, NEW i \in Infos
    PROVE  /\ Updated(v, i) \in Views /\ Updated(v, i).at = v.at
           /\ Shows(Updated(v, i), i)
<1>0. i.participants \in Parts /\ i.title \in Titles \cup {NoTitle}
  BY DEF Infos
<1>1. PICK all : all = Range(i.participants) \cup {Shared(SelfAlias)}
  OBVIOUS
<1>2. IsFiniteSet(all)
  BY <1>0, <1>1, PartsAre, FS_AddElement
<1>3. ASSUME EqualUsers(v.names, i.participants) PROVE v.names = all
  BY <1>1, <1>2, <1>3, FS_Subset DEF EqualUsers
<1>4. PICK n : n = IF EqualUsers(v.names, i.participants) THEN v.names ELSE Range(i.participants)
  OBVIOUS
<1>5. n \in {Range(i.participants), all} /\ n \in SUBSET Displayed
  BY <1>0, <1>3, <1>4, PartsAre DEF Views
<1>6. Updated(v, i) = [v EXCEPT !.title = i.title, !.names = n]
  BY <1>4 DEF Updated
<1>7. /\ Updated(v, i) \in Views /\ Updated(v, i).at = v.at
      /\ Updated(v, i).title = i.title /\ Updated(v, i).names = n
  BY <1>0, <1>5, <1>6 DEF Views
<1> QED BY <1>1, <1>5, <1>7 DEF Shows

LEMMA OpenedShows ==
    ASSUME conv \in Views, NEW i \in Infos, NEW v \in Opened(i)
    PROVE  v \in Views /\ v.at = "open" /\ Shows(v, i)
<1>1. PICK kept \in (IF conv.at = "left" THEN {conv.names, {}} ELSE {{}}) :
        v = Updated([conv EXCEPT !.at = "open", !.names = kept], i)
  BY DEF Opened
<1>2. PICK w : w = [conv EXCEPT !.at = "open", !.names = kept]
  OBVIOUS
<1>3. w \in Views /\ w.at = "open"
  BY <1>1, <1>2 DEF Views
<1> QED BY <1>1, <1>2, <1>3, UpdatedShows

(***************************************************************************)
(* Requests keep their types when one is made, answered or served.         *)
(***************************************************************************)
GoodRequests(R) == IsABag(R) /\ DOMAIN R \subseteq Gets \cup Edits

LEMMA GetIsGood ==
    /\ \A opens \in BOOLEAN : Get(opens) \in Gets
    /\ \A r \in Gets : r.op = "get" /\ r.opens \in BOOLEAN /\ r.at \in {"sent", "served"}
    /\ \A r \in Gets : r.at = "served" => r.seen \in ChatType
    /\ \A opens \in BOOLEAN, c \in ChatType :
         [op |-> "get", opens |-> opens, at |-> "served", seen |-> c] \in Gets
  BY DEF Get, Gets

LEMMA EditIsGood ==
    /\ \A u \in Users, op \in {"add", "remove"} : Edit(op, u) \in Edits
    /\ \A t \in Titles : Edit("title", t) \in Edits
    /\ \A r \in Edits : r.op \in {"add", "remove", "title"} /\ r.at \in {"sent", "served"}
    /\ \A r \in Edits : r.op \in {"add", "remove"} => r.arg \in Users
    /\ \A r \in Edits : r.op = "title" => r.arg \in Titles
    /\ \A r \in Edits : [r EXCEPT !.at = "served"] \in Edits
  BY DEF Edit, Edits

LEMMA AskIsGood ==
    ASSUME GoodRequests(requests), NEW q \in Gets \cup Edits, Ask(q)
    PROVE  GoodRequests(requests') /\ DOMAIN requests' = DOMAIN requests \cup {q}
<1>1. requests' = requests (+) SetToBag({q})
  BY DEF Ask
<1>2. IsABag(requests') /\ DOMAIN requests' = DOMAIN requests \cup {q}
  BY <1>1, BagAdd DEF GoodRequests
<1> QED BY <1>2 DEF GoodRequests

LEMMA DoneIsGood ==
    ASSUME GoodRequests(requests), NEW r, Done(r)
    PROVE  /\ GoodRequests(requests') /\ DOMAIN requests' \subseteq DOMAIN requests
           /\ \A q \in DOMAIN requests : q # r => q \in DOMAIN requests'
<1>1. requests' = requests (-) SetToBag({r})
  BY DEF Done
<1>2. /\ IsABag(requests') /\ DOMAIN requests' \subseteq DOMAIN requests
      /\ \A q \in DOMAIN requests : q # r => q \in DOMAIN requests'
  BY <1>1, BagRemove DEF GoodRequests
<1> QED BY <1>2 DEF GoodRequests

LEMMA ServedIsGood ==
    ASSUME GoodRequests(requests), NEW r, NEW q \in Gets \cup Edits,
           requests' = (requests (-) SetToBag({r})) (+) SetToBag({q})
    PROVE  /\ GoodRequests(requests') /\ q \in DOMAIN requests'
           /\ DOMAIN requests' \subseteq DOMAIN requests \cup {q}
           /\ \A p \in DOMAIN requests : p # r => p \in DOMAIN requests'
<1>1. PICK B : B = requests (-) SetToBag({r})
  OBVIOUS
<1>2. /\ IsABag(B) /\ DOMAIN B \subseteq DOMAIN requests
      /\ \A p \in DOMAIN requests : p # r => p \in DOMAIN B
  BY <1>1, BagRemove DEF GoodRequests
<1>3. requests' = B (+) SetToBag({q})
  BY <1>1
<1>4. IsABag(requests') /\ DOMAIN requests' = DOMAIN B \cup {q}
  BY <1>2, <1>3, BagAdd
<1> QED BY <1>2, <1>4 DEF GoodRequests

LEMMA ChangedIsGood ==
    ASSUME MembersInv, NEW c \in ChatType, Changed(c)
    PROVE  /\ chat' = c /\ chat' \in ChatType /\ events' \in 0..MaxEvents
           /\ connection = "on" => events' > 0
  BY MembersAssumption DEF MembersInv, MembersTypeOK, Changed

-----------------------------------------------------------------------------
LEMMA MembersInit_Inv == MembersInit => MembersInv
<1> SUFFICES ASSUME MembersInit PROVE MembersInv
  OBVIOUS
<1>1. GoodInfo(info) /\ ~info.is /\ DOMAIN info.participants = {}
  BY NoInfoIsGood DEF MembersInit
<1>2. IsABag(requests) /\ DOMAIN requests = {}
  BY DEF MembersInit, EmptyBag, SetToBag, IsABag
<1>3. conv \in Views /\ conv.at = "none" /\ conv.names = {}
  BY DEF MembersInit, NoConv, Views
<1>4. Range(info.participants) = {}
  BY <1>1 DEF Range
<1>5. info.title \in Titles \cup {NoTitle}
  BY <1>1 DEF GoodInfo, Infos
<1> QED BY <1>1, <1>2, <1>3, <1>4, <1>5, MembersAssumption DEF MembersInit, MembersInv, MembersTypeOK

\* What a step has to keep, without what holds of infos and views by their
\* types.
LEMMA MembersParts ==
    MembersInv <=>
        /\ connection \in {"on", "off"}
        /\ GoodInfo(info) /\ (~info.is => info = NoInfo)
        /\ conv \in Views
        /\ conv.at = "open" => connection = "on" /\ info.is /\ Shows(conv, info)
        /\ GoodRequests(requests)
        /\ connection = "off" => requests = EmptyBag /\ info = NoInfo
        /\ chat \in ChatType /\ events \in 0..MaxEvents
        /\ why \subseteq {"failed", "overtaken"}
<1>1. ASSUME GoodInfo(info)
      PROVE  /\ info.title \in Titles \cup {NoTitle}
             /\ DOMAIN info.participants \subseteq Users \cup {Me}
             /\ Range(info.participants) \subseteq Displayed
  BY <1>1, PartsAre DEF GoodInfo, Infos
<1>2. ASSUME conv \in Views
      PROVE  conv.at \in {"none", "open", "left"} /\ conv.names \subseteq Displayed
  BY <1>2 DEF Views
<1> QED BY <1>1, <1>2 DEF MembersInv, MembersTypeOK, GoodRequests

LEMMA MembersPartsNext ==
    (MembersInv)' <=>
        /\ connection' \in {"on", "off"}
        /\ GoodInfo(info') /\ (~info'.is => info' = NoInfo)
        /\ conv' \in Views
        /\ conv'.at = "open" => connection' = "on" /\ info'.is /\ Shows(conv', info')
        /\ GoodRequests(requests')
        /\ connection' = "off" => requests' = EmptyBag /\ info' = NoInfo
        /\ chat' \in ChatType /\ events' \in 0..MaxEvents
        /\ why' \subseteq {"failed", "overtaken"}
<1>1. ASSUME GoodInfo(info')
      PROVE  /\ info'.title \in Titles \cup {NoTitle}
             /\ DOMAIN info'.participants \subseteq Users \cup {Me}
             /\ Range(info'.participants) \subseteq Displayed
  BY <1>1, PartsAre DEF GoodInfo, Infos
<1>2. ASSUME conv' \in Views
      PROVE  conv'.at \in {"none", "open", "left"} /\ conv'.names \subseteq Displayed
  BY <1>2 DEF Views
<1> QED BY <1>1, <1>2 DEF MembersInv, MembersTypeOK, GoodRequests

LEMMA MembersStep ==
    ASSUME MembersInv, [MembersNext]_memberVars PROVE (MembersInv)'
<1>0. /\ connection \in {"on", "off"}
      /\ GoodInfo(info) /\ (~info.is => info = NoInfo)
      /\ conv \in Views
      /\ conv.at = "open" => connection = "on" /\ info.is /\ Shows(conv, info)
      /\ GoodRequests(requests)
      /\ connection = "off" => requests = EmptyBag /\ info = NoInfo
      /\ chat \in ChatType /\ events \in 0..MaxEvents
      /\ why \subseteq {"failed", "overtaken"}
  BY MembersParts
<1>i. info \in Infos
  BY <1>0 DEF GoodInfo
<1>r. ASSUME NEW r \in DOMAIN requests PROVE connection = "on" /\ r \in Gets \cup Edits
  BY <1>0, <1>r DEF GoodRequests, EmptyBag, SetToBag
<1>w. \A i : Because(i) \subseteq {"failed", "overtaken"}
  BY <1>0 DEF Because
<1>g. Get(TRUE) \in Gets /\ Get(FALSE) \in Gets
  BY GetIsGood
<1>1. CASE OpenConv
  <2>1. CASE info.is /\ conv' \in Opened(info) /\ UNCHANGED requests
    <3>1. conv' \in Views /\ Shows(conv', info)
      BY <1>0, <1>i, <2>1, OpenedShows
    <3> QED BY <1>0, <1>1, <2>1, <3>1, MembersPartsNext DEF OpenConv
  <2>2. CASE ~info.is /\ Ask(Get(TRUE)) /\ UNCHANGED conv
    <3>1. GoodRequests(requests')
      BY <1>0, <1>g, <2>2, AskIsGood
    <3> QED BY <1>0, <1>1, <2>2, <3>1, MembersPartsNext DEF OpenConv
  <2> QED BY <1>1, <2>1, <2>2 DEF OpenConv
<1>2. CASE Event
  <2>1. GoodRequests(requests')
    BY <1>0, <1>2, <1>g, AskIsGood DEF Event
  <2>2. events' \in 0..MaxEvents
    BY <1>0, <1>2, MembersAssumption DEF Event
  <2> QED BY <1>0, <1>2, <2>1, <2>2, MembersPartsNext DEF Event
<1>3. CASE Refresh
  <2>1. GoodRequests(requests')
    BY <1>0, <1>3, <1>g, AskIsGood DEF Refresh
  <2> QED BY <1>0, <1>3, <2>1, MembersPartsNext DEF Refresh
<1>4. ASSUME NEW q \in Edits, Command(q) PROVE (MembersInv)'
  <2>1. GoodRequests(requests')
    BY <1>0, <1>4, AskIsGood DEF Command
  <2> QED BY <1>0, <1>4, <2>1, MembersPartsNext DEF Command
<1>5. ASSUME NEW r \in DOMAIN requests, GetAnswered(r) PROVE (MembersInv)'
  <2>1. r \in Gets /\ r.at = "served" /\ r.seen.members \in SUBSET Users /\ r.seen.title \in Titles
    BY <1>r, <1>5, GetIsGood, EditIsGood DEF GetAnswered, ChatType
  <2>2. PICK parts \in Named(r.seen.members) :
          LET i == [title |-> r.seen.title, participants |-> parts, is |-> TRUE]
          IN  /\ info' = i
              /\ IF r.opens /\ conv.at # "open" THEN conv' \in Opened(i) ELSE conv' = Updating(i)
              /\ why' = Because(i)
    BY <1>5 DEF GetAnswered
  <2>3. GoodInfo(info') /\ info'.is /\ info' \in Infos
    BY <2>1, <2>2, NamedIsGood DEF GoodInfo
  <2>4. conv' \in Opened(info') \/ conv' = Updating(info')
    BY <2>2
  <2>5. conv' \in Views /\ (conv'.at = "open" => Shows(conv', info'))
    <3>1. CASE conv' \in Opened(info')
      BY <1>0, <2>3, <3>1, OpenedShows
    <3>2. CASE conv' = Updating(info')
      BY <1>0, <2>3, <3>2, UpdatedShows DEF Updating
    <3> QED BY <2>4, <3>1, <3>2
  <2>6. GoodRequests(requests')
    BY <1>0, <1>5, DoneIsGood DEF GetAnswered
  <2>7. why' \subseteq {"failed", "overtaken"}
    BY <1>w, <2>2
  <2> QED BY <1>0, <1>5, <1>r, <2>3, <2>5, <2>6, <2>7, MembersPartsNext DEF GetAnswered
<1>6. ASSUME NEW r \in DOMAIN requests, EditAnswered(r) PROVE (MembersInv)'
  <2>1. r \in Edits
    BY <1>r, <1>6, GetIsGood DEF EditAnswered
  <2>2. GoodInfo(info') /\ info'.is /\ info' \in Infos
    BY <1>6, <2>1, EditedIsGood DEF EditAnswered, GoodInfo
  <2>3. conv' \in Views /\ (conv'.at = "open" => Shows(conv', info'))
    <3>1. conv' = IF conv.at = "none" THEN conv ELSE Updated(conv, info')
      BY <1>6 DEF EditAnswered
    <3> QED BY <1>0, <2>2, <3>1, UpdatedShows
  <2>4. GoodRequests(requests')
    BY <1>0, <1>6, DoneIsGood DEF EditAnswered
  <2>5. why' \subseteq {"failed", "overtaken"}
    BY <1>6, <1>w DEF EditAnswered
  <2> QED BY <1>0, <1>6, <1>r, <2>2, <2>3, <2>4, <2>5, MembersPartsNext DEF EditAnswered
<1>7. ASSUME NEW r \in DOMAIN requests, Fails(r) PROVE (MembersInv)'
  <2>1. conv' = conv \/ (info.is /\ conv' \in Opened(info))
    BY <1>7 DEF Fails
  <2>2. conv' \in Views /\ (conv'.at = "open" => info.is /\ Shows(conv', info))
    BY <1>0, <1>i, <2>1, OpenedShows
  <2>3. GoodRequests(requests')
    BY <1>0, <1>7, DoneIsGood DEF Fails
  <2>4. why' \subseteq {"failed", "overtaken"}
    BY <1>0, <1>7 DEF Fails
  <2> QED BY <1>0, <1>7, <1>r, <2>2, <2>3, <2>4, MembersPartsNext DEF Fails
<1>8. ASSUME NEW r \in DOMAIN requests, ServeGet(r) PROVE (MembersInv)'
  <2>1. r \in Gets
    BY <1>r, <1>8, EditIsGood DEF ServeGet
  <2>2. [op |-> "get", opens |-> r.opens, at |-> "served", seen |-> chat] \in Gets
    BY <1>0, <2>1, GetIsGood
  <2>3. GoodRequests(requests')
    BY <1>0, <1>8, <2>2, ServedIsGood DEF ServeGet
  <2> QED BY <1>0, <1>8, <1>r, <2>3, MembersPartsNext DEF ServeGet
<1>9. ASSUME NEW r \in DOMAIN requests, ServeEdit(r) PROVE (MembersInv)'
  <2>1. r \in Edits
    BY <1>r, <1>9, GetIsGood DEF ServeEdit
  <2>2. PICK c \in ChatType : Changed(c)
    BY <1>0, <1>9, <2>1, EditIsGood DEF ServeEdit, ChatType
  <2>3. GoodRequests(requests')
    BY <1>0, <1>9, <2>1, EditIsGood, ServedIsGood DEF ServeEdit
  <2>4. chat' \in ChatType /\ events' \in 0..MaxEvents
    BY <2>2, ChangedIsGood
  <2> QED BY <1>0, <1>9, <1>r, <2>3, <2>4, MembersPartsNext DEF ServeEdit
<1>10. ASSUME NEW u \in Users, OthersChange(u) PROVE (MembersInv)'
  <2>1. PICK c \in ChatType : Changed(c)
    BY <1>0, <1>10 DEF OthersChange, ChatType
  <2>2. chat' \in ChatType /\ events' \in 0..MaxEvents
    BY <2>1, ChangedIsGood
  <2> QED BY <1>0, <1>10, <2>2, MembersPartsNext DEF OthersChange
<1>11. CASE AliasBuddy
  <2>1. conv' \in Views /\ Shows(conv', info)
    BY <1>0, <1>i, <1>11, UpdatedShows DEF AliasBuddy
  <2> QED BY <1>0, <1>11, <2>1, MembersPartsNext DEF AliasBuddy
<1>12. CASE CloseConv
  <2>1. conv' \in Views /\ conv'.at = "none"
    BY <1>12 DEF CloseConv, NoConv, Views
  <2> QED BY <1>0, <1>12, <2>1, MembersPartsNext DEF CloseConv
<1>13. CASE MembersLogin
  BY <1>0, <1>13, MembersPartsNext DEF MembersLogin
<1>14. CASE MembersClose
  <2>1. conv' \in Views /\ conv'.at # "open"
    BY <1>0, <1>14 DEF MembersClose, Views
  <2>2. GoodInfo(info') /\ ~info'.is
    BY <1>14, NoInfoIsGood DEF MembersClose
  <2>3. GoodRequests(requests')
    BY <1>14 DEF MembersClose, GoodRequests, EmptyBag, SetToBag, IsABag
  <2> QED BY <1>0, <1>14, <2>1, <2>2, <2>3, MembersPartsNext, MembersAssumption DEF MembersClose
<1>15. CASE UNCHANGED memberVars
  BY <1>0, <1>15, MembersPartsNext DEF memberVars
<1> QED
  <2>1. ASSUME NEW u \in Users, NEW op \in {"add", "remove"}, Command(Edit(op, u)) PROVE (MembersInv)'
    BY <1>4, <2>1, EditIsGood
  <2>2. ASSUME NEW t \in Titles, Command(Edit("title", t)) PROVE (MembersInv)'
    BY <1>4, <2>2, EditIsGood
  <2> QED BY <1>1, <1>2, <1>3, <1>5, <1>6, <1>7, <1>8, <1>9, <1>10, <1>11, <1>12, <1>13,
             <1>14, <1>15, <2>1, <2>2 DEF MembersNext

(***************************************************************************)
(* An open conversation shows who is known to be in the chat, and no two   *)
(* of them have one name, whatever is answered, renamed, reopened or fails *)
(* in whatever order: update_open_chat_conv_impl and add_user_to_chat_info. *)
(***************************************************************************)
THEOREM MembersAreShown == MembersSpec => []ShownInv
<1>1. MembersInv => ShownInv
  BY DEF MembersInv, ShownInv, ConvShowsInfo, NamesTellApart, Shows, GoodInfo, ToldApart
<1> QED BY <1>1, MembersInit_Inv, MembersStep, PTL DEF MembersSpec

-----------------------------------------------------------------------------
(***************************************************************************)
(* Why what is known may be out of date.  StaleForAReason is not inductive: *)
(* an answer under way may make an info, when there was none, that is out  *)
(* of date at once, so that a reason is needed from the time it is served. *)
(***************************************************************************)
HasAnswer(i, R) == i.is \/ \E r \in R : r.at = "served"
Tell(R, c) == \E r \in R : r.op = "get" /\ (r.at = "sent" \/ r.seen = c)
ReasonInv ==
    HasAnswer(info, DOMAIN requests) /\ ~Tells(info, chat) =>
        events > 0 \/ Tell(DOMAIN requests, chat) \/ why # {}

LEMMA ReasonNext ==
    (ReasonInv)' <=>
        (HasAnswer(info', DOMAIN requests') /\ ~Tells(info', chat') =>
            events' > 0 \/ Tell(DOMAIN requests', chat') \/ why' # {})
  BY DEF ReasonInv, HasAnswer, Tell, Tells

LEMMA AskKeepsReason ==
    ASSUME MembersInv, ReasonInv, NEW q \in Gets \cup Edits, q.at = "sent", Ask(q),
           UNCHANGED <<info, chat, why>>, events' = events \/ q.op = "get"
    PROVE  (ReasonInv)'
<1>1. DOMAIN requests' = DOMAIN requests \cup {q}
  BY AskIsGood, MembersParts
<1>2. HasAnswer(info', DOMAIN requests') => HasAnswer(info, DOMAIN requests)
  BY <1>1 DEF HasAnswer
<1>3. Tell(DOMAIN requests, chat) => Tell(DOMAIN requests', chat')
  BY <1>1 DEF Tell
<1>4. q.op = "get" => Tell(DOMAIN requests', chat')
  BY <1>1 DEF Tell
<1>5. Tells(info', chat') <=> Tells(info, chat)
  OBVIOUS
<1> QED BY <1>2, <1>3, <1>4, <1>5, ReasonNext DEF ReasonInv

LEMMA AnswerKeepsReason ==
    ASSUME MembersInv, ReasonInv, NEW r \in DOMAIN requests, Done(r), r.at = "served",
           r.op = "get" => r.seen # chat \/ Tells(info', chat),
           why' = Because(info'), UNCHANGED <<chat, events>>
    PROVE  (ReasonInv)'
<1> SUFFICES ASSUME ~Tells(info', chat), why' = {}, ~(events > 0)
             PROVE  Tell(DOMAIN requests', chat')
  BY ReasonNext
<1>1. ~Tells(info, chat) /\ why = {}
  BY DEF Because
<1>2. Tell(DOMAIN requests, chat)
  BY <1>1 DEF ReasonInv, HasAnswer
<1>3. PICK q \in DOMAIN requests : q.op = "get" /\ (q.at = "sent" \/ q.seen = chat)
  BY <1>2 DEF Tell
<1>4. q # r
  BY <1>3
<1>5. q \in DOMAIN requests'
  BY <1>4, DoneIsGood, MembersParts
<1> QED BY <1>3, <1>5 DEF Tell

LEMMA ReasonStep ==
    ASSUME MembersInv, (MembersInv)', ReasonInv, [MembersNext]_memberVars PROVE (ReasonInv)'
<1>0. GoodRequests(requests)
  BY MembersParts
<1>r. ASSUME NEW r \in DOMAIN requests PROVE connection = "on" /\ r \in Gets \cup Edits
  BY <1>r, MembersParts DEF GoodRequests, EmptyBag, SetToBag
<1>g. Get(TRUE) \in Gets /\ Get(FALSE) \in Gets /\ Get(TRUE).at = "sent" /\ Get(FALSE).at = "sent"
      /\ Get(TRUE).op = "get" /\ Get(FALSE).op = "get"
  BY GetIsGood DEF Get
<1>u. ASSUME UNCHANGED <<info, requests, chat, events, why>> PROVE (ReasonInv)'
  BY <1>u DEF ReasonInv, HasAnswer, Tell, Tells
<1>1. CASE OpenConv
  <2>1. CASE UNCHANGED requests
    BY <1>1, <1>u, <2>1 DEF OpenConv
  <2>2. CASE Ask(Get(TRUE))
    BY <1>1, <1>g, <2>2, AskKeepsReason DEF OpenConv
  <2> QED BY <1>1, <2>1, <2>2 DEF OpenConv
<1>2. CASE Event
  BY <1>2, <1>g, AskKeepsReason DEF Event
<1>3. CASE Refresh
  BY <1>3, <1>g, AskKeepsReason DEF Refresh
<1>4. ASSUME NEW q \in Edits, q.at = "sent", Command(q) PROVE (ReasonInv)'
  BY <1>4, AskKeepsReason DEF Command
<1>5. ASSUME NEW r \in DOMAIN requests, GetAnswered(r) PROVE (ReasonInv)'
  <2>1. r \in Gets /\ r.at = "served" /\ r.seen \in ChatType
    BY <1>r, <1>5, GetIsGood, EditIsGood DEF GetAnswered
  <2>2. r.seen.members \in SUBSET Users /\ r.seen.title \in Titles
    BY <2>1 DEF ChatType
  <2>3. PICK parts \in Named(r.seen.members) :
          /\ info' = [title |-> r.seen.title, participants |-> parts, is |-> TRUE]
          /\ why' = Because(info')
    BY <1>5 DEF GetAnswered
  <2>4. DOMAIN parts = r.seen.members \cup {Me}
    BY <2>2, <2>3, NamedIsGood
  <2>5. r.seen = chat => Tells(info', chat)
    BY <2>3, <2>4 DEF Tells
  <2> QED BY <1>5, <2>1, <2>3, <2>5, AnswerKeepsReason DEF GetAnswered
<1>6. ASSUME NEW r \in DOMAIN requests, EditAnswered(r) PROVE (ReasonInv)'
  <2>1. r \in Edits /\ r.at = "served" /\ r.op # "get"
    BY <1>r, <1>6, GetIsGood, EditIsGood DEF EditAnswered
  <2> QED BY <1>6, <2>1, AnswerKeepsReason DEF EditAnswered
<1>7. ASSUME NEW r \in DOMAIN requests, Fails(r) PROVE (ReasonInv)'
  <2>0. UNCHANGED <<info, chat, events>> /\ Done(r)
        /\ why' = IF r.op = "get" /\ ~Tells(info, chat) THEN why \cup {"failed"} ELSE why
    BY <1>7 DEF Fails
  <2>1. CASE r.op = "get"
    BY <2>0, <2>1, ReasonNext
  <2>2. CASE r.op # "get"
    <3>1. /\ DOMAIN requests' \subseteq DOMAIN requests
          /\ \A q \in DOMAIN requests : q # r => q \in DOMAIN requests'
      BY <1>0, <2>0, DoneIsGood
    <3>2. HasAnswer(info', DOMAIN requests') => HasAnswer(info, DOMAIN requests)
      BY <2>0, <3>1 DEF HasAnswer
    <3>3. Tell(DOMAIN requests, chat) => Tell(DOMAIN requests', chat')
      BY <2>0, <2>2, <3>1 DEF Tell
    <3> QED BY <2>0, <2>2, <3>2, <3>3, ReasonNext DEF ReasonInv
  <2> QED BY <2>1, <2>2
<1>8. ASSUME NEW r \in DOMAIN requests, ServeGet(r) PROVE (ReasonInv)'
  <2>1. r \in Gets /\ chat \in ChatType
    BY <1>r, <1>8, EditIsGood, MembersParts DEF ServeGet
  <2>2. PICK q : q = [op |-> "get", opens |-> r.opens, at |-> "served", seen |-> chat]
    OBVIOUS
  <2>3. q \in Gets /\ q.op = "get" /\ q.seen = chat
    BY <2>1, <2>2, GetIsGood
  <2>4. q \in DOMAIN requests'
    BY <1>0, <1>8, <2>2, <2>3, ServedIsGood DEF ServeGet
  <2>5. Tell(DOMAIN requests', chat')
    BY <1>8, <2>3, <2>4 DEF Tell, ServeGet
  <2> QED BY <2>5, ReasonNext
<1>9. ASSUME NEW r \in DOMAIN requests, ServeEdit(r) PROVE (ReasonInv)'
  <2>1. r \in Edits
    BY <1>r, <1>9, GetIsGood DEF ServeEdit
  <2>2. PICK c \in ChatType : Changed(c)
    BY <1>9, <2>1, EditIsGood, MembersParts DEF ServeEdit, ChatType
  <2> QED BY <1>r, <2>2, ChangedIsGood, ReasonNext
<1>10. ASSUME NEW u \in Users, OthersChange(u) PROVE (ReasonInv)'
  <2>1. PICK c \in ChatType : Changed(c)
    BY <1>10, MembersParts DEF OthersChange, ChatType
  <2>2. CASE connection = "on"
    BY <2>1, <2>2, ChangedIsGood, ReasonNext
  <2>3. CASE connection = "off"
    <3>1. ~info'.is /\ DOMAIN requests' = {}
      BY <1>10, <2>3, MembersParts, NoInfoIsGood DEF OthersChange, EmptyBag, SetToBag
    <3> QED BY <3>1, ReasonNext DEF HasAnswer
  <2> QED BY <2>2, <2>3, MembersParts
<1>11. CASE AliasBuddy \/ CloseConv \/ MembersLogin \/ UNCHANGED memberVars
  BY <1>11, <1>u DEF AliasBuddy, CloseConv, MembersLogin, memberVars
<1>12. CASE MembersClose
  <2>1. ~info'.is /\ DOMAIN requests' = {}
    BY <1>12, NoInfoIsGood DEF MembersClose, EmptyBag, SetToBag
  <2> QED BY <2>1, ReasonNext DEF HasAnswer
<1> QED
  <2>1. ASSUME NEW u \in Users, NEW op \in {"add", "remove"}, Command(Edit(op, u)) PROVE (ReasonInv)'
    BY <1>4, <2>1, EditIsGood DEF Edit
  <2>2. ASSUME NEW t \in Titles, Command(Edit("title", t)) PROVE (ReasonInv)'
    BY <1>4, <2>2, EditIsGood DEF Edit
  <2> QED BY <1>1, <1>2, <1>3, <1>5, <1>6, <1>7, <1>8, <1>9, <1>10, <1>11, <1>12,
             <2>1, <2>2 DEF MembersNext

(***************************************************************************)
(* Nothing that changes in a chat goes unnoticed: if what is known of it   *)
(* is out of date, an event or an answer will tell, or a request failed or *)
(* was overtaken: update_chat_infos, process_chat_update and the commands. *)
(***************************************************************************)
THEOREM StalenessHasReasons == MembersSpec => []StaleForAReason
<1>1. MembersInit => MembersInv /\ ReasonInv
  <2> SUFFICES ASSUME MembersInit PROVE ReasonInv
    BY MembersInit_Inv
  <2>1. ~info.is /\ DOMAIN requests = {}
    BY NoInfoIsGood DEF MembersInit, EmptyBag, SetToBag
  <2> QED BY <2>1 DEF ReasonInv, HasAnswer
<1>2. MembersInv /\ ReasonInv /\ [MembersNext]_memberVars => (MembersInv)' /\ (ReasonInv)'
  BY MembersStep, ReasonStep
<1>3. ReasonInv => StaleForAReason
  BY DEF ReasonInv, StaleForAReason, HasAnswer, Tell
<1> QED BY <1>1, <1>2, <1>3, PTL DEF MembersSpec

=============================================================================
