-------------------------- MODULE MessageSyncProofs --------------------------
(***************************************************************************)
(* Theorems about MessageSync, for every number of messages, page size,    *)
(* bound on crashes and retries, and whatever kinds of failures happen.    *)
(***************************************************************************)
EXTENDS MessageSync, FiniteSetTheorems, TLAPS

(***************************************************************************)
(* A page of messages.get is a set of messages, and its size is a number.  *)
(***************************************************************************)
Queries == {"in", "out"}

LEMMA PageIsFinite ==
    ASSUME TypeOK, NEW q \in Queries
    PROVE  Page(q) \subseteq Created /\ Page(q) \subseteq Msg
           /\ Cardinality(Page(q)) \in Nat
<1>1. Page(q) \subseteq Created
  BY DEF Page, Selected
<1>2. Created \subseteq Msg
  BY BoundsAssumption DEF TypeOK, Created, Msg
<1>3. IsFiniteSet(Msg)
  BY BoundsAssumption, FS_Interval DEF Msg
<1>4. IsFiniteSet(Page(q))
  BY <1>1, <1>2, <1>3, FS_Subset
<1> QED BY <1>1, <1>2, <1>4, FS_CardinalityType

(***************************************************************************)
(* What a query selects is counted from the newest message on: an older    *)
(* message has a greater rank, and ranks fill an initial interval.         *)
(***************************************************************************)
LEMMA RanksFill ==
    ASSUME TypeOK, NEW q \in Queries
    PROVE  /\ IsFiniteSet(Selected(q)) /\ Cardinality(Selected(q)) \in Nat
           /\ \A m \in Selected(q) : Rank(m, q) \in 0..(Cardinality(Selected(q)) - 1)
           /\ \A m, k \in Selected(q) : m < k => Rank(k, q) < Rank(m, q)
           /\ \A r \in 0..(Cardinality(Selected(q)) - 1) : \E m \in Selected(q) : Rank(m, q) = r
<1> USE BoundsAssumption
<1> DEFINE S == Selected(q)
           n == Cardinality(S)
           Newer(m) == {k \in S : k > m}
<1>1. S \subseteq Nat /\ IsFiniteSet(S) /\ n \in Nat
  <2>1. S \subseteq 1..MaxMsg
    BY DEF Selected, Created, TypeOK
  <2>2. IsFiniteSet(1..MaxMsg)
    BY FS_Interval
  <2> QED BY <2>1, <2>2, FS_Subset, FS_CardinalityType
<1>2. ASSUME NEW m \in S
      PROVE  /\ IsFiniteSet(Newer(m)) /\ m \notin Newer(m) /\ Newer(m) \cup {m} \subseteq S
             /\ Rank(m, q) = Cardinality(Newer(m)) /\ Rank(m, q) \in Nat
             /\ Cardinality(Newer(m) \cup {m}) = Rank(m, q) + 1
  <2>1. Newer(m) \in SUBSET S /\ m \notin Newer(m)
    BY <1>1
  <2>2. IsFiniteSet(Newer(m)) /\ Cardinality(Newer(m)) \in Nat
    BY <1>1, <2>1, FS_Subset, FS_CardinalityType
  <2>3. Rank(m, q) = Cardinality(Newer(m))
    BY DEF Rank
  <2> QED BY <2>1, <2>2, <2>3, FS_AddElement
<1>3. ASSUME NEW m \in S, NEW k \in S, m < k PROVE Newer(k) \cup {k} \subseteq Newer(m)
  BY <1>1, <1>3
<1> HIDE DEF Newer, S, n
<1>4. \A m \in S : Rank(m, q) \in 0..(n - 1)
  <2> SUFFICES ASSUME NEW m \in S PROVE Rank(m, q) \in 0..(n - 1)
    OBVIOUS
  <2>1. Cardinality(Newer(m) \cup {m}) <= Cardinality(S)
    BY <1>1, <1>2, FS_Subset
  <2>2. Rank(m, q) \in Nat /\ Rank(m, q) + 1 <= n
    BY <1>2, <2>1 DEF n
  <2> QED BY <1>1, <2>2
<1>5. \A m, k \in S : m < k => Rank(k, q) < Rank(m, q)
  <2> SUFFICES ASSUME NEW m \in S, NEW k \in S, m < k PROVE Rank(k, q) < Rank(m, q)
    OBVIOUS
  <2>1. Cardinality(Newer(k) \cup {k}) <= Cardinality(Newer(m))
    BY <1>2, <1>3, FS_Subset
  <2>2. Rank(k, q) + 1 <= Rank(m, q) /\ Rank(k, q) \in Nat /\ Rank(m, q) \in Nat
    BY <1>2, <2>1
  <2> QED BY <2>2
<1>6. ASSUME NEW r \in 0..(n - 1) PROVE \E m \in S : Rank(m, q) = r
  <2> DEFINE f == [m \in S |-> Rank(m, q)]
  <2>1. \A m, k \in S : Rank(m, q) = Rank(k, q) => m = k
    <3> SUFFICES ASSUME NEW m \in S, NEW k \in S, m # k PROVE Rank(m, q) # Rank(k, q)
      OBVIOUS
    <3>1. m < k \/ k < m
      BY <1>1
    <3>2. Rank(m, q) \in Nat /\ Rank(k, q) \in Nat
      BY <1>2
    <3> QED BY <1>5, <3>1, <3>2
  <2>2. f \in Injection(S, 0..(n - 1))
    BY <1>4, <2>1 DEF Injection, IsInjective
  <2>3. IsFiniteSet(0..(n - 1)) /\ Cardinality(0..(n - 1)) = n
    <3>1. n \in Nat
      BY <1>1 DEF n
    <3>2. 0 \in Int /\ n - 1 \in Int /\ (0 > n - 1 => n = 0) /\ (n - 1) - 0 + 1 = n
      BY <3>1
    <3>3. IsFiniteSet(0..(n - 1)) /\ Cardinality(0..(n - 1)) = IF 0 > n - 1 THEN 0 ELSE (n - 1) - 0 + 1
      BY <3>2, FS_Interval
    <3> QED BY <3>1, <3>2, <3>3
  <2>4. f \in Surjection(S, 0..(n - 1))
    <3> HIDE DEF f
    <3>1. Cardinality(S) = Cardinality(0..(n - 1))
      BY <2>3 DEF n
    <3> QED BY <2>2, <2>3, <3>1, FS_Injection
  <2>5. \E m \in S : f[m] = r
    BY <2>4 DEF Surjection
  <2> QED BY <2>5
<1> QED BY <1>1, <1>4, <1>5, <1>6 DEF S, n

(***************************************************************************)
(* A page begins at the rank offset and has at most PageSize messages: a   *)
(* message of a rank from offset on is on the page, or behind it, and then *)
(* the query is not over.                                                  *)
(***************************************************************************)
LEMMA PageTakesNext ==
    ASSUME TypeOK, NEW q \in Queries, NEW m \in Selected(q), offset <= Rank(m, q),
           m \notin Page(q)
    PROVE  /\ Page(q) # {}
           /\ offset + Cardinality(Page(q)) <= Rank(m, q)
           /\ offset + Cardinality(Page(q)) < Cardinality(Selected(q))
<1> USE BoundsAssumption
<1> DEFINE S == Selected(q)
           P == Page(q)
<1>1. Rank(m, q) \in Nat /\ Rank(m, q) < Cardinality(S) /\ Cardinality(S) \in Nat
  BY RanksFill
<1>2. offset \in Nat /\ offset + PageSize <= Rank(m, q)
  BY <1>1 DEF Page, TypeOK
<1>3. P # {}
  <2>1. offset \in 0..(Cardinality(S) - 1)
    BY <1>1, <1>2
  <2>2. PICK k \in S : Rank(k, q) = offset
    BY <2>1, RanksFill
  <2> QED BY <1>2, <2>2 DEF Page
<1>4. Cardinality(P) <= PageSize
  <2> DEFINE f == [k \in P |-> Rank(k, q)]
             I == offset..(offset + PageSize - 1)
  <2>1. \A k \in P : k \in S /\ Rank(k, q) \in I
    BY <1>2, RanksFill DEF Page, Queries
  <2>2. \A j, k \in P : Rank(j, q) = Rank(k, q) => j = k
    <3> SUFFICES ASSUME NEW j \in P, NEW k \in P, j # k PROVE Rank(j, q) # Rank(k, q)
      OBVIOUS
    <3>1. j \in Nat /\ k \in Nat
      BY <2>1 DEF Selected, Created
    <3> QED BY <2>1, <3>1, RanksFill
  <2>3. f \in Injection(P, I)
    BY <2>1, <2>2 DEF Injection, IsInjective
  <2>4. IsFiniteSet(I) /\ Cardinality(I) = PageSize
    <3>1. offset \in Int /\ offset + PageSize - 1 \in Int /\ offset <= offset + PageSize - 1
      BY <1>2
    <3> QED BY <3>1, FS_Interval
  <2> QED BY <2>3, <2>4, FS_Injection
<1>5. Cardinality(P) \in Nat
  BY PageIsFinite
<1> QED BY <1>1, <1>2, <1>3, <1>4, <1>5

(***************************************************************************)
(* Every variable stays in the set it is declared for: ids within the ids  *)
(* the server has given, counters within their bounds.                     *)
(***************************************************************************)
THEOREM TypeCorrect == Spec => []TypeOK
<1>1. Init => TypeOK
  <2>1. NoBatch \in [Msg -> Nat] /\ [m \in Msg |-> "none"] \in [Msg -> AllDirs \cup {"none"}]
    BY DEF NoBatch
  <2> SUFFICES ASSUME Init PROVE TypeOK
    OBVIOUS
  <2>2. /\ events \in SUBSET Msg /\ gap \in SUBSET Msg /\ fetching \in SUBSET Msg
        /\ timers \in SUBSET Msg /\ awaiting \in SUBSET Msg /\ sent \in SUBSET Msg
        /\ late \in SUBSET Msg /\ excused \in SUBSET Msg /\ doubtful \in SUBSET Msg
    BY Zenon DEF Init
  <2>3. /\ top = 0 /\ phase = "off" /\ last = 0 /\ ignored = 0 /\ start = 0 /\ offset = 0
        /\ recent = FALSE /\ retries = 0 /\ saved = 0 /\ disk = 0 /\ crashes = 0
    BY Zenon DEF Init
  <2>4. batch = NoBatch /\ shown = NoBatch /\ dir = [m \in Msg |-> "none"]
    BY Zenon DEF Init
  <2>5. /\ top \in 0..MaxMsg /\ phase \in Phases /\ last \in 0..MaxMsg /\ ignored \in 0..MaxMsg
        /\ start \in 0..MaxMsg /\ offset \in Nat
        /\ retries \in 0..MaxRetries /\ saved \in 0..MaxMsg /\ disk \in 0..MaxMsg
        /\ crashes \in 0..MaxCrashes
    BY <2>3, BoundsAssumption DEF Phases
  <2>6. recent \in BOOLEAN
    BY <2>3, Zenon
  <2> QED BY <2>1, <2>2, <2>4, <2>5, <2>6, Zenon DEF TypeOK
<1>2. TypeOK /\ [Next]_vars => TypeOK'
  <2> SUFFICES ASSUME TypeOK, [Next]_vars PROVE TypeOK'
    OBVIOUS
  <2> USE BoundsAssumption DEF TypeOK
  <2>new. ASSUME NEW d \in AllDirs, NewMessage(d)
          PROVE  /\ top' \in 0..MaxMsg /\ dir' \in [Msg -> AllDirs \cup {"none"}]
                 /\ events' \in SUBSET Msg /\ top + 1 \in Msg
    BY <2>new DEF NewMessage, Msg
  <2>write. ASSUME NEW S \in SUBSET Msg PROVE WriteOnce(S) \in [Msg -> Nat]
    BY DEF WriteOnce
  <2>batch. WriteBatch \in [Msg -> Nat] /\ NoBatch \in [Msg -> Nat]
    BY DEF WriteBatch, NoBatch, Distinct
  <2>created. Created \subseteq Msg
    BY DEF Created, Msg
  <2>side. Overtaken \subseteq Msg
    BY DEF Overtaken
  <2>1. ASSUME NEW d \in AllDirs, Arrive(d) PROVE TypeOK'
    BY <2>1, <2>new DEF Arrive, sideVars, sendVars, accountVars, viewVars
  <2>2. CASE Login
    BY <2>2 DEF Login, Phases, CatchUp, serverVars, rangeVars, sideVars, sendVars, accountVars, viewVars
  <2>3. CASE LpServerAnswered
    BY <2>3 DEF LpServerAnswered, Phases, CatchUp, rangeVars, sideVars, sendVars, accountVars, viewVars
  <2>4. CASE PresenceAnswered
    BY <2>4, <2>batch DEF PresenceAnswered, StartRange, Phases, CatchUp, serverVars, sideVars, sendVars,
       accountVars, viewVars
  <2>5. CASE ChainFailed
    BY <2>5, <2>batch DEF ChainFailed, StopChain, StartRange, Phases, serverVars, sideVars, sendVars,
       accountVars, viewVars
  <2>6. CASE LastIdAnswered
    <3>1. ASSUME NEW n \in 0..top
          PROVE FirstTimeStart(n) \in 0..MaxMsg /\ 1..FirstTimeStart(n) \subseteq Msg
      BY DEF FirstTimeStart, Msg
    <3> QED BY <2>6, <3>1, <2>batch DEF LastIdAnswered, StartRange, Phases, CatchUp, serverVars, sideVars, sendVars,
       accountVars
  <2>7. CASE PageReceived
    <3>1. Cardinality(Page(phase)) \in Nat
      BY <2>7, PageIsFinite DEF PageReceived, Queries
    <3>2. batch' \in [Msg -> Nat]
      BY <2>7 DEF PageReceived
    <3>3. offset' \in Nat
      BY <2>7, <3>1 DEF PageReceived
    <3>4. phase' \in Phases
      BY <2>7 DEF PageReceived, Phases, CatchUp
    <3>5. doubtful' \in SUBSET Msg
      BY <2>7, PageIsFinite DEF PageReceived, Queries
    <3> QED BY <2>7, <3>2, <3>3, <3>4, <3>5 DEF PageReceived, serverVars, sideVars, sendVars,
       accountVars
  <2>fin. ASSUME FinishReceiving("poll")
          PROVE  /\ shown' \in [Msg -> Nat] /\ last' \in 0..MaxMsg /\ ignored' \in 0..MaxMsg
                 /\ saved' \in 0..MaxMsg /\ phase' \in Phases /\ start' \in 0..MaxMsg
                 /\ offset' \in Nat /\ batch' \in [Msg -> Nat] /\ gap' \in SUBSET Msg
                 /\ UNCHANGED <<disk, crashes, doubtful>>
    <3>1. Received \subseteq 0..MaxMsg
      BY DEF Received, Msg
    <3>2. shown' \in [Msg -> Nat] /\ batch' \in [Msg -> Nat] /\ phase' \in Phases
      BY <2>fin, <2>batch DEF FinishReceiving, Phases
    <3>3. last' \in 0..MaxMsg /\ ignored' \in 0..MaxMsg /\ saved' \in 0..MaxMsg
      BY <2>fin, <3>1 DEF FinishReceiving
    <3>4. start' = 0 /\ offset' = 0 /\ gap' = {} /\ UNCHANGED <<disk, crashes, doubtful>>
      BY <2>fin DEF FinishReceiving
    <3> QED BY <3>2, <3>3, <3>4
  <2>8. CASE RangeReceived
    <3>1. excused' \in SUBSET Msg
      BY <2>8 DEF RangeReceived
    <3> QED BY <2>8, <2>fin, <3>1 DEF RangeReceived, serverVars, sideVars, sendVars
  <2>9. CASE PageFailed
    <3>1. excused' \in SUBSET Msg
      <4>1. excused' = excused \cup {m \in Created : m > last /\ batch[m] = 0}
        BY <2>9, Zenon DEF PageFailed
      <4> QED BY <4>1, <2>created
    <3> QED BY <2>9, <2>fin, <3>1 DEF PageFailed, serverVars, sideVars, sendVars
  <2>10. CASE FinishFailed \/ GroupsStrange
    BY <2>10, <2>batch DEF FinishFailed, GroupsStrange, StopChain, StartRange, Phases, serverVars, sideVars, sendVars,
       accountVars, viewVars
  <2>11. CASE ChainDropped
    BY <2>11, <2>batch DEF ChainDropped, StopChain, StartRange, Phases, serverVars, sideVars, sendVars,
       accountVars, viewVars
  <2>12. ASSUME NEW m \in Msg, EventReceived(m) PROVE TypeOK'
    <3>1. last' \in 0..MaxMsg /\ saved' \in 0..MaxMsg
      BY <2>12 DEF EventReceived, AdvanceTo, Msg
    <3>2. /\ fetching' \in SUBSET Msg /\ timers' \in SUBSET Msg /\ sent' \in SUBSET Msg
          /\ shown' \in [Msg -> Nat]
      BY <2>12, <2>write DEF EventReceived, EventIncoming, EventOutgoing, sideVars
    <3> QED BY <2>12, <3>1, <3>2 DEF EventReceived, rangeVars
  <2>13. CASE PollExpired
    BY <2>13, <2>side DEF PollExpired, Phases, CatchUp, rangeVars, serverVars, sideVars, sendVars, accountVars
  <2>14. CASE PollFailed
    BY <2>14, <2>side DEF PollFailed, Phases, rangeVars, serverVars, sideVars, sendVars, accountVars
  <2>15. ASSUME NEW m \in Msg, FetchAnswered(m) PROVE TypeOK'
    BY <2>15, <2>write DEF FetchAnswered, chainVars, rangeVars, serverVars, sendVars, accountVars
  <2>16. ASSUME NEW m \in Msg, FetchFailed(m) PROVE TypeOK'
    BY <2>16 DEF FetchFailed, chainVars, rangeVars, serverVars, sendVars, accountVars
  <2>17. ASSUME NEW m \in Msg, TimerFires(m) PROVE TypeOK'
    BY <2>17, <2>write DEF TimerFires, chainVars, rangeVars, serverVars, accountVars
  <2>18. CASE SendMessage
    BY <2>18, <2>new DEF SendMessage, AllDirs, chainVars, rangeVars, serverVars, sideVars, accountVars, viewVars
  <2>19. CASE SendRepeated
    BY <2>19, <2>new DEF SendRepeated, AllDirs, chainVars, rangeVars, serverVars, sideVars, accountVars
  <2>20. ASSUME NEW m \in Msg, SendAnswered(m) PROVE TypeOK'
    BY <2>20 DEF SendAnswered, chainVars, rangeVars, serverVars, sideVars, accountVars, viewVars
  <2>21. ASSUME NEW m \in Msg, SendAnswerLost(m) PROVE TypeOK'
    BY <2>21 DEF SendAnswerLost, chainVars, rangeVars, serverVars, sideVars, accountVars
  <2>22. CASE Cool
    BY <2>22 DEF Cool, chainVars, rangeVars, serverVars, sideVars, accountVars, viewVars
  <2>over. ASSUME SessionOver
           PROVE  /\ top' \in 0..MaxMsg /\ dir' \in [Msg -> AllDirs \cup {"none"}]
                  /\ events' \in SUBSET Msg /\ phase' \in Phases /\ last' \in 0..MaxMsg
                  /\ ignored' \in 0..MaxMsg /\ start' \in 0..MaxMsg /\ offset' \in Nat
                  /\ batch' \in [Msg -> Nat] /\ gap' \in SUBSET Msg
                  /\ fetching' \in SUBSET Msg /\ timers' \in SUBSET Msg
                  /\ awaiting' \in SUBSET Msg /\ sent' \in SUBSET Msg /\ recent' \in BOOLEAN
                  /\ retries' \in 0..MaxRetries /\ late' \in SUBSET Msg
                  /\ doubtful' \in SUBSET Msg
    <3>1. doubtful' = doubtful \cup {m \in Created : dir[m] = "own"}
      BY <2>over, Zenon DEF SessionOver
    <3>2. doubtful' \in SUBSET Msg
      BY <3>1, <2>created
    <3>3. /\ phase' = "off" /\ last' = 0 /\ ignored' = 0 /\ start' = 0 /\ offset' = 0
          /\ batch' = NoBatch /\ recent' = FALSE /\ retries' = 0
          /\ UNCHANGED serverVars
      BY <2>over, Zenon DEF SessionOver
    <3>4. /\ gap' = {} /\ fetching' = {} /\ timers' = {} /\ awaiting' = {} /\ sent' = {}
          /\ late' = {}
      BY <2>over, Zenon DEF SessionOver
    <3>5. /\ gap' \in SUBSET Msg /\ fetching' \in SUBSET Msg /\ timers' \in SUBSET Msg
          /\ awaiting' \in SUBSET Msg /\ sent' \in SUBSET Msg /\ late' \in SUBSET Msg
      BY <3>4, Zenon
    <3>6. /\ phase' \in Phases /\ last' \in 0..MaxMsg /\ ignored' \in 0..MaxMsg
          /\ start' \in 0..MaxMsg /\ offset' \in Nat /\ retries' \in 0..MaxRetries
      BY <3>3 DEF Phases
    <3>8. recent' \in BOOLEAN
      BY <3>3, Zenon
    <3>7. /\ top' \in 0..MaxMsg /\ dir' \in [Msg -> AllDirs \cup {"none"}]
          /\ events' \in SUBSET Msg /\ batch' \in [Msg -> Nat]
      BY <3>3, <2>batch DEF serverVars
    <3> QED BY <3>2, <3>5, <3>6, <3>7, <3>8
  <2>23. ASSUME NEW done \in SUBSET fetching, Close(done) PROVE TypeOK'
    <3>1. shown' \in [Msg -> Nat]
      BY <2>23, <2>write DEF Close
    <3> QED BY <2>23, <2>over, <2>side, <3>1 DEF Close, accountVars
  <2>24. ASSUME NEW done \in SUBSET fetching, CloseFinishing(done) PROVE TypeOK'
    <3>1. shown' \in [Msg -> Nat]
      BY <2>24, <2>batch DEF CloseFinishing
    <3>2. saved' \in 0..MaxMsg
      BY <2>24 DEF CloseFinishing, Received, Msg
    <3> QED BY <2>24, <2>over, <3>1, <3>2 DEF CloseFinishing
  <2>25. CASE Persist
    BY <2>25 DEF Persist, chainVars, rangeVars, serverVars, sideVars, sendVars, viewVars
  <2>26. CASE Crash
    BY <2>26, <2>over, <2>side DEF Crash
  <2>27. CASE UNCHANGED vars
    BY <2>27 DEF vars, chainVars, rangeVars, serverVars, sideVars, sendVars, accountVars, viewVars
  <2> QED
    BY <2>1, <2>2, <2>3, <2>4, <2>5, <2>6, <2>7, <2>8, <2>9, <2>10, <2>11, <2>12, <2>13, <2>14,
       <2>15, <2>16, <2>17, <2>18, <2>19, <2>20, <2>21, <2>22, <2>23, <2>24, <2>25, <2>26, <2>27
       DEF Next
<1> QED BY <1>1, <1>2, PTL DEF Spec

-----------------------------------------------------------------------------
(***************************************************************************)
(* The new cursor of a range: the old one, or the greatest id received,    *)
(* which SyncInv places above the old one and among the created ids.       *)
(***************************************************************************)
LEMMA CursorAfterRange ==
    ASSUME TypeOK, SyncInv, phase # "off", FinishReceiving("poll")
    PROVE  /\ saved' = last' /\ ignored' = last'
           /\ saved' \in Nat /\ saved <= saved' /\ saved' <= top
           /\ \A m \in Received : saved < m /\ m <= saved'
<1> USE BoundsAssumption
<1>1. saved = last /\ saved <= top /\ saved \in Nat /\ top \in Nat
  BY DEF SyncInv, ChainInv, TypeOK
<1>2. \A m \in Received : m \in Nat /\ saved < m /\ m <= top
  BY DEF SyncInv, RangeInv, Received, Msg
<1>3. CASE Received = {} /\ ignored' = last /\ last' = last /\ saved' = saved
  BY <1>1, <1>3
<1>4. CASE \E newest \in Received :
             /\ \A m \in Received : m <= newest
             /\ last' = newest /\ ignored' = newest /\ saved' = newest
  BY <1>1, <1>2, <1>4
<1> QED BY <1>3, <1>4 DEF FinishReceiving

(***************************************************************************)
(* The new cursor after an event: the greater of the old one and the id.   *)
(***************************************************************************)
LEMMA CursorAfterEvent ==
    ASSUME TypeOK, SyncInv, phase = "poll", NEW m \in events, AdvanceTo(m)
    PROVE  /\ saved' = last'
           /\ saved' \in Nat /\ saved <= saved' /\ saved' <= top
           /\ m <= saved' /\ saved' \in {saved, m}
<1> USE BoundsAssumption
<1>1. saved = last /\ saved <= top /\ saved \in Nat /\ top \in Nat
  BY DEF SyncInv, ChainInv, TypeOK
<1>2. m \in Nat /\ m <= top
  BY DEF SyncInv, SideInv, TypeOK, Msg
<1> QED BY <1>1, <1>2 DEF AdvanceTo

(***************************************************************************)
(* The inductive invariant: what is being received lies above the cursor,  *)
(* what is fetched or timed below it.                                      *)
(***************************************************************************)
THEOREM SyncInvariance == Spec => []SyncInv
<1> USE BoundsAssumption
<1>1. Init => SyncInv
  <2> SUFFICES ASSUME Init PROVE SyncInv
    OBVIOUS
  <2>1. /\ phase = "off" /\ saved = 0 /\ disk = 0 /\ top = 0
    BY Zenon DEF Init
  <2>2. events = {} /\ fetching = {} /\ timers = {} /\ batch = NoBatch
    BY Zenon DEF Init
  <2>3. ChainInv
    BY <2>1 DEF ChainInv
  <2>4. RangeInv
    BY <2>2 DEF RangeInv, NoBatch
  <2>5. SideInv
    BY <2>2 DEF SideInv
  <2> QED BY <2>3, <2>4, <2>5 DEF SyncInv
<1>2. TypeOK /\ SyncInv /\ [Next]_vars => SyncInv'
  <2> SUFFICES ASSUME TypeOK, SyncInv, [Next]_vars PROVE SyncInv'
    OBVIOUS
  <2>none. \A m \in Msg : NoBatch[m] = 0
    BY DEF NoBatch
  \* Actions that touch none of the variables of the invariant.
  <2>same. ASSUME UNCHANGED <<top, events, phase, last, start, batch, saved, disk>>,
                  fetching' \subseteq fetching, timers' \subseteq timers
           PROVE  SyncInv'
    BY <2>same DEF SyncInv, ChainInv, RangeInv, SideInv
  \* Actions that create a message.
  <2>new. ASSUME NEW d \in AllDirs, NewMessage(d), UNCHANGED <<phase, last, start, batch, saved, disk>>,
                 UNCHANGED <<fetching, timers>>
          PROVE  SyncInv'
    <3>1. top' = top + 1 /\ top \in Nat /\ events' = events \cup {top + 1}
      BY <2>new DEF NewMessage, TypeOK
    <3>2. ChainInv' /\ RangeInv'
      BY <2>new, <3>1 DEF SyncInv, ChainInv, RangeInv, TypeOK, Msg
    <3>3. \A m \in fetching \cup timers : m \in Nat /\ m <= top
      BY DEF SyncInv, ChainInv, SideInv, TypeOK, Msg
    <3>4. SideInv'
      BY <2>new, <3>1, <3>3 DEF SyncInv, SideInv, TypeOK, Msg
    <3> QED BY <3>2, <3>4 DEF SyncInv
  \* The chain moves with an empty batch.
  <2>chain. ASSUME UNCHANGED <<top, fetching, timers, saved, disk>>, events' \subseteq events,
                   batch' = NoBatch, phase' # "off", last' = saved,
                   phase' = "lastid" => last' = 0,
                   phase' \in {"in", "out", "finish"} => start' >= last'
            PROVE  SyncInv'
    BY <2>chain, <2>none DEF SyncInv, ChainInv, RangeInv, SideInv
  <2>empty. ASSUME phase \notin {"in", "out", "finish"} PROVE batch = NoBatch
    <3>1. \A m \in Msg : batch[m] = 0
      BY <2>empty DEF SyncInv, RangeInv, TypeOK
    <3> QED BY <3>1 DEF TypeOK, NoBatch
  <2>1. ASSUME NEW d \in AllDirs, Arrive(d) PROVE SyncInv'
    BY <2>1, <2>new DEF Arrive, sideVars, accountVars
  <2>2. CASE Login
    BY <2>2, <2>chain, <2>empty DEF Login, rangeVars, serverVars, sideVars, accountVars
  <2>3. CASE LpServerAnswered
    BY <2>3, <2>chain, <2>empty DEF LpServerAnswered, rangeVars, sideVars, accountVars, SyncInv, ChainInv
  <2>4. CASE PresenceAnswered
    BY <2>4, <2>chain DEF PresenceAnswered, StartRange, serverVars, sideVars, accountVars,
       SyncInv, ChainInv, TypeOK
  <2>5. CASE ChainFailed
    BY <2>5, <2>chain DEF ChainFailed, StopChain, StartRange, serverVars, sideVars, accountVars, SyncInv, ChainInv
  <2>6. CASE LastIdAnswered
    <3>1. last = 0 /\ saved = 0
      BY <2>6 DEF LastIdAnswered, SyncInv, ChainInv
    <3>2. ASSUME NEW n \in 0..top PROVE FirstTimeStart(n) >= 0
      BY DEF FirstTimeStart, TypeOK
    <3> QED BY <2>6, <2>chain, <3>1, <3>2 DEF LastIdAnswered, StartRange, serverVars, sideVars, accountVars
  <2>7. CASE PageReceived
    <3>1. phase \in {"in", "out"} /\ phase' \in {"in", "out", "finish"}
      BY <2>7 DEF PageReceived
    <3>2. UNCHANGED <<last, start, top, events, fetching, timers, saved, disk>>
      BY <2>7 DEF PageReceived, serverVars, sideVars, accountVars
    <3>3. ChainInv'
      BY <3>1, <3>2 DEF SyncInv, ChainInv
    <3>4. ASSUME NEW m \in Page(phase) PROVE saved < m /\ m <= top
      BY <3>1, <3>4 DEF Page, Selected, Created, SyncInv, ChainInv, TypeOK
    <3>5. \A m \in Msg : batch'[m] > 0 => batch[m] > 0 \/ m \in Page(phase)
      BY <2>7 DEF PageReceived, TypeOK
    <3>6. RangeInv'
      BY <3>1, <3>2, <3>4, <3>5 DEF SyncInv, RangeInv
    <3>7. SideInv'
      BY <3>2 DEF SyncInv, SideInv
    <3> QED BY <3>3, <3>6, <3>7 DEF SyncInv
  <2>fin. ASSUME phase \in {"in", "out", "finish"}, FinishReceiving("poll"), UNCHANGED <<serverVars, sideVars>>
          PROVE  SyncInv'
    <3>1. /\ saved' = last' /\ saved <= saved' /\ saved' <= top /\ saved' \in Nat
      BY <2>fin, CursorAfterRange
    <3>2. phase' = "poll" /\ batch' = NoBatch /\ disk' = disk
      BY <2>fin DEF FinishReceiving
    <3>3. UNCHANGED <<top, events, fetching, timers>>
      BY <2>fin DEF serverVars, sideVars
    <3>4. ChainInv' /\ RangeInv'
      BY <3>1, <3>2, <3>3, <2>none DEF SyncInv, ChainInv, RangeInv
    <3>5. SideInv'
      BY <3>1, <3>3 DEF SyncInv, SideInv, TypeOK, Msg
    <3> QED BY <3>4, <3>5 DEF SyncInv
  <2>8. CASE RangeReceived
    BY <2>8, <2>fin DEF RangeReceived
  <2>9. CASE PageFailed
    BY <2>9, <2>fin DEF PageFailed
  <2>10. CASE FinishFailed \/ GroupsStrange
    BY <2>10, <2>chain
      DEF FinishFailed, GroupsStrange, StopChain, StartRange, serverVars, sideVars, accountVars, SyncInv, ChainInv
  <2>11. CASE ChainDropped
    BY <2>11, <2>chain DEF ChainDropped, StopChain, StartRange, CatchUp, serverVars, sideVars, accountVars,
       SyncInv, ChainInv
  <2>12. ASSUME NEW m \in Msg, EventReceived(m) PROVE SyncInv'
    <3>1. /\ phase = "poll" /\ phase' = "poll" /\ m \in events /\ events' = events \ {m}
          /\ UNCHANGED <<top, batch, start, disk>>
      BY <2>12 DEF EventReceived, rangeVars
    <3>2. CASE ToIgnore(m) /\ UNCHANGED <<last, saved, fetching, timers>>
      BY <3>1, <3>2, <2>chain, <2>empty DEF SyncInv, ChainInv
    <3>3. CASE AdvanceTo(m) /\ (EventIncoming(m) \/ EventOutgoing(m))
      <4>1. /\ saved' = last' /\ saved <= saved' /\ saved' <= top /\ saved' \in Nat /\ m <= saved'
        BY <3>1, <3>3, CursorAfterEvent
      <4>2. ChainInv'
        BY <3>1, <4>1 DEF SyncInv, ChainInv
      <4>3. RangeInv'
        BY <3>1, <2>empty, <2>none DEF RangeInv
      <4>4. m \notin fetching \cup timers
        BY <3>1 DEF SyncInv, SideInv
      <4>5. \A k \in fetching \cup timers : k <= saved' /\ k \notin events'
        BY <3>1, <4>1 DEF SyncInv, SideInv, TypeOK, Msg
      <4>6. \/ fetching' = fetching \cup {m} /\ timers' = timers
            \/ fetching' = fetching /\ timers' \subseteq timers \cup {m}
        BY <3>3 DEF EventIncoming, EventOutgoing
      <4>7. \A k \in events' : k <= top'
        BY <3>1 DEF SyncInv, SideInv
      <4>8. m \notin events'
        BY <3>1
      <4>9. \A k \in fetching : k \notin timers
        BY DEF SyncInv, SideInv
      <4>10. SideInv'
        BY <4>1, <4>4, <4>5, <4>6, <4>7, <4>8, <4>9 DEF SideInv
      <4> QED BY <4>2, <4>3, <4>10 DEF SyncInv
    <3> QED BY <2>12, <3>2, <3>3 DEF EventReceived, sideVars
  <2>13. CASE PollExpired
    BY <2>13, <2>chain, <2>empty DEF PollExpired, rangeVars, serverVars, sideVars, accountVars, SyncInv, ChainInv
  <2>14. CASE PollFailed
    BY <2>14, <2>chain, <2>empty DEF PollFailed, rangeVars, serverVars, sideVars, accountVars, SyncInv, ChainInv
  <2>15. ASSUME NEW m \in Msg, FetchAnswered(m) PROVE SyncInv'
    BY <2>15, <2>same DEF FetchAnswered, chainVars, rangeVars, serverVars, accountVars
  <2>16. ASSUME NEW m \in Msg, FetchFailed(m) PROVE SyncInv'
    BY <2>16, <2>same DEF FetchFailed, chainVars, rangeVars, serverVars, accountVars
  <2>17. ASSUME NEW m \in Msg, TimerFires(m) PROVE SyncInv'
    BY <2>17, <2>same DEF TimerFires, chainVars, rangeVars, serverVars, accountVars
  <2>18. CASE SendMessage
    BY <2>18, <2>same, <2>new DEF SendMessage, AllDirs, chainVars, rangeVars, serverVars, sideVars, accountVars
  <2>19. CASE SendRepeated
    BY <2>19, <2>same, <2>new DEF SendRepeated, AllDirs, chainVars, rangeVars, serverVars, sideVars, accountVars
  <2>20. ASSUME NEW m \in Msg, SendAnswered(m) PROVE SyncInv'
    BY <2>20, <2>same DEF SendAnswered, chainVars, rangeVars, serverVars, sideVars, accountVars
  <2>21. ASSUME NEW m \in Msg, SendAnswerLost(m) PROVE SyncInv'
    BY <2>21, <2>same DEF SendAnswerLost, chainVars, rangeVars, serverVars, sideVars, accountVars
  <2>22. CASE Cool
    BY <2>22, <2>same DEF Cool, chainVars, rangeVars, serverVars, sideVars, accountVars
  <2>over. ASSUME SessionOver, saved' <= top, disk' <= top PROVE SyncInv'
    <3>1. phase' = "off" /\ batch' = NoBatch /\ UNCHANGED <<top, events>>
      BY <2>over, Zenon DEF SessionOver, serverVars
    <3>2. fetching' = {} /\ timers' = {}
      BY <2>over, Zenon DEF SessionOver
    <3>3. ChainInv'
      BY <2>over, <3>1 DEF ChainInv
    <3>4. RangeInv'
      BY <3>1, <2>none DEF RangeInv
    <3>5. SideInv'
      BY <3>1, <3>2 DEF SyncInv, SideInv
    <3> QED BY <3>3, <3>4, <3>5 DEF SyncInv
  <2>23. ASSUME NEW done \in SUBSET fetching, Close(done) PROVE SyncInv'
    <3>1. SessionOver /\ saved' = saved /\ disk' = disk
      BY <2>23 DEF Close, accountVars
    <3> QED BY <3>1, <2>over DEF SyncInv, ChainInv
  <2>24. ASSUME NEW done \in SUBSET fetching, CloseFinishing(done) PROVE SyncInv'
    <3>1. SessionOver /\ disk' = disk
      BY <2>24 DEF CloseFinishing
    <3>2. \A m \in Received : m <= top
      BY DEF SyncInv, RangeInv, Received
    <3>3. saved' <= top
      BY <2>24, <3>2 DEF CloseFinishing, SyncInv, ChainInv
    <3> QED BY <3>1, <3>3, <2>over DEF SyncInv, ChainInv
  <2>25. CASE Persist
    BY <2>25 DEF Persist, chainVars, rangeVars, serverVars, sideVars, SyncInv, ChainInv, RangeInv, SideInv
  <2>26. CASE Crash
    <3>1. SessionOver /\ saved' = disk /\ disk' = disk
      BY <2>26 DEF Crash
    <3> QED BY <3>1, <2>over DEF SyncInv, ChainInv
  <2>27. CASE UNCHANGED vars
    BY <2>27, <2>same DEF vars, chainVars, rangeVars, serverVars, sideVars, accountVars
  <2> QED
    BY <2>1, <2>2, <2>3, <2>4, <2>5, <2>6, <2>7, <2>8, <2>9, <2>10, <2>11, <2>12, <2>13, <2>14,
       <2>15, <2>16, <2>17, <2>18, <2>19, <2>20, <2>21, <2>22, <2>23, <2>24, <2>25, <2>26, <2>27
       DEF Next
<1> QED BY <1>1, <1>2, TypeCorrect, PTL DEF Spec

-----------------------------------------------------------------------------
(***************************************************************************)
(* Every step of the plugin is a step of Mailbox or leaves it unchanged.   *)
(***************************************************************************)
LEMMA ProgressStep ==
    ASSUME TypeOK, NEW S \in SUBSET Open,
           shown' = WriteOnce(S), saved' \in saved..MaxMsg, UNCHANGED <<disk, crashes>>,
           Open' \subseteq Open \ S
    PROVE  Mail!Next
<1>1. Mail!Above(saved') \subseteq Open'
  BY DEF Mail!Above, Mail!Msg, Open, Msg
<1>2. shown' = [m \in Mail!Msg |-> IF m \in S THEN shown[m] + 1 ELSE shown[m]]
  BY DEF WriteOnce, Mail!Msg, Msg
<1>3. Mail!Progress(S)
  BY <1>1, <1>2 DEF Mail!Progress
<1> QED BY <1>3 DEF Mail!Next

LEMMA QuietStep ==
    ASSUME TypeOK, UNCHANGED <<shown, saved, disk, crashes>>, Open' \subseteq Open
    PROVE  Mail!Next
<1>1. shown' = WriteOnce({})
  BY DEF WriteOnce, TypeOK
<1>2. saved' \in saved..MaxMsg
  BY BoundsAssumption DEF TypeOK
<1>3. {} \in SUBSET Open /\ Open' \subseteq Open \ {}
  OBVIOUS
<1> QED BY <1>1, <1>2, <1>3, ProgressStep

LEMMA StepRefines ==
    ASSUME TypeOK, SyncInv, [Next]_vars
    PROVE  [Mail!Next]_(Mail!vars)
<1> USE BoundsAssumption
<1>types. saved \in Nat /\ saved <= MaxMsg /\ top \in Nat /\ top <= MaxMsg /\ saved <= top
  BY DEF TypeOK, SyncInv, ChainInv
<1>below. \A m \in fetching \cup timers : m \in Nat /\ m <= saved /\ m \notin events
  BY DEF SyncInv, SideInv, TypeOK, Msg
<1>apart. \A m \in fetching : m \notin timers
  BY DEF SyncInv, SideInv
\* Steps that write nothing and open nothing.
<1>quiet. ASSUME UNCHANGED <<shown, saved, disk, crashes>>,
                 fetching' \subseteq fetching, timers' \subseteq timers,
                 phase' = "poll" => phase = "poll" /\ ignored' = ignored /\ events' \subseteq events
          PROVE  Mail!Next
  <2>1. Open' \subseteq Open
    BY <1>quiet DEF Open, Pending
  <2> QED BY <1>quiet, <2>1, QuietStep
\* A new message lies above the cursor, so it was open before it was created.
<1>new. ASSUME NEW d \in AllDirs, NewMessage(d), UNCHANGED <<shown, saved, disk, crashes>>,
               UNCHANGED <<fetching, timers, phase, ignored>>
        PROVE  Mail!Next
  <2>1. events' = events \cup {top + 1} /\ top + 1 > saved /\ top + 1 \in Msg
    BY <1>new, <1>types DEF NewMessage, Msg
  <2>2. Open' \subseteq Open
    BY <1>new, <2>1 DEF Open, Pending
  <2> QED BY <1>new, <2>2, QuietStep
<1>1. ASSUME NEW d \in AllDirs, Arrive(d) PROVE Mail!Next
  BY <1>1, <1>new DEF Arrive, sideVars, accountVars, viewVars
<1>2. CASE Login
  BY <1>2, <1>quiet DEF Login, sideVars, accountVars, viewVars
<1>3. CASE LpServerAnswered
  BY <1>3, <1>quiet DEF LpServerAnswered, sideVars, accountVars, viewVars
<1>4. CASE PresenceAnswered
  BY <1>4, <1>quiet DEF PresenceAnswered, StartRange, sideVars, accountVars, viewVars
<1>5. CASE ChainFailed
  BY <1>5, <1>quiet DEF ChainFailed, StopChain, StartRange, sideVars, accountVars, viewVars
<1>6. CASE LastIdAnswered
  BY <1>6, <1>quiet DEF LastIdAnswered, StartRange, sideVars, accountVars
<1>7. CASE PageReceived
  BY <1>7, <1>quiet DEF PageReceived, sideVars, accountVars, viewVars
\* The batch lies above the cursor and not above the new one.
<1>fin. ASSUME phase \in {"in", "out", "finish"}, FinishReceiving("poll"), UNCHANGED <<serverVars, sideVars>>
        PROVE  Mail!Next
  <2>1. /\ saved' \in Nat /\ saved <= saved' /\ saved' <= top /\ ignored' = saved'
        /\ \A m \in Received : saved < m /\ m <= saved'
    BY <1>fin, CursorAfterRange
  <2>2. UNCHANGED <<events, fetching, timers, disk, crashes>>
    BY <1>fin DEF FinishReceiving, serverVars, sideVars
  <2>3. Received \in SUBSET Open
    BY <2>1 DEF Open, Received
  <2>4. shown' = WriteOnce(Received)
    <3>1. \A m \in Msg : shown[m] + Distinct(batch[m])
                         = IF m \in Received THEN shown[m] + 1 ELSE shown[m]
      BY DEF Distinct, Received, TypeOK
    <3>2. shown' = WriteBatch
      BY <1>fin DEF FinishReceiving
    <3> QED BY <3>1, <3>2 DEF WriteBatch, WriteOnce
  <2>5. Open' \subseteq Open \ Received
    <3>1. ASSUME NEW m \in Open' PROVE m \in Open /\ m \notin Received
      <4>1. CASE m \in fetching \cup timers
        BY <4>1, <2>1, <1>below, <1>types DEF Open, Pending
      <4>2. CASE m \in Msg /\ m > saved'
        BY <4>2, <2>1, <1>types DEF Open, Msg
      <4> QED BY <3>1, <4>1, <4>2, <2>1, <2>2 DEF Open, Pending, TypeOK
    <3> QED BY <3>1
  <2>6. saved' \in saved..MaxMsg
    BY <2>1, <1>types
  <2> QED BY <2>2, <2>3, <2>4, <2>5, <2>6, ProgressStep
<1>8. CASE RangeReceived
  BY <1>8, <1>fin DEF RangeReceived
<1>9. CASE PageFailed
  BY <1>9, <1>fin DEF PageFailed
<1>10. CASE FinishFailed \/ GroupsStrange
  BY <1>10, <1>quiet DEF FinishFailed, GroupsStrange, StopChain, StartRange, sideVars, accountVars, viewVars
<1>11. CASE ChainDropped
  BY <1>11, <1>quiet DEF ChainDropped, StopChain, StartRange, sideVars, accountVars, viewVars
<1>12. ASSUME NEW m \in Msg, EventReceived(m) PROVE Mail!Next
  <2>1. /\ phase = "poll" /\ phase' = "poll" /\ m \in events /\ events' = events \ {m}
        /\ UNCHANGED <<ignored, disk, crashes>>
    BY <1>12 DEF EventReceived
  <2>2. CASE ToIgnore(m) /\ UNCHANGED <<saved, fetching, timers, shown>>
    BY <2>1, <2>2, <1>quiet
  <2>3. CASE ~ToIgnore(m) /\ AdvanceTo(m) /\ (EventIncoming(m) \/ EventOutgoing(m))
    <3>1. /\ saved' \in Nat /\ saved <= saved' /\ saved' <= top /\ m <= saved'
      BY <2>1, <2>3, CursorAfterEvent
    <3>2. m \in Open
      BY <2>1, <2>3 DEF ToIgnore, Open, Pending, TypeOK, Msg
    <3>3. saved' \in saved..MaxMsg
      BY <3>1, <1>types
    <3>4. \A k \in Msg : k > saved' => k > saved /\ k # m
      BY <3>1, <1>types DEF Msg
    <3>5. CASE EventIncoming(m) \/ timers' = timers \cup {m}
      <4>1. /\ shown' = shown
            /\ fetching' \subseteq fetching \cup {m} /\ timers' \subseteq timers \cup {m}
        <5>1. m \notin timers
          BY <2>1, <1>below
        <5> QED BY <2>3, <3>5, <5>1 DEF EventIncoming, EventOutgoing
      <4>2. Open' \subseteq Open
        BY <2>1, <3>2, <3>4, <4>1 DEF Open, Pending
      <4>3. shown' = WriteOnce({}) /\ {} \in SUBSET Open /\ Open' \subseteq Open \ {}
        BY <4>1, <4>2 DEF WriteOnce, TypeOK
      <4> QED BY <2>1, <3>3, <4>3, ProgressStep
    <3>6. CASE EventOutgoing(m) /\ timers' = timers
      <4>1. fetching' = fetching
        BY <3>6 DEF EventOutgoing
      <4>2. Open' \subseteq Open \ {m}
        BY <2>1, <3>4, <3>6, <4>1, <1>below DEF Open, Pending
      <4>3. CASE shown' = shown
        <5>1. shown' = WriteOnce({}) /\ {} \in SUBSET Open /\ Open' \subseteq Open \ {}
          BY <4>3, <4>2 DEF WriteOnce, TypeOK
        <5> QED BY <2>1, <3>3, <5>1, ProgressStep
      <4>4. CASE shown' = WriteOnce({m})
        BY <2>1, <3>2, <3>3, <4>2, <4>4, ProgressStep
      <4> QED BY <3>6, <4>3, <4>4 DEF EventOutgoing
    <3> QED BY <2>3, <3>5, <3>6 DEF EventOutgoing
  <2> QED BY <1>12, <2>2, <2>3 DEF EventReceived, sideVars
<1>13. CASE PollExpired
  BY <1>13, <1>quiet DEF PollExpired, sideVars, accountVars
<1>14. CASE PollFailed
  BY <1>14, <1>quiet DEF PollFailed, sideVars, accountVars
\* A message that is written from a fetch or a timer is closed by that.
<1>write. ASSUME NEW m \in fetching \cup timers, shown' = WriteOnce({m}), UNCHANGED <<saved, disk, crashes>>,
                 UNCHANGED <<phase, ignored, events>>,
                 fetching' = fetching \ {m}, timers' = timers \ {m}
          PROVE  Mail!Next
  <2>1. m \in Open
    BY DEF Open, Pending
  <2>2. Open' \subseteq Open \ {m}
    BY <1>write, <1>below, <1>types DEF Open, Pending, Msg
  <2>3. saved' \in saved..MaxMsg
    BY <1>write, <1>types
  <2> QED BY <1>write, <2>1, <2>2, <2>3, ProgressStep
<1>15. ASSUME NEW m \in Msg, FetchAnswered(m) PROVE Mail!Next
  <2>1. m \in fetching /\ timers' = timers \ {m}
    BY <1>15, <1>apart DEF FetchAnswered
  <2> QED BY <1>15, <2>1, <1>write DEF FetchAnswered, chainVars, serverVars, accountVars
<1>16. ASSUME NEW m \in Msg, FetchFailed(m) PROVE Mail!Next
  BY <1>16, <1>quiet DEF FetchFailed, chainVars, serverVars, accountVars
<1>17. ASSUME NEW m \in Msg, TimerFires(m) PROVE Mail!Next
  <2>1. /\ m \in timers /\ timers' = timers \ {m} /\ fetching' = fetching \ {m}
        /\ UNCHANGED <<phase, ignored, events, saved, disk, crashes>>
    BY <1>17, <1>apart DEF TimerFires, chainVars, serverVars, accountVars
  <2>2. CASE shown' = shown
    BY <2>1, <2>2, <1>quiet
  <2>3. CASE shown' = WriteOnce({m})
    BY <2>1, <2>3, <1>write
  <2> QED BY <1>17, <2>2, <2>3 DEF TimerFires
<1>18. CASE SendMessage
  BY <1>18, <1>quiet, <1>new DEF SendMessage, AllDirs, chainVars, serverVars, sideVars, accountVars, viewVars
<1>19. CASE SendRepeated
  BY <1>19, <1>quiet, <1>new DEF SendRepeated, AllDirs, chainVars, serverVars, sideVars, accountVars
<1>20. ASSUME NEW m \in Msg, SendAnswered(m) PROVE Mail!Next
  BY <1>20, <1>quiet DEF SendAnswered, chainVars, serverVars, sideVars, accountVars, viewVars
<1>21. ASSUME NEW m \in Msg, SendAnswerLost(m) PROVE Mail!Next
  BY <1>21, <1>quiet DEF SendAnswerLost, chainVars, serverVars, sideVars, accountVars
<1>22. CASE Cool
  BY <1>22, <1>quiet DEF Cool, chainVars, serverVars, sideVars, accountVars, viewVars
\* Nothing is pending once the session is over.
<1>over. ASSUME SessionOver PROVE Open' = {m \in Msg : m > saved'}
  <2>1. fetching' = {} /\ timers' = {} /\ phase' = "off"
    BY <1>over, Zenon DEF SessionOver
  <2> QED BY <2>1 DEF Open, Pending
<1>23. ASSUME NEW done \in SUBSET fetching, Close(done) PROVE Mail!Next
  <2>1. SessionOver /\ shown' = WriteOnce(done) /\ UNCHANGED <<saved, disk, crashes>>
    BY <1>23 DEF Close, accountVars
  <2>2. done \in SUBSET Open
    BY DEF Open, Pending
  <2>3. Open' \subseteq Open \ done
    BY <2>1, <1>over, <1>below, <1>types DEF Open, Msg
  <2>4. saved' \in saved..MaxMsg
    BY <2>1, <1>types
  <2> QED BY <2>1, <2>2, <2>3, <2>4, ProgressStep
<1>24. ASSUME NEW done \in SUBSET fetching, CloseFinishing(done) PROVE Mail!Next
  <2>1. SessionOver /\ UNCHANGED <<disk, crashes>>
    BY <1>24 DEF CloseFinishing
  <2>2. \A m \in Received : m \in Nat /\ saved < m /\ m <= top
    BY DEF SyncInv, RangeInv, Received, Msg
  <2>3. saved' \in Nat /\ saved <= saved' /\ saved' <= top /\ \A m \in Received : m <= saved'
    BY <1>24, <2>2, <1>types DEF CloseFinishing
  <2>4. done \cup Received \in SUBSET Open
    BY <2>2 DEF Open, Pending, Received
  <2>5. Open' \subseteq Open \ (done \cup Received)
    BY <2>1, <2>3, <1>over, <1>below, <1>types DEF Open, Msg
  <2>6. shown' = WriteOnce(done \cup Received)
    <3>1. \A m \in Msg : (IF m \in done THEN shown[m] + 1 ELSE WriteBatch[m])
                         = IF m \in done \cup Received THEN shown[m] + 1 ELSE shown[m]
      BY DEF WriteBatch, Distinct, Received, TypeOK
    <3> QED BY <1>24, <3>1 DEF CloseFinishing, WriteOnce
  <2>7. saved' \in saved..MaxMsg
    BY <2>3, <1>types
  <2> QED BY <2>1, <2>4, <2>5, <2>6, <2>7, ProgressStep
<1>25. CASE Persist
  <2>1. UNCHANGED <<fetching, timers, events, phase, ignored, saved, shown, crashes>> /\ disk' = saved
    BY <1>25 DEF Persist, chainVars, serverVars, sideVars, viewVars
  <2>2. Open' = Open
    BY <2>1 DEF Open, Pending
  <2> QED BY <2>1, <2>2 DEF Mail!Next, Mail!Persist
<1>26. CASE Crash
  <2>1. SessionOver /\ saved' = disk /\ crashes' = crashes + 1 /\ UNCHANGED <<disk, shown>>
    BY <1>26 DEF Crash
  <2>2. Open' = Mail!Above(disk)
    BY <2>1, <1>over DEF Mail!Above, Mail!Msg, Msg
  <2> QED BY <2>1, <2>2 DEF Mail!Next, Mail!Crash
<1>27. CASE UNCHANGED vars
  <2>1. UNCHANGED <<fetching, timers, events, phase, ignored, saved, shown, crashes, disk>>
    BY <1>27 DEF vars, chainVars, serverVars, sideVars, accountVars, viewVars
  <2>2. Open' = Open
    BY <2>1 DEF Open, Pending
  <2> QED BY <2>1, <2>2 DEF Mail!vars
<1> QED
  BY <1>1, <1>2, <1>3, <1>4, <1>5, <1>6, <1>7, <1>8, <1>9, <1>10, <1>11, <1>12, <1>13, <1>14,
     <1>15, <1>16, <1>17, <1>18, <1>19, <1>20, <1>21, <1>22, <1>23, <1>24, <1>25, <1>26, <1>27
     DEF Next

(***************************************************************************)
(* The receiving side of the plugin implements Mailbox: catching up, Long  *)
(* Poll events, fetches, timers, closing and crashing write a message only *)
(* while it is open and never leave one above the cursor closed.           *)
(***************************************************************************)
THEOREM Refinement == Spec => ImplementsMailbox
<1>1. Init => Mail!Init
  <2>1. ASSUME Init PROVE Open = Msg
    BY <2>1, BoundsAssumption DEF Init, Open, Pending, Msg
  <2>2. ASSUME Init PROVE shown = [m \in Mail!Msg |-> 0] /\ saved = 0 /\ disk = 0 /\ crashes = 0
    BY <2>2 DEF Init, NoBatch, Msg, Mail!Msg
  <2> QED BY <2>1, <2>2 DEF Mail!Init, Msg, Mail!Msg
<1>2. TypeOK /\ SyncInv /\ [Next]_vars => [Mail!Next]_(Mail!vars)
  BY StepRefines
<1> QED BY <1>1, <1>2, TypeCorrect, SyncInvariance, PTL DEF Spec, ImplementsMailbox, Mail!Spec

(***************************************************************************)
(* Why no message is written twice: a message that is open has been        *)
(* written less often than the crashes allow, and writing it closes it.    *)
(***************************************************************************)
OnceInv ==
    \A m \in Msg : /\ shown[m] <= crashes + 1
                   /\ m \in Open => shown[m] <= crashes

LEMMA OnceStep ==
    ASSUME TypeOK, TypeOK', OnceInv, [Mail!Next]_(Mail!vars)
    PROVE  OnceInv'
<1>types. crashes \in Nat /\ crashes' \in Nat /\ \A m \in Msg : shown[m] \in Nat /\ shown'[m] \in Nat
  BY BoundsAssumption DEF TypeOK
<1>1. ASSUME NEW S \in SUBSET Open, Mail!Progress(S) PROVE OnceInv'
  <2>1. \A m \in Msg : shown'[m] = IF m \in S THEN shown[m] + 1 ELSE shown[m]
    BY <1>1 DEF Mail!Progress, Mail!Msg, Msg
  <2>2. Open' \subseteq Open \ S /\ crashes' = crashes
    BY <1>1 DEF Mail!Progress
  <2> QED BY <2>1, <2>2, <1>types DEF OnceInv
<1>2. CASE Mail!Persist
  BY <1>2 DEF Mail!Persist, OnceInv
<1>3. CASE Mail!Crash
  <2>1. shown' = shown /\ crashes' = crashes + 1
    BY <1>3 DEF Mail!Crash
  <2> QED BY <2>1, <1>types DEF OnceInv
<1>4. CASE UNCHANGED Mail!vars
  BY <1>4 DEF Mail!vars, OnceInv
<1> QED BY <1>1, <1>2, <1>3, <1>4 DEF Mail!Next

(***************************************************************************)
(* finish_receiving, the events, the getById fetches and the 30 s checks   *)
(* together write every message at most once between two crashes.          *)
(***************************************************************************)
THEOREM WrittenOnce == Spec => []AtMostOnce
<1>1. Init => OnceInv
  BY BoundsAssumption DEF Init, OnceInv, NoBatch
<1>2. TypeOK /\ TypeOK' /\ SyncInv /\ OnceInv /\ [Next]_vars => OnceInv'
  BY StepRefines, OnceStep
<1>3. OnceInv => AtMostOnce
  BY DEF OnceInv, AtMostOnce
<1> QED BY <1>1, <1>2, <1>3, TypeCorrect, SyncInvariance, PTL DEF Spec

(***************************************************************************)
(* last_msg_id, as save_last_msg_id stores it, goes back in a crash only.  *)
(***************************************************************************)
THEOREM CursorForward == Spec => CursorNeverMovesBack
<1>1. ASSUME TypeOK, [Mail!Next]_(Mail!vars), saved' < saved PROVE crashes' > crashes
  <2>1. saved \in Nat /\ crashes \in Nat
    BY <1>1 DEF TypeOK
  <2>2. ~(saved' \in saved..MaxMsg)
    BY <1>1, <2>1, BoundsAssumption
  <2>3. saved' # saved
    BY <1>1, <2>1
  <2>4. Mail!Crash
    BY <1>1, <2>2, <2>3 DEF Mail!Next, Mail!Progress, Mail!Persist, Mail!vars
  <2> QED BY <2>4, <2>1 DEF Mail!Crash
<1>2. TypeOK /\ SyncInv /\ [Next]_vars => (saved' < saved => crashes' > crashes)
  BY <1>1, StepRefines
<1>3. TypeOK /\ SyncInv /\ [Next]_vars => [saved' < saved => crashes' > crashes]_vars
  BY <1>2
<1> QED BY <1>3, TypeCorrect, SyncInvariance, PTL DEF Spec, CursorNeverMovesBack

-----------------------------------------------------------------------------
(***************************************************************************)
(* Why no message of somebody else is lost without an excuse.  While a     *)
(* range is received, every message it should contain has been received,   *)
(* or is still ahead of the pages, or came too late for its query; those   *)
(* that came too late still have their event, which polling will ignore    *)
(* when the range contained a newer message, and then gap accounts for it. *)
(***************************************************************************)
Ranges == {"in", "out", "finish"}

AfterAll(m) == m \in events /\ \A k \in Received : k < m

IncomingAsked(m) ==
    \/ m \in Received \cup gap
    \/ phase = "in" /\ offset <= Rank(m, "in")
    \/ phase = "finish" /\ AfterAll(m)
OutgoingAsked(m) ==
    \/ phase = "in"
    \/ m \in Received
    \/ phase = "out" /\ offset <= Rank(m, "out")
    \/ AfterAll(m)

QueryInv ==
    phase \in Ranges =>
        /\ \A m \in Msg : last < m /\ m <= start => m \in excused
        /\ gap \subseteq events
        /\ \A m \in Selected("in") : IncomingAsked(m)
        /\ \A m \in Selected("out") : OutgoingAsked(m)

OwnInv == \A m \in sent \cup awaiting : m \in Created /\ dir[m] = "own"

Settled(m) == dir[m] # "own" => shown[m] > 0 \/ OnItsWay(m) \/ m \in excused

LossInv ==
    /\ disk <= saved
    /\ phase = "poll" => ignored <= last
    /\ OwnInv
    /\ \A m \in Created : Settled(m)

(***************************************************************************)
(* The queries of a range depend on the server and on the start alone.     *)
(***************************************************************************)
LEMMA SameQuery ==
    ASSUME UNCHANGED <<top, dir, start>>, NEW q \in Queries
    PROVE  Selected(q)' = Selected(q) /\ \A m : Rank(m, q)' = Rank(m, q)
<1>1. Selected(q)' = Selected(q)
  BY DEF Selected, Created
<1> QED BY <1>1 DEF Rank

(***************************************************************************)
(* Ranks are numbers, before a step and after it.                          *)
(***************************************************************************)
LEMMA RankType ==
    ASSUME TypeOK, NEW q \in Queries
    PROVE  \A m : Rank(m, q) \in Nat
<1> SUFFICES ASSUME NEW m PROVE Cardinality({k \in Selected(q) : k > m}) \in Nat
  BY DEF Rank
<1>1. {k \in Selected(q) : k > m} \subseteq Selected(q)
  OBVIOUS
<1> QED BY <1>1, RanksFill, FS_Subset, FS_CardinalityType

LEMMA RankTypeNext ==
    ASSUME TypeOK', NEW q \in Queries
    PROVE  \A m : Rank(m, q)' \in Nat
<1> USE BoundsAssumption
<1>1. Selected(q)' \subseteq Msg /\ IsFiniteSet(Msg)
  <2>1. Selected(q)' \subseteq 1..MaxMsg
    BY DEF Selected, Created, TypeOK
  <2> QED BY <2>1, FS_Interval DEF Msg
<1> SUFFICES ASSUME NEW m PROVE Cardinality({k \in Selected(q)' : k > m}) \in Nat
  BY DEF Rank
<1>2. {k \in Selected(q)' : k > m} \subseteq Msg
  BY <1>1
<1> QED BY <1>1, <1>2, FS_Subset, FS_CardinalityType

(***************************************************************************)
(* A new message is the newest of its query, and pushes the others back.   *)
(***************************************************************************)
LEMMA QueryAfterArrival ==
    ASSUME TypeOK, TypeOK', NEW d \in AllDirs, NewMessage(d), UNCHANGED start, NEW q \in Queries
    PROVE  /\ Selected(q) \subseteq Selected(q)'
           /\ \A m \in Selected(q)' \ Selected(q) : m = top + 1 /\ (d = "in" <=> q = "in")
           /\ \A m \in Selected(q) : Rank(m, q) <= Rank(m, q)'
<1> USE BoundsAssumption
<1>1. /\ top \in Nat /\ top' = top + 1 /\ top + 1 \in Msg
      /\ \A m \in Msg : dir'[m] = IF m = top + 1 THEN d ELSE dir[m]
  BY DEF NewMessage, TypeOK, Msg
<1>2. Created \subseteq Msg /\ Created' = Created \cup {top + 1} /\ top + 1 \notin Created
  <2>1. Created \subseteq Msg
    BY <1>1 DEF Created, Msg, TypeOK
  <2>2. 1..(top + 1) = (1..top) \cup {top + 1} /\ top + 1 \notin 1..top
    BY <1>1
  <2> QED BY <1>1, <2>1, <2>2 DEF Created
<1>3. Selected(q) \subseteq Selected(q)'
  BY <1>1, <1>2 DEF Selected
<1>4. \A m \in Selected(q)' \ Selected(q) : m = top + 1 /\ (d = "in" <=> q = "in")
  BY <1>1, <1>2 DEF Selected
<1>5. ASSUME NEW m \in Selected(q) PROVE Rank(m, q) <= Rank(m, q)'
  <2> DEFINE N == {k \in Selected(q) : k > m}
             N1 == {k \in Selected(q)' : k > m}
  <2>1. N \subseteq N1
    BY <1>3
  <2>2. IsFiniteSet(N1)
    <3>1. N1 \subseteq Msg
      BY <1>1, <1>2 DEF Selected
    <3>2. IsFiniteSet(Msg)
      BY FS_Interval DEF Msg
    <3> QED BY <3>1, <3>2, FS_Subset
  <2>3. Cardinality(N) <= Cardinality(N1)
    BY <2>1, <2>2, FS_Subset
  <2> QED BY <2>3 DEF Rank
<1> QED BY <1>3, <1>4, <1>5

(***************************************************************************)
(* The invariant of the queries when a message is created: it is newer     *)
(* than everything received, and pushes what is ahead of the pages back.   *)
(***************************************************************************)
LEMMA QueryArrival ==
    ASSUME TypeOK, TypeOK', SyncInv, QueryInv, NEW d \in AllDirs, NewMessage(d),
           UNCHANGED <<phase, last, start, offset, batch, excused>>,
           gap' = IF d = "in" /\ ((phase = "in" /\ offset > 0) \/ phase = "out")
                  THEN gap \cup {top + 1} ELSE gap
    PROVE  QueryInv'
<1> USE BoundsAssumption DEF Queries
<1> SUFFICES ASSUME phase \in Ranges PROVE QueryInv'
  BY DEF QueryInv
<1>1. events' = events \cup {top + 1} /\ top \in Nat
  BY DEF NewMessage, TypeOK
<1>2. Received' = Received /\ \A k \in Received : k < top + 1
  BY <1>1 DEF Received, SyncInv, RangeInv, Msg
<1>3. \A m : AfterAll(m) => AfterAll(m)'
  BY <1>1, <1>2 DEF AfterAll
<1>4. \A m : m = top + 1 => AfterAll(m)'
  BY <1>1, <1>2 DEF AfterAll
<1>5. ASSUME NEW m \in Selected("in")' PROVE IncomingAsked(m)'
  <2>1. Rank(m, "in") \in Nat /\ Rank(m, "in")' \in Nat /\ offset \in Nat
    BY RankType, RankTypeNext DEF TypeOK
  <2>2. CASE m \in Selected("in")
    <3>1. IncomingAsked(m)
      BY <2>2 DEF QueryInv
    <3>2. Rank(m, "in") <= Rank(m, "in")'
      BY <2>2, QueryAfterArrival
    <3> QED BY <1>2, <1>3, <2>1, <3>1, <3>2 DEF IncomingAsked
  <2>3. CASE m \notin Selected("in")
    <3>1. m = top + 1 /\ d = "in"
      BY <1>5, <2>3, QueryAfterArrival
    <3>2. CASE phase = "in"
      BY <2>1, <3>1, <3>2 DEF IncomingAsked
    <3>3. CASE phase = "out"
      BY <3>1, <3>3 DEF IncomingAsked
    <3>4. CASE phase = "finish"
      BY <1>4, <3>1, <3>4 DEF IncomingAsked
    <3> QED BY <3>2, <3>3, <3>4 DEF Ranges
  <2> QED BY <2>2, <2>3
<1>6. ASSUME NEW m \in Selected("out")' PROVE OutgoingAsked(m)'
  <2>1. Rank(m, "out") \in Nat /\ Rank(m, "out")' \in Nat /\ offset \in Nat
    BY RankType, RankTypeNext DEF TypeOK
  <2>2. CASE m \in Selected("out")
    <3>1. OutgoingAsked(m)
      BY <2>2 DEF QueryInv
    <3>2. Rank(m, "out") <= Rank(m, "out")'
      BY <2>2, QueryAfterArrival
    <3> QED BY <1>2, <1>3, <2>1, <3>1, <3>2 DEF OutgoingAsked
  <2>3. CASE m \notin Selected("out")
    <3>1. m = top + 1
      BY <1>6, <2>3, QueryAfterArrival
    <3> QED BY <1>4, <3>1 DEF OutgoingAsked
  <2> QED BY <2>2, <2>3
<1>7. \A m \in Msg : last' < m /\ m <= start' => m \in excused'
  BY DEF QueryInv
<1>8. gap' \subseteq events'
  BY <1>1 DEF QueryInv
<1> QED BY <1>5, <1>6, <1>7, <1>8 DEF QueryInv

(***************************************************************************)
(* What PageReceived does to one of the two queries.                       *)
(***************************************************************************)
LEMMA PageOf ==
    ASSUME TypeOK, PageReceived, NEW q \in Queries, phase = q
    PROVE  /\ Received' = Received \cup Page(q)
           /\ \/ phase' = phase /\ offset' = offset + Cardinality(Page(q))
              \/ phase' = (IF q = "out" THEN "finish" ELSE "out") /\ offset' = 0
           /\ \A m \in Selected(q) :
                offset <= Rank(m, q) =>
                    m \in Received' \/ (phase' = phase /\ offset' <= Rank(m, q))
<1> DEFINE next == offset + Cardinality(Page(q))
           Over == next >= Cardinality(Selected(q)) \/ Page(q) = {}
<1>2. /\ batch' = [m \in Msg |-> IF m \in Page(q) THEN batch[m] + 1 ELSE batch[m]]
      /\ IF Over THEN phase' = (IF q = "out" THEN "finish" ELSE "out") /\ offset' = 0
         ELSE offset' = next /\ phase' = phase
  BY DEF PageReceived
<1>3. Received' = Received \cup Page(q)
  <2>1. Page(q) \subseteq Msg
    BY PageIsFinite
  <2> QED BY <1>2, <2>1 DEF Received, TypeOK
<1>4. ASSUME NEW m \in Selected(q), offset <= Rank(m, q), m \notin Page(q)
      PROVE  ~Over /\ next <= Rank(m, q)
  <2>1. Cardinality(Page(q)) \in Nat /\ Cardinality(Selected(q)) \in Nat /\ offset \in Nat
    BY PageIsFinite, RanksFill DEF TypeOK
  <2> QED BY <1>4, <2>1, PageTakesNext
<1> HIDE DEF next, Over
<1>5. ASSUME NEW m \in Selected(q), offset <= Rank(m, q)
      PROVE  m \in Received' \/ (phase' = phase /\ offset' <= Rank(m, q))
  BY <1>2, <1>3, <1>4, <1>5
<1> QED BY <1>2, <1>3, <1>5 DEF next

(***************************************************************************)
(* The invariant of the queries when a page is received.  A message that   *)
(* came after all that is received stays so: what pages still bring is     *)
(* older.                                                                  *)
(***************************************************************************)
LEMMA QueryPage ==
    ASSUME TypeOK, TypeOK', SyncInv, QueryInv, PageReceived
    PROVE  QueryInv'
<1> USE BoundsAssumption DEF Queries
<1>1. phase \in {"in", "out"} /\ UNCHANGED <<top, dir, events, last, start, gap, excused>>
  BY DEF PageReceived, serverVars
<1>2. \A q \in Queries : Selected(q)' = Selected(q) /\ \A m : Rank(m, q)' = Rank(m, q)
  BY <1>1, SameQuery
<1>3. offset \in Nat /\ \A m : Rank(m, "in") \in Nat /\ Rank(m, "out") \in Nat
  BY RankType DEF TypeOK
<1>4. CASE phase = "in"
  <2>1. /\ Received' = Received \cup Page("in")
        /\ phase' = "in" \/ (phase' = "out" /\ offset' = 0)
        /\ \A m \in Selected("in") : offset <= Rank(m, "in") =>
              m \in Received' \/ (phase' = phase /\ offset' <= Rank(m, "in"))
    BY <1>4, PageOf
  <2>2. \A m \in Selected("in") : IncomingAsked(m)'
    BY <1>1, <1>2, <1>4, <2>1 DEF IncomingAsked, QueryInv, Ranges
  <2>3. \A m \in Selected("out") : OutgoingAsked(m)'
    BY <1>2, <1>3, <2>1 DEF OutgoingAsked
  <2> QED BY <1>1, <1>2, <1>4, <2>2, <2>3 DEF QueryInv, Ranges
<1>5. CASE phase = "out"
  <2>1. /\ Received' = Received \cup Page("out")
        /\ phase' \in {"out", "finish"}
        /\ \A m \in Selected("out") : offset <= Rank(m, "out") =>
              m \in Received' \/ (phase' = phase /\ offset' <= Rank(m, "out"))
    BY <1>5, PageOf
  <2>2. \A m \in Selected("in") : IncomingAsked(m)'
    BY <1>1, <1>5, <2>1 DEF IncomingAsked, QueryInv, Ranges
  <2>3. ASSUME NEW m \in Selected("out") PROVE OutgoingAsked(m)'
    <3>1. OutgoingAsked(m)
      BY <1>5 DEF QueryInv, Ranges
    <3>2. CASE m \in Received
      BY <2>1, <3>2 DEF OutgoingAsked
    <3>3. CASE offset <= Rank(m, "out")
      BY <1>2, <1>5, <2>1, <3>3 DEF OutgoingAsked
    <3>4. CASE AfterAll(m) /\ ~(offset <= Rank(m, "out"))
      <4>1. ASSUME NEW k \in Page("out") PROVE k < m
        <5>1. k \in Selected("out") /\ offset <= Rank(k, "out")
          BY DEF Page
        <5>2. k \in Nat /\ m \in Nat
          BY <5>1 DEF Selected, Created
        <5>3. Rank(m, "out") < Rank(k, "out")
          BY <1>3, <3>4, <5>1
        <5>4. ~(m > k) => k = m \/ m < k
          BY <5>2
        <5>5. m < k => Rank(k, "out") < Rank(m, "out")
          BY <5>1, RanksFill
        <5>6. m # k /\ ~(m < k)
          BY <1>3, <5>3, <5>5
        <5> QED BY <5>2, <5>6
      <4> QED BY <1>1, <2>1, <3>4, <4>1 DEF AfterAll, OutgoingAsked
    <3> QED BY <1>5, <3>1, <3>2, <3>3, <3>4 DEF OutgoingAsked
  <2> QED BY <1>1, <1>2, <1>5, <2>2, <2>3 DEF QueryInv, Ranges
<1> QED BY <1>1, <1>4, <1>5

LEMMA QueryStep ==
    ASSUME TypeOK, TypeOK', SyncInv, QueryInv, [Next]_vars
    PROVE  QueryInv'
<1> USE BoundsAssumption
\* Steps that leave the range, the server and the events alone.
<1>same. ASSUME UNCHANGED <<top, dir, events, phase, last, start, offset, batch, gap>>,
                excused \subseteq excused'
         PROVE  QueryInv'
  <2>1. \A q \in Queries : Selected(q)' = Selected(q) /\ \A m : Rank(m, q)' = Rank(m, q)
    BY <1>same, SameQuery
  <2>2. Received' = Received
    BY <1>same DEF Received
  <2>3. \A m : AfterAll(m)' = AfterAll(m) /\ IncomingAsked(m)' = IncomingAsked(m)
               /\ OutgoingAsked(m)' = OutgoingAsked(m)
    BY <1>same, <2>1, <2>2 DEF AfterAll, IncomingAsked, OutgoingAsked, Queries
  <2> QED BY <1>same, <2>1, <2>3 DEF QueryInv, Queries
\* Steps after which no range is being received.
<1>leave. ASSUME phase' \notin Ranges PROVE QueryInv'
  BY <1>leave DEF QueryInv
\* A range begins: nothing is received, every rank is ahead.
<1>begin. ASSUME phase' = "in", offset' = 0, gap' = {},
                 \A m \in Msg : last' < m /\ m <= start' => m \in excused'
          PROVE  QueryInv'
  <2>1. \A m : Rank(m, "in")' \in Nat
    BY RankTypeNext DEF Queries
  <2>2. \A m : IncomingAsked(m)'
    BY <1>begin, <2>1 DEF IncomingAsked
  <2>3. \A m : OutgoingAsked(m)'
    BY <1>begin DEF OutgoingAsked
  <2> QED BY <1>begin, <2>2, <2>3 DEF QueryInv
<1>1. ASSUME NEW d \in AllDirs, Arrive(d) PROVE QueryInv'
  BY <1>1, QueryArrival DEF Arrive, viewVars
<1>2. CASE Login
  BY <1>2, <1>leave DEF Login, Ranges
<1>3. CASE LpServerAnswered
  BY <1>3, <1>leave DEF LpServerAnswered, Ranges
<1>4. CASE PresenceAnswered
  <2>1. last' = last /\ last \in Nat
    BY <1>4 DEF PresenceAnswered, StartRange, TypeOK
  <2>2. CASE StartRange("lastid", 0)
    BY <2>2, <1>leave DEF StartRange, Ranges
  <2>3. CASE StartRange("in", last)
    BY <2>1, <2>3, <1>begin DEF StartRange, Msg
  <2> QED BY <1>4, <2>2, <2>3 DEF PresenceAnswered
<1>5. CASE ChainFailed
  BY <1>5, <1>leave DEF ChainFailed, StopChain, StartRange, Ranges
<1>6. CASE LastIdAnswered
  <2>1. PICK n \in 0..top : /\ StartRange("in", FirstTimeStart(n))
                            /\ excused' = excused \cup 1..FirstTimeStart(n)
    BY <1>6 DEF LastIdAnswered
  <2>2. FirstTimeStart(n) \in Nat
    BY DEF FirstTimeStart, TypeOK
  <2>3. /\ phase' = "in" /\ offset' = 0 /\ gap' = {} /\ last' = last
        /\ start' = FirstTimeStart(n) /\ last \in Nat
    BY <2>1 DEF StartRange, TypeOK
  <2>4. \A m \in Msg : m <= start' => m \in excused'
    BY <2>1, <2>2, <2>3 DEF Msg
  <2> QED BY <2>3, <2>4, <1>begin
<1>7. CASE PageReceived
  BY <1>7, QueryPage
<1>8. CASE RangeReceived
  BY <1>8, <1>leave DEF RangeReceived, FinishReceiving, Ranges
<1>9. CASE PageFailed
  BY <1>9, <1>leave DEF PageFailed, FinishReceiving, Ranges
<1>10. CASE FinishFailed \/ GroupsStrange
  BY <1>10, <1>leave DEF FinishFailed, GroupsStrange, StopChain, StartRange, Ranges
<1>11. CASE ChainDropped
  BY <1>11, <1>leave DEF ChainDropped, StopChain, StartRange, Ranges
<1>12. ASSUME NEW m \in Msg, EventReceived(m) PROVE QueryInv'
  BY <1>12, <1>leave DEF EventReceived, Ranges
<1>13. CASE PollExpired
  BY <1>13, <1>leave DEF PollExpired, Ranges
<1>14. CASE PollFailed
  BY <1>14, <1>leave DEF PollFailed, Ranges
<1>15. ASSUME NEW m \in Msg, FetchAnswered(m) PROVE QueryInv'
  BY <1>15, <1>same DEF FetchAnswered, serverVars, chainVars, rangeVars
<1>16. ASSUME NEW m \in Msg, FetchFailed(m) PROVE QueryInv'
  BY <1>16, <1>same DEF FetchFailed, serverVars, chainVars, rangeVars
<1>17. ASSUME NEW m \in Msg, TimerFires(m) PROVE QueryInv'
  BY <1>17, <1>same DEF TimerFires, serverVars, chainVars, rangeVars
\* Sending creates an own message, or nothing the queries see.
<1>send. ASSUME NewMessage("own") \/ UNCHANGED serverVars, UNCHANGED chainVars, UNCHANGED excused
         PROVE  QueryInv'
  <2>1. CASE NewMessage("own")
    BY <1>send, <2>1, QueryArrival DEF AllDirs, chainVars, rangeVars
  <2>2. CASE UNCHANGED serverVars
    BY <1>send, <2>2, <1>same DEF serverVars, chainVars, rangeVars
  <2> QED BY <1>send, <2>1, <2>2
<1>18. CASE SendMessage
  BY <1>18, <1>send DEF SendMessage, viewVars
<1>19. CASE SendRepeated
  BY <1>19, <1>send DEF SendRepeated
<1>20. ASSUME NEW m \in Msg, SendAnswered(m) PROVE QueryInv'
  BY <1>20, <1>same DEF SendAnswered, serverVars, chainVars, rangeVars, viewVars
<1>21. ASSUME NEW m \in Msg, SendAnswerLost(m) PROVE QueryInv'
  BY <1>21, <1>same DEF SendAnswerLost, serverVars, chainVars, rangeVars
<1>22. CASE Cool
  BY <1>22, <1>same DEF Cool, serverVars, chainVars, rangeVars, viewVars
<1>23. ASSUME NEW done \in SUBSET fetching, Close(done) PROVE QueryInv'
  BY <1>23, <1>leave DEF Close, SessionOver, Ranges
<1>24. ASSUME NEW done \in SUBSET fetching, CloseFinishing(done) PROVE QueryInv'
  BY <1>24, <1>leave DEF CloseFinishing, SessionOver, Ranges
<1>25. CASE Persist
  BY <1>25, <1>same DEF Persist, serverVars, chainVars, rangeVars, viewVars
<1>26. CASE Crash
  BY <1>26, <1>leave DEF Crash, SessionOver, Ranges
<1>27. CASE UNCHANGED vars
  BY <1>27, <1>same DEF vars, serverVars, chainVars, rangeVars, viewVars
<1> QED
  BY <1>1, <1>2, <1>3, <1>4, <1>5, <1>6, <1>7, <1>8, <1>9, <1>10, <1>11, <1>12, <1>13, <1>14,
     <1>15, <1>16, <1>17, <1>18, <1>19, <1>20, <1>21, <1>22, <1>23, <1>24, <1>25, <1>26, <1>27
     DEF Next

(***************************************************************************)
(* sent and awaiting hold messages of this client.                         *)
(***************************************************************************)
LEMMA OwnStep ==
    ASSUME TypeOK, OwnInv, [Next]_vars
    PROVE  OwnInv'
<1>old. ASSUME UNCHANGED <<top, dir>>, sent' \cup awaiting' \subseteq sent \cup awaiting
        PROVE  OwnInv'
  BY <1>old DEF OwnInv, Created
<1>new. ASSUME NEW d \in AllDirs, NewMessage(d), sent' = sent,
               awaiting' = IF d = "own" THEN awaiting \cup {top + 1} ELSE awaiting
        PROVE  OwnInv'
  <2>1. top \in Nat /\ top' = top + 1 /\ \A m \in Msg : dir'[m] = IF m = top + 1 THEN d ELSE dir[m]
    BY <1>new DEF NewMessage, TypeOK
  <2>2. top + 1 \in Msg
    BY <1>new, BoundsAssumption DEF NewMessage, TypeOK, Msg
  <2>3. sent \cup awaiting \subseteq Msg
    BY DEF TypeOK
  <2> QED BY <1>new, <2>1, <2>2, <2>3 DEF OwnInv, Created
<1>1. ASSUME NEW d \in AllDirs, Arrive(d) PROVE OwnInv'
  BY <1>1, <1>new DEF Arrive, sendVars
<1>2. CASE SendMessage
  BY <1>2, <1>new, <1>old DEF SendMessage, AllDirs, serverVars
<1>3. CASE SendRepeated
  BY <1>3, <1>new, <1>old DEF SendRepeated, AllDirs, serverVars
<1>4. ASSUME NEW m \in Msg, EventReceived(m) PROVE OwnInv'
  BY <1>4, <1>old DEF EventReceived, EventIncoming, EventOutgoing
<1>5. ASSUME NEW m \in Msg, SendAnswered(m) \/ SendAnswerLost(m) \/ TimerFires(m) PROVE OwnInv'
  BY <1>5, <1>old DEF SendAnswered, SendAnswerLost, TimerFires, serverVars
<1>6. CASE SessionOver
  BY <1>6, Zenon DEF SessionOver, OwnInv
<1>7. ASSUME UNCHANGED <<top, dir, sendVars>> \/ Cool PROVE OwnInv'
  BY <1>7, <1>old DEF sendVars, Cool, serverVars
<1> QED
  BY <1>1, <1>2, <1>3, <1>4, <1>5, <1>6, <1>7
  DEF Next, Login, LpServerAnswered, PresenceAnswered, ChainFailed, LastIdAnswered, PageReceived, RangeReceived,
      PageFailed, FinishFailed, GroupsStrange, ChainDropped, PollExpired, PollFailed, FetchAnswered, FetchFailed, Close,
      CloseFinishing, Persist, Crash, vars, serverVars

(***************************************************************************)
(* When the range is complete, a message above the old cursor was          *)
(* received, or lies above all that was received and has its event, or has *)
(* an excuse, the one of the gap included.                                 *)
(***************************************************************************)
LEMMA RangeIsComplete ==
    ASSUME TypeOK, SyncInv, QueryInv, phase = "finish",
           NEW m \in Created, m > saved, m \notin Received, m \notin excused,
           ~(m \in gap /\ \E k \in Received : m < k)
    PROVE  AfterAll(m)
<1> USE BoundsAssumption
<1>1. last = saved /\ m \in Msg /\ m \in Nat /\ start \in Nat /\ last \in Nat
  BY DEF SyncInv, ChainInv, TypeOK, Created, Msg
<1>2. m > start
  BY <1>1 DEF QueryInv, Ranges
<1>3. m \in Selected("in") \/ m \in Selected("out")
  BY <1>2 DEF Selected
<1>4. IncomingAsked(m) \/ OutgoingAsked(m)
  BY <1>3 DEF QueryInv, Ranges
<1>5. m \in gap => AfterAll(m)
  <2>1. \A k \in Received : k \in Nat /\ k # m
    BY DEF Received, Msg
  <2>2. m \in gap => \A k \in Received : k < m
    BY <1>1, <2>1
  <2> QED BY <2>2 DEF AfterAll, QueryInv, Ranges
<1> QED BY <1>4, <1>5 DEF IncomingAsked, OutgoingAsked

(***************************************************************************)
(* Every step keeps LossInv: what leaves the way a message is on is the    *)
(* writing of it or one of the failures that excuse its loss.              *)
(***************************************************************************)
LEMMA LossStep ==
    ASSUME TypeOK, TypeOK', SyncInv, SyncInv', QueryInv, LossInv, [Next]_vars
    PROVE  LossInv'
<1> USE BoundsAssumption
<1>own. OwnInv'
  BY OwnStep DEF LossInv
<1>types. /\ saved \in Nat /\ disk \in Nat /\ top \in Nat /\ last \in Nat /\ ignored \in Nat
          /\ Created \subseteq Msg /\ \A m \in Msg : m \in Nat /\ shown[m] \in Nat /\ shown'[m] \in Nat
          /\ disk <= saved
  BY DEF TypeOK, Created, Msg, LossInv
<1>on. phase # "off" => last = saved
  BY DEF SyncInv, ChainInv
\* Steps that leave what a message waits for alone, but for the chain.
<1>quiet. ASSUME UNCHANGED <<top, dir, saved, disk, shown, fetching, timers>>, excused \subseteq excused',
                 \/ phase = "poll" /\ UNCHANGED <<phase, events, last, ignored>>
                 \/ phase # "poll" /\ phase' # "poll"
          PROVE  LossInv'
  <2>1. ASSUME NEW m \in Created PROVE Settled(m)'
    BY <1>quiet, <2>1 DEF LossInv, Settled, OnItsWay
  <2> QED BY <1>own, <1>quiet, <2>1 DEF LossInv, Created
\* A message is created: above the cursor, and in poll with its event.
<1>new. ASSUME NEW d \in AllDirs, NewMessage(d),
               UNCHANGED <<phase, last, ignored, saved, disk, shown, fetching, timers, excused>>
        PROVE  LossInv'
  <2>1. /\ top' = top + 1 /\ top + 1 \in Msg /\ events' = events \cup {top + 1}
        /\ \A m \in Msg : dir'[m] = IF m = top + 1 THEN d ELSE dir[m]
    BY <1>new, <1>types DEF NewMessage, TypeOK, Msg
  <2>2. saved <= top /\ (phase = "poll" => ignored <= top)
    BY <1>types DEF SyncInv, ChainInv, LossInv
  <2>3. ASSUME NEW m \in Created' PROVE Settled(m)'
    <3>1. CASE m = top + 1
      BY <1>new, <1>types, <2>1, <2>2, <3>1 DEF Settled, OnItsWay
    <3>2. CASE m \in Created
      BY <1>new, <1>types, <2>1, <3>2 DEF LossInv, Settled, OnItsWay, Created
    <3> QED BY <1>types, <2>1, <3>1, <3>2 DEF Created
  <2> QED BY <1>own, <1>new, <1>types, <2>3 DEF LossInv
\* The end of a range: what was received is written.
<1>fin. ASSUME phase \in Ranges, FinishReceiving("poll"), UNCHANGED <<serverVars, fetching, timers>>,
               excused \subseteq excused',
               \A m \in Created : m > saved => m \in Received \cup excused' \/ AfterAll(m)
        PROVE  LossInv'
  <2>1. /\ saved' = last' /\ ignored' = last' /\ saved' \in Nat /\ saved <= saved' /\ disk' = disk
        /\ \A m \in Received : m <= saved'
    BY <1>fin, CursorAfterRange DEF FinishReceiving, Ranges
  <2>2. phase' = "poll" /\ shown' = WriteBatch /\ UNCHANGED <<top, dir, events>>
    BY <1>fin DEF FinishReceiving, serverVars
  <2>3. \A m \in Msg : shown'[m] >= shown[m] /\ (m \in Received => shown'[m] > 0)
    BY <1>types, <2>2 DEF WriteBatch, Distinct, Received
  <2>4. \A m \in Msg : AfterAll(m) /\ m > saved => m \in events /\ m > ignored'
    BY <1>fin, <1>on, <1>types, <2>1 DEF FinishReceiving, AfterAll, Ranges
  <2>5. ASSUME NEW m \in Created PROVE Settled(m)'
    <3>1. CASE m > saved
      BY <1>fin, <1>types, <2>2, <2>3, <2>4, <3>1 DEF Settled, OnItsWay
    <3>2. CASE ~(m > saved)
      <4>1. dir[m] # "own" => shown[m] > 0 \/ m \in fetching \cup timers \/ m \in excused
        BY <1>fin, <3>2 DEF LossInv, Settled, OnItsWay, Ranges
      <4> QED BY <1>fin, <1>types, <2>2, <2>3, <4>1 DEF Settled, OnItsWay
    <3> QED BY <3>1, <3>2
  <2> QED BY <1>own, <1>types, <2>1, <2>2, <2>5 DEF LossInv, Created
\* The end of polling: what it has overtaken is excused.
<1>unpoll. ASSUME phase = "poll", phase' # "poll", excused' = excused \cup Overtaken,
                  UNCHANGED <<top, dir, saved, disk, shown, fetching, timers>>
           PROVE  LossInv'
  <2>1. ASSUME NEW m \in Created PROVE Settled(m)'
    BY <1>unpoll, <1>on, <1>types, <2>1 DEF LossInv, Settled, OnItsWay, Overtaken
  <2> QED BY <1>own, <1>unpoll, <2>1 DEF LossInv, Created
\* A fetch or a timer is gone: the message is written, excused or an own one.
<1>side. ASSUME NEW m \in Msg, fetching \cup timers \subseteq fetching' \cup timers' \cup {m},
                UNCHANGED <<top, dir, events, phase, last, ignored, saved, disk>>, excused \subseteq excused',
                shown' = shown \/ shown' = WriteOnce({m}),
                m \in Created => shown' = WriteOnce({m}) \/ m \in excused' \/ dir[m] = "own"
         PROVE  LossInv'
  <2>1. \A k \in Msg : shown'[k] >= shown[k] /\ (shown' = WriteOnce({m}) /\ k = m => shown'[k] > 0)
    BY <1>side, <1>types DEF WriteOnce
  <2>2. ASSUME NEW k \in Created PROVE Settled(k)'
    <3>1. Settled(k) /\ k \in Msg
      BY <1>types DEF LossInv
    <3>2. CASE k = m
      BY <1>side, <2>1, <3>1, <3>2 DEF Settled
    <3>3. CASE k # m
      BY <1>side, <1>types, <2>1, <3>1, <3>3 DEF Settled, OnItsWay
    <3> QED BY <3>2, <3>3
  <2> QED BY <1>own, <1>side, <2>2 DEF LossInv, Created
<1>1. ASSUME NEW d \in AllDirs, Arrive(d) PROVE LossInv'
  BY <1>1, <1>new DEF Arrive, sideVars, accountVars, viewVars
<1>2. CASE Login
  BY <1>2, <1>quiet DEF Login, serverVars, sideVars, accountVars, viewVars
<1>3. CASE LpServerAnswered
  BY <1>3, <1>quiet DEF LpServerAnswered, sideVars, accountVars, viewVars
<1>4. CASE PresenceAnswered
  BY <1>4, <1>quiet DEF PresenceAnswered, StartRange, serverVars, sideVars, accountVars, viewVars
<1>5. CASE ChainFailed
  BY <1>5, <1>quiet DEF ChainFailed, StopChain, StartRange, serverVars, sideVars, accountVars, viewVars
<1>6. CASE LastIdAnswered
  BY <1>6, <1>quiet DEF LastIdAnswered, StartRange, serverVars, sideVars, accountVars
<1>7. CASE PageReceived
  BY <1>7, <1>quiet DEF PageReceived, serverVars, sideVars, accountVars
<1>8. CASE RangeReceived
  <2>1. /\ phase = "finish" /\ FinishReceiving("poll")
        /\ excused' = excused \cup {m \in gap : \E k \in Received : m < k}
        /\ UNCHANGED <<serverVars, fetching, timers>>
    BY <1>8 DEF RangeReceived, sideVars
  <2>2. ASSUME NEW m \in Created, m > saved, m \notin Received, m \notin excused' PROVE AfterAll(m)
    BY <2>1, <2>2, RangeIsComplete
  <2> QED BY <2>1, <2>2, <1>fin DEF Ranges
<1>9. CASE PageFailed
  <2>1. /\ phase \in Ranges /\ FinishReceiving("poll")
        /\ excused' = excused \cup {m \in Created : m > last /\ batch[m] = 0}
        /\ UNCHANGED <<serverVars, fetching, timers>>
    BY <1>9 DEF PageFailed, sideVars, Ranges
  <2>2. ASSUME NEW m \in Created, m > saved PROVE m \in Received \cup excused'
    <3>1. batch[m] \in Nat /\ last = saved
      BY <2>1, <1>on, <1>types DEF TypeOK, Ranges
    <3> QED BY <1>types, <2>1, <2>2, <3>1 DEF Received
  <2> QED BY <2>1, <2>2, <1>fin
<1>10. CASE FinishFailed \/ GroupsStrange
  BY <1>10, <1>quiet DEF FinishFailed, GroupsStrange, StopChain, StartRange, serverVars, sideVars, accountVars, viewVars
<1>11. CASE ChainDropped
  BY <1>11, <1>quiet DEF ChainDropped, StopChain, StartRange, CatchUp, serverVars, sideVars, accountVars, viewVars
<1>12. ASSUME NEW m \in Msg, EventReceived(m) PROVE LossInv'
  <2>1. /\ phase = "poll" /\ phase' = "poll" /\ m \in events /\ events' = events \ {m}
        /\ UNCHANGED <<top, dir, ignored, disk, excused>>
    BY <1>12 DEF EventReceived
  <2>2. ignored <= last
    BY <2>1 DEF LossInv
  <2>3. CASE ToIgnore(m) /\ UNCHANGED <<last, saved, sideVars, shown>>
    <3>1. ASSUME NEW k \in Created PROVE Settled(k)'
      BY <1>types, <2>1, <2>3, <3>1 DEF LossInv, Settled, OnItsWay, ToIgnore, sideVars
    <3> QED BY <1>own, <2>1, <2>3, <3>1 DEF LossInv, Created
  <2>4. CASE AdvanceTo(m) /\ (EventIncoming(m) \/ EventOutgoing(m))
    <3>1. saved' = last' /\ saved' \in Nat /\ saved <= saved'
      BY <2>1, <2>4, CursorAfterEvent
    <3>2. /\ \A k \in Msg : shown'[k] >= shown[k]
          /\ fetching \subseteq fetching' /\ timers \subseteq timers'
          /\ dir[m] # "own" => m \in fetching' \cup timers' \/ shown'[m] > 0
      BY <1>types, <2>4 DEF EventIncoming, EventOutgoing, WriteOnce, LossInv, OwnInv
    <3>3. ASSUME NEW k \in Created PROVE Settled(k)'
      <4>1. Settled(k) /\ k \in Msg
        BY <1>types DEF LossInv
      <4>2. CASE k = m
        BY <2>1, <3>2, <4>2 DEF Settled, OnItsWay
      <4>3. CASE k # m
        BY <1>types, <2>1, <3>2, <4>1, <4>3 DEF Settled, OnItsWay
      <4> QED BY <4>2, <4>3
    <3>4. ignored' <= last'
      BY <1>on, <1>types, <2>1, <2>2, <3>1
    <3> QED BY <1>own, <1>types, <2>1, <3>1, <3>3, <3>4 DEF LossInv, Created
  <2> QED BY <1>12, <2>3, <2>4 DEF EventReceived
<1>13. CASE PollExpired
  BY <1>13, <1>unpoll DEF PollExpired, serverVars, sideVars, accountVars
<1>14. CASE PollFailed
  BY <1>14, <1>unpoll DEF PollFailed, serverVars, sideVars, accountVars
<1>15. ASSUME NEW m \in Msg, FetchAnswered(m) PROVE LossInv'
  BY <1>15, <1>side DEF FetchAnswered, serverVars, chainVars, accountVars
<1>16. ASSUME NEW m \in Msg, FetchFailed(m) PROVE LossInv'
  BY <1>16, <1>side DEF FetchFailed, serverVars, chainVars, accountVars
<1>17. ASSUME NEW m \in Msg, TimerFires(m) PROVE LossInv'
  <2>1. m \in sent => dir[m] = "own"
    BY DEF LossInv, OwnInv
  <2> QED BY <1>17, <2>1, <1>side DEF TimerFires, serverVars, chainVars, accountVars
\* Sending creates an own message, or nothing that matters here.
<1>send. ASSUME NewMessage("own") \/ UNCHANGED serverVars,
                UNCHANGED <<chainVars, sideVars, accountVars, shown, excused>>
         PROVE  LossInv'
  <2>1. CASE NewMessage("own")
    BY <1>send, <2>1, <1>new DEF AllDirs, chainVars, sideVars, accountVars
  <2>2. CASE UNCHANGED serverVars
    BY <1>send, <2>2, <1>quiet DEF serverVars, chainVars, sideVars, accountVars
  <2> QED BY <1>send, <2>1, <2>2
<1>18. CASE SendMessage
  BY <1>18, <1>send DEF SendMessage, viewVars
<1>19. CASE SendRepeated
  BY <1>19, <1>send DEF SendRepeated
<1>20. ASSUME NEW m \in Msg, SendAnswered(m) PROVE LossInv'
  BY <1>20, <1>send DEF SendAnswered, viewVars
<1>21. ASSUME NEW m \in Msg, SendAnswerLost(m) PROVE LossInv'
  BY <1>21, <1>send DEF SendAnswerLost
<1>22. CASE Cool
  BY <1>22, <1>send DEF Cool, viewVars
<1>23. ASSUME NEW done \in SUBSET fetching, Close(done) PROVE LossInv'
  <2>1. /\ phase' = "off" /\ UNCHANGED <<top, dir, saved, disk>>
        /\ shown' = WriteOnce(done) /\ phase # "off"
        /\ excused' = excused \cup ((fetching \cup timers \cup Overtaken) \ done)
    BY <1>23 DEF Close, SessionOver, serverVars, accountVars
  <2>2. \A k \in Msg : shown'[k] >= shown[k] /\ (k \in done => shown'[k] > 0)
    BY <2>1, <1>types DEF WriteOnce
  <2>3. ASSUME NEW k \in Created PROVE Settled(k)'
    <3>1. Settled(k) /\ k \in Msg
      BY <1>types DEF LossInv
    <3>2. k \in Overtaken => k \in done \cup excused'
      BY <2>1
    <3>3. k \in fetching \cup timers => k \in done \cup excused'
      BY <2>1
    <3>4. phase = "poll" /\ k \in events /\ k > ignored => k \in Overtaken \/ k > saved
      BY <1>on, <1>types, <3>1 DEF Overtaken
    <3> QED BY <1>types, <2>1, <2>2, <3>1, <3>2, <3>3, <3>4 DEF Settled, OnItsWay
  <2> QED BY <1>own, <1>types, <2>1, <2>3 DEF LossInv, Created
<1>24. ASSUME NEW done \in SUBSET fetching, CloseFinishing(done) PROVE LossInv'
  <2>1. /\ phase = "finish" /\ phase' = "off" /\ UNCHANGED <<top, dir, disk>>
        /\ shown' = [k \in Msg |-> IF k \in done THEN shown[k] + 1 ELSE WriteBatch[k]]
        /\ excused' = excused \cup ((fetching \cup timers) \ done)
                              \cup {k \in gap : \E j \in Received : k < j}
    BY <1>24 DEF CloseFinishing, SessionOver, serverVars
  <2>2. \A k \in Received : k \in Nat /\ saved < k
    BY DEF SyncInv, RangeInv, Received, Msg
  <2>3. \/ Received = {} /\ saved' = saved
        \/ saved' \in Received /\ \A k \in Received : k <= saved'
    BY <1>24 DEF CloseFinishing
  <2>4. saved' \in Nat /\ saved <= saved'
    BY <1>types, <2>2, <2>3
  <2>5. \A k \in Msg : shown'[k] >= shown[k] /\ (k \in done \cup Received => shown'[k] > 0)
    BY <2>1, <1>types DEF WriteBatch, Distinct, Received
  <2>6. ASSUME NEW k \in Created PROVE Settled(k)'
    <3>1. Settled(k) /\ k \in Msg
      BY <1>types DEF LossInv
    <3>2. CASE k > saved
      <4>1. k \in Received \/ k \in excused' \/ AfterAll(k)
        BY <2>1, <3>2, RangeIsComplete
      <4>2. AfterAll(k) => k > saved'
        BY <1>types, <2>2, <2>3, <3>1, <3>2 DEF AfterAll
      <4> QED BY <2>1, <2>5, <3>1, <4>1, <4>2 DEF Settled, OnItsWay
    <3>3. CASE ~(k > saved)
      <4>1. dir[k] # "own" => shown[k] > 0 \/ k \in fetching \cup timers \/ k \in excused
        BY <2>1, <3>1, <3>3 DEF Settled, OnItsWay
      <4>2. k \in fetching \cup timers => k \in done \cup excused'
        BY <2>1
      <4> QED BY <1>types, <2>1, <2>5, <3>1, <4>1, <4>2 DEF Settled, OnItsWay
    <3> QED BY <3>2, <3>3
  <2> QED BY <1>own, <1>types, <2>1, <2>4, <2>6 DEF LossInv, Created
<1>25. CASE Persist
  <2>1. /\ UNCHANGED <<top, dir, events, phase, ignored, last, saved, shown, excused, fetching, timers>>
        /\ disk' = saved
    BY <1>25 DEF Persist, serverVars, chainVars, sideVars, viewVars
  <2>2. ASSUME NEW k \in Created PROVE Settled(k)'
    BY <2>1, <2>2 DEF LossInv, Settled, OnItsWay
  <2> QED BY <1>own, <1>types, <2>1, <2>2 DEF LossInv, Created
<1>26. CASE Crash
  <2>1. /\ phase' = "off" /\ UNCHANGED <<top, dir, disk, shown>> /\ saved' = disk
        /\ excused' = excused \cup {m \in fetching \cup timers \cup Overtaken : m <= disk}
    BY <1>26 DEF Crash, SessionOver, serverVars
  <2>2. ASSUME NEW k \in Created PROVE Settled(k)'
    <3>1. Settled(k) /\ k \in Msg
      BY <1>types DEF LossInv
    <3>2. phase = "poll" /\ k \in events /\ k > ignored => k \in Overtaken \/ k > saved
      BY <1>on, <1>types, <3>1 DEF Overtaken
    <3> QED BY <1>types, <2>1, <3>1, <3>2 DEF Settled, OnItsWay
  <2> QED BY <1>own, <1>types, <2>1, <2>2 DEF LossInv, Created
<1>27. CASE UNCHANGED vars
  BY <1>27, <1>quiet DEF vars, serverVars, chainVars, sideVars, accountVars, viewVars
<1> QED
  BY <1>1, <1>2, <1>3, <1>4, <1>5, <1>6, <1>7, <1>8, <1>9, <1>10, <1>11, <1>12, <1>13, <1>14,
     <1>15, <1>16, <1>17, <1>18, <1>19, <1>20, <1>21, <1>22, <1>23, <1>24, <1>25, <1>26, <1>27
     DEF Next

(***************************************************************************)
(* No message of somebody else is lost, unless one of the failures that    *)
(* LossIsAccountedFor names happened to it: for any number of messages,    *)
(* any size of pages, any order of answers, events and arrivals.           *)
(***************************************************************************)
THEOREM NothingIsLost == Spec => []LossIsAccountedFor
<1> USE BoundsAssumption
<1>1. Init => QueryInv /\ LossInv
  <2> SUFFICES ASSUME Init PROVE QueryInv /\ LossInv
    OBVIOUS
  <2>1. top = 0 /\ phase = "off" /\ saved = 0 /\ disk = 0 /\ sent = {} /\ awaiting = {}
    BY Zenon DEF Init
  <2>2. Created = {}
    BY <2>1 DEF Created
  <2> QED BY <2>1, <2>2 DEF QueryInv, Ranges, LossInv, OwnInv
<1>2. TypeOK /\ TypeOK' /\ SyncInv /\ SyncInv' /\ QueryInv /\ LossInv /\ [Next]_vars
      => QueryInv' /\ LossInv'
  BY QueryStep, LossStep
<1>3. LossInv => LossIsAccountedFor
  BY DEF LossInv, Settled, LossIsAccountedFor
<1> QED BY <1>1, <1>2, <1>3, TypeCorrect, SyncInvariance, PTL DEF Spec

-----------------------------------------------------------------------------
(***************************************************************************)
(* Why a message sent from here is not written again.  Until its event or  *)
(* its timer has come, its id is in sent, or its answer is awaited, and    *)
(* then recent holds, as Cool waits for every first attempt: the event     *)
(* sets a timer, and the timer waits for the answer.                       *)
(***************************************************************************)
Unseen(m) ==
    /\ shown[m] = 0 /\ batch[m] = 0
    /\ m \in events \cup timers => m \in awaiting \cup sent

EchoInv ==
    /\ OwnInv
    /\ late \subseteq doubtful
    /\ \A m \in awaiting \ late : recent
    /\ \A m \in fetching : dir[m] = "in"
    /\ \A m \in Msg \ Created : shown[m] = 0
    /\ \A m \in Created : dir[m] = "own" => m \in doubtful \/ Unseen(m)

LEMMA EchoStep ==
    ASSUME TypeOK, TypeOK', SyncInv, EchoInv, [Next]_vars
    PROVE  EchoInv'
<1> USE BoundsAssumption
<1>own. OwnInv'
  BY OwnStep DEF EchoInv
<1>types. /\ top \in Nat /\ Created \subseteq Msg /\ top + 1 \notin Created
          /\ fetching \cup timers \cup events \subseteq Created
          /\ \A m \in Msg : m \in Nat /\ shown[m] \in Nat /\ batch[m] \in Nat
          /\ late \subseteq Msg /\ doubtful \subseteq Msg
  <2>1. top \in Nat /\ saved \in Nat /\ saved <= top /\ Created \subseteq Msg
    BY DEF TypeOK, Created, Msg, SyncInv, ChainInv
  <2>2. \A m \in fetching \cup timers : m \in Msg /\ m <= saved
    BY DEF TypeOK, SyncInv, SideInv
  <2>3. \A m \in events : m \in Msg /\ m <= top
    BY DEF TypeOK, SyncInv, SideInv
  <2>4. \A m \in Msg : m \in Nat /\ shown[m] \in Nat /\ batch[m] \in Nat
    BY DEF TypeOK, Msg
  <2>5. \A m \in Msg : m <= top => m \in Created
    BY <2>1 DEF Created, Msg
  <2>6. top + 1 \notin Created
    BY <2>1 DEF Created
  <2> QED BY <2>1, <2>2, <2>3, <2>4, <2>5, <2>6 DEF TypeOK
<1>clear. \A m \in Msg : NoBatch[m] = 0
  BY DEF NoBatch
\* A step in one of the two ways: it creates no message, and writes those of W.
<1>step. ASSUME NEW W \in SUBSET Created, UNCHANGED <<top, dir>>,
                \A m \in Msg \ W : shown'[m] = shown[m],
                \A m \in W : dir[m] = "own" => m \in doubtful',
                \A m \in fetching' : dir[m] = "in",
                doubtful \subseteq doubtful', late' \subseteq doubtful',
                \A m \in awaiting' \ late' : recent',
                \A m \in Created : dir[m] = "own" /\ m \notin doubtful' /\ Unseen(m) =>
                    batch'[m] = 0 /\ (m \in events' \cup timers' => m \in awaiting' \cup sent')
         PROVE  EchoInv'
  <2>1. ASSUME NEW m \in Created, dir[m] = "own", m \notin doubtful' PROVE Unseen(m)'
    <3>1. Unseen(m) /\ m \notin W /\ m \in Msg
      BY <1>step, <1>types, <2>1 DEF EchoInv
    <3> QED BY <1>step, <2>1, <3>1 DEF Unseen
  <2>2. \A m \in Msg \ Created : shown'[m] = 0
    BY <1>step DEF EchoInv
  <2> QED BY <1>own, <1>step, <2>1, <2>2 DEF EchoInv, Created
\* The other way: it creates one, and one that is sent from here is awaited.
<1>new. ASSUME NEW d \in AllDirs, NewMessage(d), UNCHANGED <<shown, batch, fetching, timers, sent>>,
               d # "own" => UNCHANGED <<awaiting, late, recent, doubtful>>,
               d = "own" =>
                 /\ awaiting' = awaiting \cup {top + 1}
                 /\ \/ recent' = TRUE /\ UNCHANGED <<late, doubtful>>
                    \/ recent' = recent /\ late' = late \cup {top + 1} /\ doubtful' = doubtful \cup {top + 1}
        PROVE  EchoInv'
  <2>1. /\ top' = top + 1 /\ top + 1 \in Msg /\ events' = events \cup {top + 1}
        /\ \A m \in Msg : dir'[m] = IF m = top + 1 THEN d ELSE dir[m]
    BY <1>new, <1>types DEF NewMessage, TypeOK, Msg
  <2>2. \A m \in Msg : m \in Created' <=> m \in Created \/ m = top + 1
    BY <1>types, <2>1 DEF Created, Msg
  <2>3. ASSUME NEW m \in Created, dir'[m] = "own" PROVE m \in doubtful' \/ Unseen(m)'
    BY <1>new, <1>types, <2>1, <2>3 DEF EchoInv, Unseen
  <2>4. ASSUME NEW m, m = top + 1, d = "own" PROVE Unseen(m)'
    <3>1. batch[m] = 0 /\ shown[m] = 0
      BY <1>types, <2>1, <2>4 DEF SyncInv, RangeInv, EchoInv
    <3> QED BY <1>new, <2>4, <3>1 DEF Unseen
  <2>5. \A m \in Created' : dir'[m] = "own" => m \in doubtful' \/ Unseen(m)'
    <3>1. Created' \subseteq Msg
      BY DEF TypeOK, Created, Msg
    <3> QED BY <2>1, <2>2, <2>3, <2>4, <3>1
  <2>6. \A m \in fetching' : dir'[m] = "in"
    BY <1>new, <1>types, <2>1 DEF EchoInv
  <2>7. late' \subseteq doubtful' /\ \A m \in awaiting' \ late' : recent'
    BY <1>new DEF EchoInv
  <2>8. \A m \in Msg \ Created' : shown'[m] = 0
    BY <1>new, <2>2 DEF EchoInv
  <2> QED BY <1>own, <2>5, <2>6, <2>7, <2>8 DEF EchoInv
\* Steps that bring no own message nearer to being written.
<1>quiet. ASSUME UNCHANGED <<top, dir, shown, awaiting, sent, recent, late>>, batch' \in {batch, NoBatch},
                 events' \subseteq events, fetching' \subseteq fetching, timers' \subseteq timers,
                 doubtful' = doubtful
          PROVE  EchoInv'
  <2>1. {} \in SUBSET Created
    OBVIOUS
  <2>2. \A m \in Created : Unseen(m) =>
            batch'[m] = 0 /\ (m \in events' \cup timers' => m \in awaiting' \cup sent')
    BY <1>quiet, <1>types, <1>clear DEF Unseen
  <2> QED BY <1>step, <1>quiet, <2>1, <2>2 DEF EchoInv
<1>1. ASSUME NEW d \in AllDirs, Arrive(d) PROVE EchoInv'
  BY <1>1, <1>new DEF Arrive, sideVars, sendVars, viewVars
<1>2. CASE Login
  BY <1>2, <1>quiet DEF Login, rangeVars, serverVars, sideVars, sendVars, viewVars
<1>3. CASE LpServerAnswered
  BY <1>3, <1>quiet DEF LpServerAnswered, rangeVars, sideVars, sendVars, viewVars
<1>4. CASE PresenceAnswered
  BY <1>4, <1>quiet DEF PresenceAnswered, StartRange, serverVars, sideVars, sendVars, viewVars
<1>5. CASE ChainFailed
  BY <1>5, <1>quiet DEF ChainFailed, StopChain, StartRange, serverVars, sideVars, sendVars, viewVars
<1>6. CASE LastIdAnswered
  BY <1>6, <1>quiet DEF LastIdAnswered, StartRange, serverVars, sideVars, sendVars
\* What a page contains is excused from this property.
<1>7. CASE PageReceived
  <2>1. /\ UNCHANGED <<top, dir, events, shown, sideVars, sendVars>>
        /\ batch' = [m \in Msg |-> IF m \in Page(phase) THEN batch[m] + 1 ELSE batch[m]]
        /\ doubtful' = doubtful \cup {m \in Page(phase) : dir[m] = "own"}
    BY <1>7 DEF PageReceived, serverVars
  <2>2. {} \in SUBSET Created
    OBVIOUS
  <2>3. ASSUME NEW m \in Created, dir[m] = "own", m \notin doubtful', Unseen(m)
        PROVE  batch'[m] = 0 /\ (m \in events' \cup timers' => m \in awaiting' \cup sent')
    BY <1>types, <2>1, <2>3 DEF Unseen, sideVars, sendVars
  <2> QED BY <1>step, <2>1, <2>2, <2>3 DEF EchoInv, sideVars, sendVars
\* What a range has received is written: no own message but the doubtful ones.
<1>fin. ASSUME FinishReceiving("poll"), UNCHANGED <<serverVars, sideVars, sendVars>> PROVE EchoInv'
  <2>1. shown' = WriteBatch /\ batch' = NoBatch /\ doubtful' = doubtful
    BY <1>fin DEF FinishReceiving
  <2>2. Received \in SUBSET Created
    BY <1>types DEF Received, SyncInv, RangeInv, Created, Msg
  <2>3. \A m \in Msg \ Received : shown'[m] = shown[m]
    BY <1>types, <2>1 DEF WriteBatch, Distinct, Received
  <2>4. \A m \in Received : dir[m] = "own" => m \in doubtful'
    BY <2>1, <2>2 DEF EchoInv, Unseen, Received
  <2>5. \A m \in Created : Unseen(m) =>
            batch'[m] = 0 /\ (m \in events' \cup timers' => m \in awaiting' \cup sent')
    BY <1>fin, <1>types, <1>clear, <2>1 DEF Unseen, serverVars, sideVars, sendVars
  <2> QED BY <1>step, <1>fin, <2>1, <2>2, <2>3, <2>4, <2>5 DEF EchoInv, serverVars, sideVars, sendVars
<1>8. CASE RangeReceived
  BY <1>8, <1>fin DEF RangeReceived
<1>9. CASE PageFailed
  BY <1>9, <1>fin DEF PageFailed
<1>10. CASE FinishFailed \/ GroupsStrange
  BY <1>10, <1>quiet DEF FinishFailed, GroupsStrange, StopChain, StartRange, serverVars, sideVars, sendVars, viewVars
<1>11. CASE ChainDropped
  BY <1>11, <1>quiet DEF ChainDropped, StopChain, StartRange, serverVars, sideVars, sendVars, viewVars
<1>12. ASSUME NEW m \in Msg, EventReceived(m) PROVE EchoInv'
  <2>1. /\ m \in events /\ events' = events \ {m} /\ m \in Created /\ m \notin timers
        /\ UNCHANGED <<top, dir, batch, awaiting, recent, late, doubtful>>
    BY <1>12, <1>types DEF EventReceived, SyncInv, SideInv, rangeVars
  <2>2. CASE UNCHANGED <<sideVars, sent, shown>>
    BY <2>1, <2>2, <1>quiet DEF sideVars
  <2>3. CASE EventIncoming(m)
    <3>1. {} \in SUBSET Created
      OBVIOUS
    <3> QED BY <2>1, <2>3, <3>1, <1>step DEF EventIncoming, EchoInv, Unseen
  <2>4. CASE EventOutgoing(m) /\ m \in sent
    <3>1. {} \in SUBSET Created
      OBVIOUS
    <3> QED BY <2>1, <2>4, <3>1, <1>step DEF EventOutgoing, EchoInv, Unseen
  <2>5. CASE EventOutgoing(m) /\ m \notin sent /\ ~recent
    <3>1. {m} \in SUBSET Created
      BY <2>1
    <3>2. shown' = WriteOnce({m}) /\ UNCHANGED <<timers, sent, fetching>>
      BY <2>5 DEF EventOutgoing
    <3>3. \A k \in Msg \ {m} : shown'[k] = shown[k]
      BY <3>2 DEF WriteOnce
    <3>4. dir[m] = "own" => m \in doubtful'
      <4>1. dir[m] = "own" /\ m \notin doubtful => m \in awaiting
        BY <2>1, <2>5 DEF EchoInv, Unseen
      <4> QED BY <2>1, <2>5, <4>1 DEF EchoInv
    <3> QED BY <2>1, <3>1, <3>2, <3>3, <3>4, <1>step DEF EchoInv, Unseen
  <2>6. CASE EventOutgoing(m) /\ m \notin sent /\ recent
    <3>1. {} \in SUBSET Created
      OBVIOUS
    <3> QED BY <2>1, <2>6, <3>1, <1>step DEF EventOutgoing, EchoInv, Unseen
  <2> QED BY <1>12, <2>2, <2>3, <2>4, <2>5, <2>6 DEF EventReceived
<1>13. CASE PollExpired
  BY <1>13, <1>quiet DEF PollExpired, rangeVars, serverVars, sideVars, sendVars
<1>14. CASE PollFailed
  BY <1>14, <1>quiet DEF PollFailed, rangeVars, serverVars, sideVars, sendVars
<1>15. ASSUME NEW m \in Msg, FetchAnswered(m) PROVE EchoInv'
  <2>1. {m} \in SUBSET Created /\ dir[m] = "in"
    BY <1>15, <1>types DEF FetchAnswered, EchoInv
  <2>2. \A k \in Msg \ {m} : shown'[k] = shown[k]
    BY <1>15 DEF FetchAnswered, WriteOnce
  <2> QED BY <1>15, <2>1, <2>2, <1>step
      DEF FetchAnswered, EchoInv, Unseen, serverVars, chainVars, rangeVars, sendVars
<1>16. ASSUME NEW m \in Msg, FetchFailed(m) PROVE EchoInv'
  BY <1>16, <1>quiet DEF FetchFailed, serverVars, chainVars, rangeVars, sendVars
\* The timer has waited for the answer: an own message is in sent, or doubtful.
<1>17. ASSUME NEW m \in Msg, TimerFires(m) PROVE EchoInv'
  <2>1. /\ m \in timers /\ m \notin awaiting /\ timers' = timers \ {m} /\ m \in Created /\ m \notin events
        /\ UNCHANGED <<top, dir, events, batch, fetching, awaiting, recent, late, doubtful>>
    BY <1>17, <1>types DEF TimerFires, serverVars, chainVars, rangeVars, SyncInv, SideInv
  <2>2. CASE m \in sent
    <3>1. {} \in SUBSET Created
      OBVIOUS
    <3>2. shown' = shown /\ sent' = sent \ {m}
      BY <1>17, <2>2 DEF TimerFires
    <3>3. \A k \in Created : Unseen(k) =>
              batch'[k] = 0 /\ (k \in events' \cup timers' => k \in awaiting' \cup sent')
      BY <2>1, <3>2 DEF Unseen
    <3> QED BY <2>1, <3>1, <3>2, <3>3, <1>step DEF EchoInv
  <2>3. CASE m \notin sent
    <3>1. {m} \in SUBSET Created /\ shown' = WriteOnce({m}) /\ sent' = sent
      BY <1>17, <2>1, <2>3 DEF TimerFires
    <3>2. \A k \in Msg \ {m} : shown'[k] = shown[k]
      BY <3>1 DEF WriteOnce
    <3>3. dir[m] = "own" => m \in doubtful'
      BY <2>1, <2>3 DEF EchoInv, Unseen
    <3> QED BY <2>1, <3>1, <3>2, <3>3, <1>step DEF EchoInv, Unseen
  <2> QED BY <2>2, <2>3
<1>18. CASE SendMessage
  <2>1. CASE NewMessage("own") /\ awaiting' = awaiting \cup {top + 1}
    BY <1>18, <2>1, <1>new DEF SendMessage, AllDirs, chainVars, rangeVars, sideVars, viewVars
  <2>2. CASE UNCHANGED <<serverVars, awaiting>>
    <3>1. {} \in SUBSET Created
      OBVIOUS
    <3> QED BY <1>18, <2>2, <3>1, <1>step
        DEF SendMessage, EchoInv, Unseen, serverVars, chainVars, rangeVars, sideVars, viewVars
  <2> QED BY <1>18, <2>1, <2>2 DEF SendMessage
<1>19. CASE SendRepeated
  <2>1. CASE /\ NewMessage("own")
             /\ awaiting' = awaiting \cup {top + 1}
             /\ late' = late \cup {top + 1}
             /\ doubtful' = doubtful \cup {top + 1}
    BY <1>19, <2>1, <1>new DEF SendRepeated, AllDirs, chainVars, rangeVars, sideVars
  <2>2. CASE UNCHANGED <<serverVars, awaiting, late, doubtful>>
    BY <1>19, <2>2, <1>quiet DEF SendRepeated, serverVars, chainVars, rangeVars, sideVars
  <2> QED BY <1>19, <2>1, <2>2 DEF SendRepeated
<1>20. ASSUME NEW m \in Msg, SendAnswered(m) PROVE EchoInv'
  <2>1. {} \in SUBSET Created
    OBVIOUS
  <2> QED BY <1>20, <2>1, <1>step
      DEF SendAnswered, EchoInv, Unseen, serverVars, chainVars, rangeVars, sideVars, viewVars
<1>21. ASSUME NEW m \in Msg, SendAnswerLost(m) PROVE EchoInv'
  <2>1. {} \in SUBSET Created
    OBVIOUS
  <2> QED BY <1>21, <2>1, <1>step
      DEF SendAnswerLost, EchoInv, Unseen, serverVars, chainVars, rangeVars, sideVars
<1>22. CASE Cool
  <2>1. {} \in SUBSET Created
    OBVIOUS
  <2> QED BY <1>22, <2>1, <1>step
      DEF Cool, EchoInv, Unseen, serverVars, chainVars, rangeVars, sideVars, viewVars
\* With the session goes every means to recognise own messages.
<1>over. ASSUME SessionOver, NEW W \in SUBSET Created, \A m \in Msg \ W : shown'[m] = shown[m]
         PROVE  EchoInv'
  <2>1. /\ UNCHANGED <<top, dir>> /\ fetching' = {} /\ awaiting' = {} /\ late' = {}
        /\ doubtful' = doubtful \cup {m \in Created : dir[m] = "own"}
    BY <1>over, Zenon DEF SessionOver, serverVars
  <2>2. \A m \in Created : dir[m] = "own" => m \in doubtful'
    BY <2>1
  <2> QED BY <1>over, <2>1, <2>2, <1>step
<1>23. ASSUME NEW done \in SUBSET fetching, Close(done) PROVE EchoInv'
  <2>1. done \in SUBSET Created /\ \A m \in Msg \ done : shown'[m] = shown[m]
    BY <1>23, <1>types DEF Close, WriteOnce
  <2> QED BY <1>23, <2>1, <1>over DEF Close
<1>24. ASSUME NEW done \in SUBSET fetching, CloseFinishing(done) PROVE EchoInv'
  <2>1. Received \in SUBSET Created
    BY <1>types DEF Received, SyncInv, RangeInv, Created, Msg
  <2>2. done \cup Received \in SUBSET Created
    BY <1>types, <2>1
  <2>3. \A m \in Msg \ (done \cup Received) : shown'[m] = shown[m]
    BY <1>24, <1>types DEF CloseFinishing, WriteBatch, Distinct, Received
  <2> QED BY <1>24, <2>2, <2>3, <1>over DEF CloseFinishing
<1>25. CASE Persist
  BY <1>25, <1>quiet DEF Persist, serverVars, chainVars, rangeVars, sideVars, sendVars, viewVars
<1>26. CASE Crash
  <2>1. {} \in SUBSET Created
    OBVIOUS
  <2> QED BY <1>26, <2>1, <1>over DEF Crash
<1>27. CASE UNCHANGED vars
  BY <1>27, <1>quiet DEF vars, serverVars, chainVars, rangeVars, sideVars, sendVars, viewVars
<1> QED
  BY <1>1, <1>2, <1>3, <1>4, <1>5, <1>6, <1>7, <1>8, <1>9, <1>10, <1>11, <1>12, <1>13, <1>14,
     <1>15, <1>16, <1>17, <1>18, <1>19, <1>20, <1>21, <1>22, <1>23, <1>24, <1>25, <1>26, <1>27
     DEF Next

(***************************************************************************)
(* A message sent from here is written again in the named cases only: its  *)
(* event never meets an empty sent after 30 s, whatever the order in which *)
(* the event, the answer of messages.send and the two timers come.         *)
(***************************************************************************)
THEOREM NoEcho == Spec => []EchoIsAccountedFor
<1>1. Init => EchoInv
  <2> SUFFICES ASSUME Init PROVE EchoInv
    OBVIOUS
  <2>1. top = 0 /\ sent = {} /\ awaiting = {} /\ late = {} /\ fetching = {} /\ shown = NoBatch
    BY Zenon DEF Init
  <2>2. Created = {}
    BY <2>1 DEF Created
  <2> QED BY <2>1, <2>2 DEF EchoInv, OwnInv, NoBatch
<1>2. TypeOK /\ TypeOK' /\ SyncInv /\ EchoInv /\ [Next]_vars => EchoInv'
  BY EchoStep
<1>3. TypeOK /\ EchoInv => EchoIsAccountedFor
  BY DEF EchoInv, Unseen, EchoIsAccountedFor
<1> QED BY <1>1, <1>2, <1>3, TypeCorrect, SyncInvariance, PTL DEF Spec

=============================================================================
