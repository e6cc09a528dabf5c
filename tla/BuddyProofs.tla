---------------------------- MODULE BuddyProofs ----------------------------
(***************************************************************************)
(* Theorems about the two parts of vk-buddy.cpp: about BuddyIcons, for     *)
(* every limit of running downloads, every number of calls and every       *)
(* number of retries, and about BuddyList, for any users and names.        *)
(***************************************************************************)
EXTENDS BuddyIcons, BuddyList, FiniteSetTheorems, SequenceTheorems, TLAPS

(***************************************************************************)
(* No fetch is in two places: the queue holds every fetch at most once,    *)
(* and none that is flying or waiting; without a connection nothing flies. *)
(* Whoever waits for another try has one left.                             *)
(***************************************************************************)
OnePlace ==
    /\ flying \cap waiting = {}
    /\ \A f \in flying \cup waiting : f <= asked
    /\ \A i \in 1..Len(queue) : queue[i] <= asked /\ queue[i] \notin flying \cup waiting
    /\ \A i, j \in 1..Len(queue) : queue[i] = queue[j] => i = j
    /\ ~connected => flying = {} /\ waiting = {}

TriesLeft == \A f \in waiting : tries[f] < MaxRetries

FetchInv ==
    IconsTypeOK /\ CounterInv /\ QueueWaitsForLimit /\ StaleEntriesRest /\ OnePlace /\ TriesLeft

(***************************************************************************)
(* Sets of fetches are finite, and so have a size.                         *)
(***************************************************************************)
LEMMA FetchesAreFinite ==
    ASSUME NEW S \in SUBSET Fetch
    PROVE  IsFiniteSet(S) /\ Cardinality(S) \in Nat
<1>1. IsFiniteSet(Fetch)
  BY BoundsAssumption, FS_Interval DEF Fetch
<1> QED BY <1>1, FS_Subset, FS_CardinalityType

(***************************************************************************)
(* Taking the top off a stack that is not empty.                           *)
(***************************************************************************)
LEMMA PopType ==
    ASSUME NEW q \in Seq(Fetch), q # <<>>
    PROVE  /\ Len(q) \in Nat \ {0}
           /\ q[Len(q)] \in Fetch
           /\ SubSeq(q, 1, Len(q) - 1) \in Seq(Fetch)
           /\ Len(SubSeq(q, 1, Len(q) - 1)) = Len(q) - 1
           /\ \A i \in 1..(Len(q) - 1) : SubSeq(q, 1, Len(q) - 1)[i] = q[i]
<1>1. Len(q) \in Nat \ {0} /\ \A i \in 1..Len(q) : q[i] \in Fetch
  BY EmptySeq, LenProperties, ElementOfSeq
<1>2. /\ SubSeq(q, 1, Len(q) - 1) \in Seq(Fetch)
      /\ Len(SubSeq(q, 1, Len(q) - 1)) = IF 1 <= Len(q) - 1 THEN Len(q) - 1 - 1 + 1 ELSE 0
      /\ \A i \in 1..(Len(q) - 1 - 1 + 1) : SubSeq(q, 1, Len(q) - 1)[i] = q[1 + i - 1]
  <2>1. Len(q) - 1 \in Int /\ 1 \in Int /\ \A i \in 1..(Len(q) - 1) : q[i] \in Fetch
    BY <1>1
  <2> QED BY <2>1, SubSeqProperties
<1> DEFINE n == Len(q)
           r == Len(SubSeq(q, 1, n - 1))
<1>3. r = n - 1
  <2>1. n \in Nat \ {0} /\ r = IF 1 <= n - 1 THEN n - 1 - 1 + 1 ELSE 0
    BY <1>1, <1>2
  <2> HIDE DEF n, r
  <2> QED BY <2>1
<1>4. \A i \in 1..(Len(q) - 1) : i \in 1..(Len(q) - 1 - 1 + 1) /\ 1 + i - 1 = i
  BY <1>1
<1> QED BY <1>1, <1>2, <1>3, <1>4

LEMMA PushType ==
    ASSUME NEW q \in Seq(Fetch), NEW f \in Fetch
    PROVE  /\ Append(q, f) \in Seq(Fetch)
           /\ Len(Append(q, f)) = Len(q) + 1
           /\ Append(q, f)[Len(q) + 1] = f
           /\ \A i \in 1..Len(q) : Append(q, f)[i] = q[i]
           /\ SubSeq(Append(q, f), 1, Len(q)) = q
  OBVIOUS

(***************************************************************************)
(* fetch_buddy_icon keeps the invariant: the icon is either started, below *)
(* the limit and with nothing else queued, or waits at the limit.          *)
(***************************************************************************)
LEMMA FetchBuddyIconKeeps == ASSUME FetchInv, FetchBuddyIcon PROVE FetchInv'
<1> DEFINE f == asked + 1
<1> USE BoundsAssumption
<1>1. f \in Fetch /\ asked' = f /\ asked \in Nat
  BY DEF FetchInv, IconsTypeOK, FetchBuddyIcon, Fetch
<1>2. /\ queue \in Seq(Fetch) /\ flying \in SUBSET Fetch /\ waiting \in SUBSET Fetch
      /\ running \in Nat /\ stale \in 0..Len(queue)
  BY DEF FetchInv, IconsTypeOK
<1>3. f \notin flying \cup waiting
  BY <1>1 DEF FetchInv, OnePlace
<1>4. CASE running < MaxRunning /\ FetchNext(Append(queue, f), running, flying)
  <2>1. queue = <<>> /\ stale = 0
    BY <1>2, <1>4 DEF FetchInv, QueueWaitsForLimit
  <2>2. queue' = <<>> /\ flying' = flying \cup {f} /\ running' = running + 1
    <3>1. Len(Append(queue, f)) = 1 /\ Append(queue, f)[1] = f
      BY <1>1, <1>2, <2>1, PushType
    <3>2. SubSeq(Append(queue, f), 1, 0) = <<>>
      BY <1>1, <1>2
    <3> QED BY <1>4, <3>1, <3>2 DEF FetchNext
  <2>3. UNCHANGED <<connected, stale, waiting, tries>> /\ connected
    BY DEF FetchBuddyIcon
  <2>4. IconsTypeOK'
    BY <1>1, <1>2, <2>1, <2>2, <2>3 DEF FetchInv, IconsTypeOK, Fetch
  <2>5. CounterInv'
    <3>1. flying' \cup waiting' = (flying \cup waiting) \cup {f}
      BY <2>2, <2>3
    <3>2. Cardinality(flying' \cup waiting') = Cardinality(flying \cup waiting) + 1
      BY <1>2, <1>3, <3>1, FetchesAreFinite, FS_AddElement
    <3>3. Cardinality(flying \cup waiting) \in Nat
      BY <1>2, FetchesAreFinite
    <3> QED BY <1>2, <1>4, <2>2, <3>2, <3>3 DEF FetchInv, CounterInv
  <2>6. OnePlace'
    BY <1>1, <1>3, <2>2, <2>3, <2>1, <1>2 DEF FetchInv, OnePlace, Fetch
  <2> QED BY <2>1, <2>2, <2>3, <2>4, <2>5, <2>6 DEF FetchInv, QueueWaitsForLimit, StaleEntriesRest, TriesLeft
<1>5. CASE running >= MaxRunning /\ queue' = Append(queue, f) /\ UNCHANGED <<running, flying>>
  <2>1. UNCHANGED <<connected, stale, waiting, tries>> /\ connected
    BY DEF FetchBuddyIcon
  <2>2. /\ queue' \in Seq(Fetch) /\ Len(queue') = Len(queue) + 1 /\ queue'[Len(queue) + 1] = f
        /\ \A i \in 1..Len(queue) : queue'[i] = queue[i]
    BY <1>1, <1>2, <1>5, PushType
  <2>3. Len(queue) \in Nat
    BY <1>2
  <2>4. IconsTypeOK'
    BY <1>1, <1>2, <1>5, <2>1, <2>2, <2>3 DEF FetchInv, IconsTypeOK, Fetch
  <2>5. CounterInv' /\ QueueWaitsForLimit' /\ StaleEntriesRest'
    BY <1>2, <1>5, <2>1 DEF FetchInv, CounterInv, QueueWaitsForLimit, StaleEntriesRest
  <2>6. OnePlace'
    <3>1. \A i \in 1..Len(queue') : i = Len(queue) + 1 \/ i \in 1..Len(queue)
      BY <2>2, <2>3
    <3>2. \A i \in 1..Len(queue) : queue[i] <= asked /\ queue[i] \in Nat
      BY <1>2 DEF FetchInv, OnePlace, Fetch
    <3>3. \A i, j \in 1..Len(queue') : queue'[i] = queue'[j] => i = j
      BY <1>1, <2>2, <2>3, <3>1, <3>2 DEF FetchInv, OnePlace
    <3>4. \A i \in 1..Len(queue') : queue'[i] <= asked' /\ queue'[i] \notin flying \cup waiting
      BY <1>1, <1>3, <2>2, <3>1, <3>2 DEF FetchInv, OnePlace
    <3>5. \A g \in flying \cup waiting : g <= asked'
      BY <1>1, <1>2 DEF FetchInv, OnePlace, Fetch
    <3> QED BY <1>5, <2>1, <3>3, <3>4, <3>5 DEF FetchInv, OnePlace
  <2> QED BY <2>1, <2>4, <2>5, <2>6 DEF FetchInv, TriesLeft
<1> QED BY <1>4, <1>5 DEF FetchBuddyIcon

(***************************************************************************)
(* The callback keeps it: one fetch less, or the top of the queue instead. *)
(***************************************************************************)
LEMMA FetchEndedKeeps == ASSUME FetchInv, NEW f \in Fetch, FetchEnded(f) PROVE FetchInv'
<1> USE BoundsAssumption
<1>1. /\ queue \in Seq(Fetch) /\ flying \in SUBSET Fetch /\ waiting \in SUBSET Fetch
      /\ running \in Nat /\ stale = 0
  BY DEF FetchInv, IconsTypeOK, StaleEntriesRest, FetchEnded
<1>2. f \in flying /\ f \notin waiting /\ UNCHANGED <<asked, connected, stale, waiting, tries>>
  BY DEF FetchInv, OnePlace, FetchEnded
<1> DEFINE rest == (flying \ {f}) \cup waiting
<1>3. /\ Cardinality(rest) = Cardinality(flying \cup waiting) - 1
      /\ Cardinality(rest) \in Nat /\ IsFiniteSet(rest)
  <2>1. rest = (flying \cup waiting) \ {f} /\ f \in flying \cup waiting
    BY <1>2
  <2>2. IsFiniteSet(flying \cup waiting)
    BY <1>1, FetchesAreFinite
  <2>3. Cardinality((flying \cup waiting) \ {f}) = Cardinality(flying \cup waiting) - 1
    BY <2>1, <2>2, FS_RemoveElement
  <2> QED BY <1>1, <2>1, <2>3, FetchesAreFinite
<1>4. Cardinality(rest) + 1 <= running /\ running <= MaxRunning
  <2>1. Cardinality(flying \cup waiting) \in Nat
    BY <1>1, FetchesAreFinite
  <2> QED BY <1>3, <2>1 DEF FetchInv, CounterInv
<1>5. CASE queue = <<>> /\ flying' = flying \ {f} /\ running' = running - 1 /\ UNCHANGED queue
  <2>1. IconsTypeOK'
    BY <1>1, <1>2, <1>3, <1>4, <1>5 DEF FetchInv, IconsTypeOK
  <2>2. CounterInv'
    BY <1>1, <1>2, <1>3, <1>4, <1>5 DEF CounterInv
  <2>3. OnePlace'
    BY <1>1, <1>2, <1>5 DEF FetchInv, OnePlace
  <2> QED BY <1>1, <1>2, <1>5, <2>1, <2>2, <2>3 DEF FetchInv, QueueWaitsForLimit, StaleEntriesRest, TriesLeft
<1>6. CASE queue # <<>> /\ FetchNext(queue, running - 1, flying \ {f})
  <2> DEFINE g == queue[Len(queue)]
  <2>1. /\ Len(queue) \in Nat \ {0} /\ g \in Fetch /\ queue' \in Seq(Fetch)
        /\ Len(queue') = Len(queue) - 1 /\ \A i \in 1..Len(queue') : queue'[i] = queue[i]
    BY <1>1, <1>6, PopType DEF FetchNext
  <2>2. running' = running /\ flying' = (flying \ {f}) \cup {g} /\ g \notin flying \cup waiting
    BY <1>1, <1>4, <1>3, <1>6, <2>1 DEF FetchInv, OnePlace, FetchNext
  <2>3. IconsTypeOK'
    BY <1>1, <1>2, <2>1, <2>2 DEF FetchInv, IconsTypeOK
  <2>4. CounterInv'
    <3>1. flying' \cup waiting' = rest \cup {g}
      BY <1>2, <2>2
    <3>2. Cardinality(rest \cup {g}) = Cardinality(rest) \/ Cardinality(rest \cup {g}) = Cardinality(rest) + 1
      <4> HIDE DEF rest, g
      <4> QED BY <1>3, FS_AddElement
    <3>3. Cardinality(rest \cup {g}) <= running /\ running <= MaxRunning
      <4> HIDE DEF rest, g
      <4> QED BY <1>1, <1>3, <1>4, <3>2
    <3>4. Cardinality(flying' \cup waiting') = Cardinality(rest \cup {g})
      BY <3>1
    <3>5. Cardinality(flying' \cup waiting') <= running' /\ running' <= MaxRunning
      <4> HIDE DEF rest, g
      <4> QED BY <2>2, <3>3, <3>4
    <3> QED BY <3>5 DEF CounterInv
  <2>5. OnePlace'
    <3>1. \A i \in 1..Len(queue') : i \in 1..Len(queue) /\ i # Len(queue)
      BY <2>1
    <3>2. \A i \in 1..Len(queue') : queue'[i] # g
      BY <2>1, <3>1 DEF FetchInv, OnePlace
    <3>3. g <= asked
      BY <2>1 DEF FetchInv, OnePlace
    <3>4. \A i, j \in 1..Len(queue') : queue'[i] = queue'[j] => i = j
      BY <2>1, <3>1 DEF FetchInv, OnePlace
    <3>5. \A i \in 1..Len(queue') : queue'[i] <= asked /\ queue'[i] \notin flying' \cup waiting
      BY <2>1, <2>2, <3>1, <3>2 DEF FetchInv, OnePlace
    <3>6. connected
      BY <1>2 DEF FetchInv, OnePlace
    <3> QED BY <1>2, <2>2, <3>3, <3>4, <3>5, <3>6 DEF FetchInv, OnePlace
  <2> QED BY <1>1, <1>2, <1>6, <2>2, <2>3, <2>4, <2>5 DEF FetchInv, QueueWaitsForLimit, StaleEntriesRest, TriesLeft
<1> QED BY <1>5, <1>6 DEF FetchEnded

(***************************************************************************)
(* A fetch that fails and is tried again stays counted.                    *)
(***************************************************************************)
LEMMA RetryingKeeps ==
    ASSUME FetchInv, NEW f \in Fetch, FetchFailed(f) \/ Retry(f) PROVE FetchInv'
<1> USE BoundsAssumption
<1>1. flying' \cup waiting' = flying \cup waiting
  BY DEF FetchFailed, Retry
<1>2. UNCHANGED <<asked, connected, queue, stale, running>>
  BY DEF FetchFailed, Retry
<1>3. flying \cap waiting = {} => flying' \cap waiting' = {}
  BY DEF FetchFailed, Retry
<1>4. flying \cup waiting # {}
  BY DEF FetchFailed, Retry
<1>5. tries' \in [Fetch -> 0..MaxRetries]
  <2>1. CASE FetchFailed(f)
    BY <2>1 DEF FetchFailed, FetchInv, IconsTypeOK
  <2>2. CASE Retry(f)
    BY <2>2 DEF Retry, FetchInv, IconsTypeOK, TriesLeft
  <2> QED BY <2>1, <2>2
<1>6. TriesLeft'
  BY DEF FetchFailed, Retry, FetchInv, IconsTypeOK, TriesLeft
<1> QED BY <1>1, <1>2, <1>3, <1>4, <1>5, <1>6
  DEF FetchInv, IconsTypeOK, CounterInv, QueueWaitsForLimit, StaleEntriesRest, OnePlace, TriesLeft

(***************************************************************************)
(* Closing keeps it: if anything is left in the queue, every request that  *)
(* was cancelled has left its place on the counter to a refused one.       *)
(***************************************************************************)
LEMMA CloseKeeps == ASSUME FetchInv, IconsClose PROVE FetchInv'
<1> USE BoundsAssumption
<1>1. /\ queue \in Seq(Fetch) /\ flying \in SUBSET Fetch /\ waiting \in SUBSET Fetch
      /\ running \in Nat /\ Len(queue) \in Nat
  BY DEF FetchInv, IconsTypeOK
<1> DEFINE n == Cardinality(flying)
<1>2. n \in Nat /\ n <= running /\ running <= MaxRunning
  <2>1. IsFiniteSet(flying \cup waiting) /\ Cardinality(flying \cup waiting) \in Nat
    BY <1>1, FetchesAreFinite
  <2>2. n <= Cardinality(flying \cup waiting) /\ n \in Nat
    BY <1>1, <2>1, FS_Subset, FetchesAreFinite
  <2> QED BY <1>1, <2>1, <2>2 DEF FetchInv, CounterInv
<1>3. Cancelled \in Nat /\ Cancelled <= n /\ Cancelled <= Len(queue)
      /\ (Cancelled = n \/ Cancelled = Len(queue))
  BY <1>1, <1>2 DEF Cancelled
<1>4. /\ queue' \in Seq(Fetch) /\ Len(queue') = Len(queue) - Cancelled
      /\ \A i \in 1..Len(queue') : queue'[i] = queue[i] /\ i \in 1..Len(queue)
  BY <1>1, <1>3 DEF IconsClose
<1>5. running' \in Nat /\ running' <= MaxRunning /\ (Cancelled = n => running' = running)
  BY <1>1, <1>2, <1>3 DEF IconsClose
<1>6. stale' = Len(queue') /\ flying' = {} /\ waiting' = {} /\ UNCHANGED <<asked, tries>> /\ ~connected'
  BY <1>4 DEF IconsClose
<1>7. IconsTypeOK'
  <2>1. Len(queue') \in Nat
    BY <1>1, <1>3, <1>4
  <2>2. stale' \in 0..Len(queue') /\ flying' \in SUBSET Fetch /\ waiting' \in SUBSET Fetch
    BY <1>6, <2>1
  <2>3. asked' \in 0..MaxFetches /\ tries' \in [Fetch -> 0..MaxRetries]
    BY <1>6 DEF FetchInv, IconsTypeOK
  <2>4. connected' \in BOOLEAN
    BY <1>6, Zenon DEF IconsClose
  <2> QED BY <1>4, <1>5, <2>2, <2>3, <2>4 DEF IconsTypeOK
<1>8. CounterInv'
  BY <1>5, <1>6, FS_EmptySet DEF CounterInv
<1>9. stale' > 0 \/ queue' # <<>> => running' = MaxRunning
  <2>1. ASSUME Len(queue') # 0 PROVE running' = MaxRunning
    <3>1. Cancelled = n /\ Len(queue) # 0
      BY <1>1, <1>3, <1>4, <2>1
    <3>2. queue # <<>>
      BY <3>1
    <3> QED BY <1>5, <3>1, <3>2 DEF FetchInv, QueueWaitsForLimit
  <2> QED BY <1>4, <1>6, <2>1
<1>10. OnePlace'
  BY <1>4, <1>6 DEF FetchInv, OnePlace
<1> QED BY <1>6, <1>7, <1>8, <1>9, <1>10 DEF FetchInv, QueueWaitsForLimit, StaleEntriesRest, TriesLeft

(***************************************************************************)
(* The queue and the counter of buddy icons stay together over any number  *)
(* of sessions.                                                            *)
(***************************************************************************)
THEOREM FetchInvariance == IconsSpec => []FetchInv
<1>1. IconsInit => FetchInv
  <2> SUFFICES ASSUME IconsInit PROVE FetchInv
    OBVIOUS
  <2>1. IconsTypeOK
    <3>1. queue \in Seq(Fetch) /\ stale \in 0..Len(queue) /\ asked \in 0..MaxFetches /\ running \in Nat
      BY BoundsAssumption, EmptySeq DEF IconsInit
    <3>2. connected \in BOOLEAN /\ flying \in SUBSET Fetch /\ waiting \in SUBSET Fetch
      BY Zenon DEF IconsInit
    <3>3. tries \in [Fetch -> 0..MaxRetries]
      BY BoundsAssumption DEF IconsInit
    <3> QED BY <3>1, <3>2, <3>3 DEF IconsTypeOK
  <2>2. Cardinality(flying \cup waiting) = 0
    BY FS_EmptySet DEF IconsInit
  <2>3. CounterInv
    BY <2>2, BoundsAssumption DEF IconsInit, CounterInv
  <2> QED BY <2>1, <2>3 DEF IconsInit, FetchInv, QueueWaitsForLimit, StaleEntriesRest, OnePlace, TriesLeft
<1>2. FetchInv /\ [IconsNext]_iconVars => FetchInv'
  <2> SUFFICES ASSUME FetchInv, [IconsNext]_iconVars PROVE FetchInv'
    OBVIOUS
  <2>1. CASE FetchBuddyIcon
    BY <2>1, FetchBuddyIconKeeps
  <2>2. CASE \E f \in Fetch : FetchEnded(f)
    BY <2>2, FetchEndedKeeps
  <2>3. CASE \E f \in Fetch : FetchFailed(f) \/ Retry(f)
    BY <2>3, RetryingKeeps
  <2>4. CASE IconsLogin
    BY <2>4 DEF IconsLogin, FetchInv, IconsTypeOK, CounterInv, QueueWaitsForLimit, StaleEntriesRest, OnePlace, TriesLeft
  <2>5. CASE IconsClose
    BY <2>5, CloseKeeps
  <2>6. CASE UNCHANGED iconVars
    BY <2>6 DEF iconVars, FetchInv, IconsTypeOK, CounterInv, QueueWaitsForLimit, StaleEntriesRest, OnePlace, TriesLeft
  <2> QED BY <2>1, <2>2, <2>3, <2>4, <2>5, <2>6 DEF IconsNext
<1> QED BY <1>1, <1>2, PTL DEF IconsSpec

(***************************************************************************)
(* Downloads in progress are counted, and never more than the limit.       *)
(***************************************************************************)
THEOREM CounterIsSafe == IconsSpec => []CounterInv
<1>1. FetchInv => CounterInv
  BY DEF FetchInv
<1> QED BY <1>1, FetchInvariance, PTL

(***************************************************************************)
(* No icon waits while a download could be started.                        *)
(***************************************************************************)
THEOREM QueueIsWorkConserving == IconsSpec => []QueueWaitsForLimit
<1>1. FetchInv => QueueWaitsForLimit
  BY DEF FetchInv
<1> QED BY <1>1, FetchInvariance, PTL

(***************************************************************************)
(* Queue and counter agree, for any limit and any number of icons.         *)
(***************************************************************************)
THEOREM QueueIsSafe == IconsSpec => []QueueInv
<1>1. FetchInv => QueueInv
  BY DEF FetchInv, QueueInv
<1> QED BY <1>1, FetchInvariance, PTL

(***************************************************************************)
(* What a closed connection leaves in the queue is never fetched.          *)
(***************************************************************************)
THEOREM StaleIsNeverFetched == IconsSpec => []StaleEntriesRest
<1>1. FetchInv => StaleEntriesRest
  BY DEF FetchInv
<1> QED BY <1>1, FetchInvariance, PTL

-----------------------------------------------------------------------------
(* The buddy list                                                            *)

LEMMA EntryType ==
    ASSUME NEW alias \in Aliases, NEW custom \in BOOLEAN
    PROVE  /\ Entry(alias, custom) \in Entries
           /\ Entry(alias, custom) # None
           /\ Entry(alias, custom).alias = alias
           /\ Entry(alias, custom).custom = custom
<1>1. Entry(alias, custom) \in Entries
  BY DEF Entry, Entries
<1>2. Entry(alias, custom) # None
  <2> HIDE DEF Entries, Aliases
  <2> QED
    BY <1>1, BuddiesAssumption
<1> QED
  BY <1>1, <1>2 DEF Entry

\* An entry that was updated is an entry.
LEMMA UpdatedEntry ==
    ASSUME NEW b \in Entries \cup {None}, NEW node \in Aliases \cup {None}, NEW name \in Aliases
    PROVE  /\ Updated(b, node, name) \in Entries
           /\ Updated(b, node, name).alias \in Aliases
           /\ Updated(b, node, name) # None
<1>1. CASE b = None
  <2>1. Updated(b, node, name) = Entry(name, FALSE)
    BY <1>1 DEF Updated
  <2>2. Entry(name, FALSE) \in Entries /\ Entry(name, FALSE) # None
        /\ Entry(name, FALSE).alias = name
    BY EntryType
  <2> HIDE DEF Aliases, Entries
  <2> QED
    BY <2>1, <2>2
<1>2. CASE b # None
  <2> DEFINE custom == IF node = None THEN b.custom ELSE IsCustom(b, node, name)
             alias  == IF custom THEN b.alias ELSE name
  <2>1. b \in Entries
    BY <1>2
  <2>2. custom \in BOOLEAN
    BY <2>1 DEF IsCustom, Entries
  <2>3. alias \in Aliases
    BY <2>1 DEF Entries
  <2>4. Updated(b, node, name) = Entry(alias, custom)
    BY <1>2 DEF Updated
  <2> HIDE DEF custom, alias, Aliases, Entries
  <2> QED
    BY <2>2, <2>3, <2>4, EntryType
<1> QED
  BY <1>1, <1>2

\* What the user types is an entry too.
LEMMA MineEntry == Entry(Mine, TRUE) \in Entries /\ Entry(Mine, TRUE) # None
  BY EntryType DEF Aliases

\* update_blist_buddy of one user keeps types.
LEMMA ListOneType ==
    ASSUME TypeOK, NEW u \in Users, NEW b \in Entries \cup {None},
           NEW plus \in SUBSET Users, NEW minus \in SUBSET Users,
           NEW alias \in BOOLEAN, NEW name \in Aliases,
           ListOne(u, b, plus, minus, alias, name)
    PROVE  /\ buddies' \in [Users -> Entries \cup {None}]
           /\ nodes' \in [Users -> Aliases \cup {None}]
           /\ added' \in SUBSET Users
           /\ removed' \in SUBSET Users
           /\ mine' \in SUBSET Users
           /\ unchecked' \in SUBSET Users
<1>1. Updated(b, nodes[u], name) \in Entries /\ Updated(b, nodes[u], name).alias \in Aliases
  BY UpdatedEntry DEF TypeOK
<1>2. (IF alias THEN Entry(Mine, TRUE) ELSE Updated(b, nodes[u], name)) \in Entries
  BY <1>1, MineEntry
<1>3. /\ buddies' \in [Users -> Entries \cup {None}]
      /\ nodes' \in [Users -> Aliases \cup {None}]
  <2> HIDE DEF Entries, Aliases
  <2> QED
    BY <1>1, <1>2 DEF ListOne, TypeOK
<1> QED
  BY <1>3 DEF ListOne, TypeOK

LEMMA SetOneType ==
    ASSUME TypeOK, NEW u \in Users, NEW b \in Entries \cup {None}, NEW alias \in BOOLEAN,
           SetOne(u, b, alias)
    PROVE  /\ buddies' \in [Users -> Entries \cup {None}]
           /\ nodes' \in [Users -> Aliases \cup {None}]
           /\ mine' \in SUBSET Users
           /\ unchecked' \in SUBSET Users
<1>1. (IF alias /\ b # None THEN Entry(Mine, TRUE) ELSE b) \in Entries \cup {None}
  BY MineEntry
<1> QED
  BY <1>1 DEF SetOne, TypeOK

LEMMA AddIfNeededType ==
    ASSUME TypeOK, NEW u \in Users, NEW b \in {buddies[u], None}, NEW alias \in BOOLEAN,
           NEW plus \in SUBSET Users, NEW minus \in SUBSET Users,
           AddIfNeeded(u, b, plus, minus, alias)
    PROVE  /\ buddies' \in [Users -> Entries \cup {None}]
           /\ nodes' \in [Users -> Aliases \cup {None}]
           /\ added' \in SUBSET Users /\ removed' \in SUBSET Users
           /\ mine' \in SUBSET Users /\ unchecked' \in SUBSET Users
           /\ dialogIds' \in SUBSET Users
           /\ fetches' \in SUBSET [user : Users, alias : BOOLEAN]
<1>0. b \in Entries \cup {None}
  BY DEF TypeOK
<1>1. CASE b # None /\ infos[u] \notin {None, NoName}
  <2>1. SetOne(u, b, alias) /\ UNCHANGED <<dialogIds, fetches>> /\ added' = plus /\ removed' = minus
    BY <1>1 DEF AddIfNeeded
  <2> QED
    BY <1>0, <2>1, SetOneType DEF TypeOK
<1>2. CASE b = None /\ infos[u] \notin {None, NoName}
  <2>1. ListOne(u, b, plus, minus, alias, infos[u])
    BY <1>2 DEF AddIfNeeded
  <2>2. dialogIds' = dialogIds \cup {u} /\ UNCHANGED fetches
    BY <1>2 DEF AddIfNeeded
  <2>3. infos[u] \in Aliases
    BY <1>2 DEF TypeOK, Aliases
  <2>4. /\ buddies' \in [Users -> Entries \cup {None}]
        /\ nodes' \in [Users -> Aliases \cup {None}]
        /\ added' \in SUBSET Users /\ removed' \in SUBSET Users
        /\ mine' \in SUBSET Users /\ unchecked' \in SUBSET Users
    <3> HIDE DEF Aliases, Entries
    <3> QED
      BY ONLY TypeOK, <1>0, u \in Users, plus \in SUBSET Users, minus \in SUBSET Users, alias \in BOOLEAN, <2>1, <2>3, ListOneType, ZenonT(60)
  <2> QED
    BY <2>2, <2>4 DEF TypeOK
<1>3. CASE infos[u] \in {None, NoName}
  <2>1. /\ SetOne(u, b, FALSE) /\ dialogIds' = dialogIds \cup {u}
        /\ fetches' = fetches \cup {[user |-> u, alias |-> alias]}
        /\ added' = plus /\ removed' = minus
    BY <1>3, Zenon DEF AddIfNeeded
  <2>2. [user |-> u, alias |-> alias] \in [user : Users, alias : BOOLEAN]
    OBVIOUS
  <2> QED
    BY <1>0, <2>1, <2>2, SetOneType DEF TypeOK
<1> QED
  BY <1>1, <1>2, <1>3

-----------------------------------------------------------------------------
(* Types *)

LEMMA TypeStep == TypeOK /\ [Next]_vars => TypeOK'
<1> SUFFICES ASSUME TypeOK, [Next]_vars PROVE TypeOK'
  OBVIOUS
<1> USE DEF listVars, lists, marks, requests, histVars
<1>1. CASE Restart \/ Refresh
  <2>1. {Chain("online", {}), Chain("friends", {})} \subseteq [at : Stages, ask : SUBSET Users]
    BY DEF Chain, Stages
  <2> QED
    BY <1>1, <2>1 DEF Restart, Refresh, TypeOK
<1>2. ASSUME NEW O \in SUBSET Users, OnlineAnswered(O) PROVE TypeOK'
  <2>1. Chain("friends", {}) \in [at : Stages, ask : SUBSET Users]
    BY DEF Chain, Stages
  <2> QED
    BY <1>2, <2>1 DEF OnlineAnswered, TypeOK
<1>3. ASSUME NEW F \in SUBSET Users, NEW names \in [Users -> Names], FriendsAnswered(F, names)
      PROVE TypeOK'
  <2>1. Chain("dialogs", {}) \in [at : Stages, ask : SUBSET Users]
    BY DEF Chain, Stages
  <2> QED
    BY <1>3, <2>1 DEF FriendsAnswered, Learned, TypeOK
<1>4. ASSUME NEW D \in SUBSET Users, DialogsAnswered(D) PROVE TypeOK'
  <2> DEFINE ask == ((IF onlyFriends THEN {} ELSE D) \cup added) \ friendIds
  <2>1. ask \in SUBSET Users
    BY DEF TypeOK
  <2>2. chains' = (chains \ {Chain("dialogs", {})}) \cup {Chain("infos", ask)}
    BY <1>4 DEF DialogsAnswered
  <2> HIDE DEF ask
  <2>3. Chain("infos", ask) \in [at : Stages, ask : SUBSET Users]
    BY <2>1 DEF Chain, Stages
  <2> QED
    BY <1>4, <2>2, <2>3 DEF DialogsAnswered, TypeOK
<1>5. ASSUME NEW c \in chains, NEW got \in SUBSET c.ask, NEW names \in [Users -> Names],
             InfosAnswered(c, got, names)
      PROVE TypeOK'
  <2>1. Chain("chats", {}) \in [at : Stages, ask : SUBSET Users]
    BY DEF Chain, Stages
  <2>2. got \in SUBSET Users
    BY DEF TypeOK
  <2> QED
    BY <1>5, <2>1, <2>2 DEF InfosAnswered, Learned, TypeOK
<1>6. ASSUME NEW members \in SUBSET Users, NEW names \in [Users -> Names],
             ChatsAnswered(members, names)
      PROVE TypeOK'
  <2> DEFINE update == {u \in Users : infos'[u] # None /\ Wanted(u, added, removed)}
             lost   == (update \cap Noted) \ Listed
             drop   == {u \in Listed \cup update : ~Wanted(u, added \ lost, removed \cup lost)}
             after(u) == Updated(buddies[u], nodes[u], infos'[u])
  <2>1. infos' \in [Users -> Names \cup {NoName, None}]
    BY <1>6 DEF ChatsAnswered, Learned, TypeOK
  <2>2. ASSUME NEW u \in update PROVE after(u) \in Entries /\ after(u).alias \in Aliases
    <3>1. infos'[u] \in Aliases
      BY <2>1 DEF Aliases
    <3> QED
      BY <3>1, UpdatedEntry DEF TypeOK
  <2>3. /\ buddies' = [u \in Users |-> IF u \in drop THEN None
                                       ELSE IF u \in update THEN after(u) ELSE buddies[u]]
        /\ nodes' = [u \in Users |-> IF u \in drop THEN None
                                     ELSE IF u \in update THEN after(u).alias ELSE nodes[u]]
        /\ removed' = removed \cup lost /\ added' = added \ lost
        /\ mine' = mine \ drop
    BY <1>6 DEF ChatsAnswered, MarkRemoved
  <2>4. lost \in SUBSET Users
    OBVIOUS
  <2> HIDE DEF after, drop, lost, update, Aliases, Entries
  <2>5. buddies' \in [Users -> Entries \cup {None}] /\ nodes' \in [Users -> Aliases \cup {None}]
    BY <2>2, <2>3 DEF TypeOK
  <2> QED
    BY <1>6, <2>1, <2>3, <2>4, <2>5 DEF ChatsAnswered, TypeOK
<1>7. ASSUME NEW f \in fetches, NEW ok \in BOOLEAN, NEW names \in [Users -> Names],
             FetchAnswered(f, ok, names)
      PROVE TypeOK'
  <2> DEFINE u     == f.user
             alias == f.alias
             name  == infos'[u]
  <2>1. u \in Users /\ alias \in BOOLEAN
    BY DEF TypeOK
  <2>2. infos' \in [Users -> Names \cup {NoName, None}]
    BY <1>7 DEF FetchAnswered, Learned, TypeOK
  <2>3. /\ buddies' \in [Users -> Entries \cup {None}]
        /\ nodes' \in [Users -> Aliases \cup {None}]
        /\ added' \in SUBSET Users /\ removed' \in SUBSET Users
        /\ mine' \in SUBSET Users /\ unchecked' \in SUBSET Users
    <3>1. buddies[u] \in Entries \cup {None} /\ added \in SUBSET Users /\ removed \in SUBSET Users
      BY <2>1 DEF TypeOK
    <3>2. CASE name # None
      <4>1. ListOne(u, buddies[u], added, removed, alias, name)
        BY <1>7, <3>2 DEF FetchAnswered
      <4>2. name \in Aliases
        BY <2>1, <2>2, <3>2 DEF Aliases
      <4> DEFINE new   == Updated(buddies[u], nodes[u], name)
                 entry == IF alias THEN Entry(Mine, TRUE) ELSE new
                 lost  == IF nodes[u] # None /\ buddies[u] = None THEN {u} ELSE {}
      <4>3. new \in Entries /\ new.alias \in Aliases
        BY <2>1, <3>1, <4>2, UpdatedEntry DEF TypeOK
      <4>4. entry \in Entries
        BY <4>3, MineEntry
      <4>5. /\ buddies' = [buddies EXCEPT ![u] = entry]
            /\ nodes' = [nodes EXCEPT ![u] = new.alias]
            /\ added' = added \ lost
            /\ removed' = removed \cup lost
            /\ unchecked' = unchecked \cup {u}
        BY <4>1 DEF ListOne
      <4>6. mine' \in SUBSET Users
        BY <2>1, <4>1 DEF ListOne, TypeOK
      <4>7. lost \in SUBSET Users
        BY <2>1
      <4> HIDE DEF Aliases, Entries, u, alias, name, new, entry, lost
      <4> QED
        BY <2>1, <3>1, <4>3, <4>4, <4>5, <4>6, <4>7 DEF TypeOK
    <3>3. CASE name = None
      <4>1. SetOne(u, buddies[u], alias)
        BY <1>7, <3>3 DEF FetchAnswered
      <4>2. UNCHANGED marks
        BY <1>7, <3>3 DEF FetchAnswered
      <4> HIDE DEF Aliases, Entries, u, alias, name
      <4>3. /\ buddies' \in [Users -> Entries \cup {None}]
            /\ nodes' \in [Users -> Aliases \cup {None}]
            /\ mine' \in SUBSET Users /\ unchecked' \in SUBSET Users
        BY ONLY TypeOK, <2>1, <3>1, <4>1, SetOneType, ZenonT(60)
      <4> QED
        BY <3>1, <4>2, <4>3
    <3> QED
      BY <3>2, <3>3
  <2> HIDE DEF Aliases, Entries
  <2> QED
    BY <1>7, <2>2, <2>3 DEF FetchAnswered, TypeOK
<1>8. ASSUME NEW u \in Users, Contact(u) PROVE TypeOK'
  <2>1. AddIfNeeded(u, buddies[u], added, removed, FALSE)
    BY <1>8 DEF Contact
  <2>2. /\ buddies' \in [Users -> Entries \cup {None}]
        /\ nodes' \in [Users -> Aliases \cup {None}]
        /\ added' \in SUBSET Users /\ removed' \in SUBSET Users
        /\ mine' \in SUBSET Users /\ unchecked' \in SUBSET Users
        /\ dialogIds' \in SUBSET Users
        /\ fetches' \in SUBSET [user : Users, alias : BOOLEAN]
    <3>1. FALSE \in BOOLEAN /\ added \in SUBSET Users /\ removed \in SUBSET Users
      BY DEF TypeOK
    <3> QED
      BY <2>1, <3>1, AddIfNeededType, Zenon
  <2> HIDE DEF Aliases, Entries
  <2> QED
    BY <1>8, <2>2 DEF Contact, TypeOK
<1>9. ASSUME NEW u \in Users, NEW alias \in BOOLEAN, NEW b \in {buddies[u], None},
             AddBuddy(u, alias, b)
      PROVE TypeOK'
  <2> DEFINE plus == added \cup {u}
             minus == removed \ {u}
  <2>1. AddIfNeeded(u, b, plus, minus, alias)
    BY <1>9 DEF AddBuddy
  <2>2. plus \in SUBSET Users /\ minus \in SUBSET Users
    BY DEF TypeOK
  <2> HIDE DEF plus, minus
  <2>3. /\ buddies' \in [Users -> Entries \cup {None}]
        /\ nodes' \in [Users -> Aliases \cup {None}]
        /\ added' \in SUBSET Users /\ removed' \in SUBSET Users
        /\ mine' \in SUBSET Users /\ unchecked' \in SUBSET Users
        /\ dialogIds' \in SUBSET Users
        /\ fetches' \in SUBSET [user : Users, alias : BOOLEAN]
    BY <2>1, <2>2, AddIfNeededType, Zenon
  <2> HIDE DEF Aliases, Entries
  <2> QED
    BY <1>9, <2>3 DEF AddBuddy, TypeOK
<1>10. ASSUME NEW u \in Users, UserRemoves(u) PROVE TypeOK'
  BY <1>10 DEF UserRemoves, MarkRemoved, TypeOK
<1>11. ASSUME NEW u \in Users, NEW alias \in Names \cup {Mine}, UserRenames(u, alias) PROVE TypeOK'
  <2>1. alias \in Aliases /\ buddies[u] \in Entries
    BY <1>11 DEF UserRenames, Aliases, TypeOK
  <2>2. [buddies[u] EXCEPT !.alias = alias] \in Entries
    BY <2>1 DEF Entries
  <2>3. buddies' = [buddies EXCEPT ![u] = [buddies[u] EXCEPT !.alias = alias]]
    BY <1>11 DEF UserRenames, TypeOK
  <2> HIDE DEF Aliases, Entries
  <2>4. buddies' \in [Users -> Entries \cup {None}]
    BY <2>2, <2>3 DEF TypeOK
  <2>5. mine' \in SUBSET Users
    BY <1>11 DEF UserRenames, TypeOK
  <2> QED
    BY <1>11, <2>4, <2>5 DEF UserRenames, TypeOK
<1>12. ASSUME NEW u \in Users, OpenConv(u) \/ CloseConv(u) PROVE TypeOK'
  BY <1>12 DEF OpenConv, CloseConv, TypeOK
<1>13. ASSUME NEW u \in Users, CloseDue(u) PROVE TypeOK'
  BY <1>13 DEF CloseDue, RemoveBuddies, TypeOK
<1>14. ASSUME NEW R \in SUBSET Users, Login(R) PROVE TypeOK'
  <2>1. Chain("online", {}) \in [at : Stages, ask : SUBSET Users]
    BY DEF Chain, Stages
  <2>2. \A u \in R : buddies[u] \in Entries /\ buddies[u].alias \in Aliases
    BY <1>14 DEF Login, Listed, TypeOK, Entries
  <2>3. nodes' \in [Users -> Aliases \cup {None}]
    BY <1>14, <2>2 DEF Login
  <2> QED
    BY <1>14, <2>1, <2>3 DEF Login, Listed, TypeOK
<1>15. CASE Close
  <2> DEFINE seen(u) == [buddies[u] EXCEPT !.custom = IsCustom(buddies[u], nodes[u], infos[u])]
  <2>1. ASSUME NEW u \in Users, buddies[u] # None PROVE seen(u) \in Entries
    <3>1. buddies[u] \in Entries
      BY <2>1 DEF TypeOK
    <3>2. IsCustom(buddies[u], nodes[u], infos[u]) \in BOOLEAN
      BY DEF IsCustom
    <3> QED
      BY <3>1, <3>2 DEF Entries
  <2>2. buddies' = [u \in Users |-> IF u \in Noted \cap Listed /\ infos[u] # None
                                   THEN seen(u) ELSE buddies[u]]
    BY <1>15 DEF Close
  <2> HIDE DEF seen, Aliases, Entries
  <2>3. buddies' \in [Users -> Entries \cup {None}]
    BY <2>1, <2>2 DEF TypeOK, Listed
  <2>4. stored' \in [added : SUBSET Users, removed : SUBSET Users] /\ mine' \in SUBSET Users
    BY <1>15 DEF Close, Noted, TypeOK
  <2> QED
    BY <1>15, <2>3, <2>4 DEF Close, SessionOver, TypeOK
<1>16. CASE Crash
  <2>1. crashes' \in 0..MaxCrashes
    BY <1>16, BuddiesAssumption DEF Crash, TypeOK
  <2>2. gone' \in SUBSET Users /\ picked' \in SUBSET Users /\ mine' \in SUBSET Users
    BY <1>16 DEF Crash, TypeOK
  <2> HIDE DEF Aliases, Entries
  <2> QED
    BY <1>16, <2>1, <2>2 DEF Crash, SessionOver, TypeOK
<1>17. CASE UNCHANGED vars
  BY <1>17 DEF vars, TypeOK
<1> QED
  BY <1>1, <1>2, <1>3, <1>4, <1>5, <1>6, <1>7, <1>8, <1>9, <1>10, <1>11, <1>12, <1>13, <1>14,
     <1>15, <1>16, <1>17 DEF Next

-----------------------------------------------------------------------------
(* What listing one user changes *)

\* Only the entry and the note of u change; a mark of removal is set only for
\* an entry that was noted and has gone; an entry that is made is unchecked.
Effect(u, b, plus, minus) ==
    /\ \/ added' = plus /\ removed' = minus
       \/ /\ nodes[u] # None /\ b = None /\ u \in unchecked'
          /\ added' = plus \ {u} /\ removed' = minus \cup {u}
    /\ \A v \in Users \ {u} : buddies'[v] = buddies[v] /\ nodes'[v] = nodes[v]
    /\ buddies'[u] # None \/ (b = None /\ nodes'[u] = nodes[u])
    /\ buddies'[u] = None \/ b # None \/ u \in unchecked'
    /\ unchecked \subseteq unchecked'
    /\ \A v \in Users \ {u} : v \in mine' => v \in mine
    /\ u \in mine' => buddies'[u] # None

\* u keeps an alias of the user's choice.
Keeps(u, b) ==
    u \in mine' /\ buddies'[u] # None =>
        \/ buddies'[u] = Entry(Mine, TRUE)
        \/ u \in mine /\ buddies'[u] = b /\ nodes'[u] = nodes[u]

\* update_blist_buddy marks an alias of the user's choice, whatever name comes.
LEMMA MineIsMarked ==
    ASSUME NEW b \in Entries, NEW node \in Aliases \cup {None}, NEW name \in Names \cup {NoName},
           b.alias = Mine, b.custom \/ node \notin {None, Mine}
    PROVE  Updated(b, node, name) = Entry(Mine, TRUE)
<1>1. name # Mine
  BY BuddiesAssumption
<1>2. b # None
  <2> HIDE DEF Entries, Aliases
  <2> QED
    BY BuddiesAssumption
<1>3. b.custom \in BOOLEAN
  BY DEF Entries
<1>4. (IF node = None THEN b.custom ELSE IsCustom(b, node, name)) = TRUE
  BY <1>1, <1>3 DEF IsCustom
<1> QED
  BY <1>2, <1>4 DEF Updated

LEMMA ListOneEffect ==
    ASSUME TypeOK, NEW u \in Users, NEW b \in Entries \cup {None},
           NEW plus \in SUBSET Users, NEW minus \in SUBSET Users,
           NEW alias \in BOOLEAN, NEW name \in Aliases,
           ListOne(u, b, plus, minus, alias, name)
    PROVE  Effect(u, b, plus, minus)
<1> DEFINE new   == Updated(b, nodes[u], name)
           entry == IF alias THEN Entry(Mine, TRUE) ELSE new
<1>1. new # None /\ new.alias \in Aliases
  BY UpdatedEntry DEF TypeOK
<1>2. entry # None
  BY <1>1, MineEntry
<1>3. buddies' = [buddies EXCEPT ![u] = entry] /\ nodes' = [nodes EXCEPT ![u] = new.alias]
  BY DEF ListOne
<1>4. \/ added' = plus /\ removed' = minus
      \/ /\ nodes[u] # None /\ b = None
         /\ added' = plus \ {u} /\ removed' = minus \cup {u}
  BY DEF ListOne
<1>5. unchecked' = unchecked \cup {u}
  BY DEF ListOne
<1>6. \A v \in Users \ {u} : v \in mine' => v \in mine
  BY DEF ListOne
<1> HIDE DEF new, entry
<1>7. buddies'[u] = entry /\ \A v \in Users \ {u} : buddies'[v] = buddies[v] /\ nodes'[v] = nodes[v]
  BY <1>3 DEF TypeOK
<1> QED
  BY <1>2, <1>4, <1>5, <1>6, <1>7 DEF Effect

LEMMA SetOneEffect ==
    ASSUME TypeOK, NEW u \in Users, NEW b \in Entries \cup {None},
           NEW plus \in SUBSET Users, NEW minus \in SUBSET Users, NEW alias \in BOOLEAN,
           SetOne(u, b, alias), added' = plus, removed' = minus
    PROVE  Effect(u, b, plus, minus)
<1> DEFINE entry == IF alias /\ b # None THEN Entry(Mine, TRUE) ELSE b
<1>1. b # None <=> entry # None
  BY MineEntry
<1>2. buddies' = [buddies EXCEPT ![u] = entry] /\ UNCHANGED <<nodes, unchecked>>
  BY DEF SetOne
<1>3. /\ \A v \in Users \ {u} : v \in mine' => v \in mine
      /\ u \in mine' => b # None
  BY DEF SetOne
<1> HIDE DEF entry
<1>4. buddies'[u] = entry /\ \A v \in Users \ {u} : buddies'[v] = buddies[v]
  BY <1>2 DEF TypeOK
<1> QED
  BY <1>1, <1>2, <1>3, <1>4 DEF Effect

LEMMA ListOneKeeps ==
    ASSUME TypeOK, NEW u \in Users, NEW b \in Entries \cup {None},
           NEW plus \in SUBSET Users, NEW minus \in SUBSET Users,
           NEW alias \in BOOLEAN, NEW name \in Names \cup {NoName},
           u \in mine /\ b # None => b.alias = Mine /\ (b.custom \/ nodes[u] \notin {None, Mine}),
           ListOne(u, b, plus, minus, alias, name)
    PROVE  Keeps(u, b)
<1>1. CASE alias
  <2>1. buddies' = [buddies EXCEPT ![u] = Entry(Mine, TRUE)]
    BY <1>1 DEF ListOne
  <2> QED
    BY <2>1 DEF Keeps, TypeOK
<1>2. CASE ~alias /\ b # None
  <2>1. buddies' = [buddies EXCEPT ![u] = Updated(b, nodes[u], name)] /\ mine' = mine
    BY <1>2 DEF ListOne
  <2>2. buddies'[u] = Updated(b, nodes[u], name)
    BY <2>1 DEF TypeOK
  <2>3. b \in Entries /\ nodes[u] \in Aliases \cup {None}
    BY <1>2 DEF TypeOK
  <2>4. ASSUME u \in mine PROVE Updated(b, nodes[u], name) = Entry(Mine, TRUE)
    BY <1>2, <2>3, <2>4, MineIsMarked
  <2> QED
    BY <2>1, <2>2, <2>4 DEF Keeps
<1>3. CASE ~alias /\ b = None
  <2>1. u \notin mine'
    BY <1>3 DEF ListOne
  <2> QED
    BY <2>1 DEF Keeps
<1> QED
  BY <1>1, <1>2, <1>3

LEMMA SetOneKeeps ==
    ASSUME TypeOK, NEW u \in Users, NEW b \in Entries \cup {None}, NEW alias \in BOOLEAN,
           SetOne(u, b, alias)
    PROVE  Keeps(u, b)
<1>1. CASE alias /\ b # None
  <2>1. buddies' = [buddies EXCEPT ![u] = Entry(Mine, TRUE)]
    BY <1>1 DEF SetOne
  <2> QED
    BY <2>1 DEF Keeps, TypeOK
<1>2. CASE ~alias /\ b # None
  <2>1. buddies' = [buddies EXCEPT ![u] = b] /\ mine' = mine /\ nodes' = nodes
    BY <1>2 DEF SetOne
  <2> QED
    BY <2>1 DEF Keeps, TypeOK
<1>3. CASE b = None
  <2>1. u \notin mine'
    BY <1>3 DEF SetOne
  <2> QED
    BY <2>1 DEF Keeps
<1> QED
  BY <1>1, <1>2, <1>3

\* An alias the user has chosen is the user's, and is marked or will be.
Kept(u, b) == u \in mine /\ b # None => b.alias = Mine /\ (b.custom \/ nodes[u] \notin {None, Mine})

LEMMA AddIfNeededEffect ==
    ASSUME TypeOK, NEW u \in Users, NEW b \in {buddies[u], None}, NEW alias \in BOOLEAN,
           NEW plus \in SUBSET Users, NEW minus \in SUBSET Users, Kept(u, b),
           AddIfNeeded(u, b, plus, minus, alias)
    PROVE  Effect(u, b, plus, minus) /\ Keeps(u, b)
<1>0. b \in Entries \cup {None}
  BY DEF TypeOK
<1>1. CASE b # None /\ infos[u] \notin {None, NoName}
  <2>1. SetOne(u, b, alias)
    BY <1>1 DEF AddIfNeeded
  <2>2. added' = plus /\ removed' = minus
    BY <1>1 DEF AddIfNeeded
  <2> QED
    BY ONLY TypeOK, u \in Users, plus \in SUBSET Users, minus \in SUBSET Users,
            alias \in BOOLEAN, <1>0, <2>1, <2>2, SetOneEffect, SetOneKeeps, ZenonT(60)
<1>2. CASE b = None /\ infos[u] \notin {None, NoName}
  <2>1. ListOne(u, b, plus, minus, alias, infos[u])
    BY <1>2 DEF AddIfNeeded
  <2>2. infos[u] \in Aliases /\ infos[u] \in Names \cup {NoName}
    BY <1>2 DEF TypeOK, Aliases
  <2>3. u \in mine /\ b # None => b.alias = Mine /\ (b.custom \/ nodes[u] \notin {None, Mine})
    BY <1>2
  <2> HIDE DEF Aliases, Entries
  <2>4. Effect(u, b, plus, minus)
    BY ONLY TypeOK, u \in Users, plus \in SUBSET Users, minus \in SUBSET Users,
            alias \in BOOLEAN, <1>0, <2>1, <2>2, ListOneEffect, ZenonT(60)
  <2>5. Keeps(u, b)
    BY ONLY TypeOK, u \in Users, plus \in SUBSET Users, minus \in SUBSET Users,
            alias \in BOOLEAN, <1>0, <2>1, <2>2, <2>3, ListOneKeeps, ZenonT(60)
  <2> QED
    BY <2>4, <2>5
<1>3. CASE infos[u] \in {None, NoName}
  <2>1. SetOne(u, b, FALSE)
    BY <1>3, Zenon DEF AddIfNeeded
  <2>2. added' = plus /\ removed' = minus
    BY <1>3 DEF AddIfNeeded
  <2>3. FALSE \in BOOLEAN
    OBVIOUS
  <2> QED
    BY ONLY TypeOK, u \in Users, plus \in SUBSET Users, minus \in SUBSET Users,
            <1>0, <2>1, <2>2, <2>3, SetOneEffect, SetOneKeeps, ZenonT(60)
<1> QED
  BY <1>1, <1>2, <1>3

LEMMA FetchEffect ==
    ASSUME TypeOK, NEW f \in fetches, NEW ok \in BOOLEAN, NEW names \in [Users -> Names],
           FetchAnswered(f, ok, names), Kept(f.user, buddies[f.user])
    PROVE  /\ f.user \in Users
           /\ Effect(f.user, buddies[f.user], added, removed)
           /\ Keeps(f.user, buddies[f.user])
<1> DEFINE who     == f.user
           typed == f.alias
           called  == infos'[who]
           entry     == buddies[who]
<1>1. who \in Users /\ typed \in BOOLEAN
  BY DEF TypeOK
<1>2. called \in Names \cup {NoName, None}
  BY <1>1 DEF FetchAnswered, Learned, TypeOK
<1>3. entry \in Entries \cup {None} /\ added \in SUBSET Users /\ removed \in SUBSET Users
  BY <1>1 DEF TypeOK
<1>4. Kept(who, entry)
  OBVIOUS
<1>5. CASE called # None
  <2>1. ListOne(who, entry, added, removed, typed, called)
    BY <1>5 DEF FetchAnswered
  <2>2. called \in Aliases /\ called \in Names \cup {NoName}
    BY <1>2, <1>5 DEF Aliases
  <2> HIDE DEF Aliases, Entries, who, typed, called, entry
  <2>3. Effect(who, entry, added, removed)
    BY ONLY TypeOK, <1>1, <1>3, <2>1, <2>2, ListOneEffect, ZenonT(60)
  <2>4. Keeps(who, entry)
    BY ONLY TypeOK, <1>1, <1>3, <1>4, <2>1, <2>2, ListOneKeeps, ZenonT(60) DEF Kept
  <2> QED
    BY <1>1, <2>3, <2>4 DEF who, entry
<1>6. CASE called = None
  <2>1. SetOne(who, entry, typed)
    BY <1>6 DEF FetchAnswered
  <2>2. added' = added /\ removed' = removed
    BY <1>6 DEF FetchAnswered, marks
  <2> HIDE DEF Aliases, Entries, who, typed, called, entry
  <2>3. Effect(who, entry, added, removed)
    BY ONLY TypeOK, <1>1, <1>3, <2>1, <2>2, SetOneEffect, ZenonT(60)
  <2>4. Keeps(who, entry)
    BY ONLY TypeOK, <1>1, <1>3, <2>1, <2>2, SetOneKeeps, ZenonT(60)
  <2> QED
    BY <1>1, <2>3, <2>4 DEF who, entry
<1> QED
  BY <1>1, <1>5, <1>6

-----------------------------------------------------------------------------
(* What was chosen by hand *)

\* The marks follow from choices: a mark of removal, made or about to be made,
\* is on users who were removed or added by hand.
MarksInv ==
    /\ session = "off" => /\ removed = {} /\ Noted = {}
                          /\ chains = {} /\ fetches = {} /\ closing = {}
    /\ removed \subseteq gone \cup picked
    /\ stored.removed \subseteq gone \cup picked
    /\ Noted \ Listed \subseteq gone \cup picked
    /\ added \cap removed = {}
    /\ stored.added \cap stored.removed = {}
    /\ ChoicesAreRemembered

LEMMA KeptNow ==
    ASSUME TypeOK, RenameIsKept, NEW u \in Users, NEW b \in {buddies[u], None}
    PROVE  Kept(u, b)
  BY DEF TypeOK, RenameIsKept, Kept, Listed

\* A user who is listed by the plugin
LEMMA EffectMarks ==
    ASSUME TypeOK, MarksInv, session = "on", NEW u \in Users,
           Effect(u, buddies[u], added, removed),
           UNCHANGED <<session, gone, picked, stored>>
    PROVE  MarksInv'
<1>1. nodes[u] # None /\ buddies[u] = None => u \in gone \cup picked
  BY DEF MarksInv, Noted, Listed
<1>2. Noted' \ Listed' \subseteq gone \cup picked
  BY <1>1 DEF MarksInv, Effect, Noted, Listed
<1>3. removed' \subseteq gone \cup picked /\ added' \cap removed' = {}
  BY <1>1 DEF MarksInv, Effect
<1>4. gone \subseteq removed' /\ picked \subseteq added' \cup removed'
  BY DEF MarksInv, ChoicesAreRemembered, Effect
<1> QED
  BY <1>2, <1>3, <1>4 DEF MarksInv, ChoicesAreRemembered

\* A user who is added by hand
LEMMA EffectAdds ==
    ASSUME TypeOK, MarksInv, session = "on", NEW u \in Users, NEW b \in {buddies[u], None},
           Effect(u, b, added \cup {u}, removed \ {u}),
           gone' = gone \ {u}, picked' = picked \cup {u}, UNCHANGED <<session, stored>>
    PROVE  MarksInv'
<1>1. Noted' \ Listed' \subseteq gone' \cup picked'
  BY DEF MarksInv, Effect, Noted, Listed
<1>2. removed' \subseteq gone' \cup picked' /\ added' \cap removed' = {}
  BY DEF MarksInv, Effect
<1>3. gone' \subseteq removed' /\ picked' \subseteq added' \cup removed'
  BY DEF MarksInv, ChoicesAreRemembered, Effect
<1>4. stored'.removed \subseteq gone' \cup picked'
  BY DEF MarksInv
<1> QED
  BY <1>1, <1>2, <1>3, <1>4 DEF MarksInv, ChoicesAreRemembered

LEMMA MarksStep == TypeOK /\ MarksInv /\ RenameIsKept /\ [Next]_vars => MarksInv'
<1> SUFFICES ASSUME TypeOK, MarksInv, RenameIsKept, [Next]_vars PROVE MarksInv'
  OBVIOUS
<1> USE DEF listVars, lists, marks, requests, histVars
<1>1. CASE Restart \/ Refresh
  BY <1>1 DEF Restart, Refresh, MarksInv, ChoicesAreRemembered, Noted, Listed
<1>2. ASSUME NEW O \in SUBSET Users, OnlineAnswered(O) PROVE MarksInv'
  BY <1>2 DEF OnlineAnswered, MarksInv, ChoicesAreRemembered, Noted, Listed, TypeOK
<1>3. ASSUME NEW F \in SUBSET Users, NEW names \in [Users -> Names], FriendsAnswered(F, names)
      PROVE MarksInv'
  BY <1>3 DEF FriendsAnswered, MarksInv, ChoicesAreRemembered, Noted, Listed, TypeOK
<1>4. ASSUME NEW D \in SUBSET Users, DialogsAnswered(D) PROVE MarksInv'
  BY <1>4 DEF DialogsAnswered, MarksInv, ChoicesAreRemembered, Noted, Listed, TypeOK
<1>5. ASSUME NEW c \in chains, NEW got \in SUBSET c.ask, NEW names \in [Users -> Names],
             InfosAnswered(c, got, names)
      PROVE MarksInv'
  BY <1>5 DEF InfosAnswered, MarksInv, ChoicesAreRemembered, Noted, Listed, TypeOK
<1>6. ASSUME NEW members \in SUBSET Users, NEW names \in [Users -> Names],
             ChatsAnswered(members, names)
      PROVE MarksInv'
  <2> DEFINE update == {u \in Users : infos'[u] # None /\ Wanted(u, added, removed)}
             lost   == (update \cap Noted) \ Listed
             drop   == {u \in Listed \cup update : ~Wanted(u, added \ lost, removed \cup lost)}
             after(u) == Updated(buddies[u], nodes[u], infos'[u])
  <2>1. infos' \in [Users -> Names \cup {NoName, None}]
    BY <1>6 DEF ChatsAnswered, Learned, TypeOK
  <2>2. ASSUME NEW u \in update PROVE after(u) # None
    <3>1. infos'[u] \in Aliases
      BY <2>1 DEF Aliases
    <3> QED
      BY <3>1, UpdatedEntry DEF TypeOK
  <2>3. /\ buddies' = [u \in Users |-> IF u \in drop THEN None
                                       ELSE IF u \in update THEN after(u) ELSE buddies[u]]
        /\ nodes' = [u \in Users |-> IF u \in drop THEN None
                                     ELSE IF u \in update THEN after(u).alias ELSE nodes[u]]
        /\ removed' = removed \cup lost /\ added' = added \ lost
        /\ UNCHANGED <<session, fetches, closing, gone, picked, stored>>
    BY <1>6 DEF ChatsAnswered, MarkRemoved
  <2>4. lost \subseteq gone \cup picked
    BY DEF MarksInv
  <2>5. session = "on"
    BY <1>6 DEF ChatsAnswered, MarksInv, TypeOK
  <2> HIDE DEF after, drop, lost, update
  <2>6. Noted' \ Listed' \subseteq Noted \ Listed
    BY <2>2, <2>3 DEF Noted, Listed
  <2>7. /\ removed' \subseteq gone \cup picked /\ added' \cap removed' = {}
        /\ gone \subseteq removed' /\ picked \subseteq added' \cup removed'
    BY <2>3, <2>4, <2>5 DEF MarksInv, ChoicesAreRemembered
  <2> QED
    BY <2>3, <2>5, <2>6, <2>7 DEF MarksInv, ChoicesAreRemembered
<1>7. ASSUME NEW f \in fetches, NEW ok \in BOOLEAN, NEW names \in [Users -> Names],
             FetchAnswered(f, ok, names)
      PROVE MarksInv'
  <2>1. f.user \in Users
    BY DEF TypeOK
  <2>2. Kept(f.user, buddies[f.user])
    BY <2>1, KeptNow
  <2>3. Effect(f.user, buddies[f.user], added, removed)
    BY <1>7, <2>2, FetchEffect
  <2>4. session = "on" /\ UNCHANGED <<session, gone, picked, stored>>
    BY <1>7 DEF FetchAnswered, MarksInv, TypeOK
  <2> QED
    BY <2>1, <2>3, <2>4, EffectMarks
<1>8. ASSUME NEW u \in Users, Contact(u) PROVE MarksInv'
  <2>1. AddIfNeeded(u, buddies[u], added, removed, FALSE)
    BY <1>8 DEF Contact
  <2>2. Kept(u, buddies[u])
    BY KeptNow
  <2>3. FALSE \in BOOLEAN /\ added \in SUBSET Users /\ removed \in SUBSET Users
    BY DEF TypeOK
  <2>4. Effect(u, buddies[u], added, removed)
    BY <2>1, <2>2, <2>3, AddIfNeededEffect, Zenon
  <2>5. session = "on" /\ UNCHANGED <<session, gone, picked, stored>>
    BY <1>8 DEF Contact
  <2> QED
    BY <2>4, <2>5, EffectMarks
<1>9. ASSUME NEW u \in Users, NEW alias \in BOOLEAN, NEW b \in {buddies[u], None},
             AddBuddy(u, alias, b)
      PROVE MarksInv'
  <2>1. Effect(u, b, added \cup {u}, removed \ {u})
    <3> DEFINE plus == added \cup {u}
               minus == removed \ {u}
    <3>1. AddIfNeeded(u, b, plus, minus, alias)
      BY <1>9 DEF AddBuddy
    <3>2. Kept(u, b)
      BY KeptNow
    <3>3. plus \in SUBSET Users /\ minus \in SUBSET Users
      BY DEF TypeOK
    <3>4. Effect(u, b, plus, minus)
      <4> HIDE DEF plus, minus
      <4> QED
        BY <3>1, <3>2, <3>3, AddIfNeededEffect, Zenon
    <3> QED
      BY <3>4
  <2>2. /\ session = "on" /\ gone' = gone \ {u} /\ picked' = picked \cup {u}
        /\ UNCHANGED <<session, stored>>
    BY <1>9 DEF AddBuddy
  <2> QED
    BY <2>1, <2>2, EffectAdds
<1>10. ASSUME NEW u \in Users, UserRemoves(u) PROVE MarksInv'
  <2>1. buddies' = [buddies EXCEPT ![u] = None] /\ UNCHANGED <<session, nodes, stored, requests>>
    BY <1>10 DEF UserRemoves
  <2>2. Listed' = Listed \ {u} /\ Noted' = Noted
    BY <2>1 DEF Listed, Noted, TypeOK
  <2>3. CASE session = "on"
    <3>1. /\ removed' = removed \cup {u} /\ added' = added \ {u}
          /\ gone' = gone \cup {u} /\ picked' = picked \ {u}
      BY <1>10, <2>3 DEF UserRemoves, MarkRemoved
    <3> QED
      BY <2>1, <2>2, <2>3, <3>1 DEF MarksInv, ChoicesAreRemembered
  <2>4. CASE session = "off"
    <3>1. UNCHANGED <<marks, gone, picked>>
      BY <1>10, <2>4 DEF UserRemoves
    <3> QED
      BY <2>1, <2>2, <2>4, <3>1 DEF MarksInv, ChoicesAreRemembered
  <2> QED
    BY <2>3, <2>4 DEF TypeOK
<1>11. ASSUME NEW u \in Users, NEW alias \in Names \cup {Mine}, UserRenames(u, alias) PROVE MarksInv'
  <2>1. buddies' = [buddies EXCEPT ![u] = [buddies[u] EXCEPT !.alias = alias]]
    BY <1>11 DEF UserRenames, TypeOK
  <2>2. [buddies[u] EXCEPT !.alias = alias] # None
    <3>1. alias \in Aliases /\ buddies[u] \in Entries
      BY <1>11 DEF UserRenames, Aliases, TypeOK
    <3>2. [buddies[u] EXCEPT !.alias = alias] \in Entries
      BY <3>1 DEF Entries
    <3> HIDE DEF Entries, Aliases
    <3> QED
      BY <3>2, BuddiesAssumption
  <2>3. Listed' = Listed
    BY <1>11, <2>1, <2>2 DEF UserRenames, Listed, TypeOK
  <2> QED
    BY <1>11, <2>3 DEF UserRenames, MarksInv, ChoicesAreRemembered, Noted
<1>12. ASSUME NEW u \in Users, OpenConv(u) \/ CloseConv(u) PROVE MarksInv'
  BY <1>12 DEF OpenConv, CloseConv, MarksInv, ChoicesAreRemembered, Noted, Listed, TypeOK
<1>13. ASSUME NEW u \in Users, CloseDue(u) PROVE MarksInv'
  <2>1. Noted' \ Listed' \subseteq Noted \ Listed
    BY <1>13 DEF CloseDue, RemoveBuddies, Noted, Listed
  <2> QED
    BY <1>13, <2>1 DEF CloseDue, MarksInv, ChoicesAreRemembered, TypeOK
<1>14. ASSUME NEW R \in SUBSET Users, Login(R) PROVE MarksInv'
  <2>1. Noted' \subseteq Listed'
    BY <1>14 DEF Login, Noted, Listed
  <2> QED
    BY <1>14, <2>1 DEF Login, MarksInv, ChoicesAreRemembered
<1>15. CASE Close
  <2>1. /\ stored' = [added |-> added \ (Noted \ Listed), removed |-> removed \cup (Noted \ Listed)]
        /\ session = "on" /\ session' = "off" /\ removed' = {} /\ added' = {}
        /\ nodes' = [u \in Users |-> None] /\ chains' = {} /\ fetches' = {} /\ closing' = {}
        /\ UNCHANGED <<gone, picked>>
    BY <1>15 DEF Close, SessionOver
  <2>2. Noted' = {}
    BY <2>1 DEF Noted
  <2>3. /\ stored'.added = added \ (Noted \ Listed)
        /\ stored'.removed = removed \cup (Noted \ Listed)
    BY <2>1
  <2>4. gone' \subseteq stored'.removed /\ picked' \subseteq stored'.added \cup stored'.removed
    BY <2>1, <2>3 DEF MarksInv, ChoicesAreRemembered
  <2>5. stored'.added \cap stored'.removed = {} /\ stored'.removed \subseteq gone' \cup picked'
    BY <2>1, <2>3 DEF MarksInv
  <2> QED
    BY <2>1, <2>2, <2>4, <2>5 DEF MarksInv, ChoicesAreRemembered
<1>16. CASE Crash
  <2>1. /\ session' = "off" /\ removed' = {} /\ added' = {} /\ UNCHANGED stored
        /\ nodes' = [u \in Users |-> None] /\ chains' = {} /\ fetches' = {} /\ closing' = {}
        /\ gone' = gone \cap stored.removed
        /\ picked' = picked \cap (stored.added \cup stored.removed)
    BY <1>16 DEF Crash, SessionOver
  <2>2. Noted' = {}
    BY <2>1 DEF Noted
  <2> QED
    BY <2>1, <2>2 DEF MarksInv, ChoicesAreRemembered
<1>17. CASE UNCHANGED vars
  BY <1>17 DEF vars, MarksInv, ChoicesAreRemembered, Noted, Listed
<1> QED
  BY <1>1, <1>2, <1>3, <1>4, <1>5, <1>6, <1>7, <1>8, <1>9, <1>10, <1>11, <1>12, <1>13, <1>14,
     <1>15, <1>16, <1>17 DEF Next

-----------------------------------------------------------------------------
(* Aliases of the user's choice *)

RenameInv == RenameIsKept /\ mine \subseteq Listed

\* A user who is listed, updated or added keeps his alias.
LEMMA KeepsRename ==
    ASSUME TypeOK, RenameInv, NEW u \in Users, NEW b \in {buddies[u], None},
           NEW plus, NEW minus, Effect(u, b, plus, minus), Keeps(u, b), mine' \in SUBSET Users
    PROVE  RenameInv'
<1>1. mine' \subseteq Listed'
  BY DEF Effect, RenameInv, Listed
<1>2. ASSUME NEW v \in mine' \cap Listed'
      PROVE  buddies'[v].alias = Mine /\ (buddies'[v].custom \/ nodes'[v] \notin {None, Mine})
  <2>1. CASE v # u
    <3>1. v \in mine /\ buddies'[v] = buddies[v] /\ nodes'[v] = nodes[v]
      BY <2>1 DEF Effect, Listed
    <3> QED
      BY <1>2, <3>1 DEF RenameInv, RenameIsKept, Listed
  <2>2. CASE v = u /\ buddies'[u] = Entry(Mine, TRUE)
    BY <2>2 DEF Entry
  <2>3. CASE v = u /\ u \in mine /\ buddies'[u] = b /\ nodes'[u] = nodes[u]
    <3>1. buddies'[u] # None
      BY <1>2, <2>3 DEF Listed
    <3>2. b = buddies[u] /\ u \in Listed
      BY <2>3, <3>1 DEF Listed
    <3> QED
      BY <2>3, <3>2 DEF RenameInv, RenameIsKept
  <2> QED
    BY <1>2, <2>1, <2>2, <2>3 DEF Keeps, Listed
<1> QED
  BY <1>1, <1>2 DEF RenameInv, RenameIsKept

LEMMA RenameStep == TypeOK /\ MarksInv /\ RenameInv /\ [Next]_vars => RenameInv'
<1> SUFFICES ASSUME TypeOK, MarksInv, RenameInv, [Next]_vars PROVE RenameInv'
  OBVIOUS
<1> USE DEF listVars, lists, marks, requests, histVars
<1>0. mine' \in SUBSET Users
  BY TypeStep DEF TypeOK
<1>1. CASE Restart \/ Refresh
  BY <1>1 DEF Restart, Refresh, RenameInv, RenameIsKept, Listed
<1>2. ASSUME NEW O \in SUBSET Users, OnlineAnswered(O) PROVE RenameInv'
  BY <1>2 DEF OnlineAnswered, RenameInv, RenameIsKept, Listed
<1>3. ASSUME NEW F \in SUBSET Users, NEW names \in [Users -> Names], FriendsAnswered(F, names)
      PROVE RenameInv'
  BY <1>3 DEF FriendsAnswered, RenameInv, RenameIsKept, Listed
<1>4. ASSUME NEW D \in SUBSET Users, DialogsAnswered(D) PROVE RenameInv'
  BY <1>4 DEF DialogsAnswered, RenameInv, RenameIsKept, Listed
<1>5. ASSUME NEW c \in chains, NEW got \in SUBSET c.ask, NEW names \in [Users -> Names],
             InfosAnswered(c, got, names)
      PROVE RenameInv'
  BY <1>5 DEF InfosAnswered, RenameInv, RenameIsKept, Listed
<1>6. ASSUME NEW members \in SUBSET Users, NEW names \in [Users -> Names],
             ChatsAnswered(members, names)
      PROVE RenameInv'
  <2> DEFINE update == {u \in Users : infos'[u] # None /\ Wanted(u, added, removed)}
             lost   == (update \cap Noted) \ Listed
             drop   == {u \in Listed \cup update : ~Wanted(u, added \ lost, removed \cup lost)}
             after(u) == Updated(buddies[u], nodes[u], infos'[u])
  <2>1. infos' \in [Users -> Names \cup {NoName, None}]
    BY <1>6 DEF ChatsAnswered, Learned, TypeOK
  <2>2. ASSUME NEW u \in mine \cap update PROVE after(u) = Entry(Mine, TRUE)
    <3>1. /\ u \in Users /\ buddies[u] # None /\ buddies[u].alias = Mine
          /\ buddies[u].custom \/ nodes[u] \notin {None, Mine}
      BY DEF RenameInv, RenameIsKept, Listed
    <3>2. buddies[u] \in Entries /\ nodes[u] \in Aliases \cup {None}
          /\ infos'[u] \in Names \cup {NoName}
      BY <2>1, <3>1 DEF TypeOK
    <3> QED
      BY <3>1, <3>2, MineIsMarked
  <2>3. /\ buddies' = [u \in Users |-> IF u \in drop THEN None
                                       ELSE IF u \in update THEN after(u) ELSE buddies[u]]
        /\ nodes' = [u \in Users |-> IF u \in drop THEN None
                                     ELSE IF u \in update THEN after(u).alias ELSE nodes[u]]
        /\ mine' = mine \ drop
    BY <1>6 DEF ChatsAnswered
  <2>4. /\ Entry(Mine, TRUE) # None /\ Entry(Mine, TRUE).alias = Mine
        /\ Entry(Mine, TRUE).custom = TRUE
    BY MineEntry DEF Entry
  <2> HIDE DEF after, drop, lost, update
  <2>5. ASSUME NEW u \in mine'
        PROVE  /\ u \in Listed'
               /\ buddies'[u].alias = Mine
               /\ buddies'[u].custom \/ nodes'[u] \notin {None, Mine}
    <3>1. u \in mine /\ u \in Users /\ u \notin drop /\ u \in Listed
      BY <1>0, <2>3 DEF RenameInv
    <3>2. CASE u \in update
      BY <2>2, <2>3, <2>4, <3>1, <3>2 DEF Listed
    <3>3. CASE u \notin update
      BY <2>3, <3>1, <3>3 DEF RenameInv, RenameIsKept, Listed
    <3> QED
      BY <3>2, <3>3
  <2> QED
    BY <2>5 DEF RenameInv, RenameIsKept
<1>7. ASSUME NEW f \in fetches, NEW ok \in BOOLEAN, NEW names \in [Users -> Names],
             FetchAnswered(f, ok, names)
      PROVE RenameInv'
  <2>1. f.user \in Users
    BY DEF TypeOK
  <2>2. Kept(f.user, buddies[f.user])
    BY <2>1, KeptNow DEF RenameInv
  <2>3. Effect(f.user, buddies[f.user], added, removed) /\ Keeps(f.user, buddies[f.user])
    BY <1>7, <2>2, FetchEffect
  <2> QED
    BY <1>0, <2>1, <2>3, KeepsRename
<1>8. ASSUME NEW u \in Users, Contact(u) PROVE RenameInv'
  <2>1. AddIfNeeded(u, buddies[u], added, removed, FALSE)
    BY <1>8 DEF Contact
  <2>2. Kept(u, buddies[u])
    BY KeptNow DEF RenameInv
  <2>3. FALSE \in BOOLEAN /\ added \in SUBSET Users /\ removed \in SUBSET Users
    BY DEF TypeOK
  <2>4. Effect(u, buddies[u], added, removed) /\ Keeps(u, buddies[u])
    BY <2>1, <2>2, <2>3, AddIfNeededEffect, Zenon
  <2> QED
    BY <1>0, <2>4, KeepsRename
<1>9. ASSUME NEW u \in Users, NEW alias \in BOOLEAN, NEW b \in {buddies[u], None},
             AddBuddy(u, alias, b)
      PROVE RenameInv'
  <2> DEFINE plus == added \cup {u}
             minus == removed \ {u}
  <2>1. AddIfNeeded(u, b, plus, minus, alias)
    BY <1>9 DEF AddBuddy
  <2>2. Kept(u, b)
    BY KeptNow DEF RenameInv
  <2>3. plus \in SUBSET Users /\ minus \in SUBSET Users
    BY DEF TypeOK
  <2> HIDE DEF plus, minus
  <2>4. Effect(u, b, plus, minus) /\ Keeps(u, b)
    BY <2>1, <2>2, <2>3, AddIfNeededEffect, Zenon
  <2> QED
    BY <1>0, <2>4, KeepsRename
<1>10. ASSUME NEW u \in Users, UserRemoves(u) PROVE RenameInv'
  <2>1. buddies' = [buddies EXCEPT ![u] = None] /\ mine' = mine \ {u} /\ nodes' = nodes
    BY <1>10 DEF UserRemoves
  <2>2. \A v \in mine' : v \in mine /\ v \in Users /\ v # u /\ buddies'[v] = buddies[v]
    BY <1>0, <2>1 DEF TypeOK
  <2> QED
    BY <2>1, <2>2 DEF RenameInv, RenameIsKept, Listed
<1>11. ASSUME NEW u \in Users, NEW alias \in Names \cup {Mine}, UserRenames(u, alias)
      PROVE RenameInv'
  <2> DEFINE entry == [buddies[u] EXCEPT !.alias = alias]
  <2>1. buddies' = [buddies EXCEPT ![u] = entry] /\ nodes' = nodes
        /\ mine' = IF alias = Mine /\ (buddies[u].custom \/ nodes[u] \notin {None, Mine})
                   THEN mine \cup {u} ELSE mine \ {u}
    BY <1>11 DEF UserRenames, TypeOK
  <2>2. alias \in Aliases /\ buddies[u] \in Entries
    BY <1>11 DEF UserRenames, Aliases, TypeOK
  <2>3. entry \in Entries /\ entry.alias = alias /\ entry.custom = buddies[u].custom
    BY <2>2 DEF Entries
  <2>4. entry # None
    <3> HIDE DEF Entries, Aliases, entry
    <3> QED
      BY <2>3, BuddiesAssumption
  <2> HIDE DEF entry
  <2>5. buddies'[u] = entry /\ \A v \in Users \ {u} : buddies'[v] = buddies[v]
    BY <2>1 DEF TypeOK
  <2>6. ASSUME NEW v \in mine'
        PROVE  /\ v \in Listed'
               /\ buddies'[v].alias = Mine
               /\ buddies'[v].custom \/ nodes'[v] \notin {None, Mine}
    <3>1. CASE v = u
      BY <2>1, <2>3, <2>4, <2>5, <3>1 DEF Listed
    <3>2. CASE v # u
      BY <1>0, <2>1, <2>5, <3>2 DEF Listed, RenameInv, RenameIsKept
    <3> QED
      BY <3>1, <3>2
  <2> QED
    BY <2>6 DEF RenameInv, RenameIsKept
<1>12. ASSUME NEW u \in Users, OpenConv(u) \/ CloseConv(u) PROVE RenameInv'
  BY <1>12 DEF OpenConv, CloseConv, RenameInv, RenameIsKept, Listed
<1>13. ASSUME NEW u \in Users, CloseDue(u) PROVE RenameInv'
  <2> DEFINE U == IF Wanted(u, added, removed) THEN {} ELSE {u} \cap Listed
  <2>1. RemoveBuddies(U)
    BY <1>13 DEF CloseDue
  <2> HIDE DEF U
  <2>2. \A v \in mine' : v \in mine /\ v \in Users /\ buddies'[v] = buddies[v] /\ nodes'[v] = nodes[v]
    BY <1>0, <2>1 DEF RemoveBuddies
  <2> QED
    BY <2>2 DEF RenameInv, RenameIsKept, Listed
<1>14. ASSUME NEW R \in SUBSET Users, Login(R) PROVE RenameInv'
  <2>1. \A u \in Users : nodes[u] = None
    BY <1>14 DEF Login, MarksInv, Noted
  <2>2. UNCHANGED <<buddies, mine>>
    BY <1>14 DEF Login
  <2> QED
    BY <1>0, <2>1, <2>2 DEF RenameInv, RenameIsKept, Listed
<1>15. CASE Close
  <2> DEFINE seen(u) == [buddies[u] EXCEPT !.custom = IsCustom(buddies[u], nodes[u], infos[u])]
  <2>1. /\ buddies' = [u \in Users |-> IF u \in Noted \cap Listed /\ infos[u] # None
                                      THEN seen(u) ELSE buddies[u]]
        /\ mine' = {u \in mine : infos[u] # None \/ buddies[u].custom}
    BY <1>15 DEF Close
  <2>2. ASSUME NEW u \in mine'
        PROVE buddies'[u] # None /\ buddies'[u].alias = Mine /\ buddies'[u].custom
    <3>1. /\ u \in Users /\ buddies[u] # None /\ buddies[u].alias = Mine
          /\ buddies[u].custom \/ nodes[u] \notin {None, Mine}
          /\ infos[u] # None \/ buddies[u].custom
      BY <1>0, <2>1 DEF RenameInv, RenameIsKept, Listed
    <3>2. buddies[u] \in Entries
      BY <3>1 DEF TypeOK
    <3>3. CASE u \in Noted \cap Listed /\ infos[u] # None
      <4>1. infos[u] # Mine
        BY <3>1, <3>3, BuddiesAssumption DEF TypeOK
      <4>2. buddies[u].custom \in BOOLEAN
        BY <3>2 DEF Entries
      <4>3. IsCustom(buddies[u], nodes[u], infos[u]) = TRUE
        BY <3>1, <4>1, <4>2 DEF IsCustom
      <4>4. /\ seen(u) \in Entries /\ seen(u).alias = Mine /\ seen(u).custom = TRUE
        BY <3>1, <3>2, <4>3 DEF Entries
      <4>5. buddies'[u] = seen(u)
        BY <2>1, <3>1, <3>3
      <4> HIDE DEF Entries, Aliases, seen
      <4>6. seen(u) # None
        BY <4>4, BuddiesAssumption
      <4> QED
        BY <4>4, <4>5, <4>6
    <3>4. CASE ~(u \in Noted \cap Listed /\ infos[u] # None)
      <4>1. buddies'[u] = buddies[u]
        BY <2>1, <3>1, <3>4
      <4> QED
        BY <3>1, <3>4, <4>1 DEF Noted, Listed
    <3> QED
      BY <3>3, <3>4
  <2> QED
    BY <1>0, <2>2 DEF RenameInv, RenameIsKept, Listed
<1>16. CASE Crash
  <2>1. mine' = {u \in mine : buddies[u].custom} /\ buddies' = buddies
    BY <1>16 DEF Crash
  <2> QED
    BY <2>1 DEF RenameInv, RenameIsKept, Listed
<1>17. CASE UNCHANGED vars
  BY <1>17 DEF vars, RenameInv, RenameIsKept, Listed
<1> QED
  BY <1>1, <1>2, <1>3, <1>4, <1>5, <1>6, <1>7, <1>8, <1>9, <1>10, <1>11, <1>12, <1>13, <1>14,
     <1>15, <1>16, <1>17 DEF Next

-----------------------------------------------------------------------------
(* Who is listed *)

\* A user who is listed or added: the reasons of the others stay, he is unchecked.
LEMMA EffectReasons ==
    ASSUME TypeOK, ListedForAReason, session = "on", NEW u \in Users, NEW b \in {buddies[u], None},
           NEW plus \in SUBSET Users, NEW minus \in SUBSET Users,
           added \subseteq plus, plus \subseteq added \cup {u},
           minus \subseteq removed, removed \subseteq minus \cup {u},
           Effect(u, b, plus, minus), dialogIds \subseteq dialogIds',
           UNCHANGED <<session, onlyFriends, friendIds, convs, closing, chains>>
    PROVE  ListedForAReason'
<1> SUFFICES ASSUME chains = {}, NEW v \in Listed'
             PROVE  Wanted(v, added, removed)' \/ v \in unchecked' \cup closing
  BY DEF ListedForAReason
<1>1. unchecked \subseteq unchecked'
  BY DEF Effect
<1>2. \A w \in Listed : Wanted(w, added, removed) \/ w \in unchecked' \cup closing
  BY <1>1 DEF ListedForAReason
<1>3. CASE v # u
  <2>1. v \in Listed
    BY <1>3 DEF Effect, Listed
  <2>2. (v \in removed' => v \in removed) /\ (v \in added => v \in added')
    BY <1>3 DEF Effect
  <2>3. Wanted(v, added, removed) => Wanted(v, added, removed)'
    BY <2>2 DEF Wanted
  <2> QED
    BY <1>2, <2>1, <2>3
<1>4. CASE v = u /\ b # None /\ u \notin unchecked'
  <2>1. u \in Listed
    BY <1>4 DEF Listed
  <2>2. added' = plus /\ removed' = minus
    BY <1>4 DEF Effect
  <2>3. Wanted(u, added, removed) => Wanted(u, added, removed)'
    BY <2>2 DEF Wanted
  <2> QED
    BY <1>2, <1>4, <2>1, <2>3
<1>5. CASE v = u /\ b = None
  BY <1>5 DEF Effect, Listed
<1> QED
  BY <1>3, <1>4, <1>5

LEMMA ReasonStep == TypeOK /\ MarksInv /\ RenameInv /\ ListedForAReason /\ [Next]_vars => ListedForAReason'
<1> SUFFICES ASSUME TypeOK, MarksInv, RenameInv, ListedForAReason, [Next]_vars
             PROVE ListedForAReason'
  OBVIOUS
<1> USE DEF listVars, lists, marks, requests, histVars
<1>1. CASE Restart \/ Refresh
  BY <1>1 DEF Restart, Refresh, ListedForAReason
<1>2. ASSUME NEW O \in SUBSET Users, OnlineAnswered(O) PROVE ListedForAReason'
  BY <1>2 DEF OnlineAnswered, ListedForAReason
<1>3. ASSUME NEW F \in SUBSET Users, NEW names \in [Users -> Names], FriendsAnswered(F, names)
      PROVE ListedForAReason'
  BY <1>3 DEF FriendsAnswered, ListedForAReason
<1>4. ASSUME NEW D \in SUBSET Users, DialogsAnswered(D) PROVE ListedForAReason'
  <2>1. chains' # {}
    BY <1>4 DEF DialogsAnswered
  <2> QED
    BY <2>1 DEF ListedForAReason
<1>5. ASSUME NEW c \in chains, NEW got \in SUBSET c.ask, NEW names \in [Users -> Names],
             InfosAnswered(c, got, names)
      PROVE ListedForAReason'
  BY <1>5 DEF InfosAnswered, ListedForAReason
<1>6. ASSUME NEW members \in SUBSET Users, NEW names \in [Users -> Names],
             ChatsAnswered(members, names)
      PROVE ListedForAReason'
  <2> DEFINE update == {u \in Users : infos'[u] # None /\ Wanted(u, added, removed)}
             lost   == (update \cap Noted) \ Listed
             drop   == {u \in Listed \cup update : ~Wanted(u, added \ lost, removed \cup lost)}
             after(u) == Updated(buddies[u], nodes[u], infos'[u])
  <2>1. /\ buddies' = [u \in Users |-> IF u \in drop THEN None
                                       ELSE IF u \in update THEN after(u) ELSE buddies[u]]
        /\ removed' = removed \cup lost /\ added' = added \ lost
        /\ UNCHANGED <<onlyFriends, friendIds, dialogIds, convs>>
    BY <1>6 DEF ChatsAnswered, MarkRemoved
  <2>2. ASSUME NEW u \in Listed' PROVE Wanted(u, added, removed)'
    <3>1. u \in Users
      BY DEF Listed
    <3>2. u \notin drop /\ u \in Listed \cup update
      <4> HIDE DEF drop, update, lost, after
      <4> QED
        BY <2>1, <2>2, <3>1 DEF Listed
    <3>3. Wanted(u, added \ lost, removed \cup lost)
      BY <3>2
    <3> HIDE DEF drop, update, lost, after
    <3> QED
      BY <2>1, <3>3 DEF Wanted
  <2> QED
    BY <2>2 DEF ListedForAReason
<1>7. ASSUME NEW f \in fetches, NEW ok \in BOOLEAN, NEW names \in [Users -> Names],
             FetchAnswered(f, ok, names)
      PROVE ListedForAReason'
  <2>1. f.user \in Users
    BY DEF TypeOK
  <2>2. Kept(f.user, buddies[f.user])
    BY <2>1, KeptNow DEF RenameInv
  <2>3. Effect(f.user, buddies[f.user], added, removed)
    BY <1>7, <2>2, FetchEffect
  <2>4. session = "on" /\ added \in SUBSET Users /\ removed \in SUBSET Users
    BY <1>7 DEF FetchAnswered, MarksInv, TypeOK
  <2>5. dialogIds \subseteq dialogIds' /\ UNCHANGED <<session, onlyFriends, friendIds, convs, closing, chains>>
    BY <1>7 DEF FetchAnswered
  <2> QED
    BY <2>1, <2>3, <2>4, <2>5, EffectReasons
<1>8. ASSUME NEW u \in Users, Contact(u) PROVE ListedForAReason'
  <2>1. AddIfNeeded(u, buddies[u], added, removed, FALSE)
    BY <1>8 DEF Contact
  <2>2. Kept(u, buddies[u])
    BY KeptNow DEF RenameInv
  <2>3. FALSE \in BOOLEAN /\ added \in SUBSET Users /\ removed \in SUBSET Users
    BY DEF TypeOK
  <2>4. Effect(u, buddies[u], added, removed)
    BY <2>1, <2>2, <2>3, AddIfNeededEffect, Zenon
  <2>5. session = "on" /\ UNCHANGED <<session, onlyFriends, friendIds, convs, closing, chains>>
    BY <1>8 DEF Contact
  <2>6. dialogIds \subseteq dialogIds'
    BY <2>1 DEF AddIfNeeded
  <2> QED
    BY <2>3, <2>4, <2>5, <2>6, EffectReasons
<1>9. ASSUME NEW u \in Users, NEW alias \in BOOLEAN, NEW b \in {buddies[u], None},
             AddBuddy(u, alias, b)
      PROVE ListedForAReason'
  <2> DEFINE plus == added \cup {u}
             minus == removed \ {u}
  <2>1. AddIfNeeded(u, b, plus, minus, alias)
    BY <1>9 DEF AddBuddy
  <2>2. Kept(u, b)
    BY KeptNow DEF RenameInv
  <2>3. /\ plus \in SUBSET Users /\ minus \in SUBSET Users
        /\ added \subseteq plus /\ plus \subseteq added \cup {u}
        /\ minus \subseteq removed /\ removed \subseteq minus \cup {u}
    BY DEF TypeOK
  <2> HIDE DEF plus, minus
  <2>4. Effect(u, b, plus, minus)
    BY <2>1, <2>2, <2>3, AddIfNeededEffect, Zenon
  <2>5. session = "on" /\ UNCHANGED <<session, onlyFriends, friendIds, convs, closing, chains>>
    BY <1>9 DEF AddBuddy
  <2>6. dialogIds \subseteq dialogIds'
    BY <2>1 DEF AddIfNeeded
  <2> QED
    BY <2>3, <2>4, <2>5, <2>6, EffectReasons
<1>10. ASSUME NEW u \in Users, UserRemoves(u) PROVE ListedForAReason'
  <2>1. CASE session = "on"
    <3>1. /\ buddies' = [buddies EXCEPT ![u] = None]
          /\ removed' = removed \cup {u} /\ added' = added \ {u}
          /\ UNCHANGED <<session, onlyFriends, lists, requests, convs, unchecked>>
      BY <1>10, <2>1 DEF UserRemoves, MarkRemoved
    <3>2. \A v \in Listed' : v \in Listed /\ v # u
      BY <3>1 DEF Listed, TypeOK
    <3>3. \A v \in Listed' : Wanted(v, added, removed) => Wanted(v, added, removed)'
      BY <3>1, <3>2 DEF Wanted
    <3> QED
      BY <3>1, <3>2, <3>3 DEF ListedForAReason
  <2>2. CASE session = "off"
    BY <1>10, <2>2 DEF UserRemoves, ListedForAReason
  <2> QED
    BY <2>1, <2>2 DEF TypeOK
<1>11. ASSUME NEW u \in Users, NEW alias \in Names \cup {Mine}, UserRenames(u, alias)
      PROVE ListedForAReason'
  <2>1. UNCHANGED <<session, onlyFriends, lists, marks, requests, convs, unchecked>>
        /\ buddies' = [buddies EXCEPT ![u] = [buddies[u] EXCEPT !.alias = alias]] /\ buddies[u] # None
    BY <1>11 DEF UserRenames, TypeOK
  <2>2. Listed' \subseteq Listed
    BY <2>1 DEF Listed, TypeOK
  <2> QED
    BY <2>1, <2>2 DEF ListedForAReason, Wanted
<1>12. ASSUME NEW u \in Users, OpenConv(u) \/ CloseConv(u) PROVE ListedForAReason'
  <2>1. Listed' = Listed /\ UNCHANGED <<session, onlyFriends, lists, marks, chains, unchecked>>
    BY <1>12 DEF OpenConv, CloseConv, Listed
  <2>2. session = "on" => closing \subseteq closing' /\ convs \subseteq convs' \cup closing'
    BY <1>12 DEF OpenConv, CloseConv
  <2> QED
    BY <2>1, <2>2 DEF ListedForAReason, Wanted
<1>13. ASSUME NEW u \in Users, CloseDue(u) PROVE ListedForAReason'
  <2> DEFINE U == IF Wanted(u, added, removed) THEN {} ELSE {u} \cap Listed
  <2>1. RemoveBuddies(U) /\ closing' = closing \ {u}
        /\ UNCHANGED <<session, onlyFriends, lists, marks, chains, convs, unchecked>>
    BY <1>13 DEF CloseDue
  <2>2. \A v \in Listed' : v \in Listed /\ (v = u => Wanted(v, added, removed))
    BY <2>1 DEF RemoveBuddies, Listed
  <2>3. \A v \in Users : Wanted(v, added, removed)' <=> Wanted(v, added, removed)
    BY <2>1 DEF Wanted
  <2> QED
    BY <2>1, <2>2, <2>3 DEF ListedForAReason, Listed
<1>14. ASSUME NEW R \in SUBSET Users, Login(R) PROVE ListedForAReason'
  BY <1>14 DEF Login, ListedForAReason
<1>15. CASE Close \/ Crash
  <2>1. session' = "off"
    BY <1>15 DEF Close, Crash, SessionOver
  <2> QED
    BY <2>1 DEF ListedForAReason
<1>16. CASE UNCHANGED vars
  BY <1>16 DEF vars, ListedForAReason, Wanted, Listed
<1> QED
  BY <1>1, <1>2, <1>3, <1>4, <1>5, <1>6, <1>7, <1>8, <1>9, <1>10, <1>11, <1>12, <1>13, <1>14,
     <1>15, <1>16 DEF Next

-----------------------------------------------------------------------------
(* Friends *)

\* Between friends.getOnline and friends.get the friends are misjudged, and
\* what friends.get has told has names.
FriendsInv ==
    /\ told # friendIds => Chain("friends", {}) \in chains
    /\ \A u \in told : infos[u] \in Names
    /\ FriendsAreListed

\* Nobody but those removed or added by hand leaves the list while no update is
\* under way.
LEMMA StaysListed ==
    ASSUME FriendsAreListed,
           Listed \subseteq Listed' \cup gone' \cup picked',
           gone \cup picked \subseteq gone' \cup picked',
           UNCHANGED <<session, chains, told>>
    PROVE  FriendsAreListed'
  BY DEF FriendsAreListed

LEMMA EffectStays ==
    ASSUME NEW u \in Users, NEW b, NEW plus, NEW minus, Effect(u, b, plus, minus),
           b = buddies[u] \/ u \in picked'
    PROVE  Listed \subseteq Listed' \cup picked'
<1>1. ASSUME NEW v \in Listed, v # u PROVE v \in Listed'
  BY <1>1 DEF Effect, Listed
<1>2. ASSUME u \in Listed PROVE u \in Listed' \cup picked'
  BY <1>2 DEF Effect, Listed
<1> QED
  BY <1>1, <1>2

LEMMA UpdateLists ==
    ASSUME TypeOK, MarksInv, FriendsInv, NEW members \in SUBSET Users,
           NEW names \in [Users -> Names], ChatsAnswered(members, names)
    PROVE  FriendsAreListed'
<1> DEFINE update == {u \in Users : infos'[u] # None /\ Wanted(u, added, removed)}
           lost   == (update \cap Noted) \ Listed
           drop   == {u \in Listed \cup update : ~Wanted(u, added \ lost, removed \cup lost)}
           after(u) == Updated(buddies[u], nodes[u], infos'[u])
<1> USE DEF listVars, lists, marks, requests, histVars
<1> SUFFICES ASSUME chains' = {}, NEW u \in told, u \notin gone \cup picked
             PROVE  u \in Listed'
  BY DEF ChatsAnswered, FriendsAreListed
<1>1. u \in Users /\ u \in friendIds
  <2>1. chains' = chains \ {Chain("chats", {})}
    BY DEF ChatsAnswered
  <2>2. Chain("friends", {}) # Chain("chats", {})
    BY DEF Chain
  <2> QED
    BY <2>1, <2>2 DEF FriendsInv, TypeOK
<1>2. infos' = Learned(members, names)
  BY DEF ChatsAnswered
<1>3. infos'[u] \in Names
  BY <1>1, <1>2 DEF Learned, FriendsInv
<1>4. infos'[u] # None /\ infos'[u] \in Aliases
  BY <1>3, BuddiesAssumption DEF Aliases
<1>5. u \notin removed /\ u \notin Noted \ Listed
  BY DEF MarksInv
<1>6. u \in update /\ u \notin lost
  BY <1>1, <1>4, <1>5 DEF Wanted
<1>7. u \notin drop
  BY <1>1, <1>5, <1>6 DEF Wanted
<1>8. after(u) # None
  BY <1>1, <1>4, UpdatedEntry DEF TypeOK
<1>9. buddies' = [v \in Users |-> IF v \in drop THEN None
                                  ELSE IF v \in update THEN after(v) ELSE buddies[v]]
  BY DEF ChatsAnswered
<1> HIDE DEF after, drop, lost, update
<1> QED
  BY <1>1, <1>6, <1>7, <1>8, <1>9 DEF Listed

LEMMA FriendsStep == TypeOK /\ MarksInv /\ RenameInv /\ FriendsInv /\ [Next]_vars => FriendsInv'
<1> SUFFICES ASSUME TypeOK, MarksInv, RenameInv, FriendsInv, [Next]_vars PROVE FriendsInv'
  OBVIOUS
<1> USE DEF listVars, lists, marks, requests, histVars
<1>0. None \notin Names /\ NoName \notin Names
  BY BuddiesAssumption DEF Aliases
<1>1. CASE Restart \/ Refresh
  BY <1>1 DEF Restart, Refresh, FriendsInv, FriendsAreListed
<1>2. ASSUME NEW O \in SUBSET Users, OnlineAnswered(O) PROVE FriendsInv'
  BY <1>0, <1>2 DEF OnlineAnswered, FriendsInv, FriendsAreListed, TypeOK
<1>3. ASSUME NEW F \in SUBSET Users, NEW names \in [Users -> Names], FriendsAnswered(F, names)
      PROVE FriendsInv'
  BY <1>3 DEF FriendsAnswered, Learned, FriendsInv, FriendsAreListed, TypeOK
<1>4. ASSUME NEW D \in SUBSET Users, DialogsAnswered(D) PROVE FriendsInv'
  <2>1. chains' # {} /\ UNCHANGED <<friendIds, told, infos>>
    BY <1>4 DEF DialogsAnswered
  <2>2. Chain("friends", {}) \in chains => Chain("friends", {}) \in chains'
    BY <1>4 DEF DialogsAnswered, Chain
  <2> QED
    BY <2>1, <2>2 DEF FriendsInv, FriendsAreListed
<1>5. ASSUME NEW c \in chains, NEW got \in SUBSET c.ask, NEW names \in [Users -> Names],
             InfosAnswered(c, got, names)
      PROVE FriendsInv'
  <2>1. chains' # {} /\ UNCHANGED <<friendIds, told>> /\ infos' = Learned(got, names)
    BY <1>5 DEF InfosAnswered
  <2>2. Chain("friends", {}) \in chains => Chain("friends", {}) \in chains'
    BY <1>5 DEF InfosAnswered, Chain
  <2> QED
    BY <2>1, <2>2 DEF FriendsInv, FriendsAreListed, Learned, TypeOK
<1>6. ASSUME NEW members \in SUBSET Users, NEW names \in [Users -> Names],
             ChatsAnswered(members, names)
      PROVE FriendsInv'
  <2>1. UNCHANGED <<friendIds, told>> /\ infos' = Learned(members, names)
    BY <1>6 DEF ChatsAnswered
  <2>2. Chain("friends", {}) \in chains => Chain("friends", {}) \in chains'
    BY <1>6 DEF ChatsAnswered, Chain
  <2> QED
    BY <1>6, <2>1, <2>2, UpdateLists DEF FriendsInv, Learned, TypeOK
<1>7. ASSUME NEW f \in fetches, NEW ok \in BOOLEAN, NEW names \in [Users -> Names],
             FetchAnswered(f, ok, names)
      PROVE FriendsInv'
  <2>1. f.user \in Users
    BY DEF TypeOK
  <2>2. Kept(f.user, buddies[f.user])
    BY <2>1, KeptNow DEF RenameInv
  <2>3. Effect(f.user, buddies[f.user], added, removed)
    BY <1>7, <2>2, FetchEffect
  <2>4. UNCHANGED <<session, lists, chains, gone, picked>>
        /\ (infos' = infos \/ infos' = Learned({f.user}, names))
    BY <1>7 DEF FetchAnswered
  <2>5. FriendsAreListed'
    BY <2>1, <2>3, <2>4, EffectStays, StaysListed DEF FriendsInv
  <2> QED
    BY <2>1, <2>4, <2>5 DEF FriendsInv, Learned, TypeOK
<1>8. ASSUME NEW u \in Users, Contact(u) PROVE FriendsInv'
  <2>1. AddIfNeeded(u, buddies[u], added, removed, FALSE)
    BY <1>8 DEF Contact
  <2>2. Kept(u, buddies[u])
    BY KeptNow DEF RenameInv
  <2>3. FALSE \in BOOLEAN /\ added \in SUBSET Users /\ removed \in SUBSET Users
    BY DEF TypeOK
  <2>4. Effect(u, buddies[u], added, removed)
    BY <2>1, <2>2, <2>3, AddIfNeededEffect, Zenon
  <2>5. UNCHANGED <<session, friendIds, told, infos, chains, gone, picked>>
    BY <1>8 DEF Contact
  <2>6. FriendsAreListed'
    BY <2>4, <2>5, EffectStays, StaysListed DEF FriendsInv
  <2> QED
    BY <2>5, <2>6 DEF FriendsInv
<1>9. ASSUME NEW u \in Users, NEW alias \in BOOLEAN, NEW b \in {buddies[u], None},
             AddBuddy(u, alias, b)
      PROVE FriendsInv'
  <2> DEFINE plus == added \cup {u}
             minus == removed \ {u}
  <2>1. AddIfNeeded(u, b, plus, minus, alias)
    BY <1>9 DEF AddBuddy
  <2>2. Kept(u, b)
    BY KeptNow DEF RenameInv
  <2>3. plus \in SUBSET Users /\ minus \in SUBSET Users
    BY DEF TypeOK
  <2> HIDE DEF plus, minus
  <2>4. Effect(u, b, plus, minus)
    BY <2>1, <2>2, <2>3, AddIfNeededEffect, Zenon
  <2>5. /\ UNCHANGED <<session, friendIds, told, infos, chains>>
        /\ gone' = gone \ {u} /\ picked' = picked \cup {u}
    BY <1>9 DEF AddBuddy
  <2>6. FriendsAreListed'
    <3>1. Listed \subseteq Listed' \cup picked'
      BY <2>4, <2>5, EffectStays
    <3> QED
      BY <2>5, <3>1, StaysListed DEF FriendsInv
  <2> QED
    BY <2>5, <2>6 DEF FriendsInv
<1>10. ASSUME NEW u \in Users, UserRemoves(u) PROVE FriendsInv'
  <2>1. UNCHANGED <<session, friendIds, told, infos, chains>>
        /\ buddies' = [buddies EXCEPT ![u] = None]
    BY <1>10 DEF UserRemoves
  <2>2. FriendsAreListed'
    <3>1. CASE session = "on"
      <4>1. gone' = gone \cup {u} /\ picked' = picked \ {u}
        BY <1>10, <3>1 DEF UserRemoves
      <4>2. Listed \subseteq Listed' \cup {u}
        BY <2>1 DEF Listed, TypeOK
      <4> QED
        BY <2>1, <4>1, <4>2, StaysListed DEF FriendsInv
    <3>2. CASE session = "off"
      BY <2>1, <3>2 DEF FriendsAreListed
    <3> QED
      BY <3>1, <3>2 DEF TypeOK
  <2> QED
    BY <2>1, <2>2 DEF FriendsInv
<1>11. ASSUME NEW u \in Users, NEW alias \in Names \cup {Mine}, UserRenames(u, alias)
      PROVE FriendsInv'
  <2> DEFINE entry == [buddies[u] EXCEPT !.alias = alias]
  <2>1. /\ buddies' = [buddies EXCEPT ![u] = entry]
        /\ UNCHANGED <<session, friendIds, told, infos, chains, gone, picked>>
    BY <1>11 DEF UserRenames, TypeOK
  <2>2. entry # None
    <3>1. alias \in Aliases /\ buddies[u] \in Entries
      BY <1>11 DEF UserRenames, Aliases, TypeOK
    <3>2. entry \in Entries
      BY <3>1 DEF Entries
    <3> HIDE DEF Entries, Aliases, entry
    <3> QED
      BY <3>2, BuddiesAssumption
  <2> HIDE DEF entry
  <2>3. Listed \subseteq Listed'
    BY <2>1, <2>2 DEF Listed, TypeOK
  <2>4. FriendsAreListed'
    BY <2>1, <2>3, StaysListed DEF FriendsInv
  <2> QED
    BY <2>1, <2>4 DEF FriendsInv
<1>12. ASSUME NEW u \in Users, OpenConv(u) \/ CloseConv(u) PROVE FriendsInv'
  BY <1>12 DEF OpenConv, CloseConv, FriendsInv, FriendsAreListed, Listed
<1>13. ASSUME NEW u \in Users, CloseDue(u) PROVE FriendsInv'
  <2> DEFINE U == IF Wanted(u, added, removed) THEN {} ELSE {u} \cap Listed
  <2>1. RemoveBuddies(U)
        /\ UNCHANGED <<session, friendIds, told, infos, chains, removed, gone, picked>>
    BY <1>13 DEF CloseDue
  <2>2. Listed \subseteq Listed' \cup U
    BY <2>1 DEF RemoveBuddies, Listed
  <2>3. U \cap friendIds \subseteq gone \cup picked
    BY DEF Wanted, MarksInv
  <2> HIDE DEF U
  <2>4. FriendsAreListed'
    BY <2>1, <2>2, <2>3 DEF FriendsInv, FriendsAreListed
  <2> QED
    BY <2>1, <2>4 DEF FriendsInv
<1>14. ASSUME NEW R \in SUBSET Users, Login(R) PROVE FriendsInv'
  <2>1. chains' # {} /\ UNCHANGED <<friendIds, told, infos>> /\ session = "off"
    BY <1>14 DEF Login
  <2>2. told = friendIds
    BY <2>1 DEF FriendsInv, MarksInv
  <2> QED
    BY <2>1, <2>2 DEF FriendsInv, FriendsAreListed
<1>15. CASE Close \/ Crash
  <2>1. session' = "off" /\ told' = {} /\ friendIds' = {}
    BY <1>15 DEF Close, Crash, SessionOver
  <2> QED
    BY <2>1 DEF FriendsInv, FriendsAreListed
<1>16. CASE UNCHANGED vars
  BY <1>16 DEF vars, FriendsInv, FriendsAreListed, Listed
<1> QED
  BY <1>1, <1>2, <1>3, <1>4, <1>5, <1>6, <1>7, <1>8, <1>9, <1>10, <1>11, <1>12, <1>13, <1>14,
     <1>15, <1>16 DEF Next

-----------------------------------------------------------------------------
(* Theorems *)

Inv == TypeOK /\ MarksInv /\ RenameInv /\ FriendsInv /\ ListedForAReason

LEMMA InitInv == Init => Inv
<1> SUFFICES ASSUME Init PROVE Inv
  OBVIOUS
<1>1. TypeOK
  BY BuddiesAssumption DEF Init, TypeOK
<1>2. Listed = {} /\ Noted = {}
  BY DEF Init, Listed, Noted
<1> QED
  BY <1>1, <1>2 DEF Init, Inv, MarksInv, ChoicesAreRemembered, RenameInv, RenameIsKept,
                   FriendsInv, FriendsAreListed, ListedForAReason

LEMMA InvStep == Inv /\ [Next]_vars => Inv'
  BY TypeStep, MarksStep, RenameStep, FriendsStep, ReasonStep DEF Inv, RenameInv

LEMMA Invariance == Spec => []Inv
<1> HIDE DEF Init, Inv, Next, vars
<1> QED
  BY InitInv, InvStep, PTL DEF Spec

\* Entries are entries, notes are aliases, and requests are those that update
\* the list: the types are kept however the callbacks of vk-buddy.cpp interleave.
THEOREM TypeCorrect == Spec => []TypeOK
<1>1. Inv => TypeOK
  BY DEF Inv
<1> QED
  BY <1>1, Invariance, PTL

\* Whoever is listed when no update is under way is wanted, or his entry has
\* not been looked at since it was made (update_blist, remove_buddy_if_needed).
THEOREM ReasonIsKnown == Spec => []ListedForAReason
<1>1. Inv => ListedForAReason
  BY DEF Inv
<1> QED
  BY <1>1, Invariance, PTL

\* When no update is under way, all friends are listed but those the user has
\* removed or added by hand (update_blist, update_blist_buddy).
THEOREM FriendsStay == Spec => []FriendsAreListed
<1>1. Inv => FriendsAreListed
  BY DEF Inv, FriendsInv
<1> QED
  BY <1>1, Invariance, PTL

\* Additions and removals by hand outlive sessions and crashes of the program
\* after a session that was closed (VkData, check_blist_on_logout).
THEOREM ChoicesStay == Spec => []ChoicesAreRemembered
<1>1. Inv => ChoicesAreRemembered
  BY DEF Inv, MarksInv
<1> QED
  BY <1>1, Invariance, PTL

\* An alias of the user's choice is never replaced by the name of the user
\* (update_buddy_in_blist, check_customized_alias).
THEOREM RenameStays == Spec => []RenameIsKept
<1>1. Inv => RenameIsKept
  BY DEF Inv, RenameInv
<1> QED
  BY <1>1, Invariance, PTL

LEMMA DropStep == Inv /\ [Next]_vars =>
    \A u \in Listed \cap told : session' = "on" /\ buddies'[u] = None =>
        u \in removed' \cup picked' \/ (Chain("friends", {}) \in chains /\ u \notin friendIds)
<1> SUFFICES ASSUME Inv, [Next]_vars, NEW u \in Listed \cap told, session' = "on",
                    buddies'[u] = None, u \in friendIds
             PROVE  u \in removed' \cup picked'
  BY DEF Inv, FriendsInv
<1> USE DEF listVars, lists, marks, requests, histVars
<1>0. TypeOK /\ RenameIsKept /\ u \in Users /\ buddies[u] # None /\ u \in friendIds
  BY DEF Inv, RenameInv, Listed
<1>1. CASE UNCHANGED buddies
  BY <1>0, <1>1
<1>2. ASSUME NEW members \in SUBSET Users, NEW names \in [Users -> Names],
             ChatsAnswered(members, names)
      PROVE u \in removed'
  <2> DEFINE update == {v \in Users : infos'[v] # None /\ Wanted(v, added, removed)}
             lost   == (update \cap Noted) \ Listed
             drop   == {v \in Listed \cup update : ~Wanted(v, added \ lost, removed \cup lost)}
             after(v) == Updated(buddies[v], nodes[v], infos'[v])
  <2>1. /\ buddies' = [v \in Users |-> IF v \in drop THEN None
                                       ELSE IF v \in update THEN after(v) ELSE buddies[v]]
        /\ removed' = removed \cup lost
    BY <1>2 DEF ChatsAnswered, MarkRemoved
  <2>2. infos' \in [Users -> Names \cup {NoName, None}]
    BY <1>0, <1>2 DEF ChatsAnswered, Learned, TypeOK
  <2>3. ASSUME u \in update PROVE after(u) # None
    <3>1. infos'[u] \in Aliases
      BY <1>0, <2>2, <2>3 DEF Aliases
    <3> QED
      BY <1>0, <3>1, UpdatedEntry DEF TypeOK
  <2>4. u \in drop
    <3> HIDE DEF drop, update, lost, after
    <3> QED
      BY <1>0, <2>1, <2>3
  <2>5. u \in removed \cup lost
    BY <1>0, <2>4 DEF Wanted
  <2> QED
    BY <2>1, <2>5
<1>3. ASSUME NEW f \in fetches, NEW ok \in BOOLEAN, NEW names \in [Users -> Names],
             FetchAnswered(f, ok, names)
      PROVE FALSE
  <2>1. f.user \in Users
    BY <1>0 DEF TypeOK
  <2>2. Kept(f.user, buddies[f.user])
    BY <1>0, <2>1, KeptNow
  <2>3. Effect(f.user, buddies[f.user], added, removed)
    BY <1>0, <1>3, <2>2, FetchEffect
  <2> QED
    BY <1>0, <2>3 DEF Effect
<1>4. ASSUME NEW v \in Users, Contact(v) PROVE FALSE
  <2>1. AddIfNeeded(v, buddies[v], added, removed, FALSE)
    BY <1>4 DEF Contact
  <2>2. Kept(v, buddies[v])
    BY <1>0, KeptNow
  <2>3. FALSE \in BOOLEAN /\ added \in SUBSET Users /\ removed \in SUBSET Users
    BY <1>0 DEF TypeOK
  <2>4. Effect(v, buddies[v], added, removed)
    BY <1>0, <2>1, <2>2, <2>3, AddIfNeededEffect, Zenon
  <2> QED
    BY <1>0, <2>4 DEF Effect
<1>5. ASSUME NEW v \in Users, NEW alias \in BOOLEAN, NEW b \in {buddies[v], None},
             AddBuddy(v, alias, b)
      PROVE u \in picked'
  <2> DEFINE plus == added \cup {v}
             minus == removed \ {v}
  <2>1. AddIfNeeded(v, b, plus, minus, alias)
    BY <1>5 DEF AddBuddy
  <2>2. Kept(v, b)
    BY <1>0, KeptNow
  <2>3. plus \in SUBSET Users /\ minus \in SUBSET Users
    BY <1>0 DEF TypeOK
  <2> HIDE DEF plus, minus
  <2>4. Effect(v, b, plus, minus)
    BY <1>0, <2>1, <2>2, <2>3, AddIfNeededEffect, Zenon
  <2>5. u = v
    BY <1>0, <2>4 DEF Effect
  <2> QED
    BY <1>5, <2>5 DEF AddBuddy
<1>6. ASSUME NEW v \in Users, UserRemoves(v) PROVE u \in removed'
  <2>1. u = v
    BY <1>0, <1>6 DEF UserRemoves, TypeOK
  <2>2. session = "on"
    BY <1>6 DEF UserRemoves
  <2> QED
    BY <1>6, <2>1, <2>2 DEF UserRemoves, MarkRemoved
<1>7. ASSUME NEW v \in Users, NEW alias \in Names \cup {Mine}, UserRenames(v, alias) PROVE FALSE
  <2> DEFINE entry == [buddies[v] EXCEPT !.alias = alias]
  <2>1. buddies' = [buddies EXCEPT ![v] = entry]
    BY <1>0, <1>7 DEF UserRenames, TypeOK
  <2>2. entry # None
    <3>1. alias \in Aliases /\ buddies[v] \in Entries
      BY <1>0, <1>7 DEF UserRenames, Aliases, TypeOK
    <3>2. entry \in Entries
      BY <3>1 DEF Entries
    <3> HIDE DEF Entries, Aliases, entry
    <3> QED
      BY <3>2, BuddiesAssumption
  <2> HIDE DEF entry
  <2> QED
    BY <1>0, <2>1, <2>2 DEF TypeOK
<1>8. ASSUME NEW v \in Users, CloseDue(v) PROVE u \in removed'
  <2> DEFINE U == IF Wanted(v, added, removed) THEN {} ELSE {v} \cap Listed
  <2>1. RemoveBuddies(U) /\ removed' = removed
    BY <1>8 DEF CloseDue
  <2>2. u \in U
    <3> HIDE DEF U
    <3> QED
      BY <1>0, <2>1 DEF RemoveBuddies
  <2> QED
    BY <1>0, <2>1, <2>2 DEF Wanted
<1>9. CASE Close \/ Crash
  BY <1>9 DEF Close, Crash, SessionOver
<1> QED
  <2>1. ASSUME \/ Restart \/ Refresh
               \/ \E O \in SUBSET Users : OnlineAnswered(O)
               \/ \E D \in SUBSET Users : DialogsAnswered(D)
               \/ \E F \in SUBSET Users, names \in [Users -> Names] : FriendsAnswered(F, names)
               \/ \E c \in chains, names \in [Users -> Names] :
                     \E got \in SUBSET c.ask : InfosAnswered(c, got, names)
               \/ \E v \in Users : OpenConv(v) \/ CloseConv(v)
               \/ \E R \in SUBSET Users : Login(R)
               \/ UNCHANGED vars
        PROVE UNCHANGED buddies
    BY <2>1 DEF Restart, Refresh, OnlineAnswered, DialogsAnswered, FriendsAnswered,
                InfosAnswered, OpenConv, CloseConv, Login, vars
  <2> QED
    BY <1>1, <1>2, <1>3, <1>4, <1>5, <1>6, <1>7, <1>8, <1>9, <2>1 DEF Next

\* A friend is dropped from the list only if he was removed or added by hand,
\* or while friends.get has not answered (update_blist, remove_buddy_if_needed).
THEOREM FriendsAreNotDropped == Spec => FriendIsNotDropped
<1> DEFINE Kind == \A u \in Listed \cap told : session' = "on" /\ buddies'[u] = None =>
                      u \in removed' \cup picked' \/ (Chain("friends", {}) \in chains /\ u \notin friendIds)
<1>1. Inv /\ [Next]_vars => [Kind]_vars
  BY DropStep
<1> HIDE DEF Kind, Inv
<1>2. Spec => [][Kind]_vars
  BY <1>1, Invariance, PTL DEF Spec
<1> QED
  BY <1>2 DEF FriendIsNotDropped, Kind

\* Both halves of what the list promises, and of what the user did by hand, for
\* any number of users, updates and crashes.
THEOREM ListIsKept == Spec => []ListInv
<1>1. ListedForAReason /\ FriendsAreListed => ListInv
  BY DEF ListInv
<1> QED
  BY <1>1, ReasonIsKnown, FriendsStay, PTL

\* Additions, removals and aliases of the user stay, across sessions and crashes.
THEOREM HandIsKept == Spec => []HandInv
<1>1. ChoicesAreRemembered /\ RenameIsKept => HandInv
  BY DEF HandInv
<1> QED
  BY <1>1, ChoicesStay, RenameStays, PTL

=============================================================================
