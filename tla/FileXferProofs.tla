--------------------------- MODULE FileXferProofs ---------------------------
(***************************************************************************)
(* Theorems about FileXfer, for any number of transfers, files, repetitions*)
(* and crashes.                                                            *)
(***************************************************************************)
EXTENDS FileXfer, TLAPS

Records == [at : Stages, file : Files, status : Statuses, refs : Int,
            existing : SUBSET Nat, seen : Nat, doc : Nat, watched : BOOLEAN,
            retries : 0..MaxHttpRetries, sends : Nat]

\* What holds of one transfer; o says whether it is overdrawn.
Balanced(x, o) ==
    /\ x.at = "new" => x.status = "active" /\ x.refs = 1 /\ ~o
    /\ x.at \in Busy \cup {"gone"} =>
          /\ x.status \in {"active", "cancelled"}
          /\ x.refs = IF x.status = "active" THEN 2 ELSE 1
          /\ ~o
    /\ x.at = "end" => x.refs = IF o THEN -1 ELSE 0
    /\ x.at # "end" => x.sends = 0
    /\ x.at = "retry" => x.retries < MaxHttpRetries

Fine(x, o) == x \in Records /\ Balanced(x, o)

\* Nothing is in progress without a session.
Quiet == session = "off" => \A t \in Transfers : xfer[t].at \notin Busy

IInv == TypeOK /\ (\A t \in Transfers : Balanced(xfer[t], t \in overdrawn)) /\ Quiet

(***************************************************************************)
(* A step of one transfer keeps the invariant, if it leaves the transfer   *)
(* in order and is one of a session or begins and ends outside of one.     *)
(***************************************************************************)
LEMMA OneStep ==
    ASSUME IInv, NEW t \in Transfers, NEW y, Become(t, y),
           Fine(y, t \in overdrawn'), UNCHANGED session,
           session = "on" \/ y.at \notin Busy,
           overdrawn' \in {overdrawn, overdrawn \cup {t}}
    PROVE  /\ xfer' \in [Transfers -> Records]
           /\ \A u \in Transfers : Balanced(xfer'[u], u \in overdrawn')
           /\ Quiet'
           /\ overdrawn' \in SUBSET Transfers
<1>1. xfer \in [Transfers -> Records]
  BY DEF IInv, TypeOK, Records
<1>2. xfer' = [xfer EXCEPT ![t] = y] /\ y \in Records
  BY DEF Become, Fine
<1>3. xfer' \in [Transfers -> Records]
  BY <1>1, <1>2
<1>4. ASSUME NEW u \in Transfers PROVE Balanced(xfer'[u], u \in overdrawn')
  <2>1. CASE u = t
    BY <1>1, <1>2, <2>1 DEF Fine
  <2>2. CASE u # t
    <3>1. xfer'[u] = xfer[u] /\ (u \in overdrawn') = (u \in overdrawn)
      BY <1>1, <1>2, <2>2
    <3> QED BY <3>1 DEF IInv
  <2> QED BY <2>1, <2>2
<1>5. Quiet'
  <2> SUFFICES ASSUME session' = "off", NEW u \in Transfers PROVE xfer'[u].at \notin Busy
    BY DEF Quiet
  <2>1. CASE u = t
    BY <1>1, <1>2, <2>1
  <2>2. CASE u # t
    BY <1>1, <1>2, <2>2 DEF IInv, Quiet
  <2> QED BY <2>1, <2>2
<1>6. overdrawn' \in SUBSET Transfers
  BY DEF IInv, TypeOK
<1> QED BY <1>3, <1>4, <1>5, <1>6

(***************************************************************************)
(* What the ways to end a transfer make of its record.                     *)
(***************************************************************************)
LEMMA FiniValue ==
    ASSUME NEW x \in Records
    PROVE  /\ Fini(x) \in Records
           /\ Fini(x).at = "end" /\ Fini(x).refs = x.refs - 1
           /\ Fini(x).status = x.status /\ Fini(x).sends = x.sends
<1>1. "end" \in Stages
  BY DEF Stages, Ended
<1>2. x.refs - 1 \in Int
  BY DEF Records
<1> QED BY <1>1, <1>2 DEF Fini, Records

LEMMA OverValue ==
    ASSUME NEW x \in Records
    PROVE  /\ Over(x) \in Records
           /\ Over(x).at = x.at /\ Over(x).refs = x.refs - 1
           /\ Over(x).status = "over" /\ Over(x).sends = x.sends
<1>1. "over" \in Statuses
  BY DEF Statuses
<1>2. x.refs - 1 \in Int
  BY DEF Records
<1> QED BY <1>1, <1>2 DEF Over, Records

LEMMA SendValue ==
    ASSUME NEW x \in Records
    PROVE  /\ Send(x) \in Records
           /\ Send(x).at = x.at /\ Send(x).refs = x.refs
           /\ Send(x).status = x.status /\ Send(x).sends = x.sends + 1
<1>1. x.sends + 1 \in Nat
  BY DEF Records
<1> QED BY <1>1 DEF Send, Records

(***************************************************************************)
(* Ending a transfer that is in progress leaves it in order.               *)
(***************************************************************************)
LEMMA EndIsFine ==
    ASSUME NEW x, Fine(x, FALSE), x.at \in Busy
    PROVE  /\ Fine(Failed(x), FALSE) /\ Failed(x).at = "end"
           /\ x.status = "cancelled" => Fine(Fini(x), FALSE) /\ Fini(x).at = "end"
<1>1. x \in Records /\ x.at # "end" /\ x.at # "new"
  BY DEF Fine, Busy
<1>2. /\ x.status \in {"active", "cancelled"} /\ x.sends = 0
      /\ x.refs = IF x.status = "active" THEN 2 ELSE 1
  BY <1>1 DEF Fine, Balanced
<1>3. ASSUME x.status = "cancelled" PROVE Fine(Fini(x), FALSE) /\ Fini(x).at = "end"
  BY <1>1, <1>2, <1>3, FiniValue DEF Fine, Balanced, Busy
<1>4. ASSUME x.status # "cancelled" PROVE Fine(Fini(Over(x)), FALSE) /\ Fini(Over(x)).at = "end"
  <2>1. Over(x) \in Records /\ Over(x).refs = 1
    BY <1>1, <1>2, <1>4, OverValue
  <2>2. Fini(Over(x)) \in Records /\ Fini(Over(x)).at = "end" /\ Fini(Over(x)).refs = 0
    BY <2>1, FiniValue
  <2> QED BY <2>2 DEF Fine, Balanced, Busy
<1> QED BY <1>3, <1>4 DEF Failed

(***************************************************************************)
(* So does sending a document: if the user has cancelled the transfer, it  *)
(* is overdrawn.                                                           *)
(***************************************************************************)
LEMMA SendIsFine ==
    ASSUME NEW x, Fine(x, FALSE), x.at \in Busy, NEW o \in BOOLEAN, o <=> x.status = "cancelled"
    PROVE  /\ Fine(Fini(Over(Send(x))), o)
           /\ Fini(Over(Send(x))).at = "end" /\ Fini(Over(Send(x))).sends = 1
<1>1. x \in Records /\ x.at # "end" /\ x.at # "new"
  BY DEF Fine, Busy
<1>2. /\ x.status \in {"active", "cancelled"} /\ x.sends = 0
      /\ x.refs = IF x.status = "active" THEN 2 ELSE 1
  BY <1>1 DEF Fine, Balanced
<1>3. Send(x) \in Records /\ Send(x).refs = x.refs /\ Send(x).sends = 1
  BY <1>1, <1>2, SendValue
<1>4. Over(Send(x)) \in Records /\ Over(Send(x)).refs = x.refs - 1 /\ Over(Send(x)).sends = 1
  BY <1>3, OverValue
<1>5. /\ Fini(Over(Send(x))) \in Records /\ Fini(Over(Send(x))).at = "end"
      /\ Fini(Over(Send(x))).refs = x.refs - 2 /\ Fini(Over(Send(x))).sends = 1
  BY <1>1, <1>4, FiniValue DEF Records
<1>6. x.refs - 2 = IF o THEN -1 ELSE 0
  BY <1>2
<1> QED BY <1>5, <1>6 DEF Fine, Balanced, Busy

(***************************************************************************)
(* Waiting for something else, or for nothing, changes neither references  *)
(* nor status.                                                             *)
(***************************************************************************)
LEMMA MoveIsFine ==
    ASSUME NEW x, Fine(x, FALSE), x.at \in Busy, NEW y \in Records, y.at \in Busy \cup {"gone"},
           y.status = x.status, y.refs = x.refs, y.sends = x.sends,
           y.at = "retry" => y.retries < MaxHttpRetries
    PROVE  Fine(y, FALSE)
  BY DEF Fine, Balanced, Busy

LEMMA NoAnswerIsFine ==
    ASSUME NEW x, Fine(x, FALSE), x.at = "upload"
    PROVE  Fine(NoAnswer(x), FALSE) /\ NoAnswer(x).at \in {"retry", "end"} /\ NoAnswer(x).sends = 0
<1>1. x \in Records /\ x.at \in Busy /\ x.sends = 0
  BY DEF Fine, Balanced, Busy
<1>2. [x EXCEPT !.at = "retry", !.watched = FALSE] \in Records
  BY <1>1 DEF Records, Stages, Busy
<1>3. ASSUME x.retries < MaxHttpRetries
      PROVE  Fine([x EXCEPT !.at = "retry", !.watched = FALSE], FALSE)
  <2> DEFINE z == [x EXCEPT !.at = "retry", !.watched = FALSE]
  <2>1. /\ z.at = "retry" /\ z.status = x.status /\ z.refs = x.refs /\ z.sends = x.sends
        /\ z.retries = x.retries
    BY <1>1 DEF Records
  <2> HIDE DEF z
  <2>2. z \in Records
    BY <1>2 DEF z
  <2>3. Fine(z, FALSE)
    BY <1>1, <1>3, <2>1, <2>2, MoveIsFine DEF Busy
  <2> QED BY <2>3 DEF z
<1> DEFINE y == [x EXCEPT !.watched = FALSE]
<1>4. y \in Records /\ y.at = x.at /\ y.status = x.status /\ y.refs = x.refs /\ y.sends = x.sends
  BY <1>1 DEF Records
<1>5. Fine(y, FALSE)
  BY <1>1, <1>4, MoveIsFine
<1> HIDE DEF y
<1>6. Fine(Failed(y), FALSE) /\ Failed(y).at = "end"
  BY <1>1, <1>4, <1>5, EndIsFine
<1>7. Failed(y).sends = 0
  BY <1>1, <1>4, FiniValue, OverValue DEF Failed
<1>8. [x EXCEPT !.at = "retry", !.watched = FALSE].at = "retry"
      /\ [x EXCEPT !.at = "retry", !.watched = FALSE].sends = 0
  BY <1>1 DEF Records
<1> QED BY <1>3, <1>6, <1>7, <1>8 DEF NoAnswer, y

(***************************************************************************)
(* What every action of one transfer does to it.                           *)
(***************************************************************************)
Moves(t) ==
    \/ Start(t) \/ Cancel(t) \/ Answer(t) \/ ProgressCancels(t) \/ Dropped(t)

LEMMA BusyIsFine ==
    ASSUME IInv, NEW t \in Transfers, xfer[t].at \in Busy
    PROVE  /\ Fine(xfer[t], FALSE) /\ xfer[t] \in Records /\ t \notin overdrawn
           /\ session = "on" /\ xfer[t].sends = 0
<1>1. xfer[t] \in Records /\ Balanced(xfer[t], t \in overdrawn)
  BY DEF IInv, TypeOK, Records
<1>2. t \notin overdrawn /\ xfer[t].sends = 0
  BY <1>1 DEF Balanced, Busy
<1>3. session = "on"
  BY DEF IInv, TypeOK, Quiet
<1>4. (t \in overdrawn) = FALSE
  BY <1>2
<1> QED BY <1>1, <1>2, <1>3, <1>4 DEF Fine

LEMMA FindOrUploadFine ==
    ASSUME IInv, NEW t \in Transfers, xfer[t].at \in Busy, NEW left, FindOrUpload(t, left),
           left \subseteq Nat
    PROVE  \E y : /\ Become(t, y) /\ Fine(y, t \in overdrawn')
                  /\ overdrawn' \in {overdrawn, overdrawn \cup {t}}
<1> DEFINE x == xfer[t]
<1>1. Fine(x, FALSE) /\ x \in Records /\ t \notin overdrawn /\ x.at \in Busy
  BY BusyIsFine
<1>4. CASE Become(t, [x EXCEPT !.at = "server", !.existing = {}, !.seen = 0]) /\ UNCHANGED overdrawn
  <2> DEFINE y == [x EXCEPT !.at = "server", !.existing = {}, !.seen = 0]
  <2>1. y \in Records /\ y.at = "server" /\ y.status = x.status /\ y.refs = x.refs /\ y.sends = x.sends
    BY <1>1 DEF Records, Stages, Busy
  <2> HIDE DEF y
  <2>2. Fine(y, FALSE)
    BY <1>1, <2>1, MoveIsFine DEF Busy
  <2>3. Fine(y, t \in overdrawn')
    <3>1. (t \in overdrawn') = FALSE
      BY <1>1, <1>4
    <3> QED BY <2>2, <3>1
  <2> QED BY <1>4, <2>3 DEF y
<1>5. ASSUME NEW d \in left,
             Become(t, Fini(Over(Send([x EXCEPT !.doc = d, !.existing = {}, !.seen = 0])))),
             overdrawn' = IF x.status = "cancelled" THEN overdrawn \cup {t} ELSE overdrawn
      PROVE  \E y : /\ Become(t, y) /\ Fine(y, t \in overdrawn')
                    /\ overdrawn' \in {overdrawn, overdrawn \cup {t}}
  <2> DEFINE y == [x EXCEPT !.doc = d, !.existing = {}, !.seen = 0]
  <2>1. /\ y \in Records /\ y.at = x.at /\ y.status = x.status /\ y.refs = x.refs
        /\ y.sends = x.sends /\ y.retries = x.retries
    BY <1>1 DEF Records
  <2> HIDE DEF y
  <2>2. Fine(y, FALSE)
    BY <1>1, <2>1, MoveIsFine DEF Fine, Balanced
  <2>3. (t \in overdrawn') \in BOOLEAN /\ ((t \in overdrawn') <=> y.status = "cancelled")
    BY <1>1, <1>5, <2>1
  <2>4. Fine(Fini(Over(Send(y))), t \in overdrawn')
    BY <1>1, <2>1, <2>2, <2>3, SendIsFine
  <2> QED BY <1>5, <2>4 DEF y
<1> QED BY <1>4, <1>5 DEF FindOrUpload

LEMMA MoveStep ==
    ASSUME IInv, NEW t \in Transfers, Moves(t)
    PROVE  /\ \E y : /\ Become(t, y) /\ Fine(y, t \in overdrawn')
                     /\ session = "on" \/ y.at \notin Busy
                     /\ overdrawn' \in {overdrawn, overdrawn \cup {t}}
           /\ session' = session
<1> DEFINE x == xfer[t]
           Goal(y) == /\ Become(t, y) /\ Fine(y, t \in overdrawn')
                      /\ session = "on" \/ y.at \notin Busy
                      /\ overdrawn' \in {overdrawn, overdrawn \cup {t}}
<1>1. x \in Records /\ Balanced(x, t \in overdrawn)
  BY DEF IInv, TypeOK, Records
<1>3. ASSUME NEW y, Become(t, y), Fine(y, FALSE), x.at \in Busy, UNCHANGED <<session, overdrawn>>
      PROVE  Goal(y)
  <2>1. t \notin overdrawn /\ session = "on"
    BY <1>3, BusyIsFine
  <2>2. (t \in overdrawn') = FALSE
    BY <1>3, <2>1
  <2> QED BY <1>3, <2>1, <2>2
<1>4. ASSUME Start(t) PROVE (\E y : Goal(y)) /\ session' = session
  <2> DEFINE h == [x EXCEPT !.refs = @ + 1]
             a == [h EXCEPT !.at = "listing"]
             b == [h EXCEPT !.status = "cancelled", !.refs = @ - 1]
  <2>1. x.at = "new" /\ x.status = "active" /\ x.refs = 1 /\ t \notin overdrawn /\ x.sends = 0
    BY <1>1, <1>4 DEF Start, Balanced
  <2>2. h \in Records /\ h.refs = 2 /\ h.sends = 0 /\ h.status = "active"
    <3>1. x.refs + 1 \in Int /\ x.refs + 1 = 2
      BY <2>1
    <3> QED BY <1>1, <2>1, <3>1 DEF Records
  <2> HIDE DEF h
  <2>3. a \in Records /\ a.refs = 2 /\ a.sends = 0 /\ a.status = "active" /\ a.at = "listing"
    BY <2>2 DEF Records, Stages, Busy
  <2>4. b \in Records /\ b.refs = 1 /\ b.sends = 0
    <3>1. h.refs - 1 \in Int /\ h.refs - 1 = 1 /\ "cancelled" \in Statuses
      BY <2>2 DEF Statuses
    <3> QED BY <2>2, <3>1 DEF Records
  <2>5. (t \in overdrawn') = FALSE
    BY <1>4, <2>1 DEF Start
  <2>6. session = "on" /\ session' = session /\ overdrawn' = overdrawn
    BY <1>4 DEF Start
  <2>7. Become(t, a) \/ Become(t, Fini(b)) \/ Become(t, Fini(Over(h)))
    BY <1>4 DEF Start, h
  <2> HIDE DEF a, b
  <2>8. Fine(a, FALSE)
    BY <2>3 DEF Fine, Balanced, Busy
  <2>9. Fine(Fini(b), FALSE)
    BY <2>4, FiniValue DEF Fine, Balanced, Busy
  <2>10. Fine(Fini(Over(h)), FALSE)
    <3>1. Over(h) \in Records /\ Over(h).refs = 1
      BY <2>2, OverValue
    <3>2. Fini(Over(h)) \in Records /\ Fini(Over(h)).refs = 0 /\ Fini(Over(h)).at = "end"
      BY <3>1, FiniValue
    <3> QED BY <3>2 DEF Fine, Balanced, Busy
  <2> QED BY <2>5, <2>6, <2>7, <2>8, <2>9, <2>10
<1>5. ASSUME Cancel(t) PROVE (\E y : Goal(y)) /\ session' = session
  <2> DEFINE y == [x EXCEPT !.status = "cancelled", !.refs = @ - 1]
  <2>1. x.at \in Busy \cup {"gone"} /\ x.refs = 2 /\ t \notin overdrawn /\ x.sends = 0
    BY <1>1, <1>5 DEF Cancel, Balanced, Busy
  <2>2. /\ y \in Records /\ y.at = x.at /\ y.refs = 1 /\ y.sends = 0 /\ y.status = "cancelled"
        /\ y.retries = x.retries
    <3>1. x.refs - 1 \in Int /\ x.refs - 1 = 1 /\ "cancelled" \in Statuses
      BY <2>1 DEF Statuses
    <3> QED BY <1>1, <2>1, <3>1 DEF Records
  <2>3. (t \in overdrawn') = FALSE /\ overdrawn' = overdrawn /\ session' = session
    BY <1>5, <2>1 DEF Cancel
  <2>4. session = "on" \/ x.at \notin Busy
    BY BusyIsFine
  <2>5. Become(t, y)
    BY <1>5 DEF Cancel
  <2> HIDE DEF y
  <2>6. Fine(y, FALSE)
    BY <1>1, <2>1, <2>2 DEF Fine, Balanced, Busy
  <2> QED BY <2>2, <2>3, <2>4, <2>5, <2>6
<1>6. ASSUME Listed(t) \/ ListFails(t) PROVE (\E y : Goal(y)) /\ session' = session
  <2>1. x.at \in Busy /\ session' = session
    BY <1>6 DEF Listed, ListFails, Busy
  <2>2. session = "on"
    BY <2>1, BusyIsFine
  <2>3. \E left : FindOrUpload(t, left) /\ left \subseteq Nat
    <3>1. CASE Listed(t)
      BY <3>1 DEF Listed, IInv, TypeOK
    <3>2. CASE ListFails(t)
      BY <3>2 DEF ListFails
    <3> QED BY <1>6, <3>1, <3>2
  <2>4. PICK left : FindOrUpload(t, left) /\ left \subseteq Nat
    BY <2>3
  <2> QED BY <2>1, <2>2, <2>4, FindOrUploadFine
<1>7. ASSUME NEW y \in Records, y.at \in Busy \cup {"gone"}, x.at \in Busy, Become(t, y),
             y.status = x.status, y.refs = x.refs, y.sends = x.sends, y.at # "retry",
             UNCHANGED <<session, overdrawn>>
      PROVE  (\E z : Goal(z)) /\ session' = session
  <2>1. Fine(x, FALSE)
    BY <1>7, BusyIsFine
  <2>2. Fine(y, FALSE)
    BY <1>7, <2>1, MoveIsFine
  <2>3. Goal(y)
    BY <1>3, <1>7, <2>2
  <2> QED BY <1>7, <2>3
<1>8. ASSUME ServerLists(t) PROVE (\E y : Goal(y)) /\ session' = session
  <2> DEFINE y == [x EXCEPT !.at = "listed", !.existing = Ids \ deleted, !.seen = Len(docs)]
  <2>1. Ids \ deleted \in SUBSET Nat
    BY DEF IInv, TypeOK, Ids
  <2>2. y \in Records /\ y.at = "listed" /\ y.status = x.status /\ y.refs = x.refs /\ y.sends = x.sends
    <3>1. Len(docs) \in Nat
      BY DEF IInv, TypeOK
    <3> QED BY <1>1, <2>1, <3>1 DEF Records, Stages, Busy
  <2>3. Become(t, y) /\ x.at \in Busy /\ UNCHANGED <<session, overdrawn>>
    BY <1>8 DEF ServerLists, Busy
  <2> HIDE DEF y
  <2> QED BY <1>7, <2>2, <2>3 DEF Busy
<1>9. ASSUME ServerSaves(t) PROVE (\E y : Goal(y)) /\ session' = session
  <2> DEFINE y == [x EXCEPT !.at = "saved", !.doc = Len(docs) + 1]
  <2>1. Len(docs) + 1 \in Nat
    BY DEF IInv, TypeOK
  <2>2. y \in Records /\ y.at = "saved" /\ y.status = x.status /\ y.refs = x.refs /\ y.sends = x.sends
    BY <1>1, <2>1 DEF Records, Stages, Busy
  <2>3. Become(t, y) /\ x.at \in Busy /\ UNCHANGED <<session, overdrawn>>
    BY <1>9 DEF ServerSaves, Busy
  <2> HIDE DEF y
  <2> QED BY <1>7, <2>2, <2>3 DEF Busy
<1>10. ASSUME ServerFound(t) PROVE (\E y : Goal(y)) /\ session' = session
  <2> DEFINE y == [x EXCEPT !.at = "upload", !.watched = TRUE]
  <2>1. y \in Records /\ y.at = "upload" /\ y.status = x.status /\ y.refs = x.refs /\ y.sends = x.sends
    BY <1>1 DEF Records, Stages, Busy
  <2>2. Become(t, y) /\ x.at \in Busy /\ UNCHANGED <<session, overdrawn>>
    BY <1>10 DEF ServerFound, Busy
  <2> HIDE DEF y
  <2> QED BY <1>7, <2>1, <2>2 DEF Busy
<1>11. ASSUME FileUploaded(t) PROVE (\E y : Goal(y)) /\ session' = session
  <2> DEFINE y == [x EXCEPT !.at = "save", !.watched = FALSE]
  <2>1. y \in Records /\ y.at = "save" /\ y.status = x.status /\ y.refs = x.refs /\ y.sends = x.sends
    BY <1>1 DEF Records, Stages, Busy
  <2>2. Become(t, y) /\ x.at \in Busy /\ UNCHANGED <<session, overdrawn>>
    BY <1>11 DEF FileUploaded, Busy
  <2> HIDE DEF y
  <2> QED BY <1>7, <2>1, <2>2 DEF Busy
<1>12. ASSUME Dropped(t) PROVE (\E y : Goal(y)) /\ session' = session
  <2> DEFINE y == [x EXCEPT !.at = "gone"]
  <2>1. y \in Records /\ y.at = "gone" /\ y.status = x.status /\ y.refs = x.refs /\ y.sends = x.sends
    BY <1>1 DEF Records, Stages, Ended
  <2>2. Become(t, y) /\ x.at \in Busy /\ UNCHANGED <<session, overdrawn>>
    BY <1>12 DEF Dropped, Busy
  <2> HIDE DEF y
  <2> QED BY <1>7, <2>1, <2>2
<1>13. ASSUME UploadAgain(t) PROVE (\E y : Goal(y)) /\ session' = session
  <2> DEFINE y == [x EXCEPT !.at = "upload", !.retries = @ + 1]
  <2>1. Become(t, y) /\ x.at = "retry" /\ UNCHANGED <<session, overdrawn>>
    BY <1>13 DEF UploadAgain
  <2>2. x.at \in Busy
    BY <2>1 DEF Busy
  <2>3. x.retries \in 0..MaxHttpRetries /\ x.retries < MaxHttpRetries
    BY <1>1, <2>1 DEF Balanced, Records
  <2>4. x.retries + 1 \in 0..MaxHttpRetries
    BY <2>3, XferAssumption
  <2>5. y \in Records /\ y.at = "upload" /\ y.status = x.status /\ y.refs = x.refs /\ y.sends = x.sends
    BY <1>1, <2>4 DEF Records, Stages, Busy
  <2> HIDE DEF y
  <2> QED BY <1>7, <2>1, <2>2, <2>5 DEF Busy
<1>14. ASSUME UploadLost(t) \/ ProgressCancels(t) PROVE (\E y : Goal(y)) /\ session' = session
  <2>1. /\ Become(t, NoAnswer(x)) /\ x.at = "upload" /\ UNCHANGED <<session, overdrawn>>
    BY <1>14 DEF UploadLost, ProgressCancels
  <2>2. x.at \in Busy
    BY <2>1 DEF Busy
  <2>3. Fine(NoAnswer(x), FALSE)
    BY <2>1, <2>2, BusyIsFine, NoAnswerIsFine
  <2> QED BY <1>3, <2>1, <2>2, <2>3
<1>15. ASSUME UploadFails(t) PROVE (\E y : Goal(y)) /\ session' = session
  <2> DEFINE y == [x EXCEPT !.watched = FALSE]
  <2>1. /\ y \in Records /\ y.at = x.at /\ y.status = x.status /\ y.refs = x.refs
        /\ y.sends = x.sends
    BY <1>1 DEF Records
  <2>2. Become(t, Failed(y)) /\ x.at \in Busy /\ x.at # "retry" /\ UNCHANGED <<session, overdrawn>>
    BY <1>15 DEF UploadFails, Busy
  <2> HIDE DEF y
  <2>3. Fine(y, FALSE)
    BY <2>1, <2>2, BusyIsFine, MoveIsFine
  <2>4. Fine(Failed(y), FALSE)
    BY <2>1, <2>2, <2>3, EndIsFine
  <2> QED BY <1>3, <2>2, <2>4
<1>16. ASSUME Saved(t) PROVE (\E y : Goal(y)) /\ session' = session
  <2>1. x.at \in Busy /\ UNCHANGED <<session, overdrawn>>
    BY <1>16 DEF Saved, Busy
  <2>2. Fine(x, FALSE)
    BY <2>1, BusyIsFine
  <2>3. CASE x.status = "cancelled" /\ Become(t, Fini(x))
    BY <1>3, <2>1, <2>2, <2>3, EndIsFine
  <2>4. CASE x.status # "cancelled" /\ Become(t, Fini(Over(Send(x))))
    <3>1. FALSE \in BOOLEAN /\ (FALSE <=> x.status = "cancelled")
      BY <2>4
    <3>2. Fine(Fini(Over(Send(x))), FALSE)
      BY <2>1, <2>2, <3>1, SendIsFine
    <3> QED BY <1>3, <2>1, <2>4, <3>2
  <2> QED BY <1>16, <2>3, <2>4 DEF Saved
<1> QED
  BY <1>4, <1>5, <1>6, <1>8, <1>9, <1>10, <1>11, <1>12, <1>13, <1>14, <1>15, <1>16
  DEF Moves, Answer

(***************************************************************************)
(* The other variables, in a step of one transfer.                         *)
(***************************************************************************)
LEMMA OthersType ==
    ASSUME IInv, NEW t \in Transfers, Moves(t)
    PROVE  /\ docs' \in Seq(Files) /\ deleted' \in SUBSET Nat
           /\ uploaded' \in SUBSET Nat /\ stored' \in SUBSET Nat
           /\ remembered' \in SUBSET Nat /\ forgotten' \in SUBSET Nat /\ unsaved' \in SUBSET Nat
           /\ crashes' \in 0..MaxCrashes
<1> USE DEF server, cache
<1>1. /\ docs \in Seq(Files) /\ deleted \in SUBSET Nat
      /\ uploaded \in SUBSET Nat /\ stored \in SUBSET Nat
      /\ remembered \in SUBSET Nat /\ forgotten \in SUBSET Nat /\ unsaved \in SUBSET Nat
      /\ crashes \in 0..MaxCrashes
      /\ xfer[t] \in Records
  BY DEF IInv, TypeOK, Records
<1>2. xfer[t].file \in Files /\ xfer[t].doc \in Nat
  BY <1>1 DEF Records
<1>3. CASE Start(t) \/ Cancel(t) \/ Dropped(t)
  BY <1>1, <1>3 DEF Start, Cancel, Dropped
<1>4. CASE Listed(t)
  BY <1>1, <1>4 DEF Listed
<1>5. CASE ListFails(t)
  BY <1>1, <1>5 DEF ListFails
<1>6. CASE ServerLists(t) \/ ServerFound(t) \/ UploadLost(t) \/ UploadAgain(t) \/ FileUploaded(t)
           \/ UploadFails(t)
  BY <1>1, <1>6 DEF ServerLists, ServerFound, UploadLost, UploadAgain, FileUploaded, UploadFails
<1>7. CASE ProgressCancels(t)
  BY <1>1, <1>7 DEF ProgressCancels
<1>8. CASE ServerSaves(t)
  <2>1. docs' \in Seq(Files)
    BY <1>1, <1>2, <1>8 DEF ServerSaves
  <2> QED BY <1>1, <1>8, <2>1 DEF ServerSaves
<1>9. CASE Saved(t)
  BY <1>1, <1>2, <1>9 DEF Saved
<1> QED BY <1>3, <1>4, <1>5, <1>6, <1>7, <1>8, <1>9 DEF Moves, Answer

(***************************************************************************)
(* vk_close and a crash leave every transfer in order.                     *)
(***************************************************************************)
LEMMA CloseFine ==
    ASSUME IInv, NEW t \in Transfers
    PROVE  /\ AtClose(xfer[t]) \in Records
           /\ Balanced(AtClose(xfer[t]), t \in overdrawn)
           /\ AtClose(xfer[t]).at \notin Busy
<1> DEFINE x == xfer[t]
<1>1. x \in Records /\ Balanced(x, t \in overdrawn)
  BY DEF IInv, TypeOK, Records
<1>2. CASE x.at = "upload"
  <2> DEFINE y == [x EXCEPT !.watched = FALSE]
  <2>1. x.at \in Busy
    BY <1>2 DEF Busy
  <2>2. (t \in overdrawn) = FALSE /\ Fine(x, FALSE)
    <3>1. Fine(x, FALSE)
      BY <2>1, BusyIsFine
    <3>2. t \notin overdrawn
      BY <2>1, BusyIsFine
    <3>3. (t \in overdrawn) = FALSE
      BY <3>2
    <3> QED BY <3>1, <3>3
  <2>3. /\ y \in Records /\ y.at = x.at /\ y.status = x.status /\ y.refs = x.refs
        /\ y.sends = x.sends
    BY <1>1 DEF Records
  <2> HIDE DEF y
  <2>4. Fine(y, FALSE)
    BY <1>2, <2>1, <2>2, <2>3, MoveIsFine
  <2>5. Fine(Failed(y), FALSE) /\ Failed(y).at = "end"
    BY <2>1, <2>3, <2>4, EndIsFine
  <2>6. AtClose(x) = Failed(y)
    BY <1>2 DEF AtClose, y
  <2>7. Failed(y).at \notin Busy
    BY <2>5 DEF Busy
  <2> QED BY <2>2, <2>5, <2>6, <2>7 DEF Fine
<1>3. CASE x.at \in Busy /\ x.at # "upload"
  <2> DEFINE y == [x EXCEPT !.at = "gone"]
  <2>1. (t \in overdrawn) = FALSE /\ Fine(x, FALSE)
    <3>1. Fine(x, FALSE)
      BY <1>3, BusyIsFine
    <3>2. t \notin overdrawn
      BY <1>3, BusyIsFine
    <3>3. (t \in overdrawn) = FALSE
      BY <3>2
    <3> QED BY <3>1, <3>3
  <2>2. y \in Records /\ y.at = "gone" /\ y.status = x.status /\ y.refs = x.refs /\ y.sends = x.sends
    BY <1>1 DEF Records, Stages, Ended
  <2>3. AtClose(x) = y
    BY <1>3 DEF AtClose
  <2> HIDE DEF y
  <2>4. Fine(y, FALSE)
    BY <1>3, <2>1, <2>2, MoveIsFine
  <2>5. y.at \notin Busy
    BY <2>2 DEF Busy
  <2> QED BY <2>1, <2>3, <2>4, <2>5 DEF Fine
<1>4. CASE x.at \notin Busy
  BY <1>1, <1>4 DEF AtClose, Busy
<1> QED BY <1>2, <1>3, <1>4

LEMMA CrashFine ==
    ASSUME IInv, NEW t \in Transfers,
           NEW y, y = IF xfer[t].at \in Busy \cup {"gone"}
                      THEN [xfer[t] EXCEPT !.at = "end", !.status = "over", !.refs = 0]
                      ELSE xfer[t]
    PROVE  y \in Records /\ Balanced(y, t \in overdrawn) /\ y.at \notin Busy
<1>1. xfer[t] \in Records /\ Balanced(xfer[t], t \in overdrawn)
  BY DEF IInv, TypeOK, Records
<1>2. CASE xfer[t].at \in Busy \cup {"gone"}
  <2>1. y \in Records /\ y.at = "end" /\ y.refs = 0
    <3>1. "end" \in Stages /\ "over" \in Statuses /\ 0 \in Int
      BY DEF Stages, Ended, Statuses
    <3>2. y = [xfer[t] EXCEPT !.at = "end", !.status = "over", !.refs = 0]
      BY <1>2
    <3> QED BY <1>1, <3>1, <3>2 DEF Records
  <2>2. (t \in overdrawn) = FALSE
    BY <1>1, <1>2 DEF Balanced
  <2>3. y.at \notin Busy /\ y.at \notin {"new", "gone", "retry"}
    BY <2>1 DEF Busy
  <2>4. Balanced(y, t \in overdrawn)
    BY <2>1, <2>2, <2>3 DEF Balanced
  <2> QED BY <2>1, <2>3, <2>4
<1>3. CASE xfer[t].at \notin Busy \cup {"gone"}
  BY <1>1, <1>3
<1> QED BY <1>2, <1>3

LEMMA InitInv == Init => IInv
<1> SUFFICES ASSUME Init PROVE IInv
  OBVIOUS
<1>1. ASSUME NEW t \in Transfers
      PROVE  xfer[t] \in Records /\ Balanced(xfer[t], t \in overdrawn) /\ xfer[t].at = "new"
  <2>1. PICK f \in Files : xfer[t] = Fresh(f)
    BY DEF Init
  <2>2. Fresh(f) \in Records /\ (t \in overdrawn) = FALSE
    BY XferAssumption DEF Fresh, Records, Stages, Statuses, Init
  <2> QED BY <2>1, <2>2 DEF Fresh, Balanced, Busy
<1>2. xfer \in [Transfers -> Records]
  <2>1. xfer = [t \in Transfers |-> xfer[t]]
    BY DEF Init
  <2> QED BY <1>1, <2>1
<1>3. TypeOK
  <2>1. docs \in Seq(Files) /\ crashes \in 0..MaxCrashes
    BY XferAssumption DEF Init
  <2> QED BY <1>2, <2>1 DEF Init, TypeOK, Records
<1> QED BY <1>1, <1>3 DEF IInv, Quiet, Busy

LEMMA StepInv == IInv /\ [Next]_vars => IInv'
<1> SUFFICES ASSUME IInv, [Next]_vars PROVE IInv'
  OBVIOUS
<1>0. TypeOK /\ xfer \in [Transfers -> Records]
  BY DEF IInv, TypeOK, Records
<1>1. ASSUME NEW t \in Transfers, Moves(t) PROVE IInv'
  <2>1. session' = session /\ session \in {"off", "on"}
    BY <1>0, <1>1, MoveStep DEF TypeOK
  <2>2. PICK y : /\ Become(t, y) /\ Fine(y, t \in overdrawn')
                 /\ session = "on" \/ y.at \notin Busy
                 /\ overdrawn' \in {overdrawn, overdrawn \cup {t}}
    BY <1>1, MoveStep
  <2>3. /\ xfer' \in [Transfers -> Records]
        /\ \A u \in Transfers : Balanced(xfer'[u], u \in overdrawn')
        /\ Quiet'
        /\ overdrawn' \in SUBSET Transfers
    BY <2>1, <2>2, OneStep
  <2>4. TypeOK'
    BY <1>1, <2>1, <2>3, OthersType DEF TypeOK, Records
  <2> QED BY <2>3, <2>4 DEF IInv
<1>2. ASSUME NEW d \in Ids \ deleted, Delete(d) PROVE IInv'
  <2>1. d \in Nat
    BY <1>0 DEF TypeOK, Ids
  <2>2. UNCHANGED <<session, xfer, overdrawn>>
    BY <1>2 DEF Delete
  <2>3. TypeOK'
    BY <1>0, <1>2, <2>1 DEF Delete, TypeOK, cache
  <2> QED BY <2>2, <2>3 DEF IInv, Quiet
<1>3. ASSUME Login PROVE IInv'
  <2>1. UNCHANGED <<xfer, overdrawn>> /\ session' = "on"
    BY <1>3 DEF Login
  <2>2. TypeOK'
    BY <1>0, <1>3 DEF Login, TypeOK, server
  <2> QED BY <2>1, <2>2 DEF IInv, Quiet
<1>4. ASSUME Close PROVE IInv'
  <2>1. xfer' = [t \in Transfers |-> AtClose(xfer[t])] /\ UNCHANGED overdrawn
    BY <1>4 DEF Close
  <2>2. xfer' \in [Transfers -> Records]
    BY <2>1, CloseFine
  <2>3. \A t \in Transfers : Balanced(xfer'[t], t \in overdrawn') /\ xfer'[t].at \notin Busy
    BY <2>1, CloseFine
  <2>4. TypeOK'
    BY <1>0, <1>4, <2>2 DEF Close, TypeOK, Records, server
  <2> QED BY <2>3, <2>4 DEF IInv, Quiet
<1>5. ASSUME Crash PROVE IInv'
  <2> DEFINE new(t) == IF xfer[t].at \in Busy \cup {"gone"}
                       THEN [xfer[t] EXCEPT !.at = "end", !.status = "over", !.refs = 0]
                       ELSE xfer[t]
  <2>1. xfer' = [t \in Transfers |-> new(t)] /\ UNCHANGED overdrawn
    BY <1>5 DEF Crash
  <2>2. \A t \in Transfers : /\ new(t) \in Records
                             /\ Balanced(new(t), t \in overdrawn) /\ new(t).at \notin Busy
    BY CrashFine
  <2> HIDE DEF new
  <2>3. xfer' \in [Transfers -> Records]
    BY <2>1, <2>2
  <2>4. \A t \in Transfers : Balanced(xfer'[t], t \in overdrawn') /\ xfer'[t].at \notin Busy
    BY <2>1, <2>2
  <2>5. crashes' \in 0..MaxCrashes
    <3>1. MaxCrashes \in Nat /\ crashes \in 0..MaxCrashes
      BY <1>0, XferAssumption DEF TypeOK
    <3>2. crashes < MaxCrashes /\ crashes' = crashes + 1
      BY <1>5 DEF Crash
    <3> QED BY <3>1, <3>2
  <2>6. TypeOK'
    BY <1>0, <1>5, <2>3, <2>5 DEF Crash, TypeOK, Records, server
  <2> QED BY <2>4, <2>6 DEF IInv, Quiet
<1>6. CASE UNCHANGED vars
  BY <1>6 DEF vars, server, cache, IInv, TypeOK, Quiet
<1> QED BY <1>1, <1>2, <1>3, <1>4, <1>5, <1>6 DEF Next, Moves

LEMMA Inductive == Spec => []IInv
<1>1. Init => IInv
  BY InitInv
<1>2. IInv /\ [Next]_vars => IInv'
  BY StepInv
<1> QED BY <1>1, <1>2, PTL DEF Spec

(***************************************************************************)
(* Every variable keeps its type; no upload is repeated more than          *)
(* MaxHttpRetries times.                                                   *)
(***************************************************************************)
THEOREM TypeCorrect == Spec => []TypeOK
<1>1. IInv => TypeOK
  BY DEF IInv
<1> QED BY <1>1, Inductive, PTL

(***************************************************************************)
(* References of transfers balance, however the user cancels, requests     *)
(* fail and connections close, but for the exception ReferencesBalance     *)
(* names.                                                                  *)
(***************************************************************************)
THEOREM Balance == Spec => []ReferencesBalance
<1>1. IInv => ReferencesBalance
  <2> SUFFICES ASSUME IInv, NEW t \in Transfers
               PROVE  LET x == xfer[t]
                      IN  /\ x.at \in Busy \cup {"gone"} =>
                                x.refs = IF x.status = "active" THEN 2 ELSE 1
                          /\ x.at = "end" => x.refs = IF t \in overdrawn THEN -1 ELSE 0
    BY DEF ReferencesBalance
  <2>1. Balanced(xfer[t], t \in overdrawn)
    BY DEF IInv
  <2> QED BY <2>1 DEF Balanced
<1> QED BY <1>1, Inductive, PTL

(***************************************************************************)
(* Which steps send a document.                                            *)
(***************************************************************************)
LEMMA FailedSends ==
    ASSUME NEW x \in Records
    PROVE  /\ Failed(x).sends = x.sends
           /\ NoAnswer(x).sends = x.sends
           /\ AtClose(x).sends = x.sends
<1>1. ASSUME NEW y \in Records PROVE Failed(y).sends = y.sends
  BY FiniValue, OverValue DEF Failed
<1>2. /\ [x EXCEPT !.watched = FALSE] \in Records
      /\ [x EXCEPT !.watched = FALSE].sends = x.sends
  BY DEF Records
<1>3. /\ [x EXCEPT !.at = "retry", !.watched = FALSE].sends = x.sends
      /\ [x EXCEPT !.at = "gone"].sends = x.sends
  BY DEF Records
<1> QED BY <1>1, <1>2, <1>3 DEF NoAnswer, AtClose

\* The value of a transfer after a step that sends, in FindOrUpload or Saved.
LEMMA SentValue ==
    ASSUME NEW x \in Records
    PROVE  Fini(Over(Send(x))).doc = x.doc
<1>1. Send(x) \in Records /\ Send(x).doc = x.doc
  BY SendValue DEF Send, Records
<1>2. Over(Send(x)) \in Records /\ Over(Send(x)).doc = x.doc
  BY <1>1, OverValue DEF Over, Records
<1> QED BY <1>2 DEF Fini, Records

SentWell(t) ==
    xfer'[t].sends # xfer[t].sends =>
        /\ xfer[t].sends = 0
        /\ \/ xfer[t].at = "saved" /\ xfer[t].status = "active"
           \/ /\ xfer[t].at = "listed"
              /\ xfer'[t].doc \in xfer[t].existing
              /\ docs[xfer'[t].doc] = xfer[t].file

LEMMA MoveSends ==
    ASSUME IInv, NEW t \in Transfers, Moves(t)
    PROVE  SentWell(t) /\ \A u \in Transfers \ {t} : xfer'[u] = xfer[u]
<1> DEFINE x == xfer[t]
<1>0. xfer \in [Transfers -> Records] /\ x \in Records /\ Balanced(x, t \in overdrawn)
  BY DEF IInv, TypeOK, Records
<1>1. ASSUME NEW y, Become(t, y)
      PROVE  xfer'[t] = y /\ \A u \in Transfers \ {t} : xfer'[u] = xfer[u]
  BY <1>0, <1>1 DEF Become
<1>2. ASSUME NEW y, Become(t, y), y.sends = x.sends
      PROVE  SentWell(t) /\ \A u \in Transfers \ {t} : xfer'[u] = xfer[u]
  BY <1>1, <1>2 DEF SentWell
<1>3. CASE Start(t)
  <2> DEFINE h == [x EXCEPT !.refs = @ + 1]
             b == [h EXCEPT !.status = "cancelled", !.refs = @ - 1]
             c == [h EXCEPT !.at = "listing"]
  <2>1. x.refs + 1 \in Int
    BY <1>0 DEF Records
  <2>2. h \in Records /\ h.sends = x.sends /\ h.refs \in Int
    BY <1>0, <2>1 DEF Records
  <2>3. Become(t, c) \/ Become(t, Fini(b)) \/ Become(t, Fini(Over(h)))
    BY <1>3 DEF Start
  <2> HIDE DEF h
  <2>4. h.refs - 1 \in Int /\ "cancelled" \in Statuses
    BY <2>2 DEF Statuses
  <2>5. b \in Records /\ b.sends = x.sends /\ c.sends = x.sends
    BY <2>2, <2>4 DEF Records
  <2> HIDE DEF b, c
  <2>6. Fini(b).sends = x.sends
    BY <2>5, FiniValue
  <2>7. Fini(Over(h)).sends = x.sends
    BY <2>2, FiniValue, OverValue
  <2> QED BY <1>2, <2>3, <2>5, <2>6, <2>7
<1>4. CASE Cancel(t)
  <2>1. [x EXCEPT !.status = "cancelled", !.refs = @ - 1].sends = x.sends
    BY <1>0 DEF Records
  <2> QED BY <1>2, <1>4, <2>1 DEF Cancel
<1>5. ASSUME NEW left, FindOrUpload(t, left), left \subseteq x.existing, x.at \in Busy,
             x.at = "listed" \/ left = {}
      PROVE  SentWell(t) /\ \A u \in Transfers \ {t} : xfer'[u] = xfer[u]
  <2>1. CASE Become(t, [x EXCEPT !.at = "server", !.existing = {}, !.seen = 0])
    <3>1. [x EXCEPT !.at = "server", !.existing = {}, !.seen = 0].sends = x.sends
      BY <1>0 DEF Records
    <3> QED BY <1>2, <2>1, <3>1
  <2>2. ASSUME NEW e \in left, docs[e] = x.file,
               Become(t, Fini(Over(Send([x EXCEPT !.doc = e, !.existing = {}, !.seen = 0]))))
        PROVE  SentWell(t) /\ \A u \in Transfers \ {t} : xfer'[u] = xfer[u]
    <3> DEFINE y == [x EXCEPT !.doc = e, !.existing = {}, !.seen = 0]
    <3>1. e \in Nat
      BY <1>0, <1>5, <2>2 DEF Records
    <3>2. y \in Records /\ y.doc = e
      BY <1>0, <3>1 DEF Records
    <3> HIDE DEF y
    <3>3. Fini(Over(Send(y))).doc = e
      BY <3>2, SentValue
    <3>4. xfer'[t].doc = e /\ \A u \in Transfers \ {t} : xfer'[u] = xfer[u]
      BY <1>1, <2>2, <3>3 DEF y
    <3>5. x.sends = 0 /\ x.at = "listed" /\ e \in x.existing
      BY <1>5, <2>2, BusyIsFine
    <3> QED BY <2>2, <3>4, <3>5 DEF SentWell
  <2> QED BY <1>5, <2>1, <2>2 DEF FindOrUpload
<1>6. CASE Listed(t)
  <2>1. x.at = "listed" /\ FindOrUpload(t, uploaded \cap x.existing)
    BY <1>6 DEF Listed
  <2>2. x.at \in Busy
    BY <2>1 DEF Busy
  <2> QED BY <1>5, <2>1, <2>2
<1>7. CASE ListFails(t)
  <2>1. x.at \in Busy /\ FindOrUpload(t, {})
    BY <1>7 DEF ListFails, Busy
  <2> QED BY <1>5, <2>1
<1>8. CASE Saved(t)
  <2>1. CASE x.status = "cancelled" /\ Become(t, Fini(x))
    BY <1>0, <1>2, <2>1, FiniValue
  <2>2. CASE x.status # "cancelled" /\ Become(t, Fini(Over(Send(x))))
    <3>1. x.at = "saved" /\ x.at \in Busy
      BY <1>8 DEF Saved, Busy
    <3>2. x.sends = 0 /\ x.status = "active"
      BY <1>0, <2>2, <3>1 DEF Balanced, Busy
    <3> QED BY <1>1, <2>2, <3>1, <3>2 DEF SentWell
  <2> QED BY <1>8, <2>1, <2>2 DEF Saved
<1>9. CASE UploadLost(t) \/ ProgressCancels(t)
  BY <1>0, <1>2, <1>9, FailedSends DEF UploadLost, ProgressCancels
<1>10. CASE UploadFails(t)
  <2> DEFINE y == [x EXCEPT !.watched = FALSE]
  <2>1. y \in Records /\ y.sends = x.sends
    BY <1>0 DEF Records
  <2>2. Become(t, Failed(y))
    BY <1>10 DEF UploadFails
  <2> HIDE DEF y
  <2> QED BY <1>2, <2>1, <2>2, FailedSends
<1>11. CASE \/ ServerLists(t) \/ ServerFound(t) \/ UploadAgain(t) \/ FileUploaded(t)
            \/ ServerSaves(t) \/ Dropped(t)
  <2>1. /\ [x EXCEPT !.at = "listed", !.existing = Ids \ deleted, !.seen = Len(docs)].sends = x.sends
        /\ [x EXCEPT !.at = "upload", !.watched = TRUE].sends = x.sends
        /\ [x EXCEPT !.at = "upload", !.retries = @ + 1].sends = x.sends
        /\ [x EXCEPT !.at = "save", !.watched = FALSE].sends = x.sends
        /\ [x EXCEPT !.at = "saved", !.doc = Len(docs) + 1].sends = x.sends
        /\ [x EXCEPT !.at = "gone"].sends = x.sends
    BY <1>0 DEF Records
  <2>2. CASE ServerLists(t)
    BY <1>2, <2>1, <2>2 DEF ServerLists
  <2>3. CASE ServerFound(t)
    BY <1>2, <2>1, <2>3 DEF ServerFound
  <2>4. CASE UploadAgain(t)
    BY <1>2, <2>1, <2>4 DEF UploadAgain
  <2>5. CASE FileUploaded(t)
    BY <1>2, <2>1, <2>5 DEF FileUploaded
  <2>6. CASE ServerSaves(t)
    BY <1>2, <2>1, <2>6 DEF ServerSaves
  <2>7. CASE Dropped(t)
    BY <1>2, <2>1, <2>7 DEF Dropped
  <2> QED BY <1>11, <2>2, <2>3, <2>4, <2>5, <2>6, <2>7
<1> QED BY <1>3, <1>4, <1>6, <1>7, <1>8, <1>9, <1>10, <1>11 DEF Moves, Answer

\* Nothing is sent twice, nothing uploaded for a transfer that was cancelled is
\* sent, and a document that is sent again existed when the server was asked.
THEOREM SendsAreWanted == Spec => SentAsWanted
<1> DEFINE Well == \A t \in Transfers : SentWell(t)
<1>1. IInv /\ [Next]_vars => Well
  <2> SUFFICES ASSUME IInv, [Next]_vars, NEW t \in Transfers PROVE SentWell(t)
    OBVIOUS
  <2>0. xfer[t] \in Records
    BY DEF IInv, TypeOK, Records
  <2>1. ASSUME NEW u \in Transfers, Moves(u) PROVE SentWell(t)
    <3>1. CASE u = t
      BY <2>1, <3>1, MoveSends
    <3>2. CASE u # t
      <4>1. xfer'[t] = xfer[t]
        BY <2>1, <3>2, MoveSends
      <4> QED BY <4>1 DEF SentWell
    <3> QED BY <3>1, <3>2
  <2>2. ASSUME NEW d \in Ids \ deleted, Delete(d) PROVE SentWell(t)
    BY <2>2 DEF Delete, SentWell
  <2>3. CASE Login
    BY <2>3 DEF Login, SentWell
  <2>4. CASE Close
    BY <2>0, <2>4, FailedSends DEF Close, SentWell
  <2>5. CASE Crash
    <3>1. xfer'[t].sends = xfer[t].sends
      BY <2>0, <2>5 DEF Crash, Records
    <3> QED BY <3>1 DEF SentWell
  <2>6. CASE UNCHANGED vars
    BY <2>6 DEF vars, SentWell
  <2> QED BY <2>1, <2>2, <2>3, <2>4, <2>5, <2>6 DEF Next, Moves
<1>2. IInv /\ [Next]_vars => [Well]_vars
  BY <1>1
<1> HIDE DEF Well
<1>3. Spec => [][Well]_vars
  BY <1>2, Inductive, PTL DEF Spec
<1> QED BY <1>3 DEF SentAsWanted, Well, SentWell

(***************************************************************************)
(* What an answer of docs.get knows: every document saved by the time it   *)
(* was given and not deleted since.                                        *)
(***************************************************************************)
Aware(x, del) ==
    /\ x.at = "saved" => x.doc # 0
    /\ x.at = "listed" => \A d \in Nat \ del : 1 <= d /\ d <= x.seen => d \in x.existing

AllAware == \A t \in Transfers : Aware(xfer[t], deleted)

LEMMA MoveIsAware ==
    ASSUME IInv, NEW t \in Transfers, Moves(t), Aware(xfer[t], deleted)
    PROVE  Aware(xfer'[t], deleted')
<1> DEFINE x == xfer[t]
<1>0. xfer \in [Transfers -> Records] /\ x \in Records
  BY DEF IInv, TypeOK, Records
<1>1. ASSUME NEW y, Become(t, y) PROVE xfer'[t] = y
  BY <1>0, <1>1 DEF Become
<1>2. ASSUME NEW y, Become(t, y), y.at \notin {"saved", "listed"} PROVE Aware(xfer'[t], deleted')
  BY <1>1, <1>2 DEF Aware
<1>3. CASE Start(t)
  <2> DEFINE h == [x EXCEPT !.refs = @ + 1]
             b == [h EXCEPT !.status = "cancelled", !.refs = @ - 1]
             c == [h EXCEPT !.at = "listing"]
  <2>1. x.refs + 1 \in Int
    BY <1>0 DEF Records
  <2>2. h \in Records /\ h.refs \in Int
    BY <1>0, <2>1 DEF Records
  <2>3. Become(t, c) \/ Become(t, Fini(b)) \/ Become(t, Fini(Over(h)))
    BY <1>3 DEF Start
  <2> HIDE DEF h
  <2>4. h.refs - 1 \in Int /\ "cancelled" \in Statuses
    BY <2>2 DEF Statuses
  <2>5. b \in Records /\ c.at = "listing"
    BY <2>2, <2>4 DEF Records
  <2> HIDE DEF b, c
  <2>6. Fini(b).at = "end" /\ Fini(Over(h)).at = "end"
    BY <2>2, <2>5, FiniValue, OverValue
  <2> QED BY <1>2, <2>3, <2>5, <2>6
<1>4. CASE Cancel(t)
  <2> DEFINE y == [x EXCEPT !.status = "cancelled", !.refs = @ - 1]
  <2>1. y.at = x.at /\ y.doc = x.doc /\ y.seen = x.seen /\ y.existing = x.existing
    BY <1>0 DEF Records
  <2>2. xfer'[t] = y /\ deleted' = deleted
    BY <1>1, <1>4 DEF Cancel, server
  <2> HIDE DEF y
  <2> QED BY <2>1, <2>2 DEF Aware
<1>5. ASSUME NEW left, FindOrUpload(t, left), left \subseteq Nat PROVE Aware(xfer'[t], deleted')
  <2>1. CASE Become(t, [x EXCEPT !.at = "server", !.existing = {}, !.seen = 0])
    <3>1. [x EXCEPT !.at = "server", !.existing = {}, !.seen = 0].at = "server"
      BY <1>0 DEF Records
    <3> QED BY <1>2, <2>1, <3>1
  <2>2. ASSUME NEW e \in left,
               Become(t, Fini(Over(Send([x EXCEPT !.doc = e, !.existing = {}, !.seen = 0]))))
        PROVE  Aware(xfer'[t], deleted')
    <3> DEFINE y == [x EXCEPT !.doc = e, !.existing = {}, !.seen = 0]
    <3>1. y \in Records
      BY <1>0, <1>5, <2>2 DEF Records
    <3> HIDE DEF y
    <3>2. Fini(Over(Send(y))).at = "end"
      BY <3>1, FiniValue, OverValue, SendValue
    <3> QED BY <1>2, <2>2, <3>2 DEF y
  <2> QED BY <1>5, <2>1, <2>2 DEF FindOrUpload
<1>6. CASE Listed(t)
  <2>1. x.existing \subseteq Nat /\ FindOrUpload(t, uploaded \cap x.existing)
    BY <1>0, <1>6 DEF Listed, Records
  <2> QED BY <1>5, <2>1
<1>7. CASE ListFails(t)
  BY <1>5, <1>7 DEF ListFails
<1>8. CASE Saved(t)
  <2>1. Fini(x).at = "end" /\ Fini(Over(Send(x))).at = "end"
    BY <1>0, FiniValue, OverValue, SendValue
  <2> QED BY <1>2, <1>8, <2>1 DEF Saved
<1>9. CASE UploadLost(t) \/ ProgressCancels(t)
  <2>1. x.at = "upload" /\ Become(t, NoAnswer(x))
    BY <1>9 DEF UploadLost, ProgressCancels
  <2>2. NoAnswer(x).at \in {"retry", "end"}
    BY <2>1, BusyIsFine, NoAnswerIsFine DEF Busy
  <2> QED BY <1>2, <2>1, <2>2
<1>10. CASE UploadFails(t)
  <2> DEFINE y == [x EXCEPT !.watched = FALSE]
  <2>1. y \in Records
    BY <1>0 DEF Records
  <2>2. Become(t, Failed(y))
    BY <1>10 DEF UploadFails
  <2> HIDE DEF y
  <2>3. Failed(y).at = "end"
    BY <2>1, FiniValue, OverValue DEF Failed
  <2> QED BY <1>2, <2>2, <2>3
<1>11. CASE ServerLists(t)
  <2> DEFINE y == [x EXCEPT !.at = "listed", !.existing = Ids \ deleted, !.seen = Len(docs)]
  <2>1. y.at = "listed" /\ y.existing = Ids \ deleted /\ y.seen = Len(docs)
    BY <1>0 DEF Records
  <2>2. xfer'[t] = y /\ deleted' = deleted
    BY <1>1, <1>11 DEF ServerLists, server
  <2>3. Ids = 1..Len(docs) /\ Len(docs) \in Nat
    BY DEF IInv, TypeOK, Ids
  <2> HIDE DEF y
  <2> QED BY <2>1, <2>2, <2>3 DEF Aware
<1>12. CASE ServerSaves(t)
  <2> DEFINE y == [x EXCEPT !.at = "saved", !.doc = Len(docs) + 1]
  <2>1. Len(docs) \in Nat
    BY DEF IInv, TypeOK
  <2>2. y.at = "saved" /\ y.doc = Len(docs) + 1
    BY <1>0 DEF Records
  <2>3. xfer'[t] = y
    BY <1>1, <1>12 DEF ServerSaves
  <2> HIDE DEF y
  <2> QED BY <2>1, <2>2, <2>3 DEF Aware
<1>13. CASE ServerFound(t) \/ UploadAgain(t) \/ FileUploaded(t) \/ Dropped(t)
  <2>1. /\ [x EXCEPT !.at = "upload", !.watched = TRUE].at = "upload"
        /\ [x EXCEPT !.at = "upload", !.retries = @ + 1].at = "upload"
        /\ [x EXCEPT !.at = "save", !.watched = FALSE].at = "save"
        /\ [x EXCEPT !.at = "gone"].at = "gone"
    BY <1>0 DEF Records
  <2> QED BY <1>2, <1>13, <2>1 DEF ServerFound, UploadAgain, FileUploaded, Dropped
<1> QED BY <1>3, <1>4, <1>6, <1>7, <1>8, <1>9, <1>10, <1>11, <1>12, <1>13 DEF Moves, Answer

(***************************************************************************)
(* The list of documents: what came into it in this session is not stored  *)
(* yet, and a document that came into it is in it, but for the accidents   *)
(* CacheIsAccountedFor names.                                              *)
(***************************************************************************)
CacheInv ==
    /\ AllAware
    /\ 0 \notin remembered
    /\ session = "on" => uploaded \subseteq stored \cup unsaved
    /\ CacheIsAccountedFor

\* No step but Listed and ListFails takes a document out of the list of a
\* session, and none but Saved adds one.
LEMMA AwareStep == IInv /\ CacheInv /\ [Next]_vars => AllAware'
<1> SUFFICES ASSUME IInv, CacheInv, [Next]_vars, NEW u \in Transfers
             PROVE  Aware(xfer'[u], deleted')
  BY DEF AllAware
<1>0. Aware(xfer[u], deleted) /\ xfer \in [Transfers -> Records] /\ xfer[u] \in Records
  BY DEF CacheInv, AllAware, IInv, TypeOK, Records
<1>1. ASSUME xfer'[u] = xfer[u], deleted \subseteq deleted' PROVE Aware(xfer'[u], deleted')
  BY <1>0, <1>1 DEF Aware
<1>2. ASSUME NEW t \in Transfers, Moves(t) PROVE Aware(xfer'[u], deleted')
  <2>1. CASE u = t
    BY <1>0, <1>2, <2>1, MoveIsAware
  <2>2. CASE u # t
    <3>1. xfer'[u] = xfer[u]
      BY <1>2, <2>2, MoveSends
    <3>2. deleted' = deleted
      BY <1>2 DEF Moves, Answer, Start, Cancel, ProgressCancels, Dropped, ServerLists, ServerFound, UploadLost,
                  UploadAgain, FileUploaded, UploadFails, ServerSaves, Saved, Listed, ListFails, server
    <3> QED BY <1>1, <3>1, <3>2
  <2> QED BY <2>1, <2>2
<1>3. ASSUME NEW e \in Ids \ deleted, Delete(e) PROVE Aware(xfer'[u], deleted')
  BY <1>1, <1>3 DEF Delete
<1>4. CASE Login \/ UNCHANGED vars
  BY <1>1, <1>4 DEF Login, vars, server
<1>5. CASE Close
  <2>1. xfer'[u] = AtClose(xfer[u])
    BY <1>5 DEF Close
  <2> DEFINE y == [xfer[u] EXCEPT !.watched = FALSE]
  <2>2. y \in Records /\ [xfer[u] EXCEPT !.at = "gone"].at = "gone"
    BY <1>0 DEF Records
  <2> HIDE DEF y
  <2>3. Failed(y).at = "end"
    BY <2>2, FiniValue, OverValue DEF Failed
  <2>4. AtClose(xfer[u]).at \notin {"saved", "listed"}
    BY <2>2, <2>3 DEF AtClose, Busy, y
  <2> QED BY <2>1, <2>4 DEF Aware
<1>6. CASE Crash
  <2>1. xfer'[u].at \notin {"saved", "listed"}
    BY <1>0, <1>6 DEF Crash, Busy, Records
  <2> QED BY <2>1 DEF Aware
<1> QED BY <1>2, <1>3, <1>4, <1>5, <1>6 DEF Next, Moves

LEMMA CacheStep == IInv /\ CacheInv /\ [Next]_vars => CacheInv'
<1> SUFFICES ASSUME IInv, CacheInv, [Next]_vars
             PROVE  CacheInv'
  OBVIOUS
<1> DEFINE List == IF session = "on" THEN uploaded ELSE stored
           Rest == /\ 0 \notin remembered
                   /\ session = "on" => uploaded \subseteq stored \cup unsaved
                   /\ \A d \in remembered \ deleted : d \in forgotten \/ d \in List
<1>rest. Rest
  BY DEF CacheInv, CacheIsAccountedFor
<1>types. remembered \subseteq Nat /\ uploaded \subseteq Nat
  BY DEF IInv, TypeOK
<1> USE DEF server, cache
<1>kept. ASSUME UNCHANGED <<session, cache>>, deleted \subseteq deleted' PROVE Rest'
  BY <1>rest, <1>kept
<1>1. ASSUME NEW t \in Transfers, Listed(t) PROVE Rest'
  <2>1. session = "on" /\ session' = session
    BY <1>1, BusyIsFine DEF Listed, Busy
  <2>2. /\ UNCHANGED <<remembered, deleted, stored, unsaved>>
        /\ uploaded' = uploaded \cap xfer[t].existing
        /\ forgotten' = forgotten \cup {d \in uploaded \ uploaded' : d > xfer[t].seen}
    BY <1>1 DEF Listed
  <2>3. ASSUME NEW d \in remembered \ deleted, d \in uploaded PROVE d \in forgotten' \/ d \in uploaded'
    <3>1. d \in Nat /\ d # 0 /\ xfer[t].seen \in Nat
      BY <1>rest, <1>types, <2>3 DEF IInv, TypeOK
    <3>2. xfer[t].at = "listed" /\ Aware(xfer[t], deleted)
      BY <1>1 DEF Listed, CacheInv, AllAware
    <3>3. d <= xfer[t].seen => d \in xfer[t].existing
      BY <2>3, <3>1, <3>2 DEF Aware
    <3> QED BY <2>2, <2>3, <3>1, <3>3
  <2> QED BY <1>rest, <2>1, <2>2, <2>3
<1>2. ASSUME NEW t \in Transfers, ListFails(t) PROVE Rest'
  <2>1. session = "on" /\ session' = session
    BY <1>2, BusyIsFine DEF ListFails, Busy
  <2> QED BY <1>rest, <1>2, <2>1 DEF ListFails
<1>3. ASSUME NEW t \in Transfers, Saved(t) PROVE Rest'
  <2>1. session = "on" /\ session' = session /\ xfer[t].at = "saved"
    BY <1>3, BusyIsFine DEF Saved, Busy
  <2>2. UNCHANGED <<forgotten, stored, deleted>>
    BY <1>3 DEF Saved
  <2>3. \/ UNCHANGED <<uploaded, remembered, unsaved>>
        \/ /\ uploaded' = uploaded \cup {xfer[t].doc}
           /\ remembered' = remembered \cup {xfer[t].doc}
           /\ unsaved' = unsaved \cup {xfer[t].doc}
    BY <1>3 DEF Saved
  <2>4. xfer[t].doc # 0
    BY <2>1 DEF CacheInv, AllAware, Aware
  <2> QED BY <1>rest, <2>1, <2>2, <2>3, <2>4
<1>4. ASSUME NEW t \in Transfers, Moves(t), ~Listed(t), ~ListFails(t), ~Saved(t) PROVE Rest'
  <2>1. UNCHANGED <<session, cache, deleted>>
    BY <1>4 DEF Moves, Answer, Start, Cancel, ProgressCancels, Dropped, ServerLists, ServerFound,
                UploadLost, UploadAgain, FileUploaded, UploadFails, ServerSaves
  <2> QED BY <1>kept, <2>1
<1>5. ASSUME NEW e \in Ids \ deleted, Delete(e) PROVE Rest'
  BY <1>kept, <1>5 DEF Delete
<1>6. ASSUME Login PROVE Rest'
  BY <1>rest, <1>6 DEF Login
<1>7. ASSUME Close PROVE Rest'
  BY <1>rest, <1>7 DEF Close
<1>8. ASSUME Crash PROVE Rest'
  <2>1. /\ session' = "off" /\ UNCHANGED <<remembered, deleted, stored>>
        /\ forgotten' = forgotten \cup unsaved
    BY <1>8 DEF Crash
  <2> QED BY <1>rest, <2>1
<1>9. ASSUME UNCHANGED vars PROVE Rest'
  BY <1>kept, <1>9 DEF vars
<1>10. Rest'
  BY <1>1, <1>2, <1>3, <1>4, <1>5, <1>6, <1>7, <1>8, <1>9 DEF Next, Moves
<1>11. AllAware'
  BY AwareStep
<1> QED BY <1>10, <1>11 DEF CacheInv, CacheIsAccountedFor

\* A document that came into the list and was not deleted is in it, in this
\* session and the next, unless it was saved after the server had answered a
\* docs.get that erased it, or a docs.get failed, or the program died in the
\* session that added it: whatever other transfers, deletions and logins do.
THEOREM CacheKeeps == Spec => []CacheIsAccountedFor
<1>1. Init => CacheInv
  BY DEF Init, CacheInv, AllAware, Aware, Fresh, CacheIsAccountedFor
<1>2. IInv /\ CacheInv /\ [Next]_vars => CacheInv'
  BY CacheStep
<1>3. CacheInv => CacheIsAccountedFor
  BY DEF CacheInv
<1> QED BY <1>1, <1>2, <1>3, Inductive, PTL DEF Spec

=============================================================================
