--------------------------- MODULE MessageProofs ---------------------------
(***************************************************************************)
(* Theorems about MessageSend, for any texts, limit and numbers, and about *)
(* MessageParts, for any users, groups, chats, messages and batches.       *)
(***************************************************************************)
EXTENDS MessageSend, MessageParts,
        FiniteSetTheorems, SequenceTheorems, WellFoundedInduction, TLAPS

-----------------------------------------------------------------------------
(* MessageSend *)

(***************************************************************************)
(* Splitting                                                               *)
(***************************************************************************)
LEMMA Bounds == Limit \in Nat /\ Limit > 0 /\ MaxPictures \in Nat /\ MaxPictures > 0
                /\ MaxCaptchas \in Nat /\ Break \in Bytes /\ Space \in Bytes
  BY SendAssumption

\* rfind finds the greatest position, if there is one.
LEMMA LastIsGreatest ==
    ASSUME NEW S \in SUBSET (0..Limit), S # {}
    PROVE  Last(S) \in S /\ \A j \in S : j <= Last(S)
<1> DEFINE T == {Limit - i : i \in S}
<1>1. T \subseteq Nat /\ T # {}
  <2>1. \A i \in S : Limit - i \in Nat
    BY Bounds
  <2>2. PICK i \in S : TRUE
    OBVIOUS
  <2>3. Limit - i \in T
    BY <2>2
  <2> QED BY <2>1, <2>3
<1>2. PICK x \in T : \A y \in T : <<y, x>> \notin OpToRel(<, Nat)
  BY <1>1, WFMin, NatLessThanWellFounded, Zenon
<1>3. \A y \in T : ~(y < x)
  BY <1>1, <1>2, Zenon DEF OpToRel
<1>4. PICK i \in S : x = Limit - i
  BY <1>2
<1>5. ASSUME NEW j \in S PROVE j <= i
  <2>1. Limit - j \in T
    OBVIOUS
  <2>2. ~(Limit - j < x)
    BY <1>3, <2>1
  <2>3. i \in 0..Limit /\ j \in 0..Limit
    OBVIOUS
  <2> QED BY <1>4, <2>2, <2>3, Bounds
<1>6. \E k \in S : \A j \in S : j <= k
  BY <1>5
<1> QED BY <1>6 DEF Last

LEMMA PositionsType == \A t, b : Positions(t, b) \in SUBSET (0..Limit)
  BY DEF Positions

\* A part is within the text and within the limit, and cut at a position.
LEMMA CutType ==
    ASSUME NEW t \in Seq(Bytes)
    PROVE  /\ Cut(t) \in 0..Len(t)
           /\ Cut(t) <= Limit
           /\ Len(t) > Limit =>
                \/ Cut(t) \in Positions(t, Break) /\ \A j \in Positions(t, Break) : j <= Cut(t)
                \/ /\ Positions(t, Break) = {}
                   /\ Cut(t) \in Positions(t, Space)
                   /\ \A j \in Positions(t, Space) : j <= Cut(t)
                \/ Positions(t, Break) = {} /\ Positions(t, Space) = {} /\ Cut(t) = Limit
<1>0. Len(t) \in Nat
  OBVIOUS
<1>1. CASE Len(t) <= Limit
  BY <1>0, <1>1, Bounds DEF Cut
<1>2. CASE Len(t) > Limit /\ Positions(t, Break) # {}
  <2>1. Cut(t) = Last(Positions(t, Break))
    BY <1>0, <1>2, Bounds DEF Cut
  <2>2. Cut(t) \in Positions(t, Break) /\ \A j \in Positions(t, Break) : j <= Cut(t)
    BY <1>2, <2>1, LastIsGreatest, PositionsType
  <2>3. Cut(t) \in 0..Limit
    BY <2>2, PositionsType
  <2> QED BY <1>0, <1>2, <2>2, <2>3, Bounds
<1>3. CASE Len(t) > Limit /\ Positions(t, Break) = {} /\ Positions(t, Space) # {}
  <2>1. Cut(t) = Last(Positions(t, Space))
    BY <1>0, <1>3, Bounds DEF Cut
  <2>2. Cut(t) \in Positions(t, Space) /\ \A j \in Positions(t, Space) : j <= Cut(t)
    BY <1>3, <2>1, LastIsGreatest, PositionsType
  <2>3. Cut(t) \in 0..Limit
    BY <2>2, PositionsType
  <2> QED BY <1>0, <1>3, <2>2, <2>3, Bounds
<1>4. CASE Len(t) > Limit /\ Positions(t, Break) = {} /\ Positions(t, Space) = {}
  BY <1>0, <1>4, Bounds DEF Cut
<1> QED BY <1>0, <1>1, <1>2, <1>3, <1>4, Bounds

\* Splitting loses nothing.
LEMMA PartAndRemainder ==
    ASSUME NEW t \in Seq(Bytes)
    PROVE  /\ Part(t) \in Seq(Bytes) /\ Len(Part(t)) = Cut(t)
           /\ Remainder(t) \in Seq(Bytes)
           /\ Part(t) \o Remainder(t) = t
           /\ Cut(t) = Len(t) => Remainder(t) = <<>>
<1>1. Len(t) \in Nat /\ Cut(t) \in 0..Len(t) /\ Cut(t) \in Nat
  BY CutType
<1>2. \A i \in 1..Len(t) : t[i] \in Bytes
  BY ElementOfSeq
<1>3. Part(t) \in Seq(Bytes) /\ Len(Part(t)) = Cut(t)
  BY <1>1, <1>2, SubSeqProperties DEF Part
<1>4. Remainder(t) \in Seq(Bytes)
  BY <1>1, <1>2, SubSeqProperties DEF Remainder
<1>5. Part(t) \o Remainder(t) = SubSeq(t, 1, Len(t))
  <2>1. 1 \in 1 .. Len(t) + 1 /\ Cut(t) \in 1 - 1 .. Len(t) /\ Len(t) \in Cut(t) .. Len(t)
    BY <1>1
  <2> QED BY <2>1, ConcatAdjacentSubSeq DEF Part, Remainder
<1>6. Cut(t) = Len(t) => Remainder(t) = <<>>
  BY <1>1, SubSeqEmpty DEF Remainder
<1> QED BY <1>3, <1>4, <1>5, <1>6, SubSeqFull

LEMMA CutIsGood ==
    ASSUME NEW t \in Seq(Bytes)
    PROVE  GoodSplit(t, Cut(t))
<1>0. Len(t) \in Nat /\ Cut(t) \in 0..Len(t) /\ Cut(t) <= Limit
  BY CutType
<1>1. \A b, i : i \in 1 .. Limit + 1 => (t[i] = b <=> i - 1 \in Positions(t, b))
  BY Bounds DEF Positions
<1>2. CASE Len(t) <= Limit
  BY <1>0, <1>2, Bounds DEF Cut, GoodSplit
<1>3. CASE Len(t) > Limit /\ Cut(t) \in Positions(t, Break)
  <2>1. \A j \in Positions(t, Break) : j <= Cut(t)
    BY <1>3, CutType
  <2>2. t[Cut(t) + 1] = Break
    BY <1>3 DEF Positions
  <2>3. ~\E i \in Cut(t) + 2 .. Limit + 1 : t[i] = Break
    <3> SUFFICES ASSUME NEW i \in Cut(t) + 2 .. Limit + 1, t[i] = Break PROVE FALSE
      OBVIOUS
    <3>1. i \in 1 .. Limit + 1 /\ i - 1 > Cut(t) /\ i - 1 \in Int /\ Cut(t) \in Int
      BY <1>0, Bounds
    <3>2. i - 1 \in Positions(t, Break)
      BY <1>1, <3>1
    <3>3. i - 1 <= Cut(t)
      BY <2>1, <3>2
    <3> QED BY <3>1, <3>3
  <2> QED BY <1>0, <1>3, <2>2, <2>3 DEF GoodSplit
<1>4. CASE Len(t) > Limit /\ Cut(t) \notin Positions(t, Break)
  <2>1. Positions(t, Break) = {}
    BY <1>4, CutType
  <2>2. ~\E i \in 1 .. Limit + 1 : t[i] = Break
    BY <1>1, <2>1
  <2>3. CASE Cut(t) \in Positions(t, Space)
    <3>1. \A j \in Positions(t, Space) : j <= Cut(t)
      BY <1>4, <2>3, CutType
    <3>2. t[Cut(t) + 1] = Space
      BY <2>3 DEF Positions
    <3>3. ~\E i \in Cut(t) + 2 .. Limit + 1 : t[i] = Space
      <4> SUFFICES ASSUME NEW i \in Cut(t) + 2 .. Limit + 1, t[i] = Space PROVE FALSE
        OBVIOUS
      <4>1. i \in 1 .. Limit + 1 /\ i - 1 > Cut(t) /\ i - 1 \in Int /\ Cut(t) \in Int
        BY <1>0, Bounds
      <4>2. i - 1 \in Positions(t, Space)
        BY <1>1, <4>1
      <4>3. i - 1 <= Cut(t)
        BY <3>1, <4>2
      <4> QED BY <4>1, <4>3
    <3> QED BY <1>0, <1>4, <2>2, <3>2, <3>3 DEF GoodSplit
  <2>4. CASE Cut(t) \notin Positions(t, Space)
    <3>1. Positions(t, Space) = {} /\ Cut(t) = Limit
      BY <1>4, <2>4, CutType
    <3>2. ~\E i \in 1 .. Limit + 1 : t[i] = Space
      BY <1>1, <3>1
    <3> QED BY <1>0, <1>4, <2>2, <3>1, <3>2 DEF GoodSplit
  <2> QED BY <2>3, <2>4
<1> QED BY <1>0, <1>2, <1>3, <1>4, Bounds

(***************************************************************************)
(* The invariant of a message: how far it has come and what is missing.    *)
(***************************************************************************)
Good(m) ==
    /\ stage[m] = "new" => /\ text[m] = <<>> /\ original[m] = <<>> /\ delivered[m] = <<>>
                           /\ offset[m] = 0 /\ pictures[m] = 0
    /\ stage[m] \in Uploading => offset[m] < pictures[m]
    /\ stage[m] \in {"sending", "taken", "sent", "captcha", "dialog"} => offset[m] = pictures[m]
    /\ m \in unheard => stage[m] \in {"failed", "closed"}
    /\ stage[m] = "sent" => Cut(text[m]) = Len(text[m])
    /\ stage[m] = "failed" => m \in reported \cup unseen
    /\ delivered[m] \o Missing(m) = original[m]

\* A message that a step does not touch.
Same(m) ==
    /\ stage'[m] = stage[m] /\ text'[m] = text[m] /\ offset'[m] = offset[m]
    /\ original'[m] = original[m] /\ pictures'[m] = pictures[m] /\ delivered'[m] = delivered[m]
    /\ m \in unheard' <=> m \in unheard
    /\ m \in reported \cup unseen => m \in reported' \cup unseen'

LEMMA SameIsGood ==
    ASSUME NEW m, Good(m), Same(m)
    PROVE  Good(m)'
  BY DEF Good, Same, Missing

LEMMA TypeStep ==
    TypeOK /\ (\A m \in Messages : Good(m)) /\ [Next]_vars => TypeOK'
<1> SUFFICES ASSUME TypeOK, \A m \in Messages : Good(m), [Next]_vars PROVE TypeOK'
  OBVIOUS
<1> USE Bounds
<1> USE DEF Wanted, Quiet
<1>1. ASSUME NEW m \in Messages, NEW t \in Seq(Bytes), NEW n \in 0..MaxPictures, Start(m, t, n)
      PROVE  /\ original' \in [Messages -> Seq(Bytes)] /\ text' \in [Messages -> Seq(Bytes)]
             /\ pictures' \in [Messages -> 0..MaxPictures] /\ session' \in {"off", "on"}
             /\ delivered' \in [Messages -> Seq(Bytes)] /\ unheard' \in SUBSET Messages
             /\ reported' \in SUBSET Messages /\ unseen' \in SUBSET Messages
             /\ captchas' \in 0..MaxCaptchas
  BY <1>1 DEF Start, TypeOK
<1>2. ASSUME NEW m \in Messages, NEW s \in Stages, Goto(m, s)
      PROVE  stage' \in [Messages -> Stages]
  BY <1>2 DEF Goto, TypeOK
<1>3. {"server", "upload", "save", "sending", "taken", "captcha", "dialog", "sent", "failed",
       "dropped", "closed"} \subseteq Stages
  BY DEF Stages, Uploading, Ended
<1>4. ASSUME NEW m \in Messages, Fail(m)
      PROVE  /\ stage' \in [Messages -> Stages]
             /\ reported' \in SUBSET Messages /\ unseen' \in SUBSET Messages
  BY <1>2, <1>3, <1>4 DEF Fail, TypeOK
<1>5. ASSUME NEW m \in Messages, NEW t \in Texts, NEW n \in 0..MaxPictures, Type(m, t, n)
      PROVE  TypeOK'
  <2>1. t \in Seq(Bytes)
    BY SendAssumption
  <2>2. stage' \in [Messages -> Stages]
    BY <1>2, <1>3, <1>5 DEF Type
  <2>3. window' \in BOOLEAN
    BY <1>5, Zenon DEF Type
  <2> QED BY <1>1, <1>5, <2>1, <2>2, <2>3 DEF Type, TypeOK
<1>6. ASSUME NEW m \in Messages, Attach(m) PROVE TypeOK'
  <2>1. stage' \in [Messages -> Stages]
    BY <1>2, <1>3, <1>6 DEF Attach
  <2>2. offset' \in [Messages -> 0..MaxPictures]
    BY <1>6 DEF Attach, TypeOK
  <2>3. <<>> \in Seq(Bytes) /\ 1 \in 0..MaxPictures
    OBVIOUS
  <2>4. Start(m, <<>>, 1) /\ window' = window
    BY <1>6 DEF Attach
  <2> QED BY <1>1, <2>1, <2>2, <2>3, <2>4 DEF TypeOK
<1>7. ASSUME NEW m \in Messages, UploadStep(m) PROVE TypeOK'
  <2>1. stage' \in [Messages -> Stages]
    BY <1>2, <1>3, <1>7 DEF UploadStep
  <2> QED BY <1>7, <2>1 DEF UploadStep, TypeOK
<1>8. ASSUME NEW m \in Messages, PictureSaved(m) PROVE TypeOK'
  <2>1. stage' \in [Messages -> Stages]
    BY <1>2, <1>3, <1>8 DEF PictureSaved
  <2>2. offset[m] < pictures[m]
    BY <1>8 DEF PictureSaved, Good, Uploading
  <2>3. offset' \in [Messages -> 0..MaxPictures]
    BY <1>8, <2>2 DEF PictureSaved, TypeOK
  <2> QED BY <1>8, <2>1, <2>3 DEF PictureSaved, TypeOK
<1>9. ASSUME NEW m \in Messages, Take(m) PROVE TypeOK'
  <2>1. stage' \in [Messages -> Stages]
    BY <1>2, <1>3, <1>9 DEF Take
  <2>2. Part(text[m]) \in Seq(Bytes)
    BY PartAndRemainder DEF TypeOK
  <2>3. delivered[m] \o Part(text[m]) \in Seq(Bytes)
    BY <2>2, ConcatProperties DEF TypeOK
  <2>4. delivered' \in [Messages -> Seq(Bytes)]
    BY <1>9, <2>3 DEF Take, TypeOK
  <2> QED BY <1>9, <2>1, <2>4 DEF Take, TypeOK
<1>10. ASSUME NEW m \in Messages, PartSent(m) PROVE TypeOK'
  <2>1. stage' \in [Messages -> Stages]
    BY <1>2, <1>3, <1>10 DEF PartSent
  <2>2. Remainder(text[m]) \in Seq(Bytes)
    BY PartAndRemainder DEF TypeOK
  <2>3. text' \in [Messages -> Seq(Bytes)]
    BY <1>10, <2>2 DEF PartSent, TypeOK
  <2> QED BY <1>10, <2>1, <2>3 DEF PartSent, TypeOK
<1>11. ASSUME NEW m \in Messages, Failed(m) PROVE TypeOK'
  <2>1. unheard' \in SUBSET Messages
    BY <1>11 DEF Failed, TypeOK
  <2>2. Fail(m)
    BY <1>11 DEF Failed
  <2> QED BY <1>4, <1>11, <2>1, <2>2 DEF Failed, TypeOK
<1>12. ASSUME NEW m \in Messages, Dropped(m) PROVE TypeOK'
  <2>1. stage' \in [Messages -> Stages]
    BY <1>2, <1>3, <1>12 DEF Dropped
  <2> QED BY <1>12, <2>1 DEF Dropped, TypeOK
<1>13. ASSUME NEW m \in Messages, CaptchaNeeded(m) PROVE TypeOK'
  <2>1. stage' \in [Messages -> Stages]
    BY <1>2, <1>3, <1>13 DEF CaptchaNeeded
  <2>2. captchas' \in 0..MaxCaptchas
    BY <1>13 DEF CaptchaNeeded, TypeOK
  <2> QED BY <1>13, <2>1, <2>2 DEF CaptchaNeeded, TypeOK
<1>14. ASSUME NEW m \in Messages, CaptchaShown(m) PROVE TypeOK'
  <2>1. stage' \in [Messages -> Stages]
    BY <1>2, <1>3, <1>14 DEF CaptchaShown
  <2> QED BY <1>14, <2>1 DEF CaptchaShown, TypeOK
<1>15. ASSUME NEW m \in Messages, CaptchaClicked(m) PROVE TypeOK'
  <2>1. /\ stage' \in [Messages -> Stages]
        /\ reported' \in SUBSET Messages /\ unseen' \in SUBSET Messages
    BY <1>2, <1>3, <1>4, <1>15 DEF CaptchaClicked, TypeOK
  <2> QED BY <1>15, <2>1 DEF CaptchaClicked, TypeOK
<1>16. CASE CloseWindow
  <2>1. window' \in BOOLEAN
    BY <1>16, Zenon DEF CloseWindow
  <2> QED BY <1>16, <2>1 DEF CloseWindow, TypeOK
<1>17. CASE Login
  BY <1>17 DEF Login, TypeOK
<1>18. CASE Close
  <2>1. stage' \in [Messages -> Stages]
    BY <1>3, <1>18 DEF Close, TypeOK
  <2>2. /\ reported' \in SUBSET Messages /\ unseen' \in SUBSET Messages
        /\ unheard' \in SUBSET Messages
    BY <1>18 DEF Close, TypeOK
  <2> QED BY <1>18, <2>1, <2>2 DEF Close, TypeOK
<1>19. CASE UNCHANGED vars
  BY <1>19 DEF vars, TypeOK
<1> QED
  BY <1>5, <1>6, <1>7, <1>8, <1>9, <1>10, <1>11, <1>12, <1>13, <1>14, <1>15, <1>16, <1>17,
     <1>18, <1>19 DEF Next, RequestEnds

LEMMA GoodStep ==
    TypeOK /\ (\A m \in Messages : Good(m)) /\ [Next]_vars => (\A m \in Messages : Good(m))'
<1> SUFFICES ASSUME TypeOK, \A m \in Messages : Good(m), [Next]_vars, NEW k \in Messages
             PROVE  Good(k)'
  OBVIOUS
<1> USE DEF Wanted, Quiet
<1>0. Good(k) /\ text[k] \in Seq(Bytes) /\ delivered[k] \in Seq(Bytes)
  BY DEF TypeOK
<1>a. Same(k) => Good(k)'
  BY <1>0, SameIsGood
<1>1. ASSUME NEW m \in Messages, NEW t \in Seq(Bytes), NEW n \in 0..MaxPictures,
             Type(m, t, n) \/ (Attach(m) /\ t = <<>> /\ n = 1)
      PROVE  Good(k)'
  <2>0. Start(m, t, n)
    BY <1>1 DEF Type, Attach
  <2>1. CASE k # m
    BY <1>1, <1>a, <2>0, <2>1 DEF Same, Start, Type, Attach, Goto, TypeOK
  <2>2. CASE k = m
    <3>1. /\ delivered'[k] = <<>> /\ text'[k] = t /\ original'[k] = t /\ pictures'[k] = n
          /\ k \notin unheard' /\ n \in Nat
      BY <1>0, <2>0, <2>2 DEF Start, Good, TypeOK
    <3>2. \/ stage'[k] = "sending" /\ offset'[k] = n
          \/ stage'[k] = "server" /\ offset'[k] < n
      BY <1>0, <1>1, <2>0, <2>2 DEF Type, Attach, Start, Goto, Good, TypeOK
    <3>3. delivered'[k] \o t = t
      BY <3>1, ConcatEmptySeq
    <3>4. Missing(k)' = t
      BY <3>1, <3>2 DEF Missing
    <3> QED BY <3>1, <3>2, <3>3, <3>4 DEF Good, Uploading
  <2> QED BY <2>1, <2>2
<1>2. ASSUME NEW m \in Messages, UploadStep(m) PROVE Good(k)'
  <2>1. CASE k # m
    BY <1>2, <1>a, <2>1 DEF Same, UploadStep, Goto, TypeOK
  <2>2. CASE k = m
    <3>1. stage[k] \in Uploading /\ stage'[k] \in Uploading
      BY <1>2, <2>2 DEF UploadStep, Goto, Uploading, TypeOK
    <3>2. Missing(k)' = Missing(k)
      BY <1>2, <3>1 DEF UploadStep, Missing, Uploading
    <3> QED BY <1>0, <1>2, <3>1, <3>2 DEF UploadStep, Good, Uploading
  <2> QED BY <2>1, <2>2
<1>3. ASSUME NEW m \in Messages, PictureSaved(m) PROVE Good(k)'
  <2>1. CASE k # m
    BY <1>3, <1>a, <2>1 DEF Same, PictureSaved, Goto, TypeOK
  <2>2. CASE k = m
    <3>1. stage[k] = "save" /\ offset[k] < pictures[k] /\ k \notin unheard
      BY <1>0, <1>3, <2>2 DEF PictureSaved, Good, Uploading
    <3>2. /\ offset'[k] = offset[k] + 1 /\ pictures' = pictures
          /\ stage'[k] = IF offset'[k] = pictures[k] THEN "sending" ELSE "server"
      BY <1>3, <2>2 DEF PictureSaved, Goto, TypeOK
    <3>3. offset[k] \in Nat /\ pictures[k] \in Nat
      BY Bounds DEF TypeOK
    <3>4. \/ stage'[k] = "sending" /\ offset'[k] = pictures'[k]
          \/ stage'[k] = "server" /\ offset'[k] < pictures'[k]
      BY <3>1, <3>2, <3>3
    <3>5. Missing(k)' = Missing(k)
      BY <1>3, <3>1, <3>4 DEF PictureSaved, Missing
    <3> QED BY <1>0, <1>3, <3>1, <3>4, <3>5 DEF PictureSaved, Good, Uploading
  <2> QED BY <2>1, <2>2
<1>4. ASSUME NEW m \in Messages, Take(m) PROVE Good(k)'
  <2>1. CASE k # m
    BY <1>4, <1>a, <2>1 DEF Same, Take, Goto, TypeOK
  <2>2. CASE k = m
    <3>1. stage[k] = "sending" /\ stage'[k] = "taken" /\ k \notin unheard
      BY <1>0, <1>4, <2>2 DEF Take, Goto, Good, TypeOK
    <3>2. delivered'[k] = delivered[k] \o Part(text[k]) /\ text' = text
      BY <1>4, <2>2 DEF Take, TypeOK
    <3>3. delivered'[k] \o Remainder(text[k]) = delivered[k] \o text[k]
      <4>1. /\ Part(text[k]) \in Seq(Bytes) /\ Remainder(text[k]) \in Seq(Bytes)
            /\ Part(text[k]) \o Remainder(text[k]) = text[k]
        BY <1>0, PartAndRemainder
      <4>2. (delivered[k] \o Part(text[k])) \o Remainder(text[k])
              = delivered[k] \o (Part(text[k]) \o Remainder(text[k]))
        <5>1. ASSUME NEW s \in Seq(Bytes), NEW t \in Seq(Bytes), NEW u \in Seq(Bytes)
              PROVE  (s \o t) \o u = s \o (t \o u)
          BY ConcatAssociative
        <5> QED BY <1>0, <4>1, <5>1, Zenon
      <4> QED BY <3>2, <4>1, <4>2
    <3>4. Missing(k) = text[k] /\ Missing(k)' = Remainder(text[k])
      BY <3>1, <3>2 DEF Missing
    <3>5. offset' = offset /\ pictures' = pictures /\ original' = original /\ unheard' = unheard
      BY <1>4 DEF Take
    <3> QED BY <1>0, <3>1, <3>3, <3>4, <3>5 DEF Good, Uploading
  <2> QED BY <2>1, <2>2
<1>5. ASSUME NEW m \in Messages, PartSent(m) PROVE Good(k)'
  <2>1. CASE k # m
    BY <1>5, <1>a, <2>1 DEF Same, PartSent, Goto, TypeOK
  <2>2. CASE k = m
    <3>1. stage[k] = "taken" /\ k \notin unheard
      BY <1>0, <1>5, <2>2 DEF PartSent, Good
    <3>2. \/ stage'[k] = "sent" /\ text' = text /\ Cut(text[k]) = Len(text[k])
          \/ stage'[k] = "sending" /\ text'[k] = Remainder(text[k])
      BY <1>5, <2>2 DEF PartSent, Goto, TypeOK
    <3>3. /\ offset' = offset /\ pictures' = pictures /\ original' = original
          /\ unheard' = unheard /\ delivered' = delivered
      BY <1>5 DEF PartSent
    <3>4. Missing(k)' = Missing(k)
      BY <3>1, <3>2, <3>3 DEF Missing
    <3> QED BY <1>0, <3>1, <3>2, <3>3, <3>4 DEF Good, Uploading
  <2> QED BY <2>1, <2>2
<1>6. ASSUME NEW m \in Messages, Fail(m), stage[m] # "sent", m \notin unheard,
             UNCHANGED <<text, offset, original, pictures, delivered>>,
             unheard' = IF stage[m] = "taken" THEN unheard \cup {m} ELSE unheard
      PROVE  Good(k)'
  <2>1. CASE k # m
    BY <1>6, <1>a, <2>1 DEF Same, Fail, Goto, TypeOK
  <2>2. CASE k = m
    <3>1. stage'[k] = "failed" /\ k \in reported' \cup unseen'
      BY <1>6, <2>2 DEF Fail, Goto, TypeOK
    <3>2. Missing(k)' = Missing(k)
      BY <1>6, <2>2, <3>1 DEF Missing
    <3> QED BY <1>0, <1>6, <3>1, <3>2 DEF Good, Uploading
  <2> QED BY <2>1, <2>2
<1>7. ASSUME NEW m \in Messages, Failed(m) PROVE Good(k)'
  <2>1. stage[m] # "sent" /\ m \notin unheard
    BY <1>7 DEF Failed, Good, Uploading
  <2> QED BY <1>6, <1>7, <2>1 DEF Failed
<1>8. ASSUME NEW m \in Messages, Dropped(m) PROVE Good(k)'
  <2>1. CASE k # m
    BY <1>8, <1>a, <2>1 DEF Same, Dropped, Goto, TypeOK
  <2>2. CASE k = m
    <3>1. stage[k] \in {"server", "save", "sending"} /\ stage'[k] = "dropped" /\ k \notin unheard
      BY <1>0, <1>8, <2>2 DEF Dropped, Goto, Good, TypeOK
    <3>2. Missing(k)' = Missing(k)
      BY <1>8, <3>1 DEF Dropped, Missing
    <3> QED BY <1>0, <1>8, <3>1, <3>2 DEF Dropped, Good, Uploading
  <2> QED BY <2>1, <2>2
<1>9. ASSUME NEW m \in Messages, NEW s \in {"sending", "captcha", "dialog"},
             stage[m] \in {"sending", "captcha", "dialog"}, Goto(m, s), Quiet,
             UNCHANGED <<text, offset, original, pictures, delivered, unheard>>
      PROVE  Good(k)'
  <2>1. CASE k # m
    BY <1>9, <1>a, <2>1 DEF Same, Goto, TypeOK
  <2>2. CASE k = m
    <3>1. stage'[k] = s /\ k \notin unheard
      BY <1>0, <1>9, <2>2 DEF Goto, Good, TypeOK
    <3>2. Missing(k)' = Missing(k)
      BY <1>9, <2>2, <3>1 DEF Missing
    <3> QED BY <1>0, <1>9, <2>2, <3>1, <3>2 DEF Good, Uploading
  <2> QED BY <2>1, <2>2
<1>10. ASSUME NEW m \in Messages, CaptchaNeeded(m) \/ CaptchaShown(m) PROVE Good(k)'
  BY <1>9, <1>10 DEF CaptchaNeeded, CaptchaShown
<1>11. ASSUME NEW m \in Messages, CaptchaClicked(m) PROVE Good(k)'
  <2>1. CASE Fail(m)
    <3>1. stage[m] = "dialog" /\ m \notin unheard
      BY <1>11 DEF CaptchaClicked, Good
    <3> QED BY <1>6, <1>11, <2>1, <3>1 DEF CaptchaClicked
  <2>2. CASE ~Fail(m)
    BY <1>9, <1>11, <2>2 DEF CaptchaClicked
  <2> QED BY <2>1, <2>2
<1>12. CASE CloseWindow \/ Login
  BY <1>12, <1>a DEF Same, CloseWindow, Login
<1>13. CASE Close
  <2>1. UNCHANGED <<text, offset, original, pictures, delivered>>
    BY <1>13 DEF Close
  <2>2. k \in unheard' <=> k \in unheard \/ stage[k] = "taken"
    BY <1>13 DEF Close
  <2>3. k \in reported \cup unseen => k \in reported' \cup unseen'
    BY <1>13 DEF Close
  <2>4. CASE stage[k] \in {"upload", "captcha"}
    <3>1. stage'[k] = "failed"
      <4>1. k \in {m \in Messages : stage[m] \in {"upload", "captcha"}}
        BY <2>4
      <4> QED BY <1>13, <4>1 DEF Close, Ended
    <3>2. k \in reported' \cup unseen'
      <4>1. CASE window
        BY <1>13, <2>4, <4>1 DEF Close
      <4>2. CASE ~window
        BY <1>13, <2>4, <4>2 DEF Close
      <4> QED BY <4>1, <4>2
    <3>3. k \notin unheard /\ k \notin unheard'
      BY <1>0, <2>2, <2>4 DEF Good
    <3>4. Missing(k)' = Missing(k)
      BY <2>1, <2>4, <3>1, <3>3 DEF Missing
    <3> QED BY <1>0, <2>1, <3>1, <3>2, <3>3, <3>4 DEF Good, Uploading
  <2>5. CASE stage[k] \in Ended \cup {"new"}
    <3>1. stage'[k] = stage[k]
      BY <1>13, <2>5 DEF Close, Ended
    <3> QED BY <1>a, <2>1, <2>2, <2>3, <2>5, <3>1 DEF Same, Ended
  <2>6. CASE stage[k] \notin {"upload", "captcha"} \cup Ended \cup {"new"}
    <3>1. stage'[k] = "closed"
      BY <1>13, <2>6 DEF Close
    <3>2. Missing(k)' = Missing(k)
      BY <1>0, <2>1, <2>2, <2>6, <3>1 DEF Missing, Good, Ended
    <3>3. k \notin unheard
      BY <1>0, <2>6 DEF Good, Ended
    <3> QED BY <1>0, <2>1, <3>1, <3>2, <3>3 DEF Good, Uploading
  <2> QED BY <2>4, <2>5, <2>6
<1>14. CASE UNCHANGED vars
  BY <1>14, <1>a DEF Same, vars
<1>15. ASSUME NEW m \in Messages, NEW t \in Texts, NEW n \in 0..MaxPictures, Type(m, t, n)
       PROVE  Good(k)'
  BY <1>1, <1>15, SendAssumption
<1>16. ASSUME NEW m \in Messages, Attach(m) PROVE Good(k)'
  <2>1. <<>> \in Seq(Bytes) /\ 1 \in 0..MaxPictures
    BY Bounds
  <2> QED BY <1>1, <1>16, <2>1
<1> QED
  BY <1>2, <1>3, <1>4, <1>5, <1>7, <1>8, <1>10, <1>11, <1>12, <1>13, <1>14, <1>15, <1>16
     DEF Next, RequestEnds

(***************************************************************************)
(* The theorems                                                            *)
(***************************************************************************)
\* The variables keep their types; no more pictures are uploaded than wanted.
\* It carries the invariant of every message along.
THEOREM TypeCorrect == Spec => [](TypeOK /\ \A m \in Messages : Good(m))
<1>1. Init => TypeOK /\ \A m \in Messages : Good(m)
  <2> SUFFICES ASSUME Init PROVE TypeOK /\ \A m \in Messages : Good(m)
    OBVIOUS
  <2>1. window \in BOOLEAN
    BY Zenon DEF Init
  <2>2. <<>> \in Seq(Bytes) /\ 0 \in 0..MaxPictures /\ 0 \in 0..MaxCaptchas
    BY Bounds
  <2>3. TypeOK
    BY <2>1, <2>2 DEF Init, TypeOK, Stages
  <2>4. ASSUME NEW m \in Messages PROVE Good(m)
    <3>1. <<>> \o <<>> = <<>>
      BY <2>2, ConcatEmptySeq
    <3> QED BY <3>1 DEF Init, Good, Missing, Uploading
  <2> QED BY <2>3, <2>4
<1>2. TypeOK /\ (\A m \in Messages : Good(m)) /\ [Next]_vars
        => (TypeOK /\ \A m \in Messages : Good(m))'
  BY TypeStep, GoodStep
<1> QED BY <1>1, <1>2, PTL DEF Spec

\* However a text is split and whatever fails, what was delivered and what is
\* missing is the text.
THEOREM TextKept == Spec => []TextIsKept
<1>1. TypeOK /\ (\A m \in Messages : Good(m)) => TextIsKept
  BY DEF Good, TextIsKept
<1> QED BY <1>1, TypeCorrect, PTL

\* show_error tells of every message that is lost, but for the named reasons.
THEOREM LossReported == Spec => []LossIsReported
<1>1. TypeOK /\ (\A m \in Messages : Good(m)) => LossIsReported
  <2> SUFFICES ASSUME TypeOK, NEW m \in Messages, Good(m), stage[m] \in Ended
               PROVE  \/ Missing(m) = <<>> /\ offset[m] = pictures[m]
                      \/ m \in reported \cup unseen
                      \/ stage[m] \in {"dropped", "closed"}
    BY DEF LossIsReported
  <2>1. CASE stage[m] = "sent"
    <3>1. text[m] \in Seq(Bytes) /\ Cut(text[m]) = Len(text[m])
      BY <2>1 DEF TypeOK, Good
    <3> QED BY <2>1, <3>1, PartAndRemainder DEF Missing, Good
  <2> QED BY <2>1 DEF Ended, Good
<1> QED BY <1>1, TypeCorrect, PTL

\* No part is sent before all pictures of the message are uploaded.
THEOREM AllPicturesFirst == Spec => []PicturesFirst
<1>1. TypeOK /\ (\A m \in Messages : Good(m)) => PicturesFirst
  BY DEF Good, PicturesFirst
<1> QED BY <1>1, TypeCorrect, PTL

\* Every part ends at the limit, or at the last line break or space within it.
THEOREM GoodSplits == Spec => SplitsAtBreaks
<1> DEFINE Splits == \A m \in Messages :
             Take(m) => GoodSplit(text[m], Len(delivered'[m]) - Len(delivered[m]))
<1>1. TypeOK => Splits
  <2> SUFFICES ASSUME TypeOK, NEW m \in Messages, Take(m)
               PROVE  GoodSplit(text[m], Len(delivered'[m]) - Len(delivered[m]))
    OBVIOUS
  <2>1. text[m] \in Seq(Bytes) /\ delivered[m] \in Seq(Bytes)
    BY DEF TypeOK
  <2>2. delivered'[m] = delivered[m] \o Part(text[m])
    BY DEF Take, TypeOK
  <2>3. Part(text[m]) \in Seq(Bytes) /\ Len(Part(text[m])) = Cut(text[m])
    BY <2>1, PartAndRemainder
  <2>4. Len(delivered[m] \o Part(text[m])) = Len(delivered[m]) + Len(Part(text[m]))
    BY <2>1, <2>3, ConcatProperties
  <2>5. Len(delivered[m]) \in Nat /\ Cut(text[m]) \in Int
    BY <2>1, CutType
  <2>6. Len(delivered'[m]) - Len(delivered[m]) = Cut(text[m])
    BY <2>2, <2>3, <2>4, <2>5
  <2> QED BY <2>1, <2>6, CutIsGood
<1>2. TypeOK /\ [Next]_vars => [Splits]_vars
  BY <1>1
<1> HIDE DEF Splits
<1>3. Spec => [][Splits]_vars
  BY <1>2, TypeCorrect, PTL DEF Spec
<1> QED BY <1>3 DEF SplitsAtBreaks, Splits

-----------------------------------------------------------------------------
(* MessageParts *)

(***************************************************************************)
(* The stages and their order                                              *)
(***************************************************************************)
AfterUsers  == {"groups", "chats", "chatlist", "authors", "buddies", "done"}
AfterGroups == {"chats", "chatlist", "authors", "buddies", "done"}
InOrder == {"images", "users", "groups", "chats", "chatlist", "authors", "buddies"}

LEMMA OrderIs ==
    /\ Len(Order) = 7 /\ DOMAIN Order = 1..7
    /\ Order[1] = "images" /\ Order[2] = "users" /\ Order[3] = "groups" /\ Order[4] = "chats"
    /\ Order[5] = "chatlist" /\ Order[6] = "authors" /\ Order[7] = "buddies"
    /\ {Order[i] : i \in DOMAIN Order} = InOrder
<1>1. /\ Len(Order) = 7 /\ DOMAIN Order = 1..7
      /\ Order[1] = "images" /\ Order[2] = "users" /\ Order[3] = "groups" /\ Order[4] = "chats"
      /\ Order[5] = "chatlist" /\ Order[6] = "authors" /\ Order[7] = "buddies"
  BY DEF Order
<1>2. 1..7 = {1, 2, 3, 4, 5, 6, 7}
  OBVIOUS
<1> QED BY <1>1, <1>2 DEF InOrder

LEMMA RankIs ==
    /\ Rank("images") = 1 /\ Rank("users") = 2 /\ Rank("groups") = 3 /\ Rank("chats") = 4
    /\ Rank("chatlist") = 5 /\ Rank("authors") = 6 /\ Rank("buddies") = 7
<1>1. ASSUME NEW n \in 1..7
      PROVE  Rank(Order[n]) = n
  <2>1. \A i \in 1..7 : Order[i] = Order[n] => i = n
    BY OrderIs
  <2> QED BY <2>1, OrderIs DEF Rank
<1>2. 1 \in 1..7 /\ 2 \in 1..7 /\ 3 \in 1..7 /\ 4 \in 1..7 /\ 5 \in 1..7 /\ 6 \in 1..7 /\ 7 \in 1..7
  OBVIOUS
<1> QED BY <1>1, <1>2, OrderIs

LEMMA StagesAre == BatchStages = {"none", "fetch"} \cup InOrder \cup {"done", "cut", "silent", "closed"}
  BY OrderIs DEF BatchStages, Over

\* The next stage is the n-th, or the end, and nothing is asked in between.
LEMMA NextIs ==
    ASSUME NEW s \in InOrder, NEW I, NEW know
    PROVE  \E n \in Rank(s) + 1 .. 8 :
             /\ NextStage(s, I, know) = IF n = 8 THEN "done" ELSE Order[n]
             /\ \A i \in Rank(s) + 1 .. n - 1 : Ask(Order[i], I, know) = {}
             /\ Passed(s, NextStage(s, I, know)) = {Order[i] : i \in Rank(s) .. n - 1}
<1>0. Rank(s) \in 1..7
  BY RankIs DEF InOrder
<1>1. PICK asking : asking = {i \in Rank(s) + 1 .. 7 : Ask(Order[i], I, know) # {}}
  OBVIOUS
<1>2. NextStage(s, I, know) = IF asking = {} THEN "done"
                              ELSE Order[CHOOSE i \in asking : \A j \in asking : i <= j]
  BY <1>1, OrderIs DEF NextStage
<1>3. CASE asking = {}
  <2>1. NextStage(s, I, know) = "done"
    BY <1>2, <1>3
  <2>2. Passed(s, "done") = {Order[i] : i \in Rank(s) .. 8 - 1}
    BY OrderIs DEF Passed
  <2>3. \A i \in Rank(s) + 1 .. 8 - 1 : Ask(Order[i], I, know) = {}
    BY <1>1, <1>3
  <2>4. 8 \in Rank(s) + 1 .. 8
    BY <1>0
  <2> QED BY <2>1, <2>2, <2>3, <2>4
<1>4. CASE asking # {}
  <2>1. asking \subseteq Nat
    BY <1>0, <1>1
  <2>2. PICK n \in asking : \A j \in asking : <<j, n>> \notin OpToRel(<, Nat)
    BY <1>4, <2>1, WFMin, NatLessThanWellFounded, Zenon
  <2>3. \A j \in asking : ~(j < n)
    BY <2>1, <2>2, Zenon DEF OpToRel
  <2>4. \A j \in asking : n <= j
    BY <2>1, <2>3
  <2>5. PICK k : k = CHOOSE i \in asking : \A j \in asking : i <= j
    OBVIOUS
  <2>6. k \in asking /\ \A j \in asking : k <= j
    BY <2>2, <2>4, <2>5
  <2>7. k \in Rank(s) + 1 .. 7 /\ Rank(s) + 1 .. 7 \subseteq Rank(s) + 1 .. 8
    BY <1>0, <1>1, <2>6
  <2>8. NextStage(s, I, know) = Order[k]
    BY <1>2, <1>4, <2>5
  <2>9. ASSUME NEW i \in Rank(s) + 1 .. k - 1 PROVE Ask(Order[i], I, know) = {}
    <3>1. i \in Rank(s) + 1 .. 7 /\ ~(k <= i)
      BY <1>0, <2>7
    <3> QED BY <1>1, <2>6, <3>1
  <2>10. Order[k] # "done" /\ Rank(Order[k]) = k
    <3>1. k \in {2, 3, 4, 5, 6, 7}
      BY <1>0, <2>7
    <3> QED BY <3>1, OrderIs, RankIs
  <2>11. Passed(s, Order[k]) = {Order[i] : i \in Rank(s) .. k - 1}
    BY <2>10 DEF Passed
  <2>12. k # 8
    BY <1>0, <2>7
  <2> QED BY <2>7, <2>8, <2>9, <2>11, <2>12
<1> QED BY <1>3, <1>4

\* What it means to have come to a stage: what was over before, or was passed
\* over as nothing was to be asked.
LEMMA Onward ==
    ASSUME NEW s \in InOrder, NEW I, NEW know, NEW t, t = NextStage(s, I, know)
    PROVE  /\ t \in {"users"} \cup AfterUsers
           /\ Passed(s, t) \subseteq InOrder /\ s \in Passed(s, t)
           /\ t \in AfterUsers =>
                \/ s \in AfterUsers \/ s = "users"
                \/ ("users" \in Passed(s, t) /\ Ask("users", I, know) = {})
           /\ t \in AfterGroups =>
                \/ s \in AfterGroups \/ s = "groups"
                \/ "groups" \in Passed(s, t) /\ Ask("groups", I, know) = {}
           /\ t \in {"buddies", "done"} =>
                s \in {"authors", "buddies"} \/ Ask("authors", I, know) = {}
           /\ t = "done" =>
                \/ s = "buddies"
                \/ "buddies" \in Passed(s, t) \ {s} /\ Ask("buddies", I, know) = {}
           /\ t = "buddies" => s # "buddies"
<1>1. PICK r : r = Rank(s)
  OBVIOUS
<1>2. PICK n \in r + 1 .. 8 :
        /\ t = IF n = 8 THEN "done" ELSE Order[n]
        /\ \A i \in r + 1 .. n - 1 : Ask(Order[i], I, know) = {}
        /\ Passed(s, t) = {Order[i] : i \in r .. n - 1}
  BY <1>1, NextIs
<1>3. r \in 1..7 /\ s = Order[r]
  BY <1>1, RankIs, OrderIs DEF InOrder
<1>4. n \in 2..8 /\ r < n
  BY <1>2, <1>3
<1>5. Passed(s, t) \subseteq InOrder /\ s \in Passed(s, t)
  <2>1. r .. n - 1 \subseteq 1..7 /\ r \in r .. n - 1
    BY <1>3, <1>4
  <2> QED BY <1>2, <1>3, <2>1, OrderIs
<1>6. \A i \in 1..7 : r < i /\ i < n => Order[i] \in Passed(s, t) /\ Ask(Order[i], I, know) = {}
  <2> SUFFICES ASSUME NEW i \in 1..7, r < i, i < n
               PROVE  Order[i] \in Passed(s, t) /\ Ask(Order[i], I, know) = {}
    OBVIOUS
  <2>1. i \in r + 1 .. n - 1 /\ i \in r .. n - 1
    BY <1>3, <1>4
  <2> QED BY <1>2, <2>1
<1>7. \A i \in 1..7 : t = Order[i] => n = i
  BY <1>2, <1>4, OrderIs
<1>8. t = "done" => n = 8
  <2>1. n # 8 => n \in 1..7
    BY <1>4
  <2> QED BY <1>2, <2>1, OrderIs
<1>9. t \in {"users"} \cup AfterUsers
  <2>1. n \in {2, 3, 4, 5, 6, 7, 8}
    BY <1>4
  <2> QED BY <1>2, <2>1, OrderIs DEF AfterUsers
<1>10. /\ t \in AfterUsers => n > 2
       /\ t \in AfterGroups => n > 3
       /\ t \in {"buddies", "done"} => n > 6
       /\ t = "buddies" => n = 7
  <2>1. 2 \in 1..7 /\ 3 \in 1..7 /\ 4 \in 1..7 /\ 5 \in 1..7 /\ 6 \in 1..7 /\ 7 \in 1..7
    OBVIOUS
  <2>2. /\ t = "groups" => n = 3
        /\ t = "chats" => n = 4
        /\ t = "chatlist" => n = 5
        /\ t = "authors" => n = 6
        /\ t = "buddies" => n = 7
    BY <1>7, <2>1, OrderIs
  <2> QED BY <1>8, <2>2 DEF AfterUsers, AfterGroups
<1>11. /\ r = 2 => s = "users"
       /\ r = 3 => s = "groups"
       /\ r > 2 => s \in AfterUsers
       /\ r > 3 => s \in AfterGroups
       /\ r > 5 => s \in {"authors", "buddies"}
       /\ s = "buddies" <=> r = 7
  <2>1. r \in {1, 2, 3, 4, 5, 6, 7}
    BY <1>3
  <2> QED BY <1>3, <2>1, OrderIs DEF AfterUsers, AfterGroups
<1>12. t \in AfterUsers =>
         \/ s \in AfterUsers \/ s = "users"
         \/ ("users" \in Passed(s, t) /\ Ask("users", I, know) = {})
  BY <1>3, <1>6, <1>10, <1>11, OrderIs
<1>13. t \in AfterGroups =>
         \/ s \in AfterGroups \/ s = "groups"
         \/ "groups" \in Passed(s, t) /\ Ask("groups", I, know) = {}
  BY <1>3, <1>6, <1>10, <1>11, OrderIs
<1>14. t \in {"buddies", "done"} => s \in {"authors", "buddies"} \/ Ask("authors", I, know) = {}
  BY <1>3, <1>6, <1>10, <1>11, OrderIs
<1>s. r < 7 => "buddies" # s
  BY <1>11
<1>15. t = "done" =>
         s = "buddies" \/ ("buddies" \in Passed(s, t) \ {s} /\ Ask("buddies", I, know) = {})
  BY <1>3, <1>6, <1>8, <1>11, <1>s, OrderIs
<1>16. t = "buddies" => s # "buddies"
  BY <1>3, <1>4, <1>10, <1>11
<1> QED BY <1>5, <1>9, <1>12, <1>13, <1>14, <1>15, <1>16

(***************************************************************************)
(* Items, and what replacing placeholders does to them                     *)
(***************************************************************************)
GoodItems == {I \in Seq(Items) : Len(I) <= MaxItems /\ \A i \in DOMAIN I : GoodItem(I[i])}

\* J is I, but for placeholders that have gone.
Completes(J, I) ==
    /\ J \in GoodItems /\ Len(J) = Len(I) /\ DOMAIN J = DOMAIN I
    /\ \A i \in DOMAIN I :
        /\ J[i].msg = I[i].msg /\ J[i].images = I[i].images
        /\ J[i].users = I[i].users /\ J[i].groups = I[i].groups
        /\ J[i].text \subseteq I[i].text

LEMMA ItemIs ==
    ASSUME NEW I \in GoodItems
    PROVE  /\ I \in Seq(Items) /\ DOMAIN I = 1..Len(I) /\ Len(I) \in 0..MaxItems
           /\ \A i \in DOMAIN I :
                /\ I[i] \in Items /\ GoodItem(I[i])
                /\ I[i].msg \in Receivable /\ I[i].images \in Nat
                /\ I[i].users \in Seq(Users) /\ I[i].groups \in Seq(Groups)
<1>1. I \in Seq(Items) /\ Len(I) <= MaxItems /\ \A i \in DOMAIN I : GoodItem(I[i])
  BY DEF GoodItems
<1>2. DOMAIN I = 1..Len(I) /\ Len(I) \in Nat /\ \A i \in DOMAIN I : I[i] \in Items
  BY <1>1
<1> QED BY <1>1, <1>2, PartsAssumption DEF Items

\* Less text leaves an item good.
LEMMA LessText ==
    ASSUME NEW item, GoodItem(item), NEW less, less \subseteq item.text
    PROVE  /\ GoodItem([item EXCEPT !.text = less])
           /\ [item EXCEPT !.text = less].text = less
           /\ [item EXCEPT !.text = less].msg = item.msg
           /\ [item EXCEPT !.text = less].images = item.images
           /\ [item EXCEPT !.text = less].users = item.users
           /\ [item EXCEPT !.text = less].groups = item.groups
<1>1. item \in Items
  BY DEF GoodItem
<1>2. PICK new : new = [item EXCEPT !.text = less]
  OBVIOUS
<1>3. /\ new.text = less /\ new.msg = item.msg /\ new.images = item.images
      /\ new.users = item.users /\ new.groups = item.groups
  BY <1>1, <1>2 DEF Items
<1>4. new \in Items
  BY <1>1, <1>2 DEF Items
<1>5. GoodItem(new)
  BY <1>3, <1>4 DEF GoodItem
<1> QED BY <1>2, <1>3, <1>5

LEMMA CompletesOf ==
    ASSUME NEW I, NEW J, Completes(J, I)
    PROVE  Of(J) = Of(I) /\ Mentioned(J) = Mentioned(I)
  BY DEF Completes, Of, Mentioned

LEMMA CompletesTwice ==
    ASSUME NEW I, NEW J, NEW K, Completes(J, I), Completes(K, J)
    PROVE  Completes(K, I)
  BY DEF Completes

LEMMA ReplacedIs ==
    ASSUME NEW I \in GoodItems, NEW stages, NEW know
    PROVE  /\ Completes(Replaced(I, stages, know), I)
           /\ "users" \in stages =>
                \A i \in DOMAIN I : \A j \in DOMAIN I[i].users :
                    Placeholder("user", j - 1) \in Replaced(I, stages, know)[i].text =>
                        know[I[i].users[j]] = "none"
           /\ "groups" \in stages =>
                \A i \in DOMAIN I : \A j \in DOMAIN I[i].groups :
                    Placeholder("group", j - 1) \in Replaced(I, stages, know)[i].text =>
                        know[I[i].groups[j]] = "none"
<1> DEFINE gone(i) ==
      UNION {{Placeholder("user", j - 1) : j \in {k \in DOMAIN I[i].users :
                 "users" \in stages /\ know[I[i].users[k]] # "none"}},
             {Placeholder("group", j - 1) : j \in {k \in DOMAIN I[i].groups :
                 "groups" \in stages /\ know[I[i].groups[k]] # "none"}}}
<1>1. PICK R : R = Replaced(I, stages, know)
  OBVIOUS
<1>2. R = [i \in DOMAIN I |-> [I[i] EXCEPT !.text = @ \ gone(i)]]
  BY <1>1 DEF Replaced
<1>3. /\ I \in Seq(Items) /\ DOMAIN I = 1..Len(I) /\ Len(I) \in 0..MaxItems
      /\ \A i \in DOMAIN I : I[i] \in Items /\ GoodItem(I[i])
  BY ItemIs
<1>4. DOMAIN R = DOMAIN I /\ \A i \in DOMAIN I : R[i] = [I[i] EXCEPT !.text = I[i].text \ gone(i)]
  BY <1>2, <1>3 DEF Items
<1>g. \A i \in DOMAIN I :
        /\ "users" \in stages =>
             \A j \in DOMAIN I[i].users :
                 know[I[i].users[j]] # "none" => Placeholder("user", j - 1) \in gone(i)
        /\ "groups" \in stages =>
             \A j \in DOMAIN I[i].groups :
                 know[I[i].groups[j]] # "none" => Placeholder("group", j - 1) \in gone(i)
  OBVIOUS
<1> HIDE DEF gone
<1>5. \A i \in DOMAIN I :
        /\ GoodItem(R[i]) /\ R[i].text = I[i].text \ gone(i)
        /\ R[i].msg = I[i].msg /\ R[i].images = I[i].images
        /\ R[i].users = I[i].users /\ R[i].groups = I[i].groups
  <2>1. ASSUME NEW i \in DOMAIN I
        PROVE  /\ GoodItem(R[i]) /\ R[i].text = I[i].text \ gone(i)
               /\ R[i].msg = I[i].msg /\ R[i].images = I[i].images
               /\ R[i].users = I[i].users /\ R[i].groups = I[i].groups
    <3>1. PICK less : less = I[i].text \ gone(i)
      OBVIOUS
    <3>2. less \subseteq I[i].text /\ GoodItem(I[i]) /\ R[i] = [I[i] EXCEPT !.text = less]
      BY <1>3, <1>4, <3>1
    <3> QED BY <3>1, <3>2, LessText
  <2> QED BY <2>1
<1>6. \A i \in DOMAIN I : R[i] \in Items
  BY <1>5 DEF GoodItem
<1>7. R \in Seq(Items) /\ Len(R) = Len(I)
  <2>1. R = [i \in 1..Len(I) |-> R[i]]
    BY <1>2, <1>3, <1>4
  <2>2. R \in [1..Len(I) -> Items]
    BY <1>3, <1>4, <1>6, <2>1
  <2> QED BY <1>3, <2>2, SeqDef, LenProperties
<1>8. R \in GoodItems
  BY <1>3, <1>4, <1>5, <1>7 DEF GoodItems
<1>9. Completes(R, I)
  BY <1>4, <1>5, <1>7, <1>8 DEF Completes
<1>10. \A i \in DOMAIN I :
        /\ "users" \in stages =>
             \A j \in DOMAIN I[i].users :
                 Placeholder("user", j - 1) \in R[i].text => know[I[i].users[j]] = "none"
        /\ "groups" \in stages =>
             \A j \in DOMAIN I[i].groups :
                 Placeholder("group", j - 1) \in R[i].text => know[I[i].groups[j]] = "none"
  BY <1>5, <1>g
<1> QED BY <1>1, <1>9, <1>10

(***************************************************************************)
(* What holds of a batch that is at st, with the items I, which downloads  *)
(* the image im, will list w, could not download br, was not told of un,   *)
(* and whose entries tk were removed, when know is known and li is listed. *)
(***************************************************************************)
Images(I) == UNION {{i} \X (0 .. I[i].images - 1) : i \in DOMAIN I}

PicturesDone(st, I, im, br) ==
    st \in {"images", "users"} \cup AfterUsers =>
        \A q \in Images(I) : Placeholder("image", q[2]) \in I[q[1]].text =>
            q \in br \/ (st = "images" /\ (q = im \/ After(im, q)))
UsersDone(st, I, un) ==
    st \in AfterUsers =>
        \A i \in DOMAIN I : \A j \in DOMAIN I[i].users :
            Placeholder("user", j - 1) \in I[i].text => I[i].users[j] \in un
GroupsDone(st, I, un) ==
    st \in AfterGroups =>
        \A i \in DOMAIN I : \A j \in DOMAIN I[i].groups :
            Placeholder("group", j - 1) \in I[i].text => I[i].groups[j] \in un
AuthorsDone(st, I, un, know) ==
    st = "buddies" =>
        \A m \in Of(I) : m.status # "out" => know[m.author] = "good" \/ m.author \in un
ListDone(st, I, w, li, tk) ==
    st = "buddies" =>
        \A m \in Of(I) : m.status = "unread" /\ m.chat = NoChat => m.author \in w \cup li \cup tk

GoodBatch(st, I, im, w, br, un, tk, know, li) ==
    /\ st \in BatchStages /\ I \in GoodItems
    /\ im \in Nat \X Nat /\ (st = "images" => im \in Images(I)) /\ (st # "images" => im = NoImage)
    /\ w \in SUBSET (Users \cup Chats) /\ (w # {} => st \in {"chatlist", "buddies"})
    /\ br \in SUBSET (Nat \X Nat) /\ un \in SUBSET (Users \cup Groups)
    /\ tk \in SUBSET (Users \cup Chats)
    /\ PicturesDone(st, I, im, br) /\ UsersDone(st, I, un) /\ GroupsDone(st, I, un)
    /\ AuthorsDone(st, I, un, know) /\ ListDone(st, I, w, li, tk)

LEMMA ImagesAre ==
    ASSUME NEW I \in GoodItems
    PROVE  /\ Images(I) \in SUBSET (Nat \X Nat)
           /\ \A q \in Images(I) : q[1] \in DOMAIN I /\ q[2] \in 0 .. I[q[1]].images - 1 /\ q[1] > 0
           /\ \A i \in DOMAIN I : \A k \in 0 .. I[i].images - 1 : <<i, k>> \in Images(I)
<1>1. \A i \in DOMAIN I : i \in Nat /\ i > 0 /\ I[i].images \in Nat
  BY ItemIs
<1> QED BY <1>1 DEF Images

LEMMA CompletesImages ==
    ASSUME NEW I, NEW J, Completes(J, I) PROVE Images(J) = Images(I)
  BY DEF Completes, Images

(***************************************************************************)
(* Going on                                                                *)
(***************************************************************************)

\* What a batch that goes on after s needs.
Ready(s, I, br, un, tk, know, listing) ==
    /\ \A q \in Images(I) : Placeholder("image", q[2]) \in I[q[1]].text => q \in br
    /\ UsersDone(s, I, un) /\ GroupsDone(s, I, un)
    /\ s = "users" => \A u \in Mentioned(I) \cap Users : know[u] # "good" => u \in un
    /\ s = "groups" => \A g \in Mentioned(I) \cap Groups : know[g] # "good" => g \in un
    /\ s \in {"authors", "buddies"} =>
         \A m \in Of(I) : m.status # "out" => know[m.author] = "good" \/ m.author \in un
    /\ s = "buddies" =>
         \A m \in Of(I) : m.status = "unread" /\ m.chat = NoChat =>
             m.author \in listing \cup listed \cup tk

\* What holds of a batch that has gone on to its end.
Finished(s, I, un, tk, know, listing, li) ==
    /\ \A m \in Of(I) : m.status # "out" => know[m.author] = "good" \/ m.author \in un
    /\ \A m \in Of(I) : m.status = "unread" /\ m.chat = NoChat =>
         \/ m.author \in li \cup tk
         \/ s = "buddies" /\ m.author \in listing /\ know[m.author] = "none"

LEMMA OfAre ==
    ASSUME NEW I \in GoodItems
    PROVE  /\ Of(I) \subseteq Receivable
           /\ \A m \in Of(I) : m.author \in Users /\ m.chat \in Chats \cup {NoChat}
           /\ Mentioned(I) \subseteq Users \cup Groups
           /\ \A i \in DOMAIN I : \A j \in DOMAIN I[i].users :
                I[i].users[j] \in Mentioned(I) \cap Users
           /\ \A i \in DOMAIN I : \A j \in DOMAIN I[i].groups :
                I[i].groups[j] \in Mentioned(I) \cap Groups
           /\ \A i \in DOMAIN I : I[i].msg \in Of(I)
<1>1. \A i \in DOMAIN I :
        /\ I[i].msg \in Receivable
        /\ I[i].users \in Seq(Users) /\ I[i].groups \in Seq(Groups)
  BY ItemIs
<1>2. \A i \in DOMAIN I :
        /\ \A j \in DOMAIN I[i].users : I[i].users[j] \in Users
        /\ \A j \in DOMAIN I[i].groups : I[i].groups[j] \in Groups
  BY <1>1
<1>3. \A i \in DOMAIN I :
        /\ Range(I[i].users) \subseteq Users /\ Range(I[i].groups) \subseteq Groups
        /\ \A j \in DOMAIN I[i].users : I[i].users[j] \in Range(I[i].users)
        /\ \A j \in DOMAIN I[i].groups : I[i].groups[j] \in Range(I[i].groups)
  BY <1>2 DEF Range
<1>4. Of(I) \subseteq Receivable
  BY <1>1 DEF Of
<1>5. \A i \in DOMAIN I : Range(I[i].users) \cup Range(I[i].groups) \subseteq Mentioned(I)
  BY DEF Mentioned
<1>6. Mentioned(I) \subseteq Users \cup Groups
  BY <1>3 DEF Mentioned
<1> QED BY <1>2, <1>3, <1>4, <1>5, <1>6, PartsAssumption DEF Of

LEMMA ListsAre ==
    ASSUME NEW I \in GoodItems, NEW p
    PROVE  /\ ToList("chatlist", I) = ChatsToList(I) /\ ToList("buddies", I) = UsersToList(I)
           /\ p \notin {"chatlist", "buddies"} => ToList(p, I) = {}
           /\ ToList(p, I) \in SUBSET (Users \cup Chats)
<1>1. ChatsToList(I) \subseteq Chats
  BY OfAre DEF ChatsToList, Unread
<1>2. UsersToList(I) \subseteq Users
  BY OfAre DEF UsersToList, Unread
<1>3. /\ ToList("chatlist", I) = ChatsToList(I) /\ ToList("buddies", I) = UsersToList(I)
      /\ p \notin {"chatlist", "buddies"} => ToList(p, I) = {}
  BY DEF ToList
<1> QED BY <1>1, <1>2, <1>3

\* Nobody is asked for at a stage: all that it needs is known.
LEMMA NothingAsked ==
    ASSUME NEW I \in GoodItems, NEW know
    PROVE  /\ Ask("users", I, know) = {} => \A u \in Mentioned(I) \cap Users : know[u] = "good"
           /\ Ask("groups", I, know) = {} => \A g \in Mentioned(I) \cap Groups : know[g] = "good"
           /\ Ask("authors", I, know) = {} =>
                \A m \in Of(I) : m.status # "out" => know[m.author] = "good"
           /\ Ask("buddies", I, know) = {} => \A u \in UsersToList(I) : know[u] = "good"
<1>1. /\ Needed("users", I) = Mentioned(I) \cap Users
      /\ Needed("groups", I) = Mentioned(I) \cap Groups
      /\ Needed("authors", I) = {m.author : m \in {k \in Of(I) : k.status # "out"}}
      /\ Needed("buddies", I) = UsersToList(I)
  BY ListsAre DEF Needed
<1>2. \A m \in Of(I) : m.status # "out" => m.author \in Needed("authors", I)
  BY <1>1
<1>3. \A s : Ask(s, I, know) = {} => \A x \in Needed(s, I) : know[x] = "good"
  BY DEF Ask
<1> QED BY <1>1, <1>2, <1>3

LEMMA ReadyGoesOn ==
    ASSUME NEW s \in InOrder, NEW I \in GoodItems, NEW know \in [Things -> Infos],
           NEW listing \in SUBSET (Users \cup Chats), listed \in SUBSET (Users \cup Chats),
           NEW br \in SUBSET (Nat \X Nat), NEW un \in SUBSET (Users \cup Groups),
           NEW tk \in SUBSET (Users \cup Chats),
           Ready(s, I, br, un, tk, know, listing),
           NEW t, t = NextStage(s, I, know),
           NEW left, left = Replaced(I, Passed(s, t), know),
           NEW w, w = IF t = "done" THEN {} ELSE ToList(t, I),
           NEW li, li = listed \cup
             {x \in listing \cup UNION {ToList(p, I) : p \in Passed(s, t) \ {s}} : know[x] # "none"}
    PROVE  /\ GoodBatch(t, left, NoImage, w, br, un, tk, know, li)
           /\ Completes(left, I)
           /\ li \in SUBSET (Users \cup Chats) /\ listed \subseteq li
           /\ t = "done" => Finished(s, I, un, tk, know, listing, li)
<1>1. /\ t \in {"users"} \cup AfterUsers
      /\ Passed(s, t) \subseteq InOrder /\ s \in Passed(s, t)
      /\ t \in AfterUsers =>
           \/ s \in AfterUsers \/ s = "users"
           \/ ("users" \in Passed(s, t) /\ Ask("users", I, know) = {})
      /\ t \in AfterGroups =>
           \/ s \in AfterGroups \/ s = "groups"
           \/ "groups" \in Passed(s, t) /\ Ask("groups", I, know) = {}
      /\ t \in {"buddies", "done"} =>
           s \in {"authors", "buddies"} \/ Ask("authors", I, know) = {}
      /\ t = "done" =>
           \/ s = "buddies"
           \/ "buddies" \in Passed(s, t) \ {s} /\ Ask("buddies", I, know) = {}
      /\ t = "buddies" => s # "buddies"
  BY Onward
<1>2. /\ Completes(left, I) /\ left \in GoodItems /\ Of(left) = Of(I)
      /\ Images(left) = Images(I) /\ DOMAIN left = DOMAIN I
      /\ \A i \in DOMAIN I :
           left[i].users = I[i].users /\ left[i].groups = I[i].groups /\ left[i].text \subseteq I[i].text
  <2>1. Completes(left, I)
    BY ReplacedIs
  <2> QED BY <2>1, CompletesOf, CompletesImages DEF Completes
<1>3. /\ w \in SUBSET (Users \cup Chats) /\ (w # {} => t \in {"chatlist", "buddies"})
      /\ t = "buddies" => w = UsersToList(I)
  BY ListsAre
<1>4. li \in SUBSET (Users \cup Chats) /\ listed \subseteq li
  <2>1. UNION {ToList(p, I) : p \in Passed(s, t) \ {s}} \subseteq Users \cup Chats
    BY ListsAre
  <2> QED BY <2>1
<1>5. PicturesDone(t, left, NoImage, br)
  <2>1. \A q \in Images(I) : Placeholder("image", q[2]) \in I[q[1]].text => q \in br
    BY DEF Ready
  <2>2. \A q \in Images(I) : q[1] \in DOMAIN I
    BY ImagesAre
  <2> QED BY <1>2, <2>1, <2>2 DEF PicturesDone
<1>6. UsersDone(t, left, un)
  <2> SUFFICES ASSUME t \in AfterUsers, NEW i \in DOMAIN I, NEW j \in DOMAIN I[i].users,
                      Placeholder("user", j - 1) \in left[i].text
               PROVE  I[i].users[j] \in un
    BY <1>2 DEF UsersDone
  <2>1. I[i].users[j] \in Mentioned(I) \cap Users
    BY OfAre
  <2>2. "users" \in Passed(s, t) => know[I[i].users[j]] = "none"
    BY ReplacedIs
  <2>3. CASE s \in AfterUsers
    BY <1>2, <2>3 DEF Ready, UsersDone
  <2>4. CASE s = "users"
    BY <1>1, <2>1, <2>2, <2>4 DEF Ready
  <2>5. CASE "users" \in Passed(s, t) /\ Ask("users", I, know) = {}
    BY <2>1, <2>2, <2>5, NothingAsked
  <2> QED BY <1>1, <2>3, <2>4, <2>5
<1>7. GroupsDone(t, left, un)
  <2> SUFFICES ASSUME t \in AfterGroups, NEW i \in DOMAIN I, NEW j \in DOMAIN I[i].groups,
                      Placeholder("group", j - 1) \in left[i].text
               PROVE  I[i].groups[j] \in un
    BY <1>2 DEF GroupsDone
  <2>1. I[i].groups[j] \in Mentioned(I) \cap Groups
    BY OfAre
  <2>2. "groups" \in Passed(s, t) => know[I[i].groups[j]] = "none"
    BY ReplacedIs
  <2>3. CASE s \in AfterGroups
    BY <1>2, <2>3 DEF Ready, GroupsDone
  <2>4. CASE s = "groups"
    BY <1>1, <2>1, <2>2, <2>4 DEF Ready
  <2>5. CASE "groups" \in Passed(s, t) /\ Ask("groups", I, know) = {}
    BY <2>1, <2>2, <2>5, NothingAsked
  <2> QED BY <1>1, <2>3, <2>4, <2>5
<1>8. t \in {"buddies", "done"} =>
        \A m \in Of(I) : m.status # "out" => know[m.author] = "good" \/ m.author \in un
  BY <1>1, NothingAsked DEF Ready
<1>9. \A m \in Of(I) : m.status = "unread" /\ m.chat = NoChat => m.author \in UsersToList(I) \cup listed
  BY DEF UsersToList, Unread
<1>10. ASSUME t = "done" PROVE Finished(s, I, un, tk, know, listing, li)
  <2> SUFFICES ASSUME NEW m \in Of(I), m.status = "unread", m.chat = NoChat
               PROVE  \/ m.author \in li \cup tk
                      \/ s = "buddies" /\ m.author \in listing /\ know[m.author] = "none"
    BY <1>8, <1>10 DEF Finished
  <2>1. CASE s = "buddies"
    <3>1. m.author \in listing \cup listed \cup tk
      BY <2>1 DEF Ready
    <3> QED BY <2>1, <3>1
  <2>2. CASE "buddies" \in Passed(s, t) \ {s} /\ Ask("buddies", I, know) = {}
    <3>1. UsersToList(I) \subseteq UNION {ToList(p, I) : p \in Passed(s, t) \ {s}}
      BY <2>2, ListsAre
    <3>2. m.author \in UsersToList(I) => know[m.author] # "none"
      BY <2>2, NothingAsked
    <3> QED BY <1>9, <3>1, <3>2
  <2> QED BY <1>1, <1>10, <2>1, <2>2
<1>11. AuthorsDone(t, left, un, know)
  BY <1>2, <1>8 DEF AuthorsDone
<1>12. ListDone(t, left, w, li, tk)
  BY <1>2, <1>3, <1>4, <1>9 DEF ListDone
<1>13. t \in BatchStages /\ t # "images"
  BY <1>1, StagesAre DEF InOrder, AfterUsers
<1>14. NoImage \in Nat \X Nat
  BY DEF NoImage
<1>15. GoodBatch(t, left, NoImage, w, br, un, tk, know, li)
  BY <1>2, <1>3, <1>5, <1>6, <1>7, <1>11, <1>12, <1>13, <1>14 DEF GoodBatch
<1> QED BY <1>2, <1>4, <1>10, <1>15

\* What others do to a batch: they learn of users, list them, or remove entries.
LEMMA OthersKeep ==
    ASSUME NEW st, NEW I, NEW im, NEW w, NEW br, NEW un, NEW tk, NEW know, NEW li,
           GoodBatch(st, I, im, w, br, un, tk, know, li),
           NEW knows, \A u \in Users : know[u] = "good" => knows[u] = "good",
           NEW lists, NEW takes \in SUBSET (Users \cup Chats),
           st = "buddies" => li \cup tk \subseteq lists \cup takes
    PROVE  GoodBatch(st, I, im, w, br, un, takes, knows, lists)
<1>1. I \in GoodItems
  BY DEF GoodBatch
<1>2. \A m \in Of(I) : m.author \in Users
  BY <1>1, OfAre
<1>3. AuthorsDone(st, I, un, knows)
  BY <1>2 DEF GoodBatch, AuthorsDone
<1>4. ListDone(st, I, w, lists, takes)
  BY DEF GoodBatch, ListDone
<1> QED BY <1>3, <1>4 DEF GoodBatch

(***************************************************************************)
(* Images                                                                  *)
(***************************************************************************)
LEMMA FirstIs ==
    ASSUME NEW Q \in SUBSET (Nat \X Nat), Q # {}
    PROVE  First(Q) \in Q /\ \A q \in Q : q = First(Q) \/ After(First(Q), q)
<1>1. PICK rows : rows = {q[1] : q \in Q}
  OBVIOUS
<1>2. rows \subseteq Nat /\ rows # {}
  BY <1>1
<1>3. PICK x \in rows : \A y \in rows : <<y, x>> \notin OpToRel(<, Nat)
  BY <1>2, WFMin, NatLessThanWellFounded, Zenon
<1>4. \A y \in rows : ~(y < x)
  BY <1>2, <1>3, Zenon DEF OpToRel
<1>5. PICK columns : columns = {q[2] : q \in {r \in Q : r[1] = x}}
  OBVIOUS
<1>6. columns \subseteq Nat /\ columns # {}
  BY <1>1, <1>3, <1>5
<1>7. PICK z \in columns : \A y \in columns : <<y, z>> \notin OpToRel(<, Nat)
  BY <1>6, WFMin, NatLessThanWellFounded, Zenon
<1>8. \A y \in columns : ~(y < z)
  BY <1>6, <1>7, Zenon DEF OpToRel
<1>p. \A q \in Q : q = <<q[1], q[2]>> /\ q[1] \in Nat /\ q[2] \in Nat
  OBVIOUS
<1>9. <<x, z>> \in Q
  <2>1. PICK q \in Q : q[1] = x /\ q[2] = z
    BY <1>5, <1>7
  <2> QED BY <1>p, <2>1
<1>10. ASSUME NEW q \in Q PROVE q = <<x, z>> \/ After(<<x, z>>, q)
  <2>1. q[1] \in rows /\ q = <<q[1], q[2]>> /\ q[1] \in Nat /\ q[2] \in Nat /\ x \in Nat /\ z \in Nat
    <3>1. x \in Nat /\ z \in Nat
      BY <1>2, <1>3, <1>6, <1>7
    <3>2. q[1] \in rows
      BY <1>1
    <3> QED BY <1>p, <3>1, <3>2
  <2>2. CASE q[1] = x
    <3>1. q[2] \in columns
      BY <1>5, <2>2
    <3> QED BY <1>8, <2>1, <2>2, <3>1 DEF After
  <2>3. CASE q[1] # x
    <3>1. ~(q[1] < x)
      BY <1>4, <2>1
    <3>2. q[1] > x
      BY <2>1, <2>3, <3>1
    <3> QED BY <3>2 DEF After
  <2> QED BY <2>2, <2>3
<1>11. \E p \in Q : \A q \in Q : q = p \/ After(p, q)
  BY <1>9, <1>10
<1> QED BY <1>11 DEF First

\* After the image p: there is another, or the batch is ready to go on.
LEMMA ImageIsOver ==
    ASSUME NEW I \in GoodItems, NEW p, NEW br \in SUBSET (Nat \X Nat),
           \A q \in Images(I) : Placeholder("image", q[2]) \in I[q[1]].text => q \in br \/ After(p, q),
           NEW un \in SUBSET (Users \cup Groups), NEW tk \in SUBSET (Users \cup Chats),
           NEW know, NEW li, NEW F, F = {q \in Images(I) : After(p, q)}
    PROVE  /\ F # {} => GoodBatch("images", I, First(F), {}, br, un, tk, know, li)
           /\ F = {} => Ready("images", I, br, un, tk, know, {})
<1>1. F \in SUBSET (Nat \X Nat) /\ F \subseteq Images(I)
  BY ImagesAre
<1>2. ASSUME F # {} PROVE GoodBatch("images", I, First(F), {}, br, un, tk, know, li)
  <2>1. First(F) \in F /\ \A q \in F : q = First(F) \/ After(First(F), q)
    BY <1>1, <1>2, FirstIs
  <2>2. PicturesDone("images", I, First(F), br)
    BY <2>1 DEF PicturesDone
  <2>3. "images" \notin AfterUsers /\ "images" \notin AfterGroups /\ "images" \in BatchStages
    BY StagesAre DEF AfterUsers, AfterGroups, InOrder
  <2>4. First(F) \in Nat \X Nat /\ First(F) \in Images(I)
    BY <1>1, <2>1
  <2> QED BY <2>2, <2>3, <2>4
          DEF GoodBatch, UsersDone, GroupsDone, AuthorsDone, ListDone
<1>3. ASSUME F = {} PROVE Ready("images", I, br, un, tk, know, {})
  <2>1. "images" \notin AfterUsers /\ "images" \notin AfterGroups
    BY DEF AfterUsers, AfterGroups
  <2> QED BY <1>3, <2>1 DEF Ready, UsersDone, GroupsDone
<1> QED BY <1>2, <1>3

\* An image that has come replaces its placeholder.
LEMMA ImageReplaced ==
    ASSUME NEW I \in GoodItems, NEW p \in Images(I),
           NEW J, J = [I EXCEPT ![p[1]].text = @ \ {Placeholder("image", p[2])}]
    PROVE  Completes(J, I) /\ Placeholder("image", p[2]) \notin J[p[1]].text
<1>1. /\ I \in Seq(Items) /\ DOMAIN I = 1..Len(I) /\ Len(I) \in 0..MaxItems
      /\ \A i \in DOMAIN I : I[i] \in Items /\ GoodItem(I[i])
  BY ItemIs
<1>2. PICK x : x = p[1]
  OBVIOUS
<1>3. x \in DOMAIN I
  BY <1>2, ImagesAre
<1>4. PICK less : less = I[x].text \ {Placeholder("image", p[2])}
  OBVIOUS
<1>5. PICK new : new = [I[x] EXCEPT !.text = less]
  OBVIOUS
<1>6. /\ GoodItem(new) /\ new.text = less /\ new.msg = I[x].msg /\ new.images = I[x].images
      /\ new.users = I[x].users /\ new.groups = I[x].groups
  <2>1. less \subseteq I[x].text /\ GoodItem(I[x])
    BY <1>1, <1>3, <1>4
  <2> QED BY <1>5, <2>1, LessText
<1>7. J = [I EXCEPT ![x] = new]
  <2>1. J = [I EXCEPT ![x] = [I[x] EXCEPT !.text = I[x].text \ {Placeholder("image", p[2])}]]
    BY <1>1, <1>2, <1>3 DEF Items
  <2> QED BY <1>4, <1>5, <2>1
<1>8. DOMAIN J = DOMAIN I /\ J[x] = new /\ \A i \in DOMAIN I : i # x => J[i] = I[i]
  BY <1>1, <1>3, <1>7
<1>9. J \in Seq(Items) /\ Len(J) = Len(I)
  <2>1. new \in Items
    BY <1>6 DEF GoodItem
  <2>2. I \in [1..Len(I) -> Items]
    BY <1>1
  <2>3. J \in [1..Len(I) -> Items]
    BY <1>1, <1>3, <1>7, <2>1, <2>2
  <2> QED BY <1>1, <2>3, SeqDef, LenProperties
<1>10. J \in GoodItems
  BY <1>1, <1>6, <1>8, <1>9 DEF GoodItems
<1>11. less \subseteq I[x].text /\ Placeholder("image", p[2]) \notin less
  BY <1>4
<1>12. \A i \in DOMAIN I :
        /\ J[i].msg = I[i].msg /\ J[i].images = I[i].images
        /\ J[i].users = I[i].users /\ J[i].groups = I[i].groups
        /\ J[i].text \subseteq I[i].text
  <2>1. ASSUME NEW i \in DOMAIN I, i # x PROVE J[i] = I[i]
    BY <1>8, <2>1
  <2> QED BY <1>6, <1>8, <1>11, <2>1
<1>13. Completes(J, I)
  BY <1>8, <1>9, <1>10, <1>12 DEF Completes
<1> QED BY <1>2, <1>6, <1>8, <1>11, <1>13

(***************************************************************************)
(* The inductive invariant of MessageParts: every batch is good, and what  *)
(* is shown of a batch is shown at its end, each message once.             *)
(***************************************************************************)
Entries(b, I, chosen) == {[batch |-> b, index |-> i, item |-> I[i]] : i \in chosen}
ShownOf(b, sh, st, I) ==
    IF st \in {"done", "cut"}
    THEN \E chosen \in Written(b, I) : {s \in sh : s.batch = b} = Entries(b, I, chosen)
    ELSE {s \in sh : s.batch = b} = {}

PartsTypes ==
    /\ connection \in {"on", "off"}
    /\ info \in [Things -> Infos]
    /\ listed \in SUBSET (Users \cup Chats)
    /\ at \in [Batches -> BatchStages]
    /\ items \in [Batches -> GoodItems]
    /\ image \in [Batches -> Nat \X Nat]
    /\ want \in [Batches -> SUBSET (Users \cup Chats)]
    /\ broken \in [Batches -> SUBSET (Nat \X Nat)]
    /\ untold \in [Batches -> SUBSET (Users \cup Groups)]
    /\ taken \in [Batches -> SUBSET (Users \cup Chats)]

PartsInv ==
    /\ PartsTypes
    /\ \A b \in Batches :
        /\ GoodBatch(at[b], items[b], image[b], want[b], broken[b], untold[b], taken[b], info, listed)
        /\ ShownOf(b, shown, at[b], items[b])
    /\ \A s \in shown : s.batch \in Batches

LEMMA ShowIs ==
    ASSUME NEW b \in Batches, \A s \in shown : s.batch \in Batches,
           {s \in shown : s.batch = b} = {},
           NEW I, Show(b, I), NEW t \in {"done", "cut"}
    PROVE  /\ ShownOf(b, shown', t, I)
           /\ \A c \in Batches : c # b => {s \in shown' : s.batch = c} = {s \in shown : s.batch = c}
           /\ \A s \in shown' : s.batch \in Batches
           /\ \A s \in shown' \ shown : s.batch = b /\ s.item.msg \in Of(I)
<1>1. PICK chosen \in Written(b, I) : shown' = shown \cup Entries(b, I, chosen)
  BY DEF Show, Entries
<1>2. \A s \in Entries(b, I, chosen) : s.batch = b /\ s.item.msg \in Of(I)
  BY <1>1 DEF Entries, Written, Of
<1>3. {s \in shown' : s.batch = b} = Entries(b, I, chosen)
  BY <1>1, <1>2
<1> QED BY <1>1, <1>2, <1>3 DEF ShownOf

\* A step of one batch.
LEMMA OneBatch ==
    ASSUME PartsInv, NEW b \in Batches, connection' = connection,
           at' = [at EXCEPT ![b] = at'[b]], items' = [items EXCEPT ![b] = items'[b]],
           image' = [image EXCEPT ![b] = image'[b]], want' = [want EXCEPT ![b] = want'[b]],
           broken' = [broken EXCEPT ![b] = broken'[b]],
           untold' = [untold EXCEPT ![b] = untold'[b]], taken' = taken,
           info' \in [Things -> Infos], \A u \in Users : info[u] = "good" => info'[u] = "good",
           listed' \in SUBSET (Users \cup Chats), listed \subseteq listed',
           GoodBatch(at'[b], items'[b], image'[b], want'[b], broken'[b], untold'[b], taken[b],
                     info', listed'),
           ShownOf(b, shown', at'[b], items'[b]),
           \A c \in Batches : c # b => {s \in shown' : s.batch = c} = {s \in shown : s.batch = c},
           \A s \in shown' : s.batch \in Batches
    PROVE  PartsInv'
<1>1. PartsTypes
  BY DEF PartsInv
<1>2. /\ at'[b] \in BatchStages /\ items'[b] \in GoodItems /\ image'[b] \in Nat \X Nat
      /\ want'[b] \in SUBSET (Users \cup Chats) /\ broken'[b] \in SUBSET (Nat \X Nat)
      /\ untold'[b] \in SUBSET (Users \cup Groups)
  BY DEF GoodBatch
<1>3. PartsTypes'
  BY <1>1, <1>2 DEF PartsTypes
<1>4. ASSUME NEW c \in Batches
      PROVE  /\ GoodBatch(at'[c], items'[c], image'[c], want'[c], broken'[c], untold'[c], taken'[c],
                          info', listed')
             /\ ShownOf(c, shown', at'[c], items'[c])
  <2>1. CASE c = b
    BY <2>1
  <2>2. CASE c # b
    <3>1. /\ at'[c] = at[c] /\ items'[c] = items[c] /\ image'[c] = image[c] /\ want'[c] = want[c]
          /\ broken'[c] = broken[c] /\ untold'[c] = untold[c] /\ taken'[c] = taken[c]
      BY <1>1, <2>2 DEF PartsTypes
    <3>2. GoodBatch(at[c], items[c], image[c], want[c], broken[c], untold[c], taken[c], info, listed)
      BY DEF PartsInv
    <3>3. taken[c] \in SUBSET (Users \cup Chats)
      BY <1>1 DEF PartsTypes
    <3>4. GoodBatch(at[c], items[c], image[c], want[c], broken[c], untold[c], taken[c], info', listed')
      BY <3>2, <3>3, OthersKeep
    <3>5. ShownOf(c, shown', at[c], items[c])
      BY <2>2 DEF PartsInv, ShownOf
    <3> QED BY <3>1, <3>4, <3>5
  <2> QED BY <2>1, <2>2
<1> QED BY <1>3, <1>4 DEF PartsInv

(***************************************************************************)
(* The steps of MessageParts                                               *)
(***************************************************************************)

\* What AuthorsAreIntroduced says of a step.
Introduced ==
    \A b \in Batches : \A s \in New(b) :
        LET m == s.item.msg
        IN  /\ m.status # "out" /\ connection' = "on" =>
                 info'[m.author] = "good" \/ m.author \in untold'[b]
            /\ m.status = "unread" /\ m.chat = NoChat =>
                 \/ m.author \in listed' \cup taken'[b]
                 \/ info[m.author] = "none" /\ m.author \in untold'[b]

LEMMA NothingShown == ASSUME shown' = shown PROVE Introduced
  BY DEF Introduced, New

LEMMA OfBatch ==
    ASSUME PartsInv, NEW b \in Batches
    PROVE  /\ at[b] \in BatchStages /\ items[b] \in GoodItems /\ image[b] \in Nat \X Nat
           /\ want[b] \in SUBSET (Users \cup Chats) /\ broken[b] \in SUBSET (Nat \X Nat)
           /\ untold[b] \in SUBSET (Users \cup Groups) /\ taken[b] \in SUBSET (Users \cup Chats)
           /\ listed \in SUBSET (Users \cup Chats) /\ info \in [Things -> Infos]
           /\ GoodBatch(at[b], items[b], image[b], want[b], broken[b], untold[b], taken[b], info, listed)
           /\ ShownOf(b, shown, at[b], items[b])
           /\ \A s \in shown : s.batch \in Batches
           /\ at[b] \notin {"done", "cut"} => {s \in shown : s.batch = b} = {}
  BY DEF PartsInv, PartsTypes, ShownOf

\* A batch that is ready goes on.
LEMMA GoOnStep ==
    ASSUME PartsInv, NEW b \in Batches, at[b] \notin {"done", "cut"},
           NEW s \in InOrder, NEW I \in GoodItems, NEW know \in [Things -> Infos],
           NEW listing \in SUBSET (Users \cup Chats),
           NEW br \in SUBSET (Nat \X Nat), NEW un \in SUBSET (Users \cup Groups),
           GoOn(b, s, I, know, listing),
           Ready(s, I, br, un, taken[b], know, listing),
           connection' = connection, info' = know,
           broken' = [broken EXCEPT ![b] = br], untold' = [untold EXCEPT ![b] = un],
           \A u \in Users : info[u] = "good" => know[u] = "good",
           s = "buddies" => \A u \in listing \cap Users : know[u] = "none" =>
                                info[u] = "none" /\ u \in un
    PROVE  PartsInv' /\ Introduced
<1>1. PICK t : t = NextStage(s, I, know)
  OBVIOUS
<1>2. PICK left : left = Replaced(I, Passed(s, t), know)
  OBVIOUS
<1>3. PICK w : w = IF t = "done" THEN {} ELSE ToList(t, I)
  OBVIOUS
<1>4. PICK li : li = listed \cup
        {x \in listing \cup UNION {ToList(p, I) : p \in Passed(s, t) \ {s}} : know[x] # "none"}
  OBVIOUS
<1>5. /\ at' = [at EXCEPT ![b] = t] /\ image' = [image EXCEPT ![b] = NoImage]
      /\ want' = [want EXCEPT ![b] = w] /\ listed' = li
      /\ items' = [items EXCEPT ![b] = left]
      /\ t = "done" => Show(b, left)
      /\ t # "done" => shown' = shown
      /\ taken' = taken
  BY <1>1, <1>2, <1>3, <1>4 DEF GoOn
<1>6. /\ taken[b] \in SUBSET (Users \cup Chats) /\ listed \in SUBSET (Users \cup Chats)
      /\ \A x \in shown : x.batch \in Batches
      /\ {x \in shown : x.batch = b} = {}
  BY OfBatch
<1>7. /\ GoodBatch(t, left, NoImage, w, br, un, taken[b], know, li)
      /\ Completes(left, I)
      /\ li \in SUBSET (Users \cup Chats) /\ listed \subseteq li
      /\ t = "done" => Finished(s, I, un, taken[b], know, listing, li)
  BY <1>1, <1>2, <1>3, <1>4, <1>6, ReadyGoesOn
<1>8. /\ at'[b] = t /\ image'[b] = NoImage /\ want'[b] = w /\ items'[b] = left
      /\ broken'[b] = br /\ untold'[b] = un
  BY <1>5 DEF PartsInv, PartsTypes
<1>9. /\ at' = [at EXCEPT ![b] = at'[b]] /\ items' = [items EXCEPT ![b] = items'[b]]
      /\ image' = [image EXCEPT ![b] = image'[b]] /\ want' = [want EXCEPT ![b] = want'[b]]
      /\ broken' = [broken EXCEPT ![b] = broken'[b]]
      /\ untold' = [untold EXCEPT ![b] = untold'[b]]
  BY <1>5, <1>8
<1>10. Of(left) = Of(I)
  BY <1>7, CompletesOf
<1>11. t # "cut"
  BY <1>1, Onward DEF AfterUsers
<1>12. /\ ShownOf(b, shown', t, left)
       /\ \A c \in Batches : c # b => {x \in shown' : x.batch = c} = {x \in shown : x.batch = c}
       /\ \A x \in shown' : x.batch \in Batches
       /\ \A x \in shown' \ shown : t = "done" /\ x.batch = b /\ x.item.msg \in Of(left)
  <2>1. CASE t = "done"
    <3>1. Show(b, left) /\ t \in {"done", "cut"}
      BY <1>5, <2>1
    <3> QED BY <1>6, <2>1, <3>1, ShowIs
  <2>2. CASE t # "done"
    BY <1>5, <1>6, <1>11, <2>2 DEF ShownOf
  <2> QED BY <2>1, <2>2
<1>13. PartsInv'
  <2>1. /\ GoodBatch(at'[b], items'[b], image'[b], want'[b], broken'[b], untold'[b], taken[b],
                     info', listed')
        /\ ShownOf(b, shown', at'[b], items'[b])
    BY <1>5, <1>7, <1>8, <1>12
  <2>2. /\ info' \in [Things -> Infos] /\ \A u \in Users : info[u] = "good" => info'[u] = "good"
        /\ listed' \in SUBSET (Users \cup Chats) /\ listed \subseteq listed' /\ taken' = taken
    BY <1>5, <1>7
  <2> QED BY <1>9, <1>12, <2>1, <2>2, OneBatch
<1>14. Introduced
  <2> SUFFICES ASSUME NEW c \in Batches, NEW x \in New(c), NEW m, m = x.item.msg
               PROVE  /\ m.status # "out" => info'[m.author] = "good" \/ m.author \in untold'[c]
                      /\ m.status = "unread" /\ m.chat = NoChat =>
                           \/ m.author \in listed' \cup taken'[c]
                           \/ info[m.author] = "none" /\ m.author \in untold'[c]
    BY DEF Introduced
  <2>1. c = b /\ t = "done" /\ m \in Of(I)
    BY <1>10, <1>12 DEF New
  <2>2. Finished(s, I, un, taken[b], know, listing, li) /\ m.author \in Users
    BY <1>7, <2>1, OfAre
  <2>3. m.status # "out" => know[m.author] = "good" \/ m.author \in un
    BY <2>1, <2>2 DEF Finished
  <2>4. m.status = "unread" /\ m.chat = NoChat =>
          \/ m.author \in li \cup taken[b]
          \/ info[m.author] = "none" /\ m.author \in un
    <3>1. m.status = "unread" /\ m.chat = NoChat =>
            \/ m.author \in li \cup taken[b]
            \/ s = "buddies" /\ m.author \in listing /\ know[m.author] = "none"
      BY <2>1, <2>2 DEF Finished
    <3>2. s = "buddies" /\ m.author \in listing /\ know[m.author] = "none" =>
            info[m.author] = "none" /\ m.author \in un
      BY <2>2
    <3> QED BY <3>1, <3>2
  <2> QED BY <1>5, <1>8, <2>1, <2>3, <2>4
<1> QED BY <1>13, <1>14

\* After the image p, of a batch that now has the items I.
LEMMA NextImageStep ==
    ASSUME PartsInv, NEW b \in Batches, at[b] \in {"fetch", "images"}, NEW p,
           NEW I \in GoodItems, Images(I) = Images(items[b]),
           NEW br \in SUBSET (Nat \X Nat),
           \A q \in Images(I) : Placeholder("image", q[2]) \in I[q[1]].text => q \in br \/ After(p, q),
           NextImage(b, p, I), connection' = connection, info' = info,
           broken' = [broken EXCEPT ![b] = br], untold' = untold
    PROVE  PartsInv' /\ Introduced
<1>1. Further(b, p) = {q \in Images(I) : After(p, q)}
  BY DEF Further, Images
<1>2. PICK un : un = untold[b]
  OBVIOUS
<1>3. /\ un \in SUBSET (Users \cup Groups) /\ taken[b] \in SUBSET (Users \cup Chats)
      /\ info \in [Things -> Infos] /\ want[b] = {}
      /\ {x \in shown : x.batch = b} = {}
  BY <1>2, OfBatch DEF GoodBatch
<1>4. untold' = [untold EXCEPT ![b] = un]
  BY <1>2 DEF PartsInv, PartsTypes
<1>5. /\ Further(b, p) # {} =>
           GoodBatch("images", I, First(Further(b, p)), {}, br, un, taken[b], info, listed)
      /\ Further(b, p) = {} => Ready("images", I, br, un, taken[b], info, {})
  BY <1>1, <1>3, ImageIsOver
<1>6. CASE Further(b, p) # {}
  <2>1. PICK im : im = First(Further(b, p))
    OBVIOUS
  <2>2. /\ image' = [image EXCEPT ![b] = im] /\ at' = [at EXCEPT ![b] = "images"]
        /\ items' = [items EXCEPT ![b] = I]
        /\ listed' = listed /\ want' = want /\ shown' = shown /\ taken' = taken
    BY <1>6, <2>1 DEF NextImage
  <2>3. /\ image'[b] = im /\ at'[b] = "images" /\ items'[b] = I /\ broken'[b] = br
        /\ untold'[b] = un /\ want'[b] = {} /\ want' = [want EXCEPT ![b] = want'[b]]
    BY <1>3, <1>4, <2>2 DEF PartsInv, PartsTypes
  <2>4. /\ at' = [at EXCEPT ![b] = at'[b]] /\ items' = [items EXCEPT ![b] = items'[b]]
        /\ image' = [image EXCEPT ![b] = image'[b]]
        /\ broken' = [broken EXCEPT ![b] = broken'[b]]
        /\ untold' = [untold EXCEPT ![b] = untold'[b]]
    BY <1>4, <2>2, <2>3
  <2>5. GoodBatch(at'[b], items'[b], image'[b], want'[b], broken'[b], untold'[b], taken[b],
                  info', listed')
    BY <1>5, <1>6, <2>1, <2>2, <2>3
  <2>6. ShownOf(b, shown', at'[b], items'[b])
    BY <1>3, <2>2, <2>3 DEF ShownOf
  <2>7. PartsInv'
    BY <1>3, <2>2, <2>3, <2>4, <2>5, <2>6, OfBatch, OneBatch
  <2> QED BY <2>2, <2>7, NothingShown
<1>7. CASE Further(b, p) = {}
  <2>1. GoOn(b, "images", I, info, {}) /\ Ready("images", I, br, un, taken[b], info, {})
    BY <1>5, <1>7 DEF NextImage
  <2>2. "images" \in InOrder /\ "images" # "buddies" /\ {} \in SUBSET (Users \cup Chats)
    BY DEF InOrder
  <2> QED BY <1>3, <1>4, <2>1, <2>2, GoOnStep
<1> QED BY <1>6, <1>7

LEMMA FetchAnsweredStep ==
    ASSUME PartsInv, NEW b \in Batches, FetchAnswered(b) PROVE PartsInv' /\ Introduced
<1>1. /\ at[b] = "fetch" /\ NextImage(b, NoImage, items[b])
      /\ connection' = connection /\ info' = info /\ broken' = broken /\ untold' = untold
  BY DEF FetchAnswered
<1>2. items[b] \in GoodItems /\ broken[b] \in SUBSET (Nat \X Nat)
  BY OfBatch
<1>3. \A q \in Images(items[b]) : After(NoImage, q)
  <2>1. \A q \in Images(items[b]) : q[1] > 0
    BY <1>2, ImagesAre
  <2>2. NoImage[1] = 0
    BY DEF NoImage
  <2> QED BY <2>1, <2>2 DEF After
<1>4. broken' = [broken EXCEPT ![b] = broken[b]]
  BY <1>1 DEF PartsInv, PartsTypes
<1> QED BY <1>1, <1>2, <1>3, <1>4, NextImageStep

LEMMA ImageLoadedStep ==
    ASSUME PartsInv, NEW b \in Batches, ImageLoaded(b) PROVE PartsInv' /\ Introduced
<1>1. PICK I : I = items[b]
  OBVIOUS
<1>2. PICK p : p = image[b]
  OBVIOUS
<1>3. PICK J : J = [I EXCEPT ![p[1]].text = @ \ {Placeholder("image", p[2])}]
  OBVIOUS
<1>4. /\ at[b] = "images" /\ NextImage(b, p, J)
      /\ connection' = connection /\ info' = info /\ broken' = broken /\ untold' = untold
  BY <1>1, <1>2, <1>3 DEF ImageLoaded
<1>5. /\ I \in GoodItems /\ broken[b] \in SUBSET (Nat \X Nat) /\ p \in Images(I)
      /\ PicturesDone("images", I, p, broken[b])
  BY <1>1, <1>2, <1>4, OfBatch DEF GoodBatch
<1>6. Completes(J, I) /\ Placeholder("image", p[2]) \notin J[p[1]].text
  BY <1>3, <1>5, ImageReplaced
<1>7. J \in GoodItems /\ Images(J) = Images(I)
  BY <1>6, CompletesImages DEF Completes
<1>8. ASSUME NEW q \in Images(J), Placeholder("image", q[2]) \in J[q[1]].text
      PROVE  q \in broken[b] \/ After(p, q)
  <2>1. q \in Images(I) /\ q[1] \in DOMAIN I
    BY <1>5, <1>7, ImagesAre
  <2>2. Placeholder("image", q[2]) \in I[q[1]].text
    BY <1>6, <1>8, <2>1 DEF Completes
  <2>3. q # p
    BY <1>6, <1>8
  <2> QED BY <1>5, <2>1, <2>2, <2>3 DEF PicturesDone
<1>9. broken' = [broken EXCEPT ![b] = broken[b]]
  BY <1>4 DEF PartsInv, PartsTypes
<1> QED BY <1>1, <1>4, <1>5, <1>7, <1>8, <1>9, NextImageStep

LEMMA ImageFailsStep ==
    ASSUME PartsInv, NEW b \in Batches, ImageFails(b) PROVE PartsInv' /\ Introduced
<1>1. PICK br : br = broken[b] \cup {image[b]}
  OBVIOUS
<1>2. /\ at[b] = "images" /\ NextImage(b, image[b], items[b])
      /\ connection' = connection /\ info' = info /\ untold' = untold
      /\ broken' = [broken EXCEPT ![b] = br]
  BY <1>1 DEF ImageFails, PartsInv, PartsTypes
<1>3. /\ items[b] \in GoodItems /\ br \in SUBSET (Nat \X Nat)
      /\ PicturesDone("images", items[b], image[b], broken[b])
  BY <1>1, <1>2, OfBatch DEF GoodBatch
<1>4. \A q \in Images(items[b]) : Placeholder("image", q[2]) \in items[b][q[1]].text =>
        q \in br \/ After(image[b], q)
  BY <1>1, <1>3 DEF PicturesDone
<1> QED BY <1>2, <1>3, <1>4, NextImageStep

LEMMA FetchFailsStep ==
    ASSUME PartsInv, NEW b \in Batches, FetchFails(b) PROVE PartsInv' /\ Introduced
<1>1. /\ at[b] = "fetch" /\ at' = [at EXCEPT ![b] = "cut"] /\ Show(b, items[b])
      /\ connection' = connection /\ info' = info /\ listed' = listed /\ items' = items
      /\ image' = image /\ want' = want /\ broken' = broken /\ untold' = untold /\ taken' = taken
  BY DEF FetchFails, histVars
<1>2. /\ at'[b] = "cut"
      /\ at' = [at EXCEPT ![b] = at'[b]] /\ items' = [items EXCEPT ![b] = items'[b]]
      /\ image' = [image EXCEPT ![b] = image'[b]] /\ want' = [want EXCEPT ![b] = want'[b]]
      /\ broken' = [broken EXCEPT ![b] = broken'[b]]
      /\ untold' = [untold EXCEPT ![b] = untold'[b]]
  BY <1>1 DEF PartsInv, PartsTypes
<1>3. /\ GoodBatch("fetch", items[b], image[b], want[b], broken[b], untold[b], taken[b], info, listed)
      /\ \A x \in shown : x.batch \in Batches
      /\ {x \in shown : x.batch = b} = {}
  BY <1>1, OfBatch
<1>4. GoodBatch("cut", items[b], image[b], want[b], broken[b], untold[b], taken[b], info, listed)
  <2>1. "cut" \notin {"images", "users"} \cup AfterUsers \cup AfterGroups /\ "cut" \in BatchStages
    BY StagesAre DEF AfterUsers, AfterGroups
  <2> QED BY <1>3, <2>1
          DEF GoodBatch, PicturesDone, UsersDone, GroupsDone, AuthorsDone, ListDone
<1>5. /\ ShownOf(b, shown', "cut", items[b])
      /\ \A c \in Batches : c # b => {x \in shown' : x.batch = c} = {x \in shown : x.batch = c}
      /\ \A x \in shown' : x.batch \in Batches
      /\ \A x \in shown' \ shown : x.batch = b
  BY <1>1, <1>3, ShowIs
<1>6. PartsInv'
  <2>1. /\ GoodBatch(at'[b], items'[b], image'[b], want'[b], broken'[b], untold'[b], taken[b],
                     info', listed')
        /\ ShownOf(b, shown', at'[b], items'[b])
    BY <1>1, <1>2, <1>4, <1>5
  <2> QED BY <1>1, <1>2, <1>5, <2>1, OfBatch, OneBatch
<1>7. Introduced
  BY <1>2, <1>5 DEF Introduced, New
<1> QED BY <1>6, <1>7

LEMMA AskedAre ==
    ASSUME PartsInv, NEW b \in Batches, Asking(b)
    PROVE  /\ at[b] \in InOrder /\ at[b] \in {"users"} \cup AfterUsers /\ at[b] # "images"
           /\ Asked(b) \subseteq Things /\ Asked(b) \ Chats \subseteq Users \cup Groups
           /\ at[b] = "users" => Mentioned(items[b]) \cap Users \subseteq Asked(b) \ Chats
           /\ at[b] = "groups" => Mentioned(items[b]) \cap Groups \subseteq Asked(b) \ Chats
           /\ at[b] = "authors" =>
                \A m \in Of(items[b]) : m.status # "out" => m.author \in Asked(b) \ Chats
           /\ at[b] = "buddies" => Asked(b) = want[b] /\ want[b] \cap Users \subseteq Asked(b) \ Chats
<1>1. PICK s : s = at[b]
  OBVIOUS
<1>2. PICK I : I = items[b]
  OBVIOUS
<1>3. s \in {"users", "groups", "chats", "chatlist", "authors", "buddies"}
  BY <1>1 DEF Asking
<1>4. I \in GoodItems /\ want[b] \in SUBSET (Users \cup Chats)
  BY <1>2, OfBatch
<1>5. /\ \A m \in Of(I) : m.author \in Users /\ m.chat \in Chats \cup {NoChat}
      /\ Mentioned(I) \subseteq Users \cup Groups
  BY <1>4, OfAre
<1>6. Users \cap Chats = {} /\ Groups \cap Chats = {}
  BY PartsAssumption
<1>7. CASE s \in {"chatlist", "buddies"}
  <2>1. Asked(b) = want[b]
    BY <1>1, <1>7 DEF Asked
  <2> QED BY <1>1, <1>4, <1>6, <1>7, <2>1 DEF Things, InOrder, AfterUsers
<1>8. CASE s \notin {"chatlist", "buddies"}
  <2>1. Asked(b) = Needed(s, I)
    BY <1>1, <1>2, <1>8 DEF Asked
  <2>2. /\ Needed("users", I) = Mentioned(I) \cap Users
        /\ Needed("groups", I) = Mentioned(I) \cap Groups
        /\ Needed("chats", I) = {m.chat : m \in {k \in Of(I) : k.status # "out"}} \ {NoChat}
        /\ Needed("authors", I) = {m.author : m \in {k \in Of(I) : k.status # "out"}}
    BY DEF Needed
  <2>3. /\ Needed("chats", I) \subseteq Chats
        /\ Needed("authors", I) \subseteq Users
        /\ \A m \in Of(I) : m.status # "out" => m.author \in Needed("authors", I)
    BY <1>5, <2>2
  <2>4. s \in {"users", "groups", "chats", "authors"}
    BY <1>3, <1>8
  <2> QED BY <1>1, <1>2, <1>5, <1>6, <2>1, <2>2, <2>3, <2>4 DEF Things, InOrder, AfterUsers
<1> QED BY <1>7, <1>8

LEMMA AnsweredStep ==
    ASSUME PartsInv, NEW b \in Batches, Answered(b) PROVE PartsInv' /\ Introduced
<1>1. PICK got \in SUBSET Asked(b) :
        LET k == [t \in Things |-> IF t \in got THEN "good" ELSE info[t]]
        IN /\ info' = k
           /\ GoOn(b, at[b], items[b], k, want[b])
           /\ untold' = [untold EXCEPT ![b] = @ \cup {t \in Asked(b) \ Chats : k[t] # "good"}]
  BY DEF Answered
<1>2. PICK know : know = [t \in Things |-> IF t \in got THEN "good" ELSE info[t]]
  OBVIOUS
<1>3. PICK un : un = untold[b] \cup {t \in Asked(b) \ Chats : know[t] # "good"}
  OBVIOUS
<1>4. /\ Asking(b) /\ connection' = connection /\ broken' = broken
      /\ info' = know /\ GoOn(b, at[b], items[b], know, want[b])
      /\ untold' = [untold EXCEPT ![b] = un]
  BY <1>1, <1>2, <1>3 DEF Answered, PartsInv, PartsTypes
<1>5. /\ at[b] \in InOrder /\ at[b] \in {"users"} \cup AfterUsers /\ at[b] # "images"
      /\ Asked(b) \ Chats \subseteq Users \cup Groups
      /\ at[b] = "users" => Mentioned(items[b]) \cap Users \subseteq Asked(b) \ Chats
      /\ at[b] = "groups" => Mentioned(items[b]) \cap Groups \subseteq Asked(b) \ Chats
      /\ at[b] = "authors" =>
           \A m \in Of(items[b]) : m.status # "out" => m.author \in Asked(b) \ Chats
      /\ at[b] = "buddies" => want[b] \cap Users \subseteq Asked(b) \ Chats
  BY <1>4, AskedAre
<1>6. /\ items[b] \in GoodItems /\ want[b] \in SUBSET (Users \cup Chats)
      /\ broken[b] \in SUBSET (Nat \X Nat) /\ untold[b] \in SUBSET (Users \cup Groups)
      /\ info \in [Things -> Infos]
      /\ PicturesDone(at[b], items[b], image[b], broken[b])
      /\ UsersDone(at[b], items[b], untold[b]) /\ GroupsDone(at[b], items[b], untold[b])
      /\ AuthorsDone(at[b], items[b], untold[b], info)
      /\ ListDone(at[b], items[b], want[b], listed, taken[b])
  BY OfBatch DEF GoodBatch
<1>7. know \in [Things -> Infos] /\ \A x \in Things : know[x] \in {"good", info[x]}
  BY <1>2, <1>6 DEF Infos
<1>8. Users \subseteq Things
  BY DEF Things
<1>9. un \in SUBSET (Users \cup Groups) /\ untold[b] \subseteq un
  BY <1>3, <1>5, <1>6
<1>10. \A x \in Asked(b) \ Chats : know[x] # "good" => x \in un
  BY <1>3
<1>11. Ready(at[b], items[b], broken[b], un, taken[b], know, want[b])
  <2>1. \A q \in Images(items[b]) : Placeholder("image", q[2]) \in items[b][q[1]].text => q \in broken[b]
    BY <1>5, <1>6 DEF PicturesDone
  <2>2. UsersDone(at[b], items[b], un) /\ GroupsDone(at[b], items[b], un)
    BY <1>6, <1>9 DEF UsersDone, GroupsDone
  <2>3. /\ at[b] = "users" => \A u \in Mentioned(items[b]) \cap Users : know[u] # "good" => u \in un
        /\ at[b] = "groups" => \A g \in Mentioned(items[b]) \cap Groups : know[g] # "good" => g \in un
    BY <1>5, <1>10
  <2>4. ASSUME at[b] \in {"authors", "buddies"}, NEW m \in Of(items[b]), m.status # "out"
        PROVE  know[m.author] = "good" \/ m.author \in un
    <3>1. CASE at[b] = "authors"
      BY <1>5, <1>10, <2>4, <3>1
    <3>2. CASE at[b] = "buddies"
      <4>1. m.author \in Things
        BY <1>6, <1>8, OfAre
      <4>2. info[m.author] = "good" \/ m.author \in untold[b]
        BY <1>6, <2>4, <3>2 DEF AuthorsDone
      <4> QED BY <1>7, <1>9, <4>1, <4>2
    <3> QED BY <2>4, <3>1, <3>2
  <2>5. at[b] = "buddies" =>
          \A m \in Of(items[b]) : m.status = "unread" /\ m.chat = NoChat =>
              m.author \in want[b] \cup listed \cup taken[b]
    BY <1>6 DEF ListDone
  <2> QED BY <2>1, <2>2, <2>3, <2>4, <2>5 DEF Ready
<1>12. \A u \in Users : info[u] = "good" => know[u] = "good"
  BY <1>7, <1>8
<1>13. at[b] = "buddies" => \A u \in want[b] \cap Users : know[u] = "none" => info[u] = "none" /\ u \in un
  BY <1>5, <1>7, <1>8, <1>10
<1>14. at[b] \notin {"done", "cut"} /\ broken' = [broken EXCEPT ![b] = broken[b]]
  BY <1>4, <1>5 DEF InOrder, PartsInv, PartsTypes
<1>15. /\ at[b] \in InOrder /\ items[b] \in GoodItems /\ know \in [Things -> Infos]
       /\ want[b] \in SUBSET (Users \cup Chats) /\ broken[b] \in SUBSET (Nat \X Nat)
       /\ un \in SUBSET (Users \cup Groups)
  BY <1>5, <1>6, <1>7, <1>9
<1>16. PICK s : s = at[b]
  OBVIOUS
<1>17. PICK I : I = items[b]
  OBVIOUS
<1>18. PICK listing : listing = want[b]
  OBVIOUS
<1>19. GoOn(b, s, I, know, listing)
  BY <1>4, <1>16, <1>17, <1>18
<1>20. Ready(s, I, broken[b], un, taken[b], know, listing)
  BY <1>11, <1>16, <1>17, <1>18
<1>21. /\ s \in InOrder /\ I \in GoodItems /\ listing \in SUBSET (Users \cup Chats)
       /\ broken[b] \in SUBSET (Nat \X Nat) /\ un \in SUBSET (Users \cup Groups)
       /\ know \in [Things -> Infos]
  BY <1>15, <1>16, <1>17, <1>18
<1>22. s = "buddies" => \A u \in listing \cap Users : know[u] = "none" => info[u] = "none" /\ u \in un
  BY <1>13, <1>16, <1>18
<1>23. connection' = connection /\ info' = know /\ untold' = [untold EXCEPT ![b] = un]
  BY <1>4
<1> QED BY <1>12, <1>14, <1>19, <1>20, <1>21, <1>22, <1>23, GoOnStep

\* A batch gets to a stage of which nothing is to be shown.
LEMMA Idle ==
    ASSUME NEW st \in {"none", "fetch", "silent", "closed", "cut"}, NEW I \in GoodItems,
           NEW br \in SUBSET (Nat \X Nat), NEW un \in SUBSET (Users \cup Groups),
           NEW tk \in SUBSET (Users \cup Chats), NEW know, NEW li
    PROVE  GoodBatch(st, I, NoImage, {}, br, un, tk, know, li)
<1>1. st \notin {"images", "users"} \cup AfterUsers \cup AfterGroups /\ st \in BatchStages
  BY StagesAre DEF AfterUsers, AfterGroups
<1>2. NoImage \in Nat \X Nat
  BY DEF NoImage
<1> QED BY <1>1, <1>2 DEF GoodBatch, PicturesDone, UsersDone, GroupsDone, AuthorsDone, ListDone

LEMMA StartBatchStep ==
    ASSUME PartsInv, NEW b \in Batches, StartBatch(b) PROVE PartsInv' /\ Introduced
<1>1. /\ at[b] = "none" /\ at' = [at EXCEPT ![b] = "fetch"]
      /\ connection' = connection /\ info' = info /\ listed' = listed /\ items' = items
      /\ image' = image /\ want' = want /\ shown' = shown
      /\ broken' = broken /\ untold' = untold /\ taken' = taken
  BY DEF StartBatch, histVars
<1>2. /\ at'[b] = "fetch"
      /\ at' = [at EXCEPT ![b] = at'[b]] /\ items' = [items EXCEPT ![b] = items'[b]]
      /\ image' = [image EXCEPT ![b] = image'[b]] /\ want' = [want EXCEPT ![b] = want'[b]]
      /\ broken' = [broken EXCEPT ![b] = broken'[b]]
      /\ untold' = [untold EXCEPT ![b] = untold'[b]]
  BY <1>1 DEF PartsInv, PartsTypes
<1>3. image[b] = NoImage /\ want[b] = {} /\ {x \in shown : x.batch = b} = {}
  BY <1>1, OfBatch DEF GoodBatch
<1>4. GoodBatch("fetch", items[b], NoImage, {}, broken[b], untold[b], taken[b], info, listed)
  BY OfBatch, Idle
<1>5. PartsInv'
  <2>1. /\ GoodBatch(at'[b], items'[b], image'[b], want'[b], broken'[b], untold'[b], taken[b],
                     info', listed')
        /\ ShownOf(b, shown', at'[b], items'[b])
    BY <1>1, <1>2, <1>3, <1>4 DEF ShownOf
  <2> QED BY <1>1, <1>2, <2>1, OfBatch, OneBatch
<1> QED BY <1>1, <1>5, NothingShown

LEMMA ReceiveStep ==
    ASSUME PartsInv, NEW b \in Batches, NEW m \in Receivable, Receive(b, m)
    PROVE  PartsInv' /\ Introduced
<1>1. PICK item : item = Processed(m, Unknown(Users \cup Groups))
  OBVIOUS
<1>2. PICK I : I = Append(items[b], item)
  OBVIOUS
<1>3. /\ at[b] = "fetch" /\ Len(items[b]) < MaxItems /\ items' = [items EXCEPT ![b] = I]
      /\ connection' = connection /\ info' = info /\ listed' = listed /\ at' = at
      /\ image' = image /\ want' = want /\ shown' = shown
      /\ broken' = broken /\ untold' = untold /\ taken' = taken
  BY <1>1, <1>2 DEF Receive, histVars, PartsInv, PartsTypes
<1>4. GoodItem(item) /\ item \in Items
  <2>1. Unknown(Users \cup Groups) \in SUBSET (Users \cup Groups)
    BY DEF Unknown
  <2> QED BY <1>1, <2>1, PartsAssumption DEF GoodItem
<1>5. I \in GoodItems
  <2>1. /\ items[b] \in Seq(Items) /\ DOMAIN items[b] = 1..Len(items[b]) /\ Len(items[b]) \in Nat
        /\ \A i \in DOMAIN items[b] : GoodItem(items[b][i])
    BY OfBatch, ItemIs
  <2>2. I \in Seq(Items) /\ Len(I) = Len(items[b]) + 1 /\ DOMAIN I = 1..Len(items[b]) + 1
    BY <1>2, <1>4, <2>1
  <2>3. \A i \in DOMAIN I : GoodItem(I[i])
    <3>1. \A i \in 1..Len(items[b]) : I[i] = items[b][i]
      BY <1>2, <2>1
    <3>2. I[Len(items[b]) + 1] = item
      BY <1>2, <2>1
    <3>3. \A i \in DOMAIN I : i \in 1..Len(items[b]) \/ i = Len(items[b]) + 1
      BY <2>1, <2>2
    <3> QED BY <1>4, <2>1, <3>1, <3>2, <3>3
  <2>4. Len(I) <= MaxItems
    BY <1>3, <2>1, <2>2, PartsAssumption
  <2> QED BY <2>2, <2>3, <2>4 DEF GoodItems
<1>6. /\ items'[b] = I
      /\ at' = [at EXCEPT ![b] = at'[b]] /\ items' = [items EXCEPT ![b] = items'[b]]
      /\ image' = [image EXCEPT ![b] = image'[b]] /\ want' = [want EXCEPT ![b] = want'[b]]
      /\ broken' = [broken EXCEPT ![b] = broken'[b]]
      /\ untold' = [untold EXCEPT ![b] = untold'[b]]
  BY <1>3 DEF PartsInv, PartsTypes
<1>7. image[b] = NoImage /\ want[b] = {} /\ {x \in shown : x.batch = b} = {}
  BY <1>3, OfBatch DEF GoodBatch
<1>8. GoodBatch("fetch", I, NoImage, {}, broken[b], untold[b], taken[b], info, listed)
  BY <1>5, OfBatch, Idle
<1>9. PartsInv'
  <2>1. /\ GoodBatch(at'[b], items'[b], image'[b], want'[b], broken'[b], untold'[b], taken[b],
                     info', listed')
        /\ ShownOf(b, shown', at'[b], items'[b])
    BY <1>3, <1>6, <1>7, <1>8 DEF ShownOf
  <2> QED BY <1>3, <1>6, <2>1, OfBatch, OneBatch
<1> QED BY <1>3, <1>9, NothingShown

LEMMA FallsSilentStep ==
    ASSUME PartsInv, NEW b \in Batches, FallsSilent(b) PROVE PartsInv' /\ Introduced
<1>1. /\ Asking(b) \/ at[b] = "fetch"
      /\ at' = [at EXCEPT ![b] = "silent"] /\ want' = [want EXCEPT ![b] = {}]
      /\ connection' = connection /\ info' = info /\ listed' = listed /\ items' = items
      /\ image' = image /\ shown' = shown
      /\ broken' = broken /\ untold' = untold /\ taken' = taken
  BY DEF FallsSilent, histVars
<1>2. /\ at'[b] = "silent" /\ want'[b] = {}
      /\ at' = [at EXCEPT ![b] = at'[b]] /\ items' = [items EXCEPT ![b] = items'[b]]
      /\ image' = [image EXCEPT ![b] = image'[b]] /\ want' = [want EXCEPT ![b] = want'[b]]
      /\ broken' = [broken EXCEPT ![b] = broken'[b]]
      /\ untold' = [untold EXCEPT ![b] = untold'[b]]
  BY <1>1 DEF PartsInv, PartsTypes
<1>3. at[b] \notin {"images", "done", "cut"}
  BY <1>1 DEF Asking
<1>4. image[b] = NoImage /\ {x \in shown : x.batch = b} = {}
  BY <1>3, OfBatch DEF GoodBatch
<1>5. GoodBatch("silent", items[b], NoImage, {}, broken[b], untold[b], taken[b], info, listed)
  BY OfBatch, Idle
<1>6. PartsInv'
  <2>1. /\ GoodBatch(at'[b], items'[b], image'[b], want'[b], broken'[b], untold'[b], taken[b],
                     info', listed')
        /\ ShownOf(b, shown', at'[b], items'[b])
    BY <1>1, <1>2, <1>4, <1>5 DEF ShownOf
  <2> QED BY <1>1, <1>2, <2>1, OfBatch, OneBatch
<1> QED BY <1>1, <1>6, NothingShown

\* A step of the rest of the plugin.
LEMMA RestStep ==
    ASSUME PartsInv, connection' \in {"on", "off"},
           at' = at, items' = items, image' = image, want' = want, shown' = shown,
           broken' = broken, untold' = untold,
           taken' \in [Batches -> SUBSET (Users \cup Chats)],
           info' \in [Things -> Infos], \A u \in Users : info[u] = "good" => info'[u] = "good",
           listed' \in SUBSET (Users \cup Chats),
           \A b \in Batches : at[b] = "buddies" => listed \cup taken[b] \subseteq listed' \cup taken'[b]
    PROVE  PartsInv' /\ Introduced
<1>1. PartsTypes'
  BY DEF PartsInv, PartsTypes
<1>2. ASSUME NEW b \in Batches
      PROVE  GoodBatch(at[b], items[b], image[b], want[b], broken[b], untold[b], taken'[b], info', listed')
  <2>1. GoodBatch(at[b], items[b], image[b], want[b], broken[b], untold[b], taken[b], info, listed)
    BY OfBatch
  <2>2. taken'[b] \in SUBSET (Users \cup Chats)
    OBVIOUS
  <2> QED BY <2>1, <2>2, OthersKeep
<1>3. PartsInv'
  BY <1>1, <1>2 DEF PartsInv
<1> QED BY <1>3, NothingShown

LEMMA LearnStep ==
    ASSUME PartsInv, NEW t \in Things, Learn(t) PROVE PartsInv' /\ Introduced
<1>1. PICK i \in {"poor", "good"} :
        /\ info[t] # "good" /\ info' = [info EXCEPT ![t] = i]
        /\ connection' = connection /\ listed' = listed /\ shown' = shown
        /\ at' = at /\ items' = items /\ image' = image /\ want' = want
        /\ broken' = broken /\ untold' = untold /\ taken' = taken
  BY DEF Learn, batchVars, histVars
<1>2. info \in [Things -> Infos]
  BY DEF PartsInv, PartsTypes
<1>3. info' \in [Things -> Infos] /\ \A u \in Users : info[u] = "good" => info'[u] = "good"
  BY <1>1, <1>2 DEF Infos, Things
<1>4. /\ connection' \in {"on", "off"} /\ taken' \in [Batches -> SUBSET (Users \cup Chats)]
      /\ listed' \in SUBSET (Users \cup Chats)
  BY <1>1 DEF PartsInv, PartsTypes
<1> QED BY <1>1, <1>3, <1>4, RestStep

LEMMA AgesStep ==
    ASSUME PartsInv, NEW g \in Groups, Ages(g) PROVE PartsInv' /\ Introduced
<1>1. /\ info' = [info EXCEPT ![g] = "poor"]
      /\ connection' = connection /\ listed' = listed /\ shown' = shown
      /\ at' = at /\ items' = items /\ image' = image /\ want' = want
      /\ broken' = broken /\ untold' = untold /\ taken' = taken
  BY DEF Ages, batchVars, histVars
<1>2. info \in [Things -> Infos] /\ g \in Things /\ g \notin Users
  BY PartsAssumption DEF PartsInv, PartsTypes, Things
<1>3. info' \in [Things -> Infos] /\ \A u \in Users : info[u] = "good" => info'[u] = "good"
  BY <1>1, <1>2 DEF Infos, Things
<1>4. /\ connection' \in {"on", "off"} /\ taken' \in [Batches -> SUBSET (Users \cup Chats)]
      /\ listed' \in SUBSET (Users \cup Chats)
  BY <1>1 DEF PartsInv, PartsTypes
<1> QED BY <1>1, <1>3, <1>4, RestStep

LEMMA ListStep ==
    ASSUME PartsInv, NEW x \in Writers, List(x) \/ Unlist(x) PROVE PartsInv' /\ Introduced
<1>1. x \in Users \cup Chats
  BY PartsAssumption DEF Writers
<1>2. /\ info \in [Things -> Infos] /\ listed \in SUBSET (Users \cup Chats)
      /\ taken \in [Batches -> SUBSET (Users \cup Chats)] /\ connection \in {"on", "off"}
  BY DEF PartsInv, PartsTypes
<1>3. CASE List(x)
  <2>1. /\ listed' = listed \cup {x} /\ connection' = connection /\ info' = info
        /\ shown' = shown /\ at' = at /\ items' = items /\ image' = image /\ want' = want
        /\ broken' = broken /\ untold' = untold /\ taken' = taken
    BY <1>3 DEF List, batchVars, histVars
  <2> QED BY <1>1, <1>2, <2>1, RestStep
<1>4. CASE Unlist(x)
  <2>1. /\ listed' = listed \ {x} /\ connection' = connection /\ info' = info
        /\ shown' = shown /\ at' = at /\ items' = items /\ image' = image /\ want' = want
        /\ broken' = broken /\ untold' = untold
        /\ taken' = [b \in Batches |-> IF at[b] = "buddies" THEN taken[b] \cup {x} ELSE taken[b]]
    BY <1>4 DEF Unlist, batchVars
  <2>2. /\ taken' \in [Batches -> SUBSET (Users \cup Chats)]
        /\ \A b \in Batches : at[b] = "buddies" => taken'[b] = taken[b] \cup {x}
    BY <1>1, <1>2, <2>1
  <2> QED BY <1>2, <2>1, <2>2, RestStep
<1> QED BY <1>3, <1>4

LEMMA LoginStep ==
    ASSUME PartsInv, PartsLogin PROVE PartsInv' /\ Introduced
<1>1. /\ connection' = "on" /\ info' = info /\ listed' = listed /\ shown' = shown
      /\ at' = at /\ items' = items /\ image' = image /\ want' = want
      /\ broken' = broken /\ untold' = untold /\ taken' = taken
  BY DEF PartsLogin, batchVars, histVars
<1> QED BY <1>1, RestStep DEF PartsInv, PartsTypes

\* What vk_close writes of a batch at its last image: nothing is to be asked.
LEMMA ClosingIs ==
    ASSUME PartsInv, NEW b \in Batches, Closing(b),
           NEW left, left = Replaced(items[b], {"users", "groups"}, info),
           NEW know, NEW li
    PROVE  /\ GoodBatch("done", left, NoImage, {}, broken[b] \cup {image[b]}, untold[b], taken[b],
                        know, li)
           /\ Completes(left, items[b])
           /\ \A m \in Of(items[b]) : m.status = "unread" /\ m.chat = NoChat =>
                m.author \in listed \/ (m.author \in ToList("buddies", items[b]) /\ info[m.author] = "good")
<1>1. PICK I : I = items[b]
  OBVIOUS
<1>2. PICK br : br = broken[b] \cup {image[b]}
  OBVIOUS
<1>3. /\ at[b] = "images" /\ Further(b, image[b]) = {} /\ NextStage("images", I, info) = "done"
  BY <1>1 DEF Closing
<1>4. /\ I \in GoodItems /\ br \in SUBSET (Nat \X Nat) /\ untold[b] \in SUBSET (Users \cup Groups)
      /\ taken[b] \in SUBSET (Users \cup Chats)
      /\ PicturesDone("images", I, image[b], broken[b])
  BY <1>1, <1>2, <1>3, OfBatch DEF GoodBatch
<1>5. /\ Ask("users", I, info) = {} /\ Ask("groups", I, info) = {} /\ Ask("buddies", I, info) = {}
  <2>1. /\ "images" \in InOrder /\ "images" \notin {"users", "groups", "buddies"}
        /\ "images" \notin AfterUsers \cup AfterGroups
        /\ "done" \in AfterUsers /\ "done" \in AfterGroups
    BY DEF InOrder, AfterUsers, AfterGroups
  <2> QED BY <1>3, <2>1, Onward
<1>6. Completes(left, I) /\ left \in GoodItems
  BY <1>1, <1>4, ReplacedIs DEF Completes
<1>7. \A q \in Images(left) : Placeholder("image", q[2]) \in left[q[1]].text => q \in br
  <2> SUFFICES ASSUME NEW q \in Images(left), Placeholder("image", q[2]) \in left[q[1]].text
               PROVE  q \in br
    OBVIOUS
  <2>1. q \in Images(I) /\ q[1] \in DOMAIN I
    BY <1>4, <1>6, CompletesImages, ImagesAre
  <2>2. Placeholder("image", q[2]) \in I[q[1]].text
    BY <1>6, <2>1 DEF Completes
  <2>3. ~After(image[b], q)
    BY <1>1, <1>3, <2>1 DEF Further, Images
  <2> QED BY <1>2, <1>4, <2>1, <2>2, <2>3 DEF PicturesDone
<1>8. \A i \in DOMAIN left : \A j \in DOMAIN left[i].users : Placeholder("user", j - 1) \notin left[i].text
  <2> SUFFICES ASSUME NEW i \in DOMAIN I, NEW j \in DOMAIN I[i].users
               PROVE  Placeholder("user", j - 1) \notin left[i].text
    BY <1>6 DEF Completes
  <2>1. info[I[i].users[j]] = "good"
    BY <1>4, <1>5, OfAre, NothingAsked
  <2>2. Placeholder("user", j - 1) \in left[i].text => info[I[i].users[j]] = "none"
    BY <1>1, <1>4, ReplacedIs
  <2> QED BY <2>1, <2>2
<1>9. \A i \in DOMAIN left : \A j \in DOMAIN left[i].groups : Placeholder("group", j - 1) \notin left[i].text
  <2> SUFFICES ASSUME NEW i \in DOMAIN I, NEW j \in DOMAIN I[i].groups
               PROVE  Placeholder("group", j - 1) \notin left[i].text
    BY <1>6 DEF Completes
  <2>1. info[I[i].groups[j]] = "good"
    BY <1>4, <1>5, OfAre, NothingAsked
  <2>2. Placeholder("group", j - 1) \in left[i].text => info[I[i].groups[j]] = "none"
    BY <1>1, <1>4, ReplacedIs
  <2> QED BY <2>1, <2>2
<1>10. NoImage \in Nat \X Nat /\ "done" \in BatchStages
  BY StagesAre DEF NoImage
<1>11. GoodBatch("done", left, NoImage, {}, br, untold[b], taken[b], know, li)
  BY <1>4, <1>6, <1>7, <1>8, <1>9, <1>10
  DEF GoodBatch, PicturesDone, UsersDone, GroupsDone, AuthorsDone, ListDone
<1>12. ASSUME NEW m \in Of(I), m.status = "unread", m.chat = NoChat
       PROVE  m.author \in listed \/ (m.author \in ToList("buddies", I) /\ info[m.author] = "good")
  <2>1. m.author \in UsersToList(I) \cup listed
    BY <1>12 DEF UsersToList, Unread
  <2>2. \A u \in UsersToList(I) : info[u] = "good"
    BY <1>4, <1>5, NothingAsked
  <2> QED BY <1>4, <2>1, <2>2, ListsAre
<1> QED BY <1>1, <1>2, <1>6, <1>11, <1>12

LEMMA CloseStep ==
    ASSUME PartsInv, NEW finishing \in SUBSET Batches, PartsClose(finishing)
    PROVE  PartsInv' /\ Introduced
<1>1. PICK left : left = [b \in finishing |-> Replaced(items[b], {"users", "groups"}, info)]
  OBVIOUS
<1>2. PICK also : also =
        UNION {ToList("chatlist", items[b]) \cup ToList("buddies", items[b]) : b \in finishing}
  OBVIOUS
<1>3. PICK chosen \in [finishing -> SUBSET (1..MaxItems)] :
        /\ \A b \in finishing : chosen[b] \in Written(b, items[b])
        /\ shown' = shown \cup UNION {Entries(b, left[b], chosen[b]) : b \in finishing}
  <2>1. PICK chosen \in [finishing -> SUBSET (1..MaxItems)] :
          /\ \A b \in finishing : chosen[b] \in Written(b, items[b])
          /\ shown' = shown \cup UNION {
               {[batch |-> b, index |-> i,
                 item |-> Replaced(items[b], {"users", "groups"}, info)[i]] : i \in chosen[b]} :
                 b \in finishing}
    BY DEF PartsClose
  <2> QED BY <1>1, <2>1 DEF Entries
<1>4. /\ \A b \in finishing : Closing(b) /\ at[b] = "images"
      /\ connection' = "off"
      /\ info' = [t \in Things |-> "none"]
      /\ listed' = listed \cup {x \in also : info[x] # "none"}
      /\ items' = [b \in Batches |-> IF b \in finishing THEN left[b] ELSE items[b]]
      /\ broken' = [b \in Batches |-> IF b \in finishing THEN broken[b] \cup {image[b]} ELSE broken[b]]
      /\ at' = [b \in Batches |-> IF b \in finishing THEN "done"
                                  ELSE IF at[b] \in {"none"} \cup Over THEN at[b] ELSE "closed"]
      /\ image' = [b \in Batches |-> NoImage]
      /\ want' = [b \in Batches |-> {}]
      /\ untold' = untold /\ taken' = taken
  BY <1>1, <1>2 DEF PartsClose, Closing
<1>5. ASSUME NEW b \in finishing
      PROVE  /\ b \in Batches
             /\ GoodBatch("done", left[b], NoImage, {}, broken[b] \cup {image[b]}, untold[b], taken[b],
                          info', listed')
             /\ Completes(left[b], items[b])
             /\ \A m \in Of(items[b]) : m.status = "unread" /\ m.chat = NoChat =>
                  m.author \in listed \/ (m.author \in ToList("buddies", items[b]) /\ info[m.author] = "good")
  <2>1. Closing(b) /\ left[b] = Replaced(items[b], {"users", "groups"}, info)
    BY <1>1, <1>4
  <2> QED BY <2>1, ClosingIs
<1>6. ASSUME NEW b \in Batches
      PROVE  GoodBatch(at'[b], items'[b], image'[b], want'[b], broken'[b], untold'[b], taken'[b],
                       info', listed')
  <2>1. CASE b \in finishing
    BY <1>4, <1>5, <2>1
  <2>2. CASE b \notin finishing
    <3>1. /\ items'[b] = items[b] /\ broken'[b] = broken[b] /\ untold'[b] = untold[b]
          /\ taken'[b] = taken[b] /\ image'[b] = NoImage /\ want'[b] = {}
          /\ at'[b] = IF at[b] \in {"none"} \cup Over THEN at[b] ELSE "closed"
      BY <1>4, <2>2
    <3>2. /\ GoodBatch(at[b], items[b], image[b], want[b], broken[b], untold[b], taken[b], info, listed)
          /\ items[b] \in GoodItems /\ broken[b] \in SUBSET (Nat \X Nat)
          /\ untold[b] \in SUBSET (Users \cup Groups) /\ taken[b] \in SUBSET (Users \cup Chats)
      BY OfBatch
    <3>3. CASE at[b] = "done"
      <4>1. at'[b] = "done"
        BY <3>1, <3>3 DEF Over
      <4>2. GoodBatch("done", items[b], NoImage, {}, broken[b], untold[b], taken[b], info', listed')
        BY <3>2, <3>3 DEF GoodBatch, AuthorsDone, ListDone
      <4> QED BY <3>1, <4>1, <4>2
    <3>4. CASE at[b] # "done"
      <4>1. at'[b] \in {"none", "fetch", "silent", "closed", "cut"}
        BY <3>1, <3>4 DEF Over
      <4>2. GoodBatch(at'[b], items[b], NoImage, {}, broken[b], untold[b], taken[b], info', listed')
        BY <3>2, <4>1, Idle
      <4> QED BY <3>1, <4>2
    <3> QED BY <3>3, <3>4
  <2> QED BY <2>1, <2>2
<1>7. also \subseteq Users \cup Chats
  <2>1. \A b \in finishing : items[b] \in GoodItems
    BY OfBatch
  <2>2. \A b \in finishing : ToList("chatlist", items[b]) \cup ToList("buddies", items[b]) \subseteq Users \cup Chats
    BY <2>1, ListsAre
  <2> QED BY <1>2, <2>2
<1>8. PartsTypes'
  <2>1. \A b \in Batches :
          /\ at'[b] \in BatchStages /\ items'[b] \in GoodItems
          /\ broken'[b] \in SUBSET (Nat \X Nat)
    BY <1>6 DEF GoodBatch
  <2>2. at' \in [Batches -> BatchStages] /\ items' \in [Batches -> GoodItems]
        /\ broken' \in [Batches -> SUBSET (Nat \X Nat)]
    BY <1>4, <2>1
  <2>3. image' \in [Batches -> Nat \X Nat] /\ want' \in [Batches -> SUBSET (Users \cup Chats)]
    BY <1>4 DEF NoImage
  <2>4. info' \in [Things -> Infos]
    BY <1>4 DEF Infos
  <2>5. listed' \in SUBSET (Users \cup Chats)
    BY <1>4, <1>7 DEF PartsInv, PartsTypes
  <2>6. /\ untold' \in [Batches -> SUBSET (Users \cup Groups)]
        /\ taken' \in [Batches -> SUBSET (Users \cup Chats)]
    BY <1>4 DEF PartsInv, PartsTypes
  <2> QED BY <1>4, <2>2, <2>3, <2>4, <2>5, <2>6 DEF PartsTypes
<1>9. \A b \in finishing : \A s \in Entries(b, left[b], chosen[b]) :
        s.batch = b /\ s.item.msg \in Of(items[b])
  <2> SUFFICES ASSUME NEW b \in finishing, NEW i \in chosen[b]
               PROVE  left[b][i].msg \in Of(items[b])
    BY DEF Entries
  <2>1. i \in DOMAIN items[b]
    BY <1>3 DEF Written
  <2> QED BY <1>5, <2>1 DEF Completes, Of
<1>10. \A s \in shown' \ shown : \E b \in finishing : s.batch = b /\ s.item.msg \in Of(items[b])
  BY <1>3, <1>9
<1>11. ASSUME NEW b \in Batches PROVE ShownOf(b, shown', at'[b], items'[b])
  <2>1. CASE b \in finishing
    <3>1. {s \in shown : s.batch = b} = {}
      BY <1>4, <2>1, OfBatch
    <3>2. {s \in shown' : s.batch = b} = Entries(b, left[b], chosen[b])
      BY <1>3, <1>9, <2>1, <3>1
    <3>3. chosen[b] \in Written(b, items[b])
      BY <1>3, <2>1
    <3>4. chosen[b] \in Written(b, left[b])
      <4>1. Completes(left[b], items[b]) /\ Of(left[b]) = Of(items[b])
        BY <1>5, <2>1, CompletesOf
      <4>2. /\ DOMAIN left[b] = DOMAIN items[b]
            /\ \A i \in DOMAIN items[b] : left[b][i].msg = items[b][i].msg
        BY <4>1 DEF Completes
      <4> QED BY <3>3, <4>1, <4>2 DEF Written
    <3>5. at'[b] = "done" /\ items'[b] = left[b]
      BY <1>4, <2>1
    <3> QED BY <3>2, <3>4, <3>5 DEF ShownOf
  <2>2. CASE b \notin finishing
    <3>1. {s \in shown' : s.batch = b} = {s \in shown : s.batch = b}
      BY <1>3, <1>9, <2>2
    <3>2. items'[b] = items[b] /\ (at'[b] \in {"done", "cut"} <=> at[b] \in {"done", "cut"})
      BY <1>4, <2>2 DEF Over
    <3> QED BY <3>1, <3>2, OfBatch DEF ShownOf
  <2> QED BY <2>1, <2>2
<1>12. \A s \in shown' : s.batch \in Batches
  BY <1>5, <1>10, OfBatch DEF PartsInv
<1>13. PartsInv'
  BY <1>6, <1>8, <1>11, <1>12 DEF PartsInv
<1>14. Introduced
  <2> SUFFICES ASSUME NEW b \in Batches, NEW s \in New(b), NEW m, m = s.item.msg,
                      m.status = "unread", m.chat = NoChat
               PROVE  m.author \in listed'
    BY <1>4 DEF Introduced
  <2>1. b \in finishing /\ m \in Of(items[b])
    BY <1>10 DEF New
  <2>2. m.author \in listed \/ (m.author \in ToList("buddies", items[b]) /\ info[m.author] = "good")
    BY <1>5, <2>1
  <2> QED BY <1>2, <1>4, <2>1, <2>2
<1> QED BY <1>13, <1>14

(***************************************************************************)
(* The theorems about MessageParts                                         *)
(***************************************************************************)
LEMMA PartsStart == PartsInit => PartsInv
<1> SUFFICES ASSUME PartsInit PROVE PartsInv
  OBVIOUS
<1>1. /\ connection = "off" /\ info = [t \in Things |-> "none"] /\ listed = {} /\ shown = {}
      /\ at = [b \in Batches |-> "none"] /\ items = [b \in Batches |-> <<>>]
      /\ image = [b \in Batches |-> NoImage] /\ want = [b \in Batches |-> {}]
      /\ broken = [b \in Batches |-> {}] /\ untold = [b \in Batches |-> {}]
      /\ taken = [b \in Batches |-> {}]
  BY DEF PartsInit
<1>2. <<>> \in GoodItems
  BY PartsAssumption DEF GoodItems
<1>3. PartsTypes
  <2>1. "none" \in BatchStages /\ NoImage \in Nat \X Nat
    BY StagesAre DEF NoImage
  <2> QED BY <1>1, <1>2, <2>1 DEF PartsTypes, Infos
<1>4. \A b \in Batches :
        GoodBatch(at[b], items[b], image[b], want[b], broken[b], untold[b], taken[b], info, listed)
  BY <1>1, <1>2, Idle
<1> QED BY <1>1, <1>3, <1>4 DEF PartsInv, ShownOf

LEMMA PartsStep == PartsInv /\ [PartsNext]_partsVars => PartsInv' /\ Introduced
<1> SUFFICES ASSUME PartsInv, [PartsNext]_partsVars PROVE PartsInv' /\ Introduced
  OBVIOUS
<1>1. CASE \E b \in Batches :
             \/ StartBatch(b)
             \/ \E m \in Receivable : Receive(b, m)
             \/ Progress(b)
  BY <1>1, StartBatchStep, ReceiveStep, FetchAnsweredStep, FetchFailsStep, ImageLoadedStep,
     ImageFailsStep, AnsweredStep, FallsSilentStep DEF Progress
<1>2. CASE \E t \in Things : Learn(t)
  BY <1>2, LearnStep
<1>3. CASE \E g \in Groups : Ages(g)
  BY <1>3, AgesStep
<1>4. CASE \E x \in Writers : List(x) \/ Unlist(x)
  BY <1>4, ListStep
<1>5. CASE PartsLogin
  BY <1>5, LoginStep
<1>6. CASE \E finishing \in SUBSET Batches : PartsClose(finishing)
  BY <1>6, CloseStep
<1>7. CASE UNCHANGED partsVars
  <2>1. /\ connection' = connection /\ info' = info /\ listed' = listed /\ shown' = shown
        /\ at' = at /\ items' = items /\ image' = image /\ want' = want
        /\ broken' = broken /\ untold' = untold /\ taken' = taken
    BY <1>7 DEF partsVars, batchVars, histVars
  <2> QED BY <2>1, RestStep DEF PartsInv, PartsTypes
<1> QED BY <1>1, <1>2, <1>3, <1>4, <1>5, <1>6, <1>7 DEF PartsNext

LEMMA PartsInvAlways == PartsSpec => []PartsInv
<1>1. PartsInv /\ [PartsNext]_partsVars => PartsInv'
  BY PartsStep
<1> QED BY <1>1, PartsStart, PTL DEF PartsSpec

LEMMA InvTypes == PartsInv => PartsTypeOK
<1> SUFFICES ASSUME PartsInv PROVE PartsTypeOK
  OBVIOUS
<1>1. ASSUME NEW b \in Batches
      PROVE  /\ Len(items[b]) <= MaxItems
             /\ \A i \in DOMAIN items[b] : GoodItem(items[b][i])
             /\ image[b] # NoImage <=> at[b] = "images"
             /\ want[b] \in SUBSET (Users \cup Chats)
             /\ want[b] # {} => at[b] \in {"chatlist", "buddies"}
             /\ untold[b] \in SUBSET (Users \cup Groups)
  <2>1. GoodBatch(at[b], items[b], image[b], want[b], broken[b], untold[b], taken[b], info, listed)
    BY OfBatch
  <2>2. ASSUME at[b] = "images" PROVE image[b] # NoImage
    <3>1. image[b][1] > 0
      BY <2>1, <2>2, ImagesAre DEF GoodBatch
    <3> QED BY <3>1 DEF NoImage
  <2> QED BY <2>1, <2>2 DEF GoodBatch, GoodItems
<1> QED BY <1>1 DEF PartsInv, PartsTypes, PartsTypeOK

LEMMA InvReplaced == PartsInv => PlaceholdersAreReplaced
<1> SUFFICES ASSUME PartsInv, NEW s \in shown, at[s.batch] # "cut", NEW p \in s.item.text
             PROVE  CASE p.kind = "image" -> <<s.index, p.at>> \in broken[s.batch]
                      [] p.kind = "user"  -> s.item.users[p.at + 1] \in untold[s.batch]
                      [] p.kind = "group" -> s.item.groups[p.at + 1] \in untold[s.batch]
  BY DEF PlaceholdersAreReplaced
<1>1. PICK b \in Batches : b = s.batch
  BY DEF PartsInv
<1>2. PICK I : I = items[b]
  OBVIOUS
<1>3. /\ GoodBatch(at[b], I, image[b], want[b], broken[b], untold[b], taken[b], info, listed)
      /\ I \in GoodItems /\ ShownOf(b, shown, at[b], I) /\ s \in {x \in shown : x.batch = b}
  BY <1>1, <1>2, OfBatch
<1>4. at[b] = "done" /\ \E chosen \in Written(b, I) : s \in Entries(b, I, chosen)
  BY <1>1, <1>3 DEF ShownOf
<1>5. PICK i \in DOMAIN I : s = [batch |-> b, index |-> i, item |-> I[i]]
  BY <1>4 DEF Entries, Written
<1>6. /\ s.index = i /\ s.item = I[i] /\ p \in I[i].text /\ GoodItem(I[i])
      /\ I[i].images \in Nat
  BY <1>3, <1>5, ItemIs
<1>7. /\ PicturesDone("done", I, image[b], broken[b])
      /\ UsersDone("done", I, untold[b]) /\ GroupsDone("done", I, untold[b])
      /\ "done" \in AfterUsers /\ "done" \in AfterGroups /\ "done" # "images"
  BY <1>3, <1>4 DEF GoodBatch, AfterUsers, AfterGroups
<1>8. \/ \E j \in 0 .. I[i].images - 1 : p = Placeholder("image", j)
      \/ \E j \in DOMAIN I[i].users : p = Placeholder("user", j - 1)
      \/ \E j \in DOMAIN I[i].groups : p = Placeholder("group", j - 1)
  BY <1>6 DEF GoodItem
<1>9. CASE \E j \in 0 .. I[i].images - 1 : p = Placeholder("image", j)
  <2>1. PICK j \in 0 .. I[i].images - 1 : p = Placeholder("image", j)
    BY <1>9
  <2>2. p.kind = "image" /\ p.at = j
    BY <2>1 DEF Placeholder
  <2>3. PICK q : q = <<i, j>>
    OBVIOUS
  <2>4. q \in Images(I) /\ q[1] = i /\ q[2] = j
    BY <1>3, <2>3, ImagesAre
  <2>5. q \in broken[b]
    BY <1>6, <1>7, <2>1, <2>4 DEF PicturesDone
  <2> QED BY <1>1, <1>6, <2>2, <2>3, <2>5
<1>10. CASE \E j \in DOMAIN I[i].users : p = Placeholder("user", j - 1)
  <2>1. PICK j \in DOMAIN I[i].users : p = Placeholder("user", j - 1)
    BY <1>10
  <2>2. p.kind = "user" /\ p.at = j - 1
    BY <2>1 DEF Placeholder
  <2>3. j \in Nat /\ p.at + 1 = j
    BY <1>3, <2>2, ItemIs
  <2>4. I[i].users[j] \in untold[b]
    BY <1>6, <1>7, <2>1 DEF UsersDone
  <2> QED BY <1>1, <1>6, <2>2, <2>3, <2>4
<1>11. CASE \E j \in DOMAIN I[i].groups : p = Placeholder("group", j - 1)
  <2>1. PICK j \in DOMAIN I[i].groups : p = Placeholder("group", j - 1)
    BY <1>11
  <2>2. p.kind = "group" /\ p.at = j - 1
    BY <2>1 DEF Placeholder
  <2>3. j \in Nat /\ p.at + 1 = j
    BY <1>3, <2>2, ItemIs
  <2>4. I[i].groups[j] \in untold[b]
    BY <1>6, <1>7, <2>1 DEF GroupsDone
  <2> QED BY <1>1, <1>6, <2>2, <2>3, <2>4
<1> QED BY <1>8, <1>9, <1>10, <1>11

LEMMA InvOnce == PartsInv => EachOnce
<1> SUFFICES ASSUME PartsInv, NEW b \in Batches, NEW m \in Receivable
             PROVE  Cardinality({s \in shown : s.batch = b /\ s.item.msg = m}) =
                      IF at[b] \in {"done", "cut"} /\ m \in Of(items[b]) THEN 1 ELSE 0
  BY DEF EachOnce
<1>1. PICK I : I = items[b]
  OBVIOUS
<1>2. PICK mine : mine = {s \in shown : s.batch = b /\ s.item.msg = m}
  OBVIOUS
<1>3. mine = {s \in {x \in shown : x.batch = b} : s.item.msg = m}
  BY <1>2
<1>4. ShownOf(b, shown, at[b], I)
  BY <1>1, OfBatch
<1>5. CASE at[b] \notin {"done", "cut"}
  <2>1. mine = {}
    BY <1>3, <1>4, <1>5 DEF ShownOf
  <2> QED BY <1>2, <1>5, <2>1, FS_EmptySet
<1>6. CASE at[b] \in {"done", "cut"}
  <2>1. PICK chosen \in Written(b, I) : {s \in shown : s.batch = b} = Entries(b, I, chosen)
    BY <1>4, <1>6 DEF ShownOf
  <2>2. mine = {s \in Entries(b, I, chosen) : s.item.msg = m}
    BY <1>3, <2>1
  <2>3. /\ \A s \in mine : \E i \in chosen : s = [batch |-> b, index |-> i, item |-> I[i]] /\ I[i].msg = m
        /\ \A i \in chosen : I[i].msg = m => [batch |-> b, index |-> i, item |-> I[i]] \in mine
    BY <2>2 DEF Entries
  <2>4. /\ {I[i].msg : i \in chosen} = Of(I)
        /\ \A i, j \in chosen : I[i].msg = I[j].msg => i = j
    BY <2>1 DEF Written
  <2>5. CASE m \in Of(I)
    <3>1. PICK i \in chosen : I[i].msg = m
      BY <2>4, <2>5
    <3>2. mine = {[batch |-> b, index |-> i, item |-> I[i]]}
      BY <2>3, <2>4, <3>1
    <3>3. Cardinality(mine) = 1
      BY <3>2, FS_Singleton
    <3> QED BY <1>1, <1>2, <1>6, <2>5, <3>3
  <2>6. CASE m \notin Of(I)
    <3>1. mine = {}
      BY <2>3, <2>4, <2>6
    <3>2. Cardinality(mine) = 0
      BY <3>1, FS_EmptySet
    <3> QED BY <1>1, <1>2, <2>6, <3>2
  <2> QED BY <2>5, <2>6
<1> QED BY <1>5, <1>6

\* Whatever is learned, listed or removed by others in the meantime, what is
\* shown of a batch is all of it, each message once, with no placeholder but
\* those of images that could not be downloaded and of whom the server did not
\* tell: the stages of finish_receiving (vk-message-recv.cpp) leave none.
THEOREM BatchesAreShown == PartsSpec => []ShownInv
<1>1. PartsInv => ShownInv
  BY InvTypes, InvReplaced, InvOnce DEF ShownInv
<1> QED BY <1>1, PartsInvAlways, PTL

\* When the messages of a batch are written, the names of their authors are
\* known and those who may be answered are in the buddy list, unless the server
\* did not tell, or entries were removed at the last stage.
THEOREM IntroducedFirst == PartsSpec => AuthorsAreIntroduced
<1>1. ASSUME PartsInv, [PartsNext]_partsVars
      PROVE  /\ \A b \in Batches : \A s \in New(b) :
                  LET m == s.item.msg
                  IN m.status # "out" /\ connection' = "on" =>
                       info'[m.author] = "good" \/ m.author \in untold'[b]
             /\ \A b \in Batches : \A s \in New(b) :
                  LET m == s.item.msg
                  IN m.status = "unread" /\ m.chat = NoChat =>
                       \/ m.author \in listed' \cup taken'[b]
                       \/ info[m.author] = "none" /\ m.author \in untold'[b]
  <2>1. Introduced
    BY <1>1, PartsStep
  <2> QED BY <2>1 DEF Introduced
<1> QED BY <1>1, PartsInvAlways, PTL
        DEF PartsSpec, AuthorsAreIntroduced, AuthorsAreKnown, AuthorsAreListed

=============================================================================
